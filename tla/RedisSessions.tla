--------------------------- MODULE RedisSessions ---------------------------
(***************************************************************************)
(* A call whose session is kept in Redis (REDIS_URL set) by several        *)
(* instances of the service: RedisSessionManager, and what the engine and  *)
(* the Twilio webhooks make of it.  A session read back is a copy, and its *)
(* agent_config, declared Any, comes back from the JSON as a dictionary.   *)
(* get is two commands (GET, SETEX), between which anything may happen.    *)
(* Call records stay in an instance's memory.  Calls share nothing here,   *)
(* prune being empty, so there is one.  Besides Twilio, whoever asks for   *)
(* the call's report reads its session, at any time: that is a get like    *)
(* the others, and writes back too.  A request's `pc' names the command    *)
(* or HTTP request it waits for, and a step is the effect of that and the  *)
(* code up to the next.                                                    *)
(***************************************************************************)
EXTENDS Integers, FiniteSets

CONSTANTS
    Instances, \* processes sharing the Redis server
    Requests,  \* slots for the HTTP requests in progress
    NoSession, \* the key does not exist
    TTL,       \* ttl_seconds, in ticks
    MaxTurns   \* bound: turn_count

ASSUME NumbersAssumption == TTL \in Nat \ {0} /\ MaxTurns \in Nat \ {0}
ASSUME InstancesAssumption == Instances # {}
ASSUME NoSessionAssumption == NoSession \notin Int

VARIABLES
    playback, \* public_base_url is set: replies are played, not read by Twilio
    stored,   \* turn_count of the session under the key, or NoSession
    left,     \* ticks until Redis removes the key
    record,   \* what each instance's CallStore knows of the call
    req,      \* the requests
    phase,    \* what Twilio is doing with the call
    answered, \* history: turns answered since start_session that no report asked
              \* for has undone
    removed,  \* history: the session was removed while the key was in use
    raised    \* history: a plain agent_config was used as an AgentConfig

vars == <<playback, stored, left, record, req, phase, answered, removed, raised>>

Sessions == (0..MaxTurns) \cup {NoSession}
Hooks == {"silent", "speech"}
Request == [
    pc : {"idle", "get", "touch", "drop", "fetch", "store", "greet", "refresh", "model",
          "save", "delete"},
    kind : Hooks \cup {"status", "report"},
    at : Instances,
    next : {"has", "turn", "again", "play", "sorry", "end", "report"}, \* who called get
    copy : Sessions,
    hangup : BOOLEAN]
Phase == {"idle", "asking", "listening", "over", "closed", "lost"}

TypeOK ==
    /\ playback \in BOOLEAN
    /\ stored \in Sessions /\ left \in 0..TTL
    /\ stored = NoSession <=> left = 0
    /\ record \in [Instances -> {"none", "open", "ended"}]
    /\ req \in [Requests -> Request]
    /\ phase \in Phase
    /\ answered \in 0..MaxTurns
    /\ removed \in BOOLEAN /\ raised \in BOOLEAN

Arrived(kind, i, pc, next) ==
    [pc |-> pc, kind |-> kind, at |-> i, next |-> next, copy |-> NoSession, hangup |-> FALSE]
NoRequest == Arrived("silent", CHOOSE i \in Instances : TRUE, "idle", "has")

Init ==
    /\ playback \in BOOLEAN
    /\ stored = NoSession /\ left = 0
    /\ record = [i \in Instances |-> "none"]
    /\ req = [r \in Requests |-> NoRequest]
    /\ phase = "idle"
    /\ answered = 0
    /\ removed = FALSE /\ raised = FALSE

-----------------------------------------------------------------------------
(* Redis commands, and where a request goes next.                          *)

SetEx(turns) == stored' = turns /\ left' = TTL
Del == stored' = NoSession /\ left' = 0
KeyUnchanged == UNCHANGED <<stored, left>>

Move(r, q) == req' = [req EXCEPT ![r] = q]
Wait(r, pc) == Move(r, [req[r] EXCEPT !.pc = pc])
\* await self.sessions.get(call_id), for the caller named by next
Read(r, next) ==
    Move(r, [req[r] EXCEPT !.pc = "get", !.next = next, !.copy = NoSession])

\* The HTTP response; a webhook's tells Twilio what to do with the call.
Respond(r, then) ==
    /\ Move(r, NoRequest)
    /\ phase' = IF req[r].kind \in Hooks /\ phase = "asking" THEN then ELSE phase

Answer(r) == Respond(r, IF req[r].hangup THEN "over" ELSE "listening")

\* Mistake: the callback is tried again when it has failed.
FailRetries(r) ==
    IF req[r].kind = "status" THEN Read(r, "end") /\ UNCHANGED phase
    ELSE IF req[r].kind \in Hooks /\ playback /\ req[r].next # "sorry"
    THEN Read(r, "sorry") /\ UNCHANGED phase
    ELSE Respond(r, IF playback THEN "over" ELSE "listening")

\* A handler raised.  The incoming webhook apologises, for which it looks up
\* the session's voice.  If that raises too, or in the callback, the answer is
\* status 500, and Twilio ends a call so answered.
Fail(r) ==
    IF req[r].kind \in Hooks /\ playback /\ req[r].next # "sorry"
    THEN Read(r, "sorry") /\ UNCHANGED phase
    ELSE Respond(r, IF playback THEN "over" ELSE "listening")

\* The reply is known: find the voice to speak it in, or answer with text.
Speak(r) ==
    IF playback THEN Read(r, "play") /\ UNCHANGED phase
    ELSE IF req[r].hangup THEN Read(r, "end") /\ UNCHANGED phase
    ELSE Answer(r)

\* get returned None
Missing(r) ==
    \/ /\ req[r].next \in {"has", "turn"}
       /\ Wait(r, "fetch") /\ UNCHANGED phase
    \/ /\ req[r].next = "again"
       /\ Fail(r)
    \/ /\ req[r].next = "play"
       /\ IF req[r].hangup THEN Read(r, "end") /\ UNCHANGED phase ELSE Answer(r)
    \/ /\ req[r].next \in {"sorry", "report"}
       /\ Respond(r, "listening")
    \/ /\ req[r].next = "end"
       /\ Wait(r, "delete") /\ UNCHANGED phase

-----------------------------------------------------------------------------
(* RedisSessionManager.get.                                                *)

\* GET finds no key
GetNothing(r) ==
    /\ req[r].pc = "get" /\ stored = NoSession
    /\ Missing(r)
    /\ KeyUnchanged
    /\ UNCHANGED <<playback, record, answered, removed, raised>>

\* GET finds the key: parsed, touched, and about to be written back
GetValue(r) ==
    /\ req[r].pc = "get" /\ stored # NoSession
    /\ Move(r, [req[r] EXCEPT !.pc = "touch", !.copy = stored])
    /\ KeyUnchanged
    /\ UNCHANGED <<playback, record, phase, answered, removed, raised>>

Written(r, next) ==
    /\ req[r].pc = "touch" /\ req[r].next = next
    /\ SetEx(req[r].copy)
    /\ UNCHANGED <<playback, answered, removed>>

\* Mistake: a call without a record on this instance is taken for a new one.
KnownHere(r) ==
    /\ Written(r, "has")
    /\ IF record[req[r].at] = "none" THEN Wait(r, "fetch") /\ UNCHANGED phase
       ELSE IF req[r].kind = "silent" THEN Speak(r)
       ELSE Read(r, "turn") /\ UNCHANGED phase
    /\ UNCHANGED <<record, raised>>

\* has_session is true
Known(r) ==
    /\ Written(r, "has")
    /\ IF req[r].kind = "silent" THEN Speak(r) ELSE Read(r, "turn") /\ UNCHANGED phase
    /\ UNCHANGED <<record, raised>>

\* process_user_input has a session whose context is due for a refresh.  When
\* it is due is open here: the time stamps are one host's monotonic clock.
TurnStale(r) ==
    /\ \E next \in {"turn", "again"} : Written(r, next)
    /\ Wait(r, "refresh")
    /\ UNCHANGED <<record, phase, raised>>

\* The context is not due: the turn goes on with the plain agent_config, in
\* which _update_language_preference looks for an attribute.
TurnPlain(r) ==
    /\ \E next \in {"turn", "again"} : Written(r, next)
    /\ Fail(r)
    /\ raised' = TRUE
    /\ UNCHANGED record

\* _build_play_url asks the plain agent_config for a voice.
VoicePlain(r) ==
    /\ \E next \in {"play", "sorry"} : Written(r, next)
    /\ Fail(r)
    /\ raised' = TRUE
    /\ UNCHANGED record

\* end_call closes the record and fails over the report's business_name.
EndPlain(r) ==
    /\ Written(r, "end")
    /\ record[req[r].at] # "none"
    /\ record' = [record EXCEPT ![req[r].at] = "ended"]
    /\ Fail(r)
    /\ raised' = TRUE

\* This instance has no record of the call: nothing is reported.
EndUnknown(r) ==
    /\ Written(r, "end")
    /\ record[req[r].at] = "none"
    /\ Wait(r, "delete")
    /\ UNCHANGED <<record, phase, raised>>

\* A report's copy may be older than the turns answered since: they are undone.
WrittenBack(r) ==
    /\ SetEx(req[r].copy)
    /\ answered' = IF req[r].kind = "report" /\ req[r].copy < answered
                   THEN req[r].copy ELSE answered

\* build_call_report asks the plain agent_config for the business_name.
ReportPlain(r) ==
    /\ req[r].pc = "touch" /\ req[r].next = "report"
    /\ WrittenBack(r)
    /\ Fail(r)
    /\ raised' = TRUE
    /\ UNCHANGED <<playback, record, removed>>

\* SETEX raised, before or after its effect: get takes the session for undecodable
TouchFails(r) ==
    /\ req[r].pc = "touch"
    /\ Wait(r, "drop")
    /\ (KeyUnchanged /\ UNCHANGED answered) \/ WrittenBack(r)
    /\ UNCHANGED <<playback, record, phase, removed, raised>>

\* and deletes it
Drop(r) ==
    /\ req[r].pc = "drop"
    /\ Del
    /\ Missing(r)
    /\ removed' = TRUE
    /\ UNCHANGED <<playback, record, answered, raised>>

\* A command that nothing guards raised, before or after its effect.
CommandFails(r) ==
    /\ Fail(r)
    /\ \/ /\ req[r].pc \in {"get", "drop", "store", "save", "delete"}
          /\ KeyUnchanged
          /\ UNCHANGED <<answered, removed>>
       \/ /\ req[r].pc \in {"drop", "delete"}
          /\ Del
          /\ removed' = TRUE
          /\ UNCHANGED answered
       \/ /\ req[r].pc = "store"
          /\ SetEx(0)
          /\ answered' = 0
          /\ UNCHANGED removed
       \/ /\ req[r].pc = "save"
          /\ SetEx(req[r].copy)
          /\ UNCHANGED <<answered, removed>>
    /\ UNCHANGED <<playback, record, raised>>

-----------------------------------------------------------------------------
(* The engine.                                                             *)

\* start_session: the configuration is fetched, or the fetch raises.
Fetched(r) ==
    /\ req[r].pc = "fetch"
    /\ \/ Wait(r, "store") /\ UNCHANGED phase
       \/ Fail(r)
    /\ KeyUnchanged
    /\ UNCHANGED <<playback, record, answered, removed, raised>>

\* the new session is saved, and the call recorded here
Start(r) ==
    /\ req[r].pc = "store"
    /\ SetEx(0)
    /\ record' = [record EXCEPT ![req[r].at] = IF @ = "none" THEN "open" ELSE @]
    /\ answered' = 0
    /\ Wait(r, "greet")
    /\ UNCHANGED <<playback, phase, removed, raised>>

\* the greeting has its audio: speak it, or go on with the caller's words
Greeted(r) ==
    /\ req[r].pc = "greet"
    /\ \/ req[r].next = "turn" /\ Read(r, "again") /\ UNCHANGED phase
       \/ /\ req[r].next = "has" /\ req[r].kind = "speech"
          /\ Read(r, "turn") /\ UNCHANGED phase
       \/ /\ req[r].next = "has" /\ req[r].kind = "silent"
          /\ Speak(r)
    /\ KeyUnchanged
    /\ UNCHANGED <<playback, record, answered, removed, raised>>

\* the refreshed configuration is an AgentConfig again: the words are recorded
UserTurn(r) ==
    /\ req[r].pc = "refresh" /\ req[r].copy < MaxTurns
    /\ Move(r, [req[r] EXCEPT !.pc = "model", !.copy = @ + 1])
    /\ KeyUnchanged
    /\ UNCHANGED <<playback, record, phase, answered, removed, raised>>

\* the model has answered
ModelTurn(r) ==
    /\ req[r].pc = "model"
    /\ \E hangup \in BOOLEAN : Move(r, [req[r] EXCEPT !.pc = "save", !.hangup = hangup])
    /\ KeyUnchanged
    /\ UNCHANGED <<playback, record, phase, answered, removed, raised>>

\* Mistake: the session is saved as it was before the turn.
SaveEarly(r) ==
    /\ req[r].pc = "save"
    /\ SetEx(req[r].copy - 1)
    /\ answered' = IF answered < MaxTurns THEN answered + 1 ELSE answered
    /\ Speak(r)
    /\ UNCHANGED <<playback, record, removed, raised>>

\* the turn is saved whole
Save(r) ==
    /\ req[r].pc = "save"
    /\ SetEx(req[r].copy)
    /\ answered' = IF answered < MaxTurns THEN answered + 1 ELSE answered
    /\ Speak(r)
    /\ UNCHANGED <<playback, record, removed, raised>>

\* end_call's last command
Delete(r) ==
    /\ req[r].pc = "delete"
    /\ Del
    /\ removed' = TRUE
    /\ Answer(r)
    /\ UNCHANGED <<playback, record, answered, raised>>

EngineStep(r) ==
    \/ GetNothing(r) \/ GetValue(r) \/ Known(r) \/ TurnStale(r) \/ TurnPlain(r)
    \/ VoicePlain(r) \/ EndPlain(r) \/ EndUnknown(r) \/ ReportPlain(r)
    \/ TouchFails(r) \/ Drop(r) \/ CommandFails(r)
    \/ Fetched(r) \/ Start(r) \/ Greeted(r)
    \/ UserTurn(r) \/ ModelTurn(r) \/ Save(r) \/ Delete(r)

-----------------------------------------------------------------------------
(* Twilio, time, and failures.                                             *)

Arrive(r, i, kind, pc, next) ==
    /\ req[r].pc = "idle"
    /\ Move(r, Arrived(kind, i, pc, next))
    /\ KeyUnchanged
    /\ UNCHANGED <<playback, record, answered, removed, raised>>

\* Twilio posts one incoming webhook at a time, to whichever instance.
Incoming(r, i) ==
    /\ phase \in {"idle", "listening"}
    /\ \E kind \in IF phase = "idle" THEN {"silent"} ELSE Hooks : Arrive(r, i, kind, "get", "has")
    /\ phase' = "asking"

\* The terminal status callback
Status(r, i) ==
    /\ phase = "over"
    /\ Arrive(r, i, "status", "get", "end")
    /\ phase' = "closed"

\* Somebody asks for the call's report, or for it to be pushed.
Report(r, i) ==
    /\ Arrive(r, i, "report", "get", "report")
    /\ UNCHANGED phase

\* The caller hangs up, or Twilio has waited too long.
CallEnds ==
    /\ phase \in {"asking", "listening"}
    /\ phase' = "over"
    /\ KeyUnchanged
    /\ UNCHANGED <<playback, record, req, answered, removed, raised>>

StatusLost ==
    /\ phase = "over"
    /\ phase' = "lost"
    /\ KeyUnchanged
    /\ UNCHANGED <<playback, record, req, answered, removed, raised>>

\* An instance dies and is started again: its requests and records are gone.
Restart(i) ==
    /\ record' = [record EXCEPT ![i] = "none"]
    /\ req' = [r \in Requests |-> IF req[r].at = i THEN NoRequest ELSE req[r]]
    /\ phase' = IF \E r \in Requests : req[r].at = i /\ req[r].pc # "idle" /\ phase = "asking"
                                          /\ req[r].kind \in Hooks
                THEN "over" ELSE phase
    /\ KeyUnchanged
    /\ UNCHANGED <<playback, answered, removed, raised>>

\* Redis counts the key's time down, and removes it.
Tick ==
    /\ left > 0
    /\ left' = left - 1
    /\ stored' = IF left = 1 THEN NoSession ELSE stored
    /\ removed' = (removed \/ left = 1)
    /\ UNCHANGED <<playback, record, req, phase, answered, raised>>

Next ==
    \/ \E r \in Requests : EngineStep(r)
    \/ \E r \in Requests, i \in Instances :
          Incoming(r, i) \/ Status(r, i) \/ Report(r, i)
    \/ CallEnds \/ StatusLost \/ Tick
    \/ \E i \in Instances : Restart(i)

Spec == Init /\ [][Next]_vars
\* Time passes in Redis.  Nothing else need happen.
FairSpec == Spec /\ WF_vars(Tick)

-----------------------------------------------------------------------------
(* Properties.                                                             *)

\* Whatever instances answer a call and are restarted meanwhile, the session
\* in Redis holds every turn answered in it that no report asked for meanwhile
\* has undone with an older copy: webhooks undo none, and a status callback,
\* which may read the session before the call's last turn is saved and write
\* it back afterwards, that one and no more.
TurnsKept == stored # NoSession =>
    answered <= stored + (IF phase = "closed" THEN 1 ELSE 0)

\* As long as its session stays in Redis, a call has one record, on the instance
\* that greeted the caller, whichever instances serve it afterwards.
OneRecord == ~removed =>
    Cardinality({i \in Instances : record[i] # "none"}) <= 1

\* A session whose end_call failed, or that a late turn brought back, is
\* removed by Redis for good, also when no command ever succeeds again, unless
\* its report is asked for over and over, which gives the key new time.
SessionsExpire ==
    \/ []<><<\E r \in Requests, i \in Instances : Report(r, i)>>_vars
    \/ []((phase \in {"closed", "lost"}) => <>[](stored = NoSession))

\* What a request still has to do: it reads the session for one purpose after
\* another, and within each goes through its commands in this order.
Purpose(next) ==
    CASE next \in {"sorry", "report"} -> 1 [] next = "end" -> 2 [] next = "play" -> 3
      [] next = "again" -> 4 [] next = "turn" -> 5 [] next = "has" -> 6
Command(pc) ==
    CASE pc = "delete" -> 0 [] pc = "save" -> 1 [] pc = "model" -> 2 [] pc = "refresh" -> 3
      [] pc = "greet" -> 4 [] pc = "store" -> 5 [] pc = "fetch" -> 6 [] pc = "drop" -> 7
      [] pc = "touch" -> 8 [] pc = "get" -> 9
Work(q) == IF q.pc = "idle" THEN 0 ELSE 10 * Purpose(q.next) + Command(q.pc)

\* Once the callback was served or lost, nobody works on the session but the
\* requests in progress and whoever asks for the report.  Each comes to an end,
\* and gives the key new time only on its way there: an ended call is not kept
\* in Redis by its own requests.
WorkRunsOut ==
    [][(phase \in {"closed", "lost"}) =>
          /\ phase' = phase
          /\ \A r \in Requests : Work(req'[r]) > Work(req[r]) =>
                req[r].pc = "idle" /\ req'[r].kind = "report"
          /\ left' > left => \E r \in Requests : Work(req'[r]) < Work(req[r])]_vars

\* "Drop-in replacement for CallSessionManager that persists sessions across
\* restarts and multiple service instances": what comes back is a CallSession
\* the engine can work with.  Refuted.
SessionsComeBack == ~raised

-----------------------------------------------------------------------------
(* The inductive invariant behind the safety properties.                   *)

IsHook(r) == req[r].pc # "idle" /\ req[r].kind \in Hooks
IsStatus(r) == req[r].pc # "idle" /\ req[r].kind = "status"

\* The webhook whose turn is not saved yet.
InTurn(r) ==
    /\ IsHook(r)
    /\ req[r].next \in {"has", "turn", "again"}

\* Turns the callback may have undone, once the last turn is saved.
Slack == IF phase = "closed" /\ ~\E r \in Requests : InTurn(r) THEN 1 ELSE 0

\* One webhook at a time while the call is up, one callback afterwards.
ProtocolInv ==
    /\ \A r \in Requests : IsHook(r) => phase \notin {"idle", "listening"}
    /\ \A r \in Requests : IsStatus(r) => phase = "closed" /\ req[r].next = "end"
    /\ \A r, s \in Requests : IsHook(r) /\ IsHook(s) => r = s
    /\ \A r \in Requests : req[r].pc # "idle" =>
          (req[r].next = "report" <=> req[r].kind = "report")

\* What each request holds, by the command it waits for.
CopyInv(r) ==
    /\ req[r].pc \in {"fetch", "store", "greet", "refresh", "model", "save"} => IsHook(r)
    /\ req[r].pc \in {"fetch", "store", "greet", "refresh", "model"} => InTurn(r)
    /\ req[r].pc = "save" => InTurn(r) /\ req[r].copy # NoSession /\ answered < req[r].copy
    /\ req[r].pc = "model" => req[r].copy # NoSession /\ answered < req[r].copy
    /\ req[r].pc = "refresh" => req[r].copy # NoSession /\ answered <= req[r].copy
    /\ req[r].pc = "touch" => req[r].copy # NoSession
    /\ req[r].pc = "touch" /\ req[r].kind # "report" => answered <= req[r].copy + Slack

\* The record is opened with the session, and the session not removed.
RecordInv == ~removed =>
    /\ stored = NoSession => \A i \in Instances : record[i] = "none"
    /\ \A i, j \in Instances : record[i] # "none" /\ record[j] # "none" => i = j
    /\ \A r \in Requests : req[r].pc \in {"fetch", "store"} => stored = NoSession
    /\ \A r \in Requests : req[r].pc \in {"touch", "drop"} => stored # NoSession

IInv ==
    /\ TypeOK
    /\ ProtocolInv
    /\ stored # NoSession => answered <= stored + Slack
    /\ \A r \in Requests : CopyInv(r)
    /\ RecordInv

=============================================================================
