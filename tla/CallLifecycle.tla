--------------------------- MODULE CallLifecycle ---------------------------
(***************************************************************************)
(* One phone call as the service lives it: Twilio's webhooks, the          *)
(* ConversationEngine coroutines they run, the in-memory session store,    *)
(* the call records and the report posted to the platform when a call      *)
(* ends.  The service is one asyncio process, so code between two real     *)
(* suspension points (an HTTP request, a speech synthesis, a language      *)
(* model call) is one action, and a handler's `pc' names the request it    *)
(* is waiting for.  The awaits of CallSessionManager do not suspend.       *)
(***************************************************************************)
EXTENDS Naturals, FiniteSets

CONSTANTS
    Calls,        \* CallSids
    TTL,          \* ttl_seconds of CallSessionManager, in ticks
    RequestSpan,  \* ticks a webhook request may last (bounded by HTTP timeouts)
    Sessions,     \* identities of CallSession objects, reused once unreachable
    NoSession,    \* None
    MaxTurns      \* bound: user turns of one session

ASSUME TTLAssumption == TTL \in Nat /\ RequestSpan \in Nat /\ RequestSpan <= TTL
ASSUME SessionsAssumption == NoSession \notin Sessions
ASSUME MaxTurnsAssumption == MaxTurns \in Nat \ {0}

VARIABLES
    session,  \* the CallSession objects: turn_count, state["transferred"], idle time
    store,    \* CallSessionManager._store: the object stored for a call, or NoSession
    record,   \* CallStore._records
    hook,     \* the /twilio/webhook/incoming request in progress for a call
    status,   \* the /twilio/webhook/status request in progress for a call
    phase,    \* what Twilio is doing with the call
    posted,   \* reports the platform received for a call
    failed    \* reports whose push raised and was logged

vars == <<session, store, record, hook, status, phase, posted, failed>>

Report == [turns : 0..MaxTurns, transferred : BOOLEAN]
NoReport == [turns |-> 0, transferred |-> FALSE]

Session == [turns : 0..MaxTurns, transferred : BOOLEAN, age : 0..(TTL + 1)]
NewSession == [turns |-> 0, transferred |-> FALSE, age |-> 0]

Record == [started : BOOLEAN, ended : BOOLEAN, turns : 0..MaxTurns, transferred : BOOLEAN]
NoRecord == [started |-> FALSE, ended |-> FALSE, turns |-> 0, transferred |-> FALSE]

Reply == {"gather", "hangup", "transfer"}

\* A handler waits: for the agent configuration (fetch), for the greeting's
\* audio (greet), for a stale context's refresh (refresh), for the language
\* model (llm), for the rewritten or followed-up answer (reply), for the
\* answer's audio (voice) or for the report's delivery (push).
Hook == [pc : {"idle", "fetch", "greet", "refresh", "llm", "reply", "voice", "push"},
         speech : BOOLEAN,        \* the webhook carried a SpeechResult
         again : BOOLEAN,         \* inside the start_session of _get_or_create_session
         sess : Sessions \cup {NoSession}, \* the CallSession the coroutine holds
         reply : Reply, report : Report, elapsed : 0..RequestSpan]
Request(pc, speech, sess) ==
    [pc |-> pc, speech |-> speech, again |-> FALSE, sess |-> sess,
     reply |-> "gather", report |-> NoReport, elapsed |-> 0]
NoHook == Request("idle", FALSE, NoSession)

Status == [pc : {"idle", "push"}, report : Report]
NoStatus == [pc |-> "idle", report |-> NoReport]

\* asking: Twilio waits for a webhook's TwiML; over: hung up, the terminal
\* status callback still due; closed: that callback was served; lost: it was not.
Phase == {"idle", "asking", "listening", "dialing", "over", "closed", "lost"}

TypeOK ==
    /\ session \in [Sessions -> Session]
    /\ store \in [Calls -> Sessions \cup {NoSession}]
    /\ record \in [Calls -> Record]
    /\ hook \in [Calls -> Hook]
    /\ status \in [Calls -> Status]
    /\ phase \in [Calls -> Phase]
    /\ posted \in [Calls -> SUBSET Report]
    /\ failed \in [Calls -> SUBSET Report]

Init ==
    /\ session = [s \in Sessions |-> NewSession]
    /\ store = [c \in Calls |-> NoSession]
    /\ record = [c \in Calls |-> NoRecord]
    /\ hook = [c \in Calls |-> NoHook]
    /\ status = [c \in Calls |-> NoStatus]
    /\ phase = [c \in Calls |-> "idle"]
    /\ posted = [c \in Calls |-> {}]
    /\ failed = [c \in Calls |-> {}]

-----------------------------------------------------------------------------
(* CallSessionManager.                                                     *)

Expired(s) == session[s].age > TTL

\* get returns a session, and touches it; an expired one is deleted instead.
Live(c) == store[c] # NoSession /\ ~Expired(store[c])

Touch(s) == session' = [session EXCEPT ![s].age = 0]

Drop(c) == store' = [store EXCEPT ![c] = NoSession]

Get(c) ==
    \/ Live(c) /\ Touch(store[c]) /\ UNCHANGED store
    \/ ~Live(c) /\ Drop(c) /\ UNCHANGED session

Prune == store' = [c \in Calls |-> IF Live(c) THEN store[c] ELSE NoSession]

-----------------------------------------------------------------------------
(* The incoming-call webhook and the engine coroutines it awaits.          *)

\* Mistake: the hangup's TwiML lacks the Hangup verb, so Twilio asks again.
RespondNoHangup(c, reply) ==
    /\ hook' = [hook EXCEPT ![c] = NoHook]
    /\ phase' = [phase EXCEPT ![c] = IF @ # "asking" THEN @
                                     ELSE IF reply = "transfer" THEN "dialing" ELSE "listening"]

\* The TwiML goes out and tells Twilio what to do, if the call is still up.
Respond(c, reply) ==
    /\ hook' = [hook EXCEPT ![c] = NoHook]
    /\ phase' = [phase EXCEPT ![c] =
                    IF @ # "asking" THEN @
                    ELSE CASE reply = "gather" -> "listening"
                           [] reply = "hangup" -> "over"
                           [] reply = "transfer" -> "dialing"]

Wait(c, pc) == hook' = [hook EXCEPT ![c].pc = pc]

\* Twilio posts the webhook: its first one carries no speech, and it sends
\* the next one only after it has played the previous answer.
Ask(c, speech, pc, sess) ==
    /\ hook[c].pc = "idle"
    /\ phase[c] \in (IF speech THEN {"listening"} ELSE {"idle", "listening"})
    /\ phase' = [phase EXCEPT ![c] = "asking"]
    /\ hook' = [hook EXCEPT ![c] = Request(pc, speech, sess)]

\* Mistake: the webhook starts a session without asking has_session.
IncomingUnchecked(c, speech) ==
    /\ Ask(c, speech, "fetch", NoSession)
    /\ UNCHANGED <<session, store, record, status, posted, failed>>

\* No session: resolve the agent, then start_session fetches its configuration.
IncomingNew(c, speech) ==
    /\ ~Live(c)
    /\ Ask(c, speech, "fetch", NoSession)
    /\ Drop(c)
    /\ UNCHANGED <<session, record, status, posted, failed>>

\* A session and no speech: "I did not catch that", spoken.
IncomingSilent(c) ==
    /\ Live(c)
    /\ Ask(c, FALSE, "voice", NoSession)
    /\ Touch(store[c])
    /\ UNCHANGED <<store, record, status, posted, failed>>

\* Mistake: get does not touch the session it returns.
IncomingSpeechUntouched(c) ==
    /\ Live(c)
    /\ session[store[c]].turns < MaxTurns
    /\ Ask(c, TRUE, "refresh", store[c])
    /\ Prune
    /\ UNCHANGED <<session, record, status, posted, failed>>

\* A session and speech: process_user_input gets the session and prunes.
IncomingSpeech(c) ==
    /\ Live(c)
    /\ session[store[c]].turns < MaxTurns
    /\ Ask(c, TRUE, "refresh", store[c])
    /\ Touch(store[c])
    /\ Prune
    /\ UNCHANGED <<record, status, posted, failed>>

\* An object nothing refers to; its identity may serve a new CallSession.
Free(s) == \A d \in Calls : store[d] # s /\ hook[d].sess # s

\* Once the configuration is there, a new CallSession is built.
Build(c, s) ==
    /\ hook[c].pc = "fetch"
    /\ Free(s)
    /\ session' = [session EXCEPT ![s] = NewSession]
    /\ Wait(c, "greet")
    /\ UNCHANGED <<status, phase, posted, failed>>

\* start_session: build, save, and open the call's record unless it has one;
\* then the greeting's audio is awaited.
StartSession(c, s) ==
    /\ Build(c, s)
    /\ store' = [store EXCEPT ![c] = s]
    /\ record' = [record EXCEPT ![c].started = TRUE]

\* The greeting has its audio (or the synthesis failed) and there was no
\* speech: the webhook speaks the greeting, looking the session's voice up.
GreetSilent(c) ==
    /\ hook[c].pc = "greet"
    /\ ~hook[c].speech
    /\ Get(c)
    /\ Wait(c, "voice")
    /\ UNCHANGED <<record, status, phase, posted, failed>>

\* There was speech: the turn goes on with the session the store now holds.
GreetSpeech(c) ==
    /\ hook[c].pc = "greet"
    /\ hook[c].speech
    /\ Live(c)
    /\ Touch(store[c])
    /\ Prune
    /\ hook' = [hook EXCEPT ![c] = [@ EXCEPT !.pc = "refresh", !.sess = store[c]]]
    /\ UNCHANGED <<record, status, phase, posted, failed>>

\* The session is gone again: _get_or_create_session starts another one, and
\* when that one is gone too raises; the webhook then speaks an apology.
GreetGone(c) ==
    /\ hook[c].pc = "greet"
    /\ hook[c].speech
    /\ ~Live(c)
    /\ Drop(c)
    /\ hook' = [hook EXCEPT ![c] = [@ EXCEPT !.pc = IF hook[c].again THEN "voice" ELSE "fetch",
                                           !.again = TRUE]]
    /\ UNCHANGED <<session, record, status, phase, posted, failed>>

\* process_user_input after the context refresh: count and log the user's
\* words, then ask the language model.
UserTurn(c) ==
    /\ hook[c].pc = "refresh"
    /\ session[hook[c].sess].turns < MaxTurns
    /\ session' = [session EXCEPT ![hook[c].sess].turns = @ + 1]
    /\ Wait(c, "llm")
    /\ UNCHANGED <<store, record, status, phase, posted, failed>>

\* The model answered (or failed): its tool calls decide the reply, and the
\* transfer tool marks the session.  A later end_call tool may still turn the
\* reply of a marked turn into a hangup; a turn over the duration limit hangs
\* up without asking the model.
ModelTurn(c, reply, transferred) ==
    /\ hook[c].pc = "llm"
    /\ reply = "transfer" => transferred
    /\ session' = [session EXCEPT ![hook[c].sess].transferred = @ \/ transferred]
    /\ hook' = [hook EXCEPT ![c] = [@ EXCEPT !.pc = "reply", !.reply = reply]]
    /\ UNCHANGED <<store, record, status, phase, posted, failed>>

\* The answer is complete: process_user_input saves the session it holds.
SaveTurn(c) ==
    /\ hook[c].pc = "reply"
    /\ store' = [store EXCEPT ![c] = hook[c].sess]
    /\ Touch(hook[c].sess)
    /\ hook' = [hook EXCEPT ![c] = [@ EXCEPT !.pc = "voice", !.sess = NoSession]]
    /\ UNCHANGED <<record, status, phase, posted, failed>>

\* The answer has its audio: the TwiML goes out, except for a hangup.
Speak(c) ==
    /\ hook[c].pc = "voice"
    /\ hook[c].reply # "hangup"
    /\ Respond(c, hook[c].reply)
    /\ UNCHANGED <<session, store, record, status, posted, failed>>

-----------------------------------------------------------------------------
(* ConversationEngine.end_call, from the webhook and from the callback.    *)

\* Mistake: the payload is built without looking at the transfer.
ReportNoTransfer(s) == [turns |-> session[s].turns, transferred |-> FALSE]

ReportOf(s) == [turns |-> session[s].turns, transferred |-> session[s].transferred]

\* Mistake: a record already closed keeps its contents, the report is new.
CloseRecordOnce(c) ==
    /\ Live(c)
    /\ record[c].started
    /\ record' = IF record[c].ended THEN record
                 ELSE [record EXCEPT ![c].ended = TRUE,
                                     ![c].turns = session[store[c]].turns,
                                     ![c].transferred = session[store[c]].transferred]
    /\ Touch(store[c])
    /\ UNCHANGED store

\* end_call up to the report's push: close the record and build the report.
CloseRecord(c) ==
    /\ Live(c)
    /\ record[c].started
    /\ record' = [record EXCEPT ![c] = [@ EXCEPT !.ended = TRUE,
                                               !.turns = session[store[c]].turns,
                                               !.transferred = session[store[c]].transferred]]
    /\ Touch(store[c])
    /\ UNCHANGED store

\* Mistake: end_call cannot cope with a session that is gone.
NothingToCloseUnrecorded(c) ==
    /\ ~record[c].started
    /\ Drop(c)
    /\ UNCHANGED <<session, record>>

\* end_call with nothing to report: only the delete.
NothingToClose(c) ==
    /\ ~(Live(c) /\ record[c].started)
    /\ Drop(c)
    /\ UNCHANGED <<session, record>>

\* Mistake: a push that raises leaves no trace.
DeliveredSilently(c, report, ok) ==
    /\ posted' = [posted EXCEPT ![c] = IF ok THEN @ \cup {report} ELSE @]
    /\ Drop(c)
    /\ UNCHANGED failed

\* _push_call_report returns, delivered or not; end_call deletes the session.
Delivered(c, report, ok) ==
    /\ posted' = [posted EXCEPT ![c] = IF ok THEN @ \cup {report} ELSE @]
    /\ failed' = [failed EXCEPT ![c] = IF ok THEN @ ELSE @ \cup {report}]
    /\ Drop(c)

\* A hangup reply ends the call before its TwiML goes out.
HangupEnds(c) ==
    /\ hook[c].pc = "voice"
    /\ hook[c].reply = "hangup"
    /\ CloseRecord(c)
    /\ hook' = [hook EXCEPT ![c] = [@ EXCEPT !.pc = "push", !.report = ReportOf(store[c])]]
    /\ UNCHANGED <<status, phase, posted, failed>>

HangupNothing(c) ==
    /\ hook[c].pc = "voice"
    /\ hook[c].reply = "hangup"
    /\ NothingToClose(c)
    /\ Respond(c, "hangup")
    /\ UNCHANGED <<status, posted, failed>>

HangupPushed(c, ok) ==
    /\ hook[c].pc = "push"
    /\ Delivered(c, hook[c].report, ok)
    /\ Respond(c, "hangup")
    /\ UNCHANGED <<session, record, status>>

\* The terminal status callback, served while a webhook may still be running.
StatusEnds(c) ==
    /\ phase[c] = "over"
    /\ CloseRecord(c)
    /\ phase' = [phase EXCEPT ![c] = "closed"]
    /\ status' = [status EXCEPT ![c] = [pc |-> "push", report |-> ReportOf(store[c])]]
    /\ UNCHANGED <<hook, posted, failed>>

StatusNothing(c) ==
    /\ phase[c] = "over"
    /\ NothingToClose(c)
    /\ phase' = [phase EXCEPT ![c] = "closed"]
    /\ UNCHANGED <<hook, status, posted, failed>>

StatusPushed(c, ok) ==
    /\ status[c].pc = "push"
    /\ Delivered(c, status[c].report, ok)
    /\ status' = [status EXCEPT ![c] = NoStatus]
    /\ UNCHANGED <<session, record, hook, phase>>

\* build_call_report, asked for the call at any time by /agent/call-report: it
\* looks the session up, which keeps it or drops it, and changes nothing else.
ReportAsked(c) ==
    /\ store[c] # NoSession
    /\ Get(c)
    /\ UNCHANGED <<record, hook, status, phase, posted, failed>>

-----------------------------------------------------------------------------
(* Twilio, the caller and time.                                            *)

\* The caller hangs up, a dialled transfer ends, or Twilio gives up waiting
\* for a webhook; a webhook already in progress runs on.
CallEnds(c) ==
    /\ phase[c] \in {"asking", "listening", "dialing"}
    /\ phase' = [phase EXCEPT ![c] = "over"]
    /\ UNCHANGED <<session, store, record, hook, status, posted, failed>>

\* The callback is refused by the rate limiter or never arrives.
StatusLost(c) ==
    /\ phase[c] = "over"
    /\ phase' = [phase EXCEPT ![c] = "lost"]
    /\ UNCHANGED <<session, store, record, hook, status, posted, failed>>

\* Time passes: sessions grow older, but no request outlives RequestSpan.
Tick ==
    /\ \A c \in Calls : hook[c].pc # "idle" => hook[c].elapsed < RequestSpan
    /\ session' = [s \in Sessions |-> [session[s] EXCEPT !.age = IF @ > TTL THEN @ ELSE @ + 1]]
    /\ hook' = [c \in Calls |-> IF hook[c].pc = "idle" THEN hook[c]
                                ELSE [hook[c] EXCEPT !.elapsed = @ + 1]]
    /\ UNCHANGED <<store, record, status, phase, posted, failed>>

-----------------------------------------------------------------------------
HookStep(c) ==
    \/ \E s \in Sessions : StartSession(c, s)
    \/ GreetSilent(c) \/ GreetSpeech(c) \/ GreetGone(c)
    \/ UserTurn(c) \/ \E reply \in Reply, x \in BOOLEAN : ModelTurn(c, reply, x)
    \/ SaveTurn(c) \/ Speak(c)
    \/ HangupEnds(c) \/ HangupNothing(c) \/ \E ok \in BOOLEAN : HangupPushed(c, ok)

Caller(c) ==
    \/ \E speech \in BOOLEAN : IncomingNew(c, speech)
    \/ IncomingSilent(c) \/ IncomingSpeech(c)
    \/ CallEnds(c)

StatusStep(c) == \E ok \in BOOLEAN : StatusPushed(c, ok)
Callback(c) == StatusEnds(c) \/ StatusNothing(c) \/ StatusLost(c)

Next ==
    \/ \E c \in Calls : HookStep(c) \/ Caller(c) \/ StatusStep(c) \/ Callback(c) \/ ReportAsked(c)
    \/ Tick

Spec == Init /\ [][Next]_vars

\* Every await of a request returns (timeouts); callers owe nothing.
Fairness == \A c \in Calls : WF_vars(HookStep(c)) /\ WF_vars(StatusStep(c))
FairSpec == Spec /\ Fairness

-----------------------------------------------------------------------------
(* Properties.                                                             *)

\* A stored session always has a call record (start_session saves the one and
\* writes the other with no await between), so end_call never finds a session
\* it cannot report: its `record is None' branch never loses a report.
RecordedSession == \A c \in Calls : store[c] # NoSession => record[c].started

Answering == {"greet", "refresh", "llm", "reply", "voice"}
InTurn == {"refresh", "llm", "reply"}

\* While the caller is on the line and a webhook is answering, the call has a
\* live session, and a turn works on that very object: neither another call's
\* prune, nor its age, nor an end_call takes it away under the turn.
TurnKeepsSession ==
    \A c \in Calls : phase[c] = "asking" =>
        /\ hook[c].pc \in Answering => Live(c)
        /\ hook[c].pc \in InTurn => store[c] = hook[c].sess

\* "Unable to create session" is never raised: the session that
\* _get_or_create_session starts anew is still there when its greeting is done.
SessionCreationSucceeds ==
    \A c \in Calls : hook[c].pc = "greet" /\ hook[c].again => Live(c)

\* A conversation is never restarted under a live one: a call's stored session
\* is only ever removed or saved again, never replaced by another object.
NoSessionReplaced ==
    [][\A c \in Calls : store[c] # NoSession => store'[c] \in {store[c], NoSession}]_vars

\* However often end_call runs for a call (hangup, callback, a session started
\* anew in between), the record it closed is never reopened and never loses
\* turns or a transfer.
RecordNeverRegresses ==
    [][\A c \in Calls : record[c].ended =>
          /\ record'[c].ended
          /\ record'[c].turns >= record[c].turns
          /\ record[c].transferred => record'[c].transferred]_vars

Contents(c) == [turns |-> record[c].turns, transferred |-> record[c].transferred]

\* Reports a handler is pushing at this moment.
Pending(c) ==
    (IF hook[c].pc = "push" THEN {hook[c].report} ELSE {})
      \cup (IF status[c].pc = "push" THEN {status[c].report} ELSE {})

\* What a closed record says has been handed to the platform, or is on its
\* way, or its push was logged as failed: no closing goes unreported.
EndedCallIsReported ==
    \A c \in Calls : record[c].ended => Contents(c) \in Pending(c) \cup posted[c] \cup failed[c]

\* The platform hears at most two versions of a call: the callback's, and that
\* of one webhook still running when the callback came.
AtMostOneRevision == \A c \in Calls : Cardinality(posted[c] \cup failed[c]) <= 2

\* The record's life is that of CallLog, whatever the handlers interleave.
Log == INSTANCE CallLog WITH pending <- [c \in Calls |-> Pending(c)]
ImplementsLog == Log!LogSpec

\* Every webhook is answered, also when its call ended meanwhile.
WebhookAnswered == \A c \in Calls : hook[c].pc # "idle" ~> hook[c].pc = "idle"

\* The final contents of every closed record get to the end of a push.
EventuallyReported ==
    \A c \in Calls : record[c].ended ~> Contents(c) \in posted[c] \cup failed[c]

\* The awaits a webhook may still have before its answer.
Awaits(h) ==
    CASE h.pc = "idle" -> 0 [] h.pc = "push" -> 1 [] h.pc = "voice" -> 2
      [] h.pc = "reply" -> 3 [] h.pc = "llm" -> 4 [] h.pc = "refresh" -> 5
      [] h.pc = "greet" -> IF h.again THEN 6 ELSE 8
      [] h.pc = "fetch" -> IF h.again THEN 7 ELSE 9

\* A webhook in progress only ever comes nearer to its answer, in whatever state
\* the others leave the session it looks for, and what it holds changes by
\* nothing else: at most one session is started anew on the way.
WebhookGoesOn ==
    [][\A c \in Calls : hook[c].pc # "idle" =>
          \/ Awaits(hook'[c]) < Awaits(hook[c])
          \/ hook'[c] = [hook[c] EXCEPT !.elapsed = hook'[c].elapsed]]_vars

-----------------------------------------------------------------------------
(* The inductive invariant behind the safety properties.                   *)

\* One webhook at a time: Twilio waits for an answer before it goes on, and
\* the terminal callback is served after the call is over.
ProtocolInv(c) ==
    /\ phase[c] \in {"idle", "listening", "dialing"} => hook[c].pc = "idle"
    /\ status[c].pc = "push" => phase[c] = "closed"
    /\ record[c].ended =>
          \/ phase[c] \in {"over", "closed", "lost"}
          \/ phase[c] = "asking" /\ hook[c].pc = "push"

\* A coroutine's session is its call's: stored, or removed by an end_call.
SessionInv(c) ==
    /\ store[c] # NoSession => record[c].started
    /\ hook[c].pc = "fetch" => store[c] = NoSession /\ status[c].pc = "idle"
    /\ hook[c].pc \notin InTurn => hook[c].sess = NoSession
    /\ hook[c].pc \in InTurn =>
          /\ hook[c].sess \in Sessions
          /\ record[c].started
          /\ store[c] \in {NoSession, hook[c].sess}

\* Until the callback's end_call is done, a webhook being answered has its
\* session stored, no older than the request.
Sheltered(c) ==
    \/ phase[c] # "closed"
    \/ status[c].pc = "push"
    \/ hook[c].again /\ hook[c].pc = "greet"

KeptInv(c) == hook[c].pc \in Answering =>
    /\ Sheltered(c) => store[c] # NoSession
    /\ Sheltered(c) /\ hook[c].pc \in InTurn => store[c] = hook[c].sess
    /\ store[c] # NoSession => session[store[c]].age <= hook[c].elapsed
    /\ hook[c].pc \in InTurn => session[hook[c].sess].age <= hook[c].elapsed

\* _get_or_create_session starts a session only after the callback is done.
AgainInv(c) == hook[c].again /\ hook[c].pc \in {"fetch", "greet"} =>
    phase[c] = "closed" /\ status[c].pc = "idle"

Extends(s, r) == session[s].turns >= r.turns /\ (r.transferred => session[s].transferred)

\* No session of a call knows less than the call's record.
ContentsInv(c) ==
    /\ record[c].ended => record[c].started
    /\ ~record[c].ended => Contents(c) = NoReport
    /\ hook[c].pc \in {"fetch", "greet"} => Contents(c) = NoReport
    /\ hook[c].pc = "greet" /\ store[c] # NoSession => ReportOf(store[c]) = NoReport
    /\ store[c] # NoSession => Extends(store[c], record[c])
    /\ hook[c].pc \in InTurn => Extends(hook[c].sess, record[c])

\* Calls share no session.
Held(c) == {store[c], hook[c].sess} \ {NoSession}
DisjointInv == \A c, d \in Calls : c # d => Held(c) \cap Held(d) = {}

CallInv(c) == ProtocolInv(c) /\ SessionInv(c) /\ KeptInv(c) /\ AgainInv(c) /\ ContentsInv(c)

IInv == TypeOK /\ DisjointInv /\ \A c \in Calls : CallInv(c)

=============================================================================
