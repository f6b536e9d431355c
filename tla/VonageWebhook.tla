--------------------------- MODULE VonageWebhook ---------------------------
(***************************************************************************)
(* The legacy Vonage routes: the inbound webhook with its counters of      *)
(* silent and of failed requests, kept per call in app.state, and the      *)
(* event webhook, around the same ConversationEngine.  Of the engine only  *)
(* what the routes see is kept: whether the call has a session, what an    *)
(* awaited call answers, and that start_session and process_user_input may *)
(* raise.  Sessions are in memory, so only HTTP requests suspend; a        *)
(* handler's `pc' names the one it waits for.                              *)
(***************************************************************************)
EXTENDS Naturals

CONSTANTS Calls \* uuids

VARIABLES
    noInput,    \* app.state.no_input_store
    errors,     \* app.state.error_count_store
    session,    \* the engine has a session for the call
    hook,       \* the inbound webhook in progress
    event,      \* the event webhook in progress
    phase,      \* what Vonage is doing with the call
    unanswered, \* history: prompts the caller heard since last speaking
    broken,     \* history: failed webhooks since the caller last heard an answer
    cause       \* history: why the service hung up

vars == <<noInput, errors, session, hook, event, phase, unanswered, broken, cause>>

Cause == {"none", "silence", "failures", "goodbye"}

\* A webhook waits for the number's agent (resolve), the configuration (fetch),
\* the greeting's audio (greet), the turn (turn) or the report's push (push).
Hook == [pc : {"idle", "resolve", "fetch", "greet", "turn", "push"},
         speech : BOOLEAN,  \* it carried speech
         again : BOOLEAN,   \* start_session was called by process_user_input
         cause : Cause]     \* why it is ending the call
NoHook == [pc |-> "idle", speech |-> FALSE, again |-> FALSE, cause |-> "none"]

\* over: the caller is gone; hungup: our NCCO ended the call.  A terminal event
\* follows either, unless it is lost; crossed: a webhook was still in progress.
Phase == {"idle", "asking", "listening", "dialing", "over", "hungup", "closed", "crossed", "lost"}

TypeOK ==
    /\ noInput \in [Calls -> 0..3]
    /\ errors \in [Calls -> 0..2]
    /\ session \in [Calls -> BOOLEAN]
    /\ hook \in [Calls -> Hook]
    /\ event \in [Calls -> {"idle", "push"}]
    /\ phase \in [Calls -> Phase]
    /\ unanswered \in [Calls -> 0..2]
    /\ broken \in [Calls -> 0..2]
    /\ cause \in [Calls -> Cause]

Init ==
    /\ noInput = [c \in Calls |-> 0]
    /\ errors = [c \in Calls |-> 0]
    /\ session = [c \in Calls |-> FALSE]
    /\ hook = [c \in Calls |-> NoHook]
    /\ event = [c \in Calls |-> "idle"]
    /\ phase = [c \in Calls |-> "idle"]
    /\ unanswered = [c \in Calls |-> 0]
    /\ broken = [c \in Calls |-> 0]
    /\ cause = [c \in Calls |-> "none"]

-----------------------------------------------------------------------------
(* What the steps are made of.                                             *)

Pop(c, store) == [store EXCEPT ![c] = 0]
AtMostTwo(n) == IF n < 2 THEN n ELSE 2

\* _CallRuntimeStores.clear
Clear(c) == noInput' = Pop(c, noInput) /\ errors' = Pop(c, errors)

Wait(c, pc) ==
    /\ hook' = [hook EXCEPT ![c].pc = pc]
    /\ UNCHANGED <<phase, unanswered, cause>>

\* The NCCO talks and listens
Listen(c) ==
    /\ hook' = [hook EXCEPT ![c] = NoHook]
    /\ phase' = [phase EXCEPT ![c] = IF @ = "asking" THEN "listening" ELSE @]
    /\ unanswered' = [unanswered EXCEPT ![c] = IF phase[c] = "asking" THEN AtMostTwo(@ + 1) ELSE @]
    /\ UNCHANGED cause

\* or talks and connects
Connect(c) ==
    /\ hook' = [hook EXCEPT ![c] = NoHook]
    /\ phase' = [phase EXCEPT ![c] = IF @ = "asking" THEN "dialing" ELSE @]
    /\ UNCHANGED <<unanswered, cause>>

\* or talks and hangs up.
HangUp(c, why) ==
    /\ hook' = [hook EXCEPT ![c] = NoHook]
    /\ phase' = [phase EXCEPT ![c] = IF @ = "asking" THEN "hungup" ELSE @]
    /\ cause' = [cause EXCEPT ![c] = IF phase[c] = "asking" THEN why ELSE @]
    /\ UNCHANGED unanswered

\* end_call finds a session, and pushes its report
Ending(c, why) ==
    /\ session[c]
    /\ hook' = [hook EXCEPT ![c] = [@ EXCEPT !.pc = "push", !.cause = why]]
    /\ UNCHANGED <<phase, unanswered, cause>>

\* The webhook's except branch, after an awaited call of the engine raised.
Fail(c) ==
    /\ broken' = [broken EXCEPT ![c] = AtMostTwo(@ + 1)]
    /\ UNCHANGED session
    /\ \/ /\ errors[c] = 0
          /\ errors' = [errors EXCEPT ![c] = 1]
          /\ Listen(c)
          /\ UNCHANGED noInput
       \/ /\ errors[c] >= 1
          /\ Ending(c, "failures")
          /\ errors' = [errors EXCEPT ![c] = @ + 1]
          /\ UNCHANGED noInput
       \/ /\ errors[c] >= 1 /\ ~session[c]
          /\ Clear(c)
          /\ HangUp(c, "failures")

-----------------------------------------------------------------------------
(* The inbound webhook.                                                    *)

InboundWebhook(c, speech) ==
    /\ phase[c] \in {"idle", "listening"} /\ hook[c].pc = "idle"
    /\ phase' = [phase EXCEPT ![c] = "asking"]
    /\ hook' = [hook EXCEPT ![c] = [NoHook EXCEPT !.pc = "resolve", !.speech = speech]]
    /\ unanswered' = [unanswered EXCEPT ![c] = IF speech THEN 0 ELSE @]
    /\ UNCHANGED <<noInput, errors, session, event, broken, cause>>

\* Mistake: speech does not end a series of silent webhooks.
CountedOn(c) ==
    /\ hook[c].pc = "resolve"
    /\ noInput' = [noInput EXCEPT ![c] = IF hook[c].speech THEN @ ELSE @ + 1]
    /\ UNCHANGED <<errors, event, broken>>

\* The agent is known: a webhook without speech is counted.
Counted(c) ==
    /\ hook[c].pc = "resolve"
    /\ noInput' = [noInput EXCEPT ![c] = IF hook[c].speech THEN 0 ELSE @ + 1]
    /\ UNCHANGED <<errors, event, broken>>

\* has_session is false
NewCall(c) ==
    /\ Counted(c) /\ ~session[c]
    /\ Wait(c, "fetch")
    /\ UNCHANGED session

\* Mistake: a webhook that did not fail ends a series of failures.
SilenceForgives(c) ==
    /\ hook[c].pc = "resolve" /\ session[c] /\ ~hook[c].speech
    /\ noInput' = [noInput EXCEPT ![c] = @ + 1]
    /\ IF noInput'[c] >= 3 THEN Ending(c, "silence") ELSE Listen(c)
    /\ errors' = Pop(c, errors)
    /\ UNCHANGED <<session, event, broken>>

\* nothing was said, for the third time or not
Silence(c) ==
    /\ Counted(c) /\ session[c] /\ ~hook[c].speech
    /\ IF noInput'[c] >= 3 THEN Ending(c, "silence") ELSE Listen(c)
    /\ UNCHANGED session

\* something was said
Speech(c) ==
    /\ Counted(c) /\ session[c] /\ hook[c].speech
    /\ Wait(c, "turn")
    /\ UNCHANGED session

\* start_session saves the session and has the greeting spoken
Fetched(c) ==
    /\ hook[c].pc = "fetch"
    /\ session' = [session EXCEPT ![c] = TRUE]
    /\ Wait(c, "greet")
    /\ UNCHANGED <<noInput, errors, event, broken>>

FetchFails(c) ==
    /\ hook[c].pc = "fetch"
    /\ Fail(c)
    /\ UNCHANGED event

\* the greeting is the answer
Greeted(c) ==
    /\ hook[c].pc = "greet" /\ ~hook[c].speech
    /\ errors' = Pop(c, errors)
    /\ broken' = Pop(c, broken)
    /\ Listen(c)
    /\ UNCHANGED <<noInput, session, event>>

\* process_user_input finds the session,
GreetedSpeech(c) ==
    /\ hook[c].pc = "greet" /\ hook[c].speech /\ session[c]
    /\ Wait(c, "turn")
    /\ UNCHANGED <<noInput, errors, session, event, broken>>

\* or starts another when the call was ended meanwhile, or raises the second time.
GreetedGone(c) ==
    /\ hook[c].pc = "greet" /\ hook[c].speech /\ ~session[c]
    /\ \/ /\ ~hook[c].again
          /\ hook' = [hook EXCEPT ![c] = [@ EXCEPT !.pc = "fetch", !.again = TRUE]]
          /\ UNCHANGED <<noInput, errors, session, phase, unanswered, broken, cause>>
       \/ /\ hook[c].again
          /\ Fail(c)
    /\ UNCHANGED event

\* The turn is answered, and its session saved.
Turn(c) ==
    /\ hook[c].pc = "turn"
    /\ session' = [session EXCEPT ![c] = TRUE]
    /\ UNCHANGED <<noInput, event>>

\* the reply is spoken, or transfers the call to a number
Spoken(c) ==
    /\ Turn(c)
    /\ errors' = Pop(c, errors)
    /\ broken' = Pop(c, broken)
    /\ Listen(c) \/ Connect(c)

\* the reply hangs up: end_call has the session just saved
Goodbye(c) ==
    /\ hook[c].pc = "turn"
    /\ session' = [session EXCEPT ![c] = TRUE]
    /\ hook' = [hook EXCEPT ![c] = [@ EXCEPT !.pc = "push", !.cause = "goodbye"]]
    /\ UNCHANGED <<noInput, errors, event, phase, unanswered, broken, cause>>

TurnFails(c) ==
    /\ hook[c].pc = "turn"
    /\ Fail(c)
    /\ UNCHANGED event

\* end_call is over
Ended(c) ==
    /\ hook[c].pc = "push"
    /\ session' = [session EXCEPT ![c] = FALSE]
    /\ Clear(c)
    /\ HangUp(c, hook[c].cause)
    /\ UNCHANGED <<event, broken>>

Handle(c) ==
    \/ NewCall(c) \/ Silence(c) \/ Speech(c) \/ Fetched(c) \/ FetchFails(c)
    \/ Greeted(c) \/ GreetedSpeech(c) \/ GreetedGone(c)
    \/ Spoken(c) \/ Goodbye(c) \/ TurnFails(c) \/ Ended(c)

-----------------------------------------------------------------------------
(* The event webhook, and Vonage.                                          *)

\* A terminal status: end_call has nothing to push, or pushes the report.
CallEventWebhook(c) ==
    /\ phase[c] \in {"over", "hungup"}
    /\ phase' = [phase EXCEPT ![c] = IF hook[c].pc = "idle" THEN "closed" ELSE "crossed"]
    /\ \/ ~session[c] /\ Clear(c) /\ UNCHANGED event
       \/ /\ session[c]
          /\ event' = [event EXCEPT ![c] = "push"]
          /\ UNCHANGED <<noInput, errors>>
    /\ UNCHANGED <<session, hook, unanswered, broken, cause>>

\* Mistake: end_call is thought to clear the counters.
EventEndedOnly(c) ==
    /\ event[c] = "push"
    /\ event' = [event EXCEPT ![c] = "idle"]
    /\ session' = [session EXCEPT ![c] = FALSE]
    /\ UNCHANGED <<noInput, errors, hook, phase, unanswered, broken, cause>>

EventEnded(c) ==
    /\ event[c] = "push"
    /\ event' = [event EXCEPT ![c] = "idle"]
    /\ session' = [session EXCEPT ![c] = FALSE]
    /\ Clear(c)
    /\ UNCHANGED <<hook, phase, unanswered, broken, cause>>

\* The caller, or the person called, hangs up.
CallEnds(c) ==
    /\ phase[c] \in {"asking", "listening", "dialing"}
    /\ phase' = [phase EXCEPT ![c] = "over"]
    /\ UNCHANGED <<noInput, errors, session, hook, event, unanswered, broken, cause>>

EventLost(c) ==
    /\ phase[c] \in {"over", "hungup"}
    /\ phase' = [phase EXCEPT ![c] = "lost"]
    /\ UNCHANGED <<noInput, errors, session, hook, event, unanswered, broken, cause>>

\* prune, called by some other call's turn: only a session nobody uses is idle
\* for ttl_seconds, Vonage's next webhook being due after seven.
Prune(c) ==
    /\ session[c] /\ hook[c].pc = "idle" /\ event[c] = "idle" /\ phase[c] # "listening"
    /\ session' = [session EXCEPT ![c] = FALSE]
    /\ UNCHANGED <<noInput, errors, hook, event, phase, unanswered, broken, cause>>

Next == \E c \in Calls :
    \/ \E speech \in BOOLEAN : InboundWebhook(c, speech)
    \/ Handle(c)
    \/ CallEventWebhook(c) \/ EventEnded(c)
    \/ CallEnds(c) \/ EventLost(c) \/ Prune(c)

Spec == Init /\ [][Next]_vars

\* Awaited requests return, having timeouts, and Vonage posts what it heard.
FairSpec == Spec /\ \A c \in Calls :
    /\ WF_vars(Handle(c))
    /\ WF_vars(\E speech \in BOOLEAN : InboundWebhook(c, speech))

-----------------------------------------------------------------------------
(* Properties.                                                             *)

\* The service hangs up on a silent caller only after two prompts in a row went
\* unanswered, the greeting being one, and over failures only after two webhooks
\* failed with no answer heard between them.
EndedForCause == \A c \in Calls :
    /\ cause[c] = "silence" => unanswered[c] = 2
    /\ cause[c] = "failures" => broken[c] = 2

\* A call the service hung up on leaves neither session nor counters behind, also
\* when its event never comes.  Once the event is served nothing is left of any
\* call; one that crossed a webhook may leave a session, until it expires, and for
\* good a count of one each.
NothingLeft == \A c \in Calls :
    /\ phase[c] = "hungup" \/ (phase[c] = "closed" /\ event[c] = "idle") =>
          ~session[c] /\ noInput[c] = 0 /\ errors[c] = 0
    /\ phase[c] = "crossed" /\ event[c] = "idle" /\ hook[c].pc = "idle" =>
          noInput[c] <= 1 /\ errors[c] <= 1

\* A call does not go on for ever without an answer: sooner or later the
\* caller's words are answered, or the call ends, however silent webhooks and
\* failures alternate.
AnsweredOrOver == \A c \in Calls :
    []<>(phase[c] \in {"asking", "listening"}) => []<><<Spoken(c)>>_vars

-----------------------------------------------------------------------------
(* The inductive invariant behind the safety properties, for one call.     *)

\* Which phases a webhook, an event and a cause belong to.
PhaseInv(c) ==
    /\ phase[c] \in {"idle", "listening", "dialing", "hungup", "closed"} => hook[c].pc = "idle"
    /\ event[c] = "push" => phase[c] \in {"closed", "crossed"}
    /\ cause[c] # "none" => hook[c].pc = "idle" /\ phase[c] \in {"hungup", "closed", "lost"}
    /\ phase[c] = "asking" /\ hook[c].pc \in {"greet", "turn"} => session[c]

\* The count of silent webhooks against the prompts the caller heard.
SilenceInv(c) ==
    /\ phase[c] = "idle" => noInput[c] = 0
    /\ phase[c] = "listening" => noInput[c] <= unanswered[c]
    /\ hook[c].pc = "resolve" /\ ~hook[c].speech => noInput[c] <= unanswered[c]
    /\ hook[c].pc \in {"fetch", "greet"} /\ ~hook[c].speech =>
          noInput[c] <= 2 /\ noInput[c] <= unanswered[c] + 1
    /\ hook[c].pc \in {"fetch", "greet", "turn"} /\ hook[c].speech => noInput[c] = 0
    /\ hook[c].pc = "turn" => hook[c].speech
    /\ hook[c].pc = "push" /\ hook[c].cause = "silence" => unanswered[c] = 2

\* A call that is up without a session has failed for every silent webhook.
MissingInv(c) ==
    /\ ~session[c] /\ (hook[c].pc = "resolve" \/ phase[c] \in {"idle", "listening"}) =>
          noInput[c] <= errors[c]
    /\ hook[c].pc = "fetch" => noInput[c] <= errors[c] + 1

\* The count of failures against those of the history.
FailureInv(c) ==
    /\ errors[c] <= broken[c]
    /\ hook[c].pc # "push" => errors[c] <= 1
    /\ hook[c].pc = "push" /\ hook[c].cause = "failures" => broken[c] = 2

\* A webhook crossed by the event adds to counters that were cleared.
CrossedInv(c) == phase[c] = "crossed" /\ event[c] = "idle" =>
    /\ noInput[c] <= 1 /\ errors[c] <= 1
    /\ hook[c].pc = "resolve" => noInput[c] = 0
    /\ hook[c].pc # "idle" => errors[c] = 0

CallInv(c) ==
    /\ PhaseInv(c) /\ SilenceInv(c) /\ MissingInv(c) /\ FailureInv(c) /\ CrossedInv(c)

IInv ==
    /\ TypeOK
    /\ EndedForCause
    /\ NothingLeft
    /\ \A c \in Calls : CallInv(c)

=============================================================================
