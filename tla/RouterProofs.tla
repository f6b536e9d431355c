------------------------ MODULE RouterProofs -------------------------------
(***************************************************************************)
(* Proofs about the two routers beside Twilio's: VonageWebhook, for any    *)
(* number of calls, and Onboarding, for any number of turns in progress    *)
(* and of sessions that replace each other under an id.                    *)
(***************************************************************************)
EXTENDS VonageWebhook, Onboarding, TLAPS

-----------------------------------------------------------------------------
(* One call at a time.                                                     *)

\* Everything the invariant says of one call.
Good(c) ==
    /\ CallInv(c)
    /\ cause[c] = "silence" => unanswered[c] = 2
    /\ cause[c] = "failures" => broken[c] = 2
    /\ phase[c] = "hungup" => ~session[c] /\ noInput[c] = 0 /\ errors[c] = 0
    /\ event[c] = "idle" =>
        /\ phase[c] = "closed" => ~session[c] /\ noInput[c] = 0 /\ errors[c] = 0
        /\ phase[c] = "crossed" /\ hook[c].pc = "idle" => noInput[c] <= 1 /\ errors[c] <= 1

Same(c) ==
    /\ noInput'[c] = noInput[c] /\ errors'[c] = errors[c] /\ session'[c] = session[c]
    /\ hook'[c] = hook[c] /\ event'[c] = event[c] /\ phase'[c] = phase[c]
    /\ unanswered'[c] = unanswered[c] /\ broken'[c] = broken[c] /\ cause'[c] = cause[c]

\* A step of call c keeps the types and what is said of c, and leaves the others.
Keeps(c) == TypeOK' /\ Good(c)' /\ \A d \in Calls : d # c => Same(d)

LEMMA IInvByCall == IInv <=> TypeOK /\ \A c \in Calls : Good(c)
  BY DEF IInv, Good, EndedForCause, NothingLeft

LEMMA SameIsGood ==
  ASSUME NEW c \in Calls, Good(c), Same(c) PROVE Good(c)'
  BY DEF Good, Same, CallInv, PhaseInv, SilenceInv, MissingInv, FailureInv, CrossedInv

LEMMA KeepsIsEnough ==
  ASSUME IInv, NEW c \in Calls, Keeps(c) PROVE IInv'
<1>1. \A d \in Calls : Good(d)'
  BY IInvByCall, SameIsGood DEF Keeps
<1>2. TypeOK'
  BY DEF Keeps
<1>3. QED BY <1>1, <1>2 DEF IInv, Good, EndedForCause, NothingLeft

-----------------------------------------------------------------------------
(* The inbound webhook.                                                    *)

LEMMA NoHookTyped == NoHook \in Hook
  BY DEF NoHook, Hook, Cause

LEMMA InboundKeeps ==
  ASSUME IInv, NEW c \in Calls, NEW speech \in BOOLEAN, InboundWebhook(c, speech) PROVE Keeps(c)
<1>1. TypeOK /\ Good(c)
  BY IInvByCall
<1>2. TypeOK'
  <2>1. [NoHook EXCEPT !.pc = "resolve", !.speech = speech] \in Hook
    BY DEF NoHook, Hook, Cause
  <2>2. QED BY <1>1, <2>1 DEF InboundWebhook, TypeOK, Phase
<1>3. \A d \in Calls : d # c => Same(d)
  BY <1>1 DEF InboundWebhook, TypeOK, Same
<1>4. Good(c)'
  BY <1>1 DEF InboundWebhook, TypeOK, Hook, NoHook, Good, CallInv, PhaseInv, SilenceInv, MissingInv,
     FailureInv, CrossedInv
<1>5. QED BY <1>2, <1>3, <1>4 DEF Keeps

LEMMA NewCallKeeps ==
  ASSUME IInv, NEW c \in Calls, NewCall(c) PROVE Keeps(c)
<1>1. TypeOK /\ Good(c)
  BY IInvByCall
<1>2. TypeOK'
  BY <1>1 DEF NewCall, Counted, Wait, TypeOK, Hook, Good, CallInv, MissingInv, FailureInv
<1>3. \A d \in Calls : d # c => Same(d)
  BY <1>1 DEF NewCall, Counted, Wait, TypeOK, Same
<1>4. Good(c)'
  BY <1>1 DEF NewCall, Counted, Wait, TypeOK, Hook, Good, CallInv, PhaseInv, SilenceInv, MissingInv,
     FailureInv, CrossedInv
<1>5. QED BY <1>2, <1>3, <1>4 DEF Keeps

LEMMA EndingTyped ==
  ASSUME TypeOK, NEW c \in Calls, NEW why \in Cause, Ending(c, why)
  PROVE  hook' \in [Calls -> Hook] /\ UNCHANGED <<phase, unanswered, cause>>
<1>1. [hook[c] EXCEPT !.pc = "push", !.cause = why] \in Hook
  BY DEF TypeOK, Hook
<1>2. QED BY <1>1 DEF Ending, TypeOK

LEMMA SilenceKeeps ==
  ASSUME IInv, NEW c \in Calls, Silence(c) PROVE Keeps(c)
<1>1. TypeOK /\ Good(c)
  BY IInvByCall
<1>2. /\ noInput' = [noInput EXCEPT ![c] = noInput[c] + 1] /\ noInput'[c] = noInput[c] + 1
      /\ hook[c].pc = "resolve" /\ ~hook[c].speech /\ session[c]
      /\ UNCHANGED <<errors, event, broken, session>>
      /\ noInput[c] \in 0..3
  BY <1>1 DEF Silence, Counted, TypeOK
<1>3. CASE noInput[c] + 1 >= 3 /\ Ending(c, "silence")
  <2>1. TypeOK'
    <3>1. hook' \in [Calls -> Hook] /\ UNCHANGED <<phase, unanswered, cause>>
      BY <1>1, <1>3, EndingTyped DEF Cause
    <3>2. noInput[c] + 1 \in 0..3
      BY <1>1, <1>2 DEF Good, CallInv, SilenceInv, TypeOK
    <3>3. QED BY <1>1, <1>2, <3>1, <3>2 DEF TypeOK, Silence
  <2>2. \A d \in Calls : d # c => Same(d)
    BY <1>1, <1>3, <1>2 DEF Ending, TypeOK, Same
  <2>3. Good(c)'
    BY <1>1, <1>3, <1>2 DEF Ending, TypeOK, Hook, NoHook, AtMostTwo,
       Good, CallInv, PhaseInv, SilenceInv,
       MissingInv, FailureInv, CrossedInv
  <2>4. QED BY <2>1, <2>2, <2>3 DEF Keeps
<1>4. CASE noInput[c] + 1 < 3 /\ Listen(c)
  <2>1. TypeOK'
    BY <1>1, <1>4, NoHookTyped, <1>2 DEF Listen, TypeOK, Hook, Phase, Cause, AtMostTwo,
       Good, CallInv, PhaseInv, SilenceInv,
       MissingInv, FailureInv, CrossedInv
  <2>2. \A d \in Calls : d # c => Same(d)
    BY <1>1, <1>4, <1>2 DEF Listen, TypeOK, Same
  <2>3. Good(c)'
    BY <1>1, <1>4, <1>2 DEF Listen, TypeOK, Hook, NoHook, AtMostTwo,
       Good, CallInv, PhaseInv, SilenceInv,
       MissingInv, FailureInv, CrossedInv
  <2>4. QED BY <2>1, <2>2, <2>3 DEF Keeps
<1>5. QED BY <1>2, <1>3, <1>4 DEF Silence

LEMMA SpeechKeeps ==
  ASSUME IInv, NEW c \in Calls, Speech(c) PROVE Keeps(c)
<1>1. TypeOK /\ Good(c)
  BY IInvByCall
<1>2. TypeOK'
  BY <1>1, NoHookTyped DEF Speech, Counted, Wait, TypeOK, Hook, NoHook, Phase, Cause, AtMostTwo,
       Good, CallInv, PhaseInv, SilenceInv, MissingInv,
     FailureInv, CrossedInv
<1>3. \A d \in Calls : d # c => Same(d)
  BY <1>1 DEF Speech, Counted, Wait, TypeOK, Same
<1>4. Good(c)'
  BY <1>1 DEF Speech, Counted, Wait, TypeOK, Hook, NoHook, AtMostTwo,
     Good, CallInv, PhaseInv, SilenceInv, MissingInv,
     FailureInv, CrossedInv
<1>5. QED BY <1>2, <1>3, <1>4 DEF Keeps

LEMMA FetchedKeeps ==
  ASSUME IInv, NEW c \in Calls, Fetched(c) PROVE Keeps(c)
<1>1. TypeOK /\ Good(c)
  BY IInvByCall
<1>2. TypeOK'
  BY <1>1, NoHookTyped DEF Fetched, Wait, TypeOK, Hook, NoHook, Phase, Cause, AtMostTwo,
       Good, CallInv, PhaseInv, SilenceInv, MissingInv,
     FailureInv, CrossedInv
<1>3. \A d \in Calls : d # c => Same(d)
  BY <1>1 DEF Fetched, Wait, TypeOK, Same
<1>4. Good(c)'
  BY <1>1 DEF Fetched, Wait, TypeOK, Hook, NoHook, AtMostTwo,
     Good, CallInv, PhaseInv, SilenceInv, MissingInv,
     FailureInv, CrossedInv
<1>5. QED BY <1>2, <1>3, <1>4 DEF Keeps

LEMMA FailKeeps ==
  ASSUME IInv, NEW c \in Calls, Fail(c), UNCHANGED event,
         hook[c].pc \in {"fetch", "greet", "turn"}, hook[c].pc = "greet" => hook[c].speech PROVE Keeps(c)
<1>1. TypeOK /\ Good(c)
  BY IInvByCall
<1>2. CASE errors[c] = 0 /\ Listen(c) /\ errors' = [errors EXCEPT ![c] = 1] /\ UNCHANGED noInput
  <2>1. TypeOK'
    BY <1>1, <1>2, NoHookTyped DEF Fail, Listen, TypeOK, Hook, Phase, Cause, AtMostTwo,
       Good, CallInv, PhaseInv, SilenceInv,
       MissingInv, FailureInv, CrossedInv
  <2>2. \A d \in Calls : d # c => Same(d)
    BY <1>1, <1>2 DEF Fail, Listen, TypeOK, Same
  <2>3. Good(c)'
    BY <1>1, <1>2 DEF Fail, Listen, TypeOK, Hook, NoHook, AtMostTwo,
       Good, CallInv, PhaseInv, SilenceInv,
       MissingInv, FailureInv, CrossedInv
  <2>4. QED BY <2>1, <2>2, <2>3 DEF Keeps
<1>3. CASE errors[c] >= 1 /\ Ending(c, "failures") /\ errors' = [errors EXCEPT ![c] = @ + 1] /\ UNCHANGED noInput
  <2>1. TypeOK'
    <3>1. hook' \in [Calls -> Hook] /\ UNCHANGED <<phase, unanswered, cause>>
      BY <1>1, <1>3, EndingTyped DEF Cause
    <3>2. errors[c] + 1 \in 0..2 /\ AtMostTwo(broken[c] + 1) \in 0..2
      BY <1>1 DEF Good, CallInv, FailureInv, TypeOK, AtMostTwo
    <3>3. QED BY <1>1, <1>3, <3>1, <3>2 DEF TypeOK, Fail
  <2>2. \A d \in Calls : d # c => Same(d)
    BY <1>1, <1>3 DEF Fail, Ending, TypeOK, Same
  <2>3. Good(c)'
    BY <1>1, <1>3 DEF Fail, Ending, TypeOK, Hook, NoHook, AtMostTwo,
       Good, CallInv, PhaseInv, SilenceInv,
       MissingInv, FailureInv, CrossedInv
  <2>4. QED BY <2>1, <2>2, <2>3 DEF Keeps
<1>4. CASE errors[c] >= 1 /\ ~session[c] /\ Clear(c) /\ HangUp(c, "failures")
  <2>1. TypeOK'
    BY <1>1, <1>4, NoHookTyped DEF Fail, Clear, Pop, HangUp, TypeOK, Hook, Phase, Cause, AtMostTwo,
       Good, CallInv, PhaseInv, SilenceInv,
       MissingInv, FailureInv, CrossedInv
  <2>2. \A d \in Calls : d # c => Same(d)
    BY <1>1, <1>4 DEF Fail, Clear, Pop, HangUp, TypeOK, Same
  <2>3. Good(c)'
    BY <1>1, <1>4 DEF Fail, Clear, Pop, HangUp, TypeOK, Hook, NoHook, AtMostTwo,
       Good, CallInv, PhaseInv, SilenceInv,
       MissingInv, FailureInv, CrossedInv
  <2>4. QED BY <2>1, <2>2, <2>3 DEF Keeps
<1>5. QED BY <1>2, <1>3, <1>4 DEF Fail

LEMMA FailuresKeep ==
  ASSUME IInv, NEW c \in Calls, FetchFails(c) \/ TurnFails(c) PROVE Keeps(c)
  BY FailKeeps DEF FetchFails, TurnFails

LEMMA GreetedKeeps ==
  ASSUME IInv, NEW c \in Calls, Greeted(c) PROVE Keeps(c)
<1>1. TypeOK /\ Good(c)
  BY IInvByCall
<1>2. TypeOK'
  BY <1>1, NoHookTyped DEF Greeted, Pop, Listen, TypeOK, Hook, NoHook, Phase, Cause, AtMostTwo,
       Good, CallInv, PhaseInv, SilenceInv, MissingInv,
     FailureInv, CrossedInv
<1>3. \A d \in Calls : d # c => Same(d)
  BY <1>1 DEF Greeted, Pop, Listen, TypeOK, Same
<1>4. Good(c)'
  BY <1>1 DEF Greeted, Pop, Listen, TypeOK, Hook, NoHook, AtMostTwo,
     Good, CallInv, PhaseInv, SilenceInv, MissingInv,
     FailureInv, CrossedInv
<1>5. QED BY <1>2, <1>3, <1>4 DEF Keeps

LEMMA GreetedSpeechKeeps ==
  ASSUME IInv, NEW c \in Calls, GreetedSpeech(c) PROVE Keeps(c)
<1>1. TypeOK /\ Good(c)
  BY IInvByCall
<1>2. TypeOK'
  BY <1>1, NoHookTyped DEF GreetedSpeech, Wait, TypeOK, Hook, NoHook, Phase, Cause, AtMostTwo,
       Good, CallInv, PhaseInv, SilenceInv, MissingInv,
     FailureInv, CrossedInv
<1>3. \A d \in Calls : d # c => Same(d)
  BY <1>1 DEF GreetedSpeech, Wait, TypeOK, Same
<1>4. Good(c)'
  BY <1>1 DEF GreetedSpeech, Wait, TypeOK, Hook, NoHook, AtMostTwo,
     Good, CallInv, PhaseInv, SilenceInv, MissingInv,
     FailureInv, CrossedInv
<1>5. QED BY <1>2, <1>3, <1>4 DEF Keeps

LEMMA GreetedGoneKeeps ==
  ASSUME IInv, NEW c \in Calls, GreetedGone(c) PROVE Keeps(c)
<1>1. CASE hook[c].again
  BY <1>1, FailKeeps DEF GreetedGone
<1>2. CASE ~hook[c].again
  <2>1. TypeOK /\ Good(c)
    BY IInvByCall
  <2> DEFINE h == [hook[c] EXCEPT !.pc = "fetch", !.again = TRUE]
  <2>2. /\ hook' = [hook EXCEPT ![c] = h] /\ hook[c].pc = "greet" /\ hook[c].speech
        /\ UNCHANGED <<noInput, errors, session, event, phase, unanswered, broken, cause>>
    BY <1>2 DEF GreetedGone
  <2>3. /\ h \in Hook /\ h.pc = "fetch" /\ h.speech /\ hook'[c] = h
        /\ h.cause = hook[c].cause
    BY <2>1, <2>2 DEF TypeOK, Hook
  <2> HIDE DEF h
  <2>4. TypeOK'
    BY <2>1, <2>2, <2>3 DEF TypeOK
  <2>5. \A d \in Calls : d # c => Same(d)
    BY <2>1, <2>2 DEF TypeOK, Same
  <2>6. Good(c)'
    BY <2>1, <2>2, <2>3 DEF TypeOK, Good, CallInv, PhaseInv, SilenceInv, MissingInv, FailureInv,
       CrossedInv
  <2>7. QED BY <2>4, <2>5, <2>6 DEF Keeps
<1>3. QED BY <1>1, <1>2

LEMMA SpokenKeeps ==
  ASSUME IInv, NEW c \in Calls, Spoken(c) PROVE Keeps(c)
<1>1. TypeOK /\ Good(c)
  BY IInvByCall
<1>2. CASE Listen(c)
  <2>1. TypeOK'
    BY <1>1, <1>2, NoHookTyped DEF Spoken, Turn, Pop, Listen, TypeOK, Hook, Phase, Cause, AtMostTwo,
       Good, CallInv, PhaseInv, SilenceInv,
       MissingInv, FailureInv, CrossedInv
  <2>2. \A d \in Calls : d # c => Same(d)
    BY <1>1, <1>2 DEF Spoken, Turn, Pop, Listen, TypeOK, Same
  <2>3. Good(c)'
    BY <1>1, <1>2 DEF Spoken, Turn, Pop, Listen, TypeOK, Hook, NoHook, AtMostTwo,
       Good, CallInv, PhaseInv, SilenceInv,
       MissingInv, FailureInv, CrossedInv
  <2>4. QED BY <2>1, <2>2, <2>3 DEF Keeps
<1>3. CASE Connect(c)
  <2>1. TypeOK'
    BY <1>1, <1>3, NoHookTyped DEF Spoken, Turn, Pop, Connect, TypeOK, Hook, Phase, Cause, AtMostTwo,
       Good, CallInv, PhaseInv, SilenceInv,
       MissingInv, FailureInv, CrossedInv
  <2>2. \A d \in Calls : d # c => Same(d)
    BY <1>1, <1>3 DEF Spoken, Turn, Pop, Connect, TypeOK, Same
  <2>3. Good(c)'
    BY <1>1, <1>3 DEF Spoken, Turn, Pop, Connect, TypeOK, Hook, NoHook, AtMostTwo,
       Good, CallInv, PhaseInv, SilenceInv,
       MissingInv, FailureInv, CrossedInv
  <2>4. QED BY <2>1, <2>2, <2>3 DEF Keeps
<1>4. QED BY <1>2, <1>3 DEF Spoken

LEMMA GoodbyeKeeps ==
  ASSUME IInv, NEW c \in Calls, Goodbye(c) PROVE Keeps(c)
<1>1. TypeOK /\ Good(c)
  BY IInvByCall
<1>2. TypeOK'
  BY <1>1, NoHookTyped DEF Goodbye, TypeOK, Hook, NoHook, Phase, Cause, AtMostTwo,
       Good, CallInv, PhaseInv, SilenceInv, MissingInv,
     FailureInv, CrossedInv
<1>3. \A d \in Calls : d # c => Same(d)
  BY <1>1 DEF Goodbye, TypeOK, Same
<1>4. Good(c)'
  BY <1>1 DEF Goodbye, TypeOK, Hook, NoHook, AtMostTwo,
     Good, CallInv, PhaseInv, SilenceInv, MissingInv,
     FailureInv, CrossedInv
<1>5. QED BY <1>2, <1>3, <1>4 DEF Keeps

LEMMA EndedKeeps ==
  ASSUME IInv, NEW c \in Calls, Ended(c) PROVE Keeps(c)
<1>1. TypeOK /\ Good(c)
  BY IInvByCall
<1>2. TypeOK'
  BY <1>1, NoHookTyped DEF Ended, Clear, Pop, HangUp, TypeOK, Hook, NoHook, Phase, Cause, AtMostTwo,
       Good, CallInv, PhaseInv, SilenceInv, MissingInv,
     FailureInv, CrossedInv
<1>3. \A d \in Calls : d # c => Same(d)
  BY <1>1 DEF Ended, Clear, Pop, HangUp, TypeOK, Same
<1>4. Good(c)'
  BY <1>1 DEF Ended, Clear, Pop, HangUp, TypeOK, Hook, NoHook, AtMostTwo,
     Good, CallInv, PhaseInv, SilenceInv, MissingInv,
     FailureInv, CrossedInv
<1>5. QED BY <1>2, <1>3, <1>4 DEF Keeps

-----------------------------------------------------------------------------
(* The event webhook, and Vonage.                                          *)

LEMMA EventKeeps ==
  ASSUME IInv, NEW c \in Calls, CallEventWebhook(c) PROVE Keeps(c)
<1>1. TypeOK /\ Good(c)
  BY IInvByCall
<1>2. CASE ~session[c] /\ Clear(c) /\ UNCHANGED event
  <2>1. TypeOK'
    BY <1>1, <1>2, NoHookTyped DEF CallEventWebhook, Clear, Pop, TypeOK, Hook, Phase, Cause, AtMostTwo,
       Good, CallInv, PhaseInv, SilenceInv,
       MissingInv, FailureInv, CrossedInv
  <2>2. \A d \in Calls : d # c => Same(d)
    BY <1>1, <1>2 DEF CallEventWebhook, Clear, Pop, TypeOK, Same
  <2>3. Good(c)'
    BY <1>1, <1>2 DEF CallEventWebhook, Clear, Pop, TypeOK, Hook, NoHook, AtMostTwo,
       Good, CallInv, PhaseInv, SilenceInv,
       MissingInv, FailureInv, CrossedInv
  <2>4. QED BY <2>1, <2>2, <2>3 DEF Keeps
<1>3. CASE session[c] /\ event' = [event EXCEPT ![c] = "push"] /\ UNCHANGED <<noInput, errors>>
  <2>1. TypeOK'
    BY <1>1, <1>3, NoHookTyped DEF CallEventWebhook, TypeOK, Hook, Phase, Cause, AtMostTwo,
       Good, CallInv, PhaseInv, SilenceInv,
       MissingInv, FailureInv, CrossedInv
  <2>2. \A d \in Calls : d # c => Same(d)
    BY <1>1, <1>3 DEF CallEventWebhook, TypeOK, Same
  <2>3. Good(c)'
    BY <1>1, <1>3 DEF CallEventWebhook, TypeOK, Hook, NoHook, AtMostTwo,
       Good, CallInv, PhaseInv, SilenceInv,
       MissingInv, FailureInv, CrossedInv
  <2>4. QED BY <2>1, <2>2, <2>3 DEF Keeps
<1>4. QED BY <1>2, <1>3 DEF CallEventWebhook

LEMMA EventEndedKeeps ==
  ASSUME IInv, NEW c \in Calls, EventEnded(c) PROVE Keeps(c)
<1>1. TypeOK /\ Good(c)
  BY IInvByCall
<1>2. TypeOK'
  BY <1>1, NoHookTyped DEF EventEnded, Clear, Pop, TypeOK, Hook, NoHook, Phase, Cause, AtMostTwo,
       Good, CallInv, PhaseInv, SilenceInv, MissingInv,
     FailureInv, CrossedInv
<1>3. \A d \in Calls : d # c => Same(d)
  BY <1>1 DEF EventEnded, Clear, Pop, TypeOK, Same
<1>4. Good(c)'
  BY <1>1 DEF EventEnded, Clear, Pop, TypeOK, Hook, NoHook, AtMostTwo,
     Good, CallInv, PhaseInv, SilenceInv, MissingInv,
     FailureInv, CrossedInv
<1>5. QED BY <1>2, <1>3, <1>4 DEF Keeps

LEMMA OverKeeps ==
  ASSUME IInv, NEW c \in Calls, CallEnds(c) \/ EventLost(c) PROVE Keeps(c)
<1>1. TypeOK /\ Good(c)
  BY IInvByCall
<1>2. TypeOK'
  BY <1>1, NoHookTyped DEF CallEnds, EventLost, TypeOK, Hook, NoHook, Phase, Cause, AtMostTwo,
       Good, CallInv, PhaseInv, SilenceInv, MissingInv,
     FailureInv, CrossedInv
<1>3. \A d \in Calls : d # c => Same(d)
  BY <1>1 DEF CallEnds, EventLost, TypeOK, Same
<1>4. Good(c)'
  BY <1>1 DEF CallEnds, EventLost, TypeOK, Hook, NoHook, AtMostTwo,
     Good, CallInv, PhaseInv, SilenceInv, MissingInv,
     FailureInv, CrossedInv
<1>5. QED BY <1>2, <1>3, <1>4 DEF Keeps

LEMMA PruneKeeps ==
  ASSUME IInv, NEW c \in Calls, Prune(c) PROVE Keeps(c)
<1>1. TypeOK /\ Good(c)
  BY IInvByCall
<1>2. TypeOK'
  BY <1>1, NoHookTyped DEF Prune, TypeOK, Hook, NoHook, Phase, Cause, AtMostTwo,
       Good, CallInv, PhaseInv, SilenceInv, MissingInv,
     FailureInv, CrossedInv
<1>3. \A d \in Calls : d # c => Same(d)
  BY <1>1 DEF Prune, TypeOK, Same
<1>4. Good(c)'
  BY <1>1 DEF Prune, TypeOK, Hook, NoHook, AtMostTwo,
     Good, CallInv, PhaseInv, SilenceInv, MissingInv,
     FailureInv, CrossedInv
<1>5. QED BY <1>2, <1>3, <1>4 DEF Keeps

-----------------------------------------------------------------------------
(* The theorems.                                                           *)

LEMMA InitHolds == Init => IInv
  BY NoHookTyped DEF Init, NoHook, IInv, TypeOK, Phase, Cause, EndedForCause, NothingLeft,
     CallInv, PhaseInv, SilenceInv, MissingInv, FailureInv, CrossedInv

LEMMA StepKeeps == IInv /\ [Next]_vars => IInv'
<1>1. ASSUME IInv, Next PROVE IInv'
  <2>1. PICK c \in Calls :
           \/ \E speech \in BOOLEAN : InboundWebhook(c, speech)
           \/ Handle(c)
           \/ CallEventWebhook(c) \/ EventEnded(c)
           \/ CallEnds(c) \/ EventLost(c) \/ Prune(c)
    BY <1>1 DEF Next
  <2>2. CASE \E speech \in BOOLEAN : InboundWebhook(c, speech)
    BY <1>1, <2>2, InboundKeeps, KeepsIsEnough
  <2>3. CASE Handle(c)
    <3>1. Keeps(c)
      BY <1>1, <2>3, NewCallKeeps, SilenceKeeps, SpeechKeeps, FetchedKeeps, FailuresKeep, GreetedKeeps,
         GreetedSpeechKeeps, GreetedGoneKeeps, SpokenKeeps, GoodbyeKeeps, EndedKeeps DEF Handle
    <3>2. QED BY <1>1, <3>1, KeepsIsEnough
  <2>4. CASE CallEventWebhook(c) \/ EventEnded(c) \/ CallEnds(c) \/ EventLost(c) \/ Prune(c)
    <3>1. Keeps(c)
      BY <1>1, <2>4, EventKeeps, EventEndedKeeps, OverKeeps, PruneKeeps
    <3>2. QED BY <1>1, <3>1, KeepsIsEnough
  <2>5. QED BY <2>1, <2>2, <2>3, <2>4
<1>2. ASSUME IInv, UNCHANGED vars PROVE IInv'
  BY <1>2 DEF vars, IInv, TypeOK, EndedForCause, NothingLeft, CallInv, PhaseInv,
     SilenceInv, MissingInv, FailureInv, CrossedInv
<1>3. QED BY <1>1, <1>2

\* The invariant of the counters and of the webhooks in progress (inbound_webhook
\* and call_event_webhook) holds in every reachable state.
THEOREM VonageInvariant == Spec => []IInv
  BY InitHolds, StepKeeps, PTL DEF Spec

\* Type correctness: also that a call's counters (no_input_store, error_count_store)
\* stay within three and two.
THEOREM VonageTypes == Spec => []TypeOK
<1>1. IInv => TypeOK
  BY DEF IInv
<1>2. QED BY <1>1, VonageInvariant, PTL

\* The service hangs up (the two branches of inbound_webhook that say so) only on
\* a caller who missed two prompts or after two failures with no answer between.
THEOREM CallsEndForCause == Spec => []EndedForCause
<1>1. IInv => EndedForCause
  BY DEF IInv
<1>2. QED BY <1>1, VonageInvariant, PTL

\* A hangup by the service leaves nothing of a call, and neither does
\* call_event_webhook, or one count of each kind when a webhook was in progress.
THEOREM LittleIsLeft == Spec => []NothingLeft
<1>1. IInv => NothingLeft
  BY DEF IInv
<1>2. QED BY <1>1, VonageInvariant, PTL

-----------------------------------------------------------------------------
(* Onboarding: the step an answer reports.                                 *)

LEMMA OrderTyped ==
  /\ DOMAIN Order = 1..5
  /\ ToSet(Order) = {"business_name", "business_type", "services", "business_hours",
                     "booking_system"}
  BY DEF Order, ToSet

\* A set of positions in Order has a least one.
LEMMA LeastPosition ==
  ASSUME NEW S \in SUBSET (1..5), S # {}
  PROVE  Min(S) \in S /\ \A k \in S : Min(S) <= k
<1>1. \E k \in S : \A l \in S : k <= l
  <2>1. CASE 1 \in S
    BY <2>1
  <2>2. CASE 1 \notin S /\ 2 \in S
    BY <2>2
  <2>3. CASE 1 \notin S /\ 2 \notin S /\ 3 \in S
    BY <2>3
  <2>4. CASE 1 \notin S /\ 2 \notin S /\ 3 \notin S /\ 4 \in S
    BY <2>4
  <2>5. CASE 1 \notin S /\ 2 \notin S /\ 3 \notin S /\ 4 \notin S
    <3>1. \A k \in S : k = 5
      BY <2>5
    <3>2. 5 \in S
      BY <3>1
    <3>3. QED BY <3>1, <3>2
  <2>6. QED BY <2>1, <2>2, <2>3, <2>4, <2>5
<1>2. QED BY <1>1 DEF Min

\* _get_current_step: a missing item as long as there is one, and "complete"
\* only of a session that is done.
LEMMA StepReported ==
  ASSUME NEW filled \in SUBSET Items, NEW done \in BOOLEAN
  PROVE  /\ CurrentStep(filled, done) \in ToSet(Order) \cup {"confirmation", "complete"}
         /\ CurrentStep(filled, done) \in ToSet(Order) => CurrentStep(filled, done) \in Items \ filled
         /\ CurrentStep(filled, done) \notin ToSet(Order) => filled = Items
         /\ CurrentStep(filled, done) = "complete" <=> filled = Items /\ done
<1> DEFINE missing == {k \in DOMAIN Order : Order[k] \in Items \ filled}
<1>1. CASE missing # {}
  <2>1. Min(missing) \in missing
    BY <1>1, OrderTyped, LeastPosition
  <2>2. CurrentStep(filled, done) = Order[Min(missing)]
    BY <1>1 DEF CurrentStep
  <2>3. CurrentStep(filled, done) \in ToSet(Order) /\ CurrentStep(filled, done) \in Items \ filled
    BY <2>1, <2>2 DEF ToSet
  <2>4. "complete" \notin ToSet(Order)
    BY OrderTyped
  <2>5. QED BY <2>3, <2>4
<1>2. CASE missing = {}
  <2>1. filled = Items
    BY <1>2, ItemsAssumption DEF ToSet
  <2>2. CurrentStep(filled, done) = IF done THEN "complete" ELSE "confirmation"
    BY <1>2 DEF CurrentStep
  <2>3. "complete" \notin ToSet(Order) /\ "confirmation" \notin ToSet(Order)
    BY OrderTyped
  <2>4. QED BY <2>1, <2>2, <2>3
<1>3. QED BY <1>1, <1>2

-----------------------------------------------------------------------------
(* Onboarding: the dictionary of sessions.                                 *)

LEMMA FilledTyped == ASSUME NEW s PROVE Filled(s) \in SUBSET Items
  BY DEF Filled

LEMMA NothingTyped == Nothing \in [Items -> Sessions \cup {NoSession}]
  BY DEF Nothing

LEMMA NoTurnTyped == NoTurn \in TurnState /\ NoTurn.pc = "idle" /\ NoTurn.sess = NoSession
  BY DEF NoTurn, TurnState

LEMMA NoAnswerTyped == NoAnswer \in Answer /\ ~NoAnswer.complete
  BY OrderTyped, NothingTyped DEF NoAnswer, Answer

\* The invariant of the sessions, of the turns, and of the answer.
DataInv ==
  /\ current \in Sessions \cup {NoSession}
  /\ collected \in [Sessions -> [Items -> Sessions \cup {NoSession}]]
  /\ complete \in [Sessions -> BOOLEAN]
  /\ malformed \in [Sessions -> BOOLEAN]
  /\ told \in [Sessions -> SUBSET Items]
  /\ NoBleed /\ KeptAsTold

TurnsInv == turn \in [Turns -> TurnState] /\ HeldInv
AnswerInv == answer \in Answer /\ ConfigIsOwn

LEMMA OBInvParts == OBInv <=> DataInv /\ TurnsInv /\ CurrentInv /\ AnswerInv
  BY DEF OBInv, OBTypeOK, DataInv, TurnsInv, AnswerInv

LEMMA OBInvAssembled == DataInv' /\ TurnsInv' /\ CurrentInv' /\ AnswerInv' => OBInv'
  BY DEF OBInv, OBTypeOK, DataInv, TurnsInv, AnswerInv

\* A new session has nothing, and nobody has been told of it.
LEMMA InstallKeeps ==
  ASSUME DataInv, NEW s \in Sessions, Install(s) PROVE DataInv' /\ current' = s
<1> USE DEF DataInv
<1>1. /\ current' = s
      /\ collected' \in [Sessions -> [Items -> Sessions \cup {NoSession}]]
      /\ complete' \in [Sessions -> BOOLEAN]
      /\ malformed' \in [Sessions -> BOOLEAN]
      /\ told' \in [Sessions -> SUBSET Items]
  BY NothingTyped DEF Install
<1>2. NoBleed'
  BY DEF Install, Nothing, NoBleed
<1>3. KeptAsTold'
  BY DEF Install, Nothing, KeptAsTold, Filled
<1>4. QED BY <1>1, <1>2, <1>3

\* A turn that begins holds a session.
LEMMA BeginKeeps ==
  ASSUME TurnsInv, NEW t \in Turns, NEW s \in Sessions,
         turn' = [turn EXCEPT ![t] = Asking(s)]
  PROVE  TurnsInv'
<1>1. Asking(s) \in TurnState /\ Asking(s).pc = "model" /\ Asking(s).sess = s
  BY DEF TurnState, Asking
<1>2. turn' \in [Turns -> TurnState]
  BY <1>1 DEF TurnsInv
<1>3. HeldInv'
  BY <1>1, NoSessionAssumption DEF TurnsInv, HeldInv
<1>4. QED BY <1>2, <1>3 DEF TurnsInv

LEMMA HeldTyped ==
  ASSUME TurnsInv, NEW t \in Turns, turn[t].pc # "idle" PROVE turn[t].sess \in Sessions
  BY DEF TurnsInv, HeldInv, TurnState

\* After /start or /complete every turn in progress is crossed.
LEMMA CrossedKeeps ==
  ASSUME TurnsInv, turn' = Crossed
  PROVE  TurnsInv' /\ CurrentInv'
<1>1. ASSUME NEW t \in Turns
      PROVE  /\ turn'[t] \in TurnState
             /\ turn'[t].pc = turn[t].pc /\ turn'[t].sess = turn[t].sess
             /\ turn[t].pc # "idle" => turn'[t].crossed
  BY DEF TurnsInv, TurnState, Crossed
<1>2. turn' \in [Turns -> TurnState]
  BY <1>1 DEF Crossed
<1>3. HeldInv' /\ CurrentInv'
  BY <1>1 DEF TurnsInv, HeldInv, CurrentInv
<1>4. QED BY <1>2, <1>3 DEF TurnsInv

\* The tool calls of a reply change what the turn's own session has collected.
LEMMA SaveKeeps ==
  ASSUME DataInv, NEW t \in Turns, NEW h \in Sessions, turn[t].sess = h,
         NEW saved \in SUBSET Items, NEW emptied \in SUBSET Items, NEW final \in BOOLEAN,
         Save(t, saved, emptied, final)
  PROVE  /\ collected' \in [Sessions -> [Items -> Sessions \cup {NoSession}]]
         /\ complete' \in [Sessions -> BOOLEAN]
         /\ NoBleed'
<1> DEFINE kept == [i \in Items |-> IF i \in saved THEN h
                                    ELSE IF i \in emptied THEN NoSession ELSE collected[h][i]]
<1>1. kept \in [Items -> Sessions \cup {NoSession}]
  BY DEF DataInv
<1>2. collected' = [collected EXCEPT ![h] = kept] /\ complete' = [complete EXCEPT ![h] = @ \/ final]
  BY DEF Save, DataInv
<1>3. /\ collected' \in [Sessions -> [Items -> Sessions \cup {NoSession}]]
      /\ complete' \in [Sessions -> BOOLEAN]
  BY <1>1, <1>2 DEF DataInv
<1>4. collected'[h] = kept /\ \A s \in Sessions \ {h} : collected'[s] = collected[s]
  BY <1>2 DEF DataInv
<1>5. NoBleed'
  BY <1>4 DEF DataInv, NoBleed
<1>6. QED BY <1>3, <1>4, <1>5

LEMMA ServicesKeep ==
  ASSUME DataInv, NEW t \in Turns, turn[t].sess \in Sessions, NEW written, SaveServices(t, written)
  PROVE  malformed' \in [Sessions -> BOOLEAN]
  BY DEF DataInv, SaveServices

\* An answer ends its turn, tells what its session collected, and carries no other
\* session's configuration unless the turn was crossed.
LEMMA RespondKeeps ==
  ASSUME DataInv, TurnsInv, CurrentInv, AnswerInv,
         NEW t \in Turns, turn[t].pc # "idle", NEW h \in Sessions, turn[t].sess = h,
         NEW apology \in BOOLEAN, Respond(t, apology), UNCHANGED current,
         collected' \in [Sessions -> [Items -> Sessions \cup {NoSession}]],
         complete' \in [Sessions -> BOOLEAN], malformed' \in [Sessions -> BOOLEAN], NoBleed',
         \A s \in Sessions \ {h} : collected'[s] = collected[s]
  PROVE  OBInv'
<1> DEFINE filled == {i \in Items : collected'[h][i] # NoSession}
           said == ~apology /\ complete'[h]
           raises == said /\ current # NoSession /\ malformed'[current]
           built == IF current = NoSession THEN Nothing ELSE collected'[current]
<1>1. /\ turn' = [turn EXCEPT ![t] = NoTurn]
      /\ \/ /\ raises
            /\ told' = [told EXCEPT ![h] = @ \cap filled]
            /\ UNCHANGED answer
         \/ /\ ~raises
            /\ told' = [told EXCEPT ![h] = filled]
            /\ answer' = [step |-> CurrentStep(filled, complete'[h]), complete |-> said,
                          data |-> filled, config |-> IF said THEN built ELSE Nothing,
                          by |-> h, crossed |-> turn[t].crossed]
  BY DEF Respond
<1>2. TurnsInv' /\ CurrentInv'
  BY <1>1, NoTurnTyped DEF TurnsInv, HeldInv, CurrentInv
<1>3. filled \in SUBSET Items /\ complete'[h] \in BOOLEAN /\ turn[t].crossed \in BOOLEAN
  BY DEF TurnsInv, TurnState
<1>4. told' \in [Sessions -> SUBSET Items]
      /\ told'[h] \subseteq filled /\ \A s \in Sessions \ {h} : told'[s] = told[s]
  BY <1>1, <1>3 DEF DataInv
<1>5. KeptAsTold'
  BY <1>4 DEF DataInv, KeptAsTold, Filled
<1>6. DataInv'
  BY <1>4, <1>5 DEF DataInv
<1>7. AnswerInv'
  <2>1. CASE UNCHANGED answer
    BY <2>1 DEF AnswerInv, ConfigIsOwn
  <2>2. CASE answer' = [step |-> CurrentStep(filled, complete'[h]), complete |-> said,
                        data |-> filled, config |-> IF said THEN built ELSE Nothing,
                        by |-> h, crossed |-> turn[t].crossed]
    <3>1. CurrentStep(filled, complete'[h]) \in ToSet(Order) \cup {"confirmation", "complete"}
      BY <1>3, StepReported
    <3>2. built \in [Items -> Sessions \cup {NoSession}]
      BY NothingTyped DEF DataInv
    <3>3. said \in BOOLEAN
      BY <1>3
    <3> HIDE DEF filled, said, built
    <3>4. answer' \in Answer
      BY <1>3, <2>2, <3>1, <3>2, <3>3, NothingTyped DEF Answer
    <3>5. ASSUME said, ~turn[t].crossed, NEW i \in Items
          PROVE  built[i] = IF i \in filled THEN h ELSE NoSession
      <4>1. current = h
        BY <3>5 DEF CurrentInv
      <4>2. built = collected'[h]
        BY <4>1, NoSessionAssumption DEF built
      <4>3. collected'[h][i] \in {h, NoSession}
        BY DEF NoBleed
      <4>4. QED BY <4>2, <4>3 DEF filled
    <3>6. ConfigIsOwn'
      BY <2>2, <3>5 DEF ConfigIsOwn
    <3>7. QED BY <3>4, <3>6 DEF AnswerInv
  <2>3. QED BY <1>1, <2>1, <2>2
<1>8. QED BY <1>2, <1>6, <1>7, OBInvAssembled

LEMMA ModelRepliesKeeps ==
  ASSUME OBInv, NEW t \in Turns, ModelReplies(t) PROVE OBInv'
<1>1. DataInv /\ TurnsInv /\ CurrentInv /\ AnswerInv
  BY OBInvParts
<1>2. PICK h \in Sessions : h = turn[t].sess
  BY <1>1, HeldTyped DEF ModelReplies
<1>3. PICK saved \in SUBSET Items, final \in BOOLEAN, emptied \in SUBSET Items :
         /\ Save(t, saved, emptied, final)
         /\ SaveServices(t, saved \cup emptied)
         /\ \/ \E apology \in BOOLEAN : Respond(t, apology)
            \/ /\ turn' = [turn EXCEPT ![t].pc = "follow"]
               /\ told' = [told EXCEPT ![turn[t].sess] = @ \ emptied]
               /\ UNCHANGED answer
         /\ UNCHANGED current
  BY DEF ModelReplies, Erasable
<1>4. /\ collected' \in [Sessions -> [Items -> Sessions \cup {NoSession}]]
      /\ complete' \in [Sessions -> BOOLEAN]
      /\ NoBleed'
  <2>1. DataInv /\ turn[t].sess = h /\ Save(t, saved, emptied, final)
    BY <1>1, <1>2, <1>3
  <2>2. /\ collected' \in [Sessions -> [Items -> Sessions \cup {NoSession}]]
        /\ complete' \in [Sessions -> BOOLEAN]
    BY <2>1, SaveKeeps
  <2>3. NoBleed'
    BY <2>1, SaveKeeps
  <2>4. QED BY <2>2, <2>3
<1>5. malformed' \in [Sessions -> BOOLEAN]
  BY <1>1, <1>2, <1>3, ServicesKeep
<1>6. /\ \A s \in Sessions \ {h} : collected'[s] = collected[s]
      /\ \A i \in Items : collected'[h][i] =
             IF i \in saved THEN h ELSE IF i \in emptied THEN NoSession ELSE collected[h][i]
  BY <1>1, <1>2, <1>3 DEF DataInv, Save
<1>7. CASE \E apology \in BOOLEAN : Respond(t, apology)
  BY <1>1, <1>2, <1>3, <1>4, <1>5, <1>6, <1>7, RespondKeeps DEF ModelReplies
<1>8. ASSUME turn' = [turn EXCEPT ![t].pc = "follow"], told' = [told EXCEPT ![h] = @ \ emptied],
             UNCHANGED answer
      PROVE  OBInv'
  <2>1. [turn[t] EXCEPT !.pc = "follow"] \in TurnState
    BY <1>1 DEF TurnsInv, TurnState
  <2>2. turn' \in [Turns -> TurnState]
    BY <1>1, <1>8, <2>1 DEF TurnsInv
  <2>3. HeldInv' /\ CurrentInv'
    BY <1>1, <1>2, <1>3, <1>8, NoSessionAssumption
    DEF TurnsInv, HeldInv, CurrentInv, TurnState, ModelReplies
  <2>4. told' \in [Sessions -> SUBSET Items]
    BY <1>1, <1>2, <1>8 DEF DataInv
  <2>5. KeptAsTold'
    BY <1>1, <1>2, <1>6, <1>8, NoSessionAssumption DEF DataInv, KeptAsTold, Filled
  <2>6. DataInv'
    BY <1>1, <1>3, <1>4, <1>5, <2>4, <2>5 DEF DataInv
  <2>7. AnswerInv'
    BY <1>1, <1>8 DEF AnswerInv, ConfigIsOwn
  <2>8. QED BY <2>2, <2>3, <2>6, <2>7, OBInvAssembled DEF TurnsInv
<1>9. QED BY <1>2, <1>3, <1>7, <1>8

LEMMA FollowUpKeeps ==
  ASSUME OBInv, NEW t \in Turns, FollowUp(t) PROVE OBInv'
<1>1. DataInv /\ TurnsInv /\ CurrentInv /\ AnswerInv
  BY OBInvParts
<1>2. PICK h \in Sessions : h = turn[t].sess
  BY <1>1, HeldTyped DEF FollowUp
<1>3. PICK apology \in BOOLEAN : Respond(t, apology)
  BY DEF FollowUp
<1>4. UNCHANGED <<current, collected, complete, malformed>> /\ turn[t].pc # "idle"
  BY DEF FollowUp
<1>5. NoBleed'
  BY <1>1, <1>4 DEF DataInv, NoBleed
<1>6. QED BY <1>1, <1>2, <1>3, <1>4, <1>5, RespondKeeps DEF DataInv

\* /start, /complete, and the turns up to their request to the model.
LEMMA BeginningsKeep ==
  ASSUME OBInv,
         \/ Start \/ Complete
         \/ \E t \in Turns : Ask(t) \/ AskNew(t) \/ Greet(t)
  PROVE  OBInv'
<1>1. DataInv /\ TurnsInv /\ CurrentInv /\ AnswerInv
  BY OBInvParts
<1>2. CASE Start
  <2>1. DataInv'
    BY <1>1, <1>2, InstallKeeps DEF Start
  <2>2. TurnsInv' /\ CurrentInv'
    BY <1>1, <1>2, CrossedKeeps DEF Start
  <2>3. AnswerInv'
    BY <1>1, <1>2 DEF Start, AnswerInv, ConfigIsOwn
  <2>4. QED BY <2>1, <2>2, <2>3, OBInvAssembled
<1>3. CASE Complete
  <2>1. DataInv'
    BY <1>1, <1>3 DEF Complete, DataInv, NoBleed, KeptAsTold, Filled
  <2>2. TurnsInv' /\ CurrentInv'
    BY <1>1, <1>3, CrossedKeeps DEF Complete
  <2>3. AnswerInv'
    BY <1>1, <1>3 DEF Complete, AnswerInv, ConfigIsOwn
  <2>4. QED BY <2>1, <2>2, <2>3, OBInvAssembled
\* No turn in progress that is not crossed holds another session: the id has none.
<1>4. ASSUME current = NoSession PROVE \A t \in Turns : turn[t].pc # "idle" => turn[t].crossed
  BY <1>1, <1>4, HeldTyped, NoSessionAssumption DEF CurrentInv
<1>5. ASSUME NEW t \in Turns, Greet(t) PROVE OBInv'
  <2>1. DataInv'
    BY <1>1, <1>5, InstallKeeps DEF Greet
  <2>2. UNCHANGED turn /\ answer' = NoAnswer /\ current = NoSession
    BY <1>5 DEF Greet
  <2>3. TurnsInv' /\ CurrentInv'
    BY <1>1, <1>4, <2>2 DEF TurnsInv, HeldInv, CurrentInv
  <2>4. AnswerInv'
    BY <2>2, NoAnswerTyped DEF AnswerInv, ConfigIsOwn
  <2>5. QED BY <2>1, <2>3, <2>4, OBInvAssembled
<1>6. ASSUME NEW t \in Turns, Ask(t) \/ AskNew(t) PROVE OBInv'
  <2>1. DataInv' /\ current' \in Sessions
    BY <1>1, <1>6, InstallKeeps DEF Ask, AskNew, DataInv, NoBleed, KeptAsTold, Filled
  <2>2. turn' = [turn EXCEPT ![t] = Asking(current')] /\ UNCHANGED answer
    BY <1>1, <1>6, InstallKeeps DEF Ask, AskNew
  <2>3. TurnsInv'
    BY <1>1, <2>1, <2>2, BeginKeeps
  <2>4. current' = current \/ current = NoSession
    BY <1>6 DEF Ask, AskNew
  <2>5. ASSUME NEW u \in Turns, turn'[u].pc # "idle", ~turn'[u].crossed
        PROVE  turn'[u].sess = current'
    <3>1. CASE u = t
      BY <1>1, <2>2, <3>1 DEF TurnsInv, Asking
    <3>2. CASE u # t
      BY <1>1, <1>4, <2>2, <2>4, <2>5, <3>2 DEF TurnsInv, CurrentInv
    <3>3. QED BY <3>1, <3>2
  <2>6. CurrentInv'
    BY <2>5 DEF CurrentInv
  <2>7. AnswerInv'
    BY <1>1, <2>2 DEF AnswerInv, ConfigIsOwn
  <2>8. QED BY <2>1, <2>3, <2>6, <2>7, OBInvAssembled
<1>7. QED BY <1>2, <1>3, <1>5, <1>6

LEMMA OBInitHolds == OBInit => OBInv
<1> SUFFICES ASSUME OBInit PROVE OBInv
  OBVIOUS
<1>1. DataInv
  BY DEF OBInit, DataInv, NoBleed, KeptAsTold, Nothing, Filled
<1>2. TurnsInv /\ CurrentInv
  BY NoTurnTyped DEF OBInit, TurnsInv, HeldInv, CurrentInv
<1>3. AnswerInv
  BY NoAnswerTyped DEF OBInit, AnswerInv, ConfigIsOwn
<1>4. QED BY <1>1, <1>2, <1>3, OBInvParts

LEMMA OBStepKeeps == OBInv /\ [OBNext]_obvars => OBInv'
<1>1. ASSUME OBInv, OBNext PROVE OBInv'
  BY <1>1, BeginningsKeep, ModelRepliesKeeps, FollowUpKeeps DEF OBNext
<1>2. ASSUME OBInv, UNCHANGED obvars PROVE OBInv'
  BY <1>2 DEF obvars, OBInv, OBTypeOK, HeldInv, CurrentInv, NoBleed, KeptAsTold, Filled, ConfigIsOwn
<1>3. QED BY <1>1, <1>2

\* The invariant of the onboarding sessions and of the turns that hold them
\* (process_turn) holds in every reachable state.
THEOREM OnboardingInvariant == OBSpec => []OBInv
  BY OBInitHolds, OBStepKeeps, PTL DEF OBSpec

\* Type correctness: also that an answer's step is one of those a client knows.
THEOREM OnboardingTypes == OBSpec => []OBTypeOK
<1>1. OBInv => OBTypeOK
  BY DEF OBInv
<1>2. QED BY <1>1, OnboardingInvariant, PTL

\* A reply that outlives its session (the await in process_turn) saves nothing
\* into the one that replaced it, however many turns and restarts overlap.
THEOREM LateRepliesStay == OBSpec => []NoBleed
<1>1. OBInv => NoBleed
  BY DEF OBInv
<1>2. QED BY <1>1, OnboardingInvariant, PTL

\* What an answer of onboarding_turn listed as collected its session keeps,
\* through any other turns, until a reply empties it.
THEOREM ToldIsKept == OBSpec => []KeptAsTold
<1>1. OBInv => KeptAsTold
  BY DEF OBInv
<1>2. QED BY <1>1, OnboardingInvariant, PTL

\* However many turns overlap, the configuration onboarding_turn builds after its
\* awaits is of the turn's own session, unless /start or /complete came in during it.
THEOREM ConfigsAreOwn == OBSpec => []ConfigIsOwn
<1>1. OBInv => ConfigIsOwn
  BY DEF OBInv
<1>2. QED BY <1>1, OnboardingInvariant, PTL
=============================================================================
