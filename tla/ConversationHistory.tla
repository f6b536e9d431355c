------------------------ MODULE ConversationHistory ------------------------
(***************************************************************************)
(* conversation_history of one CallSession: the window of add_message, the *)
(* tool messages _llm_turn appends around it, and the message lists the    *)
(* two requests of a turn send to the model.  A turn is a coroutine of     *)
(* process_user_input and `pc' names what it awaits; a caller on the line  *)
(* has one at a time, the test endpoints may have several.                 *)
(***************************************************************************)
EXTENDS Naturals, Sequences, FiniteSets

CONSTANTS
    Turns,     \* coroutines on the session, each used again for later turns
    Texts,     \* what may be said: "words", or "blank" once stripped
    Window,    \* messages add_message keeps (30 in the code)
    MaxTools,  \* bound: tool calls of one model answer
    MaxTurns   \* bound: turn_count

ASSUME NumbersAssumption ==
    Window \in Nat \ {0} /\ MaxTools \in Nat \ {0} /\ MaxTurns \in Nat
ASSUME TextsAssumption == Texts \subseteq {"words", "blank"}

VARIABLES
    history,   \* session.conversation_history
    turnCount, \* session.turn_count
    turns,     \* the coroutines
    refusals   \* history variable: turns in a row whose request the API could not take

vars == <<history, turnCount, turns, refusals>>

\* `left' stands for the tool call ids: the results of its block still to come.
Message == [role : {"user", "assistant", "tool"}, left : 0..MaxTools]
Plain(role) == [role |-> role, left |-> 0]
\* The assistant message with k tool calls and their k results.
Block(k) ==
    [i \in 1..(k + 1) |-> [role |-> IF i = 1 THEN "assistant" ELSE "tool", left |-> k + 1 - i]]

Turn == [pc : {"idle", "heard", "model", "tools", "followup", "reply"},
         request : Seq(Message),  \* the message list of the request under way
         calls : 0..MaxTools]
At(pc) == [pc |-> pc, request |-> <<>>, calls |-> 0]
Move(t, turn) == turns' = [turns EXCEPT ![t] = turn]

Front(h) == SubSeq(h, 1, Len(h) - 1)
Last(h) == h[Len(h)]

\* conversation_history[-Window:] when it has grown longer
Trim(h) == IF Len(h) > Window THEN SubSeq(h, Len(h) - Window + 1, Len(h)) ELSE h
\* Mutant of AddMessage: only what the receptionist says is trimmed.
AddMessageHalf(role, text) ==
    history' = IF text # "words" THEN history
               ELSE IF role = "user" THEN Append(history, Plain(role))
               ELSE Trim(Append(history, Plain(role)))
\* add_message skips a blank text, and then does not trim either
AddMessage(role, text) ==
    history' = IF text = "words" THEN Trim(Append(history, Plain(role))) ELSE history

\* b may directly follow a: a result exactly where one is still to come.
Follows(a, b) == (b.role = "tool" <=> a.left > 0) /\ (b.role = "tool" => b.left = a.left - 1)
\* Every block of the list is whole, but for results cut off its front.
Whole(h) ==
    /\ \A i \in 1..(Len(h) - 1) : Follows(h[i], h[i + 1])
    /\ Len(h) > 0 => Last(h).left = 0
Orphaned(h) == Len(h) > 0 /\ h[1].role = "tool"
\* What the chat completions API takes.
Accepts(h) == Whole(h) /\ ~Orphaned(h)

Init ==
    /\ history = <<Plain("assistant")>>   \* the greeting
    /\ turnCount = 0
    /\ turns = [t \in Turns |-> At("idle")]
    /\ refusals = 0

\* The user's text is recorded before the coroutine waits for the language detector.
Hear(t) ==
    /\ turns[t].pc = "idle" /\ turnCount < MaxTurns
    /\ \E text \in Texts : AddMessage("user", text)
    /\ turnCount' = turnCount + 1
    /\ Move(t, At("heard"))
    /\ UNCHANGED refusals

\* The call has lasted too long: said, saved, hung up.
TooLong(t) ==
    /\ turns[t].pc = "heard"
    /\ AddMessage("assistant", "words")
    /\ Move(t, At("idle"))
    /\ refusals' = 0
    /\ UNCHANGED turnCount

\* A business fact is answered without the model.
FastPath(t) ==
    /\ turns[t].pc = "heard"
    /\ Move(t, At("reply"))
    /\ refusals' = 0
    /\ UNCHANGED <<history, turnCount>>

\* Mutant of Ask: the text just recorded is not left out.
AskTwice(t) ==
    /\ turns[t].pc = "heard"
    /\ Move(t, [At("model") EXCEPT !.request = Append(history, Plain("user"))])
    /\ UNCHANGED <<history, turnCount, refusals>>

\* conversation_history[:-1] leaves out what should be the text just recorded.
Ask(t) ==
    /\ turns[t].pc = "heard"
    /\ Move(t, [At("model") EXCEPT !.request = Append(Front(history), Plain("user"))])
    /\ UNCHANGED <<history, turnCount, refusals>>

\* The request fails on the way or the API refuses it.  The turn apologises.
ModelFails(t) ==
    /\ turns[t].pc = "model"
    /\ refusals' = IF Accepts(turns[t].request) THEN 0 ELSE refusals + 1
    /\ Move(t, At("reply"))
    /\ UNCHANGED <<history, turnCount>>

ModelSpeaks(t) ==
    /\ turns[t].pc = "model" /\ Accepts(turns[t].request)
    /\ Move(t, At("reply"))
    /\ refusals' = 0
    /\ UNCHANGED <<history, turnCount>>

ModelCalls(t) ==
    /\ turns[t].pc = "model" /\ Accepts(turns[t].request)
    /\ \E k \in 1..MaxTools : Move(t, [At("tools") EXCEPT !.calls = k])
    /\ refusals' = 0
    /\ UNCHANGED <<history, turnCount>>

\* A tool raises (an argument is null): the block is dropped, the turn apologises.
ToolRaises(t) ==
    /\ turns[t].pc = "tools"
    /\ Move(t, At("reply"))
    /\ UNCHANGED <<history, turnCount, refusals>>

\* Mutants of Record: the history is sliced one message too late, so that the
\* calls are sent twice; the last result is never recorded.
RecordSlicedLate(t) ==
    /\ turns[t].pc = "tools"
    /\ LET k == turns[t].calls
           longer == history \o Block(k)
       IN  /\ history' = longer
           /\ Move(t, [At("followup") EXCEPT
                         !.request = SubSeq(longer, 1, Len(longer) - k) \o Block(k)])
    /\ UNCHANGED <<turnCount, refusals>>
RecordShort(t) ==
    /\ turns[t].pc = "tools"
    /\ LET k == turns[t].calls
           longer == history \o SubSeq(Block(k), 1, k)
       IN  /\ history' = longer
           /\ Move(t, [At("followup") EXCEPT !.request = history \o Block(k)])
    /\ UNCHANGED <<turnCount, refusals>>

\* The tools have answered: the block is appended past the window, and sent
\* again as the history without it, followed by it.
Record(t) ==
    /\ turns[t].pc = "tools"
    /\ LET k == turns[t].calls
           longer == history \o Block(k)
       IN  /\ history' = longer
           /\ Move(t, [At("followup") EXCEPT
                         !.request = SubSeq(longer, 1, Len(longer) - k - 1) \o Block(k)])
    /\ UNCHANGED <<turnCount, refusals>>

\* The model's answer to the results, which may be blank: then nothing is added.
FollowUp(t) ==
    /\ turns[t].pc = "followup" /\ Accepts(turns[t].request)
    /\ \E pc \in {"reply", "idle"} : Move(t, At(pc))
    /\ refusals' = 0
    /\ UNCHANGED <<history, turnCount>>

\* The tools' own messages are said instead.
FollowUpFails(t) ==
    /\ turns[t].pc = "followup"
    /\ refusals' = IF Accepts(turns[t].request) THEN 0 ELSE refusals + 1
    /\ Move(t, At("reply"))
    /\ UNCHANGED <<history, turnCount>>

\* The reply, perhaps rewritten in the caller's language (to nothing at worst).
Reply(t) ==
    /\ turns[t].pc = "reply"
    /\ \E text \in {"words", "blank"} : AddMessage("assistant", text)
    /\ Move(t, At("idle"))
    /\ UNCHANGED <<turnCount, refusals>>

Next == \E t \in Turns :
    \/ Hear(t) \/ TooLong(t) \/ FastPath(t) \/ Ask(t)
    \/ ModelFails(t) \/ ModelSpeaks(t) \/ ModelCalls(t)
    \/ ToolRaises(t) \/ Record(t) \/ FollowUp(t) \/ FollowUpFails(t) \/ Reply(t)

Spec == Init /\ [][Next]_vars
-----------------------------------------------------------------------------
TypeOK ==
    /\ history \in Seq(Message) /\ Len(history) > 0
    /\ turnCount \in 0..MaxTurns
    /\ turns \in [Turns -> Turn]
    /\ refusals \in Nat

Asking(t) == turns[t].pc = "model"
Sending(t) == turns[t].pc \in {"model", "followup"}

(* When the caller is the only one to speak, the first request of a turn   *)
(* is the history itself: dropping the last message and sending the text   *)
(* apart (_llm_turn's [:-1]) neither repeats nor loses a message.          *)
ModelHearsHistory == \A t \in Turns : Asking(t) => turns[t].request = history

(* The only fault a request may have is results at its front, whose tool   *)
(* call the window has cut off: the tool loop never sends a call without   *)
(* its results, nor results out of place.                                  *)
RefusedOnlyForOrphans == \A t \in Turns :
    Sending(t) /\ ~Accepts(turns[t].request) => Orphaned(turns[t].request)

(* Whatever coroutines interleave, no message comes between a tool call    *)
(* and its results: the history is whole behind its cut front.             *)
BlocksWhole == Whole(history)

(* A caller is not apologised to for ever: every turn pushes at least one   *)
(* orphaned result out of the window, so no more turns in a row are        *)
(* refused than one answer of the model may have tool calls.               *)
RefusalsEnd == refusals <= MaxTools

(* Tool messages escape the window, but only one block a coroutine.        *)
HistoryBounded == Len(history) <= Window + (MaxTools + 1) * Cardinality(Turns)

=============================================================================
