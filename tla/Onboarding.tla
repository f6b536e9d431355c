----------------------------- MODULE Onboarding ----------------------------
(***************************************************************************)
(* The onboarding dialogue of one session id: /onboarding/start, /turn and *)
(* /complete over the OnboardingEngine's dictionary of sessions.  A turn   *)
(* waits for the language model, once or twice, holding the                *)
(* OnboardingSession it looked up before, while other requests of the id   *)
(* run.  Of collected_data a session keeps which items are truthy, and for *)
(* each in whose turn it was said, and whether services of a wrong shape    *)
(* were saved; of the model's reply what its tool calls amount to.         *)
(* Wording and the history of messages are left out.                       *)
(***************************************************************************)
EXTENDS SequencesExt

CONSTANTS
    Items,    \* the items collected, among those of Order
    Turns,    \* slots for the /turn requests in progress
    Sessions, \* identities of OnboardingSession objects, reused once unreachable
    NoSession \* None

Order == <<"business_name", "business_type", "services", "business_hours", "booking_system">>

ASSUME ItemsAssumption == Items \subseteq ToSet(Order)
ASSUME NoSessionAssumption == NoSession \notin Sessions

VARIABLES
    current,   \* _sessions: the object under the id, or NoSession
    collected, \* collected_data: for each item the session whose turn said it
    complete,  \* is_complete
    malformed, \* the services saved are no list of objects
    turn,      \* the turns in progress
    answer,    \* the last answer of /turn
    told       \* history: items an answer listed and no reply has emptied since

obvars == <<current, collected, complete, malformed, turn, answer, told>>

\* save_business_info skips what is empty; the other tools store it.
Erasable == Items \cap {"services", "business_hours", "booking_system"}

Nothing == [i \in Items |-> NoSession]
Filled(s) == {i \in Items : collected[s][i] # NoSession}

TurnState == [pc : {"idle", "model", "follow"},
              sess : Sessions \cup {NoSession}, \* session
              crossed : BOOLEAN] \* history: /start or /complete came in meanwhile
NoTurn == [pc |-> "idle", sess |-> NoSession, crossed |-> FALSE]
Asking(s) == [pc |-> "model", sess |-> s, crossed |-> FALSE]

\* agent_config tells of each item in whose turn it was said; an item that was
\* never said is empty there, or has its default.
Answer == [step : ToSet(Order) \cup {"confirmation", "complete"}, complete : BOOLEAN,
           data : SUBSET Items, \* collected_data
           config : [Items -> Sessions \cup {NoSession}], \* agent_config, of a complete answer
           by : Sessions \cup {NoSession}, crossed : BOOLEAN] \* the turn it answers
NoAnswer == [step |-> "business_name", complete |-> FALSE, data |-> {}, config |-> Nothing,
             by |-> NoSession, crossed |-> FALSE]

OBTypeOK ==
    /\ current \in Sessions \cup {NoSession}
    /\ collected \in [Sessions -> [Items -> Sessions \cup {NoSession}]]
    /\ complete \in [Sessions -> BOOLEAN] /\ malformed \in [Sessions -> BOOLEAN]
    /\ turn \in [Turns -> TurnState]
    /\ answer \in Answer
    /\ told \in [Sessions -> SUBSET Items]

OBInit ==
    /\ current = NoSession
    /\ collected = [s \in Sessions |-> Nothing]
    /\ complete = [s \in Sessions |-> FALSE] /\ malformed = [s \in Sessions |-> FALSE]
    /\ turn = [t \in Turns |-> NoTurn]
    /\ answer = NoAnswer
    /\ told = [s \in Sessions |-> {}]

-----------------------------------------------------------------------------
(* OnboardingEngine.start_session, end_session and _get_current_step.      *)

Install(s) ==
    /\ s # current /\ \A t \in Turns : turn[t].sess # s
    /\ current' = s
    /\ collected' = [collected EXCEPT ![s] = Nothing]
    /\ complete' = [complete EXCEPT ![s] = FALSE]
    /\ malformed' = [malformed EXCEPT ![s] = FALSE]
    /\ told' = [told EXCEPT ![s] = {}]

\* The first item that is missing.
CurrentStep(filled, done) ==
    LET missing == {k \in DOMAIN Order : Order[k] \in Items \ filled}
    IN  IF missing # {} THEN Order[Min(missing)] ELSE IF done THEN "complete" ELSE "confirmation"

\* The turns in progress see a request of another kind come in.
Crossed == [t \in Turns |-> IF turn[t].pc = "idle" THEN turn[t]
                            ELSE [turn[t] EXCEPT !.crossed = TRUE]]

\* /start replaces whatever session the id has.
Start ==
    /\ \E s \in Sessions : Install(s)
    /\ turn' = Crossed
    /\ UNCHANGED answer

\* /complete builds the configuration of what there is, and ends the session;
\* over malformed services it raises first, and changes nothing.
Complete ==
    /\ current # NoSession /\ ~malformed[current]
    /\ current' = NoSession
    /\ turn' = Crossed
    /\ UNCHANGED <<collected, complete, malformed, answer, told>>

-----------------------------------------------------------------------------
(* process_turn.                                                           *)

\* A turn of a session asks the model,
Ask(t) ==
    /\ turn[t].pc = "idle" /\ current # NoSession
    /\ turn' = [turn EXCEPT ![t] = Asking(current)]
    /\ UNCHANGED <<current, collected, complete, malformed, answer, told>>

\* Mistake: the first turn starts a session that the id has by now.
AskAnew(t) ==
    /\ turn[t].pc = "idle"
    /\ \E s \in Sessions :
          /\ Install(s)
          /\ turn' = [turn EXCEPT ![t] = Asking(s)]
    /\ UNCHANGED answer

\* the first turn of an id that has none starts one,
AskNew(t) ==
    /\ turn[t].pc = "idle" /\ current = NoSession
    /\ \E s \in Sessions :
          /\ Install(s)
          /\ turn' = [turn EXCEPT ![t] = Asking(s)]
    /\ UNCHANGED answer

\* and is answered with the greeting when it says nothing.
Greet(t) ==
    /\ turn[t].pc = "idle" /\ current = NoSession
    /\ \E s \in Sessions : Install(s)
    /\ answer' = NoAnswer
    /\ UNCHANGED turn

\* Mistake: the tool calls save into the session the id has by now.
SaveLate(t, saved, emptied, final) ==
    LET s == IF current = NoSession THEN turn[t].sess ELSE current IN
    /\ collected' = [collected EXCEPT ![s] =
          [i \in Items |-> IF i \in saved THEN turn[t].sess
                           ELSE IF i \in emptied THEN NoSession ELSE @[i]]]
    /\ complete' = [complete EXCEPT ![s] = @ \/ final]

\* Mistake: save_business_info replaces the data it should update.
SaveOver(t, saved, emptied, final) ==
    LET s == turn[t].sess IN
    /\ collected' = [collected EXCEPT ![s] =
          [i \in Items |-> IF i \in saved THEN s
                           ELSE IF i \in emptied \/ saved # {} THEN NoSession ELSE @[i]]]
    /\ complete' = [complete EXCEPT ![s] = @ \/ final]

\* What the tool calls of a reply amount to: items saved, items saved empty,
\* and whether finalize_onboarding was among them, whatever was collected.
Save(t, saved, emptied, final) ==
    LET s == turn[t].sess IN
    /\ collected' = [collected EXCEPT ![s] =
          [i \in Items |-> IF i \in saved THEN s
                           ELSE IF i \in emptied THEN NoSession ELSE @[i]]]
    /\ complete' = [complete EXCEPT ![s] = @ \/ final]

\* Services are stored as the model wrote them.
SaveServices(t, written) ==
    IF "services" \in written
    THEN \E wrong \in BOOLEAN : malformed' = [malformed EXCEPT ![turn[t].sess] = wrong]
    ELSE UNCHANGED malformed

\* The turn is done: its answer shows the turn's session.  Unless it is an apology,
\* which never says complete, a complete one carries the configuration, which the
\* route builds of the session the id has by now; malformed services make that
\* raise, and the answer is status 500.
Respond(t, apology) ==
    LET s == turn[t].sess
        filled == {i \in Items : collected'[s][i] # NoSession}
        said == ~apology /\ complete'[s]
        raises == said /\ current # NoSession /\ malformed'[current]
        built == IF current = NoSession THEN Nothing ELSE collected'[current]
    IN  /\ turn' = [turn EXCEPT ![t] = NoTurn]
        /\ \/ /\ raises
              /\ told' = [told EXCEPT ![s] = @ \cap filled]
              /\ UNCHANGED answer
           \/ /\ ~raises
              /\ told' = [told EXCEPT ![s] = filled]
              /\ answer' = [step |-> CurrentStep(filled, complete'[s]), complete |-> said,
                            data |-> filled, config |-> IF said THEN built ELSE Nothing,
                            by |-> s, crossed |-> turn[t].crossed]

\* The model replied.  Its tool calls are done in order, and one whose arguments
\* are no object raises after those before it; the answer is the reply's text, or
\* awaits another when there were calls and no text.
ModelReplies(t) ==
    /\ turn[t].pc = "model"
    /\ \E saved \in SUBSET Items, final \in BOOLEAN : \E emptied \in SUBSET (Erasable \ saved) :
          /\ Save(t, saved, emptied, final)
          /\ SaveServices(t, saved \cup emptied)
          /\ \/ \E apology \in BOOLEAN : Respond(t, apology)
             \/ /\ turn' = [turn EXCEPT ![t].pc = "follow"]
                /\ told' = [told EXCEPT ![turn[t].sess] = @ \ emptied]
                /\ UNCHANGED answer
    /\ UNCHANGED current

\* The follow-up arrived, or raised.
FollowUp(t) ==
    /\ turn[t].pc = "follow"
    /\ UNCHANGED <<current, collected, complete, malformed>>
    /\ \E apology \in BOOLEAN : Respond(t, apology)

OBNext ==
    \/ Start \/ Complete
    \/ \E t \in Turns : Ask(t) \/ AskNew(t) \/ Greet(t) \/ ModelReplies(t) \/ FollowUp(t)

OBSpec == OBInit /\ [][OBNext]_obvars

-----------------------------------------------------------------------------
(* Properties.                                                             *)

\* What was said before the dialogue was started over, or ended, never shows
\* up in the next session, however late the model's reply to it comes.
NoBleed == \A s \in Sessions : \A i \in Items : collected[s][i] \in {s, NoSession}

\* What an answer listed as collected stays collected, through other turns of
\* the session, until a reply empties it.
KeptAsTold == \A s \in Sessions : told[s] \subseteq Filled(s)

\* The configuration of a complete answer has what its own session collected, as the
\* answer lists it, and no other session's words, unless /start or /complete came in
\* during the turn: turns alone, however they overlap, stay with one session.
ConfigIsOwn == answer.complete /\ ~answer.crossed =>
    \A i \in Items : answer.config[i] = IF i \in answer.data THEN answer.by ELSE NoSession

-----------------------------------------------------------------------------
(* The inductive invariant behind them.                                    *)

\* A turn in progress holds a session, and only such a turn does.
HeldInv == \A t \in Turns : turn[t].pc = "idle" <=> turn[t].sess = NoSession

\* It is the session of the id, unless /start or /complete came in.
CurrentInv == \A t \in Turns : turn[t].pc # "idle" /\ ~turn[t].crossed => turn[t].sess = current

OBInv == OBTypeOK /\ HeldInv /\ CurrentInv /\ NoBleed /\ KeptAsTold /\ ConfigIsOwn

=============================================================================
