----------------------------- MODULE AgentContext -----------------------------
(***************************************************************************)
(* The configuration a call is answered from.  start_session fetches it,   *)
(* a turn that finds it older than the TTL fetches it again, and turns of  *)
(* one call may overlap at those awaits.  Against a business catalogue a   *)
(* fetch is five requests, each of which may fail alone; against a voice   *)
(* configuration it is two; without a platform it is the local database.   *)
(*                                                                         *)
(* Of a configuration the model keeps whose it is, whose items went into   *)
(* it and when its record was read; the platform may answer anything.      *)
(***************************************************************************)
EXTENDS Naturals

CONSTANTS
    Agents,       \* ids of the businesses
    LocalAgents,  \* those with an entry of their own in the local database
    OwnerOf,      \* the owner a business record names
    Answers,      \* sets of items a collection request may answer with
    Turns,        \* coroutines that start or continue the call
    TTL,          \* context_refresh_ttl_seconds
    RequestSpan,  \* bound: ticks one platform request takes, retries included
    MaxClock,     \* bound: ticks of a behaviour
    Default,      \* the agent id "default"
    NoAgent,      \* agent_id = None
    Shared,       \* stands for the business of an item that names none
    Local,        \* stands for the local database
    Single,       \* stands for whoever's profile is answered as one object
    NoSession

Ids == Agents \cup {Default}
\* An item of a collection and the ids it carries, of its business, of the
\* owner or of both; all are compared as strings, whatever they identify.
Items == [of : {Shared}, keys : {{}}]
    \cup {[of |-> a, keys |-> {a}] : a \in Agents}
    \cup {[of |-> a, keys |-> {OwnerOf[a]}] : a \in Agents}
    \cup {[of |-> a, keys |-> {a, OwnerOf[a]}] : a \in Agents}

ASSUME IdsAssumption == /\ LocalAgents \subseteq Agents
                        /\ Default \notin Agents /\ NoAgent \notin Ids
                        /\ {Shared, Local, Single} \cap Ids = {}
                        /\ \A a \in Agents : OwnerOf[a] # Default
ASSUME AnswersAssumption == Answers \subseteq SUBSET Items
ASSUME TimesAssumption == /\ TTL \in Nat \ {0} /\ RequestSpan \in Nat
                          /\ MaxClock \in Nat

VARIABLES
    mode,     \* what BACKEND_BASE_URL and the local test mode say of the platform
    session,
    turns,
    clock

vars == <<mode, session, turns, clock>>

Config == [agent : Ids, source : {"platform", "local"},
           from : SUBSET (Agents \cup {Shared, Local, Single}),  \* whose items went in
           read : Nat,                                   \* when the platform's record was
           excused : BOOLEAN]   \* history: the agent asked for could not be had
Session == [config : Config, updated : Nat,
            home : Ids,          \* history: the agent the call was opened for
            excused : BOOLEAN]   \* history: some configuration was excused
Fetching == {"record", "questions", "languages", "voices", "profile"}
ASSUME SessionAssumption == NoSession \notin Session
Turn == [pc : {"idle", "answer"} \cup Fetching, asked : Ids \cup {NoAgent},
         now : Nat, waited : 0 .. RequestSpan, config : Config]

NoConfig == [agent |-> Default, source |-> "local", from |-> {}, read |-> 0,
             excused |-> FALSE]
Idle == [pc |-> "idle", asked |-> NoAgent, now |-> 0, waited |-> 0,
         config |-> NoConfig]

Init ==
    /\ mode \in {"catalog", "voice", "local"}
    /\ session = NoSession
    /\ turns = [t \in Turns |-> Idle]
    /\ clock = 0

Put(t, turn) == turns' = [turns EXCEPT ![t] = turn]
Ask(t, id) == Put(t, [pc |-> "record", asked |-> id, now |-> clock, waited |-> 0,
                      config |-> NoConfig])
Proceed(t, pc, config) ==
    /\ Put(t, [turns[t] EXCEPT !.pc = pc, !.waited = 0, !.config = config])
    /\ UNCHANGED <<mode, session, clock>>
Merge(t, pc, from) ==
    Proceed(t, pc, [turns[t].config EXCEPT !.from = @ \cup from])

\* The local database's configuration of id, or the one of its default agent.
Fallback(id) ==
    [agent |-> IF id \in LocalAgents THEN id ELSE Default, source |-> "local",
     from |-> {Local}, read |-> 0,
     excused |-> id \notin LocalAgents \cup {Default, NoAgent}]

-----------------------------------------------------------------------------
(* Opening a session, and bringing it up to date.                          *)

Open(t, id, config) ==
    /\ session' = [config |-> config, updated |-> clock,
                   home |-> IF id = NoAgent THEN config.agent ELSE id,
                   excused |-> config.excused]
    /\ Put(t, Idle)
Renew(t, now, config) ==
    /\ session' = [session EXCEPT !.config = config, !.updated = now,
                                  !.excused = @ \/ config.excused]
    /\ Put(t, [turns[t] EXCEPT !.pc = "answer", !.now = now, !.waited = 0,
                               !.config = NoConfig])
\* fetch_agent_config returns to start_session or to the refresh.
Deliver(t, config) ==
    /\ IF session = NoSession THEN Open(t, turns[t].asked, config)
                              ELSE Renew(t, turns[t].now, config)
    /\ UNCHANGED <<mode, clock>>

Start(t) == \E id \in Agents \cup {NoAgent} :
    /\ session = NoSession /\ \A u \in Turns : turns[u].pc = "idle"
    /\ \/ mode = "local" /\ Open(t, id, Fallback(id))
       \/ mode # "local" /\ Ask(t, id) /\ UNCHANGED session
    /\ UNCHANGED <<mode, clock>>

Stale_OffByOne == clock - session.updated > TTL
Stale == clock - session.updated >= TTL
UseContext(t) ==
    /\ session # NoSession /\ turns[t].pc = "idle" /\ ~ Stale
    /\ Put(t, [turns[t] EXCEPT !.pc = "answer", !.now = clock])
    /\ UNCHANGED <<mode, session, clock>>
Refresh(t) ==
    /\ session # NoSession /\ turns[t].pc = "idle" /\ Stale
    /\ \/ mode = "local" /\ Renew(t, clock, Fallback(session.config.agent))
       \/ mode # "local" /\ Ask(t, session.config.agent) /\ UNCHANGED session
    /\ UNCHANGED <<mode, clock>>
Answer(t) ==
    /\ turns[t].pc = "answer"
    /\ Put(t, Idle)
    /\ UNCHANGED <<mode, session, clock>>

-----------------------------------------------------------------------------
(* The requests of a fetch.                                                *)

Record(b, asked, found) ==
    [agent |-> b, source |-> "platform", from |-> {b} \cap Agents, read |-> clock,
     excused |-> asked \notin found \cup {NoAgent}]

Selected_ActiveOnly(asked, listed, active) ==
    IF asked \in active THEN {asked} ELSE IF active # {} THEN active ELSE listed
\* The business asked for, or else the first active or the first at all.
Selected(asked, listed, active) ==
    IF asked \in listed THEN {asked} ELSE IF active # {} THEN active ELSE listed

CatalogueArrives(t) ==
    /\ turns[t].pc = "record" /\ mode = "catalog"
    /\ \E listed \in SUBSET Agents \ {{}} : \E active \in SUBSET listed :
       \E b \in Selected(turns[t].asked, listed, active) :
           Proceed(t, "questions", Record(b, turns[t].asked, listed))
\* One object that says no id is taken for a business all the same.
UnnamedArrives(t) ==
    /\ turns[t].pc = "record"
    /\ Proceed(t, "questions", Record(Default, turns[t].asked, {Default}))
\* Without an agent to ask for, the platform answers with one of its choice.
VoiceConfigArrives(t) ==
    /\ turns[t].pc = "record" /\ mode = "voice"
    /\ \E b \in Agents :
        /\ turns[t].asked \in Agents => b = turns[t].asked
        /\ Proceed(t, "questions", Record(b, turns[t].asked, {b}))
RecordFails(t) ==
    /\ turns[t].pc = "record"
    /\ Deliver(t, Fallback(turns[t].asked))

\* Ids an item may carry to be taken for the business of turn t.
Targets(t) == LET b == turns[t].config.agent IN
    ({turns[t].asked} \ {NoAgent}) \cup (IF b \in Agents THEN {b, OwnerOf[b]} ELSE {})
Matches_Anything(item, targets) == TRUE
Matches(item, targets) == item.keys = {} \/ item.keys \cap targets # {}
Taken(t, answer) == {item.of : item \in {i \in answer : Matches(i, Targets(t))}}

QuestionsArrive(t) ==
    /\ turns[t].pc = "questions" /\ mode = "catalog"
    /\ \E answer \in Answers : Merge(t, "languages", Taken(t, answer))
LanguagesArrive(t) ==
    /\ turns[t].pc = "languages"
    /\ \E answer \in Answers : Merge(t, "voices", Taken(t, answer))
VoicesArrive(t) ==
    /\ turns[t].pc = "voices"
    /\ \E answer \in Answers : Merge(t, "profile", Taken(t, answer))
PartFails(t) ==
    \/ turns[t].pc = "questions" /\ mode = "catalog" /\ Merge(t, "languages", {})
    \/ turns[t].pc = "languages" /\ Merge(t, "voices", {})
    \/ turns[t].pc = "voices" /\ Merge(t, "profile", {})

\* The last answer; a configuration that does not validate is not used at all.
Complete(t, from) ==
    \/ Deliver(t, [turns[t].config EXCEPT !.from = @ \cup from])
    \/ Deliver(t, Fallback(turns[t].asked))
\* The listed profile with an id of the business, if there is one; an answer
\* that is one object with an id is taken whosever id it is.
ProfileArrives(t) ==
    /\ turns[t].pc = "profile"
    /\ \/ \E p \in SUBSET ({turns[t].asked, turns[t].config.agent} \cap Agents) :
              Complete(t, p)
       \/ Complete(t, {Single})
\* A voice configuration's own questions are kept if the answer holds none,
\* and replaced by the local database's if the request fails.
VoiceQuestionsArrive(t) ==
    /\ turns[t].pc = "questions" /\ mode = "voice"
    /\ Complete(t, {})
VoiceQuestionsFail(t) ==
    /\ turns[t].pc = "questions" /\ mode = "voice"
    /\ Complete(t, {Local})

Tick ==
    /\ clock < MaxClock
    /\ \A t \in Turns : turns[t].pc \in Fetching => turns[t].waited < RequestSpan
    /\ clock' = clock + 1
    /\ turns' = [t \in Turns |-> IF turns[t].pc \in Fetching
                                 THEN [turns[t] EXCEPT !.waited = @ + 1] ELSE turns[t]]
    /\ UNCHANGED <<mode, session>>

Next ==
    \/ Tick
    \/ \E t \in Turns :
        \/ Start(t) \/ UseContext(t) \/ Refresh(t) \/ Answer(t)
        \/ CatalogueArrives(t) \/ UnnamedArrives(t) \/ VoiceConfigArrives(t)
        \/ RecordFails(t) \/ QuestionsArrive(t) \/ LanguagesArrive(t)
        \/ VoicesArrive(t) \/ PartFails(t) \/ ProfileArrives(t)
        \/ VoiceQuestionsArrive(t) \/ VoiceQuestionsFail(t)

Spec == Init /\ [][Next]_vars

-----------------------------------------------------------------------------
(* Properties.                                                             *)

\* Every variable has its type: sessions and turns are records of the kinds
\* start_session, the refresh and the five fetches make.
TypeOK ==
    /\ mode \in {"catalog", "voice", "local"}
    /\ session \in Session \cup {NoSession}
    /\ turns \in [Turns -> Turn]
    /\ clock \in Nat

\* What a turn answers from was read from the platform less than the TTL and
\* the four requests after the record's ago, measured at the turn's check,
\* even if another turn's slower refresh has replaced it since.
ContextIsFresh ==
    \A t \in Turns :
        turns[t].pc = "answer" /\ session.config.source = "platform" =>
            turns[t].now < session.config.read + TTL + 4 * RequestSpan

\* A call stays with the business it was opened for, through any refreshes,
\* unless a fetch failed for an agent the local database does not know or
\* the platform answered without the business asked for.
AgentIsKept ==
    session # NoSession /\ ~ session.excused =>
        session.config.agent = session.home

\* Businesses whose items may be taken for id's, ids of businesses and of
\* owners being compared alike.
Kin(id) == {a \in Agents : id \in Agents /\ {a, OwnerOf[a]} \cap {id, OwnerOf[id]} # {}}

Belongs(config) ==
    ~ config.excused =>
        config.from \subseteq Kin(config.agent) \cup {Shared, Single}
            \cup (IF mode = "catalog" /\ config.source = "platform" THEN {} ELSE {Local})

\* No questions, languages, voices or listed profile of an unrelated business
\* reach a caller whose business was found, and those of the local database
\* only where the platform serves voice configurations.  Of a profile answered
\* as one object nothing is promised: it is taken without a look at its id.
PartsBelong == session # NoSession => Belongs(session.config)

=============================================================================
