-------------------------- MODULE AgentContextProofs --------------------------
(***************************************************************************)
(* Proofs about AgentContext, for any businesses, owners, answers of the   *)
(* platform, number of turns and times.                                    *)
(***************************************************************************)
EXTENDS AgentContext, TLAPS

\* Ticks the requests after the record's may have taken when a fetch is at pc.
Spent(pc) == CASE pc = "questions" -> 0
               [] pc = "languages" -> RequestSpan
               [] pc = "voices" -> RequestSpan + RequestSpan
               [] pc = "profile" -> RequestSpan + RequestSpan + RequestSpan
               [] OTHER -> 0

\* What may be said of a configuration as soon as its record has been read:
\* whose it is and whose items it holds, and when it was read.
Fits(t, config) ==
    /\ config \in Config
    /\ turns[t].asked # NoAgent /\ ~ config.excused => config.agent = turns[t].asked
    /\ config.source = "platform" => turns[t].now <= config.read /\ config.read <= clock
    /\ Belongs(config)

\* A fetch that is past its record, with the time it has taken since.
FetchInv(t) ==
    /\ turns[t].pc \in Fetching =>
        /\ mode # "local"
        /\ session # NoSession =>
            /\ turns[t].asked \in Ids
            /\ ~ session.excused => turns[t].asked = session.home
    /\ turns[t].pc \in Fetching \ {"record"} =>
        /\ turns[t].config.source = "platform"
        /\ Fits(t, turns[t].config)
        /\ clock <= turns[t].config.read + Spent(turns[t].pc) + turns[t].waited
    /\ turns[t].pc \in Fetching \ {"record", "questions"} => mode = "catalog"

AnswerInv(t) ==
    /\ turns[t].now <= clock
    /\ turns[t].pc = "answer" =>
        /\ session # NoSession
        /\ session.config.source = "platform" =>
               turns[t].now < session.config.read + TTL + 4 * RequestSpan

SessionInv ==
    /\ session # NoSession =>
        /\ session.updated <= clock
        /\ session.config.source = "platform" =>
            /\ session.config.read <= clock
            /\ session.updated <= session.config.read + 4 * RequestSpan
    /\ AgentIsKept
    /\ PartsBelong

\* A session is opened by one coroutine, before any other works on the call.
OpenedAlone ==
    session = NoSession => \A t, u \in Turns :
        turns[t].pc # "idle" /\ turns[u].pc # "idle" => t = u

Inv == /\ TypeOK
       /\ SessionInv
       /\ OpenedAlone
       /\ \A t \in Turns : FetchInv(t) /\ AnswerInv(t)

-----------------------------------------------------------------------------
(* Configurations and how turns are changed.                               *)

LEMMA PutEffect ==
    ASSUME TypeOK, NEW t \in Turns, NEW turn \in Turn, Put(t, turn)
    PROVE  /\ turns' \in [Turns -> Turn]
           /\ turns'[t] = turn
           /\ \A u \in Turns : u # t => turns'[u] = turns[u]
  BY DEF TypeOK, Put

LEMMA IdleTurn == Idle \in Turn /\ Idle.pc = "idle" /\ Idle.now = 0
  BY TimesAssumption DEF Idle, Turn, NoConfig, Config, Ids

LEMMA FallbackFits ==
    ASSUME NEW t \in Turns, NEW id \in Ids \cup {NoAgent}
    PROVE  /\ Fallback(id) \in Config /\ Fallback(id).source = "local"
           /\ id # NoAgent /\ ~ Fallback(id).excused => Fallback(id).agent = id
           /\ Belongs(Fallback(id))
<1> DEFINE config == Fallback(id)
<1>1. config.agent \in Ids /\ config.source = "local" /\ config.from = {Local}
      /\ config.read = 0 /\ config.excused \in BOOLEAN
  BY IdsAssumption DEF Fallback, Ids
<1>2. config \in Config
  BY <1>1 DEF Fallback, Config
<1>3. id # NoAgent /\ ~ config.excused => config.agent = id
  BY IdsAssumption DEF Fallback, Ids
<1> HIDE DEF config
<1>4. Belongs(config)
  BY <1>1 DEF Belongs
<1>5. QED BY <1>1, <1>2, <1>3, <1>4 DEF config

LEMMA RecordFits ==
    ASSUME TypeOK, NEW t \in Turns, turns[t].now <= clock,
           NEW b \in Ids, NEW found \in SUBSET Ids, b \in found,
           turns[t].asked \in found => b = turns[t].asked
    PROVE  LET config == Record(b, turns[t].asked, found)
           IN Fits(t, config) /\ config.source = "platform" /\ config.read = clock
<1> DEFINE config == Record(b, turns[t].asked, found)
<1>1. config.agent = b /\ config.source = "platform" /\ config.from = {b} \cap Agents
      /\ config.read = clock /\ config.excused = (turns[t].asked \notin found \cup {NoAgent})
  BY DEF Record
<1>2. config \in Config
  BY <1>1 DEF Record, Config, TypeOK
<1>3. Belongs(config)
  BY <1>1 DEF Belongs, Kin
<1> HIDE DEF config
<1>4. turns[t].now <= config.read /\ config.read <= clock
  BY <1>1 DEF TypeOK
<1>5. QED BY <1>1, <1>2, <1>3, <1>4 DEF Fits, config

\* Adding items to a configuration changes nothing else of it.
LEMMA MergedFits ==
    ASSUME Inv, NEW t \in Turns, turns[t].pc \in Fetching \ {"record"},
           NEW from \in SUBSET (Agents \cup {Shared, Local, Single}),
           ~ turns[t].config.excused =>
               from \subseteq Kin(turns[t].config.agent) \cup {Shared, Single}
                   \cup (IF mode = "catalog" THEN {} ELSE {Local})
    PROVE  LET config == [turns[t].config EXCEPT !.from = @ \cup from]
           IN /\ Fits(t, config) /\ config.source = "platform"
              /\ config.read = turns[t].config.read
<1> DEFINE old == turns[t].config
           config == [old EXCEPT !.from = @ \cup from]
<1>1. old \in Config /\ old.source = "platform" /\ Fits(t, old)
  BY DEF Inv, FetchInv, Fits
<1>2. /\ config \in Config /\ config.agent = old.agent /\ config.source = old.source
      /\ config.from = old.from \cup from /\ config.read = old.read
      /\ config.excused = old.excused
  BY <1>1 DEF Config
<1> HIDE DEF config
<1>3. Belongs(config)
  BY <1>1, <1>2 DEF Fits, Belongs
<1>4. QED BY <1>1, <1>2, <1>3 DEF Fits, config

\* What one business's items may be taken for, when the business was found.
LEMMA TakenBelongs ==
    ASSUME Inv, NEW t \in Turns, turns[t].pc \in Fetching \ {"record"},
           NEW answer \in Answers
    PROVE  /\ Taken(t, answer) \in SUBSET (Agents \cup {Shared, Local, Single})
           /\ ~ turns[t].config.excused =>
                  Taken(t, answer) \subseteq Kin(turns[t].config.agent) \cup {Shared}
<1> DEFINE id == turns[t].config.agent
<1>1. id \in Ids /\ Fits(t, turns[t].config)
  BY DEF Inv, FetchInv, Fits, Config
<1>2. answer \subseteq Items
  BY AnswersAssumption
<1>3. \A item \in Items :
        \/ item.of = Shared /\ item.keys = {}
        \/ item.of \in Agents /\ item.keys # {} /\ item.keys \subseteq {item.of, OwnerOf[item.of]}
  BY DEF Items
<1>4. ASSUME ~ turns[t].config.excused, NEW item \in answer, Matches(item, Targets(t))
      PROVE  item.of \in Kin(id) \cup {Shared}
  <2>1. CASE item.of = Shared
    BY <2>1
  <2>2. CASE item.of \in Agents /\ item.keys # {}
                /\ item.keys \subseteq {item.of, OwnerOf[item.of]}
    <3>1. turns[t].asked \in {id, NoAgent}
      BY <1>1, <1>4 DEF Fits
    <3>2. PICK key \in item.keys : key \in Targets(t)
      BY <1>4, <2>2 DEF Matches
    <3>3. key = id \/ (id \in Agents /\ key = OwnerOf[id])
      BY <1>1, <3>1, <3>2 DEF Targets
    <3>4. id \in Agents
      BY <1>1, <2>2, <3>2, <3>3, IdsAssumption DEF Ids
    <3>5. {item.of, OwnerOf[item.of]} \cap {id, OwnerOf[id]} # {}
      BY <2>2, <3>2, <3>3
    <3>6. QED BY <2>2, <3>4, <3>5 DEF Kin
  <2>3. QED BY <1>2, <1>3, <2>1, <2>2
<1>5. \A item \in answer : item.of \in Agents \cup {Shared}
  BY <1>2, <1>3
<1>6. QED BY <1>4, <1>5 DEF Taken

-----------------------------------------------------------------------------
(* Each way a turn is changed keeps the invariant.                         *)

\* What may become of the session when a fetch returns or is not needed.
Usable(config) ==
    /\ config \in Config
    /\ Belongs(config)
    /\ config.source = "platform" =>
           config.read <= clock /\ clock <= config.read + 4 * RequestSpan

LEMMA OpenKeepsInv ==
    ASSUME Inv, NEW t \in Turns, session = NoSession,
           \A u \in Turns : u # t => turns[u].pc = "idle",
           NEW id \in Ids \cup {NoAgent}, NEW config, Usable(config),
           id # NoAgent /\ ~ config.excused => config.agent = id,
           Open(t, id, config), UNCHANGED <<mode, clock>>
    PROVE  Inv'
<1>1. /\ turns' \in [Turns -> Turn] /\ turns'[t] = Idle
      /\ \A u \in Turns : u # t => turns'[u] = turns[u]
  BY PutEffect, IdleTurn DEF Inv, Open
<1>2. \A u \in Turns : turns'[u].pc = "idle" /\ turns'[u].now <= clock
  BY <1>1, IdleTurn DEF Inv, TypeOK, AnswerInv
<1>3. config \in Config /\ clock \in Nat /\ RequestSpan \in Nat
  BY TimesAssumption DEF Usable, Inv, TypeOK
<1>4. /\ session' \in Session /\ session' # NoSession
      /\ session'.config = config /\ session'.updated = clock
      /\ session'.excused = config.excused
      /\ session'.home = IF id = NoAgent THEN config.agent ELSE id
  BY <1>3, SessionAssumption DEF Open, Session, Config
<1>5. TypeOK'
  BY <1>1, <1>4 DEF Inv, TypeOK
<1>6. SessionInv'
  <2>1. Belongs(config)'
    BY DEF Usable, Belongs
  <2>2. PartsBelong'
    BY <1>4, <2>1 DEF PartsBelong, Belongs
  <2>3. AgentIsKept'
    BY <1>4 DEF AgentIsKept
  <2>4. QED BY <1>3, <1>4, <2>2, <2>3 DEF SessionInv, Usable
<1>7. OpenedAlone' /\ \A u \in Turns : FetchInv(u)' /\ AnswerInv(u)'
  BY <1>2, <1>4 DEF OpenedAlone, FetchInv, AnswerInv, Fetching
<1>8. QED BY <1>5, <1>6, <1>7 DEF Inv

LEMMA RenewKeepsInv ==
    ASSUME Inv, NEW t \in Turns, session # NoSession,
           NEW config, Usable(config), NEW now \in Nat, now <= clock,
           config.source = "platform" => now <= config.read,
           ~ session.excused /\ ~ config.excused => config.agent = session.home,
           Renew(t, now, config), UNCHANGED <<mode, clock>>
    PROVE  Inv'
<1> DEFINE turn == [turns[t] EXCEPT !.pc = "answer", !.now = now, !.waited = 0,
                                    !.config = NoConfig]
<1>1. /\ turn \in Turn /\ turn.pc = "answer" /\ turn.now = now
  BY IdleTurn, TimesAssumption DEF Inv, TypeOK, Turn, Idle, NoConfig
<1>2. /\ turns' \in [Turns -> Turn] /\ turns'[t] = turn
      /\ \A u \in Turns : u # t => turns'[u] = turns[u]
  BY <1>1, PutEffect DEF Inv, Renew
<1> HIDE DEF turn
<1>3. config \in Config /\ clock \in Nat /\ RequestSpan \in Nat /\ TTL \in Nat \ {0}
  BY TimesAssumption DEF Usable, Inv, TypeOK
<1>4. session \in Session
  BY DEF Inv, TypeOK
<1>5. /\ session' \in Session /\ session' # NoSession
      /\ session'.config = config /\ session'.updated = now
      /\ session'.excused = (session.excused \/ config.excused)
      /\ session'.home = session.home
  <2>1. session' = [session EXCEPT !.config = config, !.updated = now,
                                   !.excused = session.excused \/ config.excused]
    BY DEF Renew
  <2>2. session.excused \in BOOLEAN /\ config.excused \in BOOLEAN
    BY <1>3, <1>4 DEF Session, Config
  <2>3. QED BY <1>3, <1>4, <2>1, <2>2, SessionAssumption DEF Session
<1>6. TypeOK'
  BY <1>2, <1>5 DEF Inv, TypeOK
<1>7. SessionInv'
  <2>1. Belongs(config)'
    BY DEF Usable, Belongs
  <2>2. PartsBelong'
    BY <1>5, <2>1 DEF PartsBelong, Belongs
  <2>3. AgentIsKept'
    BY <1>5 DEF AgentIsKept
  <2>4. QED BY <1>3, <1>5, <2>2, <2>3 DEF SessionInv, Usable, Config
<1>8. OpenedAlone'
  BY <1>5 DEF OpenedAlone
<1>9. ASSUME NEW u \in Turns PROVE FetchInv(u)' /\ AnswerInv(u)'
  <2>1. turns[u] \in Turn /\ turns[u].now \in Nat
    BY DEF Inv, TypeOK, Turn
  <2>2. CASE u = t
    BY <1>1, <1>2, <1>3, <1>5, <2>2 DEF FetchInv, AnswerInv, Fetching, Usable, Config
  <2>3. CASE u # t
    <3>1. turns'[u] = turns[u] /\ FetchInv(u) /\ AnswerInv(u)
      BY <1>2, <2>3 DEF Inv
    <3>2. AnswerInv(u)'
      BY <1>3, <1>5, <2>1, <3>1 DEF AnswerInv, Usable, Config
    <3>3. Fits(u, turns[u].config) => Fits(u, turns[u].config)'
      BY <3>1 DEF Fits, Belongs
    <3>4. FetchInv(u)'
      BY <1>5, <3>1, <3>3 DEF FetchInv, Fits
    <3>5. QED BY <3>2, <3>4
  <2>4. QED BY <2>2, <2>3
<1>10. QED BY <1>6, <1>7, <1>8, <1>9 DEF Inv

LEMMA DeliverKeepsInv ==
    ASSUME Inv, NEW t \in Turns, turns[t].pc \in Fetching,
           NEW config, Usable(config), Fits(t, config), Deliver(t, config)
    PROVE  Inv'
<1>1. turns[t].asked \in Ids \cup {NoAgent} /\ turns[t].now \in Nat /\ turns[t].now <= clock
  BY DEF Inv, TypeOK, Turn, AnswerInv
<1>2. CASE session = NoSession
  <2>1. \A u \in Turns : u # t => turns[u].pc = "idle"
    BY <1>2 DEF Inv, OpenedAlone, Fetching
  <2>2. QED BY <1>1, <1>2, <2>1, OpenKeepsInv DEF Deliver, Fits
<1>3. CASE session # NoSession
  <2>1. turns[t].asked \in Ids /\ (~ session.excused => turns[t].asked = session.home)
    BY <1>3 DEF Inv, FetchInv
  <2>2. ~ session.excused /\ ~ config.excused => config.agent = session.home
    BY <2>1, IdsAssumption DEF Fits
  <2>3. QED BY <1>1, <1>3, <2>2, RenewKeepsInv DEF Deliver, Fits
<1>4. QED BY <1>2, <1>3

LEMMA FailureKeepsInv ==
    ASSUME Inv, NEW t \in Turns, turns[t].pc \in Fetching,
           Deliver(t, Fallback(turns[t].asked))
    PROVE  Inv'
<1>1. turns[t].asked \in Ids \cup {NoAgent}
  BY DEF Inv, TypeOK, Turn
<1>2. QED BY <1>1, FallbackFits, DeliverKeepsInv DEF Usable, Fits

LEMMA ProceedKeepsInv ==
    ASSUME Inv, NEW t \in Turns, turns[t].pc \in Fetching,
           NEW pc \in Fetching \ {"record"}, pc # "questions" => mode = "catalog",
           NEW config, Fits(t, config), config.source = "platform",
           clock <= config.read + Spent(pc), Proceed(t, pc, config)
    PROVE  Inv'
<1> DEFINE turn == [turns[t] EXCEPT !.pc = pc, !.waited = 0, !.config = config]
<1>1. /\ turn \in Turn /\ turn.pc = pc /\ turn.waited = 0 /\ turn.config = config
      /\ turn.asked = turns[t].asked /\ turn.now = turns[t].now
  <2>1. turns[t] \in Turn /\ config \in Config /\ 0 \in 0 .. RequestSpan
    BY TimesAssumption DEF Inv, TypeOK, Fits
  <2>2. pc \in {"idle", "answer"} \cup Fetching
    OBVIOUS
  <2>3. QED BY <2>1, <2>2 DEF Turn
<1>2. /\ turns' \in [Turns -> Turn] /\ turns'[t] = turn
      /\ \A u \in Turns : u # t => turns'[u] = turns[u]
  BY <1>1, PutEffect DEF Inv, Proceed
<1> HIDE DEF turn
<1>3. UNCHANGED <<mode, session, clock>>
  BY DEF Proceed
<1>4. TypeOK' /\ SessionInv'
  BY <1>2, <1>3 DEF Inv, TypeOK, SessionInv, AgentIsKept, PartsBelong, Belongs
<1>5. OpenedAlone'
  BY <1>1, <1>2, <1>3 DEF Inv, OpenedAlone, Fetching
<1>6. ASSUME NEW u \in Turns PROVE FetchInv(u)' /\ AnswerInv(u)'
  <2>1. CASE u = t
    <3>1. Fits(t, config)'
      BY <1>1, <1>2, <1>3 DEF Fits, Belongs
    <3>2. config.read \in Nat /\ Spent(pc) \in Nat /\ Spent(pc)' = Spent(pc)
      BY TimesAssumption DEF Fits, Config, Spent, Fetching
    <3>3. config.read + Spent(pc) + 0 = config.read + Spent(pc)
      BY <3>2
    <3>4. FetchInv(t)'
      BY <1>1, <1>2, <1>3, <3>1, <3>2, <3>3 DEF Inv, FetchInv
    <3>5. AnswerInv(t)'
      BY <1>1, <1>2, <1>3 DEF Inv, AnswerInv, Fetching
    <3>6. QED BY <2>1, <3>4, <3>5
  <2>2. CASE u # t
    <3>1. turns'[u] = turns[u] /\ FetchInv(u) /\ AnswerInv(u)
      BY <1>2, <2>2 DEF Inv
    <3>2. Fits(u, turns[u].config) => Fits(u, turns[u].config)'
      BY <1>3, <3>1 DEF Fits, Belongs
    <3>3. QED BY <1>3, <3>1, <3>2 DEF FetchInv, AnswerInv, Fits
  <2>3. QED BY <2>1, <2>2
<1>7. QED BY <1>4, <1>5, <1>6 DEF Inv

\* A step that changes one turn of an open session, and nothing else.
LEMMA UntouchedTurns ==
    ASSUME Inv, NEW t \in Turns, turns' \in [Turns -> Turn],
           \A u \in Turns : u # t => turns'[u] = turns[u],
           session # NoSession \/ \A u \in Turns : u # t => turns[u].pc = "idle",
           UNCHANGED <<mode, session, clock>>, FetchInv(t)', AnswerInv(t)'
    PROVE  Inv'
<1>1. TypeOK' /\ SessionInv'
  BY DEF Inv, TypeOK, SessionInv, AgentIsKept, PartsBelong, Belongs
<1>2. OpenedAlone'
  BY DEF OpenedAlone
<1>3. ASSUME NEW u \in Turns PROVE FetchInv(u)' /\ AnswerInv(u)'
  <2>1. CASE u = t
    BY <2>1
  <2>2. CASE u # t
    <3>1. turns'[u] = turns[u] /\ FetchInv(u) /\ AnswerInv(u)
      BY <2>2 DEF Inv
    <3>2. Fits(u, turns[u].config) => Fits(u, turns[u].config)'
      BY <3>1 DEF Fits, Belongs
    <3>3. QED BY <3>1, <3>2 DEF FetchInv, AnswerInv, Fits
  <2>3. QED BY <2>1, <2>2
<1>4. QED BY <1>1, <1>2, <1>3 DEF Inv

LEMMA AskKeepsInv ==
    ASSUME Inv, NEW t \in Turns, turns[t].pc = "idle", mode # "local",
           NEW id \in Ids \cup {NoAgent}, Ask(t, id), UNCHANGED <<mode, session, clock>>,
           \/ session # NoSession /\ id \in Ids /\ (~ session.excused => id = session.home)
           \/ session = NoSession /\ \A u \in Turns : turns[u].pc = "idle"
    PROVE  Inv'
<1> DEFINE turn == [pc |-> "record", asked |-> id, now |-> clock, waited |-> 0,
                    config |-> NoConfig]
<1>1. turn \in Turn /\ turn.pc = "record" /\ turn.asked = id /\ turn.now = clock
  BY IdleTurn, TimesAssumption DEF Inv, TypeOK, Turn, Idle, Fetching
<1>2. /\ turns' \in [Turns -> Turn] /\ turns'[t] = turn
      /\ \A u \in Turns : u # t => turns'[u] = turns[u]
  BY <1>1, PutEffect DEF Inv, Ask
<1> HIDE DEF turn
<1>3. FetchInv(t)' /\ AnswerInv(t)'
  BY <1>1, <1>2 DEF Inv, TypeOK, FetchInv, AnswerInv, Fetching
<1>4. QED BY <1>2, <1>3, UntouchedTurns

-----------------------------------------------------------------------------
(* The actions.                                                            *)

LEMMA StartKeepsInv == ASSUME Inv, NEW t \in Turns, Start(t) PROVE Inv'
<1> USE DEF Start
<1>1. PICK id \in Agents \cup {NoAgent} :
        /\ \/ mode = "local" /\ Open(t, id, Fallback(id))
           \/ mode # "local" /\ Ask(t, id) /\ UNCHANGED session
        /\ UNCHANGED <<mode, clock>>
  OBVIOUS
<1>2. session = NoSession /\ \A u \in Turns : turns[u].pc = "idle"
  OBVIOUS
<1>3. id \in Ids \cup {NoAgent}
  BY DEF Ids
<1>4. CASE Open(t, id, Fallback(id))
  BY <1>1, <1>2, <1>3, <1>4, FallbackFits, OpenKeepsInv DEF Usable
<1>5. CASE mode # "local" /\ Ask(t, id) /\ UNCHANGED session
  BY <1>1, <1>2, <1>3, <1>5, AskKeepsInv
<1>6. QED BY <1>1, <1>4, <1>5

LEMMA UseContextKeepsInv == ASSUME Inv, NEW t \in Turns, UseContext(t) PROVE Inv'
<1> DEFINE turn == [turns[t] EXCEPT !.pc = "answer", !.now = clock]
<1>1. turn \in Turn /\ turn.pc = "answer" /\ turn.now = clock
  BY DEF Inv, TypeOK, Turn
<1>2. /\ turns' \in [Turns -> Turn] /\ turns'[t] = turn
      /\ \A u \in Turns : u # t => turns'[u] = turns[u]
  BY <1>1, PutEffect DEF Inv, UseContext
<1> HIDE DEF turn
<1>3. session # NoSession /\ clock - session.updated < TTL /\ UNCHANGED <<mode, session, clock>>
  <2>1. session \in Session /\ clock \in Nat
    BY DEF Inv, TypeOK, UseContext
  <2>2. QED BY <2>1, TimesAssumption DEF UseContext, Stale, Session
<1>4. turns[t].pc = "idle"
  BY DEF UseContext
<1>5. session.config.source = "platform" =>
        clock < session.config.read + TTL + 4 * RequestSpan
  BY <1>3, TimesAssumption DEF Inv, TypeOK, SessionInv, Session, Config
<1>6. FetchInv(t)' /\ AnswerInv(t)'
  BY <1>1, <1>2, <1>3, <1>5 DEF Inv, TypeOK, FetchInv, AnswerInv, Fetching
<1>7. QED BY <1>2, <1>3, <1>6, UntouchedTurns

LEMMA AnswerKeepsInv == ASSUME Inv, NEW t \in Turns, Answer(t) PROVE Inv'
<1>1. /\ turns' \in [Turns -> Turn] /\ turns'[t] = Idle
      /\ \A u \in Turns : u # t => turns'[u] = turns[u]
  BY IdleTurn, PutEffect DEF Inv, Answer
<1>2. session # NoSession /\ UNCHANGED <<mode, session, clock>>
  BY DEF Inv, AnswerInv, Answer
<1>3. FetchInv(t)' /\ AnswerInv(t)'
  BY <1>1, <1>2, IdleTurn DEF Inv, TypeOK, FetchInv, AnswerInv, Fetching
<1>4. QED BY <1>1, <1>2, <1>3, UntouchedTurns

LEMMA RefreshKeepsInv == ASSUME Inv, NEW t \in Turns, Refresh(t) PROVE Inv'
<1> DEFINE id == session.config.agent
<1>1. session # NoSession /\ turns[t].pc = "idle" /\ UNCHANGED <<mode, clock>>
  BY DEF Refresh
<1>2. session \in Session /\ id \in Ids /\ clock \in Nat
  BY <1>1 DEF Inv, TypeOK, Session, Config
<1>3. ~ session.excused => id = session.home
  BY <1>1 DEF Inv, SessionInv, AgentIsKept
<1>4. CASE Renew(t, clock, Fallback(id))
  <2>1. /\ Fallback(id) \in Config /\ Fallback(id).source = "local"
        /\ (~ Fallback(id).excused => Fallback(id).agent = id)
        /\ Belongs(Fallback(id))
    BY <1>2, FallbackFits, IdsAssumption
  <2> HIDE DEF id
  <2>2. clock <= clock
    BY <1>2
  <2>3. QED BY <1>1, <1>2, <1>3, <1>4, <2>1, <2>2, RenewKeepsInv DEF Usable
<1>5. CASE mode # "local" /\ Ask(t, id) /\ UNCHANGED session
  BY <1>1, <1>2, <1>3, <1>5, AskKeepsInv
<1>6. QED BY <1>4, <1>5 DEF Refresh

LEMMA RecordKeepsInv ==
    ASSUME Inv, NEW t \in Turns, turns[t].pc = "record",
           NEW b \in Ids, NEW found \in SUBSET Ids, b \in found,
           turns[t].asked \in found => b = turns[t].asked,
           Proceed(t, "questions", Record(b, turns[t].asked, found))
    PROVE  Inv'
<1> DEFINE config == Record(b, turns[t].asked, found)
<1>1. Fits(t, config) /\ config.source = "platform" /\ config.read = clock
  BY RecordFits DEF Inv, AnswerInv
<1> HIDE DEF config
<1>2. Spent("questions") = 0 /\ clock \in Nat /\ "questions" \in Fetching
  BY DEF Spent, Inv, TypeOK, Fetching
<1>3. clock <= config.read + Spent("questions")
  BY <1>1, <1>2
<1>4. turns[t].pc \in Fetching
  BY DEF Fetching
<1>5. QED BY <1>1, <1>2, <1>3, <1>4, ProceedKeepsInv DEF config

LEMMA CatalogueKeepsInv == ASSUME Inv, NEW t \in Turns, CatalogueArrives(t) PROVE Inv'
<1>1. PICK listed \in SUBSET Agents \ {{}} : \E active \in SUBSET listed :
        \E b \in Selected(turns[t].asked, listed, active) :
            Proceed(t, "questions", Record(b, turns[t].asked, listed))
  BY DEF CatalogueArrives
<1> PICK active \in SUBSET listed : \E b \in Selected(turns[t].asked, listed, active) :
        Proceed(t, "questions", Record(b, turns[t].asked, listed))
  BY <1>1
<1>2. PICK b \in Selected(turns[t].asked, listed, active) :
        Proceed(t, "questions", Record(b, turns[t].asked, listed))
  OBVIOUS
<1>3. b \in listed /\ (turns[t].asked \in listed => b = turns[t].asked)
  BY DEF Selected
<1>4. turns[t].pc = "record" /\ listed \in SUBSET Ids
  BY DEF CatalogueArrives, Ids
<1>5. QED BY <1>2, <1>3, <1>4, RecordKeepsInv

LEMMA UnnamedKeepsInv == ASSUME Inv, NEW t \in Turns, UnnamedArrives(t) PROVE Inv'
  BY RecordKeepsInv DEF UnnamedArrives, Ids

LEMMA VoiceConfigKeepsInv == ASSUME Inv, NEW t \in Turns, VoiceConfigArrives(t) PROVE Inv'
<1>1. PICK b \in Agents : Proceed(t, "questions", Record(b, turns[t].asked, {b}))
  BY DEF VoiceConfigArrives
<1>2. QED BY <1>1, RecordKeepsInv DEF VoiceConfigArrives, Ids

LEMMA RecordFailureKeepsInv == ASSUME Inv, NEW t \in Turns, RecordFails(t) PROVE Inv'
  BY FailureKeepsInv DEF RecordFails, Fetching

\* The catalogue's collections, one after the other.
LEMMA MergeKeepsInv ==
    ASSUME Inv, NEW t \in Turns, mode = "catalog", NEW pc, NEW from,
           \/ turns[t].pc = "questions" /\ pc = "languages"
           \/ turns[t].pc = "languages" /\ pc = "voices"
           \/ turns[t].pc = "voices" /\ pc = "profile",
           from = {} \/ \E answer \in Answers : from = Taken(t, answer),
           Merge(t, pc, from)
    PROVE  Inv'
<1> DEFINE old == turns[t].config
           config == [old EXCEPT !.from = @ \cup from]
<1>1. turns[t].pc \in Fetching \ {"record"} /\ pc \in Fetching \ {"record"}
  BY DEF Fetching
<1>2. /\ from \in SUBSET (Agents \cup {Shared, Local, Single})
      /\ (~ old.excused => from \subseteq Kin(old.agent) \cup {Shared} \cup {})
  BY <1>1, TakenBelongs
<1>3. Fits(t, config) /\ config.source = "platform" /\ config.read = old.read
  BY <1>1, <1>2, MergedFits
<1>4. /\ clock <= old.read + Spent(turns[t].pc) + turns[t].waited
      /\ old.read \in Nat /\ clock \in Nat /\ turns[t].waited \in 0 .. RequestSpan
  BY <1>1 DEF Inv, FetchInv, Fits, Config, TypeOK, Turn
<1>5. Proceed(t, pc, config)
  BY DEF Merge
<1> HIDE DEF config
<1>6. clock <= config.read + Spent(pc)
  <2>1. \/ Spent(turns[t].pc) = 0 /\ Spent(pc) = RequestSpan
        \/ Spent(turns[t].pc) = RequestSpan /\ Spent(pc) = RequestSpan + RequestSpan
        \/ /\ Spent(turns[t].pc) = RequestSpan + RequestSpan
           /\ Spent(pc) = RequestSpan + RequestSpan + RequestSpan
    BY DEF Spent
  <2>2. QED BY <1>3, <1>4, <2>1, TimesAssumption
<1>7. QED BY <1>1, <1>3, <1>5, <1>6, ProceedKeepsInv

LEMMA CollectionsKeepInv ==
    ASSUME Inv, NEW t \in Turns,
           \/ QuestionsArrive(t) \/ LanguagesArrive(t) \/ VoicesArrive(t) \/ PartFails(t)
    PROVE  Inv'
<1>1. turns[t].pc \in {"questions", "languages", "voices"} /\ mode = "catalog"
  BY DEF QuestionsArrive, LanguagesArrive, VoicesArrive, PartFails, Inv, FetchInv, Fetching
<1>2. CASE QuestionsArrive(t)
  BY <1>1, <1>2, MergeKeepsInv DEF QuestionsArrive
<1>3. CASE LanguagesArrive(t)
  BY <1>1, <1>3, MergeKeepsInv DEF LanguagesArrive
<1>4. CASE VoicesArrive(t)
  BY <1>1, <1>4, MergeKeepsInv DEF VoicesArrive
<1>5. CASE PartFails(t)
  BY <1>1, <1>5, MergeKeepsInv DEF PartFails
<1>6. QED BY <1>2, <1>3, <1>4, <1>5

\* The last answer of a fetch, with what it adds.
LEMMA CompleteKeepsInv ==
    ASSUME Inv, NEW t \in Turns, turns[t].pc \in {"questions", "profile"},
           NEW from \in SUBSET (Agents \cup {Local, Single}),
           ~ turns[t].config.excused =>
               from \subseteq Kin(turns[t].config.agent) \cup {Single}
                   \cup (IF mode = "catalog" THEN {} ELSE {Local}),
           Complete(t, from)
    PROVE  Inv'
<1> DEFINE old == turns[t].config
           config == [old EXCEPT !.from = @ \cup from]
<1>1. turns[t].pc \in Fetching \ {"record"} /\ turns[t].pc \in Fetching
  BY DEF Fetching
<1>2. Fits(t, config) /\ config.source = "platform" /\ config.read = old.read
  BY <1>1, MergedFits
<1>3. /\ clock <= old.read + Spent(turns[t].pc) + turns[t].waited
      /\ old.read \in Nat /\ clock \in Nat /\ turns[t].waited \in 0 .. RequestSpan
  BY <1>1 DEF Inv, FetchInv, Fits, Config, TypeOK, Turn
<1>4. Deliver(t, config) \/ Deliver(t, Fallback(turns[t].asked))
  BY DEF Complete
<1> HIDE DEF config
<1>5. Usable(config)
  <2>1. Spent(turns[t].pc) \in {0, RequestSpan + RequestSpan + RequestSpan}
    BY DEF Spent
  <2>2. clock <= config.read + 4 * RequestSpan
    BY <1>2, <1>3, <2>1, TimesAssumption
  <2>3. QED BY <1>2, <2>2 DEF Usable, Fits
<1>6. QED BY <1>1, <1>2, <1>4, <1>5, DeliverKeepsInv, FailureKeepsInv

LEMMA ProfileKeepsInv == ASSUME Inv, NEW t \in Turns, ProfileArrives(t) PROVE Inv'
<1> DEFINE id == turns[t].config.agent
<1>1. turns[t].pc = "profile" /\ Fits(t, turns[t].config)
  BY DEF ProfileArrives, Inv, FetchInv, Fetching
<1>2. ASSUME NEW p \in SUBSET ({turns[t].asked, id} \cap Agents), Complete(t, p)
      PROVE  Inv'
  <2>1. p \in SUBSET (Agents \cup {Local, Single}) OBVIOUS
  <2>2. ~ turns[t].config.excused => p \subseteq Kin(id)
    BY <1>1, IdsAssumption DEF Fits, Kin, Ids
  <2>3. QED BY <1>1, <1>2, <2>1, <2>2, CompleteKeepsInv
<1>3. CASE Complete(t, {Single})
  BY <1>1, <1>3, CompleteKeepsInv
<1>4. QED BY <1>2, <1>3 DEF ProfileArrives

LEMMA VoiceQuestionsKeepInv ==
    ASSUME Inv, NEW t \in Turns, VoiceQuestionsArrive(t) \/ VoiceQuestionsFail(t)
    PROVE  Inv'
  BY CompleteKeepsInv DEF VoiceQuestionsArrive, VoiceQuestionsFail

LEMMA TickKeepsInv == ASSUME Inv, Tick PROVE Inv'
<1>1. /\ clock \in Nat /\ clock' = clock + 1 /\ UNCHANGED <<mode, session>>
      /\ clock' \in Nat
  BY DEF Inv, TypeOK, Tick
<1>2. ASSUME NEW t \in Turns
      PROVE  /\ turns'[t] \in Turn /\ turns'[t].pc = turns[t].pc
             /\ turns'[t].asked = turns[t].asked /\ turns'[t].now = turns[t].now
             /\ turns'[t].config = turns[t].config
             /\ turns[t].pc \in Fetching => turns'[t].waited = turns[t].waited + 1
  <2>1. turns[t] \in Turn
    BY DEF Inv, TypeOK
  <2>2. turns'[t] = IF turns[t].pc \in Fetching
                   THEN [turns[t] EXCEPT !.waited = @ + 1] ELSE turns[t]
    BY DEF Tick
  <2>3. turns[t].pc \in Fetching => turns[t].waited + 1 \in 0 .. RequestSpan
    BY <2>1, TimesAssumption DEF Tick, Turn
  <2>4. QED BY <2>1, <2>2, <2>3 DEF Turn
<1>3. turns' \in [Turns -> Turn]
  BY <1>2 DEF Tick
<1>4. TypeOK'
  BY <1>1, <1>3 DEF Inv, TypeOK
<1>5. SessionInv'
  BY <1>1 DEF Inv, TypeOK, SessionInv, AgentIsKept, PartsBelong, Belongs, Session, Config
<1>6. OpenedAlone'
  BY <1>1, <1>2 DEF Inv, OpenedAlone
<1>7. ASSUME NEW t \in Turns PROVE FetchInv(t)' /\ AnswerInv(t)'
  <2>1. FetchInv(t) /\ AnswerInv(t) /\ turns[t] \in Turn
    BY DEF Inv, TypeOK
  <2>2. AnswerInv(t)'
    BY <1>1, <1>2, <2>1 DEF AnswerInv, Turn
  <2>3. Fits(t, turns[t].config) => Fits(t, turns[t].config)'
    BY <1>1, <1>2 DEF Fits, Belongs, Config
  <2>4. ASSUME turns[t].pc \in Fetching \ {"record"}
        PROVE  clock' <= turns'[t].config.read + Spent(turns'[t].pc) + turns'[t].waited
    <3>1. /\ turns[t].config.read \in Nat /\ Spent(turns[t].pc) \in Nat
          /\ turns[t].waited \in Nat
      BY <2>1, TimesAssumption DEF Turn, Config, Spent
    <3>2. QED BY <1>1, <1>2, <2>1, <2>4, <3>1 DEF FetchInv
  <2>5. FetchInv(t)'
    BY <1>1, <1>2, <2>1, <2>3, <2>4 DEF FetchInv, Spent, Fits
  <2>6. QED BY <2>2, <2>5
<1>8. QED BY <1>4, <1>5, <1>6, <1>7 DEF Inv

-----------------------------------------------------------------------------
(* The theorems.                                                           *)

\* The invariant of fetch_agent_config's callers: a fetch under way knows for
\* whom it was begun and how long its record has been read, and an installed
\* configuration is of the age and the business it claims.
THEOREM ContextInvariant == Spec => []Inv
<1>1. Init => Inv
  BY IdleTurn, SessionAssumption
     DEF Init, Inv, TypeOK, SessionInv, AgentIsKept, PartsBelong, OpenedAlone,
         FetchInv, AnswerInv, Fetching
<1>2. Inv /\ [Next]_vars => Inv'
  <2> SUFFICES ASSUME Inv, [Next]_vars PROVE Inv'
    OBVIOUS
  <2>1. CASE UNCHANGED vars
    BY <2>1 DEF vars, Inv, TypeOK, SessionInv, AgentIsKept, PartsBelong, Belongs,
                OpenedAlone, FetchInv, AnswerInv, Fits
  <2>2. CASE Tick
    BY <2>2, TickKeepsInv
  <2>3. ASSUME NEW t \in Turns, Start(t) \/ UseContext(t) \/ Refresh(t) \/ Answer(t)
        PROVE  Inv'
    BY <2>3, StartKeepsInv, UseContextKeepsInv, RefreshKeepsInv, AnswerKeepsInv
  <2>4. ASSUME NEW t \in Turns,
               \/ CatalogueArrives(t) \/ UnnamedArrives(t) \/ VoiceConfigArrives(t)
               \/ RecordFails(t)
        PROVE  Inv'
    BY <2>4, CatalogueKeepsInv, UnnamedKeepsInv, VoiceConfigKeepsInv, RecordFailureKeepsInv
  <2>5. ASSUME NEW t \in Turns,
               \/ QuestionsArrive(t) \/ LanguagesArrive(t) \/ VoicesArrive(t)
               \/ PartFails(t) \/ ProfileArrives(t)
               \/ VoiceQuestionsArrive(t) \/ VoiceQuestionsFail(t)
        PROVE  Inv'
    BY <2>5, CollectionsKeepInv, ProfileKeepsInv, VoiceQuestionsKeepInv
  <2>6. QED BY <2>1, <2>2, <2>3, <2>4, <2>5 DEF Next
<1>3. QED BY <1>1, <1>2, PTL DEF Spec

\* Type correctness of AgentContext: sessions, turns and configurations keep
\* the shapes start_session and the refresh give them.
THEOREM ContextTypes == Spec => []TypeOK
<1>1. Inv => TypeOK
  BY DEF Inv
<1>2. QED BY <1>1, ContextInvariant, PTL

\* A turn never answers from platform data read longer ago than the TTL and
\* the rest of a fetch, however refreshes of the call overlap.
THEOREM ContextsAreFresh == Spec => []ContextIsFresh
<1>1. Inv => ContextIsFresh
  BY DEF Inv, AnswerInv, ContextIsFresh
<1>2. QED BY <1>1, ContextInvariant, PTL

\* The refresh never moves a call to another business without a cause outside
\* the service: a failure without a local entry, or an unlisted business.
THEOREM AgentsAreKept == Spec => []AgentIsKept
<1>1. Inv => AgentIsKept
  BY DEF Inv, SessionInv
<1>2. QED BY <1>1, ContextInvariant, PTL

\* The collections of the catalogue, its list of profiles included, never bring
\* an unrelated business's items into the configuration of one that was found.
THEOREM ForeignPartsAreLeftOut == Spec => []PartsBelong
<1>1. Inv => PartsBelong
  BY DEF Inv, SessionInv
<1>2. QED BY <1>1, ContextInvariant, PTL

=============================================================================
