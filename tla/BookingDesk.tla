---------------------------- MODULE BookingDesk ----------------------------
(***************************************************************************)
(* The tools the language model calls in a turn (handlers.py), what they   *)
(* leave in session.state, the bookings they store on the platform or in   *)
(* the local fallback, and the call report derived from session.state.     *)
(* A turn's `pc' names what it waits for; CallLifecycle shows that a call  *)
(* has one turn at a time.                                                 *)
(***************************************************************************)
EXTENDS Naturals, FiniteSets

CONSTANTS
    Calls,         \* CallSids
    Services,      \* service types a caller may ask for
    LocalCatalog,  \* those the fallback configuration knows
    PlatformRefs,  \* booking references of the platform (bound: as many bookings)
    OtherId,       \* an id nobody issued
    NoRef,         \* no booking reference at all: the key is absent
    Empty,         \* a reference that is there but null or empty
    MaxClock,      \* bound: seconds of time.time()
    Wrap,          \* the short id of second n is n % Wrap (100000 in the code)
    MaxTools,      \* bound: tool calls of one model answer
    MaxAttempts    \* stop_after_attempt of BackendClient._post

Seconds == 0..MaxClock
Refs == PlatformRefs \cup Seconds \cup {OtherId}

ASSUME NumbersAssumption ==
    MaxClock \in Nat /\ Wrap \in Nat \ {0} /\ MaxTools \in Nat /\ MaxAttempts \in Nat \ {0}
ASSUME RefsAssumption ==
    /\ NoRef \notin Refs /\ Empty \notin Refs \cup {NoRef}
    /\ OtherId \notin PlatformRefs \cup Seconds /\ PlatformRefs \cap Seconds = {}
ASSUME CatalogAssumption == Services # {} /\ LocalCatalog \subseteq Services

VARIABLES
    turn,      \* the turn in progress of a call, in _llm_turn
    order,     \* session.state["order_or_booking"]
    facts,     \* the other entries of session.state that the report looks at
    platform,  \* bookings the platform holds
    local,     \* _runtime_bookings and the dummy DB, by full reference
    short,     \* the same, by short id
    clock,     \* time.time()
    told       \* history: what the last booking or tracking of the call was answered with

vars == <<turn, order, facts, platform, local, short, clock, told>>

Status == {"none", "pending", "confirmed", "unsupported", "not_found", "other"}
Remote == Status \ {"none", "unsupported"}   \* what the platform may answer
Kind == {"booking", "tracking", "transfer"}

Turn == [pc : {"idle", "model", "tools", "booking", "tracking", "reply"},
         calls : 0..MaxTools,
         service : Services, attempts : 0..MaxAttempts,
         copies : Nat,                        \* bookings this submit has stored
         action : {"speak", "hangup", "transfer"}, number : BOOLEAN]
NewTurn(pc) ==
    [pc |-> pc, calls |-> 0, service |-> CHOOSE s \in Services : TRUE, attempts |-> 0,
     copies |-> 0, action |-> "speak", number |-> FALSE]

Order == [type : {"none", "booking", "tracking"}, ref : Refs \cup {NoRef, Empty}, status : Status]
Entry(type, ref, status) == [type |-> type, ref |-> ref, status |-> status]

\* The reference and the status of an answer; without a reference there was none.
Answers == [ref : Refs \cup {NoRef, Empty}, status : Status]
NoAnswer == [ref |-> NoRef, status |-> "none"]

Facts == [interaction : Kind \cup {"none", "query"}, intent : Kind \cup {"none"},
          lastRef : Refs \cup {NoRef}, completed : BOOLEAN, transferred : BOOLEAN]

TypeOK ==
    /\ turn \in [Calls -> Turn]
    /\ order \in [Calls -> Order]
    /\ facts \in [Calls -> Facts]
    /\ platform \subseteq PlatformRefs
    /\ local \subseteq Seconds
    /\ short \in [0..(Wrap - 1) -> Seconds \cup {NoRef}]
    /\ clock \in Seconds
    /\ told \in [Calls -> Answers]

Init ==
    /\ turn = [c \in Calls |-> NewTurn("idle")]
    /\ order = [c \in Calls |-> Entry("none", NoRef, "none")]
    /\ facts = [c \in Calls |-> [interaction |-> "none", intent |-> "none", lastRef |-> NoRef,
                                 completed |-> FALSE, transferred |-> FALSE]]
    /\ platform = {} /\ local = {}
    /\ short = [k \in 0..(Wrap - 1) |-> NoRef]
    /\ clock = 0
    /\ told = [c \in Calls |-> NoAnswer]

stores == <<platform, local, short, clock>>

-----------------------------------------------------------------------------
(* The turn around the tools.                                              *)

Put(c, t) == turn' = [turn EXCEPT ![c] = t]
Learn(c, f) == facts' = [facts EXCEPT ![c] = f]
Write(c, o) == order' = [order EXCEPT ![c] = o] /\ UNCHANGED told

\* The order is replaced by an answered one.
Record(c, type, ref, status) ==
    /\ order' = [order EXCEPT ![c] = Entry(type, ref, status)]
    /\ told' = [told EXCEPT ![c] = [ref |-> ref, status |-> status]]

\* The caller's words: an intent, if they name one, and perhaps a service, a
\* place or a time, which make an order without a type a booking.
Say(c, intent, detail) ==
    /\ turn[c].pc = "idle"
    /\ Put(c, NewTurn("model"))
    /\ Learn(c, [facts[c] EXCEPT !.intent = IF intent = "none" THEN @ ELSE intent])
    /\ Write(c, IF detail /\ order[c].type = "none" THEN [order[c] EXCEPT !.type = "booking"]
                ELSE order[c])
    /\ UNCHANGED stores

\* An answer without tools, from the model or from the business facts.
Answer(c) ==
    /\ turn[c].pc = "model"
    /\ Put(c, NewTurn("idle"))
    /\ Learn(c, [facts[c] EXCEPT !.interaction = IF @ = "none" THEN "query" ELSE @])
    /\ UNCHANGED <<order, told, stores>>

ModelFails(c) ==
    /\ turn[c].pc = "model"
    /\ Put(c, NewTurn("idle"))
    /\ UNCHANGED <<order, facts, told, stores>>

UseTools(c) ==
    /\ turn[c].pc = "model"
    /\ Put(c, NewTurn("tools"))
    /\ UNCHANGED <<order, facts, told, stores>>

\* The loop over the answer's tool calls goes on to the next one.
Calling(c) == turn[c].pc = "tools" /\ turn[c].calls < MaxTools
Called(c) == [turn[c] EXCEPT !.calls = @ + 1]

\* All tools have run: their results go to the model for the spoken answer.
ToolsDone(c) ==
    /\ turn[c].pc = "tools"
    /\ turn[c].calls > 0
    /\ Put(c, [turn[c] EXCEPT !.pc = "reply"])
    /\ UNCHANGED <<order, facts, told, stores>>

Replied(c) ==
    /\ turn[c].pc = "reply"
    /\ Put(c, NewTurn("idle"))
    /\ UNCHANGED <<order, facts, told, stores>>

\* An unknown tool, or a tracking call without an id.
IdleTool(c) ==
    /\ Calling(c)
    /\ Put(c, Called(c))
    /\ UNCHANGED <<order, facts, told, stores>>

EndCall(c) ==
    /\ Calling(c)
    /\ Put(c, [Called(c) EXCEPT !.action = "hangup"])
    /\ UNCHANGED <<order, facts, told, stores>>

\* Mistakes: a transfer forgets to mark the session; or renames what the call is about.
TransferUnmarked(c, number) ==
    /\ Calling(c)
    /\ Put(c, [Called(c) EXCEPT !.action = "transfer", !.number = number])
    /\ UNCHANGED <<order, facts, told, stores>>
TransferRenames(c, number) ==
    /\ Calling(c)
    /\ Put(c, [Called(c) EXCEPT !.action = "transfer", !.number = number])
    /\ Learn(c, [facts[c] EXCEPT !.transferred = @ \/ number, !.interaction = "transfer"])
    /\ UNCHANGED <<order, told, stores>>

\* transfer_to_human: without a fallback number the session is left alone,
\* the turn's action is "transfer" all the same.
Transfer(c, number) ==
    /\ Calling(c)
    /\ Put(c, [Called(c) EXCEPT !.action = "transfer", !.number = number])
    /\ Learn(c, IF number
                THEN [facts[c] EXCEPT !.transferred = TRUE,
                                      !.interaction = IF @ = "none" THEN "transfer" ELSE @]
                ELSE facts[c])
    /\ UNCHANGED <<order, told, stores>>

-----------------------------------------------------------------------------
(* submit_booking.                                                         *)

\* Mistake: the request replaces what the order said before.
RequestedAnew(c) == Entry("booking", NoRef, "pending")

\* What a submit writes before it has an answer: the order as a booking, with
\* the reference and the status an earlier booking or tracking left in it.
Requested(c) ==
    Entry("booking", order[c].ref, IF order[c].status = "none" THEN "pending" ELSE order[c].status)

OutOfCoverage(c) ==
    /\ Calling(c)
    /\ Put(c, Called(c))
    /\ Write(c, Requested(c))
    /\ Learn(c, [facts[c] EXCEPT !.interaction = "booking"])
    /\ UNCHANGED stores

\* An argument that is null makes a tool raise: the remaining calls are dropped
\* and the caller hears an apology.  A submit has written its request by then.
TrackRaises(c) ==
    /\ Calling(c)
    /\ Put(c, [Called(c) EXCEPT !.pc = "reply", !.action = "speak"])
    /\ UNCHANGED <<order, facts, told, stores>>

SubmitRaises(c) ==
    /\ Calling(c)
    /\ Put(c, [Called(c) EXCEPT !.pc = "reply", !.action = "speak"])
    /\ Write(c, Requested(c))
    /\ Learn(c, [facts[c] EXCEPT !.interaction = "booking"])
    /\ UNCHANGED stores

Submit(c, service) ==
    /\ Calling(c)
    /\ Put(c, [Called(c) EXCEPT !.pc = "booking", !.service = service, !.attempts = 0,
                                !.copies = 0])
    /\ Write(c, Requested(c))
    /\ Learn(c, [facts[c] EXCEPT !.interaction = "booking"])
    /\ UNCHANGED stores

Booking(c) == turn[c].pc = "booking"

\* Mistake: attempts are not counted.
PostFailsUncounted(c, executed) ==
    /\ Booking(c)
    /\ turn[c].attempts < MaxAttempts
    /\ IF executed THEN \E r \in PlatformRefs \ platform : platform' = platform \cup {r}
                   ELSE UNCHANGED platform
    /\ Put(c, [turn[c] EXCEPT !.copies = IF executed THEN @ + 1 ELSE @])
    /\ UNCHANGED <<order, facts, told, local, short, clock>>

\* An attempt fails or its answer is lost or unreadable; the platform may have
\* stored the booking nevertheless.
PostFails(c, executed) ==
    /\ Booking(c)
    /\ turn[c].attempts < MaxAttempts
    /\ IF executed THEN \E r \in PlatformRefs \ platform : platform' = platform \cup {r}
                   ELSE UNCHANGED platform
    /\ Put(c, [turn[c] EXCEPT !.attempts = @ + 1, !.copies = IF executed THEN @ + 1 ELSE @])
    /\ UNCHANGED <<order, facts, told, local, short, clock>>

\* What a booking answered with `ref' and `status' leaves in the session; the
\* model is told it is confirmed, whatever the status.
Remember(c, ref, status) ==
    /\ Record(c, "booking", ref, status)
    /\ Learn(c, [facts[c] EXCEPT !.interaction = "booking", !.completed = TRUE,
                                 !.lastRef = IF ref = Empty THEN NoRef ELSE ref])

\* The platform stores the booking and says so; its answer may lack the
\* reference, and may have any status.
Booked(c, r, ref, status) ==
    /\ Booking(c)
    /\ turn[c].attempts < MaxAttempts
    /\ r \in PlatformRefs \ platform
    /\ ref \in {r, Empty}
    /\ platform' = platform \cup {r}
    /\ Put(c, [turn[c] EXCEPT !.pc = "tools", !.copies = @ + 1])
    /\ Remember(c, ref, status)
    /\ UNCHANGED <<local, short, clock>>

\* The platform stores the booking but answers with something that is not an
\* object: the handler's exception becomes an error for the model.
BookedOddly(c) ==
    /\ Booking(c)
    /\ turn[c].attempts < MaxAttempts
    /\ \E r \in PlatformRefs \ platform : platform' = platform \cup {r}
    /\ Put(c, [turn[c] EXCEPT !.pc = "tools", !.copies = @ + 1])
    /\ UNCHANGED <<order, facts, told, local, short, clock>>

\* Mistake: the first owner keeps a short id.
BookLocalFirstShort(c) ==
    /\ Booking(c)
    /\ turn[c].service \in LocalCatalog
    /\ local' = local \cup {clock}
    /\ short' = [short EXCEPT ![clock % Wrap] = IF @ = NoRef THEN clock ELSE @]
    /\ Put(c, [turn[c] EXCEPT !.pc = "tools", !.copies = @ + 1])
    /\ Remember(c, clock, "confirmed")
    /\ UNCHANGED <<platform, clock>>

\* _post gave up (at once when the circuit is open, the answer is no valid
\* JSON or the error is final) or the fallback is configured: book locally.
BookLocal(c) ==
    /\ Booking(c)
    /\ turn[c].service \in LocalCatalog
    /\ local' = local \cup {clock}
    /\ short' = [short EXCEPT ![clock % Wrap] = clock]
    /\ Put(c, [turn[c] EXCEPT !.pc = "tools", !.copies = @ + 1])
    /\ Remember(c, clock, "confirmed")
    /\ UNCHANGED <<platform, clock>>

\* The fallback does not know the service: it answers with a fresh reference
\* and stores nothing; the handler remembers it as any other booking.
BookUnsupported(c) ==
    /\ Booking(c)
    /\ turn[c].service \notin LocalCatalog
    /\ Put(c, [turn[c] EXCEPT !.pc = "tools"])
    /\ Remember(c, clock, "unsupported")
    /\ UNCHANGED stores

-----------------------------------------------------------------------------
(* track_booking.                                                          *)

Track(c) ==
    /\ Calling(c)
    /\ Put(c, [Called(c) EXCEPT !.pc = "tracking"])
    /\ UNCHANGED <<order, facts, told, stores>>

Tracked(c, ref, status) ==
    /\ turn[c].pc = "tracking"
    /\ Put(c, [turn[c] EXCEPT !.pc = "tools"])
    /\ Record(c, "tracking", ref, status)
    /\ Learn(c, [facts[c] EXCEPT !.interaction = "tracking"])
    /\ UNCHANGED stores

\* The platform answers with a reference, perhaps null or empty; without one the
\* id counts as the caller said it.
TrackRemote(c) == \E ref \in platform \cup {OtherId, Empty}, st \in Remote : Tracked(c, ref, st)

\* Else the fallback: the booking with that reference or short id; when there
\* is none any booking whose digits end like the id's (or the other way round).
TrackFull(c) == \E n \in local : Tracked(c, n, "confirmed")
TrackShort(c) == \E k \in DOMAIN short : short[k] # NoRef /\ Tracked(c, short[k], "confirmed")
TrackDigits(c) == \E n \in local : Tracked(c, n, "confirmed")
TrackNothing(c) == \E id \in Refs \ local : Tracked(c, id, "not_found")

-----------------------------------------------------------------------------
Tick ==
    /\ clock < MaxClock
    /\ clock' = clock + 1
    /\ UNCHANGED <<turn, order, facts, told, platform, local, short>>

TurnStep(c) ==
    \/ Answer(c) \/ ModelFails(c) \/ UseTools(c) \/ ToolsDone(c) \/ Replied(c)
    \/ IdleTool(c) \/ EndCall(c) \/ \E number \in BOOLEAN : Transfer(c, number)
    \/ OutOfCoverage(c) \/ TrackRaises(c) \/ SubmitRaises(c) \/ \E s \in Services : Submit(c, s)
    \/ \E executed \in BOOLEAN : PostFails(c, executed)
    \/ \E r \in PlatformRefs, ref \in PlatformRefs \cup {Empty}, st \in Remote :
           Booked(c, r, ref, st)
    \/ BookedOddly(c) \/ BookLocal(c) \/ BookUnsupported(c)
    \/ Track(c) \/ TrackRemote(c) \/ TrackFull(c) \/ TrackShort(c) \/ TrackDigits(c) \/ TrackNothing(c)

Next ==
    \/ \E c \in Calls : TurnStep(c) \/ \E i \in Kind \cup {"none"}, d \in BOOLEAN : Say(c, i, d)
    \/ Tick

Spec == Init /\ [][Next]_vars

-----------------------------------------------------------------------------
(* The call report.  `heard' is what the words of the caller still in the  *)
(* history suggest; the model lets it be anything.                         *)

Heard == Kind \cup {"none"}

Explicit(c) == IF facts[c].interaction # "none" THEN facts[c].interaction ELSE order[c].type

InteractionType(c, heard) ==
    CASE Explicit(c) \in Kind -> Explicit(c)
      [] Explicit(c) \notin Kind /\ facts[c].intent # "none" -> facts[c].intent
      [] Explicit(c) \notin Kind /\ facts[c].intent = "none" /\ heard # "none" -> heard
      [] OTHER -> "query"

\* Only an absent reference is filled in from the last booking.
ReportRef(c) ==
    IF order[c].ref = NoRef /\ facts[c].lastRef # NoRef THEN facts[c].lastRef ELSE order[c].ref

\* Whether the report has a short id: only a booking answered in this call gives
\* one, and the platform's may lack it.
ShortId(c) == IF facts[c].completed THEN BOOLEAN ELSE {FALSE}

BookingStatus(c, heard, hasShort) ==
    CASE order[c].status \in {"confirmed", "pending"} -> order[c].status
      [] order[c].status = "not_found" -> "inquiry"
      [] OTHER -> CASE InteractionType(c, heard) = "booking" ->
                          (IF ReportRef(c) \in Refs \/ hasShort THEN "confirmed" ELSE "pending")
                    [] InteractionType(c, heard) = "tracking" -> "inquiry"
                    [] OTHER -> "not_applicable"

FinalDisposition(c, heard, hasShort) ==
    IF facts[c].transferred THEN "transferred_to_human"
    ELSE CASE InteractionType(c, heard) = "booking" ->
                 (IF BookingStatus(c, heard, hasShort) = "confirmed"
                  THEN "booking_confirmed" ELSE "booking_request")
           [] InteractionType(c, heard) = "tracking" -> "booking_tracking"
           [] InteractionType(c, heard) = "transfer" -> "transfer_request"
           [] OTHER -> "general_query"

\* What Twilio is told: a transfer without a number listens on.
Twiml(c) == CASE turn[c].action = "hangup" -> "hangup"
              [] turn[c].action = "transfer" /\ turn[c].number -> "dial"
              [] OTHER -> "gather"

-----------------------------------------------------------------------------
(* Properties.                                                             *)

\* However retries, lost answers and the fallback combine, one submit_booking
\* stores at most one booking per attempt and one more.
CopiesBounded == \A c \in Calls : turn[c].copies <= MaxAttempts + 1

\* A short id that was read out to a caller leads to the newest booking it was
\* given to, and never to none: the two indexes of the fallback agree.
ShortIdFindsNewest ==
    \A n \in local : short[n % Wrap] \in local /\ short[n % Wrap] >= n

\* A call in which a booking went through is reported as being about a booking
\* or a tracking, whatever the caller says and does afterwards, with one of the
\* dispositions schemas/agent.py has for such a call: no later tool call or plain
\* answer makes it a general query, nor a transfer that never took place.
BookingIsReported ==
    \A c \in Calls, heard \in Heard : facts[c].completed => \A hasShort \in ShortId(c) :
        /\ InteractionType(c, heard) \in {"booking", "tracking"}
        /\ FinalDisposition(c, heard, hasShort) \in
              {"booking_confirmed", "booking_request", "booking_tracking", "transferred_to_human"}

\* The report speaks of the booking or tracking that was answered last: its
\* reference with its own status, neither lost nor mixed with another's by what
\* comes after it (a submit that is refused, fails or raises, a transfer, plain
\* talk), and that a booking is confirmed is never reported of a call in which
\* none was answered, whatever the caller asked for.
LastAnswerReported ==
    \A c \in Calls :
        IF told[c] # NoAnswer
        THEN ReportRef(c) = told[c].ref /\ order[c].status = told[c].status
        ELSE \A heard \in Heard, hasShort \in ShortId(c) :
                 BookingStatus(c, heard, hasShort) # "confirmed"

\* A dialled transfer is always marked in the session, so the report and the
\* record of a call that went to a human say so (CallLifecycle's ModelTurn
\* relies on it).
DialIsMarked == \A c \in Calls : Twiml(c) = "dial" => facts[c].transferred

=============================================================================
