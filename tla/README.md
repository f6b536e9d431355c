# A TLA+ model of the voice receptionist

The repository is a FastAPI service that answers phone calls for businesses. Twilio (or, in a
legacy path, Vonage) posts webhooks; a `ConversationEngine` keeps one `CallSession` per call, lets
a language model drive the talk with tools (book, track, transfer, hang up), speaks through
ElevenLabs, and reports each finished call to a platform API. This directory holds TLA+ modules
for its core, TLC configurations that check them on small instances, and TLAPS proofs.

Paths below are relative to `src/src/`.

## Inventory

| Component | State it keeps | Operations | Hard behaviour |
|---|---|---|---|
| Call lifecycle: `core/conversation/engine.py`, `api/routers/twilio_webhooks.py`, `core/services/call_store.py` | `CallSessionManager._store`, `CallStore._records`, the sessions | the incoming and status webhooks; `start_session`, `process_user_input`, `end_call` | coroutines interleave at every await; expiry, prune, late answers, a hangup racing the status callback |
| Platform client: `core/services/backend_client.py` `_get`, `_post` | `failure_count`, `circuit_open_until` | attempts, retries, refusals | answers arrive in any order; retry against an open circuit |
| Booking desk: `core/conversation/handlers.py`, `book_service`, `track_booking` | `session.state`, `_runtime_bookings`, the local DB file | `submit_booking`, `track_booking`, `transfer_to_human`, `end_call` tools | a timed-out POST that was executed; local fallback; several tools in one turn |
| Conversation history: `engine.py` `add_message`, `_llm_turn` | `conversation_history`, `turn_count` | append, window, tool messages | window cut between a tool call and its result |
| Agent configuration: `backend_client.py` `fetch_agent_config`, `engine.py` `_refresh_session_context_if_stale` | `session.agent_config`, `agent_id`, `context_updated_at` | open, refresh, five requests of a catalogue fetch | each request failing alone; overlapping refreshes; fallback to another agent |
| Phone routing: `backend_client.py` `bind_phone_number` ... `release_phone_number`, `api/routers/agent.py` | class-level routing dicts and the local DB | provision, rebind, forward, release, resolve | partial failure between the provider and the local maps; stale cached DB per client |
| Redis sessions: `core/conversation/redis_session.py` | sessions as JSON in Redis | `get`, `save`, `delete` | copies instead of shared objects; several instances, restarts, failing commands, expiry |
| Vonage webhooks: `api/routers/telephony.py` | counters of silent and of failed webhooks in `app.state` | inbound, event | counters that outlive their call; an event crossing a webhook |
| Onboarding: `core/conversation/onboarding_engine.py`, `api/routers/onboarding.py` | `_sessions`, an `OnboardingSession` per id | start, turn, complete | a turn that outlives its session; steps against completeness |
| Speech: `core/services/elevenlabs.py`, `assemblyai.py`, `audio_utils.py` | an in-memory audio cache | synthesize, cache, fetch | eviction, expiry before Twilio fetches |
| Language model client: `core/services/openai.py` | none | reply, translate, extract | none of its own |
| Analytics: `api/routers/analytics.py` | reads `CallStore` | lists, sums | none |
| Wiring: `main.py`, `api/deps.py`, `config/`, `middleware/`, `schemas/` | the engine singleton | start-up, authentication, rate limit | configuration only |

Interaction: the webhooks call the engine; the engine calls the session manager (no suspension in
the in-memory one), the call store (synchronous), the language model, ElevenLabs and the platform
client (each an HTTP request, so a suspension point). All requests share one engine and thus one
platform client, one session store and one call store. The service runs one asyncio process; with
`REDIS_URL` set, several of them may share their sessions, and every session access suspends.

What makes each component right: a turn never loses its session while the caller waits; a record
is never reopened and every closing is reported; the circuit breaker stops the traffic and
recovers; the report of a call tells of the booking or tracking that was answered last; the routing
maps, the file and Twilio agree; a call stays with its business and answers from fresh data; the model hears the whole talk; instances sharing
Redis do not undo each other's turns; the service hangs up on nobody without a cause; what an
onboarding says it has collected it keeps.

## Modules

| Module | Models | Model checking | Proofs |
|---|---|---|---|
| `CallLifecycle` | the call lifecycle | `MCCallLifecycle` | `CallLifecycleProofs` |
| `CallLog` | what the lifecycle promises about records and reports | `ImplementsLog` of run `calls` | `LogImplemented` in `CallLifecycleProofs` |
| `BackendCircuit` | the platform client's retries and breaker | itself | `BackendCircuitProofs` |
| `CircuitBreaker` | what the breaker promises to the requests that share it | `ImplementsBreaker` of run `circuit` | `BreakerImplemented` in `BackendCircuitProofs` |
| `BookingDesk` | the tools, bookings, and the report derived from them | `MCBookingDesk` | `BookingDeskProofs` |
| `ConversationHistory` | the history window and the requests of a turn | `MCConversationHistory` | `ConversationHistoryProofs` |
| `PhoneRouting` | provisioning, routing and the local database file | `MCPhoneRouting` | `PhoneRoutingProofs` |
| `AgentContext` | the configuration a call is answered from | `MCAgentContext` | `AgentContextProofs` |
| `RedisSessions` | a call on several instances with its session in Redis | `MCRedisSessions` | `RedisSessionsProofs` |
| `VonageWebhook` | the legacy webhooks and their counters | itself | `RouterProofs` |
| `Onboarding` | the onboarding dialogue | `MCOnboarding` | `RouterProofs` |

`CallLifecycle` treats what happens inside a turn as suspension points; `BookingDesk`,
`ConversationHistory` and `AgentContext` each open one of them: the tools, the requests to the
language model, and the fetch of a configuration. They meet at two facts: `CallLifecycle` takes
for granted that a turn replying "transfer" has marked its session as transferred, which
`BookingDesk` shows (`DialIsMarked`), and `BookingDesk` that a call has one turn at a time, which
`CallLifecycle` has by construction of Twilio's webhooks. `BackendCircuit` is below all requests
to the platform; above it a request answers or fails after a bounded time. `RedisSessions` repeats
the handlers of `CallLifecycle` for the other session manager, where not only HTTP requests but
each Redis command suspends and the session found is a copy; `VonageWebhook` puts the other
telephony provider's routes in front of the same engine. The proofs about the two components that
live in a router are one module, `RouterProofs`, for which `Onboarding`'s names begin with `OB`.

### State and actions

In every module a coroutine is a record whose `pc` names the request it waits for; code between
two real suspension points is one action. `PROJECT.json` maps each definition to its lines.

- **CallLifecycle.** `store` is `CallSessionManager._store`, `session` the `CallSession` objects
  (reused once unreachable), `record` is `CallStore._records`, `hook` and `status` the two
  webhooks of a call, `phase` what Twilio does. A turn keeps the object it got, so deleting a
  session and saving it again are separate steps of different handlers. Time is the `age` of a
  session and the `elapsed` ticks of a request. `posted` and `failed` record what became of
  reports the end of a call pushes; a report asked for (`ReportAsked`) looks the session up, and
  one pushed on request by `/agent/call-report/push` is not counted.
- **BackendCircuit.** `failures` and `open` are the two fields of the breaker; `op` the `_get` and
  `_post` calls between attempts. `_ensure_circuit` and the send are one action, the answer and
  the breaker's update another. `CircuitBreaker` keeps of this only whether the circuit is closed,
  open or half open, the failures since the last success, and who waits for an answer; times,
  back-offs and retries are gone. It shows what the code makes of the half-open state: the first
  attempt sent closes the circuit, before anything is known of its answer.
- **BookingDesk.** `order` and `facts` are `session.state`; `platform`, `local` and `short` are
  where a booking may live; `turn` is the loop over the tool calls of one answer. A POST may be
  executed and its answer lost, then retried, then fall back to the local store. An answer may
  lack its reference: `Empty` is a reference that is there but null or empty, which the report
  keeps, `NoRef` a key that is absent, which it fills in. A service the fallback does not know is
  answered and remembered as any booking, with status "unsupported" and nothing stored. Short ids
  are seconds modulo `Wrap`. `told` is history: what the last booking or tracking was answered with.
- **ConversationHistory.** A message is its role and, for tool messages, how many results of its
  block are still to come, which stands for the tool call ids. `add_message` cuts the window; the
  messages of the tool loop do not. The model refuses a request whose results lack their call. A
  tool that raises leaves an apology and no block (`ToolRaises`).
- **PhoneRouting.** `stock` and `voice` are at Twilio, `routing` and `assigned` the class-level
  maps, `file` the local database and `cache` the copy the engine's client keeps. A request to
  Twilio is a step of its own between a handler's checks and its local part, and may be carried
  out without the service hearing of it. A write of the file may fail before it has touched it or
  half-way (`TornFile`), which `_persist_dummy_db` only logs (`backend_client.py:380-385`): the process
  goes on with its maps, and a torn file is read as the built-in defaults. A release may come with
  another number's SID, or skip Twilio (`ReleaseHere`). `lost`, `stale` and `raced` are history
  variables that name the excuses `RoutesAgree` allows; `stored` those bookings that must be in
  the file.
- **AgentContext.** `session` is the configuration in use and its `context_updated_at`; a fetch in
  `turns` goes through record, questions, languages, voices and profile, each of which may fail.
  A configuration is whose it is, whose items went into it and when its record was read; the
  platform may answer anything. A profile answered as one object with an id is taken whosever id
  it is (`backend_client.py:908`): `Single` stands for its items. `home` and `excused` are history: the agent the call was opened
  for, and whether that agent could not be had.

- **RedisSessions.** `stored` and `left` are the key in Redis and its time to live, `req` the HTTP
  requests in progress on any instance, each with the copy of the session it works on, and
  `record` what each instance's own `CallStore` knows. `get` is three steps: the GET, the SETEX that
  writes the copy back, and the delete when that raised. Somebody may ask for the call's report in
  any phase (`Report`), which is such a `get` too. A command may fail before or after its
  effect, and an instance die at any step. `playback` is whether `PUBLIC_BASE_URL` is set, which
  decides what an apology costs. Of a session only `turn_count` and the type of its
  `agent_config` are kept. `answered`, `removed` and `raised` are history; `answered` goes back when
  a report writes a copy older than the turns answered since (`WrittenBack`).
- **VonageWebhook.** `noInput` and `errors` are the two dictionaries in `app.state`, `hook` and
  `event` the two handlers, `session` whether the engine has one. `unanswered`, `broken` and
  `cause` are history: what the caller has heard, and why the service hung up.
- **Onboarding.** `current` is the entry of `_sessions` under one id; the objects that requests in
  progress still hold live on in `collected` and `complete`. A collected item is marked with the
  session whose turn said it. A reply's tool calls amount to items saved, items saved empty, and
  whether `finalize_onboarding` was among them. Services are stored as the model wrote them;
  `malformed` ones make `build_agent_config` raise, so that /turn answers 500 after its saves and
  /complete ends nothing. An item without a value has its default in the configuration. `answer` is
  the last answer of /turn, `crossed` whether /start or /complete came in during its turn.

## Runs

| Run | Instance | Shows |
|---|---|---|
| `calls` | 2 calls, 2 session objects, 1 turn each | no turn loses its session to another, no live session is replaced, an ended call is reported and at most revised once, and all of it implements `CallLog`: a record is opened once, closed for good and only added to |
| `calls1` | 1 call, 2 turns, with fairness | every webhook is answered, and the final contents of every closed record get to the end of a push |
| `circuit` | 4 operations, threshold 3, cool-down 3, back-off 2, 3 attempts | the circuit opens at the threshold, late failures are bounded by the operations in flight, a retry never probes a circuit that has just opened, a quiet circuit is left to time alone, an open circuit lets attempts through again, and all of it implements `CircuitBreaker` |
| `desk` | 1 call, 2 services of which 1 is known locally, 3 platform references, seconds 0..2, short ids modulo 2, 2 tools | copies of a booking are bounded by the attempts, a short id finds the newest, a call with a booking is reported as such, the report has the reference and the status of what was answered last, a dialled transfer is marked |
| `history` | 1 coroutine, window 8, 4 tools, 15 turns | the model hears what the caller and the receptionist said; only an orphaned result at the front is refused, and refusals end |
| `history_shared` | 2 coroutines, window 4, 2 tools, 6 turns | a block of tool results is never torn, and the history stays bounded |
| `phones` | 2 agents, 2 numbers, 2 requests, 1 booking | with writes that fail or tear the file and restarts: an assigned number is routed to its agent, routes are durable and agree with Twilio but for named excuses, stored bookings stay |
| `context` | 2 businesses of 2 owners, 2 turns, TTL 1, requests of up to 1 tick, 5 ticks | a turn answers from data younger than the TTL and the rest of a fetch, the call stays with its business, and gets no unrelated business's questions, languages, voices or listed profile |
| `redis` | 1 call, 2 instances, 2 requests at a time, TTL 1, 2 turns | the session keeps the turns answered whichever instance answers, but for what a report or the callback undid, a call has one record while its session is not removed, and a call that is over is not kept in Redis by its own requests |
| `redis_back` | as `redis`, TTL 2 | the finding below |
| `vonage` | 2 calls | hanging up has a cause, a call hung up on and a call whose event was served leave nothing but what crossing may cost, and a call is answered or ends |
| `onboarding` | 2 items, 2 turns at a time, 3 sessions of one id | late replies stay with their session, what was listed as collected stays so, a complete answer carries its own session's configuration unless /start or /complete crossed its turn |

Why the bounds are enough. Two actors of each kind meet every pairwise race; the session objects
suffice for the old and the new session of a call. The breaker needs one operation more than its
threshold to have a late failure. `Wrap` 2 with three seconds lets a short id be reused. In
`history` 15 turns fill a window of 8 several times over with blocks of up to 4 results, so
that every position of the cut in a block occurs; the code's window of 30 changes the number of
turns only. `context` needs five ticks: one for the TTL and one for each of the four requests
after the record's, which is the oldest a context can be. Answers hold one item since items are
taken one by one. In `redis` a webhook and the status callback, or two webhooks of which one was
given up by Twilio, are all that Twilio has in progress for a call, and either meets a report; with
TTL 1 the key may expire between any two commands, so that every order of expiry and commands
occurs. The second turn is the one that can be undone with one to lose. The
counters of `vonage` are bounded by the code (3 and 2), and its calls share nothing but the
dictionaries. `onboarding` has an item that cannot be emptied and one that can, and a session for
each of the two turns besides the current one. The proofs then remove the bounds from the safety
properties.

`desk` and the history runs do not check for deadlock: the clock, the references and the turns of
these instances run out. Neither do `redis` and `vonage`, whose calls end. Symmetry is used for
calls, sessions, agents, numbers and coroutines, and never in a run with a liveness property.
`calls` views a state without the fields of unreachable session objects, which no action reads;
`phones` views one without what no property asks of a number that was released, raced or lost; and
`onboarding` keeps of the last answer whether the properties hold of it, as no step reads it.

Fairness. `calls1` assumes that a waiting handler goes on: each of its awaits is an HTTP request
with a timeout (`settings.request_timeout`, the OpenAI client's) and asyncio resumes what is
ready. Callers and Twilio may stop at any time. `circuit` assumes that time passes, that every
attempt is answered or times out, and that a retry whose back-off has passed is made (tenacity's
sleep ends). `redis` assumes only that Redis counts down a key's time: no handler need go on and no
command succeed. `SessionsExpire` leaves out the call whose report is asked for over and over: each
time gives its key a new TTL. `vonage` assumes that awaited requests return, and that Vonage posts a webhook
when it has listened (its `listen` action has a timeout of seven seconds); callers may stay silent
and every turn may fail. An answer, in `AnsweredOrOver`, is whatever `process_user_input` returns to
speak, the engine's own apology for a failing model included (`engine.py:258-264`); only a webhook
that raises is a failure for the router. No other run needs any.

## Finding

`redis_back`: `CallSession` declares `agent_config` as `Any` (`engine.py:38`), so that
`CallSession.model_validate_json` (`redis_session.py:43`) leaves a dictionary in its place. A turn
whose context is not due for a refresh then raises over `session.agent_config.supported_languages`,
a lookup of a voice for playback raises in the webhook (`twilio_webhooks.py:58`), and `end_call`
raises over the report, which is never sent, and leaves the session in Redis. `redis_session.py:3`
calls the class a "drop-in replacement for CallSessionManager that persists sessions across restarts
and multiple service instances", and `README.md:403` recommends it for that. The module keeps
both kinds of turn, since how a restored time stamp compares with another host's monotonic clock,
and so whether a refresh is due, is open. No test restores a session from JSON and answers a turn
with it.

The modules also show the following, which no line of the repository settles or which no run
is spent on.

- A turn or a start that awaits while the status callback runs `end_call` saves its session
  afterwards, so that an ended call has a session again until its TTL (`engine.py:274`, `:175`;
  `tests/core/test_conversation_engine.py:476` expects none in the plain order).
- A call whose session expired or was pruned first is left at outcome "unknown" and never reported
  (`call_store.py:24`).
- `_derive_final_disposition` may return "transfer_request", which `schemas/agent.py:5` does not
  allow.
- A later tool of the same answer may turn a granted transfer into a hangup or an apology
  (`README.md:185`).
- A booking that fell back to the local store may exist on the platform as well (`CopiesBounded`
  says how often).
- A status callback the rate limiter refuses leaves its call open and unreported for good
  (`StatusLost`, `api/deps.py:16`).
- A service the fallback does not know is remembered like a booking that went through, with a
  reference nobody holds (`BookUnsupported`, `handlers.py:175-176`), and a booking or tracking
  answered without a reference puts an empty one in the place of the last (`handlers.py:211`).
- A write of the local database that fails half-way leaves the built-in defaults, and the next
  write that succeeds makes them permanent (`TornFile`): stored bookings and all routes but one
  are gone from the file, though the process still has them.
- With Redis, `/agent/call-report` writes its copy of the session back: asked for during a turn it
  may undo the turn, and asked for over and over it keeps an ended call's session
  (`engine.py:990`).
- A profile answered as one object with an id is used whosever it is (`backend_client.py:908`), so
  that an unrelated business's languages and voice may reach the caller.
- A window cut between a tool call and its results makes the model refuse up to `MaxTools`
  requests in a row (`RefusalsEnd`). A text that is blank once stripped is not recorded, and the
  request then leaves out the receptionist's last words (`engine.py:851`).
- After one failed refresh, a call whose agent has no local entry belongs to the agent "default",
  and when the platform is back it is asked for that agent and may answer with the first active
  business (`excused`). A slower refresh may put an older context in the place of a newer one;
  `ContextIsFresh` bounds what is lost.
- A client made for one request has a breaker of its own (`api/deps.py:32`), and the engine's
  client writes its old copy of the routes over newer ones (`stale` in `PhoneRouting`).
- A SETEX that fails inside `RedisSessionManager.get` has a healthy session deleted as undecodable
  (`TouchFails`, `Drop`); the call then starts anew, perhaps on another instance with a second
  record.
- A Vonage event that crosses a webhook leaves a count behind that nothing clears (`NothingLeft`
  bounds it), and so does an event that is lost.
- An onboarding session never expires. `finalize_onboarding` completes it whatever was collected, so
  `is_complete` may come with the step of a missing item; a complete answer crossed by
  /complete or /start carries the configuration of another session, or none (`crossed`). Services
  saved as anything but a list of objects make every later complete answer and /complete fail
  with status 500 (`onboarding_engine.py:308-312`).

## Proofs

Every invariant and action property of the runs is proved, `redis_back`'s refuted one apart, and so
are both refinements. Type correctness is proved for every module (`TypeCorrect`, `CircuitTypes`,
`DeskTypes`, `Typed`, `RoutingTypes`, `ContextTypes`, `RedisTypes`, `VonageTypes`,
`OnboardingTypes`), and therefore checked by no run. The same holds of `SessionsAreRecorded` and
`SessionCreationNeverFails`, of `RecordsNeverRegress` and `VersionsAgree`, which are consequences of
the refinement that run `calls` checks, and of `WebhooksGoOn`, the safety half of `WebhookAnswered`.

TLAPS proves the safety theorems below for every value of the constants that satisfies the named
assumptions, each from an inductive invariant, since none of the properties is inductive alone.

- **CallLifecycle.** `IInv` is type correctness, that sessions of different calls are different
  objects, and for each call how `hook`, `status`, `phase`, `store` and `record` fit together: the
  protocol of the two webhooks, which session a coroutine still holds, that a stored session's
  contents are no less than the record's. From it: `TypeCorrect`, `SessionsAreRecorded`,
  `TurnsKeepTheirSession`, `SessionCreationNeverFails`, `SessionsAreNotReplaced`,
  `RecordsNeverRegress`, and `LogImplemented`: each step is a step of
  `CallLog` or a stutter. What only concerns records and reports is then proved of `CallLog`, from
  `LogInv`, and carried over: `VersionsAgree` (of any two reports of a call one only adds to the
  other, however their pushes overlap, and an ended record is what was reported last), of which
  `EndedCallsAreReported` is a consequence. `WebhooksGoOn` (`WebhookGoesOn`) is the part of
  `WebhookAnswered` that needs no fairness: each step of a webhook leaves fewer awaits (`Awaits`)
  before its answer, a session gone in the meantime is started anew once, and no hangup, callback,
  prune or expiry changes what a webhook holds. `AtMostTwoVersions` counts the chances (`Chances`)
  the two handlers still have to send something: what was sent and what may be sent are at most
  two together.
- **BackendCircuit.** The failures above the threshold are those of operations sent before the
  circuit opened, and a retry is always inside the cool-down: `CircuitOpensAtThreshold`,
  `FailuresAreBounded`, `RetriesNeverProbe`, `QuietCircuitsHold`, and the types
  (`CircuitTypes`). `BreakerImplemented` maps each step to one of `CircuitBreaker` or a stutter:
  `mode` is read from `open`, `streak` is `failures`, `flight` the operations being sent. It needs
  `CircuitOpensAtThreshold`'s invariant, since the mapped circuit must be open after the failure
  that reaches the threshold and closed after any other.
- **BookingDesk.** What a turn has posted so far, and what `order`, `facts` and `told` say of each
  other; all five checked invariants follow. `LastAnswersAreReported` rests on this: after an
  answer the order holds its reference, perhaps empty, and its status, a submit keeps both until
  its own answer, and an absent reference occurs only where no booking was answered.
- **ConversationHistory.** `NeverTorn` for any number of coroutines: who appends a block does so
  in one step. With one coroutine (`Alone`), `HeardAlone`, `HeardInFull` and `RefusalsComeToAnEnd`:
  the history is a suffix of whole blocks and orphans at the front only diminish. For any number
  of coroutines whose replies have words (`Spoken`), `HistoryIsBounded`: what exceeds the window
  is owed to coroutines that still have to append their text (`Behind`, `Lag`).
- **PhoneRouting.** Three invariants, one on the next. `Inv` says that an assigned number is routed
  to its agent. `Saved` adds the file and the cache: a number that is not `stale` has the
  process's route in the file, and what was stored is there as long as no write tore it. `AgreeInv`
  adds Twilio: requests working on one number are excused by `raced`; a request alone on its number
  is the only one that can make Twilio and the maps differ, and ends the difference. All four
  checked invariants follow, with every write free to fail or tear the file.
- **AgentContext.** `Inv` says of a fetch under way for whom it was begun and how long ago its
  record can have been read (`Spent`, request by request), and of the session that its time stamp
  is at most four requests younger than its data. `AgentIsKept` needs that a fetch begun for a
  session that was never excused asks for the call's own agent, whatever other turns install
  meanwhile. `PartsBelong` follows from what each request may add (`Matches`), the single profile
  object apart. The three checked invariants follow.
- **RedisSessions.** For each request, by the command it waits for, how the copy it holds compares
  with `stored` and `answered`, a report's copy being the only one that may be any older; and that a
  record on an instance is either the one of the instance that started the session or comes after
  a removal. `TurnsAreKept`, `OneRecordEach`.
  `RequestsRunOut` (`WorkRunsOut`) is the part of `SessionsExpire` that needs no fairness: it counts
  what a request still has to do (`Work`: for which purpose it reads the session next, and at
  which command it is), shows that every step of the engine lowers its own request's count, and that
  after the callback only reports are started, so that the key is given new time only so often by
  the call's own requests.
- **VonageWebhook.** The counters against the history, by where the webhook is: a count of silent
  webhooks never exceeds the unanswered prompts but for the one in progress, and a call without a
  session has failed as often as it was silent. `CallsEndForCause`, `LittleIsLeft`.
- **Onboarding.** `OBInv`: the three checked invariants are inductive together with types and
  `HeldInv` and `CurrentInv`, that a turn holds a session as long as it is in progress, and that it
  is the one of the id unless /start or /complete came in: a reply is saved to the session its turn
  began with, whatever they do meanwhile. `LateRepliesStay`, `ToldIsKept`, `ConfigsAreOwn`,
  `OnboardingTypes`.

Only model-checked: liveness (`WebhookAnswered`, `EventuallyReported`, `CircuitRecovers`,
`SessionsExpire`, `AnsweredOrOver`), which needs fairness and is beyond the prover.

## Assumptions

- The in-memory session manager's awaits do not suspend; asyncio runs one coroutine at a time.
- Twilio posts one webhook of a call at a time, and the status callback at any time after the call
  ended; `PUBLIC_BASE_URL` is set, without which Twilio would have no URL to call back.
- A webhook request lasts no longer than the session TTL (`TTLAssumption`), and tenacity's longest
  wait (2 s) is shorter than the cool-down (30 s) (`CircuitAssumption`).
- The clocks are monotone.
- `PhoneRouting`: a released number is not sold again, a number and a SID in one payload belong
  together (an agent and a SID need not), a write that fails leaves the file as it was or torn, an operator learns a SID after provisioning has ended. Agents are resolved with the
  local fallback; the two demonstration numbers of the built-in defaults are not in `Numbers`.
- `AgentContext`: one coroutine opens the session, as `SessionCreationNeverFails` and Twilio's
  order of webhooks have it; a listed business has an id, an entry of the local database names
  itself, and no owner's id is the string "default". Ids of owners and businesses may coincide.
- `RedisSessions`: texts the caller speaks are not blank, commands are atomic, and Redis loses no
  data of its own. Twilio ends a call whose webhook is answered with status 500. Calls share
  nothing, `prune` being empty for this manager, so one call is modelled.
- `VonageWebhook`: `resolve_agent_id_for_inbound` does not raise (it catches what the platform
  does); Vonage posts one webhook of a call at a time, after it has listened; the service is not
  restarted and its rate limiter refuses at most events (`EventLost`).
- `Onboarding`: of the model's arguments only whether they are empty matters; an HTTP client that
  gives up has no effect on the request.

## Not modelled, and the plan

Nothing here models wording, prompts, language detection, TwiML text or field normalisation: they
change no state that a property looks at. The test endpoints repeat the engine's operations;
analytics only reads; the AssemblyAI client is a stub; settings, authentication and schemas keep
no state. `InMemorySessionManagerAsync` is constructed nowhere. The forwarding numbers are left out
of `PhoneRouting`: one synchronous handler writes them to a map and to the same file as the routes,
so that they meet the hazards `RoutesAreDurable` is about, at a multiple of the states.

The audio caches are left out: an entry is written before the answer that names it and read by
Twilio within seconds, against a life of 900 s, so that only their pruning on write matters and
its one property (an entry is not pruned before 900 s) would restate the comparison that prunes.
The retry decorator of `elevenlabs.py:13` waits for an exception that its callee turns into
another one; synthesis is therefore one attempt that may fail, as `CallLifecycle` has it.

The order of work was: the call lifecycle, since every other part runs inside it; the platform
client; the tools, the history and the configuration inside a turn; the routing beside them; then
the other session manager, the other provider's webhooks, and onboarding. What is left:

1. `PhoneRouting`: the choice of a platform record for an inbound number when the local database is
   not in use.
2. `AgentContext`: the caller's language preference against refreshes.

## Running

    tlc -config calls.cfg MCCallLifecycle      # and so for each run of PROJECT.json
    tlapm CallLifecycleProofs.tla              # and the other *Proofs modules
