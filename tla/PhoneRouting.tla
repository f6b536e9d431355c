---------------------------- MODULE PhoneRouting ----------------------------
(***************************************************************************)
(* Phone numbers: provisioning, rebinding and releasing one is a request   *)
(* to Twilio, made in a thread, and then a change of the routing maps      *)
(* BackendClient keeps for the process and of the local database file.     *)
(* Each request has a client of its own, which reads that file afresh; the *)
(* engine's client keeps the copy it read first and writes it back with    *)
(* every booking stored locally.  A write that fails is logged and         *)
(* forgotten: the file is as it was, or torn when it failed half-way.      *)
(*                                                                         *)
(* Assumed of Twilio and the operators: a released number is not sold      *)
(* again, a payload's number and SID belong together, and an operator      *)
(* learns a new SID when provisioning has ended, from the answer or,       *)
(* when that was lost, from Twilio.                                        *)
(***************************************************************************)
EXTENDS FiniteSets

CONSTANTS
    Agents,
    Numbers,
    Requests,  \* HTTP requests under way, each slot used again
    Bookings,  \* bookings the engine may store locally
    NoAgent, NoNumber,
    NotRead    \* the cache of a client that has read nothing yet

ASSUME NoneAssumption == NoAgent \notin Agents /\ NoNumber \notin Numbers

VARIABLES
    stock,     \* what Twilio says of a number
    voice,     \* the agent in the voice_url of a number
    routing,   \* _runtime_phone_routing
    assigned,  \* _runtime_agent_numbers
    requests,
    file,      \* the local database file; a torn one is read as the defaults
    cache,     \* the engine client's _dummy_db_cache
    lost,      \* history: numbers with a Twilio change the service did not hear of
    stale,     \* history: numbers whose last change the file may not have: its write
               \* failed, a later one tore the file, or the engine wrote over it
    stored,    \* history: bookings written to the file since it was last torn
    raced      \* history: numbers two requests worked on at once

memory == <<routing, assigned>>
database == <<file, cache, stale, stored>>
vars == <<stock, voice, routing, assigned, requests, database, lost, raced>>

Owner == Agents \cup {NoAgent}
NumberOrNone == Numbers \cup {NoNumber}
Database == [routes : [Numbers -> Owner], bookings : SUBSET Bookings]
\* The built-in defaults route two demonstration numbers; Numbers are others.
Defaults == [routes |-> [n \in Numbers |-> NoAgent], bookings |-> {}]

Request == [pc : {"idle", "buy", "update", "delete", "bind", "rebind", "release"},
            agent : Owner, number : NumberOrNone]
Idle == [pc |-> "idle", agent |-> NoAgent, number |-> NoNumber]
Put(r, request) == requests' = [requests EXCEPT ![r] = request]
Finish(r) == Put(r, Idle)
Ask(pc, a, n) == [pc |-> pc, agent |-> a, number |-> n]

WriteRouteUnread(n, a) ==
    /\ file' = [Defaults EXCEPT !.routes[n] = a]
    /\ stale' = stale \ {n}
    /\ UNCHANGED <<cache, stored>>

\* write_text empties the file before it writes, and fails in between.
TornFile ==
    file' = Defaults /\ stale' = Numbers /\ stored' = {}

\* A request's client reads the file, changes one route and writes it all back;
\* the write may fail before it has touched the file, or after.
WriteRoute(n, a) ==
    /\ UNCHANGED cache
    /\ \/ /\ file' = [file EXCEPT !.routes[n] = a]
          /\ stale' = stale \ {n}
          /\ UNCHANGED stored
       \/ stale' = stale \cup {n} /\ UNCHANGED <<file, stored>>
       \/ TornFile

\* resolve_agent_id_for_inbound with the local fallback
Resolve(n) == IF routing[n] # NoAgent THEN routing[n] ELSE file.routes[n]

Init ==
    /\ stock = [n \in Numbers |-> "free"]
    /\ voice = [n \in Numbers |-> NoAgent]
    /\ routing = [n \in Numbers |-> NoAgent]
    /\ assigned = [a \in Agents |-> NoNumber]
    /\ requests = [r \in Requests |-> Idle]
    /\ file = Defaults /\ cache = NotRead
    /\ lost = {} /\ stale = {} /\ stored = {}
    /\ raced = {}

UsedBy(n) == {r \in Requests : requests[r].number = n}

\* An operator can know the SID of n.
Known(n) == stock[n] # "free" /\ \A r \in Requests :
    requests[r].pc \in {"buy", "bind"} => requests[r].number # n

Start(r, request) ==
    /\ requests[r].pc = "idle"
    /\ Put(r, request)
    /\ raced' = raced \cup {n \in {request.number} \cap Numbers : UsedBy(n) # {}}
    /\ UNCHANGED <<stock, voice, memory, database, lost>>

Provision(r) == \E a \in Agents, n \in Numbers : Start(r, Ask("buy", a, n))
RebindUnasked(r) == \E a \in Agents, n \in Numbers : Known(n) /\ Start(r, Ask("rebind", a, n))

Rebind(r) == \E a \in Agents, n \in Numbers : Known(n) /\ Start(r, Ask("update", a, n))
\* The SID comes with the payload, whosever number it is of, or from the agent's
\* assignment as it is now.
ReleaseAgent(r) == \E a \in Agents :
    \/ assigned[a] # NoNumber /\ Start(r, Ask("delete", a, assigned[a]))
    \/ \E n \in Numbers : Known(n) /\ Start(r, Ask("delete", a, n))
ReleaseNumber(r) == \E n \in Numbers : Known(n) /\ Start(r, Ask("delete", NoAgent, n))

\* Twilio carries a request out, and the handler hears of it or not.
Carried(r, pc) ==
    /\ UNCHANGED <<memory, database, raced>>
    /\ \/ Put(r, [requests[r] EXCEPT !.pc = pc]) /\ UNCHANGED lost
       \/ Finish(r) /\ lost' = lost \cup {requests[r].number}

Buy(r) ==
    LET n == requests[r].number IN
    /\ requests[r].pc = "buy" /\ stock[n] = "free"
    /\ stock' = [stock EXCEPT ![n] = "owned"]
    /\ voice' = [voice EXCEPT ![n] = requests[r].agent]
    /\ Carried(r, "bind")

Update(r) ==
    LET n == requests[r].number IN
    /\ requests[r].pc = "update" /\ stock[n] = "owned"
    /\ voice' = [voice EXCEPT ![n] = requests[r].agent]
    /\ UNCHANGED stock
    /\ Carried(r, "rebind")

Delete(r) ==
    LET n == requests[r].number IN
    /\ requests[r].pc = "delete" /\ stock[n] = "owned"
    /\ stock' = [stock EXCEPT ![n] = "released"]
    /\ voice' = [voice EXCEPT ![n] = NoAgent]
    /\ Carried(r, "release")

\* Twilio refuses, or the request never reaches it: 400 or 502.
TwilioFails(r) ==
    /\ requests[r].pc \in {"buy", "update", "delete"}
    /\ Finish(r)
    /\ UNCHANGED <<stock, voice, memory, database, lost, raced>>

BindUnsaved(a, n, others) ==
    /\ routing' = [routing EXCEPT ![n] = a]
    /\ assigned' = [others EXCEPT ![a] = n]
    /\ UNCHANGED database

\* bind_phone_number
BindTo(a, n, others) ==
    /\ routing' = [routing EXCEPT ![n] = a]
    /\ assigned' = [others EXCEPT ![a] = n]
    /\ WriteRoute(n, a)

Bind(r) ==
    /\ requests[r].pc = "bind"
    /\ BindTo(requests[r].agent, requests[r].number, assigned)
    /\ Finish(r)
    /\ UNCHANGED <<stock, voice, lost, raced>>

RebindKeepsPrevious(r) ==
    /\ requests[r].pc = "rebind"
    /\ BindTo(requests[r].agent, requests[r].number, assigned)
    /\ lost' = lost \ {requests[r].number}
    /\ Finish(r)
    /\ UNCHANGED <<stock, voice, raced>>

\* rebind_phone_number: the agent the number is routed to loses its assignment,
\* whatever number that is of.
RebindLocally(r) ==
    LET a == requests[r].agent
        n == requests[r].number
        previous == routing[n]
        others == IF previous \notin {NoAgent, a} THEN [assigned EXCEPT ![previous] = NoNumber]
                                                  ELSE assigned
    IN  /\ requests[r].pc = "rebind"
        /\ BindTo(a, n, others)
        /\ lost' = lost \ {n}
        /\ Finish(r)
        /\ UNCHANGED <<stock, voice, raced>>

\* release_phone_number: by agent, whatever the agent has by now, or by number.
Releasing(r, a) ==
    /\ requests[r].pc = "release"
    /\ IF requests[r].agent # NoAgent THEN a = requests[r].agent
                                      ELSE assigned[a] = requests[r].number
    /\ assigned[a] # NoNumber
DropAssignment(a) ==
    /\ assigned[a] # NoNumber
    /\ routing' = [routing EXCEPT ![assigned[a]] = NoAgent]
    /\ assigned' = [assigned EXCEPT ![a] = NoNumber]
    /\ WriteRoute(assigned[a], NoAgent)
    /\ UNCHANGED <<stock, voice, lost, raced>>
ReleaseLocally(r) == \E a \in Agents : Releasing(r, a) /\ DropAssignment(a) /\ Finish(r)
\* 404, after the number was deleted at Twilio
ReleaseNothing(r) ==
    /\ requests[r].pc = "release" /\ \A a \in Agents : ~Releasing(r, a)
    /\ Finish(r)
    /\ UNCHANGED <<stock, voice, memory, database, lost, raced>>
\* release_provider_number = false: the handler awaits nothing.
ReleaseHere == \E a \in Agents : DropAssignment(a) /\ UNCHANGED requests

\* The engine falls back to the local configuration for the first time.
EngineReads ==
    /\ cache = NotRead
    /\ cache' = file
    /\ UNCHANGED <<stock, voice, memory, requests, file, stale, stored, lost, raced>>

\* _persist_booking_to_dummy_db of the engine's client, with the same failures
EngineStores(b) ==
    LET db == IF cache = NotRead THEN file ELSE cache
        new == [db EXCEPT !.bookings = @ \cup {b}]
    IN  /\ cache' = new
        /\ \/ /\ file' = new
              /\ stored' = stored \cup new.bookings
              /\ stale' = stale \cup {n \in Numbers : new.routes[n] # file.routes[n]}
           \/ UNCHANGED <<file, stored, stale>>
           \/ TornFile
        /\ UNCHANGED <<stock, voice, memory, requests, lost, raced>>

\* The process ends, perhaps in the middle of a write, and starts again: nobody
\* hears of what was under way.  A torn file cannot be parsed.
Restart ==
    /\ routing' = [n \in Numbers |-> NoAgent]
    /\ assigned' = [a \in Agents |-> NoNumber]
    /\ requests' = [r \in Requests |-> Idle]
    /\ cache' = NotRead
    /\ UNCHANGED <<file, stored, stale>> \/ TornFile
    /\ lost' = lost \cup {n \in Numbers : UsedBy(n) # {}}
    /\ UNCHANGED <<stock, voice, raced>>

Next ==
    \/ \E r \in Requests :
        \/ Provision(r) \/ Rebind(r) \/ ReleaseAgent(r) \/ ReleaseNumber(r)
        \/ Buy(r) \/ Update(r) \/ Delete(r) \/ TwilioFails(r)
        \/ Bind(r) \/ RebindLocally(r) \/ ReleaseLocally(r) \/ ReleaseNothing(r)
    \/ ReleaseHere \/ EngineReads \/ (\E b \in Bookings : EngineStores(b)) \/ Restart

Spec == Init /\ [][Next]_vars

------------------------------------------------------------------------------
(* Type invariant.                                                         *)
TypeOK ==
    /\ stock \in [Numbers -> {"free", "owned", "released"}]
    /\ voice \in [Numbers -> Owner]
    /\ routing \in [Numbers -> Owner]
    /\ assigned \in [Agents -> NumberOrNone]
    /\ requests \in [Requests -> Request]
    /\ file \in Database
    /\ cache \in Database \cup {NotRead}
    /\ lost \subseteq Numbers /\ stale \subseteq Numbers /\ raced \subseteq Numbers
    /\ stored \subseteq Bookings

\* bind, rebind and release keep the two maps of the process together however
\* requests interleave: the number an agent is assigned is routed to that agent,
\* so no number is assigned twice and releasing an agent's number cannot take
\* the route of another agent.
AssignedIsRouted ==
    \A a \in Agents : assigned[a] # NoNumber => routing[assigned[a]] = a

\* incoming_call takes the agent from the webhook's URL or, if that has none,
\* from resolve_agent_id_for_inbound.  For a number nothing is under way for,
\* of which no change was lost at Twilio or raced, the two agree, or only the
\* URL knows the agent; only when the process knows no route, and the file may
\* not have the last one, can the number be taken for another agent's.
RoutesAgree ==
    \A n \in Numbers \ (lost \cup raced) : stock[n] = "owned" /\ UsedBy(n) = {} =>
        \/ Resolve(n) \in {NoAgent, voice[n]}
        \/ routing[n] = NoAgent /\ n \in stale

\* A route the process knows is in the file as well, so a restart keeps it,
\* unless its write failed, a later one tore the file, or the engine's client
\* has written its older copy over it.
RoutesAreDurable ==
    \A n \in Numbers \ stale : routing[n] # NoAgent => file.routes[n] = routing[n]

\* No change of a route, made by a client with a copy of its own, loses a
\* booking that has reached the file, unless a write fails half-way; nor does a
\* booking the engine's client could not write lose an earlier one.
BookingsKept == stored \subseteq file.bookings
=============================================================================
