------------------------- MODULE PhoneRoutingProofs -------------------------
(***************************************************************************)
(* Proofs about PhoneRouting, for any agents, numbers, requests and        *)
(* bookings.                                                               *)
(***************************************************************************)
EXTENDS PhoneRouting, TLAPS

-----------------------------------------------------------------------------
(* The updates the actions make.                                           *)

LEMMA PutEffect ==
    ASSUME TypeOK, NEW r \in Requests, NEW request \in Request, Put(r, request)
    PROVE  /\ requests' \in [Requests -> Request]
           /\ requests'[r] = request
           /\ \A q \in Requests : q # r => requests'[q] = requests[q]
  BY DEF TypeOK, Put

LEMMA FinishEffect ==
    ASSUME TypeOK, NEW r \in Requests, Finish(r)
    PROVE  /\ requests' \in [Requests -> Request]
           /\ requests'[r] = Idle /\ Idle.pc = "idle" /\ Idle.number = NoNumber
           /\ \A q \in Requests : q # r => requests'[q] = requests[q]
<1>1. Idle \in Request /\ Idle.pc = "idle" /\ Idle.number = NoNumber
  BY DEF Idle, Request, Owner, NumberOrNone
<1>2. QED BY <1>1, PutEffect DEF Finish

LEMMA AskEffect ==
    ASSUME NEW pc \in {"buy", "update", "delete"}, NEW a \in Owner, NEW n \in Numbers
    PROVE  /\ Ask(pc, a, n) \in Request
           /\ Ask(pc, a, n).pc = pc /\ Ask(pc, a, n).agent = a /\ Ask(pc, a, n).number = n
  BY DEF Ask, Request, NumberOrNone

LEMMA Empty ==
    /\ Idle \in Request /\ Idle.pc = "idle" /\ Idle.number = NoNumber
    /\ Defaults \in Database /\ Defaults.bookings = {}
    /\ \A n \in Numbers : Defaults.routes[n] = NoAgent
  BY DEF Idle, Request, Owner, NumberOrNone, Defaults, Database

LEMMA TornEffect ==
    ASSUME TornFile
    PROVE  /\ file' \in Database /\ stored' = {} /\ stale' = Numbers
           /\ \A n \in Numbers : file'.routes[n] = NoAgent
  BY Empty DEF TornFile

\* However the write ends, a route that may not be the last one is stale, and
\* the others are as they were.
LEMMA WriteRouteEffect ==
    ASSUME TypeOK, NEW n \in Numbers, NEW a \in Owner, WriteRoute(n, a)
    PROVE  /\ file' \in Database /\ stale' \subseteq Numbers /\ cache' = cache
           /\ stored' = {} \/ (stored' = stored /\ file'.bookings = file.bookings)
           /\ n \in stale' \/ file'.routes[n] = a
           /\ \A m \in Numbers \ stale' : m # n =>
                  m \notin stale /\ file'.routes[m] = file.routes[m]
<1> DEFINE routes == [file.routes EXCEPT ![n] = a]
<1>1. file \in Database /\ cache' = cache BY DEF TypeOK, WriteRoute
<1>2. CASE TornFile BY <1>1, <1>2, TornEffect
<1>3. CASE stale' = stale \cup {n} /\ UNCHANGED <<file, stored>>
  BY <1>1, <1>3 DEF TypeOK
<1>4. CASE /\ file' = [file EXCEPT !.routes[n] = a]
           /\ stale' = stale \ {n}
           /\ UNCHANGED stored
  <2>1. routes \in [Numbers -> Owner] /\ routes[n] = a
    BY <1>1 DEF Database
  <2>2. \A m \in Numbers : m # n => routes[m] = file.routes[m]
    BY <1>1 DEF Database
  <2>3. file' = [file EXCEPT !.routes = routes]
    BY <1>4
  <2> HIDE DEF routes
  <2>4. file' \in Database /\ file'.bookings = file.bookings /\ file'.routes = routes
    BY <1>1, <2>1, <2>3 DEF Database
  <2>5. QED BY <1>1, <1>4, <2>1, <2>2, <2>4 DEF TypeOK
<1>5. QED BY <1>2, <1>3, <1>4 DEF WriteRoute

\* What Twilio carries out leads to the local part of the request, or is lost.
LEMMA CarriedEffect ==
    ASSUME TypeOK, NEW r \in Requests, NEW pc \in {"bind", "rebind", "release"},
           Carried(r, pc)
    PROVE  /\ requests' \in [Requests -> Request]
           /\ \A q \in Requests : q # r => requests'[q] = requests[q]
           /\ \/ /\ requests'[r].pc = pc /\ lost' = lost
                 /\ requests'[r].agent = requests[r].agent
                 /\ requests'[r].number = requests[r].number
              \/ /\ requests'[r].pc = "idle" /\ requests'[r].number = NoNumber
                 /\ lost' = lost \cup {requests[r].number}
<1>1. [requests[r] EXCEPT !.pc = pc] \in Request BY DEF TypeOK, Request
<1>2. CASE Put(r, [requests[r] EXCEPT !.pc = pc]) /\ UNCHANGED lost
  BY <1>1, <1>2, PutEffect DEF TypeOK, Request
<1>3. CASE Finish(r) /\ lost' = lost \cup {requests[r].number}
  BY <1>3, FinishEffect
<1>4. QED BY <1>2, <1>3 DEF Carried

-----------------------------------------------------------------------------
(* The assignments.                                                        *)

Local == {"update", "bind", "rebind"}

\* A request past its checks knows its agent and number, Twilio has sold the
\* number of a rebind or a bind, and a number being bound for the first time
\* is nobody's.
RequestInv(r) ==
    LET q == requests[r] IN
    /\ q.pc \in Local \cup {"buy"} => q.agent \in Agents
    /\ q.pc \in Local \cup {"buy", "delete"} => q.number \in Numbers
    /\ q.pc \in Local => stock[q.number] # "free"
    /\ q.pc = "bind" => \A a \in Agents : assigned[a] # q.number

\* Only one request can be about to bind a number that was never routed.
Apart == \A r, q \in Requests :
    r # q /\ requests[r].pc = "bind" /\ requests[q].number = requests[r].number
        => requests[q].pc \notin Local

Assignments == \A a \in Agents :
    assigned[a] # NoNumber => stock[assigned[a]] # "free" /\ routing[assigned[a]] = a

Inv == TypeOK /\ (\A r \in Requests : RequestInv(r)) /\ Apart /\ Assignments

\* The ways a request begins, and what its checks have seen.
Begun(r, pc, a, n) ==
    /\ Start(r, Ask(pc, a, n))
    /\ pc \in {"buy", "update"} => a \in Agents
    /\ pc = "update" => Known(n)

Beginning(r) == \E pc \in {"buy", "update", "delete"}, a \in Owner, n \in Numbers :
    Begun(r, pc, a, n)

LEMMA BeginningIs ==
    ASSUME TypeOK, NEW r \in Requests,
           Provision(r) \/ Rebind(r) \/ ReleaseAgent(r) \/ ReleaseNumber(r)
    PROVE  Beginning(r)
<1>1. CASE Provision(r)
  BY <1>1 DEF Provision, Beginning, Begun, Owner, NumberOrNone
<1>2. CASE Rebind(r)
  BY <1>2 DEF Rebind, Beginning, Begun, Owner, NumberOrNone
<1>3. CASE ReleaseAgent(r)
  <2>1. PICK a \in Agents : \/ assigned[a] # NoNumber /\ Start(r, Ask("delete", a, assigned[a]))
                            \/ \E n \in Numbers : Start(r, Ask("delete", a, n))
    BY <1>3 DEF ReleaseAgent
  <2>2. a \in Owner /\ (assigned[a] # NoNumber => assigned[a] \in Numbers)
    BY DEF TypeOK, Owner, NumberOrNone
  <2>3. PICK n \in Numbers : Start(r, Ask("delete", a, n))
    BY <2>1, <2>2
  <2>4. Begun(r, "delete", a, n) BY <2>3 DEF Begun
  <2>5. QED BY <2>2, <2>4 DEF Beginning
<1>4. CASE ReleaseNumber(r)
  BY <1>4 DEF ReleaseNumber, Beginning, Begun, Owner, NumberOrNone
<1>5. QED BY <1>1, <1>2, <1>3, <1>4

LEMMA BeginningTypes ==
    ASSUME TypeOK, NEW r \in Requests, Beginning(r)
    PROVE  TypeOK'
<1>1. PICK pc \in {"buy", "update", "delete"}, a \in Owner, n \in Numbers :
          Begun(r, pc, a, n)
  BY DEF Beginning
<1>2. requests' \in [Requests -> Request]
  BY <1>1, AskEffect, PutEffect DEF Begun, Start
<1>3. QED BY <1>1, <1>2 DEF TypeOK, Begun, Start, memory, database

LEMMA BeginningKeeps ==
    ASSUME Inv, NEW r \in Requests, Beginning(r)
    PROVE  Inv'
<1>1. PICK pc \in {"buy", "update", "delete"}, a \in Owner, n \in Numbers :
          Begun(r, pc, a, n)
  BY DEF Beginning
<1>2. TypeOK /\ TypeOK' BY BeginningTypes DEF Inv
<1>3. /\ requests'[r].pc = pc /\ requests'[r].agent = a /\ requests'[r].number = n
      /\ \A q \in Requests : q # r => requests'[q] = requests[q]
  BY <1>1, <1>2, AskEffect, PutEffect DEF Begun, Start
<1>4. UNCHANGED <<stock, assigned, routing>> BY <1>1 DEF Begun, Start, memory
<1>5. pc = "update" => /\ stock[n] # "free"
                       /\ \A q \in Requests : requests[q].pc = "bind" => requests[q].number # n
  BY <1>1 DEF Begun, Known
<1>6. ASSUME NEW q \in Requests PROVE RequestInv(q)'
  BY <1>1, <1>3, <1>4, <1>5 DEF Inv, RequestInv, Begun, Local
<1>7. Apart' BY <1>3, <1>5 DEF Inv, Apart, Local
<1>8. Assignments' BY <1>4 DEF Inv, Assignments
<1>9. QED BY <1>2, <1>6, <1>7, <1>8 DEF Inv

\* Twilio's part changes neither map.
LEMMA TwilioKeeps ==
    ASSUME Inv, NEW r \in Requests, Buy(r) \/ Update(r) \/ Delete(r) \/ TwilioFails(r)
    PROVE  Inv'
<1> DEFINE n == requests[r].number
<1>0. TypeOK BY DEF Inv
<1>1. RequestInv(r) BY DEF Inv
<1>2. UNCHANGED <<routing, assigned, file, cache, stale, stored, raced>>
  BY DEF Buy, Update, Delete, TwilioFails, Carried, memory, database
<1>3. CASE Buy(r)
  <2>1. requests[r].pc = "buy" /\ n \in Numbers /\ stock[n] = "free"
        /\ requests[r].agent \in Agents
    BY <1>1, <1>3 DEF Buy, RequestInv
  <2>2. /\ requests' \in [Requests -> Request]
        /\ \A q \in Requests : q # r => requests'[q] = requests[q]
        /\ \/ /\ requests'[r].pc = "bind" /\ lost' = lost
              /\ requests'[r].agent = requests[r].agent
              /\ requests'[r].number = n
           \/ /\ requests'[r].pc = "idle" /\ requests'[r].number = NoNumber
              /\ lost' = lost \cup {n}
    BY <1>0, <1>3, CarriedEffect DEF Buy
  <2>3. /\ stock'[n] = "owned" /\ \A m \in Numbers : m # n => stock'[m] = stock[m]
        /\ stock' \in [Numbers -> {"free", "owned", "released"}] /\ voice' \in [Numbers -> Owner]
    BY <1>0, <1>3, <2>1 DEF TypeOK, Buy, Owner
  <2>4. TypeOK' BY <1>0, <1>2, <2>1, <2>2, <2>3 DEF TypeOK
  <2>5. \A q \in Requests : requests[q].pc \in Local => requests[q].number # n
    BY <2>1 DEF Inv, RequestInv
  <2>6. \A a \in Agents : assigned[a] # n
    BY <1>0, <2>1, NoneAssumption DEF Inv, Assignments
  <2>7. ASSUME NEW q \in Requests PROVE RequestInv(q)'
    <3>1. RequestInv(q) BY DEF Inv
    <3>2. CASE q = r
      BY <1>2, <2>1, <2>2, <2>3, <2>6, <3>2 DEF RequestInv, Local
    <3>3. CASE q # r
      BY <1>2, <2>2, <2>3, <2>5, <3>1, <3>3 DEF RequestInv, Local
    <3>4. QED BY <3>2, <3>3
  <2>8. Apart' BY <2>1, <2>2, <2>5 DEF Inv, Apart, Local
  <2>9. Assignments'
    BY <1>0, <1>2, <2>3, <2>6, NoneAssumption DEF Inv, Assignments, TypeOK, NumberOrNone
  <2>10. QED BY <2>4, <2>7, <2>8, <2>9 DEF Inv
<1>4. CASE Update(r)
  <2>1. requests[r].pc = "update" /\ n \in Numbers /\ requests[r].agent \in Agents
    BY <1>1, <1>4 DEF Update, RequestInv, Local
  <2>2. /\ requests' \in [Requests -> Request]
        /\ \A q \in Requests : q # r => requests'[q] = requests[q]
        /\ \/ /\ requests'[r].pc = "rebind" /\ lost' = lost
              /\ requests'[r].agent = requests[r].agent
              /\ requests'[r].number = n
           \/ /\ requests'[r].pc = "idle" /\ requests'[r].number = NoNumber
              /\ lost' = lost \cup {n}
    BY <1>0, <1>4, CarriedEffect DEF Update
  <2>3. stock' = stock /\ voice' \in [Numbers -> Owner]
    BY <1>0, <1>4, <2>1 DEF TypeOK, Update, Owner
  <2>4. TypeOK' BY <1>0, <1>2, <2>1, <2>2, <2>3 DEF TypeOK
  <2>5. ASSUME NEW q \in Requests PROVE RequestInv(q)'
    BY <1>2, <2>1, <2>2, <2>3 DEF Inv, RequestInv, Local
  <2>6. Apart' BY <2>1, <2>2 DEF Inv, Apart, Local
  <2>7. Assignments' BY <1>2, <2>3 DEF Inv, Assignments
  <2>8. QED BY <2>4, <2>5, <2>6, <2>7 DEF Inv
<1>5. CASE Delete(r)
  <2>1. requests[r].pc = "delete" /\ n \in Numbers
    BY <1>1, <1>5 DEF Delete, RequestInv
  <2>2. /\ requests' \in [Requests -> Request]
        /\ \A q \in Requests : q # r => requests'[q] = requests[q]
        /\ requests'[r].pc \in {"release", "idle"}
        /\ lost' \in {lost, lost \cup {n}}
    BY <1>0, <1>5, CarriedEffect DEF Delete
  <2>3. /\ \A m \in Numbers : stock[m] # "free" => stock'[m] # "free"
        /\ stock' \in [Numbers -> {"free", "owned", "released"}] /\ voice' \in [Numbers -> Owner]
    BY <1>0, <1>5, <2>1 DEF TypeOK, Delete, Owner
  <2>4. TypeOK' BY <1>0, <1>2, <2>1, <2>2, <2>3 DEF TypeOK
  <2>5. ASSUME NEW q \in Requests PROVE RequestInv(q)'
    BY <1>2, <2>1, <2>2, <2>3 DEF Inv, RequestInv, Local
  <2>6. Apart' BY <2>1, <2>2 DEF Inv, Apart, Local
  <2>7. Assignments'
    BY <1>0, <1>2, <2>3 DEF Inv, Assignments, TypeOK, NumberOrNone
  <2>8. QED BY <2>4, <2>5, <2>6, <2>7 DEF Inv
<1>6. CASE TwilioFails(r)
  <2>1. /\ requests' \in [Requests -> Request]
        /\ \A q \in Requests : q # r => requests'[q] = requests[q]
        /\ requests'[r].pc = "idle"
    BY <1>0, <1>6, FinishEffect DEF TwilioFails
  <2>2. UNCHANGED <<stock, voice, lost>> BY <1>6 DEF TwilioFails
  <2>3. TypeOK' BY <1>0, <1>2, <2>1, <2>2 DEF TypeOK
  <2>4. ASSUME NEW q \in Requests PROVE RequestInv(q)'
    BY <1>2, <2>1, <2>2 DEF Inv, RequestInv, Local
  <2>5. Apart' BY <2>1 DEF Inv, Apart, Local
  <2>6. Assignments' BY <1>2, <2>2 DEF Inv, Assignments
  <2>7. QED BY <2>3, <2>4, <2>5, <2>6 DEF Inv
<1>7. QED BY <1>3, <1>4, <1>5, <1>6

\* bind_phone_number, when nobody else keeps the number.
LEMMA BindKeeps ==
    ASSUME Inv, NEW r \in Requests, requests[r].pc \in {"bind", "rebind"},
           NEW others \in [Agents -> NumberOrNone],
           \A a \in Agents : others[a] \in {assigned[a], NoNumber},
           \A a \in Agents : a # requests[r].agent => others[a] # requests[r].number,
           BindTo(requests[r].agent, requests[r].number, others),
           Finish(r), UNCHANGED <<stock, voice, raced>>, lost' \in SUBSET lost
    PROVE  Inv'
<1> DEFINE a == requests[r].agent
           n == requests[r].number
<1>0. TypeOK BY DEF Inv
<1>1. a \in Agents /\ n \in Numbers /\ stock[n] # "free"
  BY DEF Inv, RequestInv, Local
<1>2. /\ requests' \in [Requests -> Request]
      /\ requests'[r].pc = "idle"
      /\ \A q \in Requests : q # r => requests'[q] = requests[q]
  BY <1>0, FinishEffect
<1>3. /\ routing' \in [Numbers -> Owner]
      /\ routing'[n] = a /\ \A m \in Numbers : m # n => routing'[m] = routing[m]
  BY <1>0, <1>1 DEF BindTo, TypeOK, Owner
<1>4. /\ assigned' \in [Agents -> NumberOrNone]
      /\ assigned'[a] = n /\ \A b \in Agents : b # a => assigned'[b] = others[b]
  BY <1>1 DEF BindTo, NumberOrNone
<1>5. TypeOK'
  <2>1. file' \in Database /\ stale' \subseteq Numbers /\ cache' = cache
        /\ stored' \subseteq Bookings
    BY <1>0, <1>1, WriteRouteEffect DEF BindTo, Owner, TypeOK
  <2>2. QED BY <1>0, <1>2, <1>3, <1>4, <2>1 DEF TypeOK
<1>6. ASSUME NEW q \in Requests PROVE RequestInv(q)'
  <2>1. CASE q = r BY <1>2, <2>1 DEF RequestInv, Local
  <2>2. CASE q # r
    <3>1. RequestInv(q) /\ requests'[q] = requests[q] BY <1>2, <2>2 DEF Inv
    <3>2. requests[q].pc = "bind" => requests[q].number # n
      BY <2>2 DEF Inv, Apart, Local
    <3>3. requests[q].pc = "bind" => \A b \in Agents : assigned'[b] # requests[q].number
      <4> SUFFICES ASSUME requests[q].pc = "bind", NEW b \in Agents
                   PROVE  assigned'[b] # requests[q].number
        OBVIOUS
      <4>1. requests[q].number \in Numbers /\ assigned[b] # requests[q].number
        BY <3>1 DEF RequestInv, Local
      <4>2. assigned'[b] \in {n, assigned[b], NoNumber} BY <1>4
      <4>3. QED BY <3>2, <4>1, <4>2, NoneAssumption
    <3>4. QED BY <3>1, <3>3 DEF RequestInv
  <2>3. QED BY <2>1, <2>2
<1>7. Apart' BY <1>2 DEF Inv, Apart, Local
<1>8. Assignments'
  <2> SUFFICES ASSUME NEW b \in Agents, assigned'[b] # NoNumber
               PROVE  stock[assigned'[b]] # "free" /\ routing'[assigned'[b]] = b
    BY DEF Assignments
  <2>1. CASE b = a BY <1>1, <1>3, <1>4, <2>1
  <2>2. CASE b # a
    <3>1. assigned'[b] = assigned[b] /\ assigned[b] # n /\ assigned[b] \in Numbers
      BY <1>0, <1>4, <2>2 DEF TypeOK, NumberOrNone
    <3>2. QED BY <1>3, <3>1 DEF Inv, Assignments
  <2>3. QED BY <2>1, <2>2
<1>9. QED BY <1>5, <1>6, <1>7, <1>8 DEF Inv

\* An agent's assignment goes, with its request or without one.
LEMMA DropKeeps ==
    ASSUME Inv, NEW a \in Agents, DropAssignment(a),
           requests' \in [Requests -> Request],
           \A q \in Requests : requests'[q] = requests[q] \/ requests'[q].pc = "idle"
    PROVE  Inv'
<1>0. TypeOK BY DEF Inv
<1>1. /\ assigned[a] # NoNumber
      /\ routing' = [routing EXCEPT ![assigned[a]] = NoAgent]
      /\ assigned' = [assigned EXCEPT ![a] = NoNumber]
      /\ WriteRoute(assigned[a], NoAgent)
      /\ UNCHANGED <<stock, voice, lost, raced>>
  BY DEF DropAssignment
<1> DEFINE n == assigned[a]
<1>2. n \in Numbers BY <1>0, <1>1 DEF TypeOK, NumberOrNone
<1>4. /\ routing' \in [Numbers -> Owner]
      /\ \A m \in Numbers : m # n => routing'[m] = routing[m]
  BY <1>0, <1>1, <1>2 DEF TypeOK, Owner
<1>5. /\ assigned' \in [Agents -> NumberOrNone]
      /\ assigned'[a] = NoNumber /\ \A b \in Agents : b # a => assigned'[b] = assigned[b]
  BY <1>0, <1>1 DEF TypeOK, NumberOrNone
<1>6. TypeOK'
  <2>1. file' \in Database /\ stale' \subseteq Numbers /\ cache' = cache
        /\ stored' \subseteq Bookings
    BY <1>0, <1>1, <1>2, WriteRouteEffect DEF Owner, TypeOK
  <2>2. QED BY <1>0, <1>1, <1>4, <1>5, <2>1 DEF TypeOK
<1>7. ASSUME NEW q \in Requests PROVE RequestInv(q)'
  BY <1>1, <1>5, NoneAssumption DEF Inv, RequestInv, Local
<1>8. Apart' BY DEF Inv, Apart, Local
<1>9. Assignments'
  <2> SUFFICES ASSUME NEW b \in Agents, assigned'[b] # NoNumber
               PROVE  stock[assigned'[b]] # "free" /\ routing'[assigned'[b]] = b
    BY <1>1 DEF Assignments
  <2>1. b # a /\ assigned'[b] = assigned[b] BY <1>5
  <2>2. assigned[b] \in Numbers BY <1>0, <2>1 DEF TypeOK, NumberOrNone
  <2>3. routing[assigned[b]] = b /\ routing[n] = a /\ stock[assigned[b]] # "free"
    BY <1>1, <2>1 DEF Inv, Assignments
  <2>4. QED BY <1>4, <2>1, <2>2, <2>3
<1>10. QED BY <1>6, <1>7, <1>8, <1>9 DEF Inv

LEMMA ReleaseKeeps ==
    ASSUME Inv, ReleaseHere \/ (\E r \in Requests : ReleaseLocally(r))
    PROVE  Inv'
<1>0. TypeOK BY DEF Inv
<1>1. CASE ReleaseHere BY <1>0, <1>1, DropKeeps DEF ReleaseHere, TypeOK
<1>2. ASSUME NEW r \in Requests, ReleaseLocally(r) PROVE Inv'
  <2>1. PICK a \in Agents : DropAssignment(a) /\ Finish(r)
    BY <1>2 DEF ReleaseLocally
  <2>2. /\ requests' \in [Requests -> Request]
        /\ \A q \in Requests : requests'[q] = requests[q] \/ requests'[q].pc = "idle"
    BY <1>0, <2>1, FinishEffect
  <2>3. QED BY <2>1, <2>2, DropKeeps
<1>3. QED BY <1>1, <1>2

LEMMA LocalKeeps ==
    ASSUME Inv, NEW r \in Requests,
           Bind(r) \/ RebindLocally(r) \/ ReleaseNothing(r)
    PROVE  Inv'
<1> DEFINE a == requests[r].agent
           n == requests[r].number
<1>0. TypeOK /\ RequestInv(r) BY DEF Inv
<1>1. CASE Bind(r)
  <2>1. assigned \in [Agents -> NumberOrNone] /\ \A b \in Agents : assigned[b] # n
    BY <1>0, <1>1 DEF Bind, TypeOK, RequestInv
  <2>2. QED BY <1>1, <2>1, BindKeeps DEF Bind
<1>2. CASE RebindLocally(r)
  <2> DEFINE previous == routing[n]
             others == IF previous \notin {NoAgent, a} THEN [assigned EXCEPT ![previous] = NoNumber]
                                                       ELSE assigned
  <2>1. n \in Numbers /\ requests[r].pc = "rebind"
    BY <1>0, <1>2 DEF RebindLocally, RequestInv, Local
  <2>2. previous \in Owner BY <1>0, <2>1 DEF TypeOK
  <2>3. /\ others \in [Agents -> NumberOrNone]
        /\ \A b \in Agents : others[b] \in {assigned[b], NoNumber}
        /\ previous \notin {NoAgent, a} => others[previous] = NoNumber
    BY <1>0, <2>2 DEF TypeOK, Owner, NumberOrNone
  <2>4. \A b \in Agents : b # a => others[b] # n
    <3> SUFFICES ASSUME NEW b \in Agents, b # a, others[b] = n PROVE FALSE
      OBVIOUS
    <3>1. assigned[b] = n /\ n # NoNumber BY <2>1, <2>3, NoneAssumption
    <3>2. routing[n] = b BY <3>1 DEF Inv, Assignments
    <3>3. QED BY <2>3, <3>1, <3>2, NoneAssumption
  <2>5. BindTo(a, n, others) /\ Finish(r) /\ UNCHANGED <<stock, voice, raced>>
        /\ lost' \in SUBSET lost
    BY <1>2 DEF RebindLocally
  <2> HIDE DEF others, previous
  <2>6. QED BY <2>1, <2>3, <2>4, <2>5, BindKeeps
<1>3. CASE ReleaseNothing(r)
  <2>1. /\ requests' \in [Requests -> Request]
        /\ \A q \in Requests : q # r => requests'[q] = requests[q]
        /\ requests'[r].pc = "idle"
    BY <1>0, <1>3, FinishEffect DEF ReleaseNothing
  <2>2. UNCHANGED <<stock, voice, memory, database, lost, raced>> BY <1>3 DEF ReleaseNothing
  <2>3. TypeOK' BY <1>0, <2>1, <2>2 DEF TypeOK, memory, database
  <2>4. ASSUME NEW q \in Requests PROVE RequestInv(q)'
    BY <2>1, <2>2 DEF Inv, RequestInv, Local, memory
  <2>5. Apart' BY <2>1 DEF Inv, Apart, Local
  <2>6. Assignments' BY <2>2 DEF Inv, Assignments, memory
  <2>7. QED BY <2>3, <2>4, <2>5, <2>6 DEF Inv
<1>4. QED BY <1>1, <1>2, <1>3

LEMMA EngineKeeps ==
    ASSUME Inv, EngineReads \/ (\E b \in Bookings : EngineStores(b))
    PROVE  Inv'
<1>0. TypeOK BY DEF Inv
<1>1. UNCHANGED <<stock, voice, memory, requests, lost, raced>>
  BY DEF EngineReads, EngineStores
<1>2. file' \in Database /\ cache' \in Database \cup {NotRead}
      /\ stale' \subseteq Numbers /\ stored' \subseteq Bookings
  <2>1. CASE EngineReads BY <1>0, <2>1 DEF EngineReads, TypeOK
  <2>2. CASE \E b \in Bookings : EngineStores(b)
    <3>1. PICK b \in Bookings : EngineStores(b) BY <2>2
    <3> DEFINE db == IF cache = NotRead THEN file ELSE cache
    <3>2. db \in Database BY <1>0 DEF TypeOK
    <3> HIDE DEF db
    <3>3. [db EXCEPT !.bookings = @ \cup {b}] \in Database BY <3>2 DEF Database
    <3>4. [db EXCEPT !.bookings = @ \cup {b}].bookings \subseteq Bookings
      BY <3>3 DEF Database
    <3>5. QED BY <1>0, <3>1, <3>3, <3>4, TornEffect DEF EngineStores, db, TypeOK
  <2>3. QED BY <2>1, <2>2
<1>3. TypeOK' BY <1>0, <1>1, <1>2 DEF TypeOK, memory
<1>4. ASSUME NEW q \in Requests PROVE RequestInv(q)'
  BY <1>1 DEF Inv, RequestInv, memory
<1>5. Apart' /\ Assignments' BY <1>1 DEF Inv, Apart, Assignments, memory
<1>6. QED BY <1>3, <1>4, <1>5 DEF Inv

LEMMA RestartKeeps ==
    ASSUME Inv, Restart
    PROVE  Inv'
<1>0. TypeOK BY DEF Inv
<1>1. /\ routing' \in [Numbers -> Owner] /\ assigned' \in [Agents -> NumberOrNone]
      /\ \A a \in Agents : assigned'[a] = NoNumber
      /\ requests' \in [Requests -> Request] /\ \A r \in Requests : requests'[r].pc = "idle"
  BY Empty DEF Restart, Owner, NumberOrNone
<1>2. TypeOK' BY <1>0, <1>1, TornEffect DEF TypeOK, Restart
<1>3. ASSUME NEW r \in Requests PROVE RequestInv(r)' BY <1>1 DEF RequestInv, Local
<1>4. Apart' /\ Assignments' BY <1>1 DEF Apart, Assignments
<1>5. QED BY <1>2, <1>3, <1>4 DEF Inv

LEMMA InitInv == Init => Inv
<1> SUFFICES ASSUME Init PROVE Inv
  OBVIOUS
<1>1. TypeOK BY Empty DEF Init, TypeOK, Owner, NumberOrNone
<1>2. ASSUME NEW r \in Requests PROVE RequestInv(r) BY Empty DEF Init, RequestInv, Local
<1>3. Apart /\ Assignments BY Empty DEF Init, Apart, Assignments
<1>4. QED BY <1>1, <1>2, <1>3 DEF Inv

LEMMA NextInv == Inv /\ [Next]_vars => Inv'
<1> SUFFICES ASSUME Inv, [Next]_vars PROVE Inv'
  OBVIOUS
<1>1. ASSUME NEW r \in Requests, Provision(r) \/ Rebind(r) \/ ReleaseAgent(r) \/ ReleaseNumber(r)
      PROVE  Inv'
  BY <1>1, BeginningIs, BeginningKeeps DEF Inv
<1>2. ASSUME NEW r \in Requests, Buy(r) \/ Update(r) \/ Delete(r) \/ TwilioFails(r)
      PROVE  Inv'
  BY <1>2, TwilioKeeps
<1>3. ASSUME NEW r \in Requests, Bind(r) \/ RebindLocally(r) \/ ReleaseNothing(r)
      PROVE  Inv'
  BY <1>3, LocalKeeps
<1>4. CASE ReleaseHere \/ (\E r \in Requests : ReleaseLocally(r)) BY <1>4, ReleaseKeeps
<1>5. CASE EngineReads \/ (\E b \in Bookings : EngineStores(b)) BY <1>5, EngineKeeps
<1>6. CASE Restart BY <1>6, RestartKeeps
<1>7. CASE UNCHANGED vars
  BY <1>7 DEF vars, memory, database, Inv, TypeOK, RequestInv, Apart, Assignments
<1>8. QED BY <1>1, <1>2, <1>3, <1>4, <1>5, <1>6, <1>7 DEF Next

\* The inductive invariant of the routing maps and the requests on their way.
THEOREM RoutingInvariant == Spec => []Inv
  BY InitInv, NextInv, PTL DEF Spec

\* Every variable of PhoneRouting keeps its type.
THEOREM RoutingTypes == Spec => []TypeOK
<1>1. Inv => TypeOK BY DEF Inv
<1>2. QED BY <1>1, RoutingInvariant, PTL

\* The number an agent is assigned is routed to that agent, however many
\* requests of whatever kind interleave.
THEOREM AssignmentsAreRouted == Spec => []AssignedIsRouted
<1>1. Inv => AssignedIsRouted BY DEF Inv, Assignments, AssignedIsRouted
<1>2. QED BY <1>1, RoutingInvariant, PTL

-----------------------------------------------------------------------------
(* The local database file.                                                *)

\* The engine's copy holds every booking stored, and the file every route the
\* process knows.
Saved ==
    /\ BookingsKept
    /\ cache # NotRead => stored \subseteq cache.bookings
    /\ RoutesAreDurable

\* A change of one route, in the process and in the file.
LEMMA RouteSaved ==
    ASSUME TypeOK, Saved, NEW n \in Numbers, NEW a \in Owner,
           routing' = [routing EXCEPT ![n] = a], WriteRoute(n, a)
    PROVE  Saved'
<1>1. /\ stored' = {} \/ (stored' = stored /\ file'.bookings = file.bookings)
      /\ n \in stale' \/ file'.routes[n] = a
      /\ \A m \in Numbers \ stale' : m # n =>
             m \notin stale /\ file'.routes[m] = file.routes[m]
      /\ cache' = cache
  BY WriteRouteEffect
<1>2. routing'[n] = a /\ \A m \in Numbers : m # n => routing'[m] = routing[m]
  BY DEF TypeOK
<1>3. RoutesAreDurable' BY <1>1, <1>2 DEF Saved, RoutesAreDurable
<1>4. QED BY <1>1, <1>3 DEF Saved, BookingsKept

LEMMA EngineStoresSaved ==
    ASSUME TypeOK, Saved, NEW b \in Bookings, EngineStores(b)
    PROVE  Saved'
<1> DEFINE db == IF cache = NotRead THEN file ELSE cache
           new == [db EXCEPT !.bookings = @ \cup {b}]
<1>1. db \in Database /\ stored \subseteq db.bookings
  BY DEF TypeOK, Saved, BookingsKept
<1>2. /\ cache' = new /\ routing' = routing
      /\ \/ /\ file' = new
            /\ stored' = stored \cup new.bookings
            /\ stale' = stale \cup {n \in Numbers : new.routes[n] # file.routes[n]}
         \/ UNCHANGED <<file, stored, stale>>
         \/ TornFile
  BY DEF EngineStores, memory
<1> HIDE DEF db
<1>3. new.bookings = db.bookings \cup {b} BY <1>1 DEF Database
<1> HIDE DEF new
<1>4. stored' \subseteq new.bookings BY <1>1, <1>2, <1>3, TornEffect
<1>5. BookingsKept' BY <1>1, <1>2, <1>3, <1>4, TornEffect DEF Saved, BookingsKept
<1>6. RoutesAreDurable'
  <2>1. \A n \in Numbers : n \notin stale' => n \notin stale /\ file'.routes[n] = file.routes[n]
    BY <1>2, TornEffect
  <2>2. QED BY <1>2, <2>1 DEF Saved, RoutesAreDurable
<1>7. QED BY <1>2, <1>4, <1>5, <1>6 DEF Saved

LEMMA NextSaved == Inv /\ Saved /\ [Next]_vars => Saved'
<1> SUFFICES ASSUME Inv, Saved, [Next]_vars PROVE Saved'
  OBVIOUS
<1>0. TypeOK BY DEF Inv
<1>1. CASE UNCHANGED <<memory, database>>
  BY <1>1 DEF memory, database, Saved, BookingsKept, RoutesAreDurable
<1>2. ASSUME NEW r \in Requests,
             Provision(r) \/ Rebind(r) \/ ReleaseAgent(r) \/ ReleaseNumber(r)
      PROVE  Saved'
  BY <1>1, <1>2 DEF Provision, Rebind, ReleaseAgent, ReleaseNumber, Start
<1>3. ASSUME NEW r \in Requests,
             \/ Buy(r) \/ Update(r) \/ Delete(r) \/ TwilioFails(r) \/ ReleaseNothing(r)
      PROVE  Saved'
  BY <1>1, <1>3 DEF Buy, Update, Delete, TwilioFails, ReleaseNothing, Carried
<1>4. ASSUME NEW r \in Requests, Bind(r) \/ RebindLocally(r)
      PROVE  Saved'
  <2>1. requests[r].agent \in Owner /\ requests[r].number \in Numbers
    BY <1>4 DEF Inv, RequestInv, Local, Owner, Bind, RebindLocally
  <2>2. PICK others : BindTo(requests[r].agent, requests[r].number, others)
    BY <1>4 DEF Bind, RebindLocally
  <2>3. QED BY <1>0, <2>1, <2>2, RouteSaved DEF BindTo
<1>5. ASSUME NEW a \in Agents, DropAssignment(a)
      PROVE  Saved'
  <2>1. assigned[a] \in Numbers BY <1>0, <1>5 DEF TypeOK, NumberOrNone, DropAssignment
  <2>2. QED BY <1>0, <1>5, <2>1, RouteSaved DEF Owner, DropAssignment
<1>6. CASE EngineReads
  BY <1>6 DEF EngineReads, memory, Saved, BookingsKept, RoutesAreDurable
<1>7. ASSUME NEW b \in Bookings, EngineStores(b) PROVE Saved'
  BY <1>0, <1>7, EngineStoresSaved
<1>8. CASE Restart
  BY <1>8, TornEffect DEF Restart, Saved, BookingsKept, RoutesAreDurable
<1>9. CASE UNCHANGED vars BY <1>1, <1>9 DEF vars, memory
<1>10. QED
  BY <1>2, <1>3, <1>4, <1>5, <1>6, <1>7, <1>8, <1>9 DEF Next, ReleaseLocally, ReleaseHere

THEOREM FileInvariant == Spec => []Saved
<1>1. Init => Saved
  BY Empty DEF Init, Saved, BookingsKept, RoutesAreDurable
<1>2. QED BY <1>1, NextSaved, RoutingInvariant, PTL DEF Spec

\* A restart keeps every route the process knows, except those whose write
\* failed, a torn file lost or the engine's client wrote its older copy over.
THEOREM DurableRoutes == Spec => []RoutesAreDurable
<1>1. Saved => RoutesAreDurable BY DEF Saved
<1>2. QED BY <1>1, FileInvariant, PTL

\* No change of a route loses a booking from the file, unless a write tears it.
THEOREM BookingsAreKept == Spec => []BookingsKept
<1>1. Saved => BookingsKept BY DEF Saved
<1>2. QED BY <1>1, FileInvariant, PTL

-----------------------------------------------------------------------------
(* The local routes and Twilio's.                                          *)

\* Two requests for one number have raced; what Twilio has carried out for a
\* request alone is what the request is about to record.
Sole == \A r, q \in Requests :
    r # q /\ requests[r].number = requests[q].number /\ requests[r].number \in Numbers
        => requests[r].number \in raced

Pending == \A r \in Requests :
    requests[r].pc \in {"bind", "rebind"} /\ requests[r].number \notin raced
        => voice[requests[r].number] = requests[r].agent

Settled(n) ==
    /\ n \notin lost \cup raced
    /\ stock[n] = "owned"
    /\ \A r \in Requests : requests[r].number = n => requests[r].pc \notin {"bind", "rebind"}

Agree == \A n \in Numbers : Settled(n) =>
    /\ routing[n] \in {NoAgent, voice[n]}
    /\ n \in stale \/ file.routes[n] \in {NoAgent, voice[n]}

AgreeInv == Sole /\ Pending /\ Agree

LEMMA BeginningAgrees ==
    ASSUME Inv, AgreeInv, NEW r \in Requests, Beginning(r)
    PROVE  AgreeInv'
<1>0. TypeOK BY DEF Inv
<1>1. PICK pc \in {"buy", "update", "delete"}, a \in Owner, n \in Numbers :
          Begun(r, pc, a, n)
  BY DEF Beginning
<1>2. /\ requests'[r].pc = pc /\ requests'[r].agent = a /\ requests'[r].number = n
      /\ \A q \in Requests : q # r => requests'[q] = requests[q]
  BY <1>0, <1>1, AskEffect, PutEffect DEF Begun, Start
<1>3. requests[r].pc = "idle" BY <1>1 DEF Begun, Start
<1>4. raced' = raced \cup {m \in {n} \cap Numbers : UsedBy(m) # {}}
  BY <1>1, AskEffect DEF Begun, Start
<1>5. UNCHANGED <<stock, voice, routing, file, lost, stale>>
  BY <1>1 DEF Begun, Start, memory, database
<1>6. Sole' BY <1>2, <1>4 DEF AgreeInv, Sole, UsedBy
<1>7. Pending' BY <1>2, <1>4, <1>5 DEF AgreeInv, Pending
<1>8. Agree'
  <2> SUFFICES ASSUME NEW m \in Numbers, Settled(m)'
               PROVE  /\ routing[m] \in {NoAgent, voice[m]}
                      /\ m \in stale \/ file.routes[m] \in {NoAgent, voice[m]}
    BY <1>5 DEF Agree
  <2>1. Settled(m) BY <1>2, <1>3, <1>4, <1>5 DEF Settled
  <2>2. QED BY <2>1 DEF AgreeInv, Agree
<1>9. QED BY <1>6, <1>7, <1>8 DEF AgreeInv

\* Twilio carries a request out for a number: others' numbers do not change.
LEMMA CarriedAgrees ==
    ASSUME Inv, AgreeInv, NEW r \in Requests, NEW n \in Numbers, n = requests[r].number,
           requests[r].pc \in {"buy", "update", "delete"},
           NEW pc \in {"bind", "rebind", "release"}, Carried(r, pc), UNCHANGED raced,
           \A m \in Numbers : m # n => stock'[m] = stock[m] /\ voice'[m] = voice[m],
           pc # "release" => voice'[n] = requests[r].agent,
           pc = "release" => stock'[n] # "owned"
    PROVE  AgreeInv'
<1>0. TypeOK BY DEF Inv
<1>1. \A q \in Requests : q # r => requests'[q] = requests[q]
  BY <1>0, CarriedEffect
<1>2. \/ /\ requests'[r].pc = pc /\ lost' = lost
         /\ requests'[r].agent = requests[r].agent /\ requests'[r].number = n
      \/ /\ requests'[r].pc = "idle" /\ requests'[r].number = NoNumber
         /\ lost' = lost \cup {n}
  BY <1>0, CarriedEffect
<1>3. UNCHANGED <<routing, file, stale>> BY DEF Carried, memory, database
<1>4. Sole' BY <1>1, <1>2, NoneAssumption DEF AgreeInv, Sole
<1>5. \A q \in Requests : q # r /\ requests[q].number = n => n \in raced
  BY DEF AgreeInv, Sole
<1>6. Pending'
  <2> SUFFICES ASSUME NEW q \in Requests, requests'[q].pc \in {"bind", "rebind"},
                      requests'[q].number \notin raced
               PROVE  voice'[requests'[q].number] = requests'[q].agent
    BY DEF Pending
  <2>1. CASE q = r BY <1>2, <2>1
  <2>2. CASE q # r
    <3>1. requests'[q] = requests[q] /\ requests[q].number \in Numbers /\ requests[q].number # n
      BY <1>1, <1>5, <2>2 DEF Inv, RequestInv, Local
    <3>2. QED BY <3>1 DEF AgreeInv, Pending
  <2>3. QED BY <2>1, <2>2
<1>7. Agree'
  <2> SUFFICES ASSUME NEW m \in Numbers, Settled(m)'
               PROVE  /\ routing[m] \in {NoAgent, voice'[m]}
                      /\ m \in stale \/ file.routes[m] \in {NoAgent, voice'[m]}
    BY <1>3 DEF Agree
  <2>1. m # n BY <1>2 DEF Settled
  <2>2. Settled(m) BY <1>1, <1>2, <1>3, <2>1 DEF Settled
  <2>3. QED BY <2>1, <2>2 DEF AgreeInv, Agree
<1>8. QED BY <1>4, <1>6, <1>7 DEF AgreeInv

LEMMA TwilioAgrees ==
    ASSUME Inv, AgreeInv, NEW r \in Requests, Buy(r) \/ Update(r) \/ Delete(r)
    PROVE  AgreeInv'
<1> DEFINE n == requests[r].number
<1>0. TypeOK /\ n \in Numbers /\ requests[r].pc \in {"buy", "update", "delete"} /\ UNCHANGED raced
  BY DEF Inv, RequestInv, Local, Buy, Update, Delete, Carried
<1>1. CASE Buy(r)
  <2>1. /\ voice'[n] = requests[r].agent /\ Carried(r, "bind")
        /\ \A m \in Numbers : m # n => stock'[m] = stock[m] /\ voice'[m] = voice[m]
    BY <1>0, <1>1 DEF Buy, TypeOK
  <2>2. QED BY <1>0, <2>1, CarriedAgrees
<1>2. CASE Update(r)
  <2>1. /\ voice'[n] = requests[r].agent /\ Carried(r, "rebind")
        /\ \A m \in Numbers : m # n => stock'[m] = stock[m] /\ voice'[m] = voice[m]
    BY <1>0, <1>2 DEF Update, TypeOK
  <2>2. QED BY <1>0, <2>1, CarriedAgrees
<1>3. CASE Delete(r)
  <2>1. /\ stock'[n] # "owned" /\ Carried(r, "release")
        /\ \A m \in Numbers : m # n => stock'[m] = stock[m] /\ voice'[m] = voice[m]
    BY <1>0, <1>3 DEF Delete, TypeOK
  <2>2. QED BY <1>0, <2>1, CarriedAgrees
<1>4. QED BY <1>1, <1>2, <1>3

\* An assignment goes: in the process and, unless the write fails, in the file.
LEMMA DropAgrees ==
    ASSUME Inv, AgreeInv, NEW a \in Agents, DropAssignment(a),
           \A q \in Requests :
              \/ requests'[q] = requests[q]
              \/ /\ requests'[q].pc = "idle" /\ requests'[q].number = NoNumber
                 /\ requests[q].pc \notin {"bind", "rebind"}
    PROVE  AgreeInv'
<1>0. TypeOK BY DEF Inv
<1>1. /\ assigned[a] # NoNumber
      /\ routing' = [routing EXCEPT ![assigned[a]] = NoAgent]
      /\ WriteRoute(assigned[a], NoAgent)
      /\ UNCHANGED <<stock, voice, lost, raced>>
  BY DEF DropAssignment
<1> DEFINE n == assigned[a]
<1>2. n \in Numbers BY <1>0, <1>1 DEF TypeOK, NumberOrNone
<1>3. /\ n \in stale' \/ file'.routes[n] = NoAgent
      /\ \A m \in Numbers \ stale' : m # n =>
             m \notin stale /\ file'.routes[m] = file.routes[m]
  BY <1>0, <1>1, <1>2, WriteRouteEffect DEF Owner
<1>4. routing'[n] = NoAgent /\ \A m \in Numbers : m # n => routing'[m] = routing[m]
  BY <1>0, <1>1, <1>2 DEF TypeOK
<1> HIDE DEF n
<1>5. Sole' BY <1>1, NoneAssumption DEF AgreeInv, Sole
<1>6. Pending' BY <1>1 DEF AgreeInv, Pending
<1>7. Agree'
  <2> SUFFICES ASSUME NEW m \in Numbers, Settled(m)'
               PROVE  /\ routing'[m] \in {NoAgent, voice[m]}
                      /\ m \in stale' \/ file'.routes[m] \in {NoAgent, voice[m]}
    BY <1>1 DEF Agree
  <2>1. Settled(m) BY <1>1 DEF Settled
  <2>2. QED BY <1>3, <1>4, <2>1 DEF AgreeInv, Agree
<1>8. QED BY <1>5, <1>6, <1>7 DEF AgreeInv

LEMMA ReleaseAgrees ==
    ASSUME Inv, AgreeInv, ReleaseHere \/ (\E r \in Requests : ReleaseLocally(r))
    PROVE  AgreeInv'
<1>0. TypeOK BY DEF Inv
<1>1. CASE ReleaseHere BY <1>1, DropAgrees DEF ReleaseHere
<1>2. ASSUME NEW r \in Requests, ReleaseLocally(r) PROVE AgreeInv'
  <2>1. PICK a \in Agents : DropAssignment(a) /\ Finish(r)
    BY <1>2 DEF ReleaseLocally
  <2>2. requests[r].pc = "release" BY <1>2 DEF ReleaseLocally, Releasing
  <2>3. \A q \in Requests : requests'[q] = requests[q] \/ q = r
    BY <1>0, <2>1, FinishEffect
  <2>4. requests'[r].pc = "idle" /\ requests'[r].number = NoNumber
    BY <1>0, <2>1, FinishEffect
  <2>5. QED BY <2>1, <2>2, <2>3, <2>4, DropAgrees
<1>3. QED BY <1>1, <1>2

LEMMA BindAgrees ==
    ASSUME Inv, AgreeInv, NEW r \in Requests, requests[r].pc \in {"bind", "rebind"},
           NEW others, BindTo(requests[r].agent, requests[r].number, others),
           Finish(r), UNCHANGED <<stock, voice, raced>>,
           \A m \in Numbers : m # requests[r].number /\ m \notin lost' => m \notin lost
    PROVE  AgreeInv'
<1> DEFINE a == requests[r].agent
           n == requests[r].number
<1>0. TypeOK /\ a \in Owner /\ n \in Numbers
  BY DEF Inv, RequestInv, Local, Owner
<1>1. /\ requests'[r].pc = "idle" /\ requests'[r].number = NoNumber
      /\ \A q \in Requests : q # r => requests'[q] = requests[q]
  BY <1>0, FinishEffect
<1>2. Sole' BY <1>1, NoneAssumption DEF AgreeInv, Sole
<1>3. Pending' BY <1>1 DEF AgreeInv, Pending
<1>4. /\ n \in stale' \/ file'.routes[n] = a
      /\ \A m \in Numbers \ stale' : m # n =>
             m \notin stale /\ file'.routes[m] = file.routes[m]
  BY <1>0, WriteRouteEffect DEF BindTo
<1>5. routing'[n] = a /\ \A m \in Numbers : m # n => routing'[m] = routing[m]
  BY <1>0 DEF BindTo, TypeOK
<1>6. Agree'
  <2> SUFFICES ASSUME NEW m \in Numbers, Settled(m)'
               PROVE  /\ routing'[m] \in {NoAgent, voice[m]}
                      /\ m \in stale' \/ file'.routes[m] \in {NoAgent, voice[m]}
    BY DEF Agree
  <2>1. CASE m = n
    <3>1. voice[n] = a BY <2>1 DEF Settled, AgreeInv, Pending
    <3>2. QED BY <1>4, <1>5, <2>1, <3>1
  <2>2. CASE m # n
    <3>1. Settled(m) BY <1>1, <2>2 DEF Settled
    <3>2. QED BY <1>4, <1>5, <2>2, <3>1 DEF AgreeInv, Agree
  <2>3. QED BY <2>1, <2>2
<1>7. QED BY <1>2, <1>3, <1>6 DEF AgreeInv

\* A request ends and no route changes.
LEMMA NothingAgrees ==
    ASSUME Inv, AgreeInv, NEW r \in Requests, TwilioFails(r) \/ ReleaseNothing(r)
    PROVE  AgreeInv'
<1>0. TypeOK BY DEF Inv
<1>1. /\ requests'[r].pc = "idle" /\ requests'[r].number = NoNumber
      /\ \A q \in Requests : q # r => requests'[q] = requests[q]
  BY <1>0, FinishEffect DEF TwilioFails, ReleaseNothing
<1>2. requests[r].pc \notin {"bind", "rebind"} BY DEF TwilioFails, ReleaseNothing
<1>3. UNCHANGED <<stock, voice, routing, file, stale, lost, raced>>
  BY DEF TwilioFails, ReleaseNothing, memory, database
<1>4. Sole' BY <1>1, <1>3, NoneAssumption DEF AgreeInv, Sole
<1>5. Pending' BY <1>1, <1>3 DEF AgreeInv, Pending
<1>6. \A m \in Numbers : Settled(m)' => Settled(m)
  BY <1>1, <1>2, <1>3 DEF Settled
<1>7. Agree' BY <1>3, <1>6 DEF AgreeInv, Agree
<1>8. QED BY <1>4, <1>5, <1>7 DEF AgreeInv

LEMMA EngineAgrees ==
    ASSUME Inv, AgreeInv, EngineReads \/ (\E b \in Bookings : EngineStores(b))
    PROVE  AgreeInv'
<1>1. UNCHANGED <<stock, voice, routing, requests, lost, raced>>
  BY DEF EngineReads, EngineStores, memory
<1>2. \A n \in Numbers \ stale' : n \notin stale /\ file'.routes[n] = file.routes[n]
  <2>1. CASE EngineReads BY <2>1 DEF EngineReads
  <2>2. ASSUME NEW b \in Bookings, EngineStores(b)
        PROVE  \A n \in Numbers \ stale' : n \notin stale /\ file'.routes[n] = file.routes[n]
    BY <2>2, TornEffect DEF EngineStores
  <2>3. QED BY <2>1, <2>2
<1>3. Sole' /\ Pending' BY <1>1 DEF AgreeInv, Sole, Pending
<1>4. \A n \in Numbers : Settled(n)' => Settled(n) BY <1>1 DEF Settled
<1>5. Agree' BY <1>1, <1>2, <1>4 DEF AgreeInv, Agree
<1>6. QED BY <1>3, <1>5 DEF AgreeInv

LEMMA RestartAgrees ==
    ASSUME Inv, AgreeInv, Restart
    PROVE  AgreeInv'
<1>1. /\ \A r \in Requests : requests'[r].pc = "idle" /\ requests'[r].number = NoNumber
      /\ \A n \in Numbers : routing'[n] = NoAgent
      /\ UNCHANGED <<stock, voice, raced>>
      /\ lost' = lost \cup {n \in Numbers : UsedBy(n) # {}}
  BY Empty DEF Restart
<1>2. UNCHANGED <<file, stale>> \/ stale' = Numbers
  BY TornEffect DEF Restart
<1>3. Sole' /\ Pending' BY <1>1, NoneAssumption DEF Sole, Pending
<1>4. \A n \in Numbers : Settled(n)' => Settled(n)
  BY <1>1 DEF Settled, UsedBy
<1>5. Agree' BY <1>1, <1>2, <1>4 DEF AgreeInv, Agree
<1>6. QED BY <1>3, <1>5 DEF AgreeInv

LEMMA NextAgrees == Inv /\ AgreeInv /\ [Next]_vars => AgreeInv'
<1> SUFFICES ASSUME Inv, AgreeInv, [Next]_vars PROVE AgreeInv'
  OBVIOUS
<1>1. ASSUME NEW r \in Requests, Provision(r) \/ Rebind(r) \/ ReleaseAgent(r) \/ ReleaseNumber(r)
      PROVE  AgreeInv'
  BY <1>1, BeginningIs, BeginningAgrees DEF Inv
<1>2. ASSUME NEW r \in Requests, Buy(r) \/ Update(r) \/ Delete(r)
      PROVE  AgreeInv'
  BY <1>2, TwilioAgrees
<1>3. ASSUME NEW r \in Requests, Bind(r) \/ RebindLocally(r)
      PROVE  AgreeInv'
  <2>1. requests[r].pc \in {"bind", "rebind"} BY <1>3 DEF Bind, RebindLocally
  <2>2. Finish(r) /\ UNCHANGED <<stock, voice, raced>> BY <1>3 DEF Bind, RebindLocally
  <2>3. \A m \in Numbers : m # requests[r].number /\ m \notin lost' => m \notin lost
    BY <1>3 DEF Bind, RebindLocally
  <2>4. PICK others : BindTo(requests[r].agent, requests[r].number, others)
    BY <1>3 DEF Bind, RebindLocally
  <2>5. QED BY <2>1, <2>2, <2>3, <2>4, BindAgrees
<1>4. CASE ReleaseHere \/ (\E r \in Requests : ReleaseLocally(r)) BY <1>4, ReleaseAgrees
<1>5. ASSUME NEW r \in Requests, TwilioFails(r) \/ ReleaseNothing(r) PROVE AgreeInv'
  BY <1>5, NothingAgrees
<1>6. CASE EngineReads \/ (\E b \in Bookings : EngineStores(b)) BY <1>6, EngineAgrees
<1>7. CASE Restart BY <1>7, RestartAgrees
<1>8. CASE UNCHANGED vars
  BY <1>8 DEF vars, database, AgreeInv, Sole, Pending, Agree, Settled
<1>9. QED BY <1>1, <1>2, <1>3, <1>4, <1>5, <1>6, <1>7, <1>8 DEF Next

THEOREM AgreementInvariant == Spec => []AgreeInv
<1>1. Init => AgreeInv
  BY Empty, NoneAssumption DEF Init, AgreeInv, Sole, Pending, Agree
<1>2. QED BY <1>1, NextAgrees, RoutingInvariant, PTL DEF Spec

\* The service never takes a settled number for another agent's than the one
\* its webhook URL at Twilio names, as long as the process knows its route or
\* the file has the last one.
THEOREM RoutesAgreeWithTwilio == Spec => []RoutesAgree
<1>1. AgreeInv => RoutesAgree
  <2> SUFFICES ASSUME AgreeInv, NEW n \in Numbers \ (lost \cup raced),
                      stock[n] = "owned", UsedBy(n) = {}
               PROVE  Resolve(n) \in {NoAgent, voice[n]} \/ (routing[n] = NoAgent /\ n \in stale)
    BY DEF RoutesAgree
  <2>1. Settled(n) BY DEF Settled, UsedBy
  <2>2. QED BY <2>1 DEF AgreeInv, Agree, Resolve
<1>2. QED BY <1>1, AgreementInvariant, PTL
=============================================================================
