---------------------- MODULE ServerSentEvents_proofs -----------------------
(***************************************************************************)
(* Theorems about the server-sent events, for every number of sessions,    *)
(* connections, requests, services and events, with and without returning  *)
(* clients, short timeouts, spurious wake-ups and HPD_stop.                *)
(***************************************************************************)
EXTENDS ServerSentEvents, SequenceTheorems, TLAPS

-----------------------------------------------------------------------------
(* Queues.                                                                 *)

ConnRecords == [at : ConnState, session : Session \cup {NULL}]

Entry == [conn : Conn, event : Event]

LEMMA NewQueues ==
  /\ NoQueue \in Queue /\ create_event_queue \in Queue
  /\ destroy_event_queue \in Queue
  /\ create_event_queue.events = <<>> /\ destroy_event_queue.events = <<>>
  /\ create_event_queue.connection_id = NULL
  /\ destroy_event_queue.connection_id = NULL
  /\ create_event_queue.memory = "live" /\ destroy_event_queue.memory = "freed"
  /\ ~create_event_queue.exit /\ ~destroy_event_queue.exit
  <1>1. <<>> \in Seq(Event)
    OBVIOUS
  <1>2. NoQueue \in Queue /\ NoQueue.events = <<>> /\ ~NoQueue.exit
        /\ NoQueue.connection_id = NULL
    BY <1>1 DEF NoQueue, Queue
  <1> QED
    BY <1>2 DEF create_event_queue, destroy_event_queue, Queue

\* Two queues that differ in what is waiting for and subscribed to, at most.
SameQueue(q, r) ==
  /\ r.connection_id = q.connection_id /\ r.exit = q.exit
  /\ r.memory = q.memory

LEMMA QueueEvent ==
  ASSUME NEW q \in Queue, NEW e \in Event, NEW g \in BOOLEAN
  PROVE  LET r == queue_event(q, e, g)
         IN  /\ r \in Queue /\ SameQueue(q, r)
             /\ r.is_waiting = q.is_waiting
             /\ r.send_log_events = q.send_log_events
             /\ r.events = IF Accepts(q, e, g) THEN Append(q.events, e)
                           ELSE q.events
  <1> DEFINE x == Append(q.events, e)
             r == [q EXCEPT !.events = x]
  <1>1. q.events \in Seq(Event)
    BY DEF Queue
  <1>2. x \in Seq(Event)
    BY ONLY <1>1, e \in Event
  <1> HIDE DEF x
  <1>3. /\ r \in Queue /\ r.events = x /\ SameQueue(q, r)
        /\ r.is_waiting = q.is_waiting /\ r.send_log_events = q.send_log_events
    BY <1>2 DEF Queue, SameQueue
  <1> HIDE DEF r
  <1>4. queue_event(q, e, g) = IF Accepts(q, e, g) THEN r ELSE q
    BY DEF queue_event, r, x
  <1> QED
    BY <1>3, <1>4 DEF SameQueue, x

LEMMA Dequeued ==
  ASSUME NEW q \in Queue, q.events # <<>>
  PROVE  LET r == dequeued(q)
         IN  /\ r \in Queue /\ SameQueue(q, r) /\ r.events = Tail(q.events)
             /\ r.is_waiting = q.is_waiting
             /\ r.send_log_events = q.send_log_events
  <1> DEFINE x == Tail(q.events)
             r == [q EXCEPT !.events = x]
  <1>1. q.events \in Seq(Event) /\ q.events # <<>>
    BY DEF Queue
  <1>2. x \in Seq(Event)
    BY ONLY <1>1
  <1> HIDE DEF x
  <1>3. /\ r \in Queue /\ r.events = x /\ SameQueue(q, r)
        /\ r.is_waiting = q.is_waiting /\ r.send_log_events = q.send_log_events
    BY <1>2 DEF Queue, SameQueue
  <1> HIDE DEF r
  <1>4. dequeued(q) = r
    BY DEF dequeued, r, x
  <1> QED
    BY <1>3, <1>4 DEF x

LEMMA Subscriptions ==
  ASSUME NEW q \in Queue, NEW v \in Service,
         NEW a \in {"none", "available", "unavailable"}
  PROVE  LET r == [q EXCEPT !.service_ids[v] = a]
         IN  r \in Queue /\ SameQueue(q, r) /\ r.events = q.events
             /\ r.is_waiting = q.is_waiting
  <1> DEFINE i == [q.service_ids EXCEPT ![v] = a]
             r == [q EXCEPT !.service_ids = i]
  <1>1. i \in [Service -> {"none", "available", "unavailable"}]
    BY DEF Queue
  <1> HIDE DEF i
  <1>2. /\ r \in Queue /\ SameQueue(q, r) /\ r.events = q.events
        /\ r.is_waiting = q.is_waiting
    BY <1>1 DEF Queue, SameQueue
  <1> QED
    BY <1>2 DEF i

LEMMA ToggledQueue ==
  ASSUME NEW q \in Queue, NEW x \in Service \cup {Log}
  PROVE  LET r == Toggled(q, x)
         IN  r \in Queue /\ SameQueue(q, r) /\ r.events = q.events
             /\ r.is_waiting = q.is_waiting
  <1>1. CASE x = Log
    <2> DEFINE r == [q EXCEPT !.send_log_events = ~@]
    <2>1. r \in Queue /\ SameQueue(q, r) /\ r.events = q.events
          /\ r.is_waiting = q.is_waiting
      BY DEF Queue, SameQueue
    <2> QED
      BY <1>1, <2>1 DEF Toggled
  <1>2. CASE x # Log
    BY <1>2, Subscriptions DEF Toggled, add_service_id, remove_service_id
  <1> QED
    BY <1>1, <1>2

LEMMA AvailableQueue ==
  ASSUME NEW q \in Queue, NEW v \in Service,
         NEW a \in {"available", "unavailable"}
  PROVE  LET r == set_availability(q, v, a)
         IN  r \in Queue /\ SameQueue(q, r) /\ r.events = q.events
             /\ r.is_waiting = q.is_waiting
  BY Subscriptions DEF set_availability

(* The fields that a thread of a connection sets.                          *)
LEMMA FieldsOfQueue ==
  ASSUME NEW q \in Queue
  PROVE  /\ \A w \in {"NO", "YES", "WAIT_FOR_TIMEOUT"} :
              LET r == [q EXCEPT !.is_waiting = w]
              IN  r \in Queue /\ SameQueue(q, r) /\ r.events = q.events
                  /\ r.is_waiting = w /\ r.send_log_events = q.send_log_events
         /\ \A c \in Conn :
              LET r == [q EXCEPT !.connection_id = c]
              IN  r \in Queue /\ r.connection_id = c /\ r.events = q.events
                  /\ r.exit = q.exit /\ r.memory = q.memory
         /\ LET r == [q EXCEPT !.exit = TRUE]
            IN  r \in Queue /\ r.connection_id = q.connection_id
                /\ r.events = q.events /\ r.memory = q.memory /\ r.exit
                /\ r.is_waiting = q.is_waiting
                /\ r.send_log_events = q.send_log_events
  <1>1. ASSUME NEW w \in {"NO", "YES", "WAIT_FOR_TIMEOUT"}
        PROVE  LET r == [q EXCEPT !.is_waiting = w]
               IN  r \in Queue /\ SameQueue(q, r) /\ r.events = q.events
                   /\ r.is_waiting = w /\ r.send_log_events = q.send_log_events
    BY DEF Queue, SameQueue
  <1>2. ASSUME NEW c \in Conn
        PROVE  LET r == [q EXCEPT !.connection_id = c]
               IN  r \in Queue /\ r.connection_id = c /\ r.events = q.events
                   /\ r.exit = q.exit /\ r.memory = q.memory
    BY DEF Queue
  <1>3. LET r == [q EXCEPT !.exit = TRUE]
        IN  r \in Queue /\ r.connection_id = q.connection_id
            /\ r.events = q.events /\ r.memory = q.memory /\ r.exit
            /\ r.is_waiting = q.is_waiting
            /\ r.send_log_events = q.send_log_events
    BY DEF Queue
  <1> QED
    BY <1>1, <1>2, <1>3

-----------------------------------------------------------------------------
(* The inductive invariant.                                                *)

\* The type invariant, by the part of the program.
GlobalType ==
  /\ global_event_queue \in Queue
  /\ consumer \in {"run", "waiting", "woken", "copy", "exited"}
  /\ new_event \in Event \cup {NULL}
  /\ new_event = NULL <=> consumer # "copy"

SessionType ==
  event_queue_list \in Seq(Session) /\ queue \in [Session -> Queue]

ConnType == conn \in [Conn -> ConnRecords]

RequestType ==
  request \in [Request -> [at : {"idle", "found"},
                           session : Session \cup {NULL},
                           what : Service \cup {Log, NULL}]]

HistoryType == popped \in [Session -> Seq(Entry)]

RestType ==
  /\ stop \in {"no", "run", "global", "join", "done"}
  /\ created \in 0..MaxEvents
  /\ fault \in {"none", "null_id", "empty_pop", "freed", "unlisted"}

LEMMA TypeParts ==
  TypeOK <=> /\ GlobalType /\ SessionType /\ ConnType /\ RequestType
             /\ HistoryType /\ RestType
  BY DEF TypeOK, GlobalType, SessionType, ConnType, RequestType, HistoryType,
         RestType, ConnRecords, Entry

\* Threads know a session, and its queue has been made.
ConnsHaveQueues ==
  \A c \in Conn : conn[c].at # "idle" =>
    conn[c].session \in Session /\ queue[conn[c].session].memory # "none"

RequestsHaveQueues ==
  \A r \in Request : request[r].at = "found" =>
    request[r].session \in Session /\ request[r].what \in Service \cup {Log}

\* A queue leaves the list before its connection destroys it, or when HPD_stop
\* tells it to exit.
ExitsAreUnlisted == \A s \in Session : queue[s].exit => s \notin Listed

DestroyedAreUnlisted ==
  \A c \in Conn : conn[c].at = "destroy" => conn[c].session \notin Listed

\* The global queue accepts every event, and its thread sleeps as it says.
GlobalInv ==
  /\ consumer # "exited" =>
       global_event_queue.memory = "live" /\ global_event_queue.send_log_events
  /\ consumer = "waiting" =>
       global_event_queue.is_waiting = "YES" /\ global_event_queue.events = <<>>

ListInv ==
  /\ ConnsHaveQueues /\ RequestsHaveQueues
  /\ ExitsAreUnlisted /\ DestroyedAreUnlisted /\ ListedAreLive

SseInv ==
  /\ GlobalType /\ SessionType /\ ConnType /\ RequestType /\ HistoryType
  /\ RestType /\ GlobalInv /\ ListInv

LEMMA SseInvIsSound ==
  SseInv => QueuesAreSound /\ ConsumerSleepsOnlyWhenEmpty
  BY TypeParts DEF SseInv, QueuesAreSound, ListInv, GlobalInv,
                   ConsumerSleepsOnlyWhenEmpty

LEMMA ListedAreSessions ==
  ASSUME SessionType
  PROVE  Listed \subseteq Session
  BY DEF SessionType, Listed

(* Steps that leave the list, and of every queue memory and exit.          *)
Steady(c) ==
  \/ /\ conn'[c].session = conn[c].session
     /\ conn'[c].at = "idle" <=> conn[c].at = "idle"
     /\ conn'[c].at = "destroy" => conn[c].at = "destroy"
  \/ conn'[c].at = "found" /\ conn'[c].session \in Listed

LEMMA SteadyKeepsList ==
  ASSUME SseInv, SessionType', event_queue_list' = event_queue_list,
         \A s \in Session : /\ queue'[s].memory = queue[s].memory
                            /\ queue'[s].exit = queue[s].exit,
         \A c \in Conn : Steady(c), RequestsHaveQueues'
  PROVE  ListInv'
  <1>1. Listed' = Listed /\ Listed \subseteq Session
    BY ListedAreSessions DEF SseInv, Listed
  <1>2. ListedAreLive'
    BY <1>1 DEF SseInv, ListInv, ListedAreLive, Live
  <1>3. ExitsAreUnlisted'
    BY <1>1 DEF SseInv, ListInv, ExitsAreUnlisted
  <1>4. ConnsHaveQueues'
    <2> SUFFICES ASSUME NEW c \in Conn, conn'[c].at # "idle"
                 PROVE  /\ conn'[c].session \in Session
                        /\ queue'[conn'[c].session].memory # "none"
      BY DEF ConnsHaveQueues
    <2>1. CASE conn'[c].at = "found" /\ conn'[c].session \in Listed
      BY <1>1, <2>1 DEF SseInv, ListInv, ListedAreLive, Live
    <2>2. CASE conn'[c].session = conn[c].session /\ conn[c].at # "idle"
      BY <2>2 DEF SseInv, ListInv, ConnsHaveQueues
    <2> QED
      BY <2>1, <2>2 DEF Steady
  <1>5. DestroyedAreUnlisted'
    <2> SUFFICES ASSUME NEW c \in Conn, conn'[c].at = "destroy"
                 PROVE  conn'[c].session \notin Listed
      BY <1>1 DEF DestroyedAreUnlisted
    <2> QED
      BY DEF Steady, SseInv, ListInv, DestroyedAreUnlisted
  <1> QED
    BY <1>2, <1>3, <1>4, <1>5 DEF ListInv

LEMMA SteadyConns ==
  ASSUME UNCHANGED conn
  PROVE  \A c \in Conn : Steady(c)
  BY DEF Steady

(* pthread_cond_broadcast on some queues.                                  *)
LEMMA WokenFacts ==
  ASSUME ConnType, NEW S
  PROVE  /\ Woken(S) \in [Conn -> ConnRecords]
         /\ \A c \in Conn :
              /\ Woken(S)[c].session = conn[c].session
              /\ \/ Woken(S)[c].at = conn[c].at
                 \/ conn[c].at = "waiting" /\ Woken(S)[c].at = "woken"
                 \/ conn[c].at = "timing" /\ Woken(S)[c].at = "signalled"
  <1>1. ASSUME NEW c \in Conn
        PROVE  /\ Woken(S)[c] \in ConnRecords
               /\ Woken(S)[c].session = conn[c].session
               /\ \/ Woken(S)[c].at = conn[c].at
                  \/ conn[c].at = "waiting" /\ Woken(S)[c].at = "woken"
                  \/ conn[c].at = "timing" /\ Woken(S)[c].at = "signalled"
    <2> DEFINE q == conn[c]
               a == [q EXCEPT !.at = "woken"]
               b == [q EXCEPT !.at = "signalled"]
    <2>1. q \in ConnRecords
      BY DEF ConnType
    <2> HIDE DEF q
    <2>2. /\ a \in ConnRecords /\ a.session = q.session /\ a.at = "woken"
          /\ b \in ConnRecords /\ b.session = q.session /\ b.at = "signalled"
      BY <2>1 DEF ConnRecords, ConnState
    <2> HIDE DEF a, b
    <2>3. \/ Woken(S)[c] = q
          \/ q.at = "waiting" /\ Woken(S)[c] = a
          \/ q.at = "timing" /\ Woken(S)[c] = b
      BY DEF Woken, a, b, q, Of
    <2> QED
      BY <2>1, <2>2, <2>3 DEF q
  <1> QED
    BY <1>1 DEF Woken

(* A thread goes on.                                                       *)
LEMMA GotoFacts ==
  ASSUME ConnType, NEW c \in Conn, NEW pc \in ConnState, Goto(c, pc)
  PROVE  /\ ConnType'
         /\ conn'[c].at = pc /\ conn'[c].session = conn[c].session
         /\ \A d \in Conn : d # c => conn'[d] = conn[d]
  <1> DEFINE r == [conn[c] EXCEPT !.at = pc]
  <1>1. r \in ConnRecords /\ r.at = pc /\ r.session = conn[c].session
    BY DEF ConnType, ConnRecords
  <1>2. conn' = [conn EXCEPT ![c] = r]
    BY DEF Goto
  <1> HIDE DEF r
  <1> QED
    BY <1>1, <1>2 DEF ConnType

-----------------------------------------------------------------------------
(* The global queue.                                                       *)

LEMMA GlobalStepKeeps ==
  ASSUME SseInv, UNCHANGED <<sessionVars, conn, request>>,
         GlobalType', HistoryType', RestType', GlobalInv'
  PROVE  SseInv'
  <1>1. SessionType' /\ ConnType' /\ RequestType' /\ RequestsHaveQueues'
    BY DEF SseInv, SessionType, ConnType, RequestType, ListInv,
           RequestsHaveQueues, sessionVars
  <1>2. event_queue_list' = event_queue_list /\ queue' = queue
    BY DEF sessionVars
  <1>3. ListInv'
    BY <1>1, <1>2, SteadyConns, SteadyKeepsList
  <1> QED
    BY <1>1, <1>3 DEF SseInv

LEMMA FaultKeeps ==
  ASSUME SseInv, NEW f \in {"none", "null_id", "empty_pop", "freed", "unlisted"},
         Fault(f)
  PROVE  SseInv'
  <1>1. GlobalType' /\ HistoryType' /\ RestType' /\ GlobalInv'
    BY DEF SseInv, Fault, GlobalType, HistoryType, RestType, GlobalInv,
           globalVars, threadVars
  <1> QED
    BY <1>1, GlobalStepKeeps DEF Fault, threadVars, sessionVars

\* An event that is made now.
LEMMA NewEvent ==
  ASSUME SseInv, created < MaxEvents, created' = created + 1,
         NEW id \in Service \cup {Log}, NEW d \in BOOLEAN
  PROVE  /\ [id |-> id, n |-> created + 1, direct |-> d] \in Event
         /\ created' \in 0..MaxEvents
  <1>1. created \in 0..MaxEvents /\ MaxEvents \in Nat
    BY EventQueueAssumption DEF SseInv, RestType
  <1>2. created + 1 \in 1..MaxEvents /\ created + 1 \in 0..MaxEvents
    BY <1>1
  <1> QED
    BY <1>2 DEF Event

LEMMA PublishKeeps ==
  ASSUME SseInv, NEW id \in Service \cup {Log}, Publish(id)
  PROVE  SseInv'
  <1> DEFINE e == [id |-> id, n |-> created + 1, direct |-> FALSE]
             g == global_event_queue
  <1>1. /\ g' = queue_event(g, e, TRUE)
        /\ consumer' = IF consumer = "waiting" /\ Signals(g, e, TRUE)
                       THEN "woken" ELSE consumer
        /\ created < MaxEvents /\ created' = created + 1 /\ g.memory = "live"
        /\ UNCHANGED <<new_event, sessionVars, threadVars, fault, popped>>
    BY DEF Publish
  <1>2. e \in Event /\ created' \in 0..MaxEvents
    BY <1>1, NewEvent
  <1>3. e.id = id
    OBVIOUS
  <1> HIDE DEF e
  <1>4. g \in Queue
    BY DEF SseInv, GlobalType
  <1>5. /\ g' \in Queue /\ g'.memory = g.memory
        /\ g'.send_log_events = g.send_log_events
    BY <1>1, <1>2, <1>4, QueueEvent DEF SameQueue
  <1>6. GlobalType'
    BY <1>1, <1>5 DEF SseInv, GlobalType
  <1>7. consumer = "waiting" => consumer' = "woken"
    BY <1>1 DEF SseInv, GlobalInv, Signals, Accepts
  <1>8. GlobalInv'
    BY <1>1, <1>5, <1>7 DEF SseInv, GlobalInv
  <1>9. RestType' /\ HistoryType'
    BY <1>1, <1>2 DEF SseInv, RestType, HistoryType, threadVars
  <1> QED
    BY <1>1, <1>6, <1>8, <1>9, GlobalStepKeeps DEF threadVars

LEMMA ConsumerKeeps ==
  ASSUME SseInv,
         ConsumerWaits \/ ConsumerSpurious \/ ConsumerPops \/ ConsumerExits
  PROVE  SseInv'
  <1> DEFINE g == global_event_queue
  <1>1. g \in Queue
    BY DEF SseInv, GlobalType
  <1>2. /\ UNCHANGED <<sessionVars, conn, request, stop, created, fault, popped>>
    BY DEF ConsumerWaits, ConsumerSpurious, ConsumerPops, ConsumerExits,
           threadVars
  <1>3. RestType' /\ HistoryType'
    BY <1>2 DEF SseInv, RestType, HistoryType
  <1>4. CASE ConsumerWaits
    <2> DEFINE h == [g EXCEPT !.is_waiting = "YES"]
    <2>1. /\ g' = h /\ consumer = "run" /\ consumer' = "waiting"
          /\ g.events = <<>> /\ new_event' = new_event
      BY <1>4 DEF ConsumerWaits
    <2> HIDE DEF g
    <2>2. /\ h \in Queue /\ h.memory = g.memory /\ h.events = g.events
          /\ h.is_waiting = "YES" /\ h.send_log_events = g.send_log_events
      BY <1>1, FieldsOfQueue DEF SameQueue
    <2> HIDE DEF h
    <2>3. GlobalType' /\ GlobalInv'
      BY <2>1, <2>2 DEF SseInv, GlobalType, GlobalInv, g
    <2> QED
      BY <1>2, <1>3, <2>3, GlobalStepKeeps
  <1>5. CASE ConsumerSpurious
    <2>1. GlobalType' /\ GlobalInv'
      BY <1>5 DEF ConsumerSpurious, SseInv, GlobalType, GlobalInv
    <2> QED
      BY <1>2, <1>3, <2>1, GlobalStepKeeps
  <1>6. CASE ConsumerPops
    <2> DEFINE a == [g EXCEPT !.is_waiting = "NO"]
    <2>1. /\ g' = dequeued(a) /\ consumer' = "copy" /\ g.events # <<>>
          /\ new_event' = Head(g.events) /\ consumer \in {"woken", "run"}
      BY <1>6 DEF ConsumerPops, ConsumerDequeues
    <2> HIDE DEF g
    <2>2. /\ a \in Queue /\ a.memory = g.memory /\ a.events = g.events
          /\ a.send_log_events = g.send_log_events
      BY <1>1, FieldsOfQueue DEF SameQueue
    <2> HIDE DEF a
    <2>3. /\ dequeued(a) \in Queue /\ dequeued(a).memory = a.memory
          /\ dequeued(a).send_log_events = a.send_log_events
      BY <2>1, <2>2, Dequeued DEF SameQueue
    <2>4. Head(g.events) \in Event
      <3>1. g.events \in Seq(Event) /\ g.events # <<>>
        BY <1>1, <2>1 DEF Queue
      <3> QED
        BY ONLY <3>1
    <2>5. Head(g.events) # NULL
      BY <2>4, ServerSentEventsAssumption
    <2>6. GlobalType' /\ GlobalInv'
      BY <2>1, <2>2, <2>3, <2>4, <2>5
         DEF SseInv, GlobalType, GlobalInv, g
    <2> QED
      BY <1>2, <1>3, <2>6, GlobalStepKeeps
  <1>7. CASE ConsumerExits
    <2>1. GlobalType' /\ GlobalInv'
      BY <1>7, NewQueues
         DEF ConsumerExits, ConsumerDequeues, SseInv, GlobalType, GlobalInv
    <2> QED
      BY <1>2, <1>3, <2>1, GlobalStepKeeps
  <1> QED
    BY <1>4, <1>5, <1>6, <1>7

LEMMA StopGlobalKeeps ==
  ASSUME SseInv, StopGlobal \/ StopJoined
  PROVE  SseInv'
  <1> DEFINE g == global_event_queue
  <1>1. CASE StopGlobal
    <2> DEFINE h == [g EXCEPT !.exit = TRUE]
    <2>1. /\ g' = h /\ stop' = "join"
          /\ consumer' \in {consumer, "woken"}
          /\ consumer' = IF consumer = "waiting" /\ g.is_waiting = "YES"
                         THEN "woken" ELSE consumer
          /\ UNCHANGED <<new_event, sessionVars, conn, request, created, fault,
                         popped>>
      BY <1>1 DEF StopGlobal
    <2>2. g \in Queue
      BY DEF SseInv, GlobalType
    <2> HIDE DEF g
    <2>3. /\ h \in Queue /\ h.memory = g.memory
          /\ h.send_log_events = g.send_log_events
      BY <2>2, FieldsOfQueue
    <2> HIDE DEF h
    <2>4. GlobalType' /\ GlobalInv'
      BY <2>1, <2>3 DEF SseInv, GlobalType, GlobalInv, g
    <2>5. RestType' /\ HistoryType'
      BY <2>1 DEF SseInv, RestType, HistoryType
    <2> QED
      BY <2>1, <2>4, <2>5, GlobalStepKeeps
  <1>2. CASE StopJoined
    <2>1. GlobalType' /\ GlobalInv' /\ RestType' /\ HistoryType'
      BY <1>2 DEF StopJoined, SseInv, GlobalType, GlobalInv, RestType,
                  HistoryType, globalVars
    <2> QED
      BY <1>2, <2>1, GlobalStepKeeps DEF StopJoined
  <1> QED
    BY <1>1, <1>2

-----------------------------------------------------------------------------
(* The queues of the sessions.                                             *)

\* Waking threads does not disturb the list.
LEMMA WokenIsSteady ==
  ASSUME SseInv, NEW S, conn' = Woken(S)
  PROVE  ConnType' /\ \A c \in Conn : Steady(c)
  <1>1. ConnType
    BY DEF SseInv
  <1>2. ASSUME NEW c \in Conn PROVE Steady(c)
    BY <1>1, WokenFacts DEF Steady
  <1> QED
    BY <1>1, <1>2, WokenFacts DEF ConnType

LEMMA AppendsKeep ==
  ASSUME SseInv, NEW e \in Event, NEW S \in SUBSET Session,
         NEW f, \A s \in S : f[s] \in Queue /\ SameQueue(queue[s], f[s]),
         queue' = [s \in Session |->
                     IF s \in S THEN queue_event(f[s], e, FALSE) ELSE queue[s]],
         event_queue_list' = event_queue_list,
         \E T : conn' = Woken(T),
         request' = request
  PROVE  /\ SessionType' /\ ConnType' /\ RequestType' /\ ListInv'
  <1>1. ASSUME NEW s \in Session
        PROVE  /\ queue'[s] \in Queue
               /\ queue'[s].memory = queue[s].memory
               /\ queue'[s].exit = queue[s].exit
    <2>1. queue[s] \in Queue
      BY DEF SseInv, SessionType
    <2>2. CASE s \in S
      <3>1. /\ queue_event(f[s], e, FALSE) \in Queue
            /\ SameQueue(f[s], queue_event(f[s], e, FALSE))
        BY <2>2, QueueEvent
      <3> QED
        BY <2>2, <3>1 DEF SameQueue
    <2>3. CASE s \notin S
      BY <2>1, <2>3
    <2> QED
      BY <2>2, <2>3
  <1>2. SessionType'
    BY <1>1 DEF SseInv, SessionType
  <1>3. ConnType' /\ \A c \in Conn : Steady(c)
    BY WokenIsSteady
  <1>4. RequestType' /\ RequestsHaveQueues'
    BY DEF SseInv, RequestType, ListInv, RequestsHaveQueues
  <1> QED
    BY <1>1, <1>2, <1>3, <1>4, SteadyKeepsList

LEMMA ConsumerCopiesKeeps ==
  ASSUME SseInv, ConsumerCopies
  PROVE  SseInv'
  <1>1. new_event \in Event
    BY DEF SseInv, GlobalType, ConsumerCopies
  <1>2. Listed \in SUBSET Session
    BY ListedAreSessions DEF SseInv
  <1>3. \A s \in Listed : queue[s] \in Queue /\ SameQueue(queue[s], queue[s])
    BY <1>2 DEF SseInv, SessionType, SameQueue
  <1>4. /\ SessionType' /\ ConnType' /\ RequestType' /\ ListInv'
    BY <1>1, <1>2, <1>3, AppendsKeep DEF ConsumerCopies
  <1>5. GlobalType' /\ GlobalInv' /\ RestType' /\ HistoryType'
    BY DEF ConsumerCopies, SseInv, GlobalType, GlobalInv, RestType, HistoryType
  <1> QED
    BY <1>4, <1>5 DEF SseInv

LEMMA NotifyKeeps ==
  ASSUME SseInv, NEW v \in Service, NEW a \in {"available", "unavailable"},
         notify_service_availability(v, a)
  PROVE  SseInv'
  <1> DEFINE e == [id |-> v, n |-> created + 1, direct |-> TRUE]
             S == {s \in Listed : is_subscribed(queue[s], v)}
             f == [s \in Session |-> set_availability(queue[s], v, a)]
  <1>1. /\ queue' = [s \in Session |->
                 IF s \in S
                   THEN queue_event(set_availability(queue[s], v, a), e, FALSE)
                   ELSE queue[s]]
        /\ \E T : conn' = Woken(T)
        /\ created < MaxEvents /\ created' = created + 1
        /\ UNCHANGED <<globalVars, event_queue_list, request, stop, fault, popped>>
    BY Zenon DEF notify_service_availability
  <1>2. e \in Event /\ created' \in 0..MaxEvents
    BY <1>1, NewEvent
  <1>3. S \in SUBSET Session
    BY ListedAreSessions DEF SseInv
  <1>4. \A s \in S : f[s] \in Queue /\ SameQueue(queue[s], f[s])
    BY <1>3, AvailableQueue DEF SseInv, SessionType
  <1> HIDE DEF e, S
  <1>5. queue' = [s \in Session |->
                    IF s \in S THEN queue_event(f[s], e, FALSE) ELSE queue[s]]
    BY <1>1
  <1> HIDE DEF f
  <1>6. /\ SessionType' /\ ConnType' /\ RequestType' /\ ListInv'
    BY <1>1, <1>2, <1>3, <1>4, <1>5, AppendsKeep
  <1>7. GlobalType' /\ GlobalInv' /\ RestType' /\ HistoryType'
    BY <1>1, <1>2
       DEF SseInv, GlobalType, GlobalInv, RestType, HistoryType, globalVars
  <1> QED
    BY <1>6, <1>7 DEF SseInv

-----------------------------------------------------------------------------
(* Requests.                                                               *)

LEMMA SubscribeNewKeeps ==
  ASSUME SseInv, NEW r \in Request, NEW s \in Session,
         NEW x \in Service \cup {Log}, SubscribeNew(r, s, x)
  PROVE  SseInv'
  <1> DEFINE n == [at |-> "found", session |-> s, what |-> x]
             l == event_queue_list
             k == Len(l) + 1
  <1>1. /\ queue[s].memory = "none"
        /\ queue' = [queue EXCEPT ![s] = create_event_queue]
        /\ l' = Append(l, s) /\ request' = [request EXCEPT ![r] = n]
        /\ UNCHANGED <<globalVars, conn, stop, created, fault, popped>>
    BY DEF SubscribeNew
  <1>2. l \in Seq(Session) /\ queue \in [Session -> Queue]
    BY DEF SseInv, SessionType
  <1>3. SessionType'
    BY <1>1, <1>2, NewQueues DEF SessionType
  <1>4. RequestType' /\ RequestsHaveQueues'
    BY <1>1 DEF SseInv, RequestType, ListInv, RequestsHaveQueues
  <1>5. ConnType' /\ GlobalType' /\ GlobalInv' /\ RestType' /\ HistoryType'
    BY <1>1 DEF SseInv, ConnType, GlobalType, GlobalInv, RestType, HistoryType,
                globalVars
  <1> HIDE DEF l
  <1>6. /\ Len(l) \in Nat /\ Len(l') = k /\ l'[k] = s
        /\ \A i \in 1..Len(l) : l'[i] = l[i] /\ i # k
        /\ \A i \in 1..k : i \in 1..Len(l) \/ i = k
        /\ \A i \in 1..Len(l) : i \in 1..k
    BY ONLY <1>1, <1>2, s \in Session
  <1> HIDE DEF k
  <1>7. Listed' = Listed \cup {s} /\ s \notin Listed
    <2>1. s \notin Listed
      BY <1>1 DEF SseInv, ListInv, ListedAreLive, Live
    <2>2. Listed = {l[i] : i \in 1..Len(l)} /\ Listed' = {l'[i] : i \in 1..k}
      BY <1>6 DEF Listed, l
    <2>3. \A t \in Listed' : t \in Listed \cup {s}
      BY <1>6, <2>2
    <2>4. k \in 1..k
      BY <1>6 DEF k
    <2>5. \A t \in Listed \cup {s} : t \in Listed'
      BY <1>6, <2>2, <2>4
    <2> QED
      BY <2>1, <2>3, <2>5
  <1>8. /\ queue'[s] = create_event_queue
        /\ \A t \in Session : t # s => queue'[t] = queue[t]
    BY <1>1, <1>2
  <1>9. ListedAreLive'
    <2>1. \A t \in Listed' : queue'[t].memory = "live"
      BY <1>7, <1>8, NewQueues, ListedAreSessions
         DEF SseInv, ListInv, ListedAreLive, Live
    <2>2. \A i, j \in 1..k : i # j => l'[i] # l'[j]
      <3>1. \A i \in 1..Len(l) : l[i] \in Listed
        BY DEF Listed, l
      <3>2. \A i, j \in 1..Len(l) : i # j => l[i] # l[j]
        BY DEF SseInv, ListInv, ListedAreLive, l
      <3> QED
        BY <1>6, <1>7, <3>1, <3>2
    <2> QED
      BY <1>6, <2>1, <2>2 DEF ListedAreLive, Live, l
  <1>10. ExitsAreUnlisted'
    BY <1>7, <1>8, NewQueues DEF SseInv, ListInv, ExitsAreUnlisted
  <1>11. ConnsHaveQueues'
    BY <1>1, <1>8, NewQueues DEF SseInv, ListInv, ConnsHaveQueues
  <1>12. DestroyedAreUnlisted'
    <2> SUFFICES ASSUME NEW c \in Conn, conn[c].at = "destroy"
                 PROVE  conn[c].session \notin Listed'
      BY <1>1 DEF DestroyedAreUnlisted
    <2>1. conn[c].session \notin Listed
      BY DEF SseInv, ListInv, DestroyedAreUnlisted
    <2>2. conn[c].session # s
      BY <1>1 DEF SseInv, ListInv, ConnsHaveQueues
    <2> QED
      BY <1>7, <2>1, <2>2
  <1> QED
    BY <1>3, <1>4, <1>5, <1>9, <1>10, <1>11, <1>12 DEF SseInv, ListInv

LEMMA RequestKeeps ==
  ASSUME SseInv, NEW r \in Request,
         \/ \E s \in Session, x \in Service \cup {Log} : SubscribeFinds(r, s, x)
         \/ SubscribeToggles(r)
  PROVE  SseInv'
  <1>1. /\ UNCHANGED <<globalVars, event_queue_list, conn, stop, created, fault,
                       popped>>
    BY DEF SubscribeFinds, SubscribeToggles, sessionVars
  <1>2. ConnType' /\ GlobalType' /\ GlobalInv' /\ RestType' /\ HistoryType'
    BY <1>1 DEF SseInv, ConnType, GlobalType, GlobalInv, RestType, HistoryType,
                globalVars
  <1>3. CASE \E s \in Session, x \in Service \cup {Log} : SubscribeFinds(r, s, x)
    <2>1. PICK s \in Session, x \in Service \cup {Log} : SubscribeFinds(r, s, x)
      BY <1>3
    <2>2. queue' = queue
          /\ request' = [request EXCEPT ![r] =
                           [at |-> "found", session |-> s, what |-> x]]
      BY <2>1 DEF SubscribeFinds, sessionVars
    <2>3. RequestType' /\ RequestsHaveQueues' /\ SessionType'
      BY <1>1, <2>2
         DEF SseInv, RequestType, ListInv, RequestsHaveQueues, SessionType
    <2>4. ListInv'
      BY <1>1, <2>2, <2>3, SteadyConns, SteadyKeepsList
    <2> QED
      BY <1>2, <2>3, <2>4 DEF SseInv
  <1>4. CASE SubscribeToggles(r)
    <2> DEFINE s == request[r].session
               q == Toggled(queue[s], request[r].what)
    <2>1. /\ request[r].at = "found"
          /\ queue' = [queue EXCEPT ![s] = q]
          /\ request' = [request EXCEPT ![r] = NoRequest]
      BY <1>4 DEF SubscribeToggles
    <2>2. s \in Session /\ request[r].what \in Service \cup {Log}
      BY <2>1 DEF SseInv, ListInv, RequestsHaveQueues
    <2>3. queue \in [Session -> Queue] /\ queue[s] \in Queue
      BY <2>2 DEF SseInv, SessionType
    <2>4. q \in Queue /\ SameQueue(queue[s], q)
      BY <2>2, <2>3, ToggledQueue
    <2> HIDE DEF q
    <2>5. SessionType'
      BY <1>1, <2>1, <2>2, <2>4 DEF SseInv, SessionType
    <2>6. \A t \in Session : /\ queue'[t].memory = queue[t].memory
                             /\ queue'[t].exit = queue[t].exit
      BY <2>1, <2>2, <2>3, <2>4 DEF SameQueue
    <2>7. RequestType' /\ RequestsHaveQueues'
      BY <2>1 DEF SseInv, RequestType, ListInv, RequestsHaveQueues, NoRequest
    <2>8. ListInv'
      BY <1>1, <2>5, <2>6, <2>7, SteadyConns, SteadyKeepsList
    <2> QED
      BY <1>2, <2>5, <2>7, <2>8 DEF SseInv
  <1> QED
    BY <1>3, <1>4

-----------------------------------------------------------------------------
(* The threads of the connections.                                         *)

\* A thread goes on and changes at most what its queue holds.
LEMMA ThreadKeeps ==
  ASSUME SseInv, NEW c \in Conn, conn[c].at # "idle",
         NEW pc \in ConnState, pc \notin {"idle", "destroy"}, Goto(c, pc),
         \/ queue' = queue
         \/ \E r \in Queue : /\ r.memory = queue[Of(c)].memory
                             /\ r.exit = queue[Of(c)].exit
                             /\ queue' = [queue EXCEPT ![Of(c)] = r],
         HistoryType',
         UNCHANGED <<globalVars, event_queue_list, request, stop, created, fault>>
  PROVE  SseInv'
  <1>1. Of(c) \in Session /\ queue \in [Session -> Queue]
    BY DEF SseInv, SessionType, ListInv, ConnsHaveQueues, Of
  <1>2. /\ queue' \in [Session -> Queue]
        /\ \A s \in Session : /\ queue'[s].memory = queue[s].memory
                              /\ queue'[s].exit = queue[s].exit
    BY <1>1
  <1>3. SessionType'
    BY <1>2 DEF SseInv, SessionType
  <1>4. ConnType' /\ \A d \in Conn : Steady(d)
    <2>1. ConnType
      BY DEF SseInv
    <2> QED
      BY <2>1, GotoFacts DEF Steady
  <1>5. GlobalType' /\ GlobalInv' /\ RestType' /\ RequestType'
        /\ RequestsHaveQueues'
    BY DEF SseInv, GlobalType, GlobalInv, RestType, RequestType, ListInv,
           RequestsHaveQueues, globalVars
  <1>6. ListInv'
    BY <1>2, <1>3, <1>4, <1>5, SteadyKeepsList
  <1> QED
    BY <1>3, <1>4, <1>5, <1>6 DEF SseInv

LEMMA OpenKeeps ==
  ASSUME SseInv, NEW c \in Conn, NEW s \in Session, Open(c, s)
  PROVE  SseInv'
  <1> DEFINE r == [at |-> "found", session |-> s]
  <1>1. /\ s \in Listed /\ conn' = [conn EXCEPT ![c] = r]
        /\ UNCHANGED <<globalVars, sessionVars, request, stop, created, fault,
                       popped>>
    BY DEF Open
  <1>2. r \in ConnRecords /\ r.at = "found" /\ r.session = s
    BY DEF ConnRecords, ConnState
  <1> HIDE DEF r
  <1>3. ConnType' /\ \A d \in Conn : Steady(d)
    BY <1>1, <1>2 DEF SseInv, ConnType, Steady
  <1>4. /\ GlobalType' /\ GlobalInv' /\ RestType' /\ RequestType'
        /\ RequestsHaveQueues' /\ SessionType' /\ HistoryType'
    BY <1>1 DEF SseInv, GlobalType, GlobalInv, RestType, RequestType, ListInv,
           RequestsHaveQueues, SessionType, HistoryType, globalVars, sessionVars
  <1>5. ListInv'
    BY <1>1, <1>3, <1>4, SteadyKeepsList DEF sessionVars
  <1> QED
    BY <1>3, <1>4, <1>5 DEF SseInv

LEMMA TakeOverKeeps ==
  ASSUME SseInv, NEW c \in Conn, TakeOver(c)
  PROVE  SseInv'
  <1> DEFINE s == Of(c)
             r == [queue[s] EXCEPT !.connection_id = c]
             w == IF /\ queue[s].is_waiting = "WAIT_FOR_TIMEOUT"
                     /\ queue[s].connection_id # NULL
                    THEN Woken({s}) ELSE conn
             x == [w[c] EXCEPT !.at = "set"]
  <1>1. /\ queue' = [queue EXCEPT ![s] = r] /\ conn' = [w EXCEPT ![c] = x]
        /\ conn[c].at = "found"
        /\ UNCHANGED <<globalVars, event_queue_list, request, stop, created,
                       fault, popped>>
    BY DEF TakeOver, At
  <1>2. s \in Session /\ queue \in [Session -> Queue] /\ ConnType
    BY <1>1 DEF SseInv, SessionType, ListInv, ConnsHaveQueues, Of
  <1>3. r \in Queue /\ r.memory = queue[s].memory /\ r.exit = queue[s].exit
    <2> DEFINE q == queue[s]
    <2>1. q \in Queue
      BY <1>2
    <2> HIDE DEF q
    <2>2. /\ [q EXCEPT !.connection_id = c] \in Queue
          /\ [q EXCEPT !.connection_id = c].memory = q.memory
          /\ [q EXCEPT !.connection_id = c].exit = q.exit
      BY <2>1, FieldsOfQueue
    <2> QED
      BY <2>2 DEF q
  <1> HIDE DEF r
  <1>4. /\ queue' \in [Session -> Queue]
        /\ \A t \in Session : /\ queue'[t].memory = queue[t].memory
                              /\ queue'[t].exit = queue[t].exit
    BY <1>1, <1>2, <1>3
  <1>5. /\ w \in [Conn -> ConnRecords]
        /\ \A d \in Conn :
             /\ w[d].session = conn[d].session
             /\ \/ w[d].at = conn[d].at
                \/ conn[d].at = "waiting" /\ w[d].at = "woken"
                \/ conn[d].at = "timing" /\ w[d].at = "signalled"
    <2>1. CASE w = conn
      BY <1>2, <2>1 DEF ConnType
    <2>2. CASE w = Woken({s})
      <3> HIDE DEF w
      <3>1. ConnType
        BY <1>2
      <3> QED
        BY <2>2, <3>1, WokenFacts
    <2> QED
      BY <2>1, <2>2
  <1> HIDE DEF w, s
  <1>6. x \in ConnRecords /\ x.at = "set" /\ x.session = w[c].session
    BY <1>5 DEF ConnRecords, ConnState
  <1> HIDE DEF x
  <1>7. ConnType' /\ \A d \in Conn : Steady(d)
    BY <1>1, <1>5, <1>6 DEF ConnType, Steady
  <1>8. /\ GlobalType' /\ GlobalInv' /\ RestType' /\ RequestType'
        /\ RequestsHaveQueues' /\ SessionType' /\ HistoryType'
    BY <1>1, <1>4 DEF SseInv, GlobalType, GlobalInv, RestType, RequestType,
           ListInv, RequestsHaveQueues, SessionType, HistoryType, globalVars
  <1>9. ListInv'
    BY <1>1, <1>4, <1>7, <1>8, SteadyKeepsList
  <1> QED
    BY <1>7, <1>8, <1>9 DEF SseInv

\* What a thread does to its queue while it keeps it.
LEMMA ProgressKeeps ==
  ASSUME SseInv, NEW c \in Conn,
         \/ Respond(c) \/ Lookup(c) \/ Closed(c) \/ Wait(c) \/ WakeSpuriously(c)
         \/ Pop(c) \/ DequeueNull(c) \/ Write(c) \/ FreeLookup(c)
         \/ StartTimeout(c) \/ Expire(c) \/ EndTimeout(c)
  PROVE  SseInv'
  <1> DEFINE s == Of(c)
             q == queue[s]
  <1>1. conn[c].at # "idle"
    BY DEF Respond, Lookup, Closed, Wait, WakeSpuriously, Pop, DequeueNull,
           Write, FreeLookup, StartTimeout, Expire, EndTimeout, Dequeues, At
  <1>2. s \in Session /\ q \in Queue
    BY <1>1 DEF SseInv, SessionType, ListInv, ConnsHaveQueues, Of
  <1>3. {"callback", "dequeue", "waiting", "woken", "null", "write", "free",
         "grace", "timing", "expired", "signalled", "unlink", "done"}
        \subseteq ConnState
    BY DEF ConnState
  <1>4. CASE \/ Respond(c) \/ Lookup(c) \/ Closed(c) \/ WakeSpuriously(c)
             \/ Write(c) \/ FreeLookup(c) \/ Expire(c)
    <2>1. /\ UNCHANGED <<globalVars, sessionVars, request, stop, created, fault,
                         popped>>
          /\ \/ Goto(c, "callback") \/ Goto(c, "done") \/ Goto(c, "dequeue")
             \/ Goto(c, "free") \/ Goto(c, "woken") \/ Goto(c, "signalled")
             \/ Goto(c, "grace") \/ Goto(c, "expired")
      BY <1>4 DEF Respond, Lookup, Closed, WakeSpuriously, Write, FreeLookup,
                  Expire
    <2>2. HistoryType'
      BY <2>1 DEF SseInv, HistoryType
    <2> QED
      BY <1>1, <1>3, <2>1, <2>2, ThreadKeeps DEF sessionVars
  <1>5. CASE Wait(c) \/ StartTimeout(c) \/ EndTimeout(c)
    <2>1. /\ UNCHANGED <<globalVars, event_queue_list, request, stop, created,
                         fault, popped>>
          /\ \E w \in {"NO", "YES", "WAIT_FOR_TIMEOUT"} :
               queue' = [queue EXCEPT ![s] = [q EXCEPT !.is_waiting = w]]
          /\ \/ Goto(c, "waiting") \/ Goto(c, "timing")
             \/ Goto(c, "unlink") \/ Goto(c, "done")
      BY <1>5 DEF Wait, StartTimeout, EndTimeout
    <2> HIDE DEF q, s
    <2>2. \E r \in Queue : r.memory = q.memory /\ r.exit = q.exit
                           /\ queue' = [queue EXCEPT ![s] = r]
      BY <1>2, <2>1, FieldsOfQueue DEF SameQueue
    <2>3. HistoryType'
      BY <2>1 DEF SseInv, HistoryType
    <2> QED
      BY <1>1, <1>3, <2>1, <2>2, <2>3, ThreadKeeps DEF s, q
  <1>6. CASE Pop(c) \/ DequeueNull(c)
    <2> DEFINE a == AfterWait(c)
    <2>1. a \in Queue /\ SameQueue(q, a) /\ a.events = q.events
      <3> HIDE DEF q
      <3>1. CASE conn[c].at = "woken"
        <4>1. a = [q EXCEPT !.is_waiting = "NO"]
          BY <3>1 DEF AfterWait, q
        <4> HIDE DEF a
        <4> QED
          BY <1>2, <4>1, FieldsOfQueue
      <3>2. CASE conn[c].at # "woken"
        BY <1>2, <3>2 DEF AfterWait, q, SameQueue
      <3> QED
        BY <3>1, <3>2
    <2>2. CASE Pop(c)
      <3> DEFINE e == [conn |-> c, event |-> Head(q.events)]
      <3>1. /\ q.events # <<>> /\ queue' = [queue EXCEPT ![s] = dequeued(a)]
            /\ popped' = [popped EXCEPT ![s] = Append(@, e)]
            /\ Goto(c, "write")
            /\ UNCHANGED <<globalVars, event_queue_list, request, stop, created,
                           fault>>
        BY <2>2 DEF Pop
      <3>2. Head(q.events) \in Event
        <4>1. q.events \in Seq(Event) /\ q.events # <<>>
          BY <1>2, <3>1 DEF Queue
        <4> QED
          BY ONLY <4>1
      <3>3. e \in Entry
        BY <3>2 DEF Entry
      <3> HIDE DEF e, a, q, s
      <3>4. HistoryType'
        <4>1. popped \in [Session -> Seq(Entry)]
          BY DEF SseInv, HistoryType
        <4>2. popped' \in [Session -> Seq(Entry)]
          BY ONLY <1>2, <3>1, <3>3, <4>1
        <4> QED
          BY <4>2 DEF HistoryType
      <3>5. /\ dequeued(a) \in Queue /\ dequeued(a).memory = q.memory
            /\ dequeued(a).exit = q.exit
        BY <2>1, <3>1, Dequeued DEF SameQueue
      <3> QED
        BY <1>1, <1>3, <3>1, <3>4, <3>5, ThreadKeeps DEF q, s
    <2>3. CASE DequeueNull(c)
      <3>1. /\ queue' = [queue EXCEPT ![s] = a] /\ Goto(c, "null")
            /\ UNCHANGED <<globalVars, event_queue_list, request, stop, created,
                           fault, popped>>
        BY <2>3 DEF DequeueNull
      <3> HIDE DEF a
      <3>2. HistoryType'
        BY <3>1 DEF SseInv, HistoryType
      <3> QED
        BY <1>1, <1>3, <2>1, <3>1, <3>2, ThreadKeeps DEF SameQueue
    <2> QED
      BY <1>6, <2>2, <2>3
  <1> QED
    BY <1>4, <1>5, <1>6

\* A queue that is not in the list is destroyed.
LEMMA GoneKeeps ==
  ASSUME SseInv, NEW c \in Conn, conn[c].at # "idle", Of(c) \notin Listed,
         NEW pc \in ConnState, pc \notin {"idle", "destroy"}, Goto(c, pc),
         queue' = [queue EXCEPT ![Of(c)] = destroy_event_queue],
         UNCHANGED <<globalVars, event_queue_list, request, stop, created, fault,
                     popped>>
  PROVE  SseInv'
  <1>1. Of(c) \in Session /\ queue \in [Session -> Queue] /\ ConnType
    BY DEF SseInv, SessionType, ListInv, ConnsHaveQueues, Of
  <1>2. /\ queue' \in [Session -> Queue]
        /\ queue'[Of(c)] = destroy_event_queue
        /\ \A s \in Session : s # Of(c) => queue'[s] = queue[s]
    BY <1>1, NewQueues
  <1>3. /\ ConnType' /\ conn'[c].at = pc /\ conn'[c].session = conn[c].session
        /\ \A d \in Conn : d # c => conn'[d] = conn[d]
    BY <1>1, GotoFacts
  <1>4. /\ GlobalType' /\ GlobalInv' /\ RestType' /\ RequestType'
        /\ RequestsHaveQueues' /\ SessionType' /\ HistoryType'
    BY <1>2 DEF SseInv, GlobalType, GlobalInv, RestType, RequestType,
           ListInv, RequestsHaveQueues, SessionType, HistoryType, globalVars
  <1>5. Listed' = Listed /\ Listed \subseteq Session
    BY ListedAreSessions DEF SseInv, Listed
  <1>6. ListedAreLive'
    <2>1. \A s \in Listed : queue'[s] = queue[s]
      BY <1>2, <1>5
    <2> QED
      BY <1>5, <2>1 DEF SseInv, ListInv, ListedAreLive, Live
  <1>7. ExitsAreUnlisted'
    BY <1>2, <1>5 DEF SseInv, ListInv, ExitsAreUnlisted
  <1>8. ConnsHaveQueues'
    <2> SUFFICES ASSUME NEW d \in Conn, conn'[d].at # "idle"
                 PROVE  /\ conn'[d].session \in Session
                        /\ queue'[conn'[d].session].memory # "none"
      BY DEF ConnsHaveQueues
    <2>1. /\ conn'[d].session = conn[d].session /\ conn[d].session \in Session
          /\ queue[conn[d].session].memory # "none"
      BY <1>3 DEF SseInv, ListInv, ConnsHaveQueues
    <2> QED
      BY <1>2, <2>1, NewQueues
  <1>9. DestroyedAreUnlisted'
    BY <1>3, <1>5 DEF SseInv, ListInv, DestroyedAreUnlisted
  <1> QED
    BY <1>3, <1>4, <1>6, <1>7, <1>8, <1>9 DEF SseInv, ListInv

LEMMA DestroyKeeps ==
  ASSUME SseInv, NEW c \in Conn, ReturnNull(c) \/ Destroy(c)
  PROVE  SseInv'
  <1>1. conn[c].at # "idle"
    BY DEF ReturnNull, Destroy, At
  <1>2. Of(c) \in Session
    BY <1>1 DEF SseInv, ListInv, ConnsHaveQueues, Of
  <1>3. "free" \in ConnState /\ "done" \in ConnState
    BY DEF ConnState
  <1>4. CASE Destroy(c)
    <2>1. Of(c) \notin Listed
      BY <1>4 DEF SseInv, ListInv, DestroyedAreUnlisted, Destroy, At, Of
    <2> QED
      BY <1>1, <1>3, <1>4, <2>1, GoneKeeps DEF Destroy
  <1>5. CASE ReturnNull(c) /\ queue[Of(c)].exit
    <2>1. Of(c) \notin Listed
      BY <1>2, <1>5 DEF SseInv, ListInv, ExitsAreUnlisted
    <2>2. /\ queue' = [queue EXCEPT ![Of(c)] = destroy_event_queue]
          /\ Goto(c, "free")
          /\ UNCHANGED <<globalVars, event_queue_list, request, stop, created,
                         fault, popped>>
      BY <1>5 DEF ReturnNull
    <2> QED
      BY <1>1, <1>3, <2>1, <2>2, GoneKeeps
  <1>6. CASE ReturnNull(c) /\ ~queue[Of(c)].exit
    <2>1. /\ queue' = queue /\ Goto(c, "free")
          /\ UNCHANGED <<globalVars, event_queue_list, request, stop, created,
                         fault, popped>>
      BY <1>6 DEF ReturnNull
    <2>2. HistoryType'
      BY <2>1 DEF SseInv, HistoryType
    <2> QED
      BY <1>1, <1>3, <2>1, <2>2, ThreadKeeps
  <1> QED
    BY <1>4, <1>5, <1>6

\* DL_DELETE takes an element out of a list that holds it once.
Distinct(l) == \A i, j \in 1..Len(l) : i # j => l[i] # l[j]

Without(l, s, k) ==
  /\ \A i \in 1..Len(k) : k[i] # s
  /\ \A i \in 1..Len(k) : \E j \in 1..Len(l) : k[i] = l[j]
  /\ Distinct(k)

LEMMA DL_DELETE_Facts ==
  ASSUME NEW S, NEW l \in Seq(S), NEW s \in S,
         \E i \in 1..Len(l) : l[i] = s, Distinct(l)
  PROVE  DL_DELETE(l, s) \in Seq(S) /\ Without(l, s, DL_DELETE(l, s))
  <1> DEFINE n == CHOOSE i \in 1..Len(l) : l[i] = s
             m == Len(l) - 1
             p(i) == IF i < n THEN i ELSE i + 1
             k == [i \in 1..m |-> IF i < n THEN l[i] ELSE l[i + 1]]
  <1>1. n \in 1..Len(l) /\ l[n] = s
    OBVIOUS
  <1> HIDE DEF n
  <1>2. Len(l) \in Nat /\ \A i \in 1..Len(l) : l[i] \in S
    OBVIOUS
  <1>0. \A i, j \in 1..Len(l) : i # j => l[i] # l[j]
    BY DEF Distinct
  <1>3. m \in Nat /\ n \in Nat
    BY <1>1, <1>2
  <1>4. /\ \A i \in 1..m : p(i) \in 1..Len(l) /\ p(i) # n
        /\ \A i, j \in 1..m : i # j => p(i) # p(j)
    BY <1>1, <1>2
  <1>5. \A i \in 1..m : k[i] = l[p(i)]
    OBVIOUS
  <1> HIDE DEF p
  <1>6. k \in [1..m -> S]
    BY <1>2, <1>4, <1>5
  <1>7. k \in Seq(S) /\ Len(k) = m
    <2> HIDE DEF k, m
    <2> QED
      BY ONLY <1>3, <1>6
  <1>8. DL_DELETE(l, s) = k
    BY DEF DL_DELETE, n
  <1> HIDE DEF k, m
  <1>9. \A i \in 1..m : k[i] # s
    BY <1>0, <1>1, <1>4, <1>5
  <1>10. \A i, j \in 1..m : i # j => k[i] # k[j]
    BY <1>0, <1>4, <1>5
  <1>11. \A i \in 1..m : \E j \in 1..Len(l) : k[i] = l[j]
    BY <1>4, <1>5
  <1> QED
    BY Zenon, <1>7, <1>8, <1>9, <1>10, <1>11 DEF Without, Distinct

LEMMA UnlinkKeeps ==
  ASSUME SseInv, NEW c \in Conn, Unlink(c)
  PROVE  SseInv'
  <1> DEFINE l == event_queue_list
             s == Of(c)
  <1>1. /\ conn[c].at = "unlink" /\ Goto(c, "destroy")
        /\ l' = IF s \in Listed THEN DL_DELETE(l, s) ELSE l
        /\ UNCHANGED <<globalVars, queue, request, stop, created, fault, popped>>
    BY DEF Unlink, At
  <1>2. s \in Session /\ ConnType /\ l \in Seq(Session)
    BY <1>1 DEF SseInv, SessionType, ListInv, ConnsHaveQueues, Of
  <1>3. l' \in Seq(Session) /\ Without(l, s, l')
    <2>1. Distinct(l)
      BY DEF SseInv, ListInv, ListedAreLive, Distinct
    <2>2. Listed = {l[i] : i \in 1..Len(l)}
      BY DEF Listed
    <2> HIDE DEF l, s
    <2>3. CASE s \in Listed
      <3>1. l' = DL_DELETE(l, s) /\ \E i \in 1..Len(l) : l[i] = s
        BY <1>1, <2>2, <2>3
      <3> QED
        BY <1>2, <2>1, <3>1, DL_DELETE_Facts
    <2>4. CASE s \notin Listed
      BY <1>1, <1>2, <2>1, <2>2, <2>4 DEF Without
    <2> QED
      BY <2>3, <2>4
  <1>4. Listed' \subseteq Listed /\ s \notin Listed'
    BY <1>3 DEF Listed, Without
  <1>5. "destroy" \in ConnState
    BY DEF ConnState
  <1>6. /\ ConnType' /\ conn'[c].at = "destroy"
        /\ conn'[c].session = conn[c].session
        /\ \A d \in Conn : d # c => conn'[d] = conn[d]
    BY <1>1, <1>2, <1>5, GotoFacts
  <1>7. /\ GlobalType' /\ GlobalInv' /\ RestType' /\ RequestType'
        /\ RequestsHaveQueues' /\ SessionType' /\ HistoryType'
    BY <1>1, <1>3 DEF SseInv, GlobalType, GlobalInv, RestType, RequestType,
           ListInv, RequestsHaveQueues, SessionType, HistoryType, globalVars
  <1>8. ListedAreLive'
    BY <1>1, <1>3, <1>4
       DEF SseInv, ListInv, ListedAreLive, Live, Without, Distinct
  <1>9. ExitsAreUnlisted'
    BY <1>1, <1>4 DEF SseInv, ListInv, ExitsAreUnlisted
  <1>10. ConnsHaveQueues'
    BY <1>1, <1>6 DEF SseInv, ListInv, ConnsHaveQueues
  <1>11. DestroyedAreUnlisted'
    BY <1>4, <1>6 DEF SseInv, ListInv, DestroyedAreUnlisted, Of
  <1> QED
    BY <1>6, <1>7, <1>8, <1>9, <1>10, <1>11 DEF SseInv, ListInv

-----------------------------------------------------------------------------
(* HPD_stop.                                                               *)

LEMMA StopSessionsKeeps ==
  ASSUME SseInv, StopSessions
  PROVE  SseInv'
  <1>1. /\ stop' = "global" /\ event_queue_list' = <<>>
        /\ queue' = [s \in Session |->
                       IF s \in Listed THEN [queue[s] EXCEPT !.exit = TRUE]
                       ELSE queue[s]]
        /\ \E S : conn' = Woken(S)
        /\ UNCHANGED <<globalVars, request, created, fault, popped>>
    BY Zenon DEF StopSessions
  <1>2. queue \in [Session -> Queue]
    BY DEF SseInv, SessionType
  <1>3. ASSUME NEW s \in Session
        PROVE  queue'[s] \in Queue /\ queue'[s].memory = queue[s].memory
    <2> DEFINE q == queue[s]
               r == [q EXCEPT !.exit = TRUE]
    <2>1. q \in Queue /\ queue'[s] \in {q, r}
      BY <1>1, <1>2
    <2> HIDE DEF q
    <2>2. r \in Queue /\ r.memory = q.memory
      BY <2>1, FieldsOfQueue
    <2> HIDE DEF r
    <2> QED
      BY <2>1, <2>2 DEF q
  <1>4. SessionType'
    <2>1. <<>> \in Seq(Session)
      OBVIOUS
    <2> QED
      BY <1>1, <1>3, <2>1 DEF SessionType
  <1>5. Listed' = {}
    BY <1>1 DEF Listed
  <1>6. ConnType' /\ \A c \in Conn : Steady(c)
    BY <1>1, WokenIsSteady
  <1>7. /\ GlobalType' /\ GlobalInv' /\ RestType' /\ RequestType'
        /\ RequestsHaveQueues' /\ HistoryType'
    BY <1>1 DEF SseInv, GlobalType, GlobalInv, RestType, RequestType,
           ListInv, RequestsHaveQueues, HistoryType, globalVars
  <1>8. ConnsHaveQueues'
    <2> SUFFICES ASSUME NEW c \in Conn, conn'[c].at # "idle"
                 PROVE  /\ conn'[c].session \in Session
                        /\ queue'[conn'[c].session].memory # "none"
      BY DEF ConnsHaveQueues
    <2>1. CASE conn'[c].session \in Listed
      BY <1>3, <2>1, ListedAreSessions
         DEF SseInv, ListInv, ListedAreLive, Live
    <2>2. CASE conn'[c].session = conn[c].session /\ conn[c].at # "idle"
      BY <1>3, <2>2 DEF SseInv, ListInv, ConnsHaveQueues
    <2> QED
      BY <1>6, <2>1, <2>2 DEF Steady
  <1>9. ListedAreLive' /\ ExitsAreUnlisted' /\ DestroyedAreUnlisted'
    <2>1. Len(event_queue_list') = 0
      BY <1>1
    <2> QED
      BY <1>5, <2>1 DEF ListedAreLive, ExitsAreUnlisted, DestroyedAreUnlisted
  <1> QED
    BY <1>4, <1>6, <1>7, <1>8, <1>9 DEF SseInv, ListInv

-----------------------------------------------------------------------------
(* The invariant.                                                          *)

LEMMA SseInit == Init => SseInv
  <1> SUFFICES ASSUME Init PROVE SseInv
    OBVIOUS
  <1>1. global_event_queue \in Queue /\ global_event_queue.memory = "live"
        /\ global_event_queue.send_log_events
    <2> DEFINE q == create_event_queue
               r == [q EXCEPT !.send_log_events = TRUE]
    <2>1. q \in Queue /\ q.memory = "live"
      BY NewQueues
    <2> HIDE DEF q
    <2>2. r \in Queue /\ r.memory = q.memory /\ r.send_log_events
      BY <2>1 DEF Queue
    <2> QED
      BY <2>1, <2>2 DEF Init, q
  <1>2. GlobalType /\ GlobalInv
    BY <1>1, ServerSentEventsAssumption DEF Init, GlobalType, GlobalInv
  <1>3. SessionType
    BY NewQueues DEF Init, SessionType
  <1>4. ConnType
    BY DEF Init, ConnType, ConnRecords, ConnState
  <1>5. RequestType
    BY DEF Init, RequestType, NoRequest
  <1>6. HistoryType
    <2>1. <<>> \in Seq(Entry)
      OBVIOUS
    <2> QED
      BY <2>1 DEF Init, HistoryType
  <1>7. RestType
    BY EventQueueAssumption DEF Init, RestType
  <1>8. Listed = {}
    BY DEF Init, Listed
  <1>9. ListInv
    <2>1. Len(event_queue_list) = 0
      BY DEF Init
    <2>2. \A c \in Conn : conn[c].at = "idle"
      BY DEF Init
    <2>3. \A r \in Request : request[r].at = "idle"
      BY DEF Init, NoRequest
    <2> QED
      BY <1>8, <2>1, <2>2, <2>3
         DEF ListInv, ConnsHaveQueues, RequestsHaveQueues, ExitsAreUnlisted,
             DestroyedAreUnlisted, ListedAreLive
  <1> QED
    BY <1>2, <1>3, <1>4, <1>5, <1>6, <1>7, <1>9 DEF SseInv

\* What ends a behaviour.
LEMMA FaultsKeep ==
  ASSUME SseInv,
         \/ \E id \in Service \cup {Log} : PublishAfterStop(id)
         \/ ConsumerPopsNothing \/ UseAfterFree
         \/ \E c \in Conn : LookupFails(c) \/ PopNothing(c) \/ UnlinkAgain(c)
  PROVE  SseInv'
  <1>1. \E f \in {"none", "null_id", "empty_pop", "freed", "unlisted"} : Fault(f)
    BY DEF PublishAfterStop, ConsumerPopsNothing, UseAfterFree, LookupFails,
           PopNothing, UnlinkAgain
  <1> QED
    BY <1>1, FaultKeeps

LEMMA SseStep == SseInv /\ [Next]_vars => SseInv'
  <1> SUFFICES ASSUME SseInv, [Next]_vars PROVE SseInv'
    OBVIOUS
  <1>1. CASE UNCHANGED vars
    <2>1. GlobalType' /\ GlobalInv' /\ RestType' /\ HistoryType'
      BY <1>1 DEF SseInv, GlobalType, GlobalInv, RestType, HistoryType, vars,
                  globalVars, threadVars
    <2> QED
      BY <1>1, <2>1, GlobalStepKeeps DEF vars, threadVars
  <1>2. CASE \E id \in Service \cup {Log} : Publish(id) \/ PublishAfterStop(id)
    BY <1>2, PublishKeeps, FaultsKeep
  <1>3. CASE \E v \in Service, a \in {"available", "unavailable"} :
               notify_service_availability(v, a)
    BY <1>3, NotifyKeeps
  <1>4. CASE Consumer \/ ConsumerSpurious
    BY <1>4, ConsumerKeeps, ConsumerCopiesKeeps, FaultsKeep DEF Consumer
  <1>5. CASE \E r \in Request, s \in Session, x \in Service \cup {Log} :
               SubscribeNew(r, s, x) \/ SubscribeFinds(r, s, x)
    BY <1>5, SubscribeNewKeeps, RequestKeeps
  <1>6. CASE \E r \in Request : SubscribeToggles(r)
    BY <1>6, RequestKeeps
  <1>7. CASE \E c \in Conn, s \in Session : Open(c, s)
    BY <1>7, OpenKeeps
  <1>8. CASE \E c \in Conn : Progress(c) \/ Closed(c) \/ WakeSpuriously(c)
    BY <1>8, TakeOverKeeps, ProgressKeeps, DestroyKeeps, UnlinkKeeps, FaultsKeep
       DEF Progress
  <1>9. CASE UseAfterFree
    BY <1>9, FaultsKeep
  <1>10. CASE Stopping
    BY <1>10, StopSessionsKeeps, StopGlobalKeeps DEF Stopping
  <1> QED
    BY <1>1, <1>2, <1>3, <1>4, <1>5, <1>6, <1>7, <1>8, <1>9, <1>10 DEF Next

LEMMA SseAlways == Spec => []SseInv
  BY SseInit, SseStep, PTL DEF Spec

\* The list of event queues names no queue that has been destroyed and none
\* twice, so that what the global event thread and get_queue reach through it
\* is allocated, and every variable of the event queues has its type.
THEOREM QueuesCorrect == Spec => []QueuesAreSound
  BY SseInvIsSound, SseAlways, PTL

\* consume_global_event_queue never sleeps with an event in its queue: the
\* signal of queue_event reaches it, whoever the producers are.
THEOREM ConsumerWakes == Spec => []ConsumerSleepsOnlyWhenEmpty
  BY SseInvIsSound, SseAlways, PTL

-----------------------------------------------------------------------------
(* What a client sees of a step: the events of a queue, its connection, and  *)
(* what was taken.                                                           *)

Same(s) ==
  /\ queue'[s].events = queue[s].events
  /\ queue'[s].connection_id = queue[s].connection_id
  /\ popped'[s] = popped[s]

GivesUp(t) ==
  /\ queue'[t].events = <<>> /\ queue'[t].connection_id = NULL
  /\ popped'[t] = popped[t]
  /\ \A s \in Session : s # t => Same(s)

TakesOver(c, t) ==
  /\ conn[c].at = "found"
  /\ queue'[t].events = queue[t].events /\ queue'[t].connection_id = c
  /\ popped'[t] = popped[t]
  /\ \A s \in Session : s # t => Same(s)

Takes(c, t) ==
  /\ conn'[c].at = "write"
  /\ queue[t].events # <<>> /\ queue[t].connection_id = c
  /\ queue'[t].events = Tail(queue[t].events)
  /\ queue'[t].connection_id = queue[t].connection_id
  /\ popped' = [popped EXCEPT ![t] =
                  Append(@, [conn |-> c, event |-> Head(queue[t].events)])]
  /\ \A s \in Session : s # t => Same(s)

Adds(e) ==
  \A s \in Session :
    /\ queue'[s].events \in {queue[s].events, Append(queue[s].events, e)}
    /\ queue'[s].connection_id = queue[s].connection_id
    /\ popped'[s] = popped[s]

\* A connection is new only once.
Fresh(c) == conn[c].at \in {"idle", "found"}

StaysUsed == \A c \in Conn : Fresh(c)' => Fresh(c)

\* The steps that have nothing to do with the global queue.
SessionStep ==
  \/ \E r \in Request, s \in Session, x \in Service \cup {Log} :
       SubscribeNew(r, s, x) \/ SubscribeFinds(r, s, x)
  \/ \E r \in Request : SubscribeToggles(r)
  \/ \E c \in Conn, s \in Session : Open(c, s)
  \/ \E c \in Conn :
       \/ TakeOver(c) \/ Respond(c) \/ Lookup(c) \/ Wait(c) \/ Pop(c)
       \/ DequeueNull(c) \/ ReturnNull(c) \/ Write(c) \/ FreeLookup(c)
       \/ StartTimeout(c) \/ Expire(c) \/ EndTimeout(c) \/ Unlink(c)
       \/ Destroy(c) \/ Closed(c) \/ WakeSpuriously(c)
  \/ StopSessions

Effects ==
  \/ \A s \in Session : Same(s)
  \/ \E t \in Session : GivesUp(t)
  \/ \E c \in Conn, t \in Session : TakesOver(c, t) \/ Takes(c, t)

LEMMA SetsQueue ==
  ASSUME SessionType, NEW t \in Session, NEW r,
         queue' = [queue EXCEPT ![t] = r], popped' = popped,
         r.events = queue[t].events, r.connection_id = queue[t].connection_id
  PROVE  \A s \in Session : Same(s)
  BY DEF SessionType, Same

LEMMA DestroysQueue ==
  ASSUME SessionType, NEW t \in Session,
         NEW r, r.events = <<>>, r.connection_id = NULL,
         queue' = [queue EXCEPT ![t] = r], popped' = popped
  PROVE  GivesUp(t)
  BY DEF SessionType, GivesUp, Same

LEMMA GotoStaysUsed ==
  ASSUME SseInv, NEW c \in Conn, NEW pc \in ConnState \ {"idle", "found"},
         Goto(c, pc)
  PROVE  StaysUsed
  <1>1. ConnType
    BY DEF SseInv
  <1> QED
    BY <1>1, GotoFacts DEF StaysUsed, Fresh

LEMMA WokenStaysUsed ==
  ASSUME SseInv, NEW S, conn' = Woken(S)
  PROVE  StaysUsed
  <1>1. ConnType
    BY DEF SseInv
  <1> QED
    BY <1>1, WokenFacts DEF StaysUsed, Fresh

LEMMA SubscribeEffects ==
  ASSUME SseInv, NEW r \in Request,
         \/ \E s \in Session, x \in Service \cup {Log} :
              SubscribeNew(r, s, x) \/ SubscribeFinds(r, s, x)
         \/ SubscribeToggles(r)
  PROVE  Effects /\ StaysUsed
  <1>1. conn' = conn
    BY DEF SubscribeNew, SubscribeFinds, SubscribeToggles
  <1>2. StaysUsed
    BY <1>1 DEF StaysUsed, Fresh
  <1>3. SessionType
    BY DEF SseInv
  <1>4. CASE \E s \in Session, x \in Service \cup {Log} : SubscribeNew(r, s, x)
    <2>1. PICK s \in Session, x \in Service \cup {Log} : SubscribeNew(r, s, x)
      BY <1>4
    <2>2. queue' = [queue EXCEPT ![s] = create_event_queue] /\ popped' = popped
      BY <2>1 DEF SubscribeNew
    <2>3. GivesUp(s)
      BY <1>3, <2>2, DestroysQueue, NewQueues
    <2> QED
      BY <1>2, <2>3 DEF Effects
  <1>5. CASE \E s \in Session, x \in Service \cup {Log} : SubscribeFinds(r, s, x)
    <2>1. queue' = queue /\ popped' = popped
      BY <1>5 DEF SubscribeFinds, sessionVars
    <2> QED
      BY <1>2, <2>1 DEF Effects, Same
  <1>6. CASE SubscribeToggles(r)
    <2> DEFINE s == request[r].session
               q == Toggled(queue[s], request[r].what)
    <2>1. /\ request[r].at = "found" /\ popped' = popped
          /\ queue' = [queue EXCEPT ![s] = q]
      BY <1>6 DEF SubscribeToggles
    <2>2. s \in Session /\ request[r].what \in Service \cup {Log}
      BY <2>1 DEF SseInv, ListInv, RequestsHaveQueues
    <2>3. queue[s] \in Queue
      BY <2>2 DEF SseInv, SessionType
    <2>4. SameQueue(queue[s], q) /\ q.events = queue[s].events
      BY <2>2, <2>3, ToggledQueue
    <2> HIDE DEF q, s
    <2>5. \A t \in Session : Same(t)
      BY <1>3, <2>1, <2>2, <2>4, SetsQueue DEF SameQueue
    <2> QED
      BY <1>2, <2>5 DEF Effects
  <1> QED
    BY <1>4, <1>5, <1>6

LEMMA TakeOverEffects ==
  ASSUME SseInv, NEW c \in Conn, TakeOver(c)
  PROVE  Effects /\ StaysUsed
  <1> DEFINE s == Of(c)
             r == [queue[s] EXCEPT !.connection_id = c]
             w == IF /\ queue[s].is_waiting = "WAIT_FOR_TIMEOUT"
                     /\ queue[s].connection_id # NULL
                    THEN Woken({s}) ELSE conn
  <1>1. /\ queue' = [queue EXCEPT ![s] = r] /\ popped' = popped
        /\ conn[c].at = "found" /\ conn' = [w EXCEPT ![c].at = "set"]
    BY DEF TakeOver, At
  <1>2. s \in Session /\ queue \in [Session -> Queue] /\ ConnType
    BY <1>1 DEF SseInv, SessionType, ListInv, ConnsHaveQueues, Of
  <1>3. r.events = queue[s].events /\ r.connection_id = c
    <2> DEFINE q == queue[s]
    <2>1. q \in Queue
      BY <1>2
    <2> HIDE DEF q
    <2>2. /\ [q EXCEPT !.connection_id = c].events = q.events
          /\ [q EXCEPT !.connection_id = c].connection_id = c
      BY <2>1, FieldsOfQueue
    <2> QED
      BY <2>2 DEF q
  <1> HIDE DEF r, s
  <1>4. TakesOver(c, s)
    BY <1>1, <1>2, <1>3 DEF TakesOver, Same
  <1>5. \A d \in Conn :
          \/ w[d].at = conn[d].at
          \/ conn[d].at = "waiting" /\ w[d].at = "woken"
          \/ conn[d].at = "timing" /\ w[d].at = "signalled"
    BY <1>2, WokenFacts
  <1>6. \A d \in Conn : d # c => conn'[d] = w[d]
    BY <1>1
  <1> HIDE DEF w
  <1>7. StaysUsed
    BY <1>1, <1>5, <1>6 DEF StaysUsed, Fresh
  <1> QED
    BY <1>2, <1>4, <1>7 DEF Effects

LEMMA PopEffects ==
  ASSUME SseInv, NEW c \in Conn, Pop(c) \/ DequeueNull(c)
  PROVE  Effects /\ StaysUsed
  <1> DEFINE s == Of(c)
             q == queue[s]
             a == AfterWait(c)
  <1>1. conn[c].at # "idle" /\ Dequeues(c)
    BY DEF Pop, DequeueNull, Dequeues, At
  <1>2. s \in Session /\ q \in Queue /\ SessionType
    BY <1>1 DEF SseInv, SessionType, ListInv, ConnsHaveQueues, Of
  <1>3. a \in Queue /\ SameQueue(q, a) /\ a.events = q.events
    <2> HIDE DEF q
    <2>1. CASE conn[c].at = "woken"
      <3>1. a = [q EXCEPT !.is_waiting = "NO"]
        BY <2>1 DEF AfterWait, q
      <3> HIDE DEF a
      <3> QED
        BY <1>2, <3>1, FieldsOfQueue
    <2>2. CASE conn[c].at # "woken"
      BY <1>2, <2>2 DEF AfterWait, q, SameQueue
    <2> QED
      BY <2>1, <2>2
  <1>4. "write" \in ConnState \ {"idle", "found"}
        /\ "null" \in ConnState \ {"idle", "found"}
    BY DEF ConnState
  <1>5. CASE Pop(c)
    <2> DEFINE e == [conn |-> c, event |-> Head(q.events)]
    <2>1. /\ Pops(q, c) /\ q.events # <<>>
          /\ queue' = [queue EXCEPT ![s] = dequeued(a)]
          /\ popped' = [popped EXCEPT ![s] = Append(@, e)]
          /\ Goto(c, "write")
      BY <1>5 DEF Pop
    <2>2. q.connection_id = c
      BY <2>1, EventQueueAssumption DEF Pops, TakenOver
    <2>3. StaysUsed
      BY <1>4, <2>1, GotoStaysUsed
    <2>4. conn'[c].at = "write"
      BY <1>4, <2>1, GotoFacts DEF SseInv
    <2> HIDE DEF e, a
    <2>5. /\ dequeued(a).events = Tail(q.events)
          /\ dequeued(a).connection_id = q.connection_id
      BY <1>3, <2>1, Dequeued DEF SameQueue
    <2>6. /\ queue'[s] = dequeued(a)
          /\ \A t \in Session : t # s => queue'[t] = queue[t]
      BY <1>2, <2>1 DEF SessionType
    <2>7. \A t \in Session : t # s => Same(t)
      <3> HIDE DEF s, q
      <3>1. \A t \in Session : t # s => popped'[t] = popped[t]
        BY <2>1 DEF SseInv, HistoryType
      <3> QED
        BY <2>6, <3>1 DEF Same
    <2>8. Takes(c, s)
      BY <2>1, <2>2, <2>4, <2>5, <2>6, <2>7 DEF Takes, e
    <2> QED
      BY <1>2, <2>3, <2>8 DEF Effects
  <1>6. CASE DequeueNull(c)
    <2>1. /\ queue' = [queue EXCEPT ![s] = a] /\ Goto(c, "null")
          /\ popped' = popped
      BY <1>6 DEF DequeueNull
    <2> HIDE DEF a
    <2>2. \A t \in Session : Same(t)
      BY <1>2, <1>3, <2>1, SetsQueue DEF SameQueue
    <2>3. StaysUsed
      BY <1>4, <2>1, GotoStaysUsed
    <2> QED
      BY <2>2, <2>3 DEF Effects
  <1> QED
    BY <1>5, <1>6

LEMMA ThreadEffects ==
  ASSUME SseInv, NEW c \in Conn,
         \/ Respond(c) \/ Lookup(c) \/ Closed(c) \/ Wait(c) \/ WakeSpuriously(c)
         \/ ReturnNull(c) \/ Write(c) \/ FreeLookup(c) \/ StartTimeout(c)
         \/ Expire(c) \/ EndTimeout(c) \/ Unlink(c) \/ Destroy(c)
  PROVE  Effects /\ StaysUsed
  <1> DEFINE s == Of(c)
             q == queue[s]
  <1>1. conn[c].at # "idle" /\ popped' = popped
    BY DEF Respond, Lookup, Closed, Wait, WakeSpuriously, ReturnNull, Write,
           FreeLookup, StartTimeout, Expire, EndTimeout, Unlink, Destroy, At
  <1>2. s \in Session /\ q \in Queue /\ SessionType
    BY <1>1 DEF SseInv, SessionType, ListInv, ConnsHaveQueues, Of
  <1>3. {"callback", "dequeue", "waiting", "woken", "null", "write", "free",
         "grace", "timing", "expired", "signalled", "unlink", "destroy", "done"}
        \subseteq ConnState \ {"idle", "found"}
    BY DEF ConnState
  <1>4. \E pc \in {"callback", "dequeue", "waiting", "woken", "null", "write",
                   "free", "grace", "timing", "expired", "signalled", "unlink",
                   "destroy", "done"} : Goto(c, pc)
    BY DEF Respond, Lookup, Closed, Wait, WakeSpuriously, ReturnNull, Write,
           FreeLookup, StartTimeout, Expire, EndTimeout, Unlink, Destroy
  <1>5. StaysUsed
    BY <1>3, <1>4, GotoStaysUsed
  <1>6. \/ queue' = queue
        \/ queue' = [queue EXCEPT ![s] = destroy_event_queue]
        \/ \E w \in {"NO", "YES", "WAIT_FOR_TIMEOUT"} :
             queue' = [queue EXCEPT ![s] = [q EXCEPT !.is_waiting = w]]
    BY DEF Respond, Lookup, Closed, Wait, WakeSpuriously, ReturnNull, Write,
           FreeLookup, StartTimeout, Expire, EndTimeout, Unlink, Destroy,
           sessionVars
  <1>7. CASE queue' = queue
    BY <1>1, <1>5, <1>7 DEF Effects, Same
  <1>8. CASE queue' = [queue EXCEPT ![s] = destroy_event_queue]
    <2>1. GivesUp(s)
      BY <1>1, <1>2, <1>8, DestroysQueue, NewQueues
    <2> QED
      BY <1>2, <1>5, <2>1 DEF Effects
  <1>9. ASSUME NEW w \in {"NO", "YES", "WAIT_FOR_TIMEOUT"},
               queue' = [queue EXCEPT ![s] = [q EXCEPT !.is_waiting = w]]
        PROVE  Effects /\ StaysUsed
    <2> DEFINE r == [q EXCEPT !.is_waiting = w]
    <2> HIDE DEF q
    <2>1. SameQueue(q, r) /\ r.events = q.events
      BY <1>2, FieldsOfQueue
    <2>2. queue' = [queue EXCEPT ![s] = r]
      BY <1>9
    <2> HIDE DEF r, s
    <2>3. \A t \in Session : Same(t)
      BY <1>1, <1>2, <2>1, <2>2, SetsQueue DEF SameQueue, q
    <2> QED
      BY <1>5, <2>3 DEF Effects
  <1> QED
    BY <1>6, <1>7, <1>8, <1>9

LEMMA SessionStepEffects ==
  ASSUME SseInv, SessionStep
  PROVE  Effects /\ StaysUsed /\ UNCHANGED <<globalVars, created>>
  <1>1. UNCHANGED <<globalVars, created>>
    BY DEF SessionStep, SubscribeNew, SubscribeFinds, SubscribeToggles, Open,
           TakeOver, Respond, Lookup, Wait, Pop, DequeueNull, ReturnNull, Write,
           FreeLookup, StartTimeout, Expire, EndTimeout, Unlink, Destroy,
           Closed, WakeSpuriously, StopSessions
  <1>2. CASE \E r \in Request :
               \/ \E s \in Session, x \in Service \cup {Log} :
                    SubscribeNew(r, s, x) \/ SubscribeFinds(r, s, x)
               \/ SubscribeToggles(r)
    BY <1>1, <1>2, SubscribeEffects
  <1>3. CASE \E c \in Conn, s \in Session : Open(c, s)
    <2>1. PICK c \in Conn, s \in Session : Open(c, s)
      BY <1>3
    <2>2. /\ queue' = queue /\ popped' = popped /\ conn[c].at = "idle"
          /\ \A d \in Conn : d # c => conn'[d] = conn[d]
      BY <2>1 DEF Open, At, sessionVars, SseInv, ConnType
    <2> QED
      BY <1>1, <2>2 DEF Effects, Same, StaysUsed, Fresh
  <1>4. CASE \E c \in Conn : TakeOver(c) \/ Pop(c) \/ DequeueNull(c)
    BY <1>1, <1>4, TakeOverEffects, PopEffects
  <1>5. CASE \E c \in Conn :
               \/ Respond(c) \/ Lookup(c) \/ Closed(c) \/ Wait(c)
               \/ WakeSpuriously(c) \/ ReturnNull(c) \/ Write(c)
               \/ FreeLookup(c) \/ StartTimeout(c) \/ Expire(c) \/ EndTimeout(c)
               \/ Unlink(c) \/ Destroy(c)
    BY <1>1, <1>5, ThreadEffects
  <1>6. CASE StopSessions
    <2>1. /\ queue' = [s \in Session |->
                         IF s \in Listed THEN [queue[s] EXCEPT !.exit = TRUE]
                         ELSE queue[s]]
          /\ popped' = popped /\ \E S : conn' = Woken(S)
      BY <1>6, Zenon DEF StopSessions
    <2>2. ASSUME NEW s \in Session
          PROVE  Same(s)
      <3> DEFINE q == queue[s]
                 r == [q EXCEPT !.exit = TRUE]
      <3>1. q \in Queue /\ queue'[s] \in {q, r}
        BY <2>1 DEF SseInv, SessionType
      <3> HIDE DEF q
      <3>2. r.events = q.events /\ r.connection_id = q.connection_id
        BY <3>1, FieldsOfQueue
      <3> HIDE DEF r
      <3> QED
        BY <2>1, <3>1, <3>2 DEF Same, q
    <2>3. StaysUsed
      BY <2>1, WokenStaysUsed
    <2> QED
      BY <1>1, <2>2, <2>3 DEF Effects
  <1> QED
    BY <1>2, <1>3, <1>4, <1>5, <1>6 DEF SessionStep

-----------------------------------------------------------------------------
(* Events that are put into queues.                                        *)

LEMMA QueueEventAdds ==
  ASSUME NEW q \in Queue, NEW e \in Event, NEW g \in BOOLEAN
  PROVE  /\ queue_event(q, e, g).events \in {q.events, Append(q.events, e)}
         /\ queue_event(q, e, g).connection_id = q.connection_id
  BY QueueEvent DEF SameQueue

LEMMA CopiesAdd ==
  ASSUME SseInv, ConsumerCopies
  PROVE  /\ new_event \in Event /\ Adds(new_event) /\ StaysUsed
         /\ consumer = "copy" /\ consumer' = "run"
         /\ UNCHANGED <<global_event_queue, created>>
  <1>1. /\ new_event \in Event /\ popped' = popped
        /\ consumer = "copy" /\ consumer' = "run"
        /\ UNCHANGED <<global_event_queue, created>>
        /\ \E S : conn' = Woken(S)
    BY Zenon DEF SseInv, GlobalType, ConsumerCopies
  <1>2. new_event \in Event
    BY DEF SseInv, GlobalType, ConsumerCopies
  <1>3. ASSUME NEW s \in Session
        PROVE  /\ queue'[s].events
                    \in {queue[s].events, Append(queue[s].events, new_event)}
               /\ queue'[s].connection_id = queue[s].connection_id
    <2> DEFINE q == queue[s]
    <2>1. q \in Queue /\ queue'[s] \in {q, queue_event(q, new_event, FALSE)}
      BY DEF ConsumerCopies, SseInv, SessionType
    <2> HIDE DEF q
    <2>2. /\ queue_event(q, new_event, FALSE).events
               \in {q.events, Append(q.events, new_event)}
          /\ queue_event(q, new_event, FALSE).connection_id = q.connection_id
      BY <1>2, <2>1, QueueEventAdds
    <2> QED
      BY <2>1, <2>2 DEF q
  <1>4. StaysUsed
    BY <1>1, WokenStaysUsed
  <1> QED
    BY <1>1, <1>2, <1>3, <1>4 DEF Adds

LEMMA NotifyAdds ==
  ASSUME SseInv, NEW v \in Service, NEW a \in {"available", "unavailable"},
         notify_service_availability(v, a)
  PROVE  \E e \in Event :
           /\ e.direct /\ Adds(e) /\ StaysUsed
           /\ created' = created + 1 /\ UNCHANGED globalVars
  <1> DEFINE e == [id |-> v, n |-> created + 1, direct |-> TRUE]
             S == {s \in Listed : is_subscribed(queue[s], v)}
  <1>1. /\ queue' = [s \in Session |->
                 IF s \in S
                   THEN queue_event(set_availability(queue[s], v, a), e, FALSE)
                   ELSE queue[s]]
        /\ \E T : conn' = Woken(T)
        /\ created < MaxEvents /\ created' = created + 1
        /\ UNCHANGED globalVars /\ popped' = popped
    BY Zenon DEF notify_service_availability
  <1>2. e \in Event /\ e.direct
    BY <1>1, NewEvent
  <1> HIDE DEF e, S
  <1>3. ASSUME NEW s \in Session
        PROVE  /\ queue'[s].events
                    \in {queue[s].events, Append(queue[s].events, e)}
               /\ queue'[s].connection_id = queue[s].connection_id
    <2> DEFINE q == queue[s]
               r == set_availability(q, v, a)
    <2>1. q \in Queue /\ queue'[s] \in {q, queue_event(r, e, FALSE)}
      BY <1>1 DEF SseInv, SessionType
    <2> HIDE DEF q
    <2>2. /\ r \in Queue /\ r.events = q.events
          /\ r.connection_id = q.connection_id
      BY <2>1, AvailableQueue DEF SameQueue
    <2> HIDE DEF r
    <2>3. /\ queue_event(r, e, FALSE).events \in {r.events, Append(r.events, e)}
          /\ queue_event(r, e, FALSE).connection_id = r.connection_id
      BY <1>2, <2>2, QueueEventAdds
    <2> QED
      BY <2>1, <2>2, <2>3 DEF q
  <1>4. StaysUsed
    BY <1>1, WokenStaysUsed
  <1> QED
    BY <1>1, <1>2, <1>3, <1>4 DEF Adds

\* The steps on the global queue, and those that end a behaviour.
GlobalStep ==
  \/ \E id \in Service \cup {Log} : Publish(id) \/ PublishAfterStop(id)
  \/ ConsumerWaits \/ ConsumerPops \/ ConsumerPopsNothing \/ ConsumerExits
  \/ ConsumerSpurious \/ UseAfterFree \/ StopGlobal \/ StopJoined
  \/ \E c \in Conn : LookupFails(c) \/ PopNothing(c) \/ UnlinkAgain(c)
  \/ UNCHANGED vars

LEMMA StepKinds ==
  ASSUME [Next]_vars
  PROVE  \/ GlobalStep \/ SessionStep \/ ConsumerCopies
         \/ \E v \in Service, a \in {"available", "unavailable"} :
              notify_service_availability(v, a)
  BY Zenon DEF Next, GlobalStep, SessionStep, Consumer, Progress, Stopping

LEMMA GlobalStepEffects ==
  ASSUME GlobalStep
  PROVE  (\A s \in Session : Same(s)) /\ StaysUsed
  <1>1. UNCHANGED <<queue, popped, conn>>
    BY DEF GlobalStep, Publish, PublishAfterStop, ConsumerWaits, ConsumerPops,
           ConsumerPopsNothing, ConsumerExits, ConsumerSpurious, UseAfterFree,
           StopGlobal, StopJoined, LookupFails, PopNothing, UnlinkAgain, Fault,
           vars, sessionVars, threadVars
  <1> QED
    BY <1>1 DEF Same, StaysUsed, Fresh

LEMMA ClientEffects ==
  ASSUME SseInv, [Next]_vars
  PROVE  StaysUsed /\ (Effects \/ \E e \in Event : Adds(e))
  <1>1. CASE GlobalStep
    BY <1>1, GlobalStepEffects DEF Effects
  <1>2. CASE SessionStep
    BY <1>2, SessionStepEffects
  <1>3. CASE ConsumerCopies
    BY <1>3, CopiesAdd
  <1>4. CASE \E v \in Service, a \in {"available", "unavailable"} :
               notify_service_availability(v, a)
    BY <1>4, NotifyAdds
  <1> QED
    BY <1>1, <1>2, <1>3, <1>4, StepKinds

-----------------------------------------------------------------------------
(* The queues implement EventFeed.                                         *)

\* A connection takes nothing before it has its session's queue.
NewTookNothing ==
  \A c \in Conn : Fresh(c) =>
    \A s \in Session : \A i \in 1..Len(popped[s]) : popped[s][i].conn # c

LEMMA AppendEntry ==
  ASSUME NEW p \in Seq(Entry), NEW x \in Entry
  PROVE  \A i \in 1..Len(Append(p, x)) :
           Append(p, x)[i] = x \/ \E j \in 1..Len(p) : Append(p, x)[i] = p[j]
  OBVIOUS

LEMMA TakenEntry ==
  ASSUME SseInv, NEW c \in Conn, NEW t \in Session, queue[t].events # <<>>
  PROVE  /\ [conn |-> c, event |-> Head(queue[t].events)] \in Entry
         /\ popped[t] \in Seq(Entry)
         /\ queue[t].events \in Seq(Event)
  <1>1. queue[t].events \in Seq(Event)
    BY DEF SseInv, SessionType, Queue
  <1>2. Head(queue[t].events) \in Event
    BY ONLY <1>1, queue[t].events # <<>>
  <1> QED
    BY <1>1, <1>2 DEF Entry, SseInv, HistoryType

LEMMA NewTookNothingStep ==
  ASSUME SseInv, NewTookNothing, [Next]_vars
  PROVE  NewTookNothing'
  <1>1. StaysUsed /\ (Effects \/ \E e \in Event : Adds(e))
    BY ClientEffects
  <1>2. CASE \A s \in Session : popped'[s] = popped[s]
    BY <1>1, <1>2 DEF StaysUsed, NewTookNothing
  <1>3. ASSUME NEW c \in Conn, NEW t \in Session, Takes(c, t)
        PROVE  NewTookNothing'
    <2> DEFINE x == [conn |-> c, event |-> Head(queue[t].events)]
    <2>1. x \in Entry /\ popped[t] \in Seq(Entry) /\ x.conn = c
      BY <1>3, TakenEntry DEF Takes
    <2>2. /\ popped'[t] = Append(popped[t], x)
          /\ \A s \in Session : s # t => popped'[s] = popped[s]
          /\ conn'[c].at = "write"
      BY <1>3 DEF Takes, SseInv, HistoryType
    <2> HIDE DEF x
    <2>3. \A i \in 1..Len(popped'[t]) :
            popped'[t][i] = x \/ \E j \in 1..Len(popped[t]) : popped'[t][i] = popped[t][j]
      BY <2>1, <2>2, AppendEntry
    <2> SUFFICES ASSUME NEW d \in Conn, Fresh(d)', NEW s \in Session,
                        NEW i \in 1..Len(popped'[s])
                 PROVE  popped'[s][i].conn # d
      BY DEF NewTookNothing
    <2>4. Fresh(d) /\ d # c
      BY <1>1, <2>2 DEF StaysUsed, Fresh
    <2> QED
      BY <2>1, <2>2, <2>3, <2>4 DEF NewTookNothing
  <1> QED
    BY <1>1, <1>2, <1>3 DEF Effects, Same, GivesUp, TakesOver, Adds

FeedPending == [s \in Session |-> queue[s].events]

FeedReader == [s \in Session |-> queue[s].connection_id]

LEMMA FeedStep ==
  ASSUME SseInv, SseInv', NewTookNothing, [Next]_vars
  PROVE  [Feed!Next]_(Feed!vars)
  <1>1. Effects \/ \E e \in Event : Adds(e)
    BY ClientEffects
  <1>2. popped \in [Session -> Seq(Entry)] /\ popped' \in [Session -> Seq(Entry)]
    BY DEF SseInv, HistoryType
  <1>3. CASE \A s \in Session : Same(s)
    <2>1. popped' = popped
      BY <1>2, <1>3 DEF Same
    <2>2. FeedPending' = FeedPending /\ FeedReader' = FeedReader
      BY <1>3 DEF FeedPending, FeedReader, Same
    <2> QED
      BY <2>1, <2>2 DEF Feed!vars, FeedPending, FeedReader
  <1>4. ASSUME NEW t \in Session, GivesUp(t)
        PROVE  [Feed!Next]_(Feed!vars)
    <2>1. popped' = popped
      BY <1>2, <1>4 DEF GivesUp, Same
    <2>2. /\ FeedPending' = [FeedPending EXCEPT ![t] = <<>>]
          /\ FeedReader' = [FeedReader EXCEPT ![t] = NULL]
      BY <1>4 DEF FeedPending, FeedReader, GivesUp, Same
    <2>3. Feed!GiveUp(t)
      BY <2>1, <2>2 DEF Feed!GiveUp, FeedPending, FeedReader
    <2> QED
      BY <2>3 DEF Feed!Next
  <1>5. ASSUME NEW c \in Conn, NEW t \in Session, TakesOver(c, t)
        PROVE  [Feed!Next]_(Feed!vars)
    <2>1. popped' = popped
      BY <1>2, <1>5 DEF TakesOver, Same
    <2>2. /\ FeedPending' = FeedPending
          /\ FeedReader' = [FeedReader EXCEPT ![t] = c]
      BY <1>5 DEF FeedPending, FeedReader, TakesOver, Same
    <2>3. \A i \in 1..Len(popped[t]) : popped[t][i].conn # c
      BY <1>5 DEF TakesOver, NewTookNothing, Fresh
    <2>4. Feed!Attach(t, c)
      BY <2>1, <2>2, <2>3 DEF Feed!Attach, FeedPending, FeedReader
    <2> QED
      BY <2>4 DEF Feed!Next
  <1>6. ASSUME NEW c \in Conn, NEW t \in Session, Takes(c, t)
        PROVE  [Feed!Next]_(Feed!vars)
    <2>1. /\ FeedPending' = [FeedPending EXCEPT ![t] = Tail(@)]
          /\ FeedReader' = FeedReader /\ FeedReader[t] = c
          /\ FeedPending[t] # <<>> /\ FeedPending[t] = queue[t].events
      BY <1>6 DEF FeedPending, FeedReader, Takes, Same
    <2>2. popped' = [popped EXCEPT ![t] =
                       Append(@, [conn |-> FeedReader[t],
                                  event |-> Head(FeedPending[t])])]
      BY <1>6, <2>1 DEF Takes
    <2>3. FeedReader[t] # NULL
      BY <2>1, EventQueueAssumption
    <2>4. Feed!Take(t)
      BY <2>1, <2>2, <2>3 DEF Feed!Take, FeedPending, FeedReader
    <2> QED
      BY <2>4 DEF Feed!Next
  <1>7. ASSUME NEW e \in Event, Adds(e)
        PROVE  [Feed!Next]_(Feed!vars)
    <2> DEFINE S == {s \in Session : queue'[s].events # queue[s].events}
    <2>1. popped' = popped
      BY <1>2, <1>7 DEF Adds
    <2>2. \A s \in Session :
            /\ queue'[s].events = IF s \in S THEN Append(queue[s].events, e)
                                  ELSE queue[s].events
            /\ queue'[s].connection_id = queue[s].connection_id
      BY <1>7 DEF Adds
    <2>3. S \in SUBSET Session
      OBVIOUS
    <2> HIDE DEF S
    <2>4. /\ FeedPending' = [s \in Session |->
                               IF s \in S THEN Append(FeedPending[s], e)
                               ELSE FeedPending[s]]
          /\ FeedReader' = FeedReader
      BY <2>2 DEF FeedPending, FeedReader
    <2>5. Feed!Publish(S, e)
      BY <2>1, <2>4 DEF Feed!Publish, FeedPending, FeedReader
    <2> QED
      BY <2>3, <2>5 DEF Feed!Next
  <1> QED
    BY <1>1, <1>3, <1>4, <1>5, <1>6, <1>7 DEF Effects

\* The queues, the threads and the list together give each session what
\* EventFeed promises: its events in order, each to the one connection that
\* took the queue over last, and none to a connection that has not.
THEOREM FeedImplemented == Spec => ImplementsFeed
  <1>1. Init => Feed!Init /\ NewTookNothing
    <2> SUFFICES ASSUME Init PROVE Feed!Init /\ NewTookNothing
      OBVIOUS
    <2>1. \A s \in Session : queue[s].events = <<>> /\ queue[s].connection_id = NULL
      BY NewQueues DEF Init, NoQueue
    <2>2. NewTookNothing
      BY DEF Init, NewTookNothing
    <2> QED
      BY <2>1, <2>2 DEF Feed!Init, Init
  <1>2. SseInv /\ NewTookNothing /\ [Next]_vars => NewTookNothing'
    BY NewTookNothingStep
  <1>3. SseInv /\ SseInv' /\ NewTookNothing /\ [Next]_vars
          => [Feed!Next]_(Feed!vars)
    BY FeedStep
  <1> QED
    BY <1>1, <1>2, <1>3, SseAlways, PTL DEF Spec, ImplementsFeed, Feed!Spec

-----------------------------------------------------------------------------
(* The order of a client's events.                                         *)

\* What was taken, followed by what is pending.
FeedSeq(p, q) == [i \in 1..Len(p) |-> p[i].event] \o q

LEMMA FeedSeqFacts ==
  ASSUME NEW p \in Seq(Entry), NEW q \in Seq(Event)
  PROVE  /\ FeedSeq(p, q) \in Seq(Event)
         /\ Len(FeedSeq(p, q)) = Len(p) + Len(q)
         /\ \A i \in 1..Len(p) : FeedSeq(p, q)[i] = p[i].event
         /\ \A i \in 1..Len(q) : FeedSeq(p, q)[Len(p) + i] = q[i]
  <1> DEFINE a == [i \in 1..Len(p) |-> p[i].event]
  <1>1. \A i \in 1..Len(p) : p[i].event \in Event
    <2>1. \A i \in 1..Len(p) : p[i] \in Entry
      OBVIOUS
    <2>2. \A x \in Entry : x.event \in Event
      BY DEF Entry
    <2> QED
      BY <2>1, <2>2
  <1>2. a \in Seq(Event) /\ Len(a) = Len(p) /\ \A i \in 1..Len(p) : a[i] = p[i].event
    <2>1. Len(p) \in Nat /\ a \in [1..Len(p) -> Event]
      BY <1>1
    <2> HIDE DEF a
    <2>2. a \in Seq(Event) /\ Len(a) = Len(p)
      BY ONLY <2>1
    <2> QED
      BY <2>2 DEF a
  <1> HIDE DEF a
  <1>3. /\ a \o q \in Seq(Event) /\ Len(a \o q) = Len(a) + Len(q)
        /\ \A i \in 1..Len(a) : (a \o q)[i] = a[i]
        /\ \A i \in 1..Len(q) : (a \o q)[Len(a) + i] = q[i]
    <2>1. /\ a \o q \in Seq(Event) /\ Len(a \o q) = Len(a) + Len(q)
          /\ \A i \in 1..Len(a) + Len(q) :
               (a \o q)[i] = IF i <= Len(a) THEN a[i] ELSE q[i - Len(a)]
      BY <1>2, ConcatProperties
    <2>2. Len(a) \in Nat /\ Len(q) \in Nat
      BY <1>2
    <2> DEFINE b == a \o q
               k == Len(a)
               n == Len(q)
    <2>3. \A i \in 1..k + n : b[i] = IF i <= k THEN a[i] ELSE q[i - k]
      BY <2>1
    <2>4. k \in Nat /\ n \in Nat
      BY <2>2
    <2> HIDE DEF b, k, n
    <2>5. \A i \in 1..k : b[i] = a[i]
      BY ONLY <2>3, <2>4
    <2>6. \A i \in 1..n : b[k + i] = q[i]
      <3> SUFFICES ASSUME NEW i \in 1..n PROVE b[k + i] = q[i]
        OBVIOUS
      <3>1. k + i \in 1..k + n /\ ~(k + i <= k) /\ (k + i) - k = i
        BY ONLY <2>4, i \in 1..n
      <3>2. b[k + i] = q[(k + i) - k]
        BY <2>3, <3>1
      <3> QED
        BY <3>1, <3>2
    <2> QED
      BY <2>1, <2>5, <2>6 DEF b, k, n
  <1>4. FeedSeq(p, q) = a \o q
    BY DEF FeedSeq, a
  <1> QED
    BY <1>2, <1>3, <1>4

\* Every position of a feed is a taken event or a pending one.
LEMMA Split ==
  ASSUME NEW m \in Nat, NEW n \in Nat, NEW i \in 1..m + n
  PROVE  i \in 1..m \/ \E j \in 1..n : i = m + j
  <1>1. i \in 1..m \/ (i - m \in 1..n /\ i = m + (i - m))
    OBVIOUS
  <1> QED
    BY <1>1

\* Taking an event leaves the feed as it is.
LEMMA FeedSeqTake ==
  ASSUME NEW p \in Seq(Entry), NEW q \in Seq(Event), q # <<>>, NEW c \in Conn
  PROVE  FeedSeq(Append(p, [conn |-> c, event |-> Head(q)]), Tail(q))
           = FeedSeq(p, q)
  <1> DEFINE x == [conn |-> c, event |-> Head(q)]
             r == Append(p, x)
             t == Tail(q)
             f == FeedSeq(p, q)
             g == FeedSeq(r, t)
             m == Len(p)
             n == Len(t)
  <1>1. Head(q) \in Event /\ t \in Seq(Event) /\ Len(q) = n + 1 /\ n \in Nat
        /\ q[1] = Head(q) /\ \A i \in 1..n : t[i] = q[i + 1]
    BY ONLY q \in Seq(Event), q # <<>>
  <1>2. x \in Entry /\ x.event = q[1]
    BY <1>1 DEF Entry
  <1> HIDE DEF x, t
  <1>3. /\ r \in Seq(Entry) /\ Len(r) = m + 1 /\ m \in Nat /\ r[m + 1] = x
        /\ \A i \in 1..m : r[i] = p[i]
    BY ONLY <1>2, p \in Seq(Entry)
  <1> HIDE DEF r
  <1>4. /\ f \in Seq(Event) /\ Len(f) = m + (n + 1)
        /\ \A i \in 1..m : f[i] = p[i].event
        /\ \A i \in 1..n + 1 : f[m + i] = q[i]
    <2> HIDE DEF n
    <2>1. /\ f \in Seq(Event) /\ Len(f) = m + Len(q)
          /\ \A i \in 1..m : f[i] = p[i].event
          /\ \A i \in 1..Len(q) : f[m + i] = q[i]
      BY FeedSeqFacts
    <2> HIDE DEF f, m
    <2> QED
      BY <1>1, <2>1
  <1>5. /\ g \in Seq(Event) /\ Len(g) = (m + 1) + n
        /\ \A i \in 1..m + 1 : g[i] = r[i].event
        /\ \A i \in 1..n : g[(m + 1) + i] = t[i]
    <2>1. /\ g \in Seq(Event) /\ Len(g) = Len(r) + Len(t)
          /\ \A i \in 1..Len(r) : g[i] = r[i].event
          /\ \A i \in 1..Len(t) : g[Len(r) + i] = t[i]
      BY <1>1, <1>3, FeedSeqFacts
    <2> HIDE DEF g, m
    <2> QED
      BY <1>3, <2>1
  <1> HIDE DEF f, g
  <1>6. ASSUME NEW i \in 1..m + (n + 1)
        PROVE  f[i] = g[i]
    <2> HIDE DEF m, n
    <2>1. i \in 1..m \/ i = m + 1 \/ (i - m - 1 \in 1..n /\ i = (m + 1) + (i - m - 1))
      <3>1. m \in Nat /\ n \in Nat
        BY <1>1, <1>3
      <3> QED
        BY ONLY <3>1, i \in 1..m + (n + 1)
    <2>2. CASE i \in 1..m
      <3>1. i \in 1..m + 1
        BY <1>3, <2>2
      <3> QED
        BY <1>3, <1>4, <1>5, <2>2, <3>1
    <2>3. CASE i = m + 1
      <3>1. f[i] = q[1]
        <4>1. 1 \in 1..n + 1
          BY <1>1
        <4> QED
          BY <1>4, <2>3, <4>1
      <3>2. g[i] = r[m + 1].event
        <4>1. m + 1 \in 1..m + 1
          BY <1>3
        <4> QED
          BY <1>5, <2>3, <4>1
      <3> QED
        BY <1>2, <1>3, <3>1, <3>2
    <2>4. CASE i - m - 1 \in 1..n /\ i = (m + 1) + (i - m - 1)
      <3> DEFINE j == i - m - 1
      <3>1. j \in 1..n /\ i = (m + 1) + j /\ j + 1 \in 1..n + 1 /\ i = m + (j + 1)
        BY <1>1, <1>3, <2>4
      <3> HIDE DEF j
      <3>2. g[i] = t[j]
        BY <1>5, <3>1
      <3>3. f[i] = q[j + 1]
        BY <1>4, <3>1
      <3> QED
        BY <1>1, <3>1, <3>2, <3>3
    <2> QED
      BY <2>1, <2>2, <2>3, <2>4
  <1>7. Len(f) = Len(g)
    BY <1>1, <1>3, <1>4, <1>5
  <1>8. f = g
    <2>1. \A i \in 1..Len(f) : f[i] = g[i]
      BY <1>4, <1>6
    <2> HIDE DEF m, n
    <2> QED
      BY ONLY <1>4, <1>5, <1>7, <2>1
  <1> QED
    BY <1>8 DEF f, g, r, t, x

\* A sequence that begins as another one does: it is no longer, or has one
\* element more, e.
Shrinks(f, g) == Len(g) <= Len(f) /\ \A i \in 1..Len(g) : g[i] = f[i]

Grows(f, g, e) ==
  /\ Len(g) = Len(f) + 1 /\ g[Len(g)] = e
  /\ \A i \in 1..Len(f) : g[i] = f[i]

LEMMA FeedSeqDrop ==
  ASSUME NEW p \in Seq(Entry), NEW q \in Seq(Event)
  PROVE  Shrinks(FeedSeq(p, q), FeedSeq(p, <<>>))
  <1> DEFINE z == <<>>
             f == FeedSeq(p, q)
             g == FeedSeq(p, z)
  <1>1. z \in Seq(Event) /\ Len(z) = 0
    OBVIOUS
  <1> HIDE DEF z
  <1>2. /\ Len(f) = Len(p) + Len(q) /\ \A i \in 1..Len(p) : f[i] = p[i].event
    BY FeedSeqFacts
  <1>3. /\ Len(g) = Len(p) + 0 /\ \A i \in 1..Len(p) : g[i] = p[i].event
    BY <1>1, FeedSeqFacts
  <1>4. Len(p) \in Nat /\ Len(q) \in Nat
    OBVIOUS
  <1> HIDE DEF f, g
  <1>5. Len(g) = Len(p) /\ Len(g) <= Len(f)
    BY <1>2, <1>3, <1>4
  <1>6. Shrinks(f, g)
    BY <1>2, <1>3, <1>5 DEF Shrinks
  <1> QED
    BY <1>6 DEF f, g, z

LEMMA FeedSeqAdd ==
  ASSUME NEW p \in Seq(Entry), NEW q \in Seq(Event), NEW e \in Event
  PROVE  Grows(FeedSeq(p, q), FeedSeq(p, Append(q, e)), e)
  <1> DEFINE r == Append(q, e)
             f == FeedSeq(p, q)
             g == FeedSeq(p, r)
             m == Len(p)
             n == Len(q)
  <1>1. /\ r \in Seq(Event) /\ Len(r) = n + 1 /\ r[n + 1] = e /\ n \in Nat
        /\ \A i \in 1..n : r[i] = q[i]
    OBVIOUS
  <1> HIDE DEF r
  <1>3. /\ Len(f) = m + n /\ \A i \in 1..m : f[i] = p[i].event
        /\ \A j \in 1..n : f[m + j] = q[j]
    BY FeedSeqFacts
  <1>4. /\ Len(g) = m + (n + 1) /\ \A i \in 1..m : g[i] = p[i].event
        /\ \A j \in 1..n + 1 : g[m + j] = r[j]
    <2>1. /\ Len(g) = m + Len(r) /\ \A i \in 1..m : g[i] = p[i].event
          /\ \A j \in 1..Len(r) : g[m + j] = r[j]
      BY <1>1, FeedSeqFacts
    <2> HIDE DEF g, m, n
    <2> QED
      BY <1>1, <2>1
  <1>5. m \in Nat
    OBVIOUS
  <1> HIDE DEF f, g, m, n
  <1>6. ASSUME NEW i \in 1..Len(f)
        PROVE  g[i] = f[i]
    <2>1. i \in 1..m \/ \E j \in 1..n : i = m + j
      BY <1>1, <1>3, <1>5, Split
    <2>2. \A j \in 1..n : j \in 1..n + 1
      BY <1>1
    <2> QED
      BY <1>1, <1>3, <1>4, <2>1, <2>2
  <1>7. Len(g) = Len(f) + 1
    BY <1>1, <1>3, <1>4, <1>5
  <1>8. g[Len(g)] = e
    <2>1. n + 1 \in 1..n + 1
      BY <1>1
    <2> QED
      BY <1>1, <1>4, <2>1
  <1>9. Grows(f, g, e)
    BY <1>6, <1>7, <1>8 DEF Grows
  <1> QED
    BY <1>9 DEF f, g, r

\* The events of a sequence that went through the global queue are in order,
\* and made before event n.
InOrder(f) ==
  \A i, j \in 1..Len(f) :
    i < j /\ ~f[i].direct /\ ~f[j].direct => f[i].n < f[j].n

Under(f, n) == \A i \in 1..Len(f) : ~f[i].direct => f[i].n < n

\* Of k events made so far, the global queue g holds the last ones in order;
\* e, while it is copied, is older; and what a client got is older still.
GlobalOrder(g, copying, e, k) ==
  /\ \A i \in 1..Len(g) : ~g[i].direct /\ g[i].n <= k
  /\ \A i, j \in 1..Len(g) : i < j => g[i].n < g[j].n
  /\ copying => ~e.direct /\ e.n <= k /\ \A i \in 1..Len(g) : e.n < g[i].n

FeedOrder(f, g, copying, e, k) ==
  /\ InOrder(f) /\ Under(f, k + 1)
  /\ \A i \in 1..Len(g) : Under(f, g[i].n)
  /\ copying => Under(f, e.n)

Copying == consumer = "copy"

OrderInv ==
  /\ GlobalOrder(global_event_queue.events, Copying, new_event, created)
  /\ \A s \in Session :
       FeedOrder(FeedOf(s), global_event_queue.events, Copying, new_event,
                 created)

LEMMA EventNumbers == \A e \in Event : e.n \in Nat
  <1>1. MaxEvents \in Nat
    BY EventQueueAssumption
  <1> QED
    BY <1>1 DEF Event

LEMMA SeqEvents ==
  ASSUME NEW f \in Seq(Event)
  PROVE  Len(f) \in Nat /\ \A i \in 1..Len(f) : f[i] \in Event /\ f[i].n \in Nat
  <1>1. Len(f) \in Nat /\ \A i \in 1..Len(f) : f[i] \in Event
    OBVIOUS
  <1> QED
    BY <1>1, EventNumbers

\* Taking nothing, or giving the rest up.
LEMMA ShrinksOrder ==
  ASSUME NEW f \in Seq(Event), NEW h \in Seq(Event), Shrinks(f, h),
         NEW g, NEW copying, NEW e, NEW k, FeedOrder(f, g, copying, e, k)
  PROVE  FeedOrder(h, g, copying, e, k)
  <1>1. Len(h) \in Nat /\ Len(f) \in Nat
    BY SeqEvents
  <1>2. /\ \A i \in 1..Len(h) : i \in 1..Len(f)
        /\ \A i \in 1..Len(h) : h[i] = f[i]
    BY <1>1 DEF Shrinks
  <1>3. InOrder(h)
    BY <1>2 DEF InOrder, FeedOrder
  <1>4. \A n : Under(f, n) => Under(h, n)
    BY <1>2 DEF Under
  <1> QED
    BY <1>3, <1>4 DEF FeedOrder

\* One more event: a direct one, or one that is newer than the others.
LEMMA GrowsOrder ==
  ASSUME NEW f \in Seq(Event), NEW h \in Seq(Event), NEW e \in Event,
         Grows(f, h, e), e.direct \/ Under(f, e.n), InOrder(f)
  PROVE  /\ InOrder(h)
         /\ \A n : Under(f, n) /\ (e.direct \/ e.n < n) => Under(h, n)
  <1>1. Len(h) \in Nat /\ Len(f) \in Nat
    BY SeqEvents
  <1>2. /\ \A i \in 1..Len(h) : i \in 1..Len(f) \/ i = Len(h)
        /\ \A i \in 1..Len(f) : h[i] = f[i] /\ i # Len(h)
        /\ h[Len(h)] = e
        /\ \A i, j \in 1..Len(h) : i < j => i \in 1..Len(f)
    BY <1>1 DEF Grows
  <1>3. InOrder(h)
    <2> SUFFICES ASSUME NEW i \in 1..Len(h), NEW j \in 1..Len(h),
                        i < j, ~h[i].direct, ~h[j].direct
                 PROVE  h[i].n < h[j].n
      BY DEF InOrder
    <2>1. i \in 1..Len(f) /\ h[i] = f[i]
      BY <1>2
    <2>2. CASE j \in 1..Len(f)
      BY <1>2, <2>1, <2>2 DEF InOrder
    <2>3. CASE j = Len(h)
      BY <1>2, <2>1, <2>3 DEF Under
    <2> QED
      BY <1>2, <2>2, <2>3
  <1>4. ASSUME NEW n, Under(f, n), e.direct \/ e.n < n
        PROVE  Under(h, n)
    BY <1>2, <1>4 DEF Under
  <1> QED
    BY <1>3, <1>4

\* A step that makes no event and leaves the global queue and its thread alone.
LEMMA QuietOrder ==
  ASSUME OrderInv, SseInv, SseInv',
         \A s \in Session : Shrinks(FeedOf(s), FeedOf(s)'),
         \A s \in Session : FeedOf(s) \in Seq(Event) /\ FeedOf(s)' \in Seq(Event),
         global_event_queue'.events = global_event_queue.events,
         created' = created,
         Copying' => Copying /\ new_event' = new_event
  PROVE  OrderInv'
  <1> DEFINE g == global_event_queue.events
  <1>1. GlobalOrder(g', Copying', new_event', created')
    BY DEF OrderInv, GlobalOrder
  <1>2. ASSUME NEW s \in Session
        PROVE  FeedOrder(FeedOf(s)', g', Copying', new_event', created')
    <2> HIDE DEF g
    <2>1. FeedOrder(FeedOf(s)', g, Copying, new_event, created)
      BY ShrinksOrder DEF OrderInv, g
    <2> QED
      BY <2>1 DEF FeedOrder, g
  <1> QED
    BY <1>1, <1>2 DEF OrderInv

LEMMA Feeds ==
  ASSUME SseInv, SseInv', NEW s \in Session
  PROVE  /\ popped[s] \in Seq(Entry) /\ popped'[s] \in Seq(Entry)
         /\ queue[s].events \in Seq(Event) /\ queue'[s].events \in Seq(Event)
         /\ FeedOf(s) = FeedSeq(popped[s], queue[s].events)
         /\ FeedOf(s)' = FeedSeq(popped'[s], queue'[s].events)
         /\ FeedOf(s) \in Seq(Event) /\ FeedOf(s)' \in Seq(Event)
  <1>1. /\ popped[s] \in Seq(Entry) /\ popped'[s] \in Seq(Entry)
        /\ queue[s] \in Queue /\ queue'[s] \in Queue
    BY DEF SseInv, HistoryType, SessionType
  <1>2. queue[s].events \in Seq(Event) /\ queue'[s].events \in Seq(Event)
    BY <1>1 DEF Queue
  <1>3. /\ FeedOf(s) = FeedSeq(popped[s], queue[s].events)
        /\ FeedOf(s)' = FeedSeq(popped'[s], queue'[s].events)
    BY DEF FeedOf, FeedSeq
  <1> QED
    BY <1>1, <1>2, <1>3, FeedSeqFacts

LEMMA ShrinksSelf ==
  ASSUME NEW f \in Seq(Event)
  PROVE  Shrinks(f, f)
  BY DEF Shrinks

LEMMA FeedsShrink ==
  ASSUME SseInv, SseInv', Effects
  PROVE  \A s \in Session : Shrinks(FeedOf(s), FeedOf(s)')
  <1>1. ASSUME NEW s \in Session, Same(s)
        PROVE  Shrinks(FeedOf(s), FeedOf(s)')
    <2>1. FeedOf(s)' = FeedOf(s) /\ FeedOf(s) \in Seq(Event)
      BY <1>1, Feeds DEF Same
    <2> QED
      BY <2>1, ShrinksSelf
  <1>2. ASSUME NEW s \in Session, GivesUp(s)
        PROVE  Shrinks(FeedOf(s), FeedOf(s)')
    <2>1. /\ popped[s] \in Seq(Entry) /\ queue[s].events \in Seq(Event)
          /\ FeedOf(s) = FeedSeq(popped[s], queue[s].events)
          /\ FeedOf(s)' = FeedSeq(popped[s], <<>>)
      BY <1>2, Feeds DEF GivesUp
    <2> QED
      BY <2>1, FeedSeqDrop
  <1>3. ASSUME NEW c \in Conn, NEW s \in Session, TakesOver(c, s)
        PROVE  Shrinks(FeedOf(s), FeedOf(s)')
    <2>1. FeedOf(s)' = FeedOf(s) /\ FeedOf(s) \in Seq(Event)
      BY <1>3, Feeds DEF TakesOver
    <2> QED
      BY <2>1, ShrinksSelf
  <1>4. ASSUME NEW c \in Conn, NEW s \in Session, Takes(c, s)
        PROVE  Shrinks(FeedOf(s), FeedOf(s)')
    <2> DEFINE p == popped[s]
               q == queue[s].events
    <2>1. p \in Seq(Entry) /\ q \in Seq(Event) /\ FeedOf(s) \in Seq(Event)
      BY Feeds
    <2>2. /\ q # <<>> /\ queue'[s].events = Tail(q)
          /\ popped'[s] = Append(p, [conn |-> c, event |-> Head(q)])
      BY <1>4 DEF Takes, SseInv, HistoryType
    <2>3. FeedOf(s) = FeedSeq(p, q) /\ FeedOf(s)' = FeedSeq(popped'[s], queue'[s].events)
      BY Feeds
    <2> HIDE DEF p, q
    <2>4. FeedOf(s)' = FeedOf(s)
      BY <2>1, <2>2, <2>3, FeedSeqTake
    <2> QED
      BY <2>1, <2>4, ShrinksSelf
  <1>5. CASE \A s \in Session : Same(s)
    BY <1>1, <1>5
  <1>6. ASSUME NEW t \in Session, GivesUp(t)
        PROVE  \A s \in Session : Shrinks(FeedOf(s), FeedOf(s)')
    <2>1. \A s \in Session : s # t => Same(s)
      BY <1>6 DEF GivesUp
    <2> QED
      BY <1>1, <1>2, <1>6, <2>1
  <1>7. ASSUME NEW c \in Conn, NEW t \in Session, TakesOver(c, t) \/ Takes(c, t)
        PROVE  \A s \in Session : Shrinks(FeedOf(s), FeedOf(s)')
    <2>1. \A s \in Session : s # t => Same(s)
      BY <1>7 DEF TakesOver, Takes
    <2> QED
      BY <1>1, <1>3, <1>4, <1>7, <2>1
  <1> QED
    BY <1>5, <1>6, <1>7 DEF Effects

LEMMA FeedsGrow ==
  ASSUME SseInv, SseInv', NEW e \in Event, Adds(e)
  PROVE  \A s \in Session :
           FeedOf(s)' = FeedOf(s) \/ Grows(FeedOf(s), FeedOf(s)', e)
  <1> SUFFICES ASSUME NEW s \in Session
               PROVE  FeedOf(s)' = FeedOf(s) \/ Grows(FeedOf(s), FeedOf(s)', e)
    OBVIOUS
  <1>1. /\ popped[s] \in Seq(Entry) /\ queue[s].events \in Seq(Event)
        /\ FeedOf(s) = FeedSeq(popped[s], queue[s].events)
        /\ FeedOf(s)' = FeedSeq(popped'[s], queue'[s].events)
    BY Feeds
  <1>2. /\ popped'[s] = popped[s]
        /\ queue'[s].events \in {queue[s].events, Append(queue[s].events, e)}
    BY DEF Adds
  <1> QED
    BY <1>1, <1>2, FeedSeqAdd

-----------------------------------------------------------------------------
LEMMA CreatedIsNat ==
  ASSUME SseInv
  PROVE  created \in Nat
  <1>1. created \in 0..MaxEvents /\ MaxEvents \in Nat
    BY EventQueueAssumption DEF SseInv, RestType
  <1> QED
    BY ONLY <1>1

LEMMA GlobalEvents ==
  ASSUME SseInv
  PROVE  global_event_queue.events \in Seq(Event)
  BY DEF SseInv, GlobalType, Queue

LEMMA UnderMore ==
  ASSUME NEW f \in Seq(Event), NEW k \in Nat, Under(f, k + 1)
  PROVE  Under(f, k + 2) /\ Under(f, (k + 1) + 1)
  <1> SUFFICES ASSUME NEW i \in 1..Len(f), ~f[i].direct
               PROVE  f[i].n < k + 2 /\ f[i].n < (k + 1) + 1
    BY DEF Under
  <1>1. f[i].n \in Nat /\ f[i].n < k + 1
    BY SeqEvents DEF Under
  <1> QED
    BY ONLY <1>1, k \in Nat

LEMMA PublishOrders ==
  ASSUME OrderInv, SseInv, SseInv', NEW id \in Service \cup {Log}, Publish(id)
  PROVE  OrderInv'
  <1> DEFINE x == [id |-> id, n |-> created + 1, direct |-> FALSE]
             q == global_event_queue
             g == q.events
             h == q'.events
             k == created
             m == Len(g)
  <1>1. /\ q' = queue_event(q, x, TRUE) /\ created < MaxEvents
        /\ k' = k + 1 /\ new_event' = new_event
        /\ Copying' = Copying
    BY DEF Publish, Copying
  <1>2. x \in Event /\ x.n = k + 1 /\ ~x.direct /\ k \in Nat
    BY <1>1, NewEvent, CreatedIsNat
  <1>3. q \in Queue /\ g \in Seq(Event) /\ h \in Seq(Event)
    BY DEF SseInv, GlobalType, Queue
  <1> HIDE DEF x, q
  <1>4. h = g \/ h = Append(g, x)
    BY <1>1, <1>2, <1>3, QueueEvent
  <1>5. /\ m \in Nat
        /\ \A i \in 1..m : g[i].n \in Nat /\ ~g[i].direct /\ g[i].n <= k
        /\ \A i, j \in 1..m : i < j => g[i].n < g[j].n
        /\ Copying => /\ ~new_event.direct /\ new_event.n <= k
                      /\ \A i \in 1..m : new_event.n < g[i].n
    BY <1>3, SeqEvents DEF OrderInv, GlobalOrder, q
  <1>6. Copying => new_event.n \in Nat
    BY EventNumbers DEF SseInv, GlobalType, Copying
  <1> HIDE DEF g, h, k
  <1>7. /\ \A i \in 1..Len(h) : \/ i \in 1..m /\ h[i] = g[i]
                                \/ i = m + 1 /\ h[i] = x
        /\ \A i, j \in 1..Len(h) : i < j => i \in 1..m /\ h[i] = g[i]
    <2>1. CASE h = g
      <3>1. Len(h) = m
        BY <2>1
      <3> HIDE DEF m
      <3>2. \A i, j \in 1..m : i < j => i \in 1..m
        BY ONLY TRUE
      <3> QED
        BY <2>1, <3>1, <3>2
    <2>2. CASE h = Append(g, x)
      <3>1. /\ Len(h) = m + 1 /\ h[m + 1] = x
            /\ \A i \in 1..m : h[i] = g[i]
        BY <1>2, <1>3, <2>2
      <3> HIDE DEF m
      <3>2. /\ \A i \in 1..m + 1 : i \in 1..m \/ i = m + 1
            /\ \A i, j \in 1..m + 1 : i < j => i \in 1..m
        <4>1. m \in Nat
          BY <1>5
        <4> QED
          BY ONLY <4>1
      <3> QED
        BY <3>1, <3>2
    <2> QED
      BY <1>4, <2>1, <2>2
  <1> HIDE DEF m
  <1>8. GlobalOrder(h, Copying, new_event, k + 1)
    <2>1. \A i \in 1..Len(h) : ~h[i].direct /\ h[i].n <= k + 1
      BY <1>2, <1>5, <1>7
    <2>2. \A i, j \in 1..Len(h) : i < j => h[i].n < h[j].n
      <3> SUFFICES ASSUME NEW i \in 1..Len(h), NEW j \in 1..Len(h), i < j
                   PROVE  h[i].n < h[j].n
        OBVIOUS
      <3>1. i \in 1..m /\ h[i] = g[i] /\ g[i].n \in Nat /\ g[i].n <= k
        BY <1>5, <1>7
      <3>2. CASE j \in 1..m /\ h[j] = g[j]
        BY <1>5, <3>1, <3>2
      <3>3. CASE h[j] = x
        BY <1>2, <3>1, <3>3
      <3> QED
        BY <1>7, <3>2, <3>3
    <2>3. ASSUME Copying
          PROVE  /\ ~new_event.direct /\ new_event.n <= k + 1
                 /\ \A i \in 1..Len(h) : new_event.n < h[i].n
      BY <1>2, <1>5, <1>6, <1>7, <2>3
    <2> QED
      BY <2>1, <2>2, <2>3 DEF GlobalOrder
  <1>9. ASSUME NEW s \in Session
        PROVE  FeedOrder(FeedOf(s)', h, Copying, new_event, k + 1)
    <2> DEFINE f == FeedOf(s)
    <2>1. f \in Seq(Event) /\ FeedOf(s)' = f
      BY Feeds DEF FeedOf, Publish, sessionVars
    <2>2. FeedOrder(f, g, Copying, new_event, k)
      BY DEF OrderInv, g, k, q
    <2> HIDE DEF f
    <2>3. Under(f, (k + 1) + 1)
      BY <1>2, <2>1, <2>2, UnderMore DEF FeedOrder
    <2>4. \A i \in 1..Len(h) : Under(f, h[i].n)
      BY <1>2, <1>5, <1>7, <2>2 DEF FeedOrder, m
    <2> QED
      BY <2>1, <2>2, <2>3, <2>4 DEF FeedOrder
  <1> QED
    BY <1>1, <1>8, <1>9 DEF OrderInv, h, q, k

LEMMA PopsOrders ==
  ASSUME OrderInv, SseInv, SseInv', ConsumerPops
  PROVE  OrderInv'
  <1> DEFINE q == global_event_queue
             a == [q EXCEPT !.is_waiting = "NO"]
             g == q.events
             h == q'.events
             e == Head(g)
             m == Len(h)
  <1>1. /\ q' = dequeued(a) /\ g # <<>> /\ new_event' = e /\ Copying'
        /\ created' = created
    BY DEF ConsumerPops, Copying
  <1>2. q \in Queue /\ g \in Seq(Event)
    BY DEF SseInv, GlobalType, Queue
  <1>3. a \in Queue /\ a.events = g
    <2> HIDE DEF q
    <2> QED
      BY <1>2, FieldsOfQueue
  <1> HIDE DEF a, q
  <1>4. h = Tail(g)
    BY <1>1, <1>3, Dequeued
  <1> HIDE DEF g, h
  <1>5. /\ m \in Nat /\ Len(g) = m + 1 /\ e = g[1]
        /\ \A i \in 1..m : h[i] = g[i + 1]
    BY ONLY <1>1, <1>2, <1>4
  <1> HIDE DEF e, m
  <1>6. /\ 1 \in 1..Len(g)
        /\ \A i \in 1..m : i + 1 \in 1..Len(g) /\ 1 < i + 1
        /\ \A i, j \in 1..m : i < j => i + 1 < j + 1
    BY ONLY <1>5
  <1>7. GlobalOrder(g, Copying, new_event, created)
    BY DEF OrderInv, g, q
  <1>8. GlobalOrder(h, TRUE, e, created)
    BY <1>5, <1>6, <1>7 DEF GlobalOrder, m
  <1>9. ASSUME NEW s \in Session
        PROVE  FeedOrder(FeedOf(s)', h, TRUE, e, created)
    <2> DEFINE f == FeedOf(s)
    <2>1. f \in Seq(Event) /\ FeedOf(s)' = f
      BY Feeds DEF FeedOf, ConsumerPops, sessionVars
    <2>2. FeedOrder(f, g, Copying, new_event, created)
      BY DEF OrderInv, g, q
    <2> HIDE DEF f
    <2> QED
      BY <1>5, <1>6, <2>1, <2>2 DEF FeedOrder, m
  <1> QED
    BY <1>1, <1>8, <1>9 DEF OrderInv, h, q

\* The other steps on the global queue make no event and copy none.
LEMMA GlobalStepOrders ==
  ASSUME OrderInv, SseInv, SseInv', GlobalStep
  PROVE  OrderInv'
  <1>1. CASE \E id \in Service \cup {Log} : Publish(id)
    BY <1>1, PublishOrders
  <1>2. CASE ConsumerPops
    BY <1>2, PopsOrders
  <1>3. Effects
    BY GlobalStepEffects DEF Effects
  <1>4. \A s \in Session : Shrinks(FeedOf(s), FeedOf(s)')
    BY <1>3, FeedsShrink
  <1>5. \A s \in Session : FeedOf(s) \in Seq(Event) /\ FeedOf(s)' \in Seq(Event)
    BY Feeds
  <1>6. CASE ConsumerExits
    <2> DEFINE z == <<>>
    <2>1. /\ global_event_queue'.events = z /\ consumer' = "exited"
          /\ new_event' = new_event /\ created' = created
      BY <1>6, NewQueues DEF ConsumerExits
    <2>2. \A i \in 1..Len(z) : FALSE
      OBVIOUS
    <2> HIDE DEF z
    <2>3. GlobalOrder(z, FALSE, new_event, created)
      BY <2>2 DEF GlobalOrder
    <2>4. ASSUME NEW s \in Session
          PROVE  FeedOrder(FeedOf(s)', z, FALSE, new_event, created)
      <3>1. FeedOrder(FeedOf(s)', global_event_queue.events, Copying, new_event,
                      created)
        BY <1>4, <1>5, ShrinksOrder DEF OrderInv
      <3> QED
        BY <2>2, <3>1 DEF FeedOrder
    <2>5. Copying' = FALSE
      BY <2>1 DEF Copying
    <2> QED
      BY <2>1, <2>3, <2>4, <2>5 DEF OrderInv
  <1>7. CASE \/ ConsumerWaits \/ ConsumerSpurious \/ StopGlobal \/ StopJoined
             \/ \E id \in Service \cup {Log} : PublishAfterStop(id)
             \/ ConsumerPopsNothing \/ UseAfterFree
             \/ \E c \in Conn : LookupFails(c) \/ PopNothing(c) \/ UnlinkAgain(c)
             \/ UNCHANGED vars
    <2> DEFINE q == global_event_queue
    <2>1. /\ created' = created /\ new_event' = new_event
          /\ consumer' = "copy" => consumer = "copy"
          /\ \/ q' = q \/ q' = [q EXCEPT !.is_waiting = "YES"]
             \/ q' = [q EXCEPT !.exit = TRUE]
      BY <1>7 DEF ConsumerWaits, ConsumerSpurious, StopGlobal, StopJoined,
             PublishAfterStop, ConsumerPopsNothing, UseAfterFree, LookupFails,
             PopNothing, UnlinkAgain, Fault, vars, globalVars
    <2>2. q \in Queue
      BY DEF SseInv, GlobalType
    <2> HIDE DEF q
    <2>3. /\ [q EXCEPT !.is_waiting = "YES"].events = q.events
          /\ [q EXCEPT !.exit = TRUE].events = q.events
      BY <2>2, FieldsOfQueue
    <2>4. q'.events = q.events
      BY <2>1, <2>3
    <2> QED
      BY <1>4, <1>5, <2>1, <2>4, QuietOrder DEF q, Copying
  <1> QED
    BY <1>1, <1>2, <1>6, <1>7 DEF GlobalStep

LEMMA CopiesOrders ==
  ASSUME OrderInv, SseInv, SseInv', ConsumerCopies
  PROVE  OrderInv'
  <1> DEFINE e == new_event
             q == global_event_queue
             g == q.events
             k == created
  <1>1. /\ e \in Event /\ Adds(e) /\ Copying /\ ~Copying' /\ q' = q /\ k' = k
    BY CopiesAdd DEF Copying
  <1>2. g \in Seq(Event) /\ k \in Nat /\ e.n \in Nat
    BY <1>1, GlobalEvents, CreatedIsNat, EventNumbers
  <1>3. /\ GlobalOrder(g, Copying, e, k) /\ ~e.direct /\ e.n <= k
        /\ \A i \in 1..Len(g) : e.n < g[i].n
    BY <1>1 DEF OrderInv, GlobalOrder
  <1>4. GlobalOrder(g, FALSE, e', k)
    BY <1>3 DEF GlobalOrder
  <1>5. ASSUME NEW s \in Session
        PROVE  FeedOrder(FeedOf(s)', g, FALSE, e', k)
    <2> DEFINE f == FeedOf(s)
               h == FeedOf(s)'
    <2>1. f \in Seq(Event) /\ h \in Seq(Event)
      BY Feeds
    <2>2. h = f \/ Grows(f, h, e)
      BY <1>1, FeedsGrow
    <2>3. FeedOrder(f, g, Copying, e, k)
      BY DEF OrderInv
    <2> HIDE DEF f, h, e, g, k, q
    <2>4. CASE h = f
      BY <2>3, <2>4 DEF FeedOrder, h
    <2>5. CASE Grows(f, h, e)
      <3>1. InOrder(f) /\ Under(f, e.n)
        BY <1>1, <2>3 DEF FeedOrder
      <3>2. /\ InOrder(h)
            /\ \A n : Under(f, n) /\ (e.direct \/ e.n < n) => Under(h, n)
        BY <1>1, <2>1, <2>5, <3>1, GrowsOrder
      <3>3. e.n < k + 1
        BY ONLY <1>2, <1>3
      <3> QED
        BY <1>3, <2>3, <3>2, <3>3 DEF FeedOrder, h
    <2> QED
      BY <2>2, <2>4, <2>5
  <1>6. Copying' = FALSE
    BY <1>1
  <1> QED
    BY <1>1, <1>4, <1>5, <1>6 DEF OrderInv

LEMMA NotifyOrders ==
  ASSUME OrderInv, SseInv, SseInv', NEW v \in Service,
         NEW a \in {"available", "unavailable"}, notify_service_availability(v, a)
  PROVE  OrderInv'
  <1> DEFINE q == global_event_queue
             g == q.events
             k == created
  <1>1. PICK e \in Event :
          /\ e.direct /\ Adds(e) /\ k' = k + 1 /\ q' = q
          /\ new_event' = new_event /\ Copying' = Copying
    BY NotifyAdds DEF globalVars, Copying
  <1>2. g \in Seq(Event) /\ k \in Nat
    BY GlobalEvents, CreatedIsNat
  <1>3. GlobalOrder(g, Copying, new_event, k)
    BY DEF OrderInv
  <1>4. GlobalOrder(g, Copying, new_event, k + 1)
    <2>1. /\ \A i \in 1..Len(g) : g[i].n \in Nat
          /\ Copying => new_event.n \in Nat
      BY <1>2, SeqEvents, EventNumbers DEF SseInv, GlobalType, Copying
    <2> HIDE DEF g, k
    <2> QED
      BY <1>2, <1>3, <2>1 DEF GlobalOrder
  <1>5. ASSUME NEW s \in Session
        PROVE  FeedOrder(FeedOf(s)', g, Copying, new_event, k + 1)
    <2> DEFINE f == FeedOf(s)
               h == FeedOf(s)'
    <2>1. f \in Seq(Event) /\ h \in Seq(Event)
      BY Feeds
    <2>2. h = f \/ Grows(f, h, e)
      BY <1>1, FeedsGrow
    <2>3. FeedOrder(f, g, Copying, new_event, k)
      BY DEF OrderInv
    <2> HIDE DEF f, h, g, k, q
    <2>4. Under(f, (k + 1) + 1)
      BY <1>2, <2>1, <2>3, UnderMore DEF FeedOrder
    <2>5. CASE h = f
      BY <2>3, <2>4, <2>5 DEF FeedOrder, h
    <2>6. CASE Grows(f, h, e)
      <3>1. InOrder(f)
        BY <2>3 DEF FeedOrder
      <3>2. /\ InOrder(h)
            /\ \A n : Under(f, n) /\ (e.direct \/ e.n < n) => Under(h, n)
        BY <1>1, <2>1, <2>6, <3>1, GrowsOrder
      <3> QED
        BY <1>1, <2>3, <2>4, <3>2 DEF FeedOrder, h
    <2> QED
      BY <2>2, <2>5, <2>6
  <1> QED
    BY <1>1, <1>4, <1>5 DEF OrderInv

LEMMA SessionStepOrders ==
  ASSUME OrderInv, SseInv, SseInv', SessionStep
  PROVE  OrderInv'
  <1>1. Effects /\ UNCHANGED <<globalVars, created>>
    BY SessionStepEffects
  <1>2. \A s \in Session : Shrinks(FeedOf(s), FeedOf(s)')
    BY <1>1, FeedsShrink
  <1>3. \A s \in Session : FeedOf(s) \in Seq(Event) /\ FeedOf(s)' \in Seq(Event)
    BY Feeds
  <1> QED
    BY <1>1, <1>2, <1>3, QuietOrder DEF globalVars, Copying

LEMMA OrderStep == SseInv /\ SseInv' /\ OrderInv /\ [Next]_vars => OrderInv'
  <1> SUFFICES ASSUME SseInv, SseInv', OrderInv, [Next]_vars PROVE OrderInv'
    OBVIOUS
  <1>1. CASE GlobalStep
    BY <1>1, GlobalStepOrders
  <1>2. CASE SessionStep
    BY <1>2, SessionStepOrders
  <1>3. CASE ConsumerCopies
    BY <1>3, CopiesOrders
  <1>4. CASE \E v \in Service, a \in {"available", "unavailable"} :
               notify_service_availability(v, a)
    BY <1>4, NotifyOrders
  <1> QED
    BY <1>1, <1>2, <1>3, <1>4, StepKinds

LEMMA OrderInit == Init => OrderInv
  <1> SUFFICES ASSUME Init PROVE OrderInv
    OBVIOUS
  <1> DEFINE z == <<>>
  <1>1. global_event_queue.events = z
    <2> DEFINE q == create_event_queue
               r == [q EXCEPT !.send_log_events = TRUE]
    <2>1. q \in Queue /\ q.events = z
      BY NewQueues
    <2> HIDE DEF q
    <2>2. r.events = q.events
      BY <2>1 DEF Queue
    <2> QED
      BY <2>1, <2>2 DEF Init, q
  <1>2. \A i \in 1..Len(z) : FALSE
    OBVIOUS
  <1>3. ASSUME NEW s \in Session
        PROVE  Len(FeedOf(s)) = 0
    <2>1. popped[s] = z /\ queue[s].events = z
      BY DEF Init, NoQueue
    <2>2. z \in Seq(Entry) /\ z \in Seq(Event) /\ Len(z) = 0
      OBVIOUS
    <2> HIDE DEF z
    <2>3. FeedOf(s) = FeedSeq(z, z)
      BY <2>1 DEF FeedOf, FeedSeq
    <2>4. Len(FeedSeq(z, z)) = 0 + 0
      BY <2>2, FeedSeqFacts
    <2> QED
      BY <2>3, <2>4
  <1> HIDE DEF z
  <1>4. \A s \in Session : \A i \in 1..Len(FeedOf(s)) : FALSE
    BY <1>3
  <1>5. consumer # "copy"
    BY DEF Init
  <1> QED
    BY <1>1, <1>2, <1>4, <1>5
       DEF OrderInv, GlobalOrder, FeedOrder, InOrder, Under, Copying

\* A session's client gets the events of the global queue in the order they
\* were made and none twice, whatever connections it used and however many
\* threads append, copy and take.
THEOREM FeedsInOrder == Spec => []EventsInOrder
  <1>1. OrderInv => EventsInOrder
    BY DEF OrderInv, FeedOrder, InOrder, EventsInOrder
  <1> QED
    BY <1>1, OrderInit, OrderStep, SseAlways, PTL DEF Spec
-----------------------------------------------------------------------------
(* How a step moves the threads, the queues and the list: what the causes of *)
(* an undefined operation depend on.                                        *)

\* A connection finds its session's queue in the list.
Opens(c) ==
  /\ conn[c].at = "idle"
  /\ conn'[c].at = "found" /\ conn'[c].session \in Listed
  /\ Returns \/ \A d \in Conn :
                  conn[d].session = conn'[c].session => conn[d].at = "done"
  /\ \A d \in Conn : d # c => conn'[d] = conn[d]

\* A thread that has not ended goes on.
GoesOn(c) ==
  LET s == conn[c].session
      pc == conn'[c].at
  IN
  /\ conn[c].at \notin {"idle", "done"} /\ pc \notin {"idle", "found"}
  /\ conn'[c].session = s
  /\ conn[c].at = "found" => queue'[s].connection_id = c
  /\ conn[c].at = "destroy" => pc = "done"
  /\ pc = "woken" => \/ Spurious \/ queue'[s].events # <<>>
                     \/ ~Pops(queue'[s], c)
  /\ pc = "expired" => conn[c].at = "timing" /\ (LongTimeout => ~InUse(s))
  /\ pc = "unlink" => conn[c].at = "expired"
  /\ pc = "destroy" => conn[c].at = "unlink" /\ Live(s)

Moves(c) == conn'[c] = conn[c] \/ Opens(c) \/ GoesOn(c)

\* A queue keeps its connection and its memory, and loses no event.
Holds(s) ==
  /\ SameQueue(queue[s], queue'[s])
  /\ queue[s].events # <<>> => queue'[s].events # <<>>

IsMade(s) ==
  /\ queue[s].memory = "none" /\ queue'[s] = create_event_queue
  /\ conn' = conn

IsTaken(c, s) ==
  /\ conn[c].at = "found" /\ conn[c].session = s
  /\ queue'[s].connection_id = c
  /\ queue'[s].memory = queue[s].memory /\ queue'[s].exit = queue[s].exit

Loses(c, s) ==
  /\ conn'[c].at = "write" /\ SameQueue(queue[s], queue'[s])
  /\ queue[s].connection_id = c

IsGone(s) ==
  /\ s \notin Listed /\ queue'[s] = destroy_event_queue
  /\ \/ queue[s].exit
     \/ \E c \in Conn : conn[c].session = s /\ conn[c].at = "destroy"
                        /\ conn'[c].at # "destroy"

IsTold(s) ==
  /\ stop # "no" /\ queue'[s].exit
  /\ queue'[s].connection_id = queue[s].connection_id

Changes(s) ==
  \/ Holds(s) \/ IsMade(s) \/ IsGone(s) \/ IsTold(s)
  \/ \E c \in Conn : IsTaken(c, s) \/ Loses(c, s)

\* The list keeps its queues, grows by a new one, or loses the queue of a
\* connection that unlinks it.
Relists ==
  \/ Listed' = Listed
  \/ stop # "no" /\ Listed' \subseteq Listed
  \/ \E s \in Session : Listed' = Listed \cup {s} /\ IsMade(s)
  \/ \E c \in Conn :
       /\ conn[c].at = "unlink" /\ conn'[c].at = "destroy"
       /\ Listed' \subseteq Listed
       /\ Listed \subseteq Listed' \cup {conn[c].session}

Asks(r) ==
  LET s == request'[r].session IN
  request'[r].at = "found" =>
    \/ request'[r] = request[r]
    \/ IsMade(s) /\ s \in Session
    \/ /\ s \in Listed /\ (Returns \/ ~Closing(s))
       /\ queue' = queue /\ conn' = conn

Shape ==
  /\ \A c \in Conn : Moves(c)
  /\ \A s \in Session : Changes(s)
  /\ Relists
  /\ \A r \in Request : Asks(r)

LEMMA SameQueues ==
  ASSUME SseInv, queue' = queue
  PROVE  \A s \in Session : Changes(s)
  BY DEF Changes, Holds, SameQueue

LEMMA SameLists ==
  ASSUME event_queue_list' = event_queue_list
  PROVE  Relists
  BY DEF Relists, Listed

LEMMA SameRequests ==
  ASSUME request' = request
  PROVE  \A r \in Request : Asks(r)
  BY DEF Asks

LEMMA GlobalStepShape ==
  ASSUME SseInv, GlobalStep
  PROVE  Shape
  <1>1. UNCHANGED <<queue, conn, event_queue_list, request>>
    BY DEF GlobalStep, Publish, PublishAfterStop, ConsumerWaits, ConsumerPops,
           ConsumerPopsNothing, ConsumerExits, ConsumerSpurious, UseAfterFree,
           StopGlobal, StopJoined, LookupFails, PopNothing, UnlinkAgain, Fault,
           vars, sessionVars, threadVars
  <1>. QED BY <1>1, SameQueues, SameLists, SameRequests DEF Shape, Moves

\* A queue of a session is replaced by one that holds as much.
LEMMA HoldsQueue ==
  ASSUME SseInv, NEW t \in Session, NEW r, queue' = [queue EXCEPT ![t] = r],
         SameQueue(queue[t], r), queue[t].events # <<>> => r.events # <<>>
  PROVE  \A s \in Session : Changes(s)
  <1>1. /\ queue'[t] = r
        /\ \A s \in Session : s # t => queue'[s] = queue[s]
    BY DEF SseInv, SessionType
  <1>. QED BY <1>1 DEF Changes, Holds, SameQueue

\* The thread of a connection goes on and the others stay.
LEMMA ThreadMoves ==
  ASSUME SseInv, NEW c \in Conn, NEW pc \in ConnState, Goto(c, pc),
         conn[c].at \notin {"idle", "found", "done"}, pc \notin {"idle", "found"},
         conn[c].at = "destroy" => pc = "done",
         pc = "woken" => Spurious,
         pc = "expired" =>
           conn[c].at = "timing" /\ (LongTimeout => ~InUse(conn[c].session)),
         pc = "unlink" => conn[c].at = "expired",
         pc = "destroy" => conn[c].at = "unlink" /\ Live(conn[c].session)
  PROVE  \A d \in Conn : Moves(d)
  <1>1. ConnType
    BY DEF SseInv
  <1>2. /\ conn'[c].at = pc /\ conn'[c].session = conn[c].session
        /\ \A d \in Conn : d # c => conn'[d] = conn[d]
    BY <1>1, GotoFacts
  <1>3. GoesOn(c)
    BY <1>2 DEF GoesOn
  <1>. QED BY <1>2, <1>3 DEF Moves

LEMMA SubscribeShape ==
  ASSUME SseInv, NEW r \in Request,
         \/ \E s \in Session, x \in Service \cup {Log} :
              SubscribeNew(r, s, x) \/ SubscribeFinds(r, s, x)
         \/ SubscribeToggles(r)
  PROVE  Shape
  <1>0. conn' = conn
    BY DEF SubscribeNew, SubscribeFinds, SubscribeToggles
  <1>1. \A c \in Conn : Moves(c)
    BY <1>0 DEF Moves
  <1>2. request \in [Request -> [at : {"idle", "found"},
                                 session : Session \cup {NULL},
                                 what : Service \cup {Log, NULL}]]
    BY DEF SseInv, RequestType
  <1>3. ASSUME NEW s \in Session, NEW x \in Service \cup {Log},
               SubscribeNew(r, s, x)
        PROVE  Shape
    <2> DEFINE n == [at |-> "found", session |-> s, what |-> x]
    <2>1. /\ queue[s].memory = "none"
          /\ queue' = [queue EXCEPT ![s] = create_event_queue]
          /\ event_queue_list' = Append(event_queue_list, s)
          /\ request' = [request EXCEPT ![r] = n]
      BY <1>3 DEF SubscribeNew
    <2>2. IsMade(s) /\ \A t \in Session : t # s => queue'[t] = queue[t]
      BY <1>0, <2>1 DEF IsMade, SseInv, SessionType
    <2>3. \A t \in Session : Changes(t)
      BY <2>2 DEF Changes, Holds, SameQueue
    <2>4. Listed' = Listed \cup {s}
      <3> DEFINE l == event_queue_list
      <3>1. l \in Seq(Session) /\ l' = Append(l, s)
        BY <2>1 DEF SseInv, SessionType
      <3>2. Listed = {l[i] : i \in 1..Len(l)} /\ Listed' = {l'[i] : i \in 1..Len(l')}
        BY DEF Listed
      <3> HIDE DEF l
      <3>3. /\ Len(l') = Len(l) + 1 /\ Len(l) \in Nat
            /\ l'[Len(l) + 1] = s /\ \A i \in 1..Len(l) : l'[i] = l[i]
        BY <3>1
      <3>. QED BY <3>2, <3>3
    <2>5. Relists
      BY <2>2, <2>4 DEF Relists
    <2>6. ASSUME NEW p \in Request
          PROVE  Asks(p)
      <3>1. request'[p] = request[p] \/ request'[p] = n
        BY <1>2, <2>1
      <3>. QED BY <2>2, <3>1 DEF Asks
    <2>. QED BY <1>1, <2>3, <2>5, <2>6 DEF Shape
  <1>4. ASSUME NEW s \in Session, NEW x \in Service \cup {Log},
               SubscribeFinds(r, s, x)
        PROVE  Shape
    <2> DEFINE n == [at |-> "found", session |-> s, what |-> x]
    <2>1. /\ s \in Listed /\ (Returns \/ ~Closing(s)) /\ queue' = queue
          /\ event_queue_list' = event_queue_list
          /\ request' = [request EXCEPT ![r] = n]
      BY <1>4 DEF SubscribeFinds, sessionVars
    <2>2. ASSUME NEW p \in Request
          PROVE  Asks(p)
      <3>1. request'[p] = request[p] \/ request'[p] = n
        BY <1>2, <2>1
      <3>. QED BY <1>0, <2>1, <3>1 DEF Asks
    <2>. QED BY <1>1, <2>1, <2>2, SameQueues, SameLists DEF Shape
  <1>5. CASE SubscribeToggles(r)
    <2> DEFINE s == request[r].session
               q == Toggled(queue[s], request[r].what)
    <2>1. /\ request[r].at = "found" /\ event_queue_list' = event_queue_list
          /\ queue' = [queue EXCEPT ![s] = q]
          /\ request' = [request EXCEPT ![r] = NoRequest]
      BY <1>5 DEF SubscribeToggles
    <2>2. s \in Session /\ request[r].what \in Service \cup {Log}
      BY <2>1 DEF SseInv, ListInv, RequestsHaveQueues
    <2>3. queue[s] \in Queue
      BY <2>2 DEF SseInv, SessionType
    <2>4. SameQueue(queue[s], q) /\ q.events = queue[s].events
      BY <2>2, <2>3, ToggledQueue
    <2> HIDE DEF q, s
    <2>5. \A t \in Session : Changes(t)
      BY <2>1, <2>2, <2>4, HoldsQueue
    <2>6. ASSUME NEW p \in Request
          PROVE  Asks(p)
      <3>1. request'[p] = request[p] \/ request'[p].at = "idle"
        BY <1>2, <2>1 DEF NoRequest
      <3>. QED BY <3>1 DEF Asks
    <2>. QED BY <1>1, <2>1, <2>5, <2>6, SameLists DEF Shape
  <1>. QED BY <1>3, <1>4, <1>5

LEMMA OpenShape ==
  ASSUME SseInv, NEW c \in Conn, NEW s \in Session, Open(c, s)
  PROVE  Shape
  <1> DEFINE n == [at |-> "found", session |-> s]
  <1>1. /\ conn[c].at = "idle" /\ s \in Listed /\ conn' = [conn EXCEPT ![c] = n]
        /\ Returns \/ \A d \in Conn : conn[d].session = s => conn[d].at = "done"
        /\ UNCHANGED <<queue, event_queue_list, request>>
    BY DEF Open, At, Of, sessionVars
  <1>2. /\ conn'[c] = n /\ n.at = "found" /\ n.session = s
        /\ \A d \in Conn : d # c => conn'[d] = conn[d]
    BY <1>1 DEF SseInv, ConnType
  <1> HIDE DEF n
  <1>3. Opens(c)
    BY <1>1, <1>2 DEF Opens
  <1>. QED BY <1>1, <1>2, <1>3, SameQueues, SameLists, SameRequests
              DEF Shape, Moves

\* Only the threads of the queues whose condition is signalled are woken.
LEMMA WokenOnly ==
  ASSUME NEW S, NEW c \in Conn, conn[c].session \notin S
  PROVE  Woken(S)[c] = conn[c]
  BY DEF Woken, Of

\* A thread that is woken finds an event, or is told that it need not.
LEMMA WokenMoves ==
  ASSUME SseInv, NEW S, NEW c \in Conn, conn'[c] = Woken(S)[c],
         conn[c].session \in S =>
           \/ queue'[conn[c].session].events # <<>>
           \/ ~Pops(queue'[conn[c].session], c)
  PROVE  Moves(c)
  <1>1. ConnType
    BY DEF SseInv
  <1>2. /\ conn'[c].session = conn[c].session
        /\ \/ conn'[c].at = conn[c].at
           \/ conn[c].at = "waiting" /\ conn'[c].at = "woken"
           \/ conn[c].at = "timing" /\ conn'[c].at = "signalled"
    BY <1>1, WokenFacts
  <1>3. CASE conn[c].session \notin S
    BY <1>3, WokenOnly DEF Moves
  <1>4. CASE conn[c].session \in S /\ conn'[c].at # conn[c].at
    <2>1. GoesOn(c)
      BY <1>2, <1>4 DEF GoesOn
    <2>. QED BY <2>1 DEF Moves
  <1>5. CASE conn'[c].at = conn[c].at
    <2>1. conn'[c] \in ConnRecords /\ conn[c] \in ConnRecords
      BY <1>1, WokenFacts DEF ConnType
    <2>2. conn'[c] = conn[c]
      BY <1>2, <1>5, <2>1 DEF ConnRecords
    <2>. QED BY <2>2 DEF Moves
  <1>. QED BY <1>3, <1>4, <1>5

LEMMA TakeOverShape ==
  ASSUME SseInv, NEW c \in Conn, TakeOver(c)
  PROVE  Shape
  <1> DEFINE s == conn[c].session
             r == [queue[s] EXCEPT !.connection_id = c]
             w == IF /\ queue[s].is_waiting = "WAIT_FOR_TIMEOUT"
                     /\ queue[s].connection_id # NULL
                    THEN Woken({s}) ELSE conn
             x == [w[c] EXCEPT !.at = "set"]
  <1>1. /\ queue' = [queue EXCEPT ![s] = r] /\ conn' = [w EXCEPT ![c] = x]
        /\ conn[c].at = "found"
        /\ UNCHANGED <<event_queue_list, request>>
    BY DEF TakeOver, At, Of
  <1>2. s \in Session /\ queue \in [Session -> Queue] /\ ConnType
    BY <1>1 DEF SseInv, SessionType, ListInv, ConnsHaveQueues
  <1>3. r.connection_id = c /\ r.memory = queue[s].memory
        /\ r.exit = queue[s].exit
    <2> DEFINE q == queue[s]
    <2>1. q \in Queue
      BY <1>2
    <2> HIDE DEF q
    <2>2. /\ [q EXCEPT !.connection_id = c].connection_id = c
          /\ [q EXCEPT !.connection_id = c].memory = q.memory
          /\ [q EXCEPT !.connection_id = c].exit = q.exit
      BY <2>1, FieldsOfQueue
    <2>. QED BY <2>2 DEF q
  <1> HIDE DEF r
  <1>4. /\ queue'[s] = r
        /\ \A t \in Session : t # s => queue'[t] = queue[t]
    BY <1>1, <1>2
  <1>5. \A t \in Session : Changes(t)
    <2>1. IsTaken(c, s)
      BY <1>1, <1>3, <1>4 DEF IsTaken
    <2>. QED BY <1>4, <2>1 DEF Changes, Holds, SameQueue
  <1>6. /\ w \in [Conn -> ConnRecords]
        /\ w = conn \/ w = Woken({s})
    <2>1. CASE w = conn
      BY <1>2, <2>1 DEF ConnType
    <2>2. CASE w = Woken({s})
      <3>. HIDE DEF w, s
      <3>. QED BY <1>2, <2>2, WokenFacts
    <2>. QED BY <2>1, <2>2
  <1> HIDE DEF w, s
  <1>7. w[c].session = s /\ x.at = "set" /\ x.session = s
    <2>1. w[c].session = s
      BY <1>2, <1>6, WokenFacts DEF s
    <2>. QED BY <1>6, <2>1 DEF ConnRecords
  <1> HIDE DEF x
  <1>8. /\ conn'[c] = x
        /\ \A d \in Conn : d # c => conn'[d] = w[d]
    BY <1>1, <1>6
  <1>9. GoesOn(c)
    BY <1>1, <1>3, <1>4, <1>7, <1>8 DEF GoesOn, s
  <1>10. ASSUME NEW d \in Conn, d # c
         PROVE  Moves(d)
    <2>1. CASE w = conn
      BY <1>8, <1>10, <2>1 DEF Moves
    <2>2. CASE w = Woken({s})
      <3>1. ~Pops(queue'[s], d)
        BY <1>3, <1>4, <1>10, EventQueueAssumption DEF Pops, TakenOver
      <3>2. conn'[d] = Woken({s})[d]
        BY <1>8, <1>10, <2>2
      <3>3. conn[d].session \in {s} => ~Pops(queue'[conn[d].session], d)
        BY <3>1
      <3>. QED BY <3>2, <3>3, WokenMoves
    <2>. QED BY <1>6, <2>1, <2>2
  <1>11. \A d \in Conn : Moves(d)
    BY <1>9, <1>10 DEF Moves
  <1>. QED BY <1>1, <1>5, <1>11, SameLists, SameRequests DEF Shape

\* What a thread does to its queue while it keeps it.
LEMMA ProgressShape ==
  ASSUME SseInv, NEW c \in Conn,
         \/ Respond(c) \/ Lookup(c) \/ Closed(c) \/ Wait(c) \/ WakeSpuriously(c)
         \/ DequeueNull(c) \/ Write(c) \/ FreeLookup(c)
         \/ StartTimeout(c) \/ Expire(c) \/ EndTimeout(c)
  PROVE  Shape
  <1> DEFINE s == Of(c)
             q == queue[s]
  <1>1. /\ conn[c].at \notin {"idle", "found", "done", "destroy"}
        /\ UNCHANGED <<event_queue_list, request>>
    BY DEF Respond, Lookup, Closed, Wait, WakeSpuriously, DequeueNull, Dequeues,
           Write, FreeLookup, StartTimeout, Expire, EndTimeout, At, sessionVars
  <1>2. s \in Session /\ q \in Queue
    BY <1>1 DEF SseInv, SessionType, ListInv, ConnsHaveQueues, Of
  <1>3. {"callback", "dequeue", "waiting", "woken", "null", "free", "grace",
         "timing", "expired", "signalled", "unlink", "done"} \subseteq ConnState
    BY DEF ConnState
  <1>4. \E pc \in {"callback", "dequeue", "waiting", "woken", "null", "free",
                   "grace", "timing", "expired", "signalled", "unlink", "done"} :
          /\ Goto(c, pc)
          /\ pc = "woken" => Spurious
          /\ pc = "expired" =>
               conn[c].at = "timing" /\ (LongTimeout => ~InUse(s))
          /\ pc = "unlink" => conn[c].at = "expired"
    BY DEF Respond, Lookup, Closed, Wait, WakeSpuriously, DequeueNull,
           Write, FreeLookup, StartTimeout, Expire, EndTimeout, At
  <1>5. \A d \in Conn : Moves(d)
    BY <1>1, <1>3, <1>4, ThreadMoves DEF Of
  <1>6. \/ queue' = queue
        \/ \E w \in {"NO", "YES", "WAIT_FOR_TIMEOUT"} :
             queue' = [queue EXCEPT ![s] = [q EXCEPT !.is_waiting = w]]
        \/ queue' = [queue EXCEPT ![s] = q]
    BY DEF Respond, Lookup, Closed, Wait, WakeSpuriously, DequeueNull, AfterWait,
           Write, FreeLookup, StartTimeout, Expire, EndTimeout, sessionVars
  <1> HIDE DEF q
  <1>7. \A t \in Session : Changes(t)
    <2>1. CASE queue' = queue
      BY <2>1, SameQueues
    <2>2. CASE queue' = [queue EXCEPT ![s] = q]
      <3>1. queue' = queue
        BY <1>2, <2>2 DEF q, SseInv, SessionType
      <3>. QED BY <3>1, SameQueues
    <2>3. ASSUME NEW w \in {"NO", "YES", "WAIT_FOR_TIMEOUT"},
                 queue' = [queue EXCEPT ![s] = [q EXCEPT !.is_waiting = w]]
          PROVE  \A t \in Session : Changes(t)
      <3> DEFINE r == [q EXCEPT !.is_waiting = w]
      <3>1. SameQueue(q, r) /\ r.events = q.events
        BY <1>2, FieldsOfQueue
      <3>2. queue' = [queue EXCEPT ![s] = r]
        BY <2>3
      <3> HIDE DEF r, s
      <3>. QED BY <1>2, <3>1, <3>2, HoldsQueue DEF q
    <2>. QED BY <1>6, <2>1, <2>2, <2>3
  <1>. QED BY <1>1, <1>5, <1>7, SameLists, SameRequests DEF Shape

LEMMA PopShape ==
  ASSUME SseInv, NEW c \in Conn, Pop(c)
  PROVE  Shape
  <1> DEFINE s == Of(c)
             q == queue[s]
             a == AfterWait(c)
             r == dequeued(a)
  <1>1. /\ conn[c].at \in {"woken", "dequeue"} /\ Pops(q, c) /\ q.events # <<>>
        /\ queue' = [queue EXCEPT ![s] = r] /\ Goto(c, "write")
        /\ UNCHANGED <<event_queue_list, request>>
    BY DEF Pop, Dequeues, At
  <1>2. s \in Session /\ q \in Queue
    BY <1>1 DEF SseInv, SessionType, ListInv, ConnsHaveQueues, Of
  <1>3. a \in Queue /\ SameQueue(q, a) /\ a.events = q.events
    <2> HIDE DEF q
    <2>1. CASE conn[c].at = "woken"
      <3>1. a = [q EXCEPT !.is_waiting = "NO"]
        BY <2>1 DEF AfterWait, q
      <3> HIDE DEF a
      <3>. QED BY <1>2, <3>1, FieldsOfQueue
    <2>2. CASE conn[c].at # "woken"
      BY <1>2, <2>2 DEF AfterWait, q, SameQueue
    <2>. QED BY <2>1, <2>2
  <1> HIDE DEF a, q
  <1>4. SameQueue(q, r)
    BY <1>1, <1>3, Dequeued DEF SameQueue
  <1>5. q.connection_id = c
    BY <1>1, EventQueueAssumption DEF Pops, TakenOver
  <1> HIDE DEF r
  <1>6. "write" \in ConnState
    BY DEF ConnState
  <1>7. conn'[c].at = "write" /\ \A d \in Conn : Moves(d)
    <2>1. \A d \in Conn : Moves(d)
      BY <1>1, <1>6, ThreadMoves
    <2>. QED BY <1>1, <1>6, <2>1, GotoFacts DEF SseInv
  <1>8. \A t \in Session : Changes(t)
    <2>1. queue'[s] = r /\ \A t \in Session : t # s => queue'[t] = queue[t]
      BY <1>1, <1>2 DEF SseInv, SessionType
    <2>2. Loses(c, s)
      BY <1>4, <1>5, <1>7, <2>1 DEF Loses, q
    <2>. QED BY <2>1, <2>2 DEF Changes, Holds, SameQueue
  <1>. QED BY <1>1, <1>7, <1>8, SameLists, SameRequests DEF Shape

LEMMA DestroyShape ==
  ASSUME SseInv, NEW c \in Conn, ReturnNull(c) \/ Destroy(c)
  PROVE  Shape
  <1> DEFINE s == conn[c].session
  <1>1. /\ conn[c].at \in {"null", "destroy"}
        /\ UNCHANGED <<event_queue_list, request>>
        /\ Goto(c, "free") \/ Goto(c, "done")
        /\ conn[c].at = "destroy" => Goto(c, "done")
        /\ \/ queue' = queue
           \/ /\ queue' = [queue EXCEPT ![s] = destroy_event_queue]
              /\ queue[s].exit \/ conn[c].at = "destroy"
    BY DEF ReturnNull, Destroy, At, Of
  <1>2. s \in Session
    BY <1>1 DEF SseInv, ListInv, ConnsHaveQueues
  <1>3. "free" \in ConnState /\ "done" \in ConnState
    BY DEF ConnState
  <1>4. \A d \in Conn : Moves(d)
    BY <1>1, <1>3, ThreadMoves
  <1>5. conn[c].at = "destroy" => conn'[c].at = "done"
    BY <1>1, <1>3, GotoFacts DEF SseInv
  <1>6. \A t \in Session : Changes(t)
    <2>1. CASE queue' = queue
      BY <2>1, SameQueues
    <2>2. CASE /\ queue' = [queue EXCEPT ![s] = destroy_event_queue]
               /\ queue[s].exit \/ conn[c].at = "destroy"
      <3>1. /\ queue'[s] = destroy_event_queue
            /\ \A t \in Session : t # s => queue'[t] = queue[t]
        BY <1>2, <2>2 DEF SseInv, SessionType
      <3>2. s \notin Listed
        BY <1>2, <2>2 DEF SseInv, ListInv, ExitsAreUnlisted, DestroyedAreUnlisted
      <3>3. IsGone(s)
        BY <1>5, <2>2, <3>1, <3>2 DEF IsGone
      <3>. QED BY <3>1, <3>3 DEF Changes, Holds, SameQueue
    <2>. QED BY <1>1, <2>1, <2>2
  <1>. QED BY <1>1, <1>4, <1>6, SameLists, SameRequests DEF Shape

\* DL_DELETE takes no other element out of the list.
LEMMA DL_DELETE_Keeps ==
  ASSUME NEW S, NEW l \in Seq(S), NEW s \in S, \E i \in 1..Len(l) : l[i] = s,
         NEW i \in 1..Len(l), l[i] # s
  PROVE  \E j \in 1..Len(DL_DELETE(l, s)) : DL_DELETE(l, s)[j] = l[i]
  <1> DEFINE n == CHOOSE k \in 1..Len(l) : l[k] = s
             m == Len(l) - 1
             k == [j \in 1..m |-> IF j < n THEN l[j] ELSE l[j + 1]]
  <1>1. n \in 1..Len(l) /\ l[n] = s
    OBVIOUS
  <1>2. DL_DELETE(l, s) = k
    BY DEF DL_DELETE
  <1> HIDE DEF n
  <1>3. Len(l) \in Nat /\ m \in Nat
    BY <1>1
  <1>4. Len(k) = m
    <2>1. k \in [1..m -> S]
      BY <1>1, <1>3
    <2> HIDE DEF k, m
    <2>. QED BY ONLY <1>3, <2>1
  <1>5. i # n
    BY <1>1
  <1>6. CASE i < n
    BY <1>1, <1>2, <1>3, <1>4, <1>6
  <1>7. CASE n < i
    <2>1. i - 1 \in 1..m /\ ~(i - 1 < n) /\ (i - 1) + 1 = i
      BY <1>1, <1>3, <1>7
    <2>2. k[i - 1] = l[i]
      BY <2>1
    <2> HIDE DEF k, m
    <2>. QED BY <1>2, <1>4, <2>1, <2>2
  <1>. QED BY <1>1, <1>3, <1>5, <1>6, <1>7

LEMMA UnlinkShape ==
  ASSUME SseInv, NEW c \in Conn, Unlink(c)
  PROVE  Shape
  <1> DEFINE l == event_queue_list
             s == conn[c].session
  <1>1. /\ conn[c].at = "unlink" /\ Goto(c, "destroy") /\ Live(s)
        /\ l' = IF s \in Listed THEN DL_DELETE(l, s) ELSE l
        /\ UNCHANGED <<queue, request>>
    BY DEF Unlink, At, Of
  <1>2. s \in Session /\ l \in Seq(Session)
    BY <1>1 DEF SseInv, SessionType, ListInv, ConnsHaveQueues
  <1>3. "destroy" \in ConnState
    BY DEF ConnState
  <1>4. \A d \in Conn : Moves(d)
    BY <1>1, <1>3, ThreadMoves
  <1>5. conn'[c].at = "destroy"
    BY <1>1, <1>3, GotoFacts DEF SseInv
  <1>6. /\ Listed = {l[i] : i \in 1..Len(l)} /\ Listed' = {l'[i] : i \in 1..Len(l')}
        /\ Distinct(l)
    BY DEF Listed, SseInv, ListInv, ListedAreLive, Distinct
  <1> HIDE DEF l
  <1>7. Relists
    <2>1. CASE s \notin Listed
      BY <1>1, <1>6, <2>1 DEF Relists
    <2>2. CASE s \in Listed
      <3>1. l' = DL_DELETE(l, s) /\ \E i \in 1..Len(l) : l[i] = s
        BY <1>1, <1>6, <2>2
      <3> HIDE DEF s
      <3>2. Without(l, s, l')
        BY <1>2, <1>6, <3>1, DL_DELETE_Facts
      <3>3. \A i \in 1..Len(l) : l[i] # s => \E j \in 1..Len(l') : l'[j] = l[i]
        BY <1>2, <3>1, DL_DELETE_Keeps
      <3>4. Listed' \subseteq Listed /\ Listed \subseteq Listed' \cup {s}
        BY <1>6, <3>2, <3>3 DEF Without
      <3>. QED BY <1>1, <1>5, <3>4 DEF Relists, s
    <2>. QED BY <2>1, <2>2
  <1>. QED BY <1>1, <1>4, <1>7, SameQueues, SameRequests DEF Shape

LEMMA StopSessionsShape ==
  ASSUME SseInv, StopSessions
  PROVE  Shape
  <1> DEFINE S == {s \in Listed : queue[s].is_waiting = "YES"}
  <1>1. /\ stop = "run" /\ event_queue_list' = <<>>
        /\ queue' = [s \in Session |->
                       IF s \in Listed THEN [queue[s] EXCEPT !.exit = TRUE]
                       ELSE queue[s]]
        /\ conn' = Woken(S) /\ request' = request
    BY DEF StopSessions
  <1>2. Listed' = {} /\ Listed \subseteq Session /\ S \subseteq Listed
    BY <1>1, ListedAreSessions DEF Listed, SseInv
  <1> HIDE DEF S
  <1>3. ASSUME NEW s \in Listed
        PROVE  /\ queue'[s].connection_id = queue[s].connection_id
               /\ queue'[s].exit
    <2> DEFINE q == queue[s]
               r == [q EXCEPT !.exit = TRUE]
    <2>1. q \in Queue /\ queue'[s] = r
      BY <1>1, <1>2 DEF SseInv, SessionType
    <2> HIDE DEF q
    <2>2. r.connection_id = q.connection_id /\ r.exit
      BY <2>1, FieldsOfQueue
    <2> HIDE DEF r
    <2>. QED BY <2>1, <2>2 DEF q
  <1>4. \A s \in Session : s \notin Listed => queue'[s] = queue[s]
    BY <1>1
  <1>5. \A s \in Session : Changes(s)
    BY <1>1, <1>3, <1>4 DEF Changes, IsTold, Holds, SameQueue
  <1>6. \A c \in Conn : Moves(c)
    <2>1. \A c \in Conn : conn[c].session \in S => ~Pops(queue'[conn[c].session], c)
      BY <1>2, <1>3 DEF Pops
    <2>. QED BY <1>1, <2>1, WokenMoves
  <1>7. Relists
    BY <1>1, <1>2 DEF Relists
  <1>. QED BY <1>1, <1>5, <1>6, <1>7, SameRequests DEF Shape

\* A queue takes an event.
LEMMA QueueEventHolds ==
  ASSUME NEW q \in Queue, NEW e \in Event, NEW r, r = queue_event(q, e, FALSE)
  PROVE  /\ SameQueue(q, r) /\ (q.events # <<>> => r.events # <<>>)
         /\ Signals(q, e, FALSE) => r.events # <<>>
  <1>1. /\ SameQueue(q, r)
        /\ r.events = IF Accepts(q, e, FALSE) THEN Append(q.events, e) ELSE q.events
    BY QueueEvent
  <1>2. q.events \in Seq(Event)
    BY DEF Queue
  <1>3. Append(q.events, e) # <<>>
    BY ONLY <1>2, e \in Event
  <1>. QED BY <1>1, <1>3 DEF Signals

LEMMA CopiesShape ==
  ASSUME SseInv, ConsumerCopies
  PROVE  Shape
  <1> DEFINE S == {s \in Listed : Signals(queue[s], new_event, FALSE)}
  <1>1. /\ queue' = [s \in Session |->
                 IF s \in Listed THEN queue_event(queue[s], new_event, FALSE)
                 ELSE queue[s]]
        /\ conn' = Woken(S) /\ UNCHANGED <<event_queue_list, request>>
    BY DEF ConsumerCopies
  <1>2. new_event \in Event
    BY DEF SseInv, GlobalType, ConsumerCopies
  <1>3. Listed \subseteq Session
    BY ListedAreSessions DEF SseInv
  <1>4. ASSUME NEW s \in Session
        PROVE  Holds(s) /\ (s \in S => queue'[s].events # <<>>)
    <2>1. CASE s \in Listed
      <3> DEFINE q == queue[s]
                 r == queue'[s]
      <3>1. q \in Queue /\ r = queue_event(q, new_event, FALSE)
        BY <1>1, <2>1 DEF SseInv, SessionType
      <3>2. s \in S => Signals(q, new_event, FALSE)
        OBVIOUS
      <3> HIDE DEF q, r, S
      <3>3. /\ SameQueue(q, r) /\ (q.events # <<>> => r.events # <<>>)
            /\ Signals(q, new_event, FALSE) => r.events # <<>>
        BY <1>2, <3>1, QueueEventHolds
      <3>. QED BY <3>2, <3>3 DEF Holds, q, r
    <2>2. CASE s \notin Listed
      BY <1>1, <2>2 DEF Holds, SameQueue
    <2>. QED BY <2>1, <2>2
  <1>5. S \subseteq Session
    BY <1>3
  <1> HIDE DEF S
  <1>6. \A c \in Conn : Moves(c)
    BY <1>1, <1>4, <1>5, WokenMoves
  <1>7. \A s \in Session : Changes(s)
    BY <1>4 DEF Changes
  <1>. QED BY <1>1, <1>6, <1>7, SameLists, SameRequests DEF Shape

LEMMA NotifyShape ==
  ASSUME SseInv, NEW v \in Service, NEW a \in {"available", "unavailable"},
         notify_service_availability(v, a)
  PROVE  Shape
  <1> DEFINE e == [id |-> v, n |-> created + 1, direct |-> TRUE]
             T == {s \in Listed : is_subscribed(queue[s], v)}
             S == {s \in T : Signals(queue[s], e, FALSE)}
  <1>1. /\ queue' = [s \in Session |->
                 IF s \in T
                   THEN queue_event(set_availability(queue[s], v, a), e, FALSE)
                   ELSE queue[s]]
        /\ conn' = Woken(S) /\ UNCHANGED <<event_queue_list, request>>
        /\ created < MaxEvents /\ created' = created + 1
    BY DEF notify_service_availability
  <1>2. e \in Event
    BY <1>1, NewEvent
  <1>3. Listed \subseteq Session
    BY ListedAreSessions DEF SseInv
  <1>4. ASSUME NEW s \in Session
        PROVE  Holds(s) /\ (s \in S => queue'[s].events # <<>>)
    <2>1. CASE s \in T
      <3> DEFINE q == queue[s]
                 b == set_availability(q, v, a)
                 r == queue'[s]
      <3>1. q \in Queue /\ r = queue_event(b, e, FALSE)
        BY <1>1, <2>1 DEF SseInv, SessionType
      <3>2. e.id = v /\ v # Log
        BY EventQueueAssumption
      <3> HIDE DEF q, r, S, e
      <3>3. b \in Queue /\ SameQueue(q, b) /\ b.events = q.events
        BY <3>1, AvailableQueue
      <3>4. is_subscribed(b, v)
        BY <3>1 DEF set_availability, is_subscribed, Queue
      <3> HIDE DEF b
      <3>5. /\ SameQueue(b, r)
            /\ r.events = IF Accepts(b, e, FALSE) THEN Append(b.events, e)
                          ELSE b.events
        BY <1>2, <3>1, <3>3, QueueEvent
      <3>6. Accepts(b, e, FALSE)
        BY <3>2, <3>4 DEF Accepts
      <3>7. Append(b.events, e) # <<>>
        <4>1. b.events \in Seq(Event)
          BY <3>3 DEF Queue
        <4>. QED BY ONLY <1>2, <4>1
      <3>. QED BY <3>3, <3>5, <3>6, <3>7 DEF Holds, SameQueue, q, r
    <2>2. CASE s \notin T
      BY <1>1, <2>2 DEF Holds, SameQueue
    <2>. QED BY <2>1, <2>2
  <1>5. S \subseteq Session
    BY <1>3
  <1> HIDE DEF S
  <1>6. \A c \in Conn : Moves(c)
    BY <1>1, <1>4, <1>5, WokenMoves
  <1>7. \A s \in Session : Changes(s)
    BY <1>4 DEF Changes
  <1>. QED BY <1>1, <1>6, <1>7, SameLists, SameRequests DEF Shape

LEMMA StepShape ==
  ASSUME SseInv, [Next]_vars
  PROVE  Shape
  <1>1. CASE GlobalStep
    BY <1>1, GlobalStepShape
  <1>2. CASE SessionStep
    BY <1>2, SubscribeShape, OpenShape, TakeOverShape, ProgressShape, PopShape,
       DestroyShape, UnlinkShape, StopSessionsShape DEF SessionStep
  <1>3. CASE ConsumerCopies
    BY <1>3, CopiesShape
  <1>4. CASE \E v \in Service, a \in {"available", "unavailable"} :
               notify_service_availability(v, a)
    BY <1>4, NotifyShape
  <1>. QED BY <1>1, <1>2, <1>3, <1>4, StepKinds

-----------------------------------------------------------------------------
(* The causes of an undefined operation.                                    *)

\* Without spurious wake-ups a thread that has been woken finds an event, unless
\* its queue has another connection by then or the program is exiting.
WokenFinds ==
  ~Spurious =>
    /\ consumer = "woken" =>
         global_event_queue.events # <<>> \/ global_event_queue.exit
    /\ \A c \in Conn :
         conn[c].at = "woken" /\ Live(Of(c)) /\ Pops(queue[Of(c)], c) =>
           queue[Of(c)].events # <<>>

\* A queue in the list has the id of a connection once one has come so far.
HasId ==
  \A c \in Conn :
    conn[c].at \notin {"idle", "found"} /\ Of(c) \in Listed =>
      queue[Of(c)].connection_id # NULL

\* Only HPD_stop tells queues to exit.
NothingExits ==
  ~Stops =>
    /\ stop = "no" /\ global_event_queue.memory = "live"
    /\ ~global_event_queue.exit /\ \A s \in Session : ~queue[s].exit

\* Clients that do not come back have one connection of a session at a time,
\* whose queue stays in the list until it removes it.
OneConnection ==
  ~Stops /\ ~Returns =>
    \A c \in Conn :
      /\ conn[c].at \notin {"idle", "done"} =>
           \A d \in Conn \ {c} : Of(d) = Of(c) => conn[d].at = "done"
      /\ conn[c].at \notin {"idle", "done", "destroy"} => Of(c) \in Listed
      /\ conn[c].at = "destroy" => Live(Of(c))

\* A subscription request that ends before the timeout keeps its queue.
RequestsHold ==
  ~Stops /\ ~Returns /\ LongTimeout =>
    \A r \in Request : request[r].at = "found" =>
      /\ Live(request[r].session)
      /\ \A c \in Conn : Of(c) = request[r].session =>
           conn[c].at \notin {"expired", "unlink", "destroy"}

CauseInv ==
  /\ WokenFinds /\ HasId /\ NothingExits /\ OneConnection /\ RequestsHold

\* What a publisher adds to the global queue, and what its thread sets.
LEMMA GlobalQueueSteps ==
  ASSUME SseInv, [Next]_vars, ~global_event_queue.exit, stop = "no",
         global_event_queue.memory = "live"
  PROVE  /\ stop' = "no"
         /\ ~global_event_queue'.exit /\ global_event_queue'.memory = "live"
  <1> DEFINE q == global_event_queue
  <1>0. q \in Queue
    BY DEF SseInv, GlobalType
  <1>1. CASE \E id \in Service \cup {Log} : Publish(id)
    <2>1. PICK id \in Service \cup {Log} : Publish(id)
      BY <1>1
    <2> DEFINE e == [id |-> id, n |-> created + 1, direct |-> FALSE]
    <2>2. /\ created < MaxEvents /\ created' = created + 1 /\ stop' = stop
          /\ q' = queue_event(q, e, TRUE)
      BY <2>1 DEF Publish, threadVars
    <2>3. e \in Event
      BY <2>2, NewEvent
    <2> HIDE DEF e, q
    <2>4. SameQueue(q, q')
      BY <1>0, <2>2, <2>3, QueueEvent
    <2>. QED BY <2>2, <2>4 DEF SameQueue, q
  <1>2. CASE ConsumerWaits
    <2>1. q' = [q EXCEPT !.is_waiting = "YES"] /\ stop' = stop
      BY <1>2 DEF ConsumerWaits, threadVars
    <2> HIDE DEF q
    <2>2. SameQueue(q, q')
      BY <1>0, <2>1, FieldsOfQueue
    <2>. QED BY <2>1, <2>2 DEF SameQueue, q
  <1>3. CASE ConsumerPops
    <2> DEFINE r == [q EXCEPT !.is_waiting = "NO"]
    <2>1. q' = dequeued(r) /\ stop' = stop /\ q.events # <<>>
      BY <1>3 DEF ConsumerPops, threadVars
    <2> HIDE DEF q
    <2>2. r \in Queue /\ SameQueue(q, r) /\ r.events = q.events
      BY <1>0, FieldsOfQueue
    <2> HIDE DEF r
    <2>3. SameQueue(r, q')
      BY <2>1, <2>2, Dequeued
    <2>. QED BY <2>1, <2>2, <2>3 DEF SameQueue, q
  <1>4. CASE ConsumerExits
    BY <1>4 DEF ConsumerExits, Pops, TakenOver
  <1>5. CASE StopGlobal \/ StopJoined \/ StopSessions
    BY <1>5 DEF StopGlobal, StopJoined, StopSessions
  <1>6. CASE q' = q /\ stop' = stop
    BY <1>6
  <1>7. \/ \E id \in Service \cup {Log} : Publish(id)
        \/ ConsumerWaits \/ ConsumerPops \/ ConsumerExits
        \/ StopGlobal \/ StopJoined \/ StopSessions
        \/ q' = q /\ stop' = stop
    <2>1. CASE GlobalStep
      BY <2>1 DEF GlobalStep, PublishAfterStop, ConsumerPopsNothing,
         ConsumerSpurious, UseAfterFree, LookupFails, PopNothing, UnlinkAgain,
         Fault, vars, globalVars, threadVars
    <2>2. CASE SessionStep
      BY <2>2 DEF SessionStep, SubscribeNew, SubscribeFinds, SubscribeToggles,
         Open, TakeOver, Respond, Lookup, Wait, Pop, DequeueNull, ReturnNull,
         Write, FreeLookup, StartTimeout, Expire, EndTimeout, Unlink, Destroy,
         Closed, WakeSpuriously, globalVars
    <2>3. CASE \/ ConsumerCopies
               \/ \E v \in Service, a \in {"available", "unavailable"} :
                    notify_service_availability(v, a)
      BY <2>3 DEF ConsumerCopies, notify_service_availability, globalVars
    <2>. QED BY <2>1, <2>2, <2>3, StepKinds
  <1>. QED BY <1>1, <1>2, <1>3, <1>4, <1>5, <1>6, <1>7

LEMMA NothingExitsStep ==
  ASSUME SseInv, SseInv', [Next]_vars, NothingExits
  PROVE  NothingExits'
  <1> SUFFICES ASSUME ~Stops PROVE NothingExits'
    BY DEF NothingExits
  <1>1. stop' = "no" /\ ~global_event_queue'.exit
        /\ global_event_queue'.memory = "live"
    BY GlobalQueueSteps DEF NothingExits
  <1>2. ASSUME NEW s \in Session
        PROVE  ~queue'[s].exit
    <2>1. Changes(s) /\ ~queue[s].exit /\ stop = "no"
      BY StepShape DEF Shape, NothingExits
    <2>. QED BY <2>1, NewQueues
         DEF Changes, Holds, SameQueue, IsMade, IsGone, IsTold, IsTaken, Loses
  <1>. QED BY <1>1, <1>2 DEF NothingExits

LEMMA HasIdStep ==
  ASSUME SseInv, SseInv', [Next]_vars, HasId
  PROVE  HasId'
  <1> SUFFICES ASSUME NEW c \in Conn, conn'[c].at \notin {"idle", "found"},
                      conn'[c].session \in Listed'
               PROVE  queue'[conn'[c].session].connection_id # NULL
    BY DEF HasId, Of
  <1> DEFINE s == conn'[c].session
  <1>1. Moves(c) /\ Relists
    BY StepShape DEF Shape
  <1>2. conn[c].session = s /\ conn[c].at # "idle"
        /\ (conn[c].at = "found" => queue'[s].connection_id = c)
    BY <1>1 DEF Moves, Opens, GoesOn
  <1>3. CASE conn[c].at = "found"
    BY <1>2, <1>3, EventQueueAssumption
  <1>4. CASE conn[c].at # "found"
    <2>1. s \in Session /\ queue[s].memory # "none"
      BY <1>2 DEF SseInv, ListInv, ConnsHaveQueues
    <2>2. s \in Listed
      BY <1>1, <2>1 DEF Relists, IsMade
    <2>3. queue[s].connection_id # NULL
      BY <1>2, <1>4, <2>2 DEF HasId, Of
    <2>4. Changes(s)
      BY <2>1, StepShape DEF Shape
    <2>. QED BY <2>1, <2>2, <2>3, <2>4, EventQueueAssumption
         DEF Changes, Holds, SameQueue, IsMade, IsGone, IsTold, IsTaken, Loses
  <1>. QED BY <1>3, <1>4

LEMMA OneConnectionStep ==
  ASSUME SseInv, SseInv', [Next]_vars, NothingExits, OneConnection
  PROVE  OneConnection'
  <1> SUFFICES ASSUME ~Stops, ~Returns PROVE OneConnection'
    BY DEF OneConnection
  <1>0. /\ \A c \in Conn : Moves(c)
        /\ \A s \in Session : Changes(s)
        /\ Relists /\ stop = "no"
    BY StepShape DEF Shape, NothingExits
  <1>1. ASSUME NEW c \in Conn, conn'[c].at \notin {"idle", "done"}
        PROVE  \A d \in Conn \ {c} :
                 conn'[d].session = conn'[c].session =>
                   conn'[d].at = "done" /\ conn[d].at = "done"
                   /\ conn[d].session = conn'[c].session
    <2> TAKE d \in Conn \ {c}
    <2> HAVE conn'[d].session = conn'[c].session
    <2>1. Moves(c) /\ Moves(d)
      BY <1>0
    <2>2. CASE Opens(c)
      BY <2>2 DEF Opens
    <2>3. CASE ~Opens(c)
      <3>1. conn[c].session = conn'[c].session /\ conn[c].at \notin {"idle", "done"}
        BY <1>1, <2>1, <2>3 DEF Moves, GoesOn
      <3>2. ~Opens(d)
        BY <3>1 DEF Opens
      <3>3. conn[d].session = conn'[d].session
        BY <2>1, <3>2 DEF Moves, GoesOn
      <3>4. conn[d].at = "done"
        BY <3>1, <3>3 DEF OneConnection, Of
      <3>. QED BY <2>1, <3>2, <3>3, <3>4 DEF Moves, GoesOn
    <2>. QED BY <2>2, <2>3
  <1>2. ASSUME NEW c \in Conn, conn'[c].at \notin {"idle", "done", "destroy"}
        PROVE  conn'[c].session \in Listed'
    <2>1. conn'[c].session \in Listed
      <3>1. CASE Opens(c)
        BY <3>1 DEF Opens
      <3>2. CASE ~Opens(c)
        BY <1>0, <1>2, <3>2 DEF Moves, GoesOn, OneConnection, Of
      <3>. QED BY <3>1, <3>2
    <2>2. ASSUME NEW d \in Conn, conn[d].at = "unlink", conn'[d].at = "destroy"
          PROVE  conn[d].session # conn'[c].session
      <3>1. d # c /\ conn'[d].session = conn[d].session
        BY <1>0, <1>2, <2>2 DEF Moves, Opens, GoesOn
      <3>. QED BY <1>1, <1>2, <2>2, <3>1
    <2>. QED BY <1>0, <2>1, <2>2 DEF Relists
  <1>3. ASSUME NEW c \in Conn, conn'[c].at = "destroy"
        PROVE  Live(Of(c))'
    <2> DEFINE s == conn'[c].session
    <2>1. /\ conn[c].session = s /\ queue[s].memory = "live"
          /\ conn[c].at \notin {"idle", "done"}
      <3>1. CASE conn'[c] = conn[c]
        BY <1>3, <3>1 DEF OneConnection, Of, Live
      <3>2. CASE GoesOn(c)
        BY <1>3, <3>2 DEF GoesOn, Live
      <3>. QED BY <1>0, <1>3, <3>1, <3>2 DEF Moves, Opens
    <2>2. s \in Session
      BY <2>1 DEF SseInv, ListInv, ConnsHaveQueues
    <2>3. ~IsGone(s)
      <3> SUFFICES ASSUME NEW d \in Conn, conn[d].session = s,
                          conn[d].at = "destroy", conn'[d].at # "destroy"
                   PROVE  FALSE
        BY <2>2 DEF IsGone, NothingExits
      <3>1. d # c
        BY <1>3
      <3>. QED BY <2>1, <3>1 DEF OneConnection, Of
    <2>4. Changes(s)
      BY <1>0, <2>2
    <2>5. queue'[s].memory = "live"
      BY <1>0, <2>1, <2>3, <2>4
         DEF Changes, Holds, SameQueue, IsMade, IsTold, IsTaken, Loses
    <2>. QED BY <2>5 DEF Live, Of
  <1>. QED BY <1>1, <1>2, <1>3 DEF OneConnection, Of

LEMMA RequestsHoldStep ==
  ASSUME SseInv, SseInv', [Next]_vars, NothingExits, OneConnection, RequestsHold
  PROVE  RequestsHold'
  <1> SUFFICES ASSUME ~Stops, ~Returns, LongTimeout,
                      NEW r \in Request, request'[r].at = "found"
               PROVE  /\ Live(request[r].session)'
                      /\ \A c \in Conn : conn'[c].session = request'[r].session =>
                           conn'[c].at \notin {"expired", "unlink", "destroy"}
    BY DEF RequestsHold, Of
  <1> DEFINE s == request'[r].session
  <1>0. /\ \A c \in Conn : Moves(c)
        /\ \A t \in Session : Changes(t)
        /\ Asks(r) /\ stop = "no"
    BY StepShape DEF Shape, NothingExits
  <1>1. CASE IsMade(s) /\ s \in Session
    <2>1. queue'[s].memory = "live"
      BY <1>1, NewQueues DEF IsMade
    <2>2. \A c \in Conn : conn[c].session = s => conn[c].at = "idle"
      BY <1>1 DEF IsMade, SseInv, ListInv, ConnsHaveQueues
    <2>. QED BY <1>1, <2>1, <2>2 DEF IsMade, Live
  <1>2. CASE s \in Listed /\ ~Closing(s) /\ queue' = queue /\ conn' = conn
    <2>1. queue[s].memory = "live"
      BY <1>2 DEF SseInv, ListInv, ListedAreLive, Live
    <2>2. \A c \in Conn : conn[c].session = s =>
            conn[c].at \notin {"expired", "unlink", "destroy"}
      BY <1>2 DEF Closing, Of
    <2>. QED BY <1>2, <2>1, <2>2 DEF Live
  <1>3. CASE request'[r] = request[r]
    <2>1. /\ queue[s].memory = "live" /\ request[r].session = s
          /\ \A c \in Conn : conn[c].session = s =>
               conn[c].at \notin {"expired", "unlink", "destroy"}
      BY <1>3 DEF RequestsHold, Live, Of
    <2>2. s \in Session
      BY <1>3 DEF SseInv, ListInv, RequestsHaveQueues
    <2>3. ~IsGone(s)
      BY <2>1, <2>2 DEF IsGone, NothingExits
    <2>4. queue'[s].memory = "live"
      BY <1>0, <2>1, <2>2, <2>3
         DEF Changes, Holds, SameQueue, IsMade, IsTold, IsTaken, Loses
    <2>5. InUse(s)
      BY <2>1 DEF InUse
    <2>6. ASSUME NEW c \in Conn, conn'[c].session = s
          PROVE  conn'[c].at \notin {"expired", "unlink", "destroy"}
      BY <1>0, <2>1, <2>5, <2>6 DEF Moves, Opens, GoesOn
    <2>. QED BY <2>4, <2>6 DEF Live
  <1>. QED BY <1>0, <1>1, <1>2, <1>3 DEF Asks

\* The global event thread is woken by an event or by HPD_stop.
LEMMA ConsumerFinds ==
  ASSUME SseInv, [Next]_vars, ~Spurious, consumer' = "woken",
         consumer = "woken" =>
           global_event_queue.events # <<>> \/ global_event_queue.exit
  PROVE  global_event_queue'.events # <<>> \/ global_event_queue'.exit
  <1> DEFINE q == global_event_queue
  <1>0. q \in Queue
    BY DEF SseInv, GlobalType
  <1>1. CASE \E id \in Service \cup {Log} : Publish(id)
    <2>1. PICK id \in Service \cup {Log} : Publish(id)
      BY <1>1
    <2> DEFINE e == [id |-> id, n |-> created + 1, direct |-> FALSE]
    <2>2. /\ created < MaxEvents /\ created' = created + 1
          /\ q' = queue_event(q, e, TRUE)
          /\ consumer = "woken" \/ Signals(q, e, TRUE)
      BY <2>1 DEF Publish
    <2>3. e \in Event
      BY <2>2, NewEvent
    <2>4. consumer = "woken" => q.events # <<>> \/ q.exit
      OBVIOUS
    <2> HIDE DEF e, q
    <2>5. /\ SameQueue(q, q')
          /\ q'.events = IF Accepts(q, e, TRUE) THEN Append(q.events, e)
                         ELSE q.events
      BY <1>0, <2>2, <2>3, QueueEvent
    <2>6. Append(q.events, e) # <<>>
      <3>1. q.events \in Seq(Event)
        BY <1>0 DEF Queue
      <3>. QED BY ONLY <2>3, <3>1
    <2>7. q'.events # <<>> \/ q'.exit
      BY <2>2, <2>4, <2>5, <2>6 DEF SameQueue, Signals
    <2>. QED BY <2>7 DEF q
  <1>2. CASE StopGlobal
    <2>1. q' = [q EXCEPT !.exit = TRUE]
      BY <1>2 DEF StopGlobal
    <2> HIDE DEF q
    <2>2. q'.exit
      BY <1>0, <2>1, FieldsOfQueue
    <2>. QED BY <2>2 DEF q
  <1>3. CASE q' = q /\ consumer' = consumer
    BY <1>3
  <1>4. \/ \E id \in Service \cup {Log} : Publish(id)
        \/ StopGlobal
        \/ q' = q /\ consumer' = consumer
    <2>1. CASE GlobalStep
      BY <2>1 DEF GlobalStep, PublishAfterStop, ConsumerPopsNothing, ConsumerPops,
         ConsumerWaits, ConsumerExits, ConsumerSpurious, UseAfterFree, LookupFails,
         PopNothing, UnlinkAgain, StopJoined, Fault, vars, globalVars
    <2>2. CASE SessionStep
      BY <2>2 DEF SessionStep, SubscribeNew, SubscribeFinds, SubscribeToggles,
         Open, TakeOver, Respond, Lookup, Wait, Pop, DequeueNull, ReturnNull,
         Write, FreeLookup, StartTimeout, Expire, EndTimeout, Unlink, Destroy,
         Closed, WakeSpuriously, StopSessions, globalVars
    <2>3. CASE \/ ConsumerCopies
               \/ \E v \in Service, a \in {"available", "unavailable"} :
                    notify_service_availability(v, a)
      BY <2>3 DEF ConsumerCopies, notify_service_availability, globalVars
    <2>. QED BY <2>1, <2>2, <2>3, StepKinds
  <1>. QED BY <1>1, <1>2, <1>3, <1>4

LEMMA WokenFindsStep ==
  ASSUME SseInv, SseInv', [Next]_vars, WokenFinds
  PROVE  WokenFinds'
  <1> SUFFICES ASSUME ~Spurious PROVE WokenFinds'
    BY DEF WokenFinds
  <1>1. consumer' = "woken" =>
          global_event_queue'.events # <<>> \/ global_event_queue'.exit
    BY ConsumerFinds DEF WokenFinds
  <1>2. ASSUME NEW c \in Conn, conn'[c].at = "woken",
               queue'[conn'[c].session].memory = "live",
               Pops(queue'[conn'[c].session], c)
        PROVE  queue'[conn'[c].session].events # <<>>
    <2> DEFINE s == conn'[c].session
    <2>1. Moves(c)
      BY StepShape DEF Shape
    <2>2. CASE GoesOn(c)
      BY <1>2, <2>2 DEF GoesOn
    <2>3. CASE conn'[c] = conn[c]
      <3>1. s \in Session /\ queue[s].memory # "none"
        BY <1>2, <2>3 DEF SseInv, ListInv, ConnsHaveQueues
      <3>2. Changes(s)
        BY <3>1, StepShape DEF Shape
      <3>3. queue'[s].connection_id = c /\ ~queue'[s].exit
        BY <1>2, EventQueueAssumption DEF Pops, TakenOver
      <3>4. Holds(s)
        <4>1. ~IsMade(s) /\ ~IsTold(s)
          BY <3>1, <3>3 DEF IsMade, IsTold
        <4>2. ~IsGone(s)
          BY <1>2, NewQueues DEF IsGone
        <4>3. \A d \in Conn : ~IsTaken(d, s)
          BY <1>2, <2>3, <3>3 DEF IsTaken
        <4>4. \A d \in Conn : ~Loses(d, s)
          BY <1>2, <3>3 DEF Loses, SameQueue
        <4>. QED BY <3>2, <4>1, <4>2, <4>3, <4>4 DEF Changes
      <3>5. queue[s].memory = "live" /\ Pops(queue[s], c)
        BY <1>2, <3>4 DEF Holds, SameQueue, Pops, TakenOver
      <3>6. queue[s].events # <<>>
        BY <1>2, <2>3, <3>5 DEF WokenFinds, Live, Of
      <3>. QED BY <3>4, <3>6 DEF Holds
    <2>. QED BY <1>2, <2>1, <2>2, <2>3 DEF Moves, Opens
  <1>. QED BY <1>1, <1>2 DEF WokenFinds, Live, Of

LEMMA CauseInit == Init => CauseInv
  <1> SUFFICES ASSUME Init PROVE CauseInv
    OBVIOUS
  <1>1. /\ consumer = "run" /\ Listed = {}
        /\ \A c \in Conn : conn[c].at = "idle"
        /\ \A r \in Request : request[r].at = "idle"
        /\ ~Stops => stop = "no"
        /\ \A s \in Session : queue[s] = NoQueue
    BY DEF Init, Listed, NoRequest
  <1>2. ~global_event_queue.exit /\ global_event_queue.memory = "live"
    <2> DEFINE q == create_event_queue
               r == [q EXCEPT !.send_log_events = TRUE]
    <2>1. q \in Queue /\ q.memory = "live" /\ ~q.exit
      BY NewQueues
    <2> HIDE DEF q
    <2>2. r.memory = q.memory /\ r.exit = q.exit
      BY <2>1 DEF Queue
    <2>. QED BY <2>1, <2>2 DEF Init, q
  <1>3. ~NoQueue.exit
    BY DEF NoQueue
  <1>. QED BY <1>1, <1>2, <1>3
     DEF CauseInv, WokenFinds, HasId, NothingExits, OneConnection, RequestsHold

\* An undefined operation ends the behaviour ...
LEMMA FaultEnds ==
  ASSUME [Next]_vars, fault # "none"
  PROVE  UNCHANGED vars
  BY DEF Next, Publish, PublishAfterStop, notify_service_availability, Consumer,
     ConsumerWaits, ConsumerPops, ConsumerPopsNothing, ConsumerExits,
     ConsumerCopies, ConsumerSpurious, ConsumerDequeues, SubscribeNew,
     SubscribeFinds, SubscribeToggles, Open, Progress, TakeOver, Respond,
     LookupFails, Lookup, Wait, Pop, PopNothing, DequeueNull, ReturnNull, Write,
     FreeLookup, StartTimeout, Expire, EndTimeout, Unlink, UnlinkAgain, Destroy,
     Closed, WakeSpuriously, UseAfterFree, Stopping, StopSessions, StopGlobal,
     StopJoined, Dequeues, At

\* ... and nothing else sets fault.
LEMMA Faults ==
  ASSUME [Next]_vars, fault = "none", fault' # "none"
  PROVE  /\ UNCHANGED <<event_queue_list, queue, conn>>
         /\ \/ /\ fault' = "freed"
               /\ \/ \E id \in Service \cup {Log} : PublishAfterStop(id)
                  \/ UseAfterFree
            \/ /\ fault' = "empty_pop"
               /\ ConsumerPopsNothing \/ \E c \in Conn : PopNothing(c)
            \/ fault' = "null_id" /\ \E c \in Conn : LookupFails(c)
            \/ fault' = "unlisted" /\ \E c \in Conn : UnlinkAgain(c)
  <1>1. CASE GlobalStep
    BY <1>1 DEF GlobalStep, Publish, PublishAfterStop, ConsumerWaits,
       ConsumerPops, ConsumerPopsNothing, ConsumerExits, ConsumerSpurious,
       UseAfterFree, StopGlobal, StopJoined, LookupFails, PopNothing,
       UnlinkAgain, Fault, vars, sessionVars, threadVars
  <1>2. CASE SessionStep
    BY <1>2 DEF SessionStep, SubscribeNew, SubscribeFinds, SubscribeToggles,
       Open, TakeOver, Respond, Lookup, Wait, Pop, DequeueNull, ReturnNull,
       Write, FreeLookup, StartTimeout, Expire, EndTimeout, Unlink, Destroy,
       Closed, WakeSpuriously, StopSessions
  <1>3. CASE \/ ConsumerCopies
             \/ \E v \in Service, a \in {"available", "unavailable"} :
                  notify_service_availability(v, a)
    BY <1>3 DEF ConsumerCopies, notify_service_availability
  <1>. QED BY <1>1, <1>2, <1>3, StepKinds

LEMMA FaultStep ==
  ASSUME SseInv, CauseInv, [Next]_vars, FaultNeedsCause
  PROVE  FaultNeedsCause'
  <1>1. CASE fault # "none"
    <2>1. UNCHANGED vars
      BY <1>1, FaultEnds
    <2>. QED BY <2>1 DEF FaultNeedsCause, Listed, Of, vars, sessionVars, threadVars
  <1>2. CASE fault' = "none"
    BY <1>2 DEF FaultNeedsCause
  <1>3. ASSUME fault = "none", fault' = "freed", ~Returns, ~Stops, LongTimeout
        PROVE  FALSE
    <2>1. ~\E id \in Service \cup {Log} : PublishAfterStop(id)
      BY <1>3 DEF CauseInv, NothingExits, PublishAfterStop
    <2>2. UseAfterFree
      BY <1>3, <2>1, Faults
    <2>3. CASE \E r \in Request : request[r].at = "found" /\ ~Live(request[r].session)
      BY <1>3, <2>3 DEF CauseInv, RequestsHold
    <2>4. ASSUME NEW c \in Conn, ~Live(Of(c)), conn[c].at \notin {"idle", "done"}
          PROVE  FALSE
      BY <1>3, <2>4 DEF CauseInv, OneConnection, SseInv, ListInv, ListedAreLive
    <2>. QED BY <2>2, <2>3, <2>4 DEF UseAfterFree
  <1>4. ASSUME fault = "none", fault' = "empty_pop", ~Spurious
        PROVE  FALSE
    <2>1. ~ConsumerPopsNothing
      BY <1>4 DEF CauseInv, WokenFinds, ConsumerPopsNothing, ConsumerDequeues, Pops
    <2>2. PICK c \in Conn : PopNothing(c)
      BY <1>4, <2>1, Faults
    <2>. QED BY <1>4, <2>2 DEF CauseInv, WokenFinds, PopNothing, Dequeues, At
  <1>5. ASSUME fault = "none", fault' = "unlisted", ~Returns, ~Stops
        PROVE  FALSE
    <2>1. PICK c \in Conn : UnlinkAgain(c)
      BY <1>5, Faults
    <2>. QED BY <1>5, <2>1 DEF CauseInv, OneConnection, UnlinkAgain, At
  <1>6. ASSUME fault = "none", fault' = "null_id"
        PROVE  \E s \in Listed : \A c \in Conn :
                 Of(c) = s => conn[c].at \in {"idle", "found"}
    <2>1. \E c \in Conn : LookupFails(c)
      BY <1>6, Faults
    <2>2. PICK i \in 1..Len(event_queue_list) :
            queue[event_queue_list[i]].connection_id = NULL
      BY <2>1 DEF LookupFails, ComparesNull
    <2>3. event_queue_list[i] \in Listed
      BY DEF Listed
    <2>. QED BY <2>2, <2>3 DEF CauseInv, HasId
  <1>7. CASE fault = "none" /\ fault' # "none"
    <2>1. UNCHANGED <<event_queue_list, queue, conn>>
      BY <1>7, Faults
    <2>. QED BY <1>3, <1>4, <1>5, <1>6, <1>7, <2>1
         DEF FaultNeedsCause, Listed, Of
  <1>. QED BY <1>1, <1>2, <1>7

\* Whatever the clients and the program do, dequeue_event takes from an empty
\* queue only after a spurious wake-up, the scan of the list compares a missing
\* id only when a session has subscribed and has not connected, and without
\* HPD_stop and clients that come back no queue is removed twice nor, if requests
\* end before the timeout, used after it was freed.
THEOREM FaultsHaveCauses == Spec => []FaultNeedsCause
  <1> DEFINE Inv == CauseInv /\ FaultNeedsCause
  <1>1. Init => Inv
    BY CauseInit DEF Init, FaultNeedsCause
  <1>2. SseInv /\ SseInv' /\ Inv /\ [Next]_vars => Inv'
    BY NothingExitsStep, HasIdStep, OneConnectionStep, RequestsHoldStep,
       WokenFindsStep, FaultStep DEF CauseInv
  <1>. QED BY <1>1, <1>2, SseAlways, PTL DEF Spec
=============================================================================
