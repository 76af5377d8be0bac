-------------------------- MODULE ServerSentEvents --------------------------
(***************************************************************************)
(* Server-sent events of the HomePort daemon                               *)
(* (hpbridge/hpdaemon/hpd_server_sent_events.c).                           *)
(*                                                                         *)
(* Events go into the global queue; one thread takes them out and copies   *)
(* them into the queue of every session in event_queue_list that           *)
(* subscribed to them.  Every HTTP connection has a thread of its own      *)
(* (MHD_USE_THREAD_PER_CONNECTION).  A subscription request finds or makes *)
(* the session's queue and toggles a subscription.  A request for /events  *)
(* makes its connection id the queue's, then libmicrohttpd calls           *)
(* server_sent_events_callback for each event to send, and when the        *)
(* connection is closed the free callback, which waits five seconds for    *)
(* another connection before it destroys the queue.                        *)
(*                                                                         *)
(* Locks.  queue_list_mutex protects the list and is taken before the      *)
(* mutex of a queue; a thread never waits on a condition with it.  Every   *)
(* section under one mutex is one step; for a loop over the list under     *)
(* queue_list_mutex the sections of the single queues are taken together,  *)
(* since no thread uses two queues without that mutex.  A pointer to a     *)
(* queue is used after queue_list_mutex is released: finding a queue and   *)
(* using it are different steps.                                           *)
(*                                                                         *)
(* What the program does after an undefined operation (strcmp of NULL, the *)
(* removal of the head of an empty list, a freed queue) is not modelled:   *)
(* the operation is recorded in fault and the behaviour ends there.        *)
(***************************************************************************)
EXTENDS EventQueue, FiniteSets

CONSTANTS
  Session,      \* queues, one for each session cookie handed out
  Request,      \* threads that serve subscription requests
  Returns,      \* clients make requests while a connection of theirs is closing
  LongTimeout,  \* the five seconds outlast every running request
  Spurious,     \* pthread_cond_wait may return without a signal
  Stops         \* HPD_stop is called

ASSUME ServerSentEventsAssumption ==
  /\ NULL \notin Session /\ NULL \notin Event
  /\ {Returns, LongTimeout, Spurious, Stops} \subseteq BOOLEAN

VARIABLES
  global_event_queue,
  consumer,          \* the global event thread
  new_event,         \* the event it copies into the queues
  event_queue_list,  \* the sessions whose queue is in the list
  queue,             \* [Session -> Queue]
  conn,              \* [Conn -> where its thread is, and its session]
  request,           \* [Request -> where it is, session, subscription]
  stop,              \* the thread that called HPD_stop
  created,           \* the number of events created
  fault,             \* the undefined operation that ended the behaviour
  popped             \* history: [Session -> [conn, event] taken from it]

globalVars  == <<global_event_queue, consumer, new_event>>
sessionVars == <<event_queue_list, queue>>
threadVars  == <<conn, request, stop>>
vars == <<globalVars, sessionVars, threadVars, created, fault, popped>>

Listed == {event_queue_list[i] : i \in 1..Len(event_queue_list)}

NoRequest == [at |-> "idle", session |-> NULL, what |-> NULL]

ConnState ==
  {"idle", "found", "set", "callback", "dequeue", "waiting", "woken", "null",
   "write", "free", "grace", "timing", "expired", "signalled", "unlink",
   "destroy", "done"}

TypeOK ==
  /\ global_event_queue \in Queue
  /\ consumer \in {"run", "waiting", "woken", "copy", "exited"}
  /\ new_event \in Event \cup {NULL}
  /\ new_event = NULL <=> consumer # "copy"
  /\ event_queue_list \in Seq(Session)
  /\ queue \in [Session -> Queue]
  /\ conn \in [Conn -> [at : ConnState, session : Session \cup {NULL}]]
  /\ request \in [Request -> [at : {"idle", "found"},
                              session : Session \cup {NULL},
                              what : Service \cup {Log, NULL}]]
  /\ stop \in {"no", "run", "global", "join", "done"}
  /\ created \in 0..MaxEvents
  /\ fault \in {"none", "null_id", "empty_pop", "freed", "unlisted"}
  /\ popped \in [Session -> Seq([conn : Conn, event : Event])]

\* initiate_global_event_queue has run and its thread has been started.
Init ==
  /\ global_event_queue = [create_event_queue EXCEPT !.send_log_events = TRUE]
  /\ consumer = "run"
  /\ new_event = NULL
  /\ event_queue_list = <<>>
  /\ queue = [s \in Session |-> NoQueue]
  /\ conn = [c \in Conn |-> [at |-> "idle", session |-> NULL]]
  /\ request = [r \in Request |-> NoRequest]
  /\ stop = IF Stops THEN "run" ELSE "no"
  /\ created = 0
  /\ fault = "none"
  /\ popped = [s \in Session |-> <<>>]

At(c, pc)    == fault = "none" /\ conn[c].at = pc
Of(c)        == conn[c].session
Live(s)      == queue[s].memory = "live"
Goto(c, pc)  == conn' = [conn EXCEPT ![c].at = pc]

\* pthread_cond_broadcast on the condition of the queues of S: the threads in
\* dequeue_event and in wait_for_timeout wait on the same one.
Woken(S) ==
  [c \in Conn |->
     IF Of(c) \in S /\ conn[c].at = "waiting" THEN [conn[c] EXCEPT !.at = "woken"]
     ELSE IF Of(c) \in S /\ conn[c].at = "timing"
       THEN [conn[c] EXCEPT !.at = "signalled"]
     ELSE conn[c]]

Fault(f) ==
  /\ fault' = f
  /\ UNCHANGED <<globalVars, sessionVars, threadVars, created, popped>>

-----------------------------------------------------------------------------
(* The producers: PUT handlers, the logger, service registration.          *)

\* Variant: the waiting consumer is not signalled.
PublishUnsignalled(id) ==
  /\ fault = "none"
  /\ created < MaxEvents
  /\ global_event_queue.memory = "live"
  /\ created' = created + 1
  /\ global_event_queue' =
       queue_event(global_event_queue,
                   [id |-> id, n |-> created', direct |-> FALSE], TRUE)
  /\ UNCHANGED <<consumer, new_event, sessionVars, threadVars, fault, popped>>

\* send_event_of_value_change and send_log_event.
Publish(id) ==
  LET e == [id |-> id, n |-> created + 1, direct |-> FALSE] IN
  /\ fault = "none"
  /\ created < MaxEvents
  /\ global_event_queue.memory = "live"
  /\ created' = created + 1
  /\ global_event_queue' = queue_event(global_event_queue, e, TRUE)
  /\ consumer' = IF consumer = "waiting" /\ Signals(global_event_queue, e, TRUE)
                   THEN "woken" ELSE consumer
  /\ UNCHANGED <<new_event, sessionVars, threadVars, fault, popped>>

\* The web servers are stopped after the global queue has been destroyed.
PublishAfterStop(id) ==
  /\ fault = "none"
  /\ created < MaxEvents
  /\ global_event_queue.memory = "freed"
  /\ Fault("freed")

\* The service is registered or unregistered: the subscribed sessions are told
\* directly.  The broadcast depends on is_waiting and connection_id only.
notify_service_availability(v, a) ==
  LET e == [id |-> v, n |-> created + 1, direct |-> TRUE]
      S == {s \in Listed : is_subscribed(queue[s], v)}
  IN
  /\ fault = "none"
  /\ created < MaxEvents
  /\ S # {}
  /\ created' = created + 1
  /\ queue' = [s \in Session |->
                 IF s \in S
                   THEN queue_event(set_availability(queue[s], v, a), e, FALSE)
                   ELSE queue[s]]
  /\ conn' = Woken({s \in S : Signals(queue[s], e, FALSE)})
  /\ UNCHANGED <<globalVars, event_queue_list, request, stop, fault, popped>>

-----------------------------------------------------------------------------
(* The global event thread, consume_global_event_queue.                    *)

ConsumerWaits ==
  /\ fault = "none"
  /\ consumer = "run"
  /\ global_event_queue.events = <<>>
  /\ consumer' = "waiting"
  /\ global_event_queue' = [global_event_queue EXCEPT !.is_waiting = "YES"]
  /\ UNCHANGED <<new_event, sessionVars, threadVars, created, fault, popped>>

ConsumerSpurious ==
  /\ Spurious
  /\ fault = "none"
  /\ consumer = "waiting"
  /\ consumer' = "woken"
  /\ UNCHANGED <<global_event_queue, new_event, sessionVars, threadVars,
                 created, fault, popped>>

\* The part of dequeue_event from which it does not wait any more.
ConsumerDequeues ==
  /\ fault = "none"
  /\ \/ consumer = "woken"
     \/ consumer = "run" /\ global_event_queue.events # <<>>

ConsumerPops ==
  /\ ConsumerDequeues
  /\ Pops(global_event_queue, NULL)
  /\ global_event_queue.events # <<>>
  /\ consumer' = "copy"
  /\ new_event' = Head(global_event_queue.events)
  /\ global_event_queue' = dequeued([global_event_queue EXCEPT !.is_waiting = "NO"])
  /\ UNCHANGED <<sessionVars, threadVars, created, fault, popped>>

ConsumerPopsNothing ==
  /\ ConsumerDequeues
  /\ Pops(global_event_queue, NULL)
  /\ global_event_queue.events = <<>>
  /\ Fault("empty_pop")

ConsumerExits ==
  /\ ConsumerDequeues
  /\ ~Pops(global_event_queue, NULL)
  /\ consumer' = "exited"
  /\ global_event_queue' = destroy_event_queue
  /\ UNCHANGED <<new_event, sessionVars, threadVars, created, fault, popped>>

\* The event is copied into the queue of every session that asked for it.
ConsumerCopies ==
  /\ fault = "none"
  /\ consumer = "copy"
  /\ queue' = [s \in Session |->
                 IF s \in Listed THEN queue_event(queue[s], new_event, FALSE)
                 ELSE queue[s]]
  /\ conn' = Woken({s \in Listed : Signals(queue[s], new_event, FALSE)})
  /\ consumer' = "run"
  /\ new_event' = NULL
  /\ UNCHANGED <<global_event_queue, event_queue_list, request, stop, created,
                 fault, popped>>

Consumer ==
  ConsumerWaits \/ ConsumerPops \/ ConsumerPopsNothing \/ ConsumerExits
    \/ ConsumerCopies

-----------------------------------------------------------------------------
(* Subscription requests: subscribe_to_service and subscribe_to_log_events. *)
(* Subscribing to a service holds the service's mutex between the test and  *)
(* the change, so the toggle is one step.                                   *)

\* The request has no cookie of a listed queue: a queue is made and listed.
SubscribeNew(r, s, x) ==
  /\ fault = "none"
  /\ request[r].at = "idle"
  /\ queue[s].memory = "none"
  /\ queue' = [queue EXCEPT ![s] = create_event_queue]
  /\ event_queue_list' = Append(event_queue_list, s)
  /\ request' = [request EXCEPT ![r] = [at |-> "found", session |-> s, what |-> x]]
  /\ UNCHANGED <<globalVars, conn, stop, created, fault, popped>>

\* The connection of session s is over and its queue is about to go.
Closing(s) ==
  \E d \in Conn :
    /\ Of(d) = s
    /\ conn[d].at \in {"free", "grace", "timing", "expired", "signalled",
                       "unlink", "destroy"}

\* get_queue returns the queue of the request's cookie.
SubscribeFinds(r, s, x) ==
  /\ fault = "none"
  /\ request[r].at = "idle"
  /\ s \in Listed
  /\ Returns \/ ~Closing(s)
  /\ request' = [request EXCEPT ![r] = [at |-> "found", session |-> s, what |-> x]]
  /\ UNCHANGED <<globalVars, sessionVars, conn, stop, created, fault, popped>>

Toggled(q, x) ==
  IF x = Log THEN [q EXCEPT !.send_log_events = ~@]
  ELSE IF is_subscribed(q, x) THEN remove_service_id(q, x)
  ELSE add_service_id(q, x)

SubscribeToggles(r) ==
  LET s == request[r].session IN
  /\ fault = "none"
  /\ request[r].at = "found"
  /\ Live(s)
  /\ queue' = [queue EXCEPT ![s] = Toggled(@, request[r].what)]
  /\ request' = [request EXCEPT ![r] = NoRequest]
  /\ UNCHANGED <<globalVars, event_queue_list, conn, stop, created, fault, popped>>

-----------------------------------------------------------------------------
(* A connection for /events, set_up_server_sent_event_connection.  A request *)
(* whose cookie names no listed queue is answered with 404 and changes       *)
(* nothing.                                                                  *)

\* get_queue returns the queue of the connection's cookie.
Open(c, s) ==
  /\ At(c, "idle")
  /\ s \in Listed
  /\ Returns \/ \A d \in Conn : Of(d) = s => conn[d].at = "done"
  /\ conn' = [conn EXCEPT ![c] = [at |-> "found", session |-> s]]
  /\ UNCHANGED <<globalVars, sessionVars, request, stop, created, fault, popped>>

\* The queue gets the new connection's id.  A connection that waits for the
\* timeout is woken, one that waits for an event is not (is_waiting > HPD_NO
\* is false for HPD_YES).
TakeOver(c) ==
  LET s == Of(c) IN
  /\ At(c, "found")
  /\ Live(s)
  /\ queue' = [queue EXCEPT ![s].connection_id = c]
  /\ conn' = [(IF /\ queue[s].is_waiting = "WAIT_FOR_TIMEOUT"
                  /\ queue[s].connection_id # NULL
                 THEN Woken({s}) ELSE conn) EXCEPT ![c].at = "set"]
  /\ UNCHANGED <<globalVars, event_queue_list, request, stop, created, fault, popped>>

\* The session has subscriptions: the response with the callback is queued.
Respond(c) ==
  /\ At(c, "set")
  /\ Live(Of(c))
  /\ IF \/ \E v \in Service : is_subscribed(queue[Of(c)], v)
        \/ queue[Of(c)].send_log_events
       THEN Goto(c, "callback")
       ELSE Goto(c, "done")
  /\ UNCHANGED <<globalVars, sessionVars, request, stop, created, fault, popped>>

-----------------------------------------------------------------------------
(* server_sent_events_callback                                             *)

\* The scan of the list in get_event_queue_with_connection_id compares the id
\* of every queue in front of the one it looks for.
Position(c) ==
  {i \in 1..Len(event_queue_list) :
     queue[event_queue_list[i]].connection_id = c}

ComparesNull(c) ==
  \E i \in 1..Len(event_queue_list) :
    /\ queue[event_queue_list[i]].connection_id = NULL
    /\ \A j \in Position(c) : i < j

LookupFails(c) ==
  /\ At(c, "callback") \/ At(c, "free")
  /\ ComparesNull(c)
  /\ Fault("null_id")

\* The queue is found, or the callback returns -1 and the connection is closed.
Lookup(c) ==
  /\ At(c, "callback")
  /\ ~ComparesNull(c)
  /\ Goto(c, IF Position(c) # {} THEN "dequeue" ELSE "free")
  /\ UNCHANGED <<globalVars, sessionVars, request, stop, created, fault, popped>>

\* The client has closed the connection and libmicrohttpd notices before it
\* asks for the next event.
Closed(c) ==
  /\ At(c, "callback")
  /\ Goto(c, "free")
  /\ UNCHANGED <<globalVars, sessionVars, request, stop, created, fault, popped>>

Wait(c) ==
  /\ At(c, "dequeue")
  /\ Live(Of(c))
  /\ queue[Of(c)].events = <<>>
  /\ queue' = [queue EXCEPT ![Of(c)].is_waiting = "YES"]
  /\ Goto(c, "waiting")
  /\ UNCHANGED <<globalVars, event_queue_list, request, stop, created, fault, popped>>

WakeSpuriously(c) ==
  /\ Spurious
  /\ \/ At(c, "waiting") /\ Goto(c, "woken")
     \/ At(c, "timing") /\ Goto(c, "signalled")
  /\ UNCHANGED <<globalVars, sessionVars, request, stop, created, fault, popped>>

\* The part of dequeue_event from which it does not wait any more; it resets
\* is_waiting only when it has waited.
Dequeues(c) ==
  /\ At(c, "woken") \/ At(c, "dequeue")
  /\ Live(Of(c))
  /\ conn[c].at = "woken" \/ queue[Of(c)].events # <<>>

AfterWait(c) ==
  IF conn[c].at = "woken" THEN [queue[Of(c)] EXCEPT !.is_waiting = "NO"]
  ELSE queue[Of(c)]

Pop(c) ==
  LET s == Of(c) IN
  /\ Dequeues(c)
  /\ Pops(queue[s], c)
  /\ queue[s].events # <<>>
  /\ queue' = [queue EXCEPT ![s] = dequeued(AfterWait(c))]
  /\ popped' = [popped EXCEPT ![s] =
                  Append(@, [conn |-> c, event |-> Head(queue[s].events)])]
  /\ Goto(c, "write")
  /\ UNCHANGED <<globalVars, event_queue_list, request, stop, created, fault>>

PopNothing(c) ==
  /\ Dequeues(c)
  /\ Pops(queue[Of(c)], c)
  /\ queue[Of(c)].events = <<>>
  /\ Fault("empty_pop")

\* Another connection has the queue, or the program is exiting.
DequeueNull(c) ==
  /\ Dequeues(c)
  /\ ~Pops(queue[Of(c)], c)
  /\ queue' = [queue EXCEPT ![Of(c)] = AfterWait(c)]
  /\ Goto(c, "null")
  /\ UNCHANGED <<globalVars, event_queue_list, request, stop, created, fault, popped>>

\* The callback reads exit without the mutex and destroys an exiting queue.
ReturnNull(c) ==
  /\ At(c, "null")
  /\ Live(Of(c))
  /\ queue' = IF queue[Of(c)].exit
                THEN [queue EXCEPT ![Of(c)] = destroy_event_queue] ELSE queue
  /\ Goto(c, "free")
  /\ UNCHANGED <<globalVars, event_queue_list, request, stop, created, fault, popped>>

\* libmicrohttpd writes the event and asks for the next one, or finds that the
\* client is gone; the event is then lost.
Write(c) ==
  /\ At(c, "write")
  /\ Goto(c, "callback") \/ Goto(c, "free")
  /\ UNCHANGED <<globalVars, sessionVars, request, stop, created, fault, popped>>

-----------------------------------------------------------------------------
(* server_sent_events_free_callback                                        *)

FreeLookup(c) ==
  /\ At(c, "free")
  /\ ~ComparesNull(c)
  /\ Goto(c, IF Position(c) # {} THEN "grace" ELSE "done")
  /\ UNCHANGED <<globalVars, sessionVars, request, stop, created, fault, popped>>

\* wait_for_timeout: the wait begins, ...
StartTimeout(c) ==
  /\ At(c, "grace")
  /\ Live(Of(c))
  /\ queue' = [queue EXCEPT ![Of(c)].is_waiting = "WAIT_FOR_TIMEOUT"]
  /\ Goto(c, "timing")
  /\ UNCHANGED <<globalVars, event_queue_list, request, stop, created, fault, popped>>

\* A thread has a pointer to the queue and is not blocked.
InUse(s) ==
  \/ \E d \in Conn :
       /\ Of(d) = s
       /\ conn[d].at \in {"found", "set", "dequeue", "null", "grace", "signalled"}
  \/ \E r \in Request : request[r].session = s

\* ... the five seconds are over, ...
Expire(c) ==
  /\ At(c, "timing")
  /\ LongTimeout => ~InUse(Of(c))
  /\ Goto(c, "expired")
  /\ UNCHANGED <<globalVars, sessionVars, request, stop, created, fault, popped>>

\* Variant: the result of pthread_cond_timedwait is not looked at.
EndTimeoutIgnored(c) ==
  /\ At(c, "expired") \/ At(c, "signalled")
  /\ Live(Of(c))
  /\ queue' = [queue EXCEPT ![Of(c)].is_waiting = "NO"]
  /\ Goto(c, "done")
  /\ UNCHANGED <<globalVars, event_queue_list, request, stop, created, fault, popped>>

\* ... and the thread has the mutex again.
EndTimeout(c) ==
  /\ At(c, "expired") \/ At(c, "signalled")
  /\ Live(Of(c))
  /\ queue' = [queue EXCEPT ![Of(c)].is_waiting = "NO"]
  /\ Goto(c, IF conn[c].at = "expired" THEN "unlink" ELSE "done")
  /\ UNCHANGED <<globalVars, event_queue_list, request, stop, created, fault, popped>>

\* The element is taken out of a list that holds it once.
DL_DELETE(list, s) ==
  LET n == CHOOSE i \in 1..Len(list) : list[i] = s
  IN  [i \in 1..Len(list) - 1 |-> IF i < n THEN list[i] ELSE list[i + 1]]

\* Variant: the queue is destroyed while it is still in the list.
UnlinkSkipped(c) ==
  /\ At(c, "unlink")
  /\ Live(Of(c))
  /\ Goto(c, "destroy")
  /\ UNCHANGED <<globalVars, event_queue_list, queue, request, stop, created,
                 fault, popped>>

\* Removing a queue that HPD_stop has removed already does nothing
\* to the list if it was its last element; otherwise stale pointers are used.
Unlink(c) ==
  /\ At(c, "unlink")
  /\ Live(Of(c))
  /\ event_queue_list' = IF Of(c) \in Listed
                            THEN DL_DELETE(event_queue_list, Of(c))
                            ELSE event_queue_list
  /\ Goto(c, "destroy")
  /\ UNCHANGED <<globalVars, queue, request, stop, created, fault, popped>>

UnlinkAgain(c) ==
  /\ At(c, "unlink")
  /\ Live(Of(c))
  /\ Of(c) \notin Listed
  /\ Fault("unlisted")

Destroy(c) ==
  /\ At(c, "destroy")
  /\ Live(Of(c))
  /\ queue' = [queue EXCEPT ![Of(c)] = destroy_event_queue]
  /\ Goto(c, "done")
  /\ UNCHANGED <<globalVars, event_queue_list, request, stop, created, fault, popped>>

\* A thread goes on with a pointer to a queue that has been freed.
UseAfterFree ==
  /\ fault = "none"
  /\ \/ \E c \in Conn :
          /\ conn[c].at \in {"found", "set", "dequeue", "woken", "null", "grace",
                             "expired", "signalled", "unlink", "destroy"}
          /\ ~Live(Of(c))
     \/ \E r \in Request : request[r].at = "found" /\ ~Live(request[r].session)
  /\ Fault("freed")

-----------------------------------------------------------------------------
(* free_server_sent_events_ressources, called by HPD_stop.                 *)

StopSessions ==
  /\ fault = "none"
  /\ stop = "run"
  /\ stop' = "global"
  /\ event_queue_list' = <<>>
  /\ queue' = [s \in Session |->
                 IF s \in Listed THEN [queue[s] EXCEPT !.exit = TRUE] ELSE queue[s]]
  /\ conn' = Woken({s \in Listed : queue[s].is_waiting = "YES"})
  /\ UNCHANGED <<globalVars, request, created, fault, popped>>

StopGlobal ==
  /\ fault = "none"
  /\ stop = "global"
  /\ stop' = "join"
  /\ global_event_queue' = [global_event_queue EXCEPT !.exit = TRUE]
  /\ consumer' = IF consumer = "waiting" /\ global_event_queue.is_waiting = "YES"
                   THEN "woken" ELSE consumer
  /\ UNCHANGED <<new_event, sessionVars, conn, request, created, fault, popped>>

\* pthread_join returns when the global event thread has.
StopJoined ==
  /\ fault = "none"
  /\ stop = "join"
  /\ consumer = "exited"
  /\ stop' = "done"
  /\ UNCHANGED <<globalVars, sessionVars, conn, request, created, fault, popped>>

-----------------------------------------------------------------------------
\* What the thread of a connection does by itself.
Progress(c) ==
  \/ TakeOver(c) \/ Respond(c) \/ LookupFails(c) \/ Lookup(c) \/ Wait(c)
  \/ Pop(c) \/ PopNothing(c) \/ DequeueNull(c) \/ ReturnNull(c) \/ Write(c)
  \/ FreeLookup(c) \/ StartTimeout(c) \/ Expire(c) \/ EndTimeout(c)
  \/ Unlink(c) \/ UnlinkAgain(c) \/ Destroy(c)

Stopping == StopSessions \/ StopGlobal \/ StopJoined

Next ==
  \/ \E id \in Service \cup {Log} : Publish(id) \/ PublishAfterStop(id)
  \/ \E v \in Service, a \in {"available", "unavailable"} :
       notify_service_availability(v, a)
  \/ Consumer \/ ConsumerSpurious
  \/ \E r \in Request, s \in Session, x \in Service \cup {Log} :
       SubscribeNew(r, s, x) \/ SubscribeFinds(r, s, x)
  \/ \E r \in Request : SubscribeToggles(r)
  \/ \E c \in Conn, s \in Session : Open(c, s)
  \/ \E c \in Conn : Progress(c) \/ Closed(c) \/ WakeSpuriously(c)
  \/ UseAfterFree
  \/ Stopping

Spec == Init /\ [][Next]_vars

\* Threads are scheduled and a signalled thread gets its mutex.  Clients and
\* producers need not do anything.
Fairness ==
  /\ WF_vars(Consumer)
  /\ WF_vars(Stopping)
  /\ \A r \in Request : WF_vars(SubscribeToggles(r))
  /\ \A c \in Conn : WF_vars(Progress(c))

FairSpec == Spec /\ Fairness

-----------------------------------------------------------------------------
(* Safety.                                                                 *)

\* A session's client gets the events that went through the global queue in
\* the order they were created, none twice, whatever connections it used and
\* however often they were interrupted.
FeedOf(s) ==
  [i \in 1..Len(popped[s]) |-> popped[s][i].event] \o queue[s].events

EventsInOrder ==
  \A s \in Session : \A i, j \in 1..Len(FeedOf(s)) :
    i < j /\ ~FeedOf(s)[i].direct /\ ~FeedOf(s)[j].direct
      => FeedOf(s)[i].n < FeedOf(s)[j].n

\* The queues implement the feed that EventFeed promises a session.
Feed == INSTANCE EventFeed WITH
          Reader <- Conn, NoReader <- NULL, Item <- Event, taken <- popped,
          pending <- [s \in Session |-> queue[s].events],
          reader <- [s \in Session |-> queue[s].connection_id]

\* Copying an event, taking over a session, dequeuing and destroying a queue
\* are steps of the feed, and every other step changes nothing a client sees.
ImplementsFeed == Feed!Spec

\* The list names no queue that has been destroyed, and none twice: the global
\* event thread and get_queue never touch freed memory through it.
ListedAreLive ==
  /\ \A s \in Listed : Live(s)
  /\ \A i, j \in 1..Len(event_queue_list) :
       i # j => event_queue_list[i] # event_queue_list[j]

\* What the global event thread reaches is allocated, and its new_event is an
\* event exactly while it copies one.
QueuesAreSound == TypeOK /\ ListedAreLive

\* The global event thread is never asleep with an event in its queue.
ConsumerSleepsOnlyWhenEmpty ==
  consumer = "waiting" => global_event_queue.events = <<>>

\* Nothing undefined happens but for a cause: dequeue_event takes from an empty
\* queue only after a spurious wake-up, get_event_queue_with_connection_id meets
\* a queue without an id only in a session that has subscribed and not yet
\* connected, a queue leaves the list twice only if HPD_stop or a client that
\* came back took part, and a queue is used after it was freed only with one of
\* these or when a request lasts longer than the timeout.
FaultNeedsCause ==
  /\ fault = "empty_pop" => Spurious
  /\ fault = "null_id" =>
       \E s \in Listed : \A c \in Conn : Of(c) = s => conn[c].at \in {"idle", "found"}
  /\ fault = "unlisted" => Returns \/ Stops
  /\ fault = "freed" => Returns \/ Stops \/ ~LongTimeout

\* hpd_events.h:55 "used in order to sleep when no Events are received": the
\* connection that has a queue is not asleep with an event in it.
SleepsOnlyWhenEmpty ==
  \A c \in Conn :
    conn[c].at = "waiting" /\ queue[Of(c)].connection_id = c
      => queue[Of(c)].events = <<>>

\* hpd_events.c:423 "HPD_YES if the timeout has been reached, HPD_NO if a new
\* client connected for that EventQueue": when wait_for_timeout returns HPD_YES
\* the queue still has the connection that waited.
TimeoutMeansNoClient ==
  [][\A c \in Conn :
       conn[c].at = "expired" /\ conn'[c].at = "unlink"
         => queue[Of(c)].connection_id = c]_vars

-----------------------------------------------------------------------------
(* Liveness.                                                               *)

Streaming(s) ==
  \E c \in Conn :
    Of(c) = s /\ conn[c].at \in {"callback", "dequeue", "waiting", "woken", "write"}

\* An event does not stay in the global queue, nor in the queue of a session
\* that has an open connection.
EventsDelivered ==
  /\ global_event_queue.events # <<>> ~> global_event_queue.events = <<>>
  /\ \A s \in Session :
       queue[s].events # <<>> /\ Streaming(s)
         ~> queue[s].events = <<>> \/ ~Streaming(s)

\* A queue whose client is gone is destroyed.
QueueDestroyed ==
  \A c \in Conn : conn[c].at = "free" ~> Of(c) \in Session /\ ~Live(Of(c))

\* hpd_server_sent_events.c:598 "HPD_E_SUCCESS if successful": HPD_stop's call
\* returns.
StopReturns == stop = "join" ~> stop = "done"
=============================================================================
