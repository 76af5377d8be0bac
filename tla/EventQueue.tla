----------------------------- MODULE EventQueue -----------------------------
(***************************************************************************)
(* The EventQueue of the HomePort daemon (hpbridge/hpdaemon/hpd_events.c): *)
(* one for all events of the program (the global queue) and one for each   *)
(* browser session.  This module has the queue's fields and what each      *)
(* operation of hpd_events.c does to them while it holds the queue's       *)
(* mutex; ServerSentEvents has the threads that call the operations and    *)
(* what happens to them in pthread_cond_wait.                              *)
(***************************************************************************)
EXTENDS Naturals, Sequences

CONSTANTS
  Service,    \* value URLs of the services
  Log,        \* the id of log events
  Conn,       \* connection ids
  NULL,
  MaxEvents   \* bound: events created in a behaviour

ASSUME EventQueueAssumption ==
  /\ Log \notin Service
  /\ NULL \notin Conn
  /\ MaxEvents \in Nat

\* The data of an event is the order in which it was created; direct says
\* that it was put into the session's queue without the global queue.
Event == [id : Service \cup {Log}, n : 1..MaxEvents, direct : BOOLEAN]

Queue ==
  [connection_id   : Conn \cup {NULL},
   events          : Seq(Event),
   service_ids     : [Service -> {"none", "available", "unavailable"}],
   send_log_events : BOOLEAN,
   is_waiting      : {"NO", "YES", "WAIT_FOR_TIMEOUT"},
   exit            : BOOLEAN,
   memory          : {"none", "live", "freed"}]

NoQueue ==
  [connection_id |-> NULL, events |-> <<>>,
   service_ids |-> [v \in Service |-> "none"], send_log_events |-> FALSE,
   is_waiting |-> "NO", exit |-> FALSE, memory |-> "none"]

create_event_queue == [NoQueue EXCEPT !.memory = "live"]

destroy_event_queue == [NoQueue EXCEPT !.memory = "freed"]

-----------------------------------------------------------------------------
is_subscribed(q, v) == q.service_ids[v] # "none"

add_service_id(q, v) == [q EXCEPT !.service_ids[v] = "available"]

remove_service_id(q, v) == [q EXCEPT !.service_ids[v] = "none"]

set_availability(q, v, a) == [q EXCEPT !.service_ids[v] = a]

\* The early returns of queue_event: a queue takes log events when it was
\* asked to, and the global queue takes every other event.
Accepts(q, e, global) ==
  IF e.id = Log THEN q.send_log_events
  ELSE global \/ is_subscribed(q, e.id)

\* Variant: DL_PREPEND in place of DL_APPEND.
queue_event_prepend(q, e, global) ==
  IF Accepts(q, e, global) THEN [q EXCEPT !.events = <<e>> \o @] ELSE q

queue_event(q, e, global) ==
  IF Accepts(q, e, global) THEN [q EXCEPT !.events = Append(@, e)] ELSE q

\* Whether queue_event signals wait_for_event.
Signals(q, e, global) ==
  /\ Accepts(q, e, global)
  /\ q.is_waiting = "YES"
  /\ global \/ q.connection_id # NULL

\* What dequeue_event decides after its wait, for connection c (NULL for the
\* consumer of the global queue).  An empty queue is not looked for again.
TakenOver(q, c) == c # NULL /\ q.connection_id # c

Pops(q, c) == ~TakenOver(q, c) /\ ~q.exit

\* Variant: the event is not taken out of the list.
dequeuedKept(q) == q

dequeued(q) == [q EXCEPT !.events = Tail(@)]
=============================================================================
