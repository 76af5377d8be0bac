----------------------------- MODULE MsgHandler -----------------------------
(***************************************************************************)
(* The message bus of the ihaplite framework (ihaplite/msghandler.c): the  *)
(* msgHandler thread, its four-slot queue, and the two calls every task    *)
(* makes, broadcast_msg and receive.                                       *)
(*                                                                         *)
(* Threads and locks.  msg_context.mutex is held by the handler whenever   *)
(* it runs and is released only inside its pthread_cond_wait; a            *)
(* broadcaster holds it from the lock to the unlock of one call.  A        *)
(* listening task holds its own context mutex at all times except inside   *)
(* receive().  The handler takes a task's mutex only with trylock and      *)
(* gives it back in the same iteration, so those sections are one step.    *)
(*                                                                         *)
(* The handler has no predicate around its wait: any wake-up (a broadcast, *)
(* the alarm of its own entry max_tasks-1, or a spurious one) makes it run *)
(* a pass over the queue, and only AlarmSignal tells it whether there is a *)
(* message to add first.                                                   *)
(***************************************************************************)
EXTENDS TimeManager, Sequences, FiniteSets

CONSTANTS
  max_tasks,     \* entries of the task arrays; the last one is the handler's
  MAX_OUTPUT,    \* outputs per task, the columns of msg_table
  QUEUESIZE,     \* slots of the handler's queue
  msg_table,     \* [Task -> [1..MAX_OUTPUT -> Task]], the soft wiring
  BeforeTable,   \* the task that the bytes in front of msg_table name
  Listeners,     \* the tasks that lock their context mutex and call receive
  IgnoresFlag,   \* the listeners that use the holder whatever receive returns
  FlagIndex,     \* [Listeners -> the Task_id argument the task gives receive]
  Outputs,       \* [Task -> the outputs it broadcasts on]
  Free,          \* content of a queue slot marked QUEUE_FREE
  MaxSent        \* bound: messages broadcast in a behaviour

Task   == 0..(max_tasks - 2)
Bus    == max_tasks - 1
QSlots == 0..(QUEUESIZE - 1)

\* What msg_context carries: the data (numbered by broadcast, 0 for NULL) and
\* the sender field.  out = UNUSED once the address has been rewritten.
Entry == [id : 0..MaxSent, task : Task, out : 0..MAX_OUTPUT]

ASSUME MsgHandlerAssumption ==
  /\ max_tasks \in Nat /\ max_tasks >= 2
  /\ MAX_OUTPUT \in Nat \ {0}
  /\ QUEUESIZE \in Nat \ {0}
  /\ MaxSent \in Nat
  /\ Bus \in Slots
  /\ 2 <= MaxDelay
  /\ msg_table \in [Task -> [1..MAX_OUTPUT -> Task]]
  /\ BeforeTable \in Task
  /\ Listeners \subseteq Task
  /\ IgnoresFlag \subseteq Listeners
  /\ FlagIndex \in [Listeners -> Task]
  /\ Outputs \in [Task -> SUBSET (1..MAX_OUTPUT)]
  /\ Free \notin Entry

VARIABLES
  msg_context,    \* the shared context: an Entry
  occupied,       \* msg_context.occupied
  handler,        \* where the msgHandler thread is
  queue,          \* queue and queue_struct: an Entry or Free per slot
  currentmsg,     \* the slot last handed to the delivery loop, -1 outside it
  MessageSignal,  \* [Task -> BOOLEAN]
  holder,         \* [Task -> id of the data its context points to]
  tpc,            \* where each task is
  \* History, read by the properties only:
  sent,           \* the receivers the table names for broadcast 1, 2, ...
  handed,         \* ids given to the receiver their table entry names
  reported,       \* ids whose drop the handler printed
  fresh,          \* [Task -> holder written since the task last used it]
  tried,          \* slots whose receiver was busy in the pass under way
  settled,        \* ids their receiver has used, or that were under way to it
                  \* together with another one
  early           \* the context holds a broadcast of before the first wait

busVars  == <<msg_context, occupied, handler, queue, currentmsg>>
taskVars == <<MessageSignal, holder, tpc>>
history  == <<sent, handed, reported, fresh, tried, settled, early>>
vars     == <<tmVars, busVars, taskVars, history>>

BusTypeOK ==
  /\ msg_context \in Entry
  /\ occupied \in BOOLEAN
  /\ handler \in {"start", "wait", "woken", "run"}
  /\ queue \in [QSlots -> Entry \cup {Free}]
  /\ currentmsg \in -1..(QUEUESIZE - 1)

TaskTypeOK ==
  /\ MessageSignal \in [Task -> BOOLEAN]
  /\ holder \in [Task -> 0..MaxSent]
  /\ tpc \in [Task -> {"run", "bcast", "recv", "woken"}]

HistoryTypeOK ==
  /\ sent \in Seq(Task) /\ Len(sent) <= MaxSent
  /\ handed \subseteq 0..MaxSent
  /\ reported \subseteq 0..MaxSent
  /\ fresh \in [Task -> BOOLEAN]
  /\ tried \subseteq QSlots
  /\ settled \subseteq 0..MaxSent
  /\ early \in BOOLEAN

\* The currentmsg index stays within the queue between two calls of
\* queue_nextmsg, and every id, address and counter within its range.
TypeOK == TMTypeOK /\ BusTypeOK /\ TaskTypeOK /\ HistoryTypeOK

\* main() zeroes the globals and sets currentmsg to -1.  The tasks have
\* entered their loops and hold their mutexes; the handler's thread has been
\* created, but main()'s sleep(0.2) is sleep(0) and orders nothing.
Init ==
  /\ TMInit
  /\ msg_context = [id |-> 0, task |-> 0, out |-> 0]
  /\ occupied = FALSE
  /\ handler = "start"
  /\ queue = [i \in QSlots |-> Free]
  /\ currentmsg = -1
  /\ MessageSignal = [t \in Task |-> FALSE]
  /\ holder = [t \in Task |-> 0]
  /\ tpc = [t \in Task |-> "run"]
  /\ sent = <<>>
  /\ handed = {}
  /\ reported = {}
  /\ fresh = [t \in Task |-> FALSE]
  /\ tried = {}
  /\ settled = {}
  /\ early = FALSE

-----------------------------------------------------------------------------
(* Operators of the code.                                                  *)

\* Variant: output UNUSED read as Out1.
RouteOfUnusedAsOut1(e) == msg_table[e.task][IF e.out >= 1 THEN e.out ELSE 1]

\* msg_table[sender][outputid-1].  With output UNUSED the index is -1: the
\* last column of the row before, or the bytes in front of the table.
RouteOf(e) ==
  IF e.out >= 1 THEN msg_table[e.task][e.out]
  ELSE IF e.task >= 1 THEN msg_table[e.task - 1][MAX_OUTPUT]
  ELSE BeforeTable

\* A listening task has released its context mutex only inside receive(); the
\* others never lock it.
TrylockSucceeds(t) == t \in Listeners => tpc[t] \in {"recv", "woken"}

FreeSlots     == {i \in QSlots : queue[i] = Free}
OccupiedSlots == QSlots \ FreeSlots
IsFirst(i, S) == i \in S /\ \A j \in S : i <= j

\* The slots queue_nextmsg has still to reach in this pass.
NextSlots == {i \in OccupiedSlots : i > currentmsg}

\* An entry whose address is still the one its broadcaster wrote.
Genuine(e) == e.out >= 1

\* The ids of broadcast messages in the queue, and those on the bus.
QueuedIds == {queue[i].id : i \in {j \in OccupiedSlots : Genuine(queue[j])}}

InTransit ==
  QueuedIds \cup (IF Genuine(msg_context) THEN {msg_context.id} ELSE {})

\* Message m is in its receiver's context, which the receiver has yet to use.
Unread(m) == holder[sent[m]] = m /\ fresh[sent[m]]

\* The messages for t that a new broadcast finds under way.
UnderWay(t) ==
  {m \in 1..Len(sent) : sent[m] = t /\ (m \in QueuedIds \/ Unread(m))}

\* Variant: the signal is forgotten.
NoSignal == handler' = handler

\* pthread_cond_signal on the handler's condition.
SignalHandler == handler' = IF handler = "wait" THEN "woken" ELSE handler

-----------------------------------------------------------------------------
(* Tasks.                                                                  *)

\* A task calls broadcast_msg and from here on spins for msg_context.
BeginBroadcast(t) ==
  /\ tpc[t] = "run"
  /\ Outputs[t] # {}
  /\ Len(sent) + Cardinality({u \in Task : tpc[u] = "bcast"}) < MaxSent
  /\ tpc' = [tpc EXCEPT ![t] = "bcast"]
  /\ UNCHANGED <<tmVars, busVars, MessageSignal, holder, history>>

\* broadcast_msg got the mutex and found the context free.  While it finds
\* it occupied it unlocks, yields and locks again, which changes nothing.
Broadcast(t, o) ==
  LET others == UnderWay(msg_table[t][o]) IN
  /\ tpc[t] = "bcast"
  /\ handler # "run"
  /\ ~occupied
  /\ Len(sent) < MaxSent
  /\ msg_context' = [id |-> Len(sent) + 1, task |-> t, out |-> o]
  /\ occupied' = TRUE
  /\ SignalHandler
  /\ tpc' = [tpc EXCEPT ![t] = "run"]
  /\ sent' = Append(sent, msg_table[t][o])
  /\ settled' = IF others = {} THEN settled
                ELSE settled \cup others \cup {Len(sent) + 1}
  /\ early' = (handler = "start")
  /\ UNCHANGED <<tmVars, queue, currentmsg, MessageSignal, holder,
                 handed, reported, fresh, tried>>

\* receive(): pthread_cond_wait releases the task's mutex and blocks.
Receive(t) ==
  /\ t \in Listeners
  /\ tpc[t] = "run"
  /\ tpc' = [tpc EXCEPT ![t] = "recv"]
  /\ UNCHANGED <<tmVars, busVars, MessageSignal, holder, history>>

\* The task's condition is signalled by its own alarm, or wakes spuriously.
WakeTask(t) ==
  /\ tpc[t] = "recv"
  /\ tpc' = [tpc EXCEPT ![t] = "woken"]
  /\ UNCHANGED <<tmVars, busVars, MessageSignal, holder, history>>

\* A task uses its holder when receive() tells it of a message, or whatever
\* receive() tells it.
Uses(t) ==
  IF MessageSignal[FlagIndex[t]] \/ t \in IgnoresFlag
    THEN /\ fresh' = [fresh EXCEPT ![t] = FALSE]
         /\ settled' = settled \cup {holder[t]}
    ELSE UNCHANGED <<fresh, settled>>

\* Variant: msgTestAndReset without the reset.
ReceiveReturnNoReset(t) ==
  /\ tpc[t] = "woken"
  /\ tpc' = [tpc EXCEPT ![t] = "run"]
  /\ Uses(t)
  /\ UNCHANGED <<tmVars, busVars, MessageSignal, holder, sent, handed,
                 reported, tried, early>>

\* The woken task has its mutex again and msgTestAndReset tells whether it
\* was a message.  A task that checks the result leaves the holder alone when
\* it is FALSE.
ReceiveReturn(t) ==
  /\ tpc[t] = "woken"
  /\ tpc' = [tpc EXCEPT ![t] = "run"]
  /\ MessageSignal' = [MessageSignal EXCEPT ![FlagIndex[t]] = FALSE]
  /\ Uses(t)
  /\ UNCHANGED <<tmVars, busVars, holder, sent, handed, reported, tried,
                 early>>

-----------------------------------------------------------------------------
(* The msgHandler thread.                                                  *)

\* The thread gets to its first pthread_cond_wait.
HandlerStart ==
  /\ handler = "start"
  /\ handler' = "wait"
  /\ UNCHANGED <<tmVars, msg_context, occupied, queue, currentmsg, taskVars,
                 history>>

\* A spurious wake-up of pthread_cond_wait.
HandlerSpurious ==
  /\ handler = "wait"
  /\ handler' = "woken"
  /\ UNCHANGED <<tmVars, msg_context, occupied, queue, currentmsg, taskVars,
                 history>>

\* The thread has the mutex again and starts a pass.
HandlerWakes ==
  /\ handler = "woken"
  /\ handler' = "run"
  /\ tried' = {}
  /\ early' = FALSE
  /\ UNCHANGED <<AlarmCountdown, tmPc, tmReg, msg_context, occupied,
                 currentmsg, taskVars, sent, handed, fresh, settled>>

\* "Alarm signal received skipping queue add"
HandlerSkipsAdd ==
  /\ HandlerWakes
  /\ AlarmSignal[Bus]
  /\ alarmTestAndReset(Bus)
  /\ reported' = IF Genuine(msg_context)
                   THEN reported \cup {msg_context.id} ELSE reported
  /\ UNCHANGED queue

\* queue_add copies the context into the first free slot, whether or not a
\* broadcaster has written it since the last pass.
HandlerQueueAdd(i) ==
  /\ HandlerWakes
  /\ ~AlarmSignal[Bus]
  /\ IsFirst(i, FreeSlots)
  /\ queue' = [queue EXCEPT ![i] = msg_context]
  /\ UNCHANGED <<AlarmSignal, reported>>

\* "PANIC! Queue full"
HandlerPanics ==
  /\ HandlerWakes
  /\ ~AlarmSignal[Bus]
  /\ FreeSlots = {}
  /\ reported' = IF Genuine(msg_context)
                   THEN reported \cup {msg_context.id} ELSE reported
  /\ UNCHANGED <<AlarmSignal, queue>>

\* Variant: the index is advanced a second time past the slot taken.
HandlerTakesAndSkips(i) ==
  /\ handler = "run"
  /\ IsFirst(i, NextSlots)
  /\ currentmsg' = i + 1
  /\ msg_context' = [id |-> queue[i].id, task |-> RouteOf(queue[i]), out |-> 0]
  /\ UNCHANGED <<handler, occupied, sent, reported, settled, early>>

\* Variant: the context keeps the sender's address.
HandlerTakesUnrewritten(i) ==
  /\ handler = "run"
  /\ IsFirst(i, NextSlots)
  /\ currentmsg' = i
  /\ msg_context' = queue[i]
  /\ UNCHANGED <<handler, occupied, sent, reported, settled, early>>

\* queue_nextmsg copies slot i into the context and the address is rewritten
\* from the sender's to the receiver's.
HandlerTakes(i) ==
  /\ handler = "run"
  /\ IsFirst(i, NextSlots)
  /\ currentmsg' = i
  /\ msg_context' = [id |-> queue[i].id, task |-> RouteOf(queue[i]), out |-> 0]
  /\ UNCHANGED <<handler, occupied, sent, reported, settled, early>>

\* Variant: queue_remove is not called.
HandlerDeliversAndKeeps(i) ==
  LET rcv == RouteOf(queue[i]) IN
  /\ HandlerTakes(i)
  /\ TrylockSucceeds(rcv)
  /\ holder' = [holder EXCEPT ![rcv] = queue[i].id]
  /\ MessageSignal' = [MessageSignal EXCEPT ![rcv] = TRUE]
  /\ tpc' = IF tpc[rcv] = "recv" THEN [tpc EXCEPT ![rcv] = "woken"] ELSE tpc
  /\ fresh' = [fresh EXCEPT ![rcv] = TRUE]
  /\ handed' = IF Genuine(queue[i]) THEN handed \cup {queue[i].id} ELSE handed
  /\ UNCHANGED <<tmVars, queue, tried>>

\* trylock succeeded: the message is put into the receiver's context, its slot
\* is freed and the receiver is signalled.
HandlerDelivers(i) ==
  LET rcv == RouteOf(queue[i]) IN
  /\ HandlerTakes(i)
  /\ TrylockSucceeds(rcv)
  /\ holder' = [holder EXCEPT ![rcv] = queue[i].id]
  /\ MessageSignal' = [MessageSignal EXCEPT ![rcv] = TRUE]
  /\ queue' = [queue EXCEPT ![i] = Free]
  /\ tpc' = IF tpc[rcv] = "recv" THEN [tpc EXCEPT ![rcv] = "woken"] ELSE tpc
  /\ fresh' = [fresh EXCEPT ![rcv] = TRUE]
  /\ handed' = IF Genuine(queue[i]) THEN handed \cup {queue[i].id} ELSE handed
  /\ UNCHANGED <<tmVars, tried>>

\* Variant: pthread_mutex_lock in place of trylock, no step while it blocks.
HandlerBlocks(i) == HandlerTakes(i) /\ i \notin QSlots /\ UNCHANGED vars

\* Variant: a message that could not be delivered is removed.
HandlerLeavesNothing(i) ==
  /\ HandlerTakes(i)
  /\ ~TrylockSucceeds(RouteOf(queue[i]))
  /\ alarmSet(Bus, 2)
  /\ tried' = tried \cup {i}
  /\ queue' = [queue EXCEPT ![i] = Free]
  /\ UNCHANGED <<AlarmSignal, tmPc, tmReg, taskVars, handed, fresh>>

\* trylock failed: the message stays in its slot and an alarm in 200 ms is
\* requested.
HandlerLeaves(i) ==
  /\ HandlerTakes(i)
  /\ ~TrylockSucceeds(RouteOf(queue[i]))
  /\ alarmSet(Bus, 2)
  /\ tried' = tried \cup {i}
  /\ UNCHANGED <<AlarmSignal, tmPc, tmReg, queue, taskVars, handed, fresh>>

\* Variant: currentmsg is not set back to -1.
HandlerWaitsNoReset ==
  /\ handler = "run"
  /\ NextSlots = {}
  /\ occupied' = FALSE
  /\ handler' = "wait"
  /\ UNCHANGED <<tmVars, msg_context, queue, currentmsg, taskVars, history>>

\* Variant: the context is not released.
HandlerWaitsOccupied ==
  /\ handler = "run"
  /\ NextSlots = {}
  /\ currentmsg' = -1
  /\ handler' = "wait"
  /\ UNCHANGED <<tmVars, msg_context, occupied, queue, taskVars, history>>

\* queue_nextmsg found no further slot: the context is released and the
\* thread waits.
HandlerWaits ==
  /\ handler = "run"
  /\ NextSlots = {}
  /\ currentmsg' = -1
  /\ occupied' = FALSE
  /\ handler' = "wait"
  /\ UNCHANGED <<tmVars, msg_context, queue, taskVars, history>>

-----------------------------------------------------------------------------
(* The TimeManager's visit of the handler's entry: its last step signals   *)
(* msg_context.condition, which main() stored in Context_array[Bus].       *)

TimerStep ==
  /\ TMInternal(Bus)
  /\ UNCHANGED <<busVars, taskVars, history>>

TimerSignal ==
  /\ TMSignal(Bus)
  /\ SignalHandler
  /\ UNCHANGED <<msg_context, occupied, queue, currentmsg, taskVars, history>>

-----------------------------------------------------------------------------
HandlerPass ==
  \/ HandlerSkipsAdd \/ HandlerPanics
  \/ \E i \in QSlots :
       HandlerQueueAdd(i) \/ HandlerDelivers(i) \/ HandlerLeaves(i)
  \/ HandlerWaits

TaskStep(t) ==
  \/ BeginBroadcast(t) \/ Receive(t) \/ WakeTask(t) \/ ReceiveReturn(t)
  \/ \E o \in Outputs[t] : Broadcast(t, o)

Next ==
  \/ HandlerStart \/ HandlerSpurious \/ HandlerPass
  \/ TimerStep \/ TimerSignal
  \/ \E t \in Task : TaskStep(t)

Spec == Init /\ [][Next]_vars

\* The threads are scheduled: the handler and the TimeManager go on while
\* they can, a signalled task returns from its wait.  A broadcaster blocked on
\* msg_context.mutex gets it when it becomes free again and again: the handler
\* gives it up for good once its pass is over, until something wakes it.  What
\* a task does between its calls, and spurious wake-ups, are not fair.
Fairness ==
  /\ WF_vars(HandlerStart)
  /\ WF_vars(HandlerPass)
  /\ WF_vars(TimerStep)
  /\ WF_vars(TimerSignal)
  /\ \A t \in Task : /\ WF_vars(ReceiveReturn(t))
                     /\ SF_vars(\E o \in Outputs[t] : Broadcast(t, o))

FairSpec == Spec /\ Fairness

-----------------------------------------------------------------------------
(* Safety.                                                                 *)

\* While a broadcast waits in the context the handler is not asleep, so a
\* task that spins in broadcast_msg is not waiting for a wake-up that has
\* already been given away.  The one exception is the broadcast that came
\* before the handler's first wait: nothing remembers its signal
\* (msghandler.c:96 waits without looking at occupied).
OccupiedIsSeen == occupied /\ handler = "wait" => early

\* A message that left the bus for its receiver is neither queued nor in the
\* context again, and no two slots hold copies of one message: although every
\* wake-up adds whatever the context holds, no receiver gets a message twice.
NoDuplicate ==
  /\ InTransit \cap handed = {}
  /\ \A i, j \in OccupiedSlots :
       i # j /\ Genuine(queue[i]) /\ Genuine(queue[j])
         => queue[i].id # queue[j].id

\* Why NoDuplicate and NoStrayMessage hold, in a form every step preserves.
\* An entry with its broadcaster's address carries a message that was sent to
\* the task it is routed to and has not been handed over; no two slots carry
\* the same one; and the context carries one that is not in the queue, except
\* at the start of a pass, before queue_nextmsg overwrites it.
Undelivered(e) ==
  /\ e.id \in 1..Len(sent)
  /\ sent[e.id] = RouteOf(e)
  /\ e.id \notin handed

QueueInv ==
  /\ \A i \in OccupiedSlots : Genuine(queue[i]) => Undelivered(queue[i])
  /\ \A i, j \in OccupiedSlots :
       i # j /\ Genuine(queue[i]) /\ Genuine(queue[j])
         => queue[i].id # queue[j].id

ContextInv ==
  /\ handler # "run" => currentmsg = -1
  /\ Genuine(msg_context) =>
       /\ Undelivered(msg_context)
       /\ currentmsg = -1
       /\ \/ handler = "run"
          \/ \A i \in OccupiedSlots :
               Genuine(queue[i]) => queue[i].id # msg_context.id

IdInv ==
  /\ msg_context.id \in 0..Len(sent)
  /\ \A i \in OccupiedSlots : queue[i].id \in 0..Len(sent)
  /\ handed \subseteq 1..Len(sent)
  /\ \A t \in Task : holder[t] \in 0..Len(sent)

BusInv == QueueInv /\ ContextInv /\ IdInv

\* The listeners no entry with an UNUSED output is routed to: neither the
\* last column of the table nor the bytes in front of it name them.  main()
\* leaves the last column at zeros, which name a task that does not listen;
\* what lies in front of the table is up to the linker.
Sheltered ==
  {t \in Listeners : t # BeforeTable /\ \A s \in Task : msg_table[s][MAX_OUTPUT] # t}

\* A message that is under way to its receiver alone is never lost without a
\* line on the handler's output: until the receiver has used it, it is on the
\* bus, unread in the receiver's context, or one of the two "skipping" and
\* "PANIC" lines was printed for it.  Only a second message for the same
\* receiver, under way at the same time, can make it disappear in silence: the
\* handler replaces a holder the woken receiver has not read
\* (msghandler.c:185-191).
NoSilentDrop ==
  \A m \in 1..Len(sent) :
    sent[m] \in Sheltered =>
      m \in InTransit \cup reported \cup settled \/ Unread(m)

\* What a listening task finds in its context was addressed to it, although
\* a wake-up without a message sends an entry whose output id is UNUSED
\* through msg_table; where such entries lead, nothing is promised.
NoStrayMessage ==
  \A t \in Sheltered : holder[t] # 0 => sent[holder[t]] = t

\* A task that checks the result of receive() is told of a message only when
\* its holder has been written since it last used it.
FlagMeansNew ==
  \A t \in Listeners \ IgnoresFlag :
    MessageSignal[t] /\ FlagIndex[t] = t => fresh[t]

\* Every pass tries every queued message: what is still queued when the
\* handler waits was held up by a receiver that had its mutex locked.
PassTriesAll == handler = "wait" => OccupiedSlots \subseteq tried

-----------------------------------------------------------------------------
(* Liveness.                                                               *)

\* A pass ends: the handler never blocks on a task's mutex.
PassEnds == handler = "run" ~> handler = "wait"

\* A task that calls broadcast_msg returns from it, even while it holds its
\* own mutex and the handler has messages for it, unless the context is taken
\* by a broadcast of before the handler's first wait.
BroadcastReturns ==
  \A t \in Task : tpc[t] = "bcast" ~> tpc[t] = "run" \/ early

-----------------------------------------------------------------------------
(* The bus implements what MessageBus promises its users.                  *)

MB == INSTANCE MessageBus WITH
        Strays <- Task \ Sheltered, transit <- InTransit, mailbox <- holder

\* Every step of the handler, the tasks and the timer is a step of the lossy,
\* at-most-once, correctly addressed bus, or changes nothing a user sees.
ImplementsBus == MB!Spec

-----------------------------------------------------------------------------
(* What the comments of msghandler.c promise and the code does not keep.   *)

\* msghandler.c:76 "then returns to a pthread_cond_timedwait, then tries to
\* deliver the messages again": a queued message whose receiver has become
\* free does not stay in the queue for ever.
QueuedIsRetried ==
  \A i \in QSlots :
    []<>(queue[i] = Free \/ ~TrylockSucceeds(RouteOf(queue[i])))
=============================================================================
