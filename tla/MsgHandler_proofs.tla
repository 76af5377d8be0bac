------------------------- MODULE MsgHandler_proofs -------------------------
(***************************************************************************)
(* Theorems about the bus, for every number of tasks, table, queue length, *)
(* number of messages and behaviour of the tasks.                          *)
(***************************************************************************)
EXTENDS MsgHandler, TLAPS

-----------------------------------------------------------------------------
(* Type correctness.                                                       *)

\* The numeric constants.
LEMMA Sizes ==
  /\ QUEUESIZE \in Nat \ {0}
  /\ MAX_OUTPUT \in Nat \ {0}
  /\ MaxSent \in Nat
  /\ MaxDelay \in Nat /\ 2 <= MaxDelay
  /\ Bus \in Slots
BY MsgHandlerAssumption, TimeManagerAssumption

\* The message table names a task for every entry the bus can carry, the
\* entries whose output id is UNUSED included.
LEMMA RouteType == ASSUME NEW e \in Entry PROVE RouteOf(e) \in Task
<1>1. CASE e.out >= 1
  BY <1>1, MsgHandlerAssumption DEF RouteOf, Entry
<1>2. CASE ~(e.out >= 1) /\ e.task >= 1
  <2>1. e.task - 1 \in Task
    <3>1. e.task \in 0..(max_tasks - 2) BY DEF Entry, Task
    <3>2. max_tasks \in Nat BY MsgHandlerAssumption
    <3>. QED BY <3>1, <3>2, <1>2 DEF Task
  <2>3. MAX_OUTPUT \in 1..MAX_OUTPUT
    BY MsgHandlerAssumption
  <2>2. msg_table[e.task - 1][MAX_OUTPUT] \in Task
    BY <2>1, <2>3, MsgHandlerAssumption
  <2>. QED BY <1>2, <2>2 DEF RouteOf
<1>3. CASE ~(e.out >= 1) /\ ~(e.task >= 1)
  BY <1>3, MsgHandlerAssumption DEF RouteOf
<1>. QED BY <1>1, <1>2, <1>3

\* The alarm arrays keep their types under every step of the TimeManager.
LEMMA TimerType ==
  ASSUME TMTypeOK, NEW s \in Slots, TMInternal(s) \/ TMSignal(s)
  PROVE  TMTypeOK'
<1>. USE TimeManagerAssumption DEF TMTypeOK
<1>1. CASE TMVisit(s)     BY <1>1 DEF TMVisit
<1>2. CASE TMCountDown(s) BY <1>2 DEF TMCountDown
<1>3. CASE TMRaise(s)     BY <1>3 DEF TMRaise
<1>4. CASE TMClear(s)     BY <1>4 DEF TMClear
<1>5. CASE TMSignal(s)    BY <1>5 DEF TMSignal
<1>. QED BY <1>1, <1>2, <1>3, <1>4, <1>5 DEF TMInternal

\* Every step of the handler's delivery loop keeps the types of what it writes.
LEMMA TakesType ==
  ASSUME TypeOK, NEW i \in QSlots, HandlerTakes(i)
  PROVE  /\ queue[i] \in Entry
         /\ RouteOf(queue[i]) \in Task
         /\ msg_context' \in Entry
         /\ currentmsg' \in -1..(QUEUESIZE - 1)
<1>1. queue[i] \in Entry
  BY DEF TypeOK, BusTypeOK, HandlerTakes, IsFirst, NextSlots, OccupiedSlots,
         FreeSlots
<1>2. RouteOf(queue[i]) \in Task
  BY <1>1, RouteType
<1>3. [id |-> queue[i].id, task |-> RouteOf(queue[i]), out |-> 0] \in Entry
  BY <1>1, <1>2, Sizes DEF Entry
<1>4. i \in -1..(QUEUESIZE - 1)
  BY Sizes DEF QSlots
<1>. QED BY <1>1, <1>2, <1>3, <1>4 DEF HandlerTakes

\* A handler that starts a pass keeps the types of what it does not decide.
LEMMA WakesType ==
  ASSUME TypeOK, HandlerWakes
  PROVE  /\ TaskTypeOK'
         /\ msg_context' \in Entry /\ occupied' \in BOOLEAN
         /\ handler' \in {"start", "wait", "woken", "run"}
         /\ currentmsg' \in -1..(QUEUESIZE - 1)
         /\ sent' \in Seq(Task) /\ Len(sent') <= MaxSent
         /\ handed' \subseteq 0..MaxSent
         /\ fresh' \in [Task -> BOOLEAN]
         /\ tried' \subseteq QSlots
         /\ settled' \subseteq 0..MaxSent /\ early' \in BOOLEAN
BY DEF HandlerWakes, TypeOK, BusTypeOK, TaskTypeOK, HistoryTypeOK, taskVars

\* Type correctness of the bus.
THEOREM TypeCorrect == Spec => []TypeOK
<1>1. Init => TypeOK
  <2>. SUFFICES ASSUME Init PROVE TypeOK
    OBVIOUS
  <2>1. TMTypeOK
    BY TimeManagerAssumption DEF Init, TMInit, TMTypeOK
  <2>2. 0 \in Task
    BY MsgHandlerAssumption DEF Task
  <2>3. BusTypeOK
    BY <2>2, Sizes DEF Init, BusTypeOK, Entry
  <2>4. TaskTypeOK
    BY Sizes DEF Init, TaskTypeOK
  <2>5. HistoryTypeOK
    <3>1. sent \in Seq(Task) /\ Len(sent) = 0
      BY DEF Init
    <3>2. fresh \in [Task -> BOOLEAN] /\ early \in BOOLEAN
      BY DEF Init
    <3>3. /\ handed = {} /\ reported = {} /\ tried = {} /\ settled = {}
          /\ Len(sent) <= MaxSent
      BY <3>1, MsgHandlerAssumption DEF Init
    <3>. QED BY <3>1, <3>2, <3>3 DEF HistoryTypeOK
  <2>. QED
    BY <2>1, <2>3, <2>4, <2>5 DEF TypeOK
<1>2. TypeOK /\ [Next]_vars => TypeOK'
  <2>. SUFFICES ASSUME TypeOK, [Next]_vars PROVE TypeOK'
    OBVIOUS
  <2>1. CASE HandlerStart \/ HandlerSpurious
    BY <2>1 DEF HandlerStart, HandlerSpurious, TypeOK, TMTypeOK, BusTypeOK,
                TaskTypeOK, HistoryTypeOK, tmVars, taskVars, history
  <2>2. CASE HandlerSkipsAdd
    <3>1. TMTypeOK'
      BY <2>2 DEF HandlerSkipsAdd, HandlerWakes, alarmTestAndReset, TypeOK,
                  TMTypeOK
    <3>2. BusTypeOK'
      BY <2>2, WakesType DEF HandlerSkipsAdd, TypeOK, BusTypeOK
    <3>3. HistoryTypeOK'
      BY <2>2, WakesType DEF HandlerSkipsAdd, TypeOK, BusTypeOK, HistoryTypeOK,
                             Entry
    <3>. QED BY <2>2, <3>1, <3>2, <3>3, WakesType DEF HandlerSkipsAdd, TypeOK
  <2>3. CASE HandlerPanics
    <3>1. TMTypeOK'
      BY <2>3 DEF HandlerPanics, HandlerWakes, TypeOK, TMTypeOK
    <3>2. BusTypeOK'
      BY <2>3, WakesType DEF HandlerPanics, TypeOK, BusTypeOK
    <3>3. HistoryTypeOK'
      BY <2>3, WakesType DEF HandlerPanics, TypeOK, BusTypeOK, HistoryTypeOK,
                             Entry
    <3>. QED BY <2>3, <3>1, <3>2, <3>3, WakesType DEF HandlerPanics, TypeOK
  <2>4. ASSUME NEW i \in QSlots, HandlerQueueAdd(i) PROVE TypeOK'
    <3>1. TMTypeOK'
      BY <2>4 DEF HandlerQueueAdd, HandlerWakes, TypeOK, TMTypeOK
    <3>2. BusTypeOK'
      BY <2>4, WakesType DEF HandlerQueueAdd, TypeOK, BusTypeOK
    <3>3. HistoryTypeOK'
      BY <2>4, WakesType DEF HandlerQueueAdd, TypeOK, HistoryTypeOK
    <3>. QED BY <2>4, <3>1, <3>2, <3>3, WakesType DEF HandlerQueueAdd, TypeOK
  <2>5. ASSUME NEW i \in QSlots, HandlerDelivers(i) PROVE TypeOK'
    <3>1. TMTypeOK'
      BY <2>5 DEF HandlerDelivers, TypeOK, TMTypeOK, tmVars
    <3>. DEFINE rcv == RouteOf(queue[i])
    <3>2. HandlerTakes(i) /\ rcv \in Task /\ queue[i] \in Entry
      BY <2>5, TakesType DEF HandlerDelivers
    <3>3. BusTypeOK'
      BY <2>5, <3>2, TakesType DEF HandlerDelivers, HandlerTakes, TypeOK,
                                   BusTypeOK
    <3>4. TaskTypeOK'
      BY <2>5, <3>2 DEF HandlerDelivers, TypeOK, TaskTypeOK, Entry
    <3>5. HistoryTypeOK'
      BY <2>5, <3>2 DEF HandlerDelivers, HandlerTakes, TypeOK, HistoryTypeOK,
                        Entry
    <3>. QED BY <3>1, <3>3, <3>4, <3>5 DEF TypeOK
  <2>6. ASSUME NEW i \in QSlots, HandlerLeaves(i) PROVE TypeOK'
    <3>1. TMTypeOK'
      BY <2>6, Sizes DEF HandlerLeaves, alarmSet, TypeOK, TMTypeOK
    <3>2. BusTypeOK'
      BY <2>6, TakesType DEF HandlerLeaves, HandlerTakes, TypeOK, BusTypeOK
    <3>3. TaskTypeOK'
      BY <2>6 DEF HandlerLeaves, TypeOK, TaskTypeOK, taskVars
    <3>4. HistoryTypeOK'
      BY <2>6 DEF HandlerLeaves, HandlerTakes, TypeOK, HistoryTypeOK
    <3>. QED BY <3>1, <3>2, <3>3, <3>4 DEF TypeOK
  <2>7. CASE HandlerWaits
    <3>3. currentmsg' \in -1..(QUEUESIZE - 1)
      BY <2>7, Sizes DEF HandlerWaits
    <3>1. BusTypeOK'
      BY <2>7, <3>3 DEF HandlerWaits, TypeOK, BusTypeOK
    <3>2. TMTypeOK' /\ TaskTypeOK' /\ HistoryTypeOK'
      BY <2>7 DEF HandlerWaits, TypeOK, TMTypeOK, TaskTypeOK, HistoryTypeOK,
                  tmVars, taskVars, history
    <3>. QED BY <3>1, <3>2 DEF TypeOK
  <2>8. CASE TimerStep \/ TimerSignal
    <3>1. TMTypeOK'
      BY <2>8, TimerType, Sizes DEF TimerStep, TimerSignal, TypeOK
    <3>2. BusTypeOK' /\ TaskTypeOK' /\ HistoryTypeOK'
      BY <2>8 DEF TimerStep, TimerSignal, SignalHandler, TypeOK, BusTypeOK,
                  TaskTypeOK, HistoryTypeOK, busVars, taskVars, history
    <3>. QED BY <3>1, <3>2 DEF TypeOK
  <2>9. ASSUME NEW t \in Task, BeginBroadcast(t) \/ Receive(t) \/ WakeTask(t)
        PROVE TypeOK'
    BY <2>9 DEF BeginBroadcast, Receive, WakeTask, TypeOK, TMTypeOK, BusTypeOK,
                TaskTypeOK, HistoryTypeOK, tmVars, busVars, history
  <2>10. ASSUME NEW t \in Task, ReceiveReturn(t) PROVE TypeOK'
    <3>1. TMTypeOK' /\ BusTypeOK' /\ TaskTypeOK'
      BY <2>10 DEF ReceiveReturn, TypeOK, TMTypeOK, BusTypeOK, TaskTypeOK,
                   tmVars, busVars
    <3>2. fresh' \in [Task -> BOOLEAN]
      BY <2>10 DEF ReceiveReturn, Uses, TypeOK, HistoryTypeOK
    <3>3. settled' \subseteq 0..MaxSent
      BY <2>10 DEF ReceiveReturn, Uses, TypeOK, HistoryTypeOK, TaskTypeOK
    <3>4. HistoryTypeOK'
      BY <2>10, <3>2, <3>3 DEF ReceiveReturn, TypeOK, HistoryTypeOK
    <3>. QED BY <3>1, <3>4 DEF TypeOK
  <2>11. ASSUME NEW t \in Task, NEW o \in Outputs[t], Broadcast(t, o)
         PROVE TypeOK'
    <3>1. o \in 1..MAX_OUTPUT /\ msg_table[t][o] \in Task
      BY MsgHandlerAssumption
    <3>2. [id |-> Len(sent) + 1, task |-> t, out |-> o] \in Entry
      BY <2>11, <3>1, Sizes DEF Broadcast, TypeOK, HistoryTypeOK, Entry
    <3>3. BusTypeOK'
      BY <2>11, <3>2 DEF Broadcast, SignalHandler, TypeOK, BusTypeOK
    <3>4. HistoryTypeOK'
      <4>1. sent' \in Seq(Task) /\ Len(sent') <= MaxSent
        BY <2>11, <3>1, Sizes DEF Broadcast, TypeOK, HistoryTypeOK
      <4>2. UnderWay(msg_table[t][o]) \subseteq 0..MaxSent
            /\ Len(sent) + 1 \in 0..MaxSent
        BY <2>11, Sizes DEF Broadcast, TypeOK, HistoryTypeOK, UnderWay
      <4>3. settled' \subseteq 0..MaxSent /\ early' \in BOOLEAN
        BY <2>11, <4>2 DEF Broadcast, TypeOK, HistoryTypeOK
      <4>. QED BY <2>11, <4>1, <4>3 DEF Broadcast, TypeOK, HistoryTypeOK
    <3>5. TMTypeOK' /\ TaskTypeOK'
      BY <2>11 DEF Broadcast, TypeOK, TMTypeOK, TaskTypeOK, tmVars
    <3>. QED BY <3>3, <3>4, <3>5 DEF TypeOK
  <2>12. CASE UNCHANGED vars
    BY <2>12 DEF vars, tmVars, busVars, taskVars, history, TypeOK, TMTypeOK,
                 BusTypeOK, TaskTypeOK, HistoryTypeOK
  <2>. QED
    BY <2>1, <2>2, <2>3, <2>4, <2>5, <2>6, <2>7, <2>8, <2>9, <2>10, <2>11,
       <2>12 DEF Next, HandlerPass, TaskStep
<1>. QED BY <1>1, <1>2, PTL DEF Spec

-----------------------------------------------------------------------------
(* A broadcast is never left to a handler that is asleep.                  *)

SeenInv ==
  /\ OccupiedIsSeen
  /\ handler = "start" /\ occupied => early

\* No task ever spins on an occupied context while the handler sleeps, unless
\* what occupies it was broadcast before the handler's first wait.
THEOREM BroadcastIsSeen == Spec => []OccupiedIsSeen
<1>1. Init => SeenInv
  BY DEF Init, SeenInv, OccupiedIsSeen
<1>2. SeenInv /\ [Next]_vars => SeenInv'
  <2>. SUFFICES ASSUME SeenInv, [Next]_vars PROVE SeenInv'
    OBVIOUS
  <2>. USE DEF SeenInv, OccupiedIsSeen
  <2>1. CASE HandlerStart \/ HandlerSpurious \/ HandlerWaits
    BY <2>1 DEF HandlerStart, HandlerSpurious, HandlerWaits, history
  <2>2. CASE HandlerSkipsAdd \/ HandlerPanics
    BY <2>2 DEF HandlerSkipsAdd, HandlerPanics, HandlerWakes
  <2>3. ASSUME NEW i \in QSlots,
               HandlerQueueAdd(i) \/ HandlerDelivers(i) \/ HandlerLeaves(i)
        PROVE SeenInv'
    BY <2>3 DEF HandlerQueueAdd, HandlerWakes, HandlerDelivers, HandlerLeaves,
                HandlerTakes
  <2>4. CASE TimerStep \/ TimerSignal
    BY <2>4 DEF TimerStep, TimerSignal, SignalHandler, busVars, history
  <2>5. ASSUME NEW t \in Task,
               \/ BeginBroadcast(t) \/ Receive(t) \/ WakeTask(t)
               \/ ReceiveReturn(t)
        PROVE SeenInv'
    BY <2>5 DEF BeginBroadcast, Receive, WakeTask, ReceiveReturn, busVars,
                history
  <2>6. ASSUME NEW t \in Task, NEW o \in Outputs[t], Broadcast(t, o)
        PROVE SeenInv'
    BY <2>6 DEF Broadcast, SignalHandler
  <2>7. CASE UNCHANGED vars
    BY <2>7 DEF vars, busVars, history
  <2>. QED
    BY <2>1, <2>2, <2>3, <2>4, <2>5, <2>6, <2>7 DEF Next, HandlerPass, TaskStep
<1>3. SeenInv => OccupiedIsSeen
  BY DEF SeenInv
<1>. QED BY <1>1, <1>2, <1>3, PTL DEF Spec

-----------------------------------------------------------------------------
(* At most once, to the right task.                                        *)

\* The steps that leave the queue, the context's entry and what has been
\* handed over alone.
Quiet ==
  /\ UNCHANGED <<msg_context, queue, currentmsg, sent, handed, holder>>
  /\ handler' = "run" <=> handler = "run"

LEMMA QuietKeepsBusInv == ASSUME BusInv, Quiet PROVE BusInv'
BY DEF BusInv, QueueInv, ContextInv, IdInv, Quiet, Undelivered,
       OccupiedSlots, FreeSlots

\* A pass that starts without an addition leaves the queue as it is.
LEMMA WakeKeepsBusInv ==
  ASSUME BusInv, HandlerWakes, UNCHANGED queue PROVE BusInv'
BY DEF BusInv, QueueInv, ContextInv, IdInv, HandlerWakes, Undelivered,
       OccupiedSlots, FreeSlots, taskVars

\* The message queue_add copies is not in the queue yet.
LEMMA AddKeepsBusInv ==
  ASSUME TypeOK, BusInv, NEW i \in QSlots, HandlerQueueAdd(i) PROVE BusInv'
<1>1. /\ handler = "woken" /\ handler' = "run"
      /\ UNCHANGED <<msg_context, currentmsg, sent, handed, holder>>
      /\ queue' = [queue EXCEPT ![i] = msg_context]
      /\ queue[i] = Free
  BY DEF HandlerQueueAdd, HandlerWakes, IsFirst, FreeSlots, taskVars
<1>2. queue' \in [QSlots -> Entry \cup {Free}] /\ queue'[i] = msg_context
      /\ \A j \in QSlots : j # i => queue'[j] = queue[j]
  BY <1>1 DEF TypeOK, BusTypeOK
<1>3. OccupiedSlots' = OccupiedSlots \cup {i}
  <2>1. msg_context # Free
    BY MsgHandlerAssumption DEF TypeOK, BusTypeOK
  <2>. QED BY <1>1, <1>2, <2>1 DEF OccupiedSlots, FreeSlots
<1>4. QueueInv'
  BY <1>1, <1>2, <1>3 DEF BusInv, QueueInv, ContextInv, Undelivered
<1>5. ContextInv'
  BY <1>1 DEF BusInv, ContextInv, Undelivered
<1>6. IdInv'
  BY <1>1, <1>2, <1>3 DEF BusInv, IdInv
<1>. QED BY <1>4, <1>5, <1>6 DEF BusInv

\* The entry the delivery loop takes, and the address it leaves in the context.
LEMMA TakesFacts ==
  ASSUME TypeOK, NEW i \in QSlots, HandlerTakes(i)
  PROVE  /\ handler = "run" /\ handler' = "run"
         /\ i \in OccupiedSlots
         /\ ~Genuine(msg_context')
         /\ sent' = sent
BY TakesType DEF HandlerTakes, IsFirst, NextSlots, Genuine

\* A delivered message leaves the queue and no other slot carries it.
LEMMA DeliverKeepsBusInv ==
  ASSUME TypeOK, BusInv, NEW i \in QSlots, HandlerDelivers(i) PROVE BusInv'
<1>. DEFINE e   == queue[i]
            rcv == RouteOf(e)
<1>1. HandlerTakes(i)
  BY DEF HandlerDelivers
<1>2. e \in Entry /\ rcv \in Task
  BY <1>1, TakesType
<1>3. queue' = [queue EXCEPT ![i] = Free]
  BY DEF HandlerDelivers
<1>4. OccupiedSlots' = OccupiedSlots \ {i}
      /\ \A j \in OccupiedSlots' : queue'[j] = queue[j]
  BY <1>3 DEF TypeOK, BusTypeOK, OccupiedSlots, FreeSlots
<1>5. handed' = IF Genuine(e) THEN handed \cup {e.id} ELSE handed
  BY DEF HandlerDelivers
<1>6. QueueInv'
  <2>1. ASSUME NEW j \in OccupiedSlots', Genuine(queue'[j])
        PROVE  Undelivered(queue[j])' /\ queue'[j] = queue[j]
    <3>1. j \in OccupiedSlots /\ j # i /\ queue'[j] = queue[j]
      BY <1>4, <2>1
    <3>2. Undelivered(queue[j]) /\ (Genuine(e) => queue[j].id # e.id)
      BY <1>1, <3>1, <2>1, TakesFacts DEF BusInv, QueueInv
    <3>3. queue'[j].id \notin handed'
      BY <1>5, <3>1, <3>2 DEF Undelivered
    <3>. QED BY <1>1, <3>1, <3>2, <3>3, TakesFacts DEF Undelivered
  <2>. QED BY <1>4, <2>1 DEF BusInv, QueueInv
<1>7. ContextInv'
  BY <1>1, TakesFacts DEF ContextInv
<1>8. IdInv'
  <2>1. Genuine(e) => e.id \in 1..Len(sent)
    BY <1>1, TakesFacts DEF BusInv, QueueInv, Undelivered
  <2>2. holder' = [holder EXCEPT ![rcv] = e.id]
    BY DEF HandlerDelivers
  <2>3. e.id \in 0..Len(sent)
    BY <1>1, TakesFacts DEF BusInv, IdInv
  <2>4. msg_context'.id = e.id
    BY <1>1 DEF HandlerTakes
  <2>5. holder' \in [Task -> 0..Len(sent)]
    BY <1>2, <2>2, <2>3 DEF BusInv, IdInv, TypeOK, TaskTypeOK
  <2>. QED
    BY <1>1, <1>4, <1>5, <2>1, <2>3, <2>4, <2>5, TakesFacts DEF BusInv, IdInv
<1>. QED BY <1>6, <1>7, <1>8 DEF BusInv

\* A message left in its slot is no longer in the context.
LEMMA LeaveKeepsBusInv ==
  ASSUME TypeOK, BusInv, NEW i \in QSlots, HandlerLeaves(i) PROVE BusInv'
<1>1. HandlerTakes(i) /\ UNCHANGED <<queue, handed, holder>>
  BY DEF HandlerLeaves, taskVars
<1>2. OccupiedSlots' = OccupiedSlots
  BY <1>1 DEF OccupiedSlots, FreeSlots
<1>3. QueueInv'
  BY <1>1, <1>2, TakesFacts DEF BusInv, QueueInv, Undelivered
<1>4. ContextInv'
  BY <1>1, TakesFacts DEF ContextInv
<1>5. IdInv'
  <2>1. msg_context'.id = queue[i].id
    BY <1>1 DEF HandlerTakes
  <2>. QED BY <1>1, <1>2, <2>1, TakesFacts DEF BusInv, IdInv
<1>. QED BY <1>3, <1>4, <1>5 DEF BusInv

\* When the handler goes to sleep with a broadcaster's entry still in the
\* context, the pass found no occupied slot at all.
LEMMA WaitKeepsBusInv == ASSUME TypeOK, BusInv, HandlerWaits PROVE BusInv'
<1>1. UNCHANGED <<msg_context, queue, sent, handed, holder>> /\ currentmsg' = -1
  BY DEF HandlerWaits, taskVars, history
<1>2. OccupiedSlots' = OccupiedSlots
  BY <1>1 DEF OccupiedSlots, FreeSlots
<1>3. Genuine(msg_context) => OccupiedSlots = {}
  BY DEF HandlerWaits, BusInv, ContextInv, NextSlots, OccupiedSlots, QSlots
<1>4. QueueInv' /\ IdInv'
  BY <1>1, <1>2 DEF BusInv, QueueInv, IdInv, Undelivered
<1>5. ContextInv'
  BY <1>1, <1>2, <1>3 DEF BusInv, ContextInv, Undelivered
<1>. QED BY <1>4, <1>5 DEF BusInv

\* A new broadcast has a number no entry carries.
LEMMA BroadcastKeepsBusInv ==
  ASSUME TypeOK, BusInv, NEW t \in Task, NEW o \in Outputs[t], Broadcast(t, o)
  PROVE  BusInv'
<1>1. /\ sent' = Append(sent, msg_table[t][o])
      /\ msg_context' = [id |-> Len(sent) + 1, task |-> t, out |-> o]
      /\ UNCHANGED <<queue, currentmsg, handed, holder>>
      /\ handler # "run" /\ handler' # "run"
  BY DEF Broadcast, SignalHandler
<1>2. sent \in Seq(Task) /\ o \in 1..MAX_OUTPUT /\ msg_table[t][o] \in Task
  BY MsgHandlerAssumption DEF TypeOK, HistoryTypeOK
<1>3. /\ Len(sent') = Len(sent) + 1 /\ Len(sent) \in Nat
      /\ \A n \in 1..Len(sent) : sent'[n] = sent[n]
      /\ sent'[Len(sent) + 1] = msg_table[t][o]
  BY <1>1, <1>2
<1>4. OccupiedSlots' = OccupiedSlots
  BY <1>1 DEF OccupiedSlots, FreeSlots
<1>5. \A i \in OccupiedSlots : Genuine(queue[i]) => Undelivered(queue[i])'
  BY <1>1, <1>3 DEF BusInv, QueueInv, Undelivered
<1>6. QueueInv'
  BY <1>1, <1>4, <1>5 DEF BusInv, QueueInv
<1>7. Undelivered(msg_context)'
  <2>1. RouteOf(msg_context') = msg_table[t][o]
    BY <1>1, <1>2, Sizes DEF RouteOf
  <2>2. Len(sent) + 1 \notin handed
    BY <1>3 DEF BusInv, IdInv
  <2>. QED BY <1>1, <1>3, <2>1, <2>2 DEF Undelivered
<1>8. ContextInv'
  <2>1. \A i \in OccupiedSlots :
          Genuine(queue[i]) => queue[i].id # Len(sent) + 1
    BY <1>3 DEF BusInv, QueueInv, Undelivered
  <2>. QED BY <1>1, <1>4, <1>7, <2>1 DEF BusInv, ContextInv
<1>9. IdInv'
  BY <1>1, <1>3, <1>4 DEF BusInv, IdInv
<1>. QED BY <1>6, <1>8, <1>9 DEF BusInv

\* The invariant behind NoDuplicate, NoStrayMessage and the refinement.
THEOREM BusCorrect == Spec => []BusInv
<1>1. Init => BusInv
  <2>. SUFFICES ASSUME Init PROVE BusInv
    OBVIOUS
  <2>1. OccupiedSlots = {} /\ ~Genuine(msg_context) /\ Len(sent) = 0
    BY DEF Init, OccupiedSlots, FreeSlots, Genuine
  <2>. QED
    BY <2>1 DEF Init, BusInv, QueueInv, ContextInv, IdInv
<1>2. TypeOK /\ BusInv /\ [Next]_vars => BusInv'
  <2>. SUFFICES ASSUME TypeOK, BusInv, [Next]_vars PROVE BusInv'
    OBVIOUS
  <2>1. CASE HandlerStart \/ HandlerSpurious \/ TimerStep \/ TimerSignal
    <3>1. Quiet
      BY <2>1 DEF HandlerStart, HandlerSpurious, TimerStep, TimerSignal,
                  SignalHandler, Quiet, busVars, taskVars, history
    <3>. QED BY <3>1, QuietKeepsBusInv
  <2>2. CASE HandlerSkipsAdd \/ HandlerPanics
    BY <2>2, WakeKeepsBusInv DEF HandlerSkipsAdd, HandlerPanics
  <2>3. ASSUME NEW i \in QSlots,
               HandlerQueueAdd(i) \/ HandlerDelivers(i) \/ HandlerLeaves(i)
        PROVE BusInv'
    BY <2>3, AddKeepsBusInv, DeliverKeepsBusInv, LeaveKeepsBusInv
  <2>4. CASE HandlerWaits
    BY <2>4, WaitKeepsBusInv
  <2>5. ASSUME NEW t \in Task,
               \/ BeginBroadcast(t) \/ Receive(t) \/ WakeTask(t)
               \/ ReceiveReturn(t)
        PROVE BusInv'
    <3>1. Quiet
      BY <2>5 DEF BeginBroadcast, Receive, WakeTask, ReceiveReturn, Quiet,
                  busVars, history
    <3>. QED BY <3>1, QuietKeepsBusInv
  <2>6. ASSUME NEW t \in Task, NEW o \in Outputs[t], Broadcast(t, o)
        PROVE BusInv'
    BY <2>6, BroadcastKeepsBusInv
  <2>7. CASE UNCHANGED vars
    <3>1. Quiet
      BY <2>7 DEF vars, Quiet, busVars, taskVars, history
    <3>. QED BY <3>1, QuietKeepsBusInv
  <2>. QED
    BY <2>1, <2>2, <2>3, <2>4, <2>5, <2>6, <2>7 DEF Next, HandlerPass, TaskStep
<1>. QED BY <1>1, <1>2, TypeCorrect, PTL DEF Spec

\* No receiver is given a message twice, although every wake-up of the handler
\* adds whatever the context holds to the queue.
THEOREM AtMostOnce == Spec => []NoDuplicate
<1>1. BusInv => NoDuplicate
  BY DEF BusInv, QueueInv, ContextInv, Undelivered, NoDuplicate, InTransit,
         QueuedIds
<1>. QED BY <1>1, BusCorrect, PTL

-----------------------------------------------------------------------------
(* Addressing and refinement.                                              *)

\* Only an entry with its broadcaster's address reaches a sheltered listener.
LEMMA ShelteredGetGenuine ==
  ASSUME NEW e \in Entry, RouteOf(e) \in Sheltered
  PROVE  Genuine(e)
<1>. SUFFICES ASSUME ~Genuine(e) PROVE FALSE
  OBVIOUS
<1>1. ~(e.out >= 1)
  BY DEF Genuine
<1>2. CASE e.task >= 1
  <2>1. e.task - 1 \in Task
    <3>1. e.task \in 0..(max_tasks - 2) BY DEF Entry, Task
    <3>2. max_tasks \in Nat BY MsgHandlerAssumption
    <3>. QED BY <3>1, <3>2, <1>2 DEF Task
  <2>. QED BY <1>1, <1>2, <2>1 DEF RouteOf, Sheltered
<1>3. CASE ~(e.task >= 1)
  BY <1>1, <1>3 DEF RouteOf, Sheltered
<1>. QED BY <1>2, <1>3

\* What one delivery does, whichever entry it takes.
LEMMA DeliverFacts ==
  ASSUME TypeOK, BusInv, NEW i \in QSlots, HandlerDelivers(i)
  PROVE  LET e == queue[i] rcv == RouteOf(queue[i]) IN
         /\ rcv \in Task
         /\ e.id \in 0..Len(sent)
         /\ holder' = [holder EXCEPT ![rcv] = e.id]
         /\ sent' = sent
         /\ rcv \in Sheltered => Genuine(e)
         /\ Genuine(e) => /\ e.id \in InTransit
                          /\ sent[e.id] = rcv
                          /\ handed' = handed \cup {e.id}
         /\ ~Genuine(e) => handed' = handed
         /\ InTransit' \subseteq InTransit
         /\ Genuine(e) => e.id \notin InTransit'
<1>. DEFINE e   == queue[i]
            rcv == RouteOf(e)
<1>1. HandlerTakes(i)
  BY DEF HandlerDelivers
<1>2. e \in Entry /\ rcv \in Task
  BY <1>1, TakesType
<1>3. i \in OccupiedSlots /\ ~Genuine(msg_context') /\ sent' = sent
  BY <1>1, TakesFacts
<1>4. OccupiedSlots' = OccupiedSlots \ {i}
      /\ \A j \in OccupiedSlots' : queue'[j] = queue[j]
  BY DEF HandlerDelivers, TypeOK, BusTypeOK, OccupiedSlots, FreeSlots
<1>5. Genuine(e) => e.id \in InTransit /\ sent[e.id] = rcv
  BY <1>3 DEF InTransit, QueuedIds, BusInv, QueueInv, Undelivered
<1>6. e.id \in 0..Len(sent)
  BY <1>3 DEF BusInv, IdInv
<1>7. InTransit' \subseteq InTransit
  BY <1>3, <1>4 DEF InTransit, QueuedIds
<1>8. Genuine(e) => e.id \notin InTransit'
  BY <1>3, <1>4 DEF InTransit, QueuedIds, BusInv, QueueInv
<1>9. rcv \in Sheltered => Genuine(e)
  BY <1>2, ShelteredGetGenuine
<1>. QED
  BY <1>2, <1>3, <1>5, <1>6, <1>7, <1>8, <1>9 DEF HandlerDelivers

\* The holder of a sheltered listener is written by no step but a delivery of
\* a message that was broadcast to it.
THEOREM AddressedOnly == Spec => []NoStrayMessage
<1>. USE MsgHandlerAssumption DEF NoStrayMessage, Sheltered
<1>1. Init => NoStrayMessage
  BY DEF Init
<1>2. TypeOK /\ BusInv /\ NoStrayMessage /\ [Next]_vars => NoStrayMessage'
  <2>. SUFFICES ASSUME TypeOK, BusInv, NoStrayMessage, [Next]_vars
                PROVE  NoStrayMessage'
    OBVIOUS
  <2>1. ASSUME NEW i \in QSlots, HandlerDelivers(i) PROVE NoStrayMessage'
    <3>. DEFINE e   == queue[i]
                rcv == RouteOf(e)
    <3>1. /\ holder' = [holder EXCEPT ![rcv] = e.id] /\ sent' = sent
          /\ rcv \in Task /\ (rcv \in Sheltered => sent[e.id] = rcv)
      BY <2>1, DeliverFacts
    <3>. QED BY <3>1 DEF TypeOK, TaskTypeOK
  <2>2. ASSUME NEW t \in Task, NEW o \in Outputs[t], Broadcast(t, o)
        PROVE NoStrayMessage'
    <3>1. sent' = Append(sent, msg_table[t][o]) /\ holder' = holder
      BY <2>2 DEF Broadcast
    <3>2. \A n \in 1..Len(sent) : sent'[n] = sent[n]
      BY <3>1 DEF TypeOK, HistoryTypeOK
    <3>3. ASSUME NEW u \in Sheltered, holder'[u] # 0 PROVE sent'[holder'[u]] = u
      <4>1. holder[u] \in 1..Len(sent)
        BY <3>1, <3>3, MsgHandlerAssumption
        DEF BusInv, IdInv, Sheltered, TypeOK, HistoryTypeOK
      <4>. QED BY <3>1, <3>2, <3>3, <4>1 DEF NoStrayMessage
    <3>. QED BY <3>3 DEF NoStrayMessage
  <2>3. CASE UNCHANGED <<holder, sent>>
    BY <2>3
  <2>4. HandlerStart \/ HandlerSpurious \/ TimerStep \/ TimerSignal
          => UNCHANGED <<holder, sent>>
    BY DEF HandlerStart, HandlerSpurious, TimerStep, TimerSignal, taskVars,
           history
  <2>5. HandlerSkipsAdd \/ HandlerPanics \/ HandlerWaits
          => UNCHANGED <<holder, sent>>
    BY DEF HandlerSkipsAdd, HandlerPanics, HandlerWakes, HandlerWaits,
           taskVars, history
  <2>6. ASSUME NEW i \in QSlots, HandlerQueueAdd(i) \/ HandlerLeaves(i)
        PROVE UNCHANGED <<holder, sent>>
    BY <2>6 DEF HandlerQueueAdd, HandlerWakes, HandlerLeaves, HandlerTakes,
                taskVars
  <2>7. ASSUME NEW t \in Task,
               \/ BeginBroadcast(t) \/ Receive(t) \/ WakeTask(t)
               \/ ReceiveReturn(t)
        PROVE UNCHANGED <<holder, sent>>
    BY <2>7 DEF BeginBroadcast, Receive, WakeTask, ReceiveReturn, history
  <2>8. UNCHANGED vars => UNCHANGED <<holder, sent>>
    BY DEF vars, taskVars, history
  <2>. QED
    BY <2>1, <2>2, <2>3, <2>4, <2>5, <2>6, <2>7, <2>8
       DEF Next, HandlerPass, TaskStep
<1>. QED BY <1>1, <1>2, TypeCorrect, BusCorrect, PTL DEF Spec

\* A step that changes neither the queue nor the context's entry is not seen
\* by the users of the bus.
LEMMA UnseenSteps ==
  ASSUME UNCHANGED <<msg_context, queue, sent, handed, holder>>
  PROVE  UNCHANGED MB!vars
BY DEF MB!vars, InTransit, QueuedIds, OccupiedSlots, FreeSlots

\* The copy queue_add makes carries the message the context carried.
LEMMA AddIsUnseen ==
  ASSUME TypeOK, NEW i \in QSlots, HandlerQueueAdd(i)
  PROVE  UNCHANGED MB!vars
<1>1. /\ UNCHANGED <<msg_context, sent, handed, holder>>
      /\ queue' = [queue EXCEPT ![i] = msg_context]
      /\ i \notin OccupiedSlots
  BY DEF HandlerQueueAdd, HandlerWakes, IsFirst, FreeSlots, OccupiedSlots,
         taskVars
<1>2. /\ OccupiedSlots' = OccupiedSlots \cup {i}
      /\ queue'[i] = msg_context
      /\ \A j \in OccupiedSlots : queue'[j] = queue[j]
  <2>1. msg_context # Free
    BY MsgHandlerAssumption DEF TypeOK, BusTypeOK
  <2>. QED BY <1>1, <2>1 DEF TypeOK, BusTypeOK, OccupiedSlots, FreeSlots
<1>3. QueuedIds' = IF Genuine(msg_context) THEN QueuedIds \cup {msg_context.id}
                   ELSE QueuedIds
  <2>1. {j \in OccupiedSlots' : Genuine(queue'[j])}
          = {j \in OccupiedSlots : Genuine(queue[j])}
            \cup (IF Genuine(msg_context) THEN {i} ELSE {})
    BY <1>1, <1>2
  <2>. QED BY <1>1, <1>2, <2>1 DEF QueuedIds
<1>4. InTransit' = InTransit
  BY <1>1, <1>3 DEF InTransit
<1>. QED BY <1>1, <1>4 DEF MB!vars

\* A delivery hands a message to the receiver the table names for it, or puts
\* something into the context of a task that is not sheltered.
LEMMA DeliverIsHand ==
  ASSUME TypeOK, BusInv, NEW i \in QSlots, HandlerDelivers(i)
  PROVE  MB!Next
<1>. DEFINE e   == queue[i]
            rcv == RouteOf(e)
<1>1. CASE Genuine(e)
  <2>1. /\ e.id \in InTransit /\ sent' = sent /\ handed' = handed \cup {e.id}
        /\ holder' = [holder EXCEPT ![sent[e.id]] = e.id]
        /\ InTransit' \in SUBSET (InTransit \ {e.id})
    BY <1>1, DeliverFacts
  <2>2. MB!Hand(e.id)
    BY <2>1 DEF MB!Hand
  <2>. QED BY <2>1, <2>2 DEF MB!Next
<1>2. CASE ~Genuine(e)
  <2>1. /\ rcv \in Task \ Sheltered /\ e.id \in 0..Len(sent)
        /\ holder' = [holder EXCEPT ![rcv] = e.id]
        /\ sent' = sent /\ handed' = handed
        /\ InTransit' \in SUBSET InTransit
    BY <1>2, DeliverFacts
  <2>2. MB!Stray(rcv)
    BY <2>1 DEF MB!Stray
  <2>. QED BY <2>1, <2>2 DEF MB!Next
<1>. QED BY <1>1, <1>2

\* A message left in its slot is still on the bus; one that was in the
\* context only is gone.
LEMMA LeaveIsLose ==
  ASSUME TypeOK, NEW i \in QSlots, HandlerLeaves(i) PROVE MB!Next
<1>1. /\ UNCHANGED <<queue, sent, handed, holder>>
      /\ ~Genuine(msg_context')
  BY TakesFacts DEF HandlerLeaves, taskVars
<1>2. InTransit' \in SUBSET InTransit
  BY <1>1 DEF InTransit, QueuedIds, OccupiedSlots, FreeSlots
<1>3. MB!Lose
  BY <1>1, <1>2 DEF MB!Lose
<1>. QED BY <1>3 DEF MB!Next

\* A broadcast enters the bus; a skipped one it overwrites is gone.
LEMMA BroadcastIsAccept ==
  ASSUME TypeOK, NEW t \in Task, NEW o \in Outputs[t], Broadcast(t, o)
  PROVE  MB!Next
<1>. DEFINE m == Len(sent) + 1
<1>1. /\ sent' = Append(sent, msg_table[t][o])
      /\ msg_context' = [id |-> m, task |-> t, out |-> o]
      /\ UNCHANGED <<queue, handed, holder>>
  BY DEF Broadcast
<1>2. o \in 1..MAX_OUTPUT /\ msg_table[t][o] \in Task
  BY MsgHandlerAssumption
<1>3. Genuine(msg_context') /\ msg_context'.id = m
  BY <1>1, <1>2, Sizes DEF Genuine
<1>4. OccupiedSlots' = OccupiedSlots
  BY <1>1 DEF OccupiedSlots, FreeSlots
<1>5. InTransit' = QueuedIds \cup {m} /\ QueuedIds \in SUBSET InTransit
  BY <1>1, <1>3, <1>4 DEF InTransit, QueuedIds
<1>6. MB!Accept(msg_table[t][o])
  BY <1>1, <1>5 DEF MB!Accept
<1>. QED BY <1>2, <1>6 DEF MB!Next

\* The message handler implements the lossy, at-most-once, correctly addressed
\* bus.
THEOREM BusImplemented == Spec => ImplementsBus
<1>. SUFFICES Spec => MB!Spec
  BY DEF ImplementsBus
<1>1. Init => MB!Init
  <2>. SUFFICES ASSUME Init PROVE MB!Init
    OBVIOUS
  <2>1. OccupiedSlots = {} /\ ~Genuine(msg_context)
    BY DEF Init, OccupiedSlots, FreeSlots, Genuine
  <2>2. InTransit = {}
    BY <2>1 DEF InTransit, QueuedIds
  <2>. QED BY <2>2 DEF Init, MB!Init
<1>2. TypeOK /\ BusInv /\ [Next]_vars => [MB!Next]_(MB!vars)
  <2>. SUFFICES ASSUME TypeOK, BusInv, [Next]_vars
                PROVE  [MB!Next]_(MB!vars)
    OBVIOUS
  <2>1. CASE HandlerStart \/ HandlerSpurious \/ TimerStep \/ TimerSignal
    BY <2>1, UnseenSteps DEF HandlerStart, HandlerSpurious, TimerStep,
                             TimerSignal, busVars, taskVars, history
  <2>2. CASE HandlerSkipsAdd \/ HandlerPanics
    BY <2>2, UnseenSteps DEF HandlerSkipsAdd, HandlerPanics, HandlerWakes,
                             taskVars
  <2>3. CASE HandlerWaits
    BY <2>3, UnseenSteps DEF HandlerWaits, taskVars, history
  <2>4. ASSUME NEW i \in QSlots,
               HandlerQueueAdd(i) \/ HandlerDelivers(i) \/ HandlerLeaves(i)
        PROVE  [MB!Next]_(MB!vars)
    BY <2>4, AddIsUnseen, DeliverIsHand, LeaveIsLose
  <2>5. ASSUME NEW t \in Task,
               \/ BeginBroadcast(t) \/ Receive(t) \/ WakeTask(t)
               \/ ReceiveReturn(t)
        PROVE  [MB!Next]_(MB!vars)
    BY <2>5, UnseenSteps DEF BeginBroadcast, Receive, WakeTask, ReceiveReturn,
                             busVars, history
  <2>6. ASSUME NEW t \in Task, NEW o \in Outputs[t], Broadcast(t, o)
        PROVE  [MB!Next]_(MB!vars)
    BY <2>6, BroadcastIsAccept
  <2>7. CASE UNCHANGED vars
    BY <2>7, UnseenSteps DEF vars, busVars, taskVars, history
  <2>. QED
    BY <2>1, <2>2, <2>3, <2>4, <2>5, <2>6, <2>7 DEF Next, HandlerPass, TaskStep
<1>. QED BY <1>1, <1>2, TypeCorrect, BusCorrect, PTL DEF Spec, MB!Spec

-----------------------------------------------------------------------------
(* A message under way alone is not lost in silence.                       *)

\* Message m can still reach its receiver, or has reached it unread.
Alive(m) == m \in InTransit \/ Unread(m)

\* Two messages that are alive for one sheltered receiver are both settled.
LoneInv ==
  \A m, n \in 1..Len(sent) :
    m # n /\ sent[m] = sent[n] /\ sent[m] \in Sheltered /\ Alive(m) /\ Alive(n)
      => m \in settled /\ n \in settled

\* The message of a context that may be overwritten is accounted for outside
\* it.  A broadcaster overwrites the context once it is no longer occupied,
\* the delivery loop while a pass runs.
ExposedInv ==
  Genuine(msg_context) /\ (~occupied \/ handler = "run")
    => msg_context.id \in QueuedIds \cup reported

DropInv == NoSilentDrop /\ LoneInv /\ ExposedInv

\* What is on the bus apart from the context's message is queued.
LEMMA TransitIs ==
  /\ QueuedIds \subseteq InTransit
  /\ Genuine(msg_context) => InTransit = QueuedIds \cup {msg_context.id}
  /\ ~Genuine(msg_context) => InTransit = QueuedIds
BY DEF InTransit

\* A step that leaves the bus and the contexts alone.
StillCounted ==
  /\ UNCHANGED <<msg_context, queue, sent, holder, fresh, settled, reported>>
  /\ occupied' = occupied
  /\ handler' = "run" <=> handler = "run"

LEMMA CountedKeepsDropInv == ASSUME DropInv, StillCounted PROVE DropInv'
<1>1. QueuedIds' = QueuedIds /\ InTransit' = InTransit
  BY DEF StillCounted, QueuedIds, InTransit, OccupiedSlots, FreeSlots
<1>. QED
  BY <1>1 DEF DropInv, NoSilentDrop, LoneInv, ExposedInv, Alive, Unread,
              StillCounted

\* What a task has used is settled.
LEMMA UseKeepsDropInv ==
  ASSUME TypeOK, DropInv, NEW t \in Task, ReceiveReturn(t) PROVE DropInv'
<1>1. /\ UNCHANGED <<msg_context, queue, sent, holder, reported, occupied,
                     handler>>
      /\ \/ UNCHANGED <<fresh, settled>>
         \/ /\ fresh' = [fresh EXCEPT ![t] = FALSE]
            /\ settled' = settled \cup {holder[t]}
  BY DEF ReceiveReturn, Uses, busVars
<1>2. QueuedIds' = QueuedIds /\ InTransit' = InTransit
  BY <1>1 DEF QueuedIds, InTransit, OccupiedSlots, FreeSlots
<1>3. ASSUME NEW m \in 1..Len(sent)
      PROVE  /\ Alive(m)' => Alive(m)
             /\ Alive(m) => Alive(m)' \/ m \in settled'
  <2>1. sent[m] \in Task
    BY DEF TypeOK, HistoryTypeOK
  <2>. QED
    BY <1>1, <1>2, <2>1 DEF Alive, Unread, TypeOK, HistoryTypeOK
<1>4. settled \subseteq settled'
  BY <1>1
<1>. QED
  BY <1>1, <1>2, <1>3, <1>4 DEF DropInv, NoSilentDrop, LoneInv, ExposedInv,
                                Alive

\* A pass that adds nothing prints a line for the message of its context.
LEMMA ReportKeepsDropInv ==
  ASSUME DropInv, HandlerSkipsAdd \/ HandlerPanics PROVE DropInv'
<1>1. /\ UNCHANGED <<msg_context, queue, sent, holder, fresh, settled>>
      /\ reported' = IF Genuine(msg_context)
                       THEN reported \cup {msg_context.id} ELSE reported
  BY DEF HandlerSkipsAdd, HandlerPanics, HandlerWakes, taskVars
<1>2. QueuedIds' = QueuedIds /\ InTransit' = InTransit
  BY <1>1 DEF QueuedIds, InTransit, OccupiedSlots, FreeSlots
<1>. QED
  BY <1>1, <1>2 DEF DropInv, NoSilentDrop, LoneInv, ExposedInv, Alive, Unread

\* A pass that adds has the context's message in its queue.
LEMMA AddKeepsDropInv ==
  ASSUME TypeOK, DropInv, NEW i \in QSlots, HandlerQueueAdd(i) PROVE DropInv'
<1>1. /\ UNCHANGED <<msg_context, sent, holder, fresh, settled, reported>>
      /\ queue' = [queue EXCEPT ![i] = msg_context]
      /\ i \notin OccupiedSlots
  BY DEF HandlerQueueAdd, HandlerWakes, IsFirst, FreeSlots, OccupiedSlots,
         taskVars
<1>2. i \in OccupiedSlots' /\ queue'[i] = msg_context
  BY <1>1, MsgHandlerAssumption
     DEF TypeOK, BusTypeOK, OccupiedSlots, FreeSlots
<1>3. Genuine(msg_context) => msg_context.id \in QueuedIds'
  BY <1>1, <1>2 DEF QueuedIds
<1>4. InTransit' = InTransit
  BY AddIsUnseen DEF MB!vars
<1>. QED
  BY <1>1, <1>3, <1>4 DEF DropInv, NoSilentDrop, LoneInv, ExposedInv, Alive,
                          Unread

\* A delivery makes its message unread; what it replaces at a sheltered
\* listener was alive together with it.
LEMMA DeliverKeepsDropInv ==
  ASSUME TypeOK, BusInv, DropInv, NEW i \in QSlots, HandlerDelivers(i)
  PROVE  DropInv'
<1>. DEFINE e   == queue[i]
            rcv == RouteOf(e)
<1>1. /\ handler = "run" /\ ~Genuine(msg_context') /\ sent' = sent
      /\ UNCHANGED <<reported, settled>>
      /\ i \in OccupiedSlots
  BY TakesFacts DEF HandlerDelivers, HandlerTakes
<1>2. /\ rcv \in Task
      /\ holder' = [holder EXCEPT ![rcv] = e.id]
      /\ rcv \in Sheltered => Genuine(e)
      /\ Genuine(e) => e.id \in InTransit /\ sent[e.id] = rcv
      /\ InTransit' \subseteq InTransit
  BY DeliverFacts
<1>3. fresh' = [fresh EXCEPT ![rcv] = TRUE]
  BY DEF HandlerDelivers
<1>4. QueuedIds \subseteq QueuedIds' \cup {e.id}
      /\ QueuedIds' \subseteq InTransit'
      /\ (e.id \in QueuedIds \ QueuedIds' => Genuine(e))
  <2>1. OccupiedSlots' = OccupiedSlots \ {i}
        /\ \A j \in OccupiedSlots' : queue'[j] = queue[j]
    BY DEF HandlerDelivers, TypeOK, BusTypeOK, OccupiedSlots, FreeSlots
  <2>. QED BY <1>1, <2>1 DEF QueuedIds, InTransit
<1>5. InTransit \subseteq QueuedIds \cup reported
  BY <1>1, TransitIs DEF DropInv, ExposedInv
<1>6. ASSUME NEW m \in 1..Len(sent)
      PROVE  /\ sent[m] \in Task
             /\ sent[m] # rcv => (Unread(m)' <=> Unread(m))
             /\ sent[m] = rcv => (Unread(m)' <=> m = e.id)
  <2>1. sent[m] \in Task
    BY DEF TypeOK, HistoryTypeOK
  <2>2. /\ holder'[rcv] = e.id /\ fresh'[rcv] = TRUE
        /\ \A t \in Task : t # rcv => holder'[t] = holder[t] /\ fresh'[t] = fresh[t]
    BY <1>2, <1>3 DEF TypeOK, TaskTypeOK, HistoryTypeOK
  <2>. HIDE DEF e, rcv
  <2>. QED BY <1>1, <2>1, <2>2 DEF Unread
<1>. HIDE DEF e, rcv
<1>7. ASSUME NEW m \in 1..Len(sent), sent[m] \in Sheltered, Alive(m)'
      PROVE  Alive(m)
  BY <1>2, <1>6, <1>7 DEF Alive
<1>8. LoneInv'
  BY <1>1, <1>7 DEF DropInv, LoneInv
<1>9. ASSUME NEW m \in 1..Len(sent), sent[m] \in Sheltered
      PROVE  Alive(m)' \/ m \in reported \cup settled
  <2>1. CASE m \in InTransit
    <3>1. CASE m \in QueuedIds' \cup reported
      BY <1>4, <3>1 DEF Alive
    <3>2. CASE m \notin QueuedIds' \cup reported
      <4>1. m \in QueuedIds /\ m = e.id
        BY <1>4, <1>5, <2>1, <3>2
      <4>2. sent[m] = rcv
        BY <1>2, <1>4, <3>2, <4>1
      <4>. QED BY <1>6, <4>1, <4>2 DEF Alive
    <3>. QED BY <3>1, <3>2
  <2>2. CASE Unread(m) /\ sent[m] # rcv
    BY <1>6, <2>2 DEF Alive
  <2>3. CASE Unread(m) /\ sent[m] = rcv
    <3>1. Genuine(e) /\ e.id \in InTransit /\ sent[e.id] = rcv
      BY <1>2, <1>9, <2>3
    <3>2. CASE m = e.id
      BY <1>6, <2>3, <3>2 DEF Alive
    <3>3. CASE m # e.id
      <4>1. e.id \in 1..Len(sent)
        BY <1>1, <3>1 DEF BusInv, QueueInv, Undelivered, e
      <4>. QED BY <1>9, <2>3, <3>1, <3>3, <4>1 DEF DropInv, LoneInv, Alive
    <3>. QED BY <3>2, <3>3
  <2>4. CASE ~Alive(m)
    BY <1>9, <2>4 DEF DropInv, NoSilentDrop, Alive
  <2>. QED BY <2>1, <2>2, <2>3, <2>4 DEF Alive
<1>10. NoSilentDrop'
  BY <1>1, <1>9 DEF NoSilentDrop, Alive
<1>11. ExposedInv'
  BY <1>1 DEF ExposedInv
<1>. QED BY <1>8, <1>10, <1>11 DEF DropInv

\* A message held up stays queued.
LEMMA LeaveKeepsDropInv ==
  ASSUME TypeOK, DropInv, NEW i \in QSlots, HandlerLeaves(i) PROVE DropInv'
<1>1. /\ handler = "run" /\ ~Genuine(msg_context')
      /\ UNCHANGED <<queue, sent, holder, fresh, settled, reported>>
  BY TakesFacts DEF HandlerLeaves, HandlerTakes, taskVars
<1>2. QueuedIds' = QueuedIds /\ InTransit' = QueuedIds
  BY <1>1 DEF QueuedIds, InTransit, OccupiedSlots, FreeSlots
<1>3. InTransit \subseteq QueuedIds \cup reported /\ QueuedIds \subseteq InTransit
  BY <1>1, TransitIs DEF DropInv, ExposedInv
<1>. QED
  BY <1>1, <1>2, <1>3 DEF DropInv, NoSilentDrop, LoneInv, ExposedInv, Alive,
                          Unread

\* At the end of a pass the message of the context is accounted for, so that
\* the context can be given up.
LEMMA WaitKeepsDropInv == ASSUME DropInv, HandlerWaits PROVE DropInv'
<1>1. /\ handler = "run"
      /\ UNCHANGED <<msg_context, queue, sent, holder, fresh, settled, reported>>
  BY DEF HandlerWaits, taskVars, history
<1>2. QueuedIds' = QueuedIds /\ InTransit' = InTransit
  BY <1>1 DEF QueuedIds, InTransit, OccupiedSlots, FreeSlots
<1>. QED
  BY <1>1, <1>2 DEF DropInv, NoSilentDrop, LoneInv, ExposedInv, Alive, Unread

\* A broadcaster overwrites a context whose message is accounted for, and a
\* message that finds another one under way settles both.
LEMMA BroadcastKeepsDropInv ==
  ASSUME TypeOK, BusInv, DropInv, NEW t \in Task, NEW o \in Outputs[t],
         Broadcast(t, o)
  PROVE  DropInv'
<1>. DEFINE new    == Len(sent) + 1
            r      == msg_table[t][o]
            others == UnderWay(r)
<1>1. /\ sent' = Append(sent, r)
      /\ msg_context' = [id |-> new, task |-> t, out |-> o]
      /\ UNCHANGED <<queue, holder, fresh, reported>>
      /\ handler # "run" /\ ~occupied /\ occupied' = TRUE /\ handler' # "run"
      /\ settled' = IF others = {} THEN settled
                    ELSE settled \cup others \cup {new}
  BY DEF Broadcast, SignalHandler
<1>2. r \in Task /\ o \in 1..MAX_OUTPUT /\ sent \in Seq(Task)
  BY MsgHandlerAssumption DEF TypeOK, HistoryTypeOK
<1>3. /\ Len(sent') = new /\ new \notin 1..Len(sent)
      /\ 1..Len(sent') = (1..Len(sent)) \cup {new}
      /\ sent'[new] = r
      /\ \A m \in 1..Len(sent) : sent'[m] = sent[m]
  BY <1>1, <1>2
<1>4. Genuine(msg_context') /\ msg_context'.id = new
  BY <1>1, <1>2, Sizes DEF Genuine
<1>5. InTransit' = QueuedIds \cup {new}
  BY <1>1, <1>4 DEF InTransit, QueuedIds, OccupiedSlots, FreeSlots
<1>6. InTransit \subseteq QueuedIds \cup reported /\ QueuedIds \subseteq InTransit
  BY <1>1, TransitIs DEF DropInv, ExposedInv
<1>. HIDE DEF new, r, others
<1>7. ASSUME NEW m \in 1..Len(sent)
      PROVE  /\ Unread(m)' <=> Unread(m)
             /\ Alive(m)' => Alive(m) /\ (sent[m] = r => m \in others)
             /\ Alive(m) => Alive(m)' \/ m \in reported
  <2>1. Unread(m)' <=> Unread(m)
    BY <1>1, <1>3 DEF Unread
  <2>2. m # new
    BY <1>3
  <2>. QED BY <1>5, <1>6, <2>1, <2>2 DEF Alive, UnderWay, others
<1>8. NoSilentDrop'
  <2>1. ASSUME NEW m \in 1..Len(sent), sent[m] \in Sheltered
        PROVE  Alive(m)' \/ m \in reported' \cup settled'
    BY <1>1, <1>7, <2>1 DEF DropInv, NoSilentDrop, Alive
  <2>2. new \in InTransit'
    BY <1>5
  <2>. QED BY <1>3, <2>1, <2>2 DEF NoSilentDrop, Alive
<1>9. LoneInv'
  <2>. SUFFICES ASSUME NEW m \in 1..Len(sent'), NEW n \in 1..Len(sent'),
                       m # n, sent'[m] = sent'[n], sent'[m] \in Sheltered,
                       Alive(m)', Alive(n)'
                PROVE  m \in settled' /\ n \in settled'
    BY DEF LoneInv
  <2>1. CASE m # new /\ n # new
    <3>1. m \in 1..Len(sent) /\ n \in 1..Len(sent)
      BY <1>3, <2>1
    <3>2. m \in settled /\ n \in settled
      BY <1>3, <1>7, <3>1 DEF DropInv, LoneInv
    <3>. QED BY <1>1, <3>2
  <2>2. CASE m = new
    <3>1. n \in 1..Len(sent) /\ sent[n] = r
      BY <1>3, <2>2
    <3>2. n \in others
      BY <1>7, <3>1
    <3>. QED BY <1>1, <2>2, <3>2
  <2>3. CASE n = new
    <3>1. m \in 1..Len(sent) /\ sent[m] = r
      BY <1>3, <2>3
    <3>2. m \in others
      BY <1>7, <3>1
    <3>. QED BY <1>1, <2>3, <3>2
  <2>. QED BY <2>1, <2>2, <2>3
<1>10. ExposedInv'
  BY <1>1 DEF ExposedInv
<1>. QED BY <1>8, <1>9, <1>10 DEF DropInv

\* Whatever the receivers, the alarms and the spurious wake-ups do, a message
\* that is under way to its receiver alone stays on the bus or unread in the
\* receiver's context until it is used, or was reported on the handler's
\* output, by "skipping queue add" or "PANIC! Queue full".
THEOREM DropIsReported == Spec => []NoSilentDrop
<1>1. Init => DropInv
  <2>. SUFFICES ASSUME Init PROVE DropInv
    OBVIOUS
  <2>1. Len(sent) = 0 /\ ~Genuine(msg_context)
    BY DEF Init, Genuine
  <2>. QED BY <2>1 DEF DropInv, NoSilentDrop, LoneInv, ExposedInv
<1>2. TypeOK /\ BusInv /\ DropInv /\ [Next]_vars => DropInv'
  <2>. SUFFICES ASSUME TypeOK, BusInv, DropInv, [Next]_vars PROVE DropInv'
    OBVIOUS
  <2>1. CASE HandlerStart \/ HandlerSpurious \/ TimerStep \/ TimerSignal
    <3>1. StillCounted
      BY <2>1 DEF HandlerStart, HandlerSpurious, TimerStep, TimerSignal,
                  SignalHandler, StillCounted, busVars, taskVars, history
    <3>. QED BY <3>1, CountedKeepsDropInv
  <2>2. CASE HandlerSkipsAdd \/ HandlerPanics
    BY <2>2, ReportKeepsDropInv
  <2>3. ASSUME NEW i \in QSlots,
               HandlerQueueAdd(i) \/ HandlerDelivers(i) \/ HandlerLeaves(i)
        PROVE DropInv'
    BY <2>3, AddKeepsDropInv, DeliverKeepsDropInv, LeaveKeepsDropInv
  <2>4. CASE HandlerWaits
    BY <2>4, WaitKeepsDropInv
  <2>5. ASSUME NEW t \in Task, BeginBroadcast(t) \/ Receive(t) \/ WakeTask(t)
        PROVE DropInv'
    <3>1. StillCounted
      BY <2>5 DEF BeginBroadcast, Receive, WakeTask, StillCounted, busVars,
                  history
    <3>. QED BY <3>1, CountedKeepsDropInv
  <2>6. ASSUME NEW t \in Task, ReceiveReturn(t) PROVE DropInv'
    BY <2>6, UseKeepsDropInv
  <2>7. ASSUME NEW t \in Task, NEW o \in Outputs[t], Broadcast(t, o)
        PROVE DropInv'
    BY <2>7, BroadcastKeepsDropInv
  <2>8. CASE UNCHANGED vars
    <3>1. StillCounted
      BY <2>8 DEF vars, StillCounted, busVars, taskVars, history
    <3>. QED BY <3>1, CountedKeepsDropInv
  <2>. QED
    BY <2>1, <2>2, <2>3, <2>4, <2>5, <2>6, <2>7, <2>8
       DEF Next, HandlerPass, TaskStep
<1>3. DropInv => NoSilentDrop
  BY DEF DropInv
<1>. QED BY <1>1, <1>2, <1>3, TypeCorrect, BusCorrect, PTL DEF Spec

-----------------------------------------------------------------------------
(* A pass reaches every slot, and a flag stands for something new.         *)

\* Why PassTriesAll holds: a pass has tried every slot up to the index it has
\* reached, and nothing is queued before the first pass.
PassInv ==
  /\ PassTriesAll
  /\ handler = "start" => OccupiedSlots = {}
  /\ handler = "run" =>
       \A i \in OccupiedSlots : i <= currentmsg => i \in tried

\* The steps taken outside a pass.
OutsidePass ==
  /\ UNCHANGED <<queue, currentmsg, tried>>
  /\ \/ handler' = handler
     \/ handler \in {"start", "wait"} /\ handler' \in {"wait", "woken"}

LEMMA OutsideKeepsPassInv ==
  ASSUME PassInv, OutsidePass, handler = "start" => handler' # "woken"
  PROVE  PassInv'
BY DEF PassInv, OutsidePass, PassTriesAll, OccupiedSlots, FreeSlots

\* A pass starts in front of the first slot.
LEMMA WakeStartsPass ==
  ASSUME TypeOK, BusInv, HandlerWakes PROVE PassInv'
<1>1. currentmsg' = -1 /\ handler' = "run"
  BY DEF HandlerWakes, BusInv, ContextInv
<1>2. OccupiedSlots' \subseteq Nat
  BY DEF OccupiedSlots, QSlots
<1>. QED BY <1>1, <1>2 DEF PassInv, PassTriesAll

\* The slot taken is the next one: between it and the last one nothing is
\* queued.
LEMMA TakeKeepsPassInv ==
  ASSUME TypeOK, PassInv, NEW i \in QSlots, HandlerTakes(i),
         OccupiedSlots' \subseteq OccupiedSlots, tried \subseteq tried',
         i \in OccupiedSlots' => i \in tried'
  PROVE  PassInv'
<1>1. handler = "run" /\ handler' = "run" /\ currentmsg' = i
  BY DEF HandlerTakes
<1>2. \A j \in OccupiedSlots : j <= currentmsg => j \in tried
  BY <1>1 DEF PassInv
<1>3. \A j \in OccupiedSlots : j > currentmsg => i <= j
  BY DEF HandlerTakes, IsFirst, NextSlots
<1>4. ASSUME NEW j \in OccupiedSlots', j <= i PROVE j \in tried'
  <2>1. j \in Int /\ i \in Int /\ currentmsg \in Int
    BY Sizes DEF TypeOK, BusTypeOK, OccupiedSlots, QSlots
  <2>2. CASE j <= currentmsg
    BY <1>2, <2>2
  <2>3. CASE j > currentmsg
    <3>1. j = i
      BY <1>3, <1>4, <2>1, <2>3
    <3>. QED BY <3>1
  <2>. QED BY <2>1, <2>2, <2>3
<1>. QED BY <1>1, <1>4 DEF PassInv, PassTriesAll

\* A pass that ends has left no slot behind.
LEMMA WaitEndsPass ==
  ASSUME TypeOK, PassInv, HandlerWaits PROVE PassInv'
<1>1. /\ handler = "run" /\ handler' = "wait" /\ UNCHANGED <<queue, tried>>
      /\ NextSlots = {}
  BY DEF HandlerWaits, history
<1>2. \A i \in OccupiedSlots : i <= currentmsg
  BY <1>1, Sizes DEF NextSlots, TypeOK, BusTypeOK, OccupiedSlots, QSlots
<1>3. OccupiedSlots' = OccupiedSlots
  BY <1>1 DEF OccupiedSlots, FreeSlots
<1>. QED BY <1>1, <1>2, <1>3 DEF PassInv, PassTriesAll

\* No queued message is passed over: what is still queued when the handler
\* goes to sleep was tried in that very pass.
THEOREM EveryPassIsComplete == Spec => []PassTriesAll
<1>1. Init => PassInv
  BY DEF Init, PassInv, PassTriesAll, OccupiedSlots, FreeSlots
<1>2. TypeOK /\ BusInv /\ PassInv /\ [Next]_vars => PassInv'
  <2>. SUFFICES ASSUME TypeOK, BusInv, PassInv, [Next]_vars PROVE PassInv'
    OBVIOUS
  <2>1. CASE HandlerStart \/ HandlerSpurious \/ TimerStep \/ TimerSignal
    BY <2>1, OutsideKeepsPassInv
       DEF HandlerStart, HandlerSpurious, TimerStep, TimerSignal,
           SignalHandler, OutsidePass, busVars, history
  <2>2. CASE HandlerSkipsAdd \/ HandlerPanics
    BY <2>2, WakeStartsPass DEF HandlerSkipsAdd, HandlerPanics
  <2>3. ASSUME NEW i \in QSlots, HandlerQueueAdd(i) PROVE PassInv'
    BY <2>3, WakeStartsPass DEF HandlerQueueAdd
  <2>4. ASSUME NEW i \in QSlots, HandlerDelivers(i) PROVE PassInv'
    <3>1. OccupiedSlots' = OccupiedSlots \ {i} /\ tried' = tried
      BY <2>4 DEF HandlerDelivers, TypeOK, BusTypeOK, OccupiedSlots, FreeSlots
    <3>. QED BY <2>4, <3>1, TakeKeepsPassInv DEF HandlerDelivers
  <2>5. ASSUME NEW i \in QSlots, HandlerLeaves(i) PROVE PassInv'
    <3>1. OccupiedSlots' = OccupiedSlots /\ tried' = tried \cup {i}
      BY <2>5 DEF HandlerLeaves, OccupiedSlots, FreeSlots
    <3>. QED BY <2>5, <3>1, TakeKeepsPassInv DEF HandlerLeaves
  <2>6. CASE HandlerWaits
    BY <2>6, WaitEndsPass
  <2>7. ASSUME NEW t \in Task,
               \/ BeginBroadcast(t) \/ Receive(t) \/ WakeTask(t)
               \/ ReceiveReturn(t)
        PROVE PassInv'
    BY <2>7, OutsideKeepsPassInv
       DEF BeginBroadcast, Receive, WakeTask, ReceiveReturn, OutsidePass,
           busVars, history
  <2>8. ASSUME NEW t \in Task, NEW o \in Outputs[t], Broadcast(t, o)
        PROVE PassInv'
    BY <2>8, OutsideKeepsPassInv DEF Broadcast, SignalHandler, OutsidePass
  <2>9. CASE UNCHANGED vars
    BY <2>9, OutsideKeepsPassInv DEF vars, busVars, history, OutsidePass
  <2>. QED
    BY <2>1, <2>2, <2>3, <2>4, <2>5, <2>6, <2>7, <2>8, <2>9
       DEF Next, HandlerPass, TaskStep
<1>3. PassInv => PassTriesAll
  BY DEF PassInv
<1>. QED BY <1>1, <1>2, <1>3, TypeCorrect, BusCorrect, PTL DEF Spec

\* A task that passes its own id to receive() and heeds the result is never
\* told of a message it has used before: the flag is raised by deliveries
\* only, and lowered whenever the holder is used.
THEOREM FlagIsTruthful == Spec => []FlagMeansNew
<1>1. Init => FlagMeansNew
  BY MsgHandlerAssumption DEF Init, FlagMeansNew
<1>2. TypeOK /\ FlagMeansNew /\ [Next]_vars => FlagMeansNew'
  <2>. SUFFICES ASSUME TypeOK, FlagMeansNew, [Next]_vars PROVE FlagMeansNew'
    OBVIOUS
  <2>. USE MsgHandlerAssumption DEF FlagMeansNew
  <2>1. ASSUME NEW i \in QSlots, HandlerDelivers(i) PROVE FlagMeansNew'
    <3>. DEFINE rcv == RouteOf(queue[i])
    <3>1. rcv \in Task
      BY <2>1, TakesType DEF HandlerDelivers
    <3>2. /\ MessageSignal' = [MessageSignal EXCEPT ![rcv] = TRUE]
          /\ fresh' = [fresh EXCEPT ![rcv] = TRUE]
      BY <2>1 DEF HandlerDelivers
    <3>. HIDE DEF rcv
    <3>. QED BY <3>1, <3>2 DEF TypeOK, TaskTypeOK, HistoryTypeOK
  <2>2. ASSUME NEW t \in Task, ReceiveReturn(t) PROVE FlagMeansNew'
    BY <2>2 DEF ReceiveReturn, Uses, TypeOK, TaskTypeOK, HistoryTypeOK
  <2>3. CASE UNCHANGED <<MessageSignal, fresh>>
    BY <2>3
  <2>4. HandlerStart \/ HandlerSpurious \/ TimerStep \/ TimerSignal
        \/ HandlerSkipsAdd \/ HandlerPanics \/ HandlerWaits
          => UNCHANGED <<MessageSignal, fresh>>
    BY DEF HandlerStart, HandlerSpurious, TimerStep, TimerSignal,
           HandlerSkipsAdd, HandlerPanics, HandlerWakes, HandlerWaits,
           taskVars, history
  <2>5. ASSUME NEW i \in QSlots, HandlerQueueAdd(i) \/ HandlerLeaves(i)
        PROVE UNCHANGED <<MessageSignal, fresh>>
    BY <2>5 DEF HandlerQueueAdd, HandlerWakes, HandlerLeaves, taskVars
  <2>6. ASSUME NEW t \in Task, BeginBroadcast(t) \/ Receive(t) \/ WakeTask(t)
        PROVE UNCHANGED <<MessageSignal, fresh>>
    BY <2>6 DEF BeginBroadcast, Receive, WakeTask, history
  <2>7. ASSUME NEW t \in Task, NEW o \in Outputs[t], Broadcast(t, o)
        PROVE UNCHANGED <<MessageSignal, fresh>>
    BY <2>7 DEF Broadcast
  <2>8. UNCHANGED vars => UNCHANGED <<MessageSignal, fresh>>
    BY DEF vars, taskVars, history
  <2>. QED
    BY <2>1, <2>2, <2>3, <2>4, <2>5, <2>6, <2>7, <2>8
       DEF Next, HandlerPass, TaskStep
<1>. QED BY <1>1, <1>2, TypeCorrect, PTL DEF Spec
=============================================================================
