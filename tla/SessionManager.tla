--------------------------- MODULE SessionManager ---------------------------
(***************************************************************************)
(* Sessions of the DZigbee bridge (ihaplite/sessionmanager.c) and the IP   *)
(* tasks that open them (ihaplite/iptask.c).                               *)
(*                                                                         *)
(* The IP task of a virtual port (VPS) accepts a client, broadcasts its    *)
(* request and waits in receive() for whatever wakes it next.  The session *)
(* manager opens a session for the request's VPS, passes the request on to *)
(* the ZigBee task, forwards the first report for that VPS to the IP task, *)
(* which closes the session, and after SESSION_TIMEOUT visits of its alarm *)
(* sends a timeout notice instead.  All sessions share one alarm.          *)
(*                                                                         *)
(* The bus between them is the one MessageBus promises and MsgHandler      *)
(* implements: a message goes to the task the wiring names, at most once,  *)
(* in any order, only while that task is inside receive(), and it may be   *)
(* lost.  Messages of one kind for one VPS are not told apart, so the bus  *)
(* is a bag.  The ZigBee task is whatever reports it may send.             *)
(***************************************************************************)
EXTENDS TimeManager, FiniteSets

CONSTANTS
  MAX_VPS,               \* virtual ports with an IP task: 0..MAX_VPS-1
  SESSION_TIMEOUT,       \* alarm visits a session lasts
  SessionManagerTask_id, \* index of its entries of the task arrays
  Second,                \* the delay of one visit, alarmSet(.., 10)
  KeywordDelay,          \* the delay a 0TIME request asks for, 3000
  Reported,              \* the VPSs devices report for, with IP task or not
  Overlap,               \* the TimeManager visits while the manager runs
  Spurious,              \* pthread_cond_wait may return without a signal
  MaxCopies,             \* bound: exchanges of a VPS under way
  MaxReports,            \* bound: reports on the bus
  MaxOwed                \* bound: requests of a VPS without a reply

SM  == SessionManagerTask_id
VPS == 0..(MAX_VPS - 1)

Message ==
  [kind : {"request", "reply"}, vps : VPS] \cup
  [kind : {"report"}, vps : Reported]

Request(v) == [kind |-> "request", vps |-> v]
Reply(v)   == [kind |-> "reply", vps |-> v]
Report(v)  == [kind |-> "report", vps |-> v]

\* No message waits to be used.
None == [kind |-> "none", vps |-> 0]

ASSUME SessionManagerAssumption ==
  /\ MAX_VPS \in Nat \ {0}
  /\ SESSION_TIMEOUT \in Nat \ {0}
  /\ Slots = {SM}
  /\ {Second, KeywordDelay} \subseteq 1..MaxDelay
  /\ Reported \subseteq Nat
  /\ {Overlap, Spurious} \subseteq BOOLEAN
  /\ {MaxCopies, MaxReports, MaxOwed} \subseteq Nat \ {0}

VARIABLES
  session_table,  \* [VPS -> visits left, 0 when there is no session]
  smPc,           \* where the session manager is
  smHolder,       \* the message in its context it has yet to use, or None
  smFlag,         \* MessageSignal[SM]
  ipPc,           \* [VPS -> where the IP task is]
  ipHolder,       \* [VPS -> a message has ever been put into its context]
  transit,        \* [Message -> how many the bus carries]
  owed,           \* history: [VPS -> requests made less replies sent]
  lost            \* history: VPSs whose last exchange lost a message

smVars == <<session_table, smPc, smHolder, smFlag>>
ipVars == <<ipPc, ipHolder>>
vars   == <<tmVars, smVars, ipVars, transit, owed, lost>>

Held(v) == IF smHolder = Request(v) THEN 1 ELSE 0
Open(v) == IF session_table[v] > 0 THEN 1 ELSE 0

ReportsUnderWay ==
  Cardinality({v \in Reported : transit[Report(v)] > 0})

\* What may still make the session manager send v a reply.
Pending(v) == transit[Request(v)] + Held(v) + Open(v)

TypeOK ==
  /\ TMTypeOK
  /\ session_table \in [VPS -> 0..SESSION_TIMEOUT]
  /\ smPc \in {"loop", "receive", "woken", "message", "alarm", "countdown"}
  /\ smHolder \in Message \cup {None}
  /\ smPc = "message" => smHolder # None
  /\ smFlag \in BOOLEAN
  /\ ipPc \in [VPS -> {"select", "receive", "woken", "crashed"}]
  /\ ipHolder \in [VPS -> BOOLEAN]
  /\ transit \in [Message -> 0..MaxCopies]
  /\ owed \in [VPS -> 0..MaxOwed]
  /\ lost \in SUBSET VPS

Init ==
  /\ TMInit
  /\ session_table = [v \in VPS |-> 0]
  /\ smPc = "loop"
  /\ smHolder = None
  /\ smFlag = FALSE
  /\ ipPc = [v \in VPS |-> "select"]
  /\ ipHolder = [v \in VPS |-> FALSE]
  /\ transit = [m \in Message |-> 0]
  /\ owed = [v \in VPS |-> 0]
  /\ lost = {}

Put(m)  == transit' = [transit EXCEPT ![m] = @ + 1]
Take(m) == transit' = [transit EXCEPT ![m] = @ - 1]

\* The bridge is one process: a crash of one task ends all of them.
Running == \A v \in VPS : ipPc[v] # "crashed"

\* The exchange that message m belonged to has lost it.
Losing(m) == IF m.kind \in {"request", "reply"} THEN lost \cup {m.vps} ELSE lost

\* With Overlap off the visits of the TimeManager and the rounds of the
\* session manager do not overlap, as they seldom do in time.
Undisturbed == Overlap \/ tmPc[SM] = "idle"

-----------------------------------------------------------------------------
(* The bus.                                                                *)

DeliverToManager(m) ==
  /\ Running
  /\ m.kind # "reply"
  /\ transit[m] > 0
  /\ smPc \in {"receive", "woken"}
  /\ Undisturbed
  /\ Take(m)
  /\ smHolder' = m
  /\ smFlag' = TRUE
  /\ smPc' = "woken"
  /\ lost' = Losing(smHolder)
  /\ UNCHANGED <<tmVars, session_table, ipVars, owed>>

DeliverReply(v) ==
  /\ Running
  /\ transit[Reply(v)] > 0
  /\ ipPc[v] \in {"receive", "woken"}
  /\ Take(Reply(v))
  /\ ipHolder' = [ipHolder EXCEPT ![v] = TRUE]
  /\ ipPc' = [ipPc EXCEPT ![v] = "woken"]
  /\ UNCHANGED <<tmVars, smVars, owed, lost>>

Lose(m) ==
  /\ Running
  /\ transit[m] > 0
  /\ Take(m)
  /\ lost' = Losing(m)
  /\ UNCHANGED <<tmVars, smVars, ipVars, owed>>

-----------------------------------------------------------------------------
(* The IP tasks.                                                           *)

\* A client connects and sends a request.
IPRequests(v) ==
  /\ Running
  /\ ipPc[v] = "select"
  /\ Pending(v) + transit[Reply(v)] < MaxCopies
  /\ owed[v] < MaxOwed
  /\ Put(Request(v))
  /\ ipPc' = [ipPc EXCEPT ![v] = "receive"]
  /\ owed' = [owed EXCEPT ![v] = @ + 1]
  /\ lost' = lost \ {v}
  /\ UNCHANGED <<tmVars, smVars, ipHolder>>

\* receive(VPS, ...): the flag that is reset is that of the task whose id is
\* the VPS, one of them the session manager.  The result is not looked at: the
\* holder is sent to the client and the connection is closed.
IPReplies(v) ==
  /\ Running
  /\ ipPc[v] = "woken"
  /\ ipHolder[v]
  /\ smFlag' = (smFlag /\ v # SM)
  /\ ipPc' = [ipPc EXCEPT ![v] = "select"]
  /\ UNCHANGED <<tmVars, session_table, smPc, smHolder, ipHolder, transit, owed,
                 lost>>

\* The holder is NULL and is dereferenced.
IPCrashes(v) ==
  /\ Running
  /\ ipPc[v] = "woken"
  /\ ~ipHolder[v]
  /\ ipPc' = [ipPc EXCEPT ![v] = "crashed"]
  /\ UNCHANGED <<tmVars, smVars, ipHolder, transit, owed, lost>>

IPSpurious(v) ==
  /\ Running
  /\ Spurious
  /\ ipPc[v] = "receive"
  /\ ipPc' = [ipPc EXCEPT ![v] = "woken"]
  /\ UNCHANGED <<tmVars, smVars, ipHolder, transit, owed, lost>>

\* The ZigBee task broadcasts what a device sent.
DeviceReports(v) ==
  /\ Running
  /\ ReportsUnderWay < MaxReports
  /\ transit[Report(v)] < MaxCopies
  /\ Put(Report(v))
  /\ UNCHANGED <<tmVars, smVars, ipVars, owed, lost>>

-----------------------------------------------------------------------------
(* The session manager.  receive() returns TRUE: the message is used; FALSE: *)
(* an alarm, a spurious wake-up, or a message whose flag an IP task took.    *)

\* The manager calls receive().  The TimeManager takes no mutex, so it may
\* raise and signal an alarm between the test of the last round and here.
SMReceives ==
  /\ Running
  /\ smPc = "loop"
  /\ smPc' = "receive"
  /\ UNCHANGED <<tmVars, session_table, smHolder, smFlag, ipVars, transit, owed,
                 lost>>

SMReturns ==
  /\ Running
  /\ smPc = "woken"
  /\ smFlag
  /\ smPc' = "message"
  /\ smFlag' = FALSE
  /\ UNCHANGED <<tmVars, session_table, smHolder, ipVars, transit, owed, lost>>

SMReturnsFalse ==
  /\ Running
  /\ smPc = "woken"
  /\ ~smFlag
  /\ smPc' = "alarm"
  /\ lost' = Losing(smHolder)
  /\ smHolder' = None
  /\ UNCHANGED <<tmVars, session_table, smFlag, ipVars, transit, owed>>

SMSpurious ==
  /\ Running
  /\ Spurious
  /\ smPc = "receive"
  /\ smPc' = "woken"
  /\ UNCHANGED <<tmVars, session_table, smHolder, smFlag, ipVars, transit, owed,
                 lost>>

SMUses(kind) == Running /\ smPc = "message" /\ smHolder.kind = kind

SMRejects ==
  /\ Running
  /\ smPc = "message"
  /\ smHolder.vps > MAX_VPS
  /\ smHolder' = None
  /\ smPc' = "alarm"
  /\ UNCHANGED <<tmVars, session_table, smFlag, ipVars, transit, owed, lost>>

\* In1: the session is opened, or begins anew, the shared alarm is set anew,
\* and the request goes on to the ZigBee task.
SMRequest ==
  /\ SMUses("request")
  /\ session_table' = [session_table EXCEPT ![smHolder.vps] = SESSION_TIMEOUT]
  /\ alarmSet(SM, Second) \/ alarmSet(SM, KeywordDelay)
  /\ smHolder' = None
  /\ smPc' = "alarm"
  /\ UNCHANGED <<AlarmSignal, tmPc, tmReg, smFlag, ipVars, transit, owed, lost>>

HasSession(v) == v \in VPS /\ session_table[v] > 0

Replied(S) ==
  /\ transit' = [m \in Message |->
                   IF m.kind = "reply" /\ m.vps \in S THEN transit[m] + 1
                   ELSE transit[m]]
  /\ owed' = [v \in VPS |-> IF v \in S THEN owed[v] - 1 ELSE owed[v]]

\* Variant: the session is left open.
SMAnswerKeeps ==
  /\ SMUses("report")
  /\ HasSession(smHolder.vps)
  /\ Replied({smHolder.vps})
  /\ smHolder' = None
  /\ smPc' = "alarm"
  /\ UNCHANGED <<tmVars, session_table, smFlag, ipVars, lost>>

\* In2, a session is open: it is closed and its IP task gets the report.
SMAnswer ==
  /\ SMUses("report")
  /\ HasSession(smHolder.vps)
  /\ session_table' = [session_table EXCEPT ![smHolder.vps] = 0]
  /\ Replied({smHolder.vps})
  /\ smHolder' = None
  /\ smPc' = "alarm"
  /\ UNCHANGED <<tmVars, smFlag, ipVars, lost>>

\* In2, no session: the report is broadcast on UDP.
SMUnknown ==
  /\ SMUses("report")
  /\ smHolder.vps <= MAX_VPS
  /\ ~HasSession(smHolder.vps)
  /\ smHolder' = None
  /\ smPc' = "alarm"
  /\ UNCHANGED <<tmVars, session_table, smFlag, ipVars, transit, owed, lost>>

SMTestsAlarm ==
  /\ Running
  /\ smPc = "alarm"
  /\ smPc' = IF AlarmSignal[SM] THEN "countdown" ELSE "loop"
  /\ alarmTestAndReset(SM)
  /\ UNCHANGED <<AlarmCountdown, tmPc, tmReg, session_table, smHolder, smFlag,
                 ipVars, transit, owed, lost>>

CountedDown ==
  [v \in VPS |-> IF session_table[v] > 0 THEN session_table[v] - 1 ELSE 0]

Expiring == {v \in VPS : session_table[v] = 1}

\* Variant: a session that has expired is closed without a notice.
SMCountsDownSilently ==
  /\ Running
  /\ smPc = "countdown"
  /\ session_table' = CountedDown
  /\ IF \E v \in VPS : session_table[v] > 1 THEN alarmSet(SM, Second)
     ELSE UNCHANGED AlarmCountdown
  /\ smPc' = "loop"
  /\ UNCHANGED <<AlarmSignal, tmPc, tmReg, smHolder, smFlag, ipVars, transit,
                 owed, lost>>

\* The alarm: every session is counted down, those that expire are closed with
\* a timeout notice, and the alarm is set again while one is left.
SMCountsDown ==
  /\ Running
  /\ smPc = "countdown"
  /\ session_table' = CountedDown
  /\ Replied(Expiring)
  /\ IF \E v \in VPS : session_table[v] > 1 THEN alarmSet(SM, Second)
     ELSE UNCHANGED AlarmCountdown
  /\ smPc' = "loop"
  /\ UNCHANGED <<AlarmSignal, tmPc, tmReg, smHolder, smFlag, ipVars, lost>>

ManagerRuns ==
  \/ SMReceives \/ SMReturns \/ SMReturnsFalse \/ SMRejects \/ SMRequest
  \/ SMAnswer \/ SMUnknown \/ SMTestsAlarm \/ SMCountsDown

-----------------------------------------------------------------------------
(* The TimeManager.                                                        *)

TimerStep ==
  /\ Running
  /\ Overlap \/ smPc = "receive"
  /\ TMInternal(SM)
  /\ UNCHANGED <<smVars, ipVars, transit, owed, lost>>

\* The signal is lost unless the session manager is in receive().
TimerSignal ==
  /\ Running
  /\ TMSignal(SM)
  /\ smPc' = IF smPc = "receive" THEN "woken" ELSE smPc
  /\ UNCHANGED <<session_table, smHolder, smFlag, ipVars, transit, owed, lost>>

-----------------------------------------------------------------------------
Deliveries ==
  (\E m \in Message : DeliverToManager(m)) \/ (\E v \in VPS : DeliverReply(v))

Next ==
  \/ Deliveries
  \/ \E m \in Message : Lose(m)
  \/ \E v \in VPS : IPRequests(v) \/ IPReplies(v) \/ IPCrashes(v) \/ IPSpurious(v)
  \/ \E v \in Reported : DeviceReports(v)
  \/ ManagerRuns \/ SMSpurious
  \/ TimerStep \/ TimerSignal

Spec == Init /\ [][Next]_vars

\* Threads are scheduled; the manager is between two rounds again and again,
\* so the TimeManager gets its turn even where Overlap is off.  Clients and
\* devices need not act, and the bus need not deliver.
Fairness == WF_vars(ManagerRuns) /\ SF_vars(TimerStep) /\ WF_vars(TimerSignal)

FairSpec == Spec /\ Fairness

-----------------------------------------------------------------------------
(* Safety.                                                                 *)

\* A reply, answer or timeout notice, is sent only for a request that has had
\* none: each request leads to at most one reply even when sessions begin
\* anew, messages overtake each other, and an answer races the timeout.
RepliesAreOwed == \A v \in VPS : Pending(v) <= owed[v]

\* An IP task never waits for nothing: unless the bus lost a message of its
\* exchange, its request is on the way, its session open, or a reply coming.
NoWaiterForgotten ==
  \A v \in VPS :
    ipPc[v] = "receive" => v \in lost \/ Pending(v) + transit[Reply(v)] > 0

-----------------------------------------------------------------------------
(* Liveness.                                                               *)

\* sessionmanager.c:131 "Set alarm so sessions can be decremented each
\* second": a session is answered or times out.  The code does not keep this:
\* each request sets the one alarm of all sessions anew, so requests of one
\* port keep the session of another from being counted down.
SessionsEnd == \A v \in VPS : session_table[v] > 0 ~> session_table[v] = 0
=============================================================================
