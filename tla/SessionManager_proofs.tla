------------------------ MODULE SessionManager_proofs ------------------------
(***************************************************************************)
(* Theorems about sessions, for every number of virtual ports, timeout,    *)
(* task id, set of reporting devices and bound, with and without spurious  *)
(* wake-ups and an overlapping TimeManager.                                *)
(***************************************************************************)
EXTENDS SessionManager, TLAPS

\* The exchanges under way stay within their bound.  TypeOK is not inductive
\* without it: a reply is sent where a session closes, and only the number of
\* open sessions limits how many.
CopiesBounded ==
  \A v \in VPS : Pending(v) + transit[Reply(v)] <= MaxCopies

\* The flag announces a message the manager has in its context, so that
\* receive() never returns TRUE for an empty one.
FlagIsHeld == smFlag => smPc = "woken" /\ smHolder # None

\* The inductive invariant.
SessionInv == TypeOK /\ FlagIsHeld /\ CopiesBounded /\ RepliesAreOwed

-----------------------------------------------------------------------------
(* The constants and the messages.                                         *)

LEMMA Sizes ==
  /\ MAX_VPS \in Nat \ {0}
  /\ SESSION_TIMEOUT \in Nat \ {0}
  /\ Slots = {SM}
  /\ Second \in 1..MaxDelay /\ KeywordDelay \in 1..MaxDelay
  /\ MaxDelay \in Nat
  /\ Reported \subseteq Nat
  /\ Overlap \in BOOLEAN /\ Spurious \in BOOLEAN
  /\ MaxCopies \in Nat \ {0} /\ MaxReports \in Nat \ {0} /\ MaxOwed \in Nat \ {0}
BY SessionManagerAssumption, TimeManagerAssumption

\* Every message is a request, a reply or a report of its port.
LEMMA MessageIs ==
  ASSUME NEW m \in Message
  PROVE  /\ m.kind \in {"request", "reply", "report"}
         /\ m.kind = "request" => m.vps \in VPS /\ m = Request(m.vps)
         /\ m.kind = "reply"   => m.vps \in VPS /\ m = Reply(m.vps)
         /\ m.kind = "report"  => m.vps \in Reported /\ m = Report(m.vps)
         /\ m # None
BY DEF Message, Request, Reply, Report, None

\* Requests and replies are messages of their port.
LEMMA IsMessage ==
  ASSUME NEW v \in VPS
  PROVE  /\ Request(v) \in Message /\ Reply(v) \in Message
         /\ Request(v).kind = "request" /\ Request(v).vps = v
         /\ Reply(v).kind = "reply" /\ Reply(v).vps = v
         /\ Request(v) # None
BY DEF Message, Request, Reply, None

\* Two messages of one kind are the same only for the same port.
LEMMA Distinct ==
  ASSUME NEW v \in VPS, NEW w \in VPS
  PROVE  /\ Request(v) # Reply(w)
         /\ (Request(v) = Request(w)) = (v = w)
         /\ (Reply(v) = Reply(w)) = (v = w)
BY DEF Request, Reply

\* The terms of Pending are numbers.
LEMMA Numbers ==
  ASSUME TypeOK, NEW v \in VPS
  PROVE  /\ transit[Request(v)] \in Nat /\ transit[Reply(v)] \in Nat
         /\ Held(v) \in 0..1 /\ Open(v) \in 0..1
         /\ Pending(v) = transit[Request(v)] + Held(v) + Open(v)
         /\ owed[v] \in Nat
         /\ session_table[v] \in Nat
         /\ (Open(v) = 1) = (session_table[v] > 0)
<1>1. transit[Request(v)] \in Nat /\ transit[Reply(v)] \in Nat
  BY IsMessage, Sizes DEF TypeOK
<1>2. session_table[v] \in Nat /\ owed[v] \in Nat
  BY Sizes DEF TypeOK
<1>. QED BY <1>1, <1>2 DEF Held, Open, Pending

-----------------------------------------------------------------------------
(* Type correctness.                                                       *)

\* The alarm arrays keep their types under every step of the TimeManager.
LEMMA TimerType ==
  ASSUME TMTypeOK, TMInternal(SM) \/ TMSignal(SM)
  PROVE  TMTypeOK'
<1>1. SM \in Slots BY Sizes
<1>. USE TimeManagerAssumption DEF TMTypeOK
<1>2. CASE TMVisit(SM)     BY <1>1, <1>2 DEF TMVisit
<1>3. CASE TMCountDown(SM) BY <1>1, <1>3 DEF TMCountDown
<1>4. CASE TMRaise(SM)     BY <1>1, <1>4 DEF TMRaise
<1>5. CASE TMClear(SM)     BY <1>1, <1>5 DEF TMClear
<1>6. CASE TMSignal(SM)    BY <1>1, <1>6 DEF TMSignal
<1>. QED BY <1>2, <1>3, <1>4, <1>5, <1>6 DEF TMInternal

-----------------------------------------------------------------------------
(* What each action does to the exchange of one port: how Pending and the  *)
(* replies on the bus change.                                              *)

\* The port's entries of the bus are left alone.
LEMMA Untouched ==
  ASSUME TypeOK, NEW v \in VPS,
         transit'[Request(v)] = transit[Request(v)],
         session_table'[v] = session_table[v],
         (smHolder' = Request(v)) = (smHolder = Request(v))
  PROVE  Pending(v)' = Pending(v)
BY DEF Pending, Held, Open

LEMMA DeliverLedger ==
  ASSUME TypeOK, NEW m \in Message, DeliverToManager(m), NEW v \in VPS
  PROVE  /\ Pending(v)' = Pending(v) - Held(v)
         /\ transit'[Reply(v)] = transit[Reply(v)]
<1>1. m # Reply(v)
  BY DEF DeliverToManager, Reply
<1>2. transit' = [transit EXCEPT ![m] = @ - 1] /\ smHolder' = m
      /\ session_table' = session_table
  BY DEF DeliverToManager, Take
<1>3. Open(v)' = Open(v)
  BY <1>2 DEF Open
<1>4. transit'[Request(v)] = transit[Request(v)] - (IF m = Request(v) THEN 1 ELSE 0)
  BY <1>2, IsMessage, Numbers DEF TypeOK
<1>5. Held(v)' = IF m = Request(v) THEN 1 ELSE 0
  BY <1>2 DEF Held
<1>. QED
  BY <1>1, <1>2, <1>3, <1>4, <1>5, IsMessage, Numbers DEF TypeOK, Pending

LEMMA DeliverReplyLedger ==
  ASSUME TypeOK, NEW w \in VPS, DeliverReply(w), NEW v \in VPS
  PROVE  /\ Pending(v)' = Pending(v)
         /\ transit'[Reply(v)] = transit[Reply(v)] - (IF v = w THEN 1 ELSE 0)
<1>1. transit' = [transit EXCEPT ![Reply(w)] = @ - 1]
      /\ UNCHANGED <<session_table, smHolder>>
  BY DEF DeliverReply, Take, smVars
<1>2. Request(v) # Reply(w) /\ (Reply(v) = Reply(w)) = (v = w)
  BY Distinct
<1>. QED BY <1>1, <1>2, IsMessage, Numbers, Untouched DEF TypeOK

LEMMA LoseLedger ==
  ASSUME TypeOK, NEW m \in Message, Lose(m), NEW v \in VPS
  PROVE  /\ Pending(v)' = Pending(v) - (IF m = Request(v) THEN 1 ELSE 0)
         /\ transit'[Reply(v)] = transit[Reply(v)] - (IF m = Reply(v) THEN 1 ELSE 0)
<1>1. transit' = [transit EXCEPT ![m] = @ - 1]
      /\ UNCHANGED <<session_table, smHolder>>
  BY DEF Lose, Take, smVars
<1>2. Held(v)' = Held(v) /\ Open(v)' = Open(v)
  BY <1>1 DEF Held, Open
<1>3. /\ transit'[Request(v)] = transit[Request(v)] - (IF m = Request(v) THEN 1 ELSE 0)
      /\ transit'[Reply(v)] = transit[Reply(v)] - (IF m = Reply(v) THEN 1 ELSE 0)
  BY <1>1, IsMessage, Numbers DEF TypeOK
<1>. QED BY <1>2, <1>3, Numbers DEF Pending

LEMMA RequestsLedger ==
  ASSUME TypeOK, NEW w \in VPS, IPRequests(w), NEW v \in VPS
  PROVE  /\ Pending(v)' = Pending(v) + (IF v = w THEN 1 ELSE 0)
         /\ transit'[Reply(v)] = transit[Reply(v)]
<1>1. transit' = [transit EXCEPT ![Request(w)] = @ + 1]
      /\ UNCHANGED <<session_table, smHolder>>
  BY DEF IPRequests, Put, smVars
<1>2. Held(v)' = Held(v) /\ Open(v)' = Open(v)
  BY <1>1 DEF Held, Open
<1>3. Reply(v) # Request(w) /\ (Request(v) = Request(w)) = (v = w)
  BY Distinct
<1>4. /\ transit'[Request(v)] = transit[Request(v)] + (IF v = w THEN 1 ELSE 0)
      /\ transit'[Reply(v)] = transit[Reply(v)]
  BY <1>1, <1>3, IsMessage, Numbers DEF TypeOK
<1>. QED BY <1>2, <1>4, Numbers DEF Pending

LEMMA ReportsLedger ==
  ASSUME TypeOK, NEW r \in Reported, DeviceReports(r), NEW v \in VPS
  PROVE  /\ Pending(v)' = Pending(v)
         /\ transit'[Reply(v)] = transit[Reply(v)]
<1>1. transit' = [transit EXCEPT ![Report(r)] = @ + 1]
      /\ UNCHANGED <<session_table, smHolder>>
  BY DEF DeviceReports, Put, smVars
<1>2. Report(r) # Request(v) /\ Report(r) # Reply(v)
  BY DEF Report, Request, Reply
<1>. QED BY <1>1, <1>2, IsMessage, Untouched DEF TypeOK

LEMMA DropLedger ==
  ASSUME TypeOK, SMReturnsFalse, NEW v \in VPS
  PROVE  /\ Pending(v)' = Pending(v) - Held(v)
         /\ transit'[Reply(v)] = transit[Reply(v)]
<1>1. smHolder' = None /\ UNCHANGED <<session_table, transit>>
  BY DEF SMReturnsFalse
<1>2. Held(v)' = 0
  BY <1>1, IsMessage DEF Held
<1>3. Open(v)' = Open(v)
  BY <1>1 DEF Open
<1>. QED BY <1>1, <1>2, <1>3, Numbers DEF Pending

\* A message that is used or thrown away and is not a request.
LEMMA ReportDoneLedger ==
  ASSUME TypeOK, smHolder \in Message, smHolder.kind # "request",
         smHolder' = None,
         UNCHANGED <<session_table, transit>>, NEW v \in VPS
  PROVE  /\ Pending(v)' = Pending(v)
         /\ transit'[Reply(v)] = transit[Reply(v)]
<1>1. smHolder # Request(v) /\ smHolder' # Request(v)
  BY IsMessage
<1>. QED BY <1>1, Untouched

\* The message in use is one of the bus.
LEMMA InUse ==
  ASSUME TypeOK, smPc = "message"
  PROVE  smHolder \in Message
BY DEF TypeOK

\* A message of a port beyond the table is a report.
LEMMA RejectedIsReport ==
  ASSUME TypeOK, SMRejects
  PROVE  smHolder.kind = "report"
<1>1. smHolder \in Message /\ smHolder.vps > MAX_VPS
  BY InUse DEF SMRejects
<1>2. smHolder.vps \notin VPS
  BY <1>1, Sizes DEF VPS
<1>. QED BY <1>1, <1>2, MessageIs

\* The request in use is of a port.
LEMMA UsedRequest ==
  ASSUME TypeOK, SMRequest
  PROVE  smHolder.vps \in VPS /\ smHolder = Request(smHolder.vps)
<1>1. smHolder \in Message /\ smHolder.kind = "request"
  BY InUse DEF SMRequest, SMUses
<1>. QED BY <1>1, MessageIs

LEMMA OpensLedger ==
  ASSUME TypeOK, SMRequest, NEW v \in VPS
  PROVE  /\ Pending(v)' = Pending(v)
                          - (IF v = smHolder.vps THEN Open(v) ELSE 0)
         /\ v = smHolder.vps => Pending(v)' > 0
         /\ transit'[Reply(v)] = transit[Reply(v)]
<1>. DEFINE w == smHolder.vps
<1>1. /\ session_table' = [session_table EXCEPT ![w] = SESSION_TIMEOUT]
      /\ smHolder' = None /\ transit' = transit
  BY DEF SMRequest
<1>3. w \in VPS /\ smHolder = Request(w)
  BY UsedRequest
<1>4. Held(v)' = 0
  BY <1>1, IsMessage DEF Held
<1>5. Held(v) = IF v = w THEN 1 ELSE 0
  BY <1>3, Distinct DEF Held
<1>6. Open(v)' = IF v = w THEN 1 ELSE Open(v)
  BY <1>1, <1>3, Sizes DEF Open, TypeOK
<1>. QED BY <1>1, <1>3, <1>4, <1>5, <1>6, Numbers DEF Pending

\* Replies are added to the bus and to no other kind of message.
LEMMA RepliedIs ==
  ASSUME TypeOK, NEW S \in SUBSET VPS, Replied(S), NEW v \in VPS
  PROVE  /\ transit'[Request(v)] = transit[Request(v)]
         /\ transit'[Reply(v)] = transit[Reply(v)] + (IF v \in S THEN 1 ELSE 0)
         /\ owed'[v] = owed[v] - (IF v \in S THEN 1 ELSE 0)
<1>1. /\ \A m \in Message :
            transit'[m] = IF m.kind = "reply" /\ m.vps \in S THEN transit[m] + 1
                          ELSE transit[m]
      /\ \A u \in VPS : owed'[u] = IF u \in S THEN owed[u] - 1 ELSE owed[u]
  BY DEF Replied
<1>. QED BY <1>1, IsMessage, Numbers

LEMMA AnswerLedger ==
  ASSUME TypeOK, SMAnswer, NEW v \in VPS
  PROVE  /\ v = smHolder.vps => Open(v) = 1
         /\ Pending(v)' = Pending(v) - (IF v = smHolder.vps THEN 1 ELSE 0)
         /\ transit'[Reply(v)] = transit[Reply(v)]
                                 + (IF v = smHolder.vps THEN 1 ELSE 0)
         /\ owed'[v] = owed[v] - (IF v = smHolder.vps THEN 1 ELSE 0)
<1>. DEFINE w == smHolder.vps
<1>1. /\ session_table' = [session_table EXCEPT ![w] = 0]
      /\ smHolder' = None /\ Replied({w})
      /\ w \in VPS /\ session_table[w] > 0
  BY DEF SMAnswer, HasSession
<1>2. smHolder \in Message /\ smHolder.kind = "report"
  BY InUse DEF SMAnswer, SMUses
<1>3. Held(v) = 0 /\ Held(v)' = 0
  BY <1>1, <1>2, IsMessage DEF Held
<1>4. Open(v)' = IF v = w THEN 0 ELSE Open(v)
  BY <1>1 DEF Open, TypeOK
<1>5. Open(w) = 1
  BY <1>1 DEF Open
<1>6. /\ transit'[Request(v)] = transit[Request(v)]
      /\ transit'[Reply(v)] = transit[Reply(v)] + (IF v = w THEN 1 ELSE 0)
      /\ owed'[v] = owed[v] - (IF v = w THEN 1 ELSE 0)
  BY <1>1, RepliedIs
<1>. QED BY <1>1, <1>3, <1>4, <1>5, <1>6, Numbers DEF Pending

LEMMA CountdownLedger ==
  ASSUME TypeOK, SMCountsDown, NEW v \in VPS
  PROVE  /\ v \in Expiring => Open(v) = 1
         /\ Pending(v)' = Pending(v) - (IF v \in Expiring THEN 1 ELSE 0)
         /\ transit'[Reply(v)] = transit[Reply(v)]
                                 + (IF v \in Expiring THEN 1 ELSE 0)
         /\ owed'[v] = owed[v] - (IF v \in Expiring THEN 1 ELSE 0)
<1>1. /\ session_table' = CountedDown
      /\ smHolder' = smHolder /\ Replied(Expiring)
  BY DEF SMCountsDown
<1>2. Expiring \in SUBSET VPS
  BY DEF Expiring
<1>3. Held(v)' = Held(v)
  BY <1>1 DEF Held
<1>4. (v \in Expiring) = (session_table[v] = 1)
  BY DEF Expiring
<1>5. session_table'[v] = IF session_table[v] > 0 THEN session_table[v] - 1 ELSE 0
  BY <1>1 DEF CountedDown
<1>6. Open(v)' = Open(v) - (IF v \in Expiring THEN 1 ELSE 0)
      /\ (v \in Expiring => Open(v) = 1)
  BY <1>4, <1>5, Numbers DEF Open
<1>7. /\ transit'[Request(v)] = transit[Request(v)]
      /\ transit'[Reply(v)] = transit[Reply(v)] + (IF v \in Expiring THEN 1 ELSE 0)
      /\ owed'[v] = owed[v] - (IF v \in Expiring THEN 1 ELSE 0)
  BY <1>1, <1>2, RepliedIs
<1>. QED BY <1>3, <1>6, <1>7, Numbers DEF Pending

\* The steps of neither bus, IP request nor used message: the timer's, the
\* wake-ups, and the returns of receive().
LEMMA IdleLedger ==
  ASSUME TypeOK, UNCHANGED <<session_table, smHolder, transit>>, NEW v \in VPS
  PROVE  Pending(v)' = Pending(v) /\ transit'[Reply(v)] = transit[Reply(v)]
BY DEF Pending, Held, Open

-----------------------------------------------------------------------------
(* The invariant.                                                          *)

\* One step of the bus takes a message away or adds one.
LEMMA TransitType ==
  ASSUME TypeOK, NEW m \in Message,
         \/ transit[m] > 0 /\ Take(m)
         \/ transit[m] < MaxCopies /\ Put(m)
  PROVE  transit' \in [Message -> 0..MaxCopies]
<1>1. transit \in [Message -> 0..MaxCopies]
  BY DEF TypeOK
<1>2. CASE transit[m] > 0 /\ Take(m)
  <2>1. transit[m] - 1 \in 0..MaxCopies
    BY <1>1, <1>2, Sizes
  <2>2. transit' = [transit EXCEPT ![m] = transit[m] - 1]
    BY <1>2 DEF Take
  <2>. QED BY <1>1, <2>1, <2>2
<1>3. CASE transit[m] < MaxCopies /\ Put(m)
  <2>1. transit[m] + 1 \in 0..MaxCopies
    BY <1>1, <1>3, Sizes
  <2>2. transit' = [transit EXCEPT ![m] = transit[m] + 1]
    BY <1>3 DEF Put
  <2>. QED BY <1>1, <2>1, <2>2
<1>. QED BY <1>2, <1>3

\* A port with an open session has room for a reply and owes one.
LEMMA ReplyType ==
  ASSUME SessionInv, NEW S \in SUBSET VPS, \A v \in S : Open(v) = 1, Replied(S)
  PROVE  /\ transit' \in [Message -> 0..MaxCopies]
         /\ owed' \in [VPS -> 0..MaxOwed]
<1>. USE DEF SessionInv
<1>1. ASSUME NEW v \in S
      PROVE  transit[Reply(v)] + 1 \in 0..MaxCopies /\ owed[v] - 1 \in 0..MaxOwed
  <2>1. /\ Pending(v) >= 1
        /\ Pending(v) + transit[Reply(v)] <= MaxCopies
        /\ Pending(v) <= owed[v]
        /\ owed[v] \in 0..MaxOwed
    BY <1>1, Numbers DEF CopiesBounded, RepliesAreOwed, TypeOK
  <2>. QED BY <2>1, Numbers, Sizes
<1>2. ASSUME NEW m \in Message, m.kind = "reply", m.vps \in S
      PROVE  transit[m] + 1 \in 0..MaxCopies
  <2>1. m = Reply(m.vps)
    BY <1>2, MessageIs
  <2>. QED BY <1>1, <1>2, <2>1
<1>3. transit \in [Message -> 0..MaxCopies] /\ owed \in [VPS -> 0..MaxOwed]
  BY DEF TypeOK
<1>4. transit' \in [Message -> 0..MaxCopies]
  BY <1>2, <1>3 DEF Replied
<1>5. owed' \in [VPS -> 0..MaxOwed]
  BY <1>1, <1>3 DEF Replied
<1>. QED BY <1>4, <1>5

\* A message of an exchange that is lost marks its port.
LEMMA LosingType ==
  ASSUME TypeOK, NEW m \in Message \cup {None}
  PROVE  Losing(m) \in SUBSET VPS
<1>1. CASE m = None
  BY <1>1 DEF Losing, None, TypeOK
<1>2. CASE m \in Message
  BY <1>2, MessageIs DEF Losing, TypeOK
<1>. QED BY <1>1, <1>2

LEMMA StepType == SessionInv /\ [Next]_vars => TypeOK'
<1>. SUFFICES ASSUME SessionInv, [Next]_vars PROVE TypeOK'
  OBVIOUS
<1>1. TypeOK
  BY DEF SessionInv
<1>. USE Sizes
<1>2. ASSUME NEW m \in Message, DeliverToManager(m) PROVE TypeOK'
  <2>1. transit' \in [Message -> 0..MaxCopies]
    BY <1>1, <1>2, TransitType DEF DeliverToManager
  <2>2. Losing(smHolder) \in SUBSET VPS
    BY <1>1, LosingType DEF TypeOK
  <2>. QED
    BY <1>1, <1>2, <2>1, <2>2 DEF DeliverToManager, TypeOK, TMTypeOK, tmVars, ipVars
<1>3. ASSUME NEW v \in VPS, DeliverReply(v) PROVE TypeOK'
  <2>1. transit' \in [Message -> 0..MaxCopies]
    BY <1>1, <1>3, TransitType, IsMessage DEF DeliverReply
  <2>. QED
    BY <1>1, <1>3, <2>1 DEF DeliverReply, TypeOK, TMTypeOK, tmVars, smVars
<1>4. ASSUME NEW m \in Message, Lose(m) PROVE TypeOK'
  <2>1. transit' \in [Message -> 0..MaxCopies]
    BY <1>1, <1>4, TransitType DEF Lose
  <2>2. Losing(m) \in SUBSET VPS
    BY <1>1, LosingType
  <2>. QED
    BY <1>1, <1>4, <2>1, <2>2 DEF Lose, TypeOK, TMTypeOK, tmVars, smVars, ipVars
<1>5. ASSUME NEW v \in VPS, IPRequests(v) PROVE TypeOK'
  <2>1. transit[Request(v)] < MaxCopies
    BY <1>1, <1>5, Numbers DEF IPRequests
  <2>2. transit' \in [Message -> 0..MaxCopies]
    BY <1>1, <1>5, <2>1, TransitType, IsMessage DEF IPRequests
  <2>3. owed[v] + 1 \in 0..MaxOwed
    BY <1>1, <1>5 DEF IPRequests, TypeOK
  <2>. QED
    BY <1>1, <1>5, <2>2, <2>3 DEF IPRequests, TypeOK, TMTypeOK, tmVars, smVars
<1>6. ASSUME NEW v \in VPS, IPReplies(v) \/ IPCrashes(v) \/ IPSpurious(v)
      PROVE  TypeOK'
  BY <1>1, <1>6 DEF IPReplies, IPCrashes, IPSpurious, TypeOK, TMTypeOK, tmVars,
                    smVars
<1>7. ASSUME NEW v \in Reported, DeviceReports(v) PROVE TypeOK'
  <2>1. Report(v) \in Message
    BY DEF Report, Message
  <2>2. transit' \in [Message -> 0..MaxCopies]
    BY <1>1, <1>7, <2>1, TransitType DEF DeviceReports
  <2>. QED
    BY <1>1, <1>7, <2>2 DEF DeviceReports, TypeOK, TMTypeOK, tmVars, smVars, ipVars
<1>8. CASE SMReturns
  <2>1. smHolder # None
    BY <1>8 DEF SMReturns, SessionInv, FlagIsHeld
  <2>. QED
    BY <1>1, <1>8, <2>1 DEF SMReturns, TypeOK, TMTypeOK, tmVars, ipVars
<1>9. CASE SMReturnsFalse
  <2>1. Losing(smHolder) \in SUBSET VPS
    BY <1>1, LosingType DEF TypeOK
  <2>. QED
    BY <1>1, <1>9, <2>1 DEF SMReturnsFalse, TypeOK, TMTypeOK, tmVars, ipVars
<1>10. CASE SMReceives \/ SMSpurious \/ SMRejects \/ SMUnknown \/ SMTestsAlarm
  BY <1>1, <1>10 DEF SMReceives, SMSpurious, SMRejects, SMUnknown, SMUses, SMTestsAlarm,
                     alarmTestAndReset, TypeOK, TMTypeOK, tmVars, ipVars
<1>11. CASE SMRequest
  <2>1. smHolder.vps \in VPS
    BY <1>1, <1>11, UsedRequest
  <2>2. session_table' = [session_table EXCEPT ![smHolder.vps] = SESSION_TIMEOUT]
    BY <1>11 DEF SMRequest
  <2>3. SESSION_TIMEOUT \in 0..SESSION_TIMEOUT
    OBVIOUS
  <2>4. session_table \in [VPS -> 0..SESSION_TIMEOUT]
    BY <1>1 DEF TypeOK
  <2>5. session_table' \in [VPS -> 0..SESSION_TIMEOUT]
    BY <2>1, <2>2, <2>3, <2>4
  <2>6. TMTypeOK'
    BY <1>1, <1>11 DEF SMRequest, alarmSet, TypeOK, TMTypeOK
  <2>. QED
    BY <1>1, <1>11, <2>5, <2>6 DEF SMRequest, TypeOK, ipVars
<1>12. CASE SMAnswer
  <2>1. smHolder.vps \in VPS /\ Open(smHolder.vps) = 1
    BY <1>12 DEF SMAnswer, HasSession, Open
  <2>2. /\ transit' \in [Message -> 0..MaxCopies]
        /\ owed' \in [VPS -> 0..MaxOwed]
    BY <1>12, <2>1, ReplyType DEF SMAnswer
  <2>3. session_table' = [session_table EXCEPT ![smHolder.vps] = 0]
    BY <1>12 DEF SMAnswer
  <2>4. 0 \in 0..SESSION_TIMEOUT
    OBVIOUS
  <2>5. session_table \in [VPS -> 0..SESSION_TIMEOUT]
    BY <1>1 DEF TypeOK
  <2>6. session_table' \in [VPS -> 0..SESSION_TIMEOUT]
    BY <2>1, <2>3, <2>4, <2>5
  <2>. QED
    BY <1>1, <1>12, <2>2, <2>6 DEF SMAnswer, TypeOK, TMTypeOK, tmVars, ipVars
<1>13. CASE SMCountsDown
  <2>1. Expiring \in SUBSET VPS /\ \A v \in Expiring : Open(v) = 1
    BY DEF Expiring, Open
  <2>2. /\ transit' \in [Message -> 0..MaxCopies]
        /\ owed' \in [VPS -> 0..MaxOwed]
    BY <1>13, <2>1, ReplyType DEF SMCountsDown
  <2>3. session_table' \in [VPS -> 0..SESSION_TIMEOUT]
    BY <1>1, <1>13 DEF SMCountsDown, CountedDown, TypeOK
  <2>. QED
    BY <1>1, <1>13, <2>2, <2>3 DEF SMCountsDown, alarmSet, TypeOK, TMTypeOK, ipVars
<1>14. CASE TimerStep
  BY <1>1, <1>14, TimerType DEF TimerStep, TypeOK, smVars, ipVars
<1>15. CASE TimerSignal
  BY <1>1, <1>15, TimerType DEF TimerSignal, TypeOK, ipVars
<1>16. CASE UNCHANGED vars
  BY <1>1, <1>16 DEF vars, TypeOK, TMTypeOK, tmVars, smVars, ipVars
<1>. QED
  BY <1>2, <1>3, <1>4, <1>5, <1>6, <1>7, <1>8, <1>9, <1>10, <1>11, <1>12,
     <1>13, <1>14, <1>15, <1>16 DEF Next, Deliveries, ManagerRuns

LEMMA StepFlag == SessionInv /\ [Next]_vars => FlagIsHeld'
<1>. SUFFICES ASSUME SessionInv, [Next]_vars PROVE FlagIsHeld'
  OBVIOUS
<1>1. TypeOK /\ FlagIsHeld
  BY DEF SessionInv
<1>. USE DEF FlagIsHeld
<1>2. ASSUME NEW m \in Message, DeliverToManager(m) PROVE FlagIsHeld'
  BY <1>2, MessageIs DEF DeliverToManager
<1>3. CASE \/ \E v \in VPS : \/ DeliverReply(v) \/ IPRequests(v) \/ IPReplies(v)
                            \/ IPCrashes(v) \/ IPSpurious(v)
           \/ \E m \in Message : Lose(m)
           \/ \E v \in Reported : DeviceReports(v)
           \/ UNCHANGED vars
  BY <1>1, <1>3 DEF DeliverReply, Lose, IPRequests, IPReplies, IPCrashes,
                    IPSpurious, DeviceReports, smVars, vars
<1>4. CASE SMReceives \/ SMReturns \/ SMReturnsFalse \/ SMSpurious
  BY <1>1, <1>4 DEF SMReceives, SMReturns, SMReturnsFalse, SMSpurious
<1>5. CASE SMRejects \/ SMRequest \/ SMAnswer \/ SMUnknown \/ SMTestsAlarm
           \/ SMCountsDown
  BY <1>1, <1>5 DEF SMRejects, SMRequest, SMAnswer, SMUnknown, SMUses,
                    SMTestsAlarm, SMCountsDown
<1>6. CASE TimerStep \/ TimerSignal
  BY <1>1, <1>6 DEF TimerStep, TimerSignal, smVars
<1>. QED
  BY <1>2, <1>3, <1>4, <1>5, <1>6 DEF Next, Deliveries, ManagerRuns

\* No step makes more replies possible than requests were made, or more
\* exchanges than the bound allows.
LEMMA StepCounts ==
  ASSUME SessionInv, [Next]_vars, NEW v \in VPS
  PROVE  /\ Pending(v)' + transit'[Reply(v)] <= MaxCopies
         /\ Pending(v)' <= owed'[v]
<1>1. /\ TypeOK
      /\ Pending(v) + transit[Reply(v)] <= MaxCopies
      /\ Pending(v) <= owed[v]
  BY DEF SessionInv, CopiesBounded, RepliesAreOwed
<1>2. /\ Pending(v) \in Nat /\ transit[Reply(v)] \in Nat /\ owed[v] \in Nat
      /\ Held(v) \in 0..1 /\ Open(v) \in 0..1
  BY <1>1, Numbers
<1>. DEFINE Goal == /\ Pending(v)' + transit'[Reply(v)] <= MaxCopies
                    /\ Pending(v)' <= owed'[v]
<1>. HIDE DEF Goal
<1>. SUFFICES Goal
  BY DEF Goal
<1>. USE Sizes
<1>3. ASSUME NEW m \in Message, DeliverToManager(m) PROVE Goal
  BY <1>1, <1>2, <1>3, DeliverLedger DEF DeliverToManager, Goal
<1>4. ASSUME NEW w \in VPS, DeliverReply(w) PROVE Goal
  <2>1. owed' = owed
    BY <1>4 DEF DeliverReply
  <2>2. /\ Pending(v)' = Pending(v)
        /\ transit'[Reply(v)] = transit[Reply(v)] - (IF v = w THEN 1 ELSE 0)
    BY <1>1, <1>4, DeliverReplyLedger
  <2>. QED BY <1>1, <1>2, <2>1, <2>2 DEF Goal
<1>5. ASSUME NEW m \in Message, Lose(m) PROVE Goal
  <2>1. owed' = owed
    BY <1>5 DEF Lose
  <2>2. /\ Pending(v)' <= Pending(v)
        /\ transit'[Reply(v)] <= transit[Reply(v)]
        /\ Pending(v)' \in Int /\ transit'[Reply(v)] \in Int
    <3>. DEFINE p == IF m = Request(v) THEN 1 ELSE 0
                r == IF m = Reply(v) THEN 1 ELSE 0
    <3>1. p \in 0..1 /\ r \in 0..1
      OBVIOUS
    <3>2. Pending(v)' = Pending(v) - p /\ transit'[Reply(v)] = transit[Reply(v)] - r
      BY <1>1, <1>5, LoseLedger
    <3>. HIDE DEF p, r
    <3>. QED BY <1>2, <3>1, <3>2
  <2>. QED BY <1>1, <1>2, <2>1, <2>2 DEF Goal
<1>6. ASSUME NEW w \in VPS, IPRequests(w) PROVE Goal
  <2>1. Pending(w) + transit[Reply(w)] < MaxCopies
    BY <1>6 DEF IPRequests
  <2>2. owed'[v] = owed[v] + (IF v = w THEN 1 ELSE 0)
    BY <1>1, <1>2, <1>6 DEF IPRequests, TypeOK
  <2>. QED
    BY <1>1, <1>2, <1>6, <2>1, <2>2, RequestsLedger DEF Goal
<1>7. ASSUME NEW w \in Reported, DeviceReports(w) PROVE Goal
  BY <1>1, <1>2, <1>7, ReportsLedger DEF DeviceReports, Goal
<1>8. CASE SMReturnsFalse
  BY <1>1, <1>2, <1>8, DropLedger DEF SMReturnsFalse, Goal
<1>9. CASE SMRejects \/ SMUnknown
  <2>1. /\ smHolder \in Message /\ smHolder.kind # "request"
        /\ smHolder' = None /\ UNCHANGED <<session_table, transit, owed>>
    BY <1>1, <1>9, InUse, RejectedIsReport DEF SMRejects, SMUnknown, SMUses
  <2>. QED BY <1>1, <1>2, <2>1, ReportDoneLedger DEF Goal
<1>10. CASE SMRequest
  BY <1>1, <1>2, <1>10, OpensLedger DEF SMRequest, Goal
<1>11. CASE SMAnswer
  BY <1>1, <1>2, <1>11, AnswerLedger DEF Goal
<1>12. CASE SMCountsDown
  BY <1>1, <1>2, <1>12, CountdownLedger DEF Goal
<1>13. CASE \/ \E w \in VPS : IPReplies(w) \/ IPCrashes(w) \/ IPSpurious(w)
            \/ SMReceives \/ SMReturns \/ SMSpurious \/ SMTestsAlarm
            \/ TimerStep \/ TimerSignal \/ UNCHANGED vars
  <2>1. UNCHANGED <<session_table, smHolder, transit, owed>>
    BY <1>13 DEF IPReplies, IPCrashes, IPSpurious, SMReceives, SMReturns,
                 SMSpurious, SMTestsAlarm, TimerStep, TimerSignal, vars,
                 smVars
  <2>. QED BY <1>1, <1>2, <2>1, IdleLedger DEF Goal
<1>. QED
  BY <1>3, <1>4, <1>5, <1>6, <1>7, <1>8, <1>9, <1>10, <1>11, <1>12, <1>13
     DEF Next, Deliveries, ManagerRuns

\* The invariant holds at the start and every step keeps it.
LEMMA InvHolds == Spec => []SessionInv
<1>1. Init => SessionInv
  <2>. SUFFICES ASSUME Init PROVE SessionInv
    OBVIOUS
  <2>. USE Sizes DEF Init
  <2>1. TMTypeOK
    BY DEF TMInit, TMTypeOK
  <2>2. TypeOK
    <3>1. /\ 0 \in 0..SESSION_TIMEOUT /\ 0 \in 0..MaxCopies /\ 0 \in 0..MaxOwed
          /\ {} \in SUBSET VPS
      OBVIOUS
    <3>. QED BY <2>1, <3>1 DEF TypeOK
  <2>3. ASSUME NEW v \in VPS
        PROVE  Pending(v) = 0 /\ transit[Reply(v)] = 0 /\ owed[v] = 0
    <3>1. transit[Request(v)] = 0 /\ transit[Reply(v)] = 0
      BY <2>3, IsMessage
    <3>2. Held(v) = 0 /\ Open(v) = 0
      BY <2>3, IsMessage DEF Held, Open
    <3>. QED BY <2>3, <3>1, <3>2 DEF Pending
  <2>. QED
    BY <2>2, <2>3 DEF SessionInv, FlagIsHeld, CopiesBounded, RepliesAreOwed
<1>2. SessionInv /\ [Next]_vars => SessionInv'
  BY StepType, StepFlag, StepCounts
     DEF SessionInv, CopiesBounded, RepliesAreOwed
<1>. QED BY <1>1, <1>2, PTL DEF Spec

\* Type correctness of the session manager, the IP tasks and their alarm.
THEOREM TypeCorrect == Spec => []TypeOK
BY InvHolds, PTL DEF SessionInv

\* No request is ever replied to twice: the session manager sends an answer or
\* a timeout notice only while more requests were made than replies sent.
THEOREM OneReplyEach == Spec => []RepliesAreOwed
BY InvHolds, PTL DEF SessionInv

-----------------------------------------------------------------------------
(* Nobody waits for nothing.                                               *)

\* Marking the exchange of a message leaves the marks that are there.
LEMMA LosingMarks ==
  ASSUME NEW m, NEW v \in VPS
  PROVE  /\ v \in lost => v \in Losing(m)
         /\ m = Request(v) \/ m = Reply(v) => v \in Losing(m)
BY DEF Losing, Request, Reply

\* An IP task that waits has its request or its reply on the way or its session
\* open, unless the bus lost a message of the exchange.
THEOREM WaitersAreRemembered == Spec => []NoWaiterForgotten
<1>1. Init => NoWaiterForgotten
  BY DEF Init, NoWaiterForgotten
<1>2. SessionInv /\ NoWaiterForgotten /\ [Next]_vars => NoWaiterForgotten'
  <2>. SUFFICES ASSUME SessionInv, NoWaiterForgotten, [Next]_vars,
                       NEW v \in VPS, ipPc'[v] = "receive"
                PROVE  v \in lost' \/ Pending(v)' + transit'[Reply(v)] > 0
    BY DEF NoWaiterForgotten
  <2>. DEFINE Goal == v \in lost' \/ Pending(v)' + transit'[Reply(v)] > 0
  <2>1. TypeOK /\ ipPc \in [VPS -> {"select", "receive", "woken", "crashed"}]
    BY DEF SessionInv, TypeOK
  <2>2. /\ Pending(v) \in Nat /\ transit[Reply(v)] \in Nat
        /\ transit[Request(v)] \in Nat
        /\ Held(v) \in 0..1 /\ Open(v) \in 0..1
        /\ Held(v) = 1 => smHolder = Request(v)
    BY <2>1, Numbers DEF Held
  <2>3. TypeOK'
    BY StepType
  <2>4. Pending(v)' \in Nat /\ transit'[Reply(v)] \in Nat
    BY <2>3, IsMessage, Sizes DEF TypeOK, Pending, Held, Open
  <2>5. ipPc[v] = "receive" => v \in lost \/ Pending(v) + transit[Reply(v)] > 0
    BY DEF NoWaiterForgotten
  <2>. HIDE DEF Goal
  <2>. SUFFICES Goal
    BY DEF Goal
  <2>6. ASSUME NEW m \in Message, DeliverToManager(m) PROVE Goal
    <3>1. ipPc[v] = "receive" /\ lost' = Losing(smHolder)
      BY <2>6 DEF DeliverToManager, ipVars
    <3>. QED
      BY <2>1, <2>2, <2>5, <2>6, <3>1, DeliverLedger, LosingMarks DEF Goal
  <2>7. ASSUME NEW w \in VPS, DeliverReply(w) PROVE Goal
    <3>1. v # w /\ ipPc[v] = "receive" /\ lost' = lost
      BY <2>1, <2>7 DEF DeliverReply
    <3>. QED
      BY <2>1, <2>2, <2>5, <2>7, <3>1, DeliverReplyLedger DEF Goal
  <2>8. ASSUME NEW m \in Message, Lose(m) PROVE Goal
    <3>1. ipPc[v] = "receive" /\ lost' = Losing(m)
      BY <2>8 DEF Lose, ipVars
    <3>. QED
      BY <2>1, <2>2, <2>5, <2>8, <3>1, LoseLedger, LosingMarks DEF Goal
  <2>9. ASSUME NEW w \in VPS, IPRequests(w) PROVE Goal
    <3>1. CASE v = w
      BY <2>1, <2>2, <2>9, <3>1, RequestsLedger DEF Goal
    <3>2. CASE v # w
      <4>1. ipPc[v] = "receive" /\ (v \in lost => v \in lost')
        BY <2>1, <2>9, <3>2 DEF IPRequests
      <4>. QED BY <2>1, <2>2, <2>5, <2>9, <3>2, <4>1, RequestsLedger DEF Goal
    <3>. QED BY <3>1, <3>2
  <2>10. ASSUME NEW w \in Reported, DeviceReports(w) PROVE Goal
    BY <2>1, <2>2, <2>5, <2>10, ReportsLedger DEF DeviceReports, ipVars, Goal
  <2>11. CASE SMReturnsFalse
    <3>1. ipPc[v] = "receive" /\ lost' = Losing(smHolder)
      BY <2>11 DEF SMReturnsFalse, ipVars
    <3>. QED
      BY <2>1, <2>2, <2>5, <2>11, <3>1, DropLedger, LosingMarks DEF Goal
  <2>12. CASE SMRejects \/ SMUnknown
    <3>1. /\ smHolder \in Message /\ smHolder.kind # "request"
          /\ smHolder' = None /\ UNCHANGED <<session_table, transit, lost, ipPc>>
      BY <2>1, <2>12, InUse, RejectedIsReport
         DEF SMRejects, SMUnknown, SMUses, ipVars
    <3>. QED BY <2>1, <2>2, <2>5, <3>1, ReportDoneLedger DEF Goal
  <2>13. CASE SMRequest
    <3>1. ipPc[v] = "receive" /\ lost' = lost
      BY <2>13 DEF SMRequest, ipVars
    <3>2. CASE v = smHolder.vps
      BY <2>1, <2>2, <2>4, <2>13, <3>2, OpensLedger DEF Goal
    <3>3. CASE v # smHolder.vps
      BY <2>1, <2>2, <2>5, <2>13, <3>1, <3>3, OpensLedger DEF Goal
    <3>. QED BY <3>2, <3>3
  <2>14. CASE SMAnswer
    <3>1. ipPc[v] = "receive" /\ lost' = lost
      BY <2>14 DEF SMAnswer, ipVars
    <3>. QED
      BY <2>1, <2>2, <2>5, <2>14, <3>1, AnswerLedger DEF Goal
  <2>15. CASE SMCountsDown
    <3>1. ipPc[v] = "receive" /\ lost' = lost
      BY <2>15 DEF SMCountsDown, ipVars
    <3>. QED
      BY <2>1, <2>2, <2>5, <2>15, <3>1, CountdownLedger DEF Goal
  <2>16. CASE \/ \E w \in VPS : IPReplies(w) \/ IPCrashes(w) \/ IPSpurious(w)
              \/ SMReceives \/ SMReturns \/ SMSpurious \/ SMTestsAlarm
              \/ TimerStep \/ TimerSignal \/ UNCHANGED vars
    <3>1. UNCHANGED <<session_table, smHolder, transit, lost>>
      BY <2>16 DEF IPReplies, IPCrashes, IPSpurious, SMReceives, SMReturns,
                   SMSpurious, SMTestsAlarm, TimerStep, TimerSignal, vars,
                 smVars
    <3>2. ipPc[v] = "receive"
      BY <2>1, <2>16 DEF IPReplies, IPCrashes, IPSpurious, SMReceives, SMReturns,
                         SMSpurious, SMTestsAlarm, TimerStep, TimerSignal,
                         vars, ipVars
    <3>. QED BY <2>1, <2>2, <2>5, <3>1, <3>2, IdleLedger DEF Goal
  <2>. QED
    BY <2>6, <2>7, <2>8, <2>9, <2>10, <2>11, <2>12, <2>13, <2>14, <2>15, <2>16
       DEF Next, Deliveries, ManagerRuns
<1>. QED BY <1>1, <1>2, InvHolds, PTL DEF Spec
=============================================================================
