-------------------------- MODULE HpdDaemon_proofs --------------------------
(***************************************************************************)
(* Theorems about the life of the daemon and its log, for every number of  *)
(* threads, size of header and messages, limit and number of starts.       *)
(***************************************************************************)
EXTENDS HpdDaemon, WellFoundedInduction, SequenceTheorems, TLAPS

-----------------------------------------------------------------------------
(* The log.                                                                *)

\* The file has room for its header and any message.
Fits == \A n \in Sizes : Header + n <= hpd_log.max

\* The positions are inside the file, which is never shorter than its header.
FileInv ==
  /\ hpd_log.memory = "null" => log_file = <<>> \/ Len(log_file) = Header + 2
  /\ hpd_log.memory # "null" =>
       Header <= Len(log_file) /\ hpd_log.pos <= Len(log_file)
  /\ \A t \in Thread :
       writer[t].at = "write" => writer[t].from <= Len(log_file)

\* A thread that is about to write has chosen a position that leaves room, and
\* the log it chose it in is the one it writes to.
RoomInv ==
  /\ hpd_log.memory = "null" => \A t \in Thread : writer[t].at = "idle"
  /\ hpd_log.memory # "null" => hpd_log.initial_pos = Header
  /\ \A t \in Thread :
       writer[t].at \in {"lock", "open", "write"} =>
         writer[t].msg \in 1 .. Len(size)
  /\ hpd_log.memory # "null" /\ Fits =>
       /\ hpd_log.pos <= hpd_log.max + 1
       /\ \A t \in Thread :
            writer[t].at = "write" =>
              writer[t].from + size[writer[t].msg] <= hpd_log.max

LogInv == LogTypeOK /\ Len(size) <= MaxMessages /\ FileInv /\ RoomInv

LogRecord == [memory : {"null", "live", "freed"}, level : Levels,
              max : Nat, initial_pos : Nat, pos : Nat]

WriterRecord == [at : {"idle", "lock", "open", "write", "event"},
                 msg : 0 .. MaxMessages, from : Nat]

Faults == {"none", "log used", "log freed twice", "daemon used",
           "cfg freed twice"}

LEMMA LogTypeIs ==
  LogTypeOK <=> /\ hpd_log \in LogRecord
                /\ log_mutex \in Thread \cup {"free"}
                /\ log_file \in Seq(0 .. MaxMessages)
                /\ writer \in [Thread -> WriterRecord]
                /\ size \in Seq(Sizes)
                /\ tail \in Seq(1 .. MaxMessages)
                /\ fault \in Faults
  BY DEF LogTypeOK, LogRecord, WriterRecord, Faults

LEMMA Constants ==
  /\ Header \in Nat \ {0} /\ MaxMessages \in Nat
  /\ Sizes \subseteq Nat /\ Sizes # {} /\ MaxLogSizes \subseteq Nat
  /\ MaxStarts \in Nat /\ Ports \subseteq Int
  BY LogAssumption, DaemonAssumption

\* What one thread does leaves the others where they are.
LEMMA WriterMoves ==
  ASSUME LogTypeOK, NEW t \in Thread, NEW w \in WriterRecord,
         writer' = [writer EXCEPT ![t] = w]
  PROVE  /\ writer' \in [Thread -> WriterRecord]
         /\ writer'[t] = w
         /\ \A u \in Thread \ {t} : writer'[u] = writer[u]
  BY LogTypeIs

LEMMA QuietIs ==
  /\ Quiet \in WriterRecord /\ Quiet.at = "idle"
  BY Constants DEF Quiet, WriterRecord

\* A writer that changes its place keeps its message and its position.
LEMMA WriterGoes ==
  ASSUME LogTypeOK, NEW t \in Thread,
         NEW a \in {"idle", "lock", "open", "write", "event"}, Goes(t, a)
  PROVE  /\ writer' \in [Thread -> WriterRecord]
         /\ writer'[t].at = a
         /\ writer'[t].msg = writer[t].msg /\ writer'[t].from = writer[t].from
         /\ \A u \in Thread \ {t} : writer'[u] = writer[u]
  <1> DEFINE w == [writer[t] EXCEPT !.at = a]
  <1>1. writer[t] \in WriterRecord
    BY LogTypeIs
  <1>2. /\ w \in WriterRecord
        /\ w.at = a /\ w.msg = writer[t].msg /\ w.from = writer[t].from
    BY <1>1 DEF WriterRecord
  <1>3. writer' = [writer EXCEPT ![t] = w]
    BY DEF Goes
  <1> HIDE DEF w
  <1> QED
    BY <1>2, <1>3, WriterMoves

LEMMA SequenceIs ==
  ASSUME NEW S, NEW s \in Seq(S)
  PROVE  Len(s) \in Nat /\ \A i \in 1 .. Len(s) : s[i] \in S
  OBVIOUS

LEMMA EmptyCells ==
  ASSUME NEW n \in Nat
  PROVE  /\ [i \in 1 .. n |-> 0] \in Seq(0 .. MaxMessages)
         /\ Len([i \in 1 .. n |-> 0]) = n
  <1> DEFINE f == [i \in 1 .. n |-> 0]
  <1>1. 0 \in 0 .. MaxMessages
    BY Constants
  <1> QED
    BY <1>1

\* What writes into the file leaves cells of messages.
LEMMA OverwrittenType ==
  ASSUME NEW at \in Nat, NEW n \in Nat, NEW msg \in 0 .. MaxMessages,
         log_file \in Seq(0 .. MaxMessages), at <= Len(log_file)
  PROVE  /\ Overwritten(at, n, msg) \in Seq(0 .. MaxMessages)
         /\ Len(Overwritten(at, n, msg)) >= Len(log_file)
         /\ Len(Overwritten(at, n, msg)) >= at + n
  <1> DEFINE long == IF Len(log_file) > at + n THEN Len(log_file) ELSE at + n
             cell(i) == IF i > at /\ i <= at + n THEN msg ELSE log_file[i]
  <1>1. Len(log_file) \in Nat /\ \A i \in 1 .. Len(log_file) : log_file[i] \in 0 .. MaxMessages
    BY SequenceIs
  <1>2. long \in Nat /\ long >= Len(log_file) /\ long >= at + n
    BY <1>1
  <1>3. ASSUME NEW i \in 1 .. long PROVE cell(i) \in 0 .. MaxMessages
    <2>1. CASE i > at /\ i <= at + n
      BY <2>1
    <2>2. CASE ~(i > at /\ i <= at + n)
      <3>1. i \in 1 .. Len(log_file)
        BY <1>1, <2>2
      <3> QED
        BY <1>1, <2>2, <3>1
    <2> QED
      BY <2>1, <2>2
  <1>4. Overwritten(at, n, msg) = [i \in 1 .. long |-> cell(i)]
    BY DEF Overwritten
  <1> HIDE DEF long, cell
  <1>5. [i \in 1 .. long |-> cell(i)] \in Seq(0 .. MaxMessages)
          /\ Len([i \in 1 .. long |-> cell(i)]) = long
    BY <1>2, <1>3
  <1> QED
    BY <1>2, <1>4, <1>5

-----------------------------------------------------------------------------
(* What happens to the log.                                                *)

LEMMA InitLog == DaemonInit => LogInv
  <1> SUFFICES ASSUME DaemonInit PROVE LogInv
    OBVIOUS
  <1>1. hpd_log = NoLog /\ log_mutex = "free" /\ size = <<>> /\ tail = <<>>
          /\ fault = "none" /\ writer = [t \in Thread |-> Quiet]
    BY DEF DaemonInit, LogInit
  <1>2. /\ log_file \in Seq(0 .. MaxMessages)
        /\ log_file = <<>> \/ Len(log_file) = Header + 2
    <2>1. Header + 2 \in Nat
      BY Constants
    <2>2. log_file = <<>> \/ log_file = [i \in 1 .. Header + 2 |-> 0]
      BY DEF DaemonInit, LogInit
    <2>3. CASE log_file = <<>>
      BY <2>3
    <2>4. CASE log_file = [i \in 1 .. Header + 2 |-> 0]
      BY <2>1, <2>4, EmptyCells, Zenon
    <2> QED
      BY <2>2, <2>3, <2>4
  <1>3. NoLog \in LogRecord /\ NoLog.memory = "null"
    BY DEF NoLog, LogRecord, Levels
  <1>4. LogTypeOK
    BY <1>1, <1>2, <1>3, QuietIs, LogTypeIs DEF Faults
  <1>5. FileInv /\ RoomInv
    BY <1>1, <1>2, <1>3, QuietIs DEF FileInv, RoomInv
  <1> QED
    BY <1>1, <1>4, <1>5, Constants DEF LogInv

\* The fault ends the daemon and leaves the log.
LEMMA LogStays ==
  ASSUME LogInv, fault' \in Faults,
         UNCHANGED <<hpd_log, log_mutex, log_file, writer, size, tail>>
  PROVE  LogInv'
  <1>1. LogTypeOK'
    BY LogTypeIs DEF LogInv, LogTypeOK, Faults
  <1> QED
    BY <1>1 DEF LogInv, FileInv, RoomInv, Fits

LEMMA InitHpdLog ==
  ASSUME LogInv, NEW max \in MaxLogSizes, NEW level \in Levels,
         init_hpd_log(max, level)
  PROVE  LogInv'
  <1>1. CASE hpd_log.memory # "null"
    BY <1>1, LogStays, LogTypeIs DEF init_hpd_log, LogInv
  <1>2. CASE hpd_log.memory = "null"
    <2> DEFINE r == [memory |-> "live", level |-> level, max |-> max,
                     initial_pos |-> Header, pos |-> Header]
    <2>1. /\ r \in LogRecord /\ r.memory = "live" /\ r.max = max
          /\ r.initial_pos = Header /\ r.pos = Header
      BY Constants DEF LogRecord
    <2>2. hpd_log' = r /\ tail' = <<>>
            /\ log_file' = (IF log_file = <<>> THEN [i \in 1 .. Header |-> 0]
                            ELSE log_file)
            /\ UNCHANGED <<log_mutex, writer, size, fault>>
      BY <1>2 DEF init_hpd_log, create_hpd_log
    <2> HIDE DEF r
    <2>3. [i \in 1 .. Header |-> 0] \in Seq(0 .. MaxMessages)
            /\ Len([i \in 1 .. Header |-> 0]) = Header
      BY EmptyCells, Constants
    <2>4. log_file' \in Seq(0 .. MaxMessages) /\ Header <= Len(log_file')
      BY <1>2, <2>2, <2>3, LogTypeIs, Constants DEF LogInv, FileInv
    <2>5. LogTypeOK'
      <3>1. hpd_log' \in LogRecord /\ tail' \in Seq(1 .. MaxMessages)
        BY <2>1, <2>2
      <3>2. LogTypeOK
        BY DEF LogInv
      <3> QED
        BY <2>2, <2>4, <3>1, <3>2 DEF LogTypeOK, LogRecord
    <2>6. \A t \in Thread : writer'[t].at = "idle"
      BY <1>2, <2>2 DEF LogInv, RoomInv
    <2>7. FileInv'
      BY <2>1, <2>2, <2>4, <2>6 DEF FileInv
    <2>8. Fits' => Header <= max
      <3> SUFFICES ASSUME Fits' PROVE Header <= max
        OBVIOUS
      <3>1. PICK n \in Sizes : TRUE
        BY Constants
      <3>2. Header + n <= max /\ n \in Nat
        BY <2>1, <2>2, <3>1, Constants DEF Fits
      <3> QED
        BY <3>2, Constants
    <2>9. RoomInv'
      BY <2>1, <2>2, <2>6, <2>8, Constants DEF RoomInv
    <2> QED
      BY <2>2, <2>5, <2>7, <2>9 DEF LogInv
  <1> QED
    BY <1>1, <1>2

\* Freeing the log keeps what the pointer led to.
LEMMA DestroyHpdLog ==
  ASSUME LogInv, destroy_hpd_log
  PROVE  LogInv'
  <1>1. fault' \in Faults
    BY LogTypeIs DEF destroy_hpd_log, LogInv, Faults
  <1>2. CASE hpd_log.memory = "null"
    BY <1>1, <1>2, LogStays DEF destroy_hpd_log
  <1>3. CASE hpd_log.memory # "null"
    <2> DEFINE r == [hpd_log EXCEPT !.memory = "freed"]
    <2>1. hpd_log \in LogRecord
      BY LogTypeIs DEF LogInv
    <2>2. /\ r \in LogRecord /\ r.memory = "freed" /\ r.max = hpd_log.max
          /\ r.initial_pos = hpd_log.initial_pos /\ r.pos = hpd_log.pos
      BY <2>1 DEF LogRecord
    <2>3. hpd_log' = r /\ UNCHANGED <<log_mutex, log_file, writer, size, tail>>
      BY <1>3 DEF destroy_hpd_log
    <2> HIDE DEF r
    <2>4. LogTypeOK'
      BY <1>1, <2>2, <2>3, LogTypeIs DEF LogInv, LogTypeOK, LogRecord, Faults
    <2>5. FileInv' /\ RoomInv'
      BY <1>3, <2>2, <2>3 DEF LogInv, FileInv, RoomInv, Fits
    <2> QED
      BY <2>3, <2>4, <2>5 DEF LogInv
  <1> QED
    BY <1>2, <1>3

\* A call of Log takes the next message.
LEMMA CallsLog ==
  ASSUME LogInv, NEW t \in Thread, LogCalled(t)
  PROVE  LogInv'
  <1> DEFINE w == [writer[t] EXCEPT !.at = "lock", !.msg = Len(size) + 1]
  <1>1. LogTypeOK /\ writer[t] \in WriterRecord /\ Len(size) \in Nat
    BY LogTypeIs DEF LogInv
  <1>2. Len(size) + 1 \in 0 .. MaxMessages
    BY <1>1, Constants DEF LogCalled
  <1>3. w \in WriterRecord /\ w.at = "lock" /\ w.msg = Len(size) + 1
    BY <1>1, <1>2 DEF WriterRecord
  <1>4. writer' = [writer EXCEPT ![t] = w]
    BY DEF LogCalled
  <1> HIDE DEF w
  <1>5. /\ writer' \in [Thread -> WriterRecord] /\ writer'[t] = w
        /\ \A u \in Thread \ {t} : writer'[u] = writer[u]
    BY <1>1, <1>3, <1>4, WriterMoves
  <1>6. PICK n \in Sizes : size' = Append(size, n)
    BY DEF LogCalled
  <1>7. size \in Seq(Sizes)
    BY <1>1, LogTypeIs
  <1>8. /\ size' \in Seq(Sizes) /\ Len(size') = Len(size) + 1
        /\ \A i \in 1 .. Len(size) : size'[i] = size[i]
    BY <1>6, <1>7
  <1>9. UNCHANGED <<hpd_log, log_mutex, log_file, tail, fault>>
          /\ hpd_log.memory # "null"
    BY DEF LogCalled
  <1>10. LogTypeOK'
    BY <1>1, <1>5, <1>8, <1>9 DEF LogTypeOK, WriterRecord
  <1>11. FileInv'
    BY <1>3, <1>5, <1>9 DEF LogInv, FileInv
  <1>12. \A u \in Thread : writer'[u].at = "write" =>
            u # t /\ writer'[u] = writer[u] /\ writer[u].msg \in 1 .. Len(size)
    BY <1>3, <1>5 DEF LogInv, RoomInv
  <1>13. \A u \in Thread : writer'[u].at \in {"lock", "open", "write"} =>
            writer'[u].msg \in 1 .. Len(size')
    BY <1>1, <1>3, <1>5, <1>8 DEF LogInv, RoomInv
  <1>14. RoomInv'
    BY <1>8, <1>9, <1>12, <1>13 DEF LogInv, RoomInv, Fits
  <1> QED
    BY <1>1, <1>2, <1>8, <1>10, <1>11, <1>14, Constants DEF LogInv

\* A thread that becomes quiet, or moves on within the call, leaves the rest.
LEMMA MovesOn ==
  ASSUME LogInv, NEW t \in Thread, NEW w \in WriterRecord,
         writer' = [writer EXCEPT ![t] = w],
         w.at \in {"open", "write", "lock"} =>
           writer[t].at # "idle" /\ w.msg = writer[t].msg
             /\ writer[t].at \in {"open", "write", "lock"},
         w.at # "write", log_mutex' \in Thread \cup {"free"},
         hpd_log.memory = "null" => w.at = "idle",
         UNCHANGED <<hpd_log, log_file, size, tail, fault>>
  PROVE  LogInv'
  <1>1. LogTypeOK
    BY DEF LogInv
  <1>2. /\ writer' \in [Thread -> WriterRecord] /\ writer'[t] = w
        /\ \A u \in Thread \ {t} : writer'[u] = writer[u]
    BY <1>1, WriterMoves
  <1>3. LogTypeOK'
    BY <1>1, <1>2 DEF LogTypeOK, WriterRecord
  <1>4. \A u \in Thread : writer'[u].at = "write" =>
          u # t /\ writer'[u] = writer[u]
    BY <1>2
  <1>5. FileInv'
    BY <1>4 DEF LogInv, FileInv
  <1>6. \A u \in Thread : writer'[u].at \in {"lock", "open", "write"} =>
          writer'[u].msg \in 1 .. Len(size)
    BY <1>2 DEF LogInv, RoomInv
  <1>7. hpd_log.memory = "null" => \A u \in Thread : writer'[u].at = "idle"
    BY <1>2 DEF LogInv, RoomInv
  <1>8. RoomInv'
    BY <1>4, <1>6, <1>7 DEF LogInv, RoomInv, Fits
  <1> QED
    BY <1>3, <1>5, <1>8 DEF LogInv

LEMMA SendsEvent ==
  ASSUME LogInv, NEW t \in Thread, LogSendsEvent(t)
  PROVE  LogInv'
  BY MovesOn, QuietIs, LogTypeIs DEF LogSendsEvent, LogInv

LEMMA LocksLog ==
  ASSUME LogInv, NEW t \in Thread, hpd_log.memory = "live", LogLocks(t)
  PROVE  LogInv'
  <1>1. CASE hpd_log.level = 0
    BY <1>1, MovesOn, QuietIs, LogTypeIs DEF LogLocks, LogInv
  <1>2. CASE hpd_log.level # 0
    <2> DEFINE w == [writer[t] EXCEPT !.at = "open"]
    <2>1. writer[t] \in WriterRecord
      BY LogTypeIs DEF LogInv
    <2>2. w \in WriterRecord /\ w.at = "open" /\ w.msg = writer[t].msg
      BY <2>1 DEF WriterRecord
    <2>3. writer' = [writer EXCEPT ![t] = w] /\ log_mutex' = t
            /\ writer[t].at = "lock"
            /\ UNCHANGED <<hpd_log, log_file, size, tail, fault>>
      BY <1>2 DEF LogLocks, Goes
    <2> HIDE DEF w
    <2> QED
      BY <2>2, <2>3, MovesOn
  <1> QED
    BY <1>1, <1>2

\* The position chosen leaves room for the message.
LEMMA OpensLog ==
  ASSUME LogInv, NEW t \in Thread, hpd_log.memory = "live", LogOpens(t)
  PROVE  LogInv'
  <1> DEFINE n == size[writer[t].msg]
  <1>1. LogTypeOK /\ writer[t] \in WriterRecord /\ hpd_log \in LogRecord
          /\ Len(log_file) \in Nat /\ writer[t].at = "open"
    BY LogTypeIs, SequenceIs DEF LogInv, LogOpens
  <1>2. n \in Nat /\ n \in Sizes /\ writer[t].msg \in 1 .. Len(size)
    <2>1. writer[t].msg \in 1 .. Len(size)
      BY <1>1 DEF LogInv, RoomInv
    <2>2. size \in Seq(Sizes)
      BY <1>1, LogTypeIs
    <2> QED
      BY <2>1, <2>2, SequenceIs, Constants
  <1>3. CASE UNCHANGED <<hpd_log, tail>> /\ log_mutex' = "free"
             /\ writer' = [writer EXCEPT ![t] = Quiet]
    BY <1>3, MovesOn, QuietIs DEF LogOpens
  <1>4. CASE /\ set_position_for_new_message(n)
             /\ writer' = [writer EXCEPT ![t].at = "write",
                                         ![t].from = hpd_log'.pos]
             /\ UNCHANGED log_mutex
    <2>1. /\ hpd_log.initial_pos = Header /\ Header <= Len(log_file)
          /\ hpd_log.pos <= Len(log_file)
      BY DEF LogInv, FileInv, RoomInv
    <2>2. /\ hpd_log' \in LogRecord
          /\ hpd_log'.memory = "live" /\ hpd_log'.max = hpd_log.max
          /\ hpd_log'.initial_pos = Header
          /\ hpd_log'.pos \in {Header, hpd_log.pos}
          /\ hpd_log.pos + n > hpd_log.max => hpd_log'.pos = Header
          /\ ~(hpd_log.pos + n > hpd_log.max) => hpd_log'.pos = hpd_log.pos
          /\ tail' \in Seq(1 .. MaxMessages)
      <3>1. CASE hpd_log.pos + n > hpd_log.max
        <4> DEFINE r == [hpd_log EXCEPT !.pos = hpd_log.initial_pos]
        <4>1. /\ r \in LogRecord /\ r.memory = "live" /\ r.max = hpd_log.max
              /\ r.initial_pos = Header /\ r.pos = Header
          BY <1>1, <2>1, Constants DEF LogRecord
        <4>2. hpd_log' = r /\ tail' = <<>>
          BY <1>4, <3>1 DEF set_position_for_new_message
        <4> HIDE DEF r
        <4> QED
          BY <3>1, <4>1, <4>2
      <3>2. CASE ~(hpd_log.pos + n > hpd_log.max)
        <4>1. hpd_log' = hpd_log /\ tail' = tail
          BY <1>4, <3>2 DEF set_position_for_new_message
        <4> QED
          BY <1>1, <2>1, <3>2, <4>1, LogTypeIs
      <3> QED
        BY <3>1, <3>2
    <2>3. hpd_log'.pos \in Nat /\ hpd_log'.pos <= Len(log_file)
            /\ hpd_log.pos \in Nat /\ hpd_log.max \in Nat
      BY <1>1, <2>1, <2>2 DEF LogRecord
    <2>4. Fits => Header + n <= hpd_log.max
      BY <1>2 DEF Fits
    <2>5. Fits => hpd_log'.pos + n <= hpd_log.max
      BY <1>2, <2>2, <2>3, <2>4, Constants
    <2> DEFINE w == [writer[t] EXCEPT !.at = "write", !.from = hpd_log'.pos]
    <2>6. /\ w \in WriterRecord /\ w.at = "write" /\ w.msg = writer[t].msg
          /\ w.from = hpd_log'.pos
      BY <1>1, <2>3 DEF WriterRecord
    <2>7. writer' = [writer EXCEPT ![t] = w]
            /\ UNCHANGED <<log_mutex, log_file, size, fault>>
      BY <1>4 DEF LogOpens
    <2> HIDE DEF w
    <2>8. /\ writer' \in [Thread -> WriterRecord] /\ writer'[t] = w
          /\ \A u \in Thread \ {t} : writer'[u] = writer[u]
      BY <1>1, <2>6, <2>7, WriterMoves
    <2>9. LogTypeOK'
      BY <1>1, <2>2, <2>7, <2>8 DEF LogTypeOK, LogRecord, WriterRecord
    <2>10. FileInv'
      <3>1. Header <= Len(log_file') /\ hpd_log'.pos <= Len(log_file')
        BY <2>1, <2>3, <2>7
      <3>2. \A u \in Thread : writer'[u].at = "write" =>
              writer'[u].from <= Len(log_file')
        BY <2>3, <2>6, <2>7, <2>8 DEF LogInv, FileInv
      <3> QED
        BY <2>2, <3>1, <3>2 DEF FileInv
    <2>11. Fits' => Fits
      BY <2>2 DEF Fits
    <2>12. Fits => hpd_log'.pos <= hpd_log.max + 1
      BY <1>2, <2>3, <2>5
    <2>13. \A u \in Thread : writer'[u].at \in {"lock", "open", "write"} =>
             writer'[u].msg \in 1 .. Len(size')
      BY <1>2, <2>6, <2>7, <2>8 DEF LogInv, RoomInv
    <2>14. Fits => \A u \in Thread : writer'[u].at = "write" =>
             writer'[u].from + size'[writer'[u].msg] <= hpd_log.max
      BY <2>5, <2>6, <2>7, <2>8 DEF LogInv, RoomInv
    <2>15. RoomInv'
      BY <2>2, <2>11, <2>12, <2>13, <2>14 DEF RoomInv
    <2> QED
      BY <2>7, <2>9, <2>10, <2>15 DEF LogInv
  <1> QED
    BY <1>3, <1>4 DEF LogOpens

\* The position after the newline is one beyond the message.
LEMMA WritesLog ==
  ASSUME LogInv, NEW t \in Thread, hpd_log.memory = "live", LogWrites(t)
  PROVE  LogInv'
  <1> DEFINE at == writer[t].from
             msg == writer[t].msg
             n == size[msg] + 1
  <1>1. LogTypeOK /\ writer[t] \in WriterRecord /\ hpd_log \in LogRecord
          /\ Len(log_file) \in Nat /\ writer[t].at = "write"
          /\ Len(size) \in Nat /\ Len(size) <= MaxMessages
          /\ log_file \in Seq(0 .. MaxMessages) /\ tail \in Seq(1 .. MaxMessages)
    BY LogTypeIs, SequenceIs DEF LogInv, LogWrites
  <1>2. msg \in 1 .. Len(size) /\ size[msg] \in Nat /\ at \in Nat
          /\ at <= Len(log_file)
    <2>1. msg \in 1 .. Len(size) /\ at <= Len(log_file)
      BY <1>1 DEF LogInv, RoomInv, FileInv
    <2>2. size \in Seq(Sizes) /\ at \in Nat
      BY <1>1, LogTypeIs DEF WriterRecord
    <2> QED
      BY <2>1, <2>2, SequenceIs, Constants
  <1>3. n \in Nat /\ msg \in 1 .. MaxMessages /\ msg \in 0 .. MaxMessages
    BY <1>1, <1>2, Constants
  <1>4. /\ log_file' = Overwritten(at, n, msg)
        /\ hpd_log' = [hpd_log EXCEPT !.pos = at + n]
        /\ tail' = Append(tail, msg)
        /\ log_mutex' = "free" /\ Goes(t, "event")
        /\ UNCHANGED <<size, fault>>
    BY DEF LogWrites
  <1>5. Fits => at + n <= hpd_log.max + 1
    <2>1. Fits => at + size[msg] <= hpd_log.max
      BY <1>1 DEF LogInv, RoomInv
    <2>2. hpd_log.max \in Nat
      BY <1>1 DEF LogRecord
    <2> QED
      BY <1>2, <2>1, <2>2
  <1>6. /\ log_file' \in Seq(0 .. MaxMessages) /\ Len(log_file') \in Nat
        /\ Len(log_file') >= Len(log_file) /\ Len(log_file') >= at + n
    <2>1. log_file' \in Seq(0 .. MaxMessages)
            /\ Len(log_file') >= Len(log_file) /\ Len(log_file') >= at + n
      BY <1>1, <1>2, <1>3, <1>4, OverwrittenType
    <2> QED
      BY <2>1, SequenceIs
  <1>7. tail' \in Seq(1 .. MaxMessages)
    BY <1>1, <1>3, <1>4
  <1>8. at + n \in Nat
    BY <1>2, <1>3
  <1> HIDE DEF n, msg, at
  <1>9. /\ hpd_log' \in LogRecord
        /\ hpd_log'.memory = "live" /\ hpd_log'.max = hpd_log.max
        /\ hpd_log'.initial_pos = hpd_log.initial_pos
        /\ hpd_log'.pos = at + n
    <2> DEFINE r == [hpd_log EXCEPT !.pos = at + n]
    <2>1. r \in LogRecord /\ r.memory = "live" /\ r.max = hpd_log.max
            /\ r.initial_pos = hpd_log.initial_pos /\ r.pos = at + n
      BY <1>1, <1>8 DEF LogRecord
    <2>2. hpd_log' = r
      BY <1>4
    <2> HIDE DEF r
    <2> QED
      BY <2>1, <2>2
  <1>10. /\ writer' \in [Thread -> WriterRecord]
         /\ writer'[t].at = "event"
         /\ \A u \in Thread \ {t} : writer'[u] = writer[u]
    BY <1>1, <1>4, WriterGoes
  <1>11. LogTypeOK'
    BY <1>1, <1>4, <1>6, <1>7, <1>9, <1>10
       DEF LogTypeOK, LogRecord, WriterRecord
  <1>12. \A u \in Thread : writer'[u].at # "event" => u # t /\ writer'[u] = writer[u]
    BY <1>10
  <1>13. FileInv'
    <2>1. Header <= Len(log_file') /\ hpd_log'.pos <= Len(log_file')
      <3>1. Header <= Len(log_file)
        BY DEF LogInv, FileInv
      <3> QED
        BY <1>1, <1>6, <1>8, <1>9, <3>1, Constants
    <2>2. ASSUME NEW u \in Thread, writer'[u].at = "write"
          PROVE  writer'[u].from <= Len(log_file')
      <3>1. writer[u].from <= Len(log_file) /\ writer[u].from \in Nat
              /\ writer'[u] = writer[u]
        BY <1>1, <1>12, <2>2, LogTypeIs DEF LogInv, FileInv, WriterRecord
      <3> QED
        BY <1>1, <1>6, <3>1
    <2> QED
      BY <1>9, <2>1, <2>2 DEF FileInv
  <1>14. Fits' => Fits
    BY <1>9 DEF Fits
  <1>15. RoomInv'
    <2>1. hpd_log'.initial_pos = Header
      BY <1>9 DEF LogInv, RoomInv
    <2>2. \A u \in Thread : writer'[u].at \in {"lock", "open", "write"} =>
            writer'[u].msg \in 1 .. Len(size')
      BY <1>4, <1>12 DEF LogInv, RoomInv
    <2>3. Fits => \A u \in Thread : writer'[u].at = "write" =>
            writer'[u].from + size'[writer'[u].msg] <= hpd_log'.max
      BY <1>4, <1>9, <1>12 DEF LogInv, RoomInv
    <2> QED
      BY <1>5, <1>9, <1>14, <2>1, <2>2, <2>3 DEF RoomInv
  <1> QED
    BY <1>1, <1>4, <1>11, <1>13, <1>15 DEF LogInv

\* What a thread of a web server does to the log.
LEMMA LogStep ==
  ASSUME LogInv, NEW t \in Thread, LogCalled(t) \/ UsesFreed(t) \/ Log(t)
  PROVE  LogInv'
  <1>1. CASE UsesFreed(t)
    BY <1>1, LogStays DEF UsesFreed, Faults
  <1> QED
    BY <1>1, CallsLog, SendsEvent, LocksLog, OpensLog, WritesLog DEF Log

-----------------------------------------------------------------------------
(* The daemon.                                                             *)

\* Where each structure stands in the life of the daemon.  Before the second
\* start a structure is freed only behind a server that has gone or is going.
LifeInv ==
  /\ app.at \in {"file", "options", "servers", "exit"} => ~up
  /\ app.at \in {"file", "options", "servers"} => hpd_daemon.memory = "live"
  /\ app.at = "stop" => up
  /\ ~up => \A t \in Thread : writer[t].at = "idle"
  /\ (app.at # "idle" \/ up \/ hpd_log.memory # "null" \/ cfg # "null") =>
       starts > 0
  /\ app.at = "file" \/ hpd_log.memory # "null" \/ cfg # "null" => fromFile
  /\ hpd_log.memory = "freed" \/ cfg = "freed" =>
       \/ starts > 1
       \/ app.at \in {"stop", "exit"}
       \/ ~up /\ app.at = "idle"

DaemonRecord == [memory : Memory, http_port : Nat, https : BOOLEAN]

AppRecord ==
  [at : {"idle", "file", "options", "servers", "stop", "exit"},
   rc : {"SUCCESS", "ERROR", "BAD_PARAMETER", "MISSING_OPTION",
         "CFG_FILE_ERROR", "CFG_NOT_INIT", "NO_HTTP"}]

LifeTypeOK ==
  /\ hpd_daemon \in DaemonRecord
  /\ cfg \in Memory
  /\ app \in AppRecord
  /\ up \in BOOLEAN
  /\ starts \in 0 .. MaxStarts
  /\ fromFile \in BOOLEAN

LEMMA TypeIs == TypeOK <=> LogTypeOK /\ LifeTypeOK
  BY DEF TypeOK, LifeTypeOK, AppRecord, DaemonRecord

\* FaultNeedsStoppedFile is inductive with LifeInv as long as nothing went
\* wrong; after that no memory is used any more.
DaemonInv ==
  LogInv /\ LifeTypeOK /\ FaultNeedsStoppedFile /\ (fault = "none" => LifeInv)

LEMMA InitDaemon == DaemonInit => DaemonInv
  <1> SUFFICES ASSUME DaemonInit PROVE DaemonInv
    OBVIOUS
  <1>1. LogInv
    BY InitLog
  <1>2. /\ hpd_daemon = NoDaemon /\ cfg = "null" /\ up = FALSE /\ starts = 0
        /\ fromFile = FALSE /\ fault = "none" /\ hpd_log = NoLog
        /\ app = [at |-> "idle", rc |-> "SUCCESS"]
        /\ writer = [t \in Thread |-> Quiet]
    BY DEF DaemonInit, LogInit
  <1>3. app \in AppRecord /\ app.at = "idle"
    BY <1>2 DEF AppRecord
  <1>4. hpd_daemon \in DaemonRecord
    BY <1>2 DEF NoDaemon, DaemonRecord, Memory
  <1>5. LifeTypeOK
    <2>1. up \in BOOLEAN /\ fromFile \in BOOLEAN /\ cfg \in Memory
      BY <1>2 DEF Memory
    <2>2. starts \in 0 .. MaxStarts
      BY <1>2, Constants
    <2> QED
      BY <1>3, <1>4, <2>1, <2>2 DEF LifeTypeOK
  <1>6. LifeInv
    BY <1>2, <1>3, QuietIs DEF LifeInv, NoLog
  <1> QED
    BY <1>1, <1>2, <1>5, <1>6 DEF DaemonInv, FaultNeedsStoppedFile

\* Where the application goes, and what it is told.
LEMMA AppGoes ==
  ASSUME LifeTypeOK
  PROVE  /\ \A place \in {"idle", "file", "options", "servers", "stop", "exit"} :
              Go(place) => app' \in AppRecord /\ app'.at = place
         /\ \A rc \in {"SUCCESS", "ERROR", "BAD_PARAMETER", "MISSING_OPTION",
                       "CFG_FILE_ERROR", "CFG_NOT_INIT", "NO_HTTP"} :
              /\ Return(rc) =>
                   /\ app' \in AppRecord
                   /\ app'.at = IF rc = "SUCCESS" THEN "idle" ELSE "exit"
              /\ app' = [app EXCEPT !.rc = rc] =>
                   app' \in AppRecord /\ app'.at = app.at
  <1>1. app \in AppRecord
    BY DEF LifeTypeOK
  <1>2. ASSUME NEW place \in {"idle", "file", "options", "servers", "stop", "exit"}
        PROVE  Go(place) => app' \in AppRecord /\ app'.at = place
    BY <1>1 DEF Go, AppRecord
  <1>3. ASSUME NEW rc \in {"SUCCESS", "ERROR", "BAD_PARAMETER", "MISSING_OPTION",
                           "CFG_FILE_ERROR", "CFG_NOT_INIT", "NO_HTTP"}
        PROVE  /\ Return(rc) =>
                    /\ app' \in AppRecord
                    /\ app'.at = IF rc = "SUCCESS" THEN "idle" ELSE "exit"
               /\ app' = [app EXCEPT !.rc = rc] =>
                    app' \in AppRecord /\ app'.at = app.at
    BY <1>1 DEF Return, AppRecord
  <1> QED
    BY <1>2, <1>3

\* As long as the log stays, and nothing goes wrong, only the rest counts.
LEMMA LifeGoesOn ==
  ASSUME DaemonInv, fault = "none", UNCHANGED logVars, LifeTypeOK', LifeInv'
  PROVE  DaemonInv'
  <1>1. LogInv'
    BY LogStays DEF DaemonInv, logVars, Faults
  <1> QED
    BY <1>1 DEF DaemonInv, FaultNeedsStoppedFile, logVars

LEMMA StartKeeps ==
  ASSUME DaemonInv, HPD_start
  PROVE  DaemonInv'
  <1>1. fault = "none" /\ app.at = "idle" /\ ~up /\ LifeTypeOK /\ LifeInv
          /\ starts \in Nat /\ starts < MaxStarts
    BY Constants DEF HPD_start, At, DaemonInv, LifeTypeOK
  <1>2. /\ starts' = starts + 1 /\ UNCHANGED <<logVars, cfg, up>>
        /\ hpd_daemon' = [memory |-> "live", http_port |-> 0, https |-> FALSE]
    BY DEF HPD_start, HPD_init_daemon
  <1>3. hpd_daemon' \in DaemonRecord /\ hpd_daemon'.memory = "live"
    BY <1>2 DEF DaemonRecord, Memory
  <1>4. app' \in AppRecord /\ app'.at \in {"file", "options"}
          /\ fromFile' \in BOOLEAN /\ (fromFile => fromFile')
          /\ (app'.at = "file" => fromFile')
    BY <1>1, AppGoes DEF HPD_start, LifeTypeOK
  <1>5. starts' \in 0 .. MaxStarts /\ starts' > 0 /\ (starts > 0 => starts' > 1)
    BY <1>1, <1>2, Constants
  <1>6. LifeTypeOK'
    BY <1>1, <1>2, <1>3, <1>4, <1>5 DEF LifeTypeOK
  <1>7. LifeInv'
    BY <1>1, <1>2, <1>3, <1>4, <1>5 DEF LifeInv, logVars
  <1> QED
    BY <1>1, <1>2, <1>6, <1>7, LifeGoesOn

LEMMA FileKeeps ==
  ASSUME DaemonInv, HPD_config_file_init
  PROVE  DaemonInv'
  <1>1. fault = "none" /\ app.at = "file" /\ LifeTypeOK /\ LifeInv /\ LogInv
          /\ UNCHANGED <<up, starts, fromFile>>
    BY DEF HPD_config_file_init, At, DaemonInv
  <1>2. hpd_daemon \in DaemonRecord /\ starts > 0 /\ ~up /\ fromFile
    BY <1>1 DEF LifeTypeOK, LifeInv
  <1>3. CASE ConfigFails
    <2>1. /\ hpd_daemon' = [hpd_daemon EXCEPT !.memory = "freed"]
          /\ cfg' = "freed" /\ Return("CFG_FILE_ERROR") /\ UNCHANGED logVars
      BY <1>3 DEF ConfigFails
    <2>2. hpd_daemon' \in DaemonRecord
      BY <1>2, <2>1 DEF DaemonRecord, Memory
    <2>3. app' \in AppRecord /\ app'.at = "exit"
      BY <1>1, <2>1, AppGoes
    <2>4. LifeTypeOK'
      BY <1>1, <2>1, <2>2, <2>3 DEF LifeTypeOK, Memory
    <2>5. LifeInv'
      BY <1>1, <1>2, <2>1, <2>3 DEF LifeInv, logVars
    <2> QED
      BY <1>1, <2>1, <2>4, <2>5, LifeGoesOn
  <1>4. CASE ~ConfigFails
    <2>1. PICK max \in MaxLogSizes, level \in Levels : init_hpd_log(max, level)
      BY <1>4 DEF HPD_config_file_init
    <2>2. /\ hpd_daemon' = [hpd_daemon EXCEPT !.http_port = 80, !.https = TRUE]
          /\ cfg' = "live" /\ Go("servers")
      BY <1>4 DEF HPD_config_file_init
    <2>3. hpd_daemon' \in DaemonRecord /\ hpd_daemon'.memory = hpd_daemon.memory
      BY <1>2, <2>2 DEF DaemonRecord
    <2>4. app' \in AppRecord /\ app'.at = "servers"
      BY <1>1, <2>2, AppGoes
    <2>5. LifeTypeOK'
      BY <1>1, <2>2, <2>3, <2>4 DEF LifeTypeOK, Memory
    <2>6. LogInv'
      BY <1>1, <2>1, InitHpdLog
    <2>7. UNCHANGED <<writer, fault>>
            /\ (hpd_log'.memory = "freed" => hpd_log.memory = "freed")
      BY <2>1 DEF init_hpd_log, create_hpd_log
    <2>8. LifeInv'
      BY <1>1, <1>2, <2>2, <2>3, <2>4, <2>7 DEF LifeInv
    <2> QED
      BY <1>1, <2>5, <2>6, <2>7, <2>8 DEF DaemonInv, FaultNeedsStoppedFile
  <1> QED
    BY <1>3, <1>4

LEMMA OptionsKeep ==
  ASSUME DaemonInv, parse_option_va
  PROVE  DaemonInv'
  <1>1. fault = "none" /\ app.at = "options" /\ LifeTypeOK /\ LifeInv
          /\ UNCHANGED <<logVars, cfg, up, starts, fromFile>>
    BY DEF parse_option_va, At, DaemonInv
  <1>2. hpd_daemon \in DaemonRecord /\ starts > 0 /\ ~up
          /\ hpd_daemon.memory = "live"
    BY <1>1 DEF LifeTypeOK, LifeInv
  <1>3. hpd_daemon' \in DaemonRecord /\ hpd_daemon'.memory = "live"
    <2>1. ASSUME NEW port \in Nat, NEW https \in BOOLEAN
          PROVE  LET r == [hpd_daemon EXCEPT !.http_port = port, !.https = https]
                 IN  r \in DaemonRecord /\ r.memory = "live"
      BY <1>2 DEF DaemonRecord
    <2>2. CASE hpd_daemon' = hpd_daemon
      BY <1>2, <2>2
    <2>3. CASE \E port \in Nat, https \in BOOLEAN :
                 hpd_daemon' = [hpd_daemon EXCEPT !.http_port = port, !.https = https]
      BY <2>1, <2>3
    <2>4. ASSUME NEW http \in BOOLEAN PROVE (IF http THEN 80 ELSE 0) \in Nat
      OBVIOUS
    <2> QED
      BY <2>2, <2>3, <2>4 DEF parse_option_va
  <1>4. app' \in AppRecord /\ app'.at \in {"servers", "exit"}
    BY <1>1, AppGoes DEF parse_option_va
  <1>5. LifeTypeOK'
    BY <1>1, <1>3, <1>4 DEF LifeTypeOK
  <1>6. LifeInv'
    BY <1>1, <1>2, <1>3, <1>4 DEF LifeInv, logVars
  <1> QED
    BY <1>1, <1>5, <1>6, LifeGoesOn

LEMMA ServersKeep ==
  ASSUME DaemonInv, StartServer
  PROVE  DaemonInv'
  <1>1. /\ fault = "none" /\ app.at = "servers" /\ LifeTypeOK /\ LifeInv
        /\ hpd_daemon.memory = "live" /\ starts > 0 /\ ~up
    BY DEF StartServer, At, DaemonInv, LifeInv
  <1>2. UNCHANGED <<logVars, hpd_daemon, cfg, starts, fromFile>>
    BY <1>1 DEF StartServer, logVars
  <1>3. \/ up' = TRUE /\ Return("SUCCESS")
        \/ up' = FALSE /\ Return("ERROR")
    BY <1>1 DEF StartServer
  <1>4. app' \in AppRecord /\ up' \in BOOLEAN
          /\ \/ up' = TRUE /\ app'.at = "idle"
             \/ up' = FALSE /\ app'.at = "exit"
    <2>1. CASE up' = TRUE /\ Return("SUCCESS")
      BY <1>1, <2>1, AppGoes
    <2>2. CASE up' = FALSE /\ Return("ERROR")
      BY <1>1, <2>2, AppGoes
    <2> QED
      BY <1>3, <2>1, <2>2
  <1>5. LifeTypeOK'
    BY <1>1, <1>2, <1>4 DEF LifeTypeOK
  <1>6. LifeInv'
    BY <1>1, <1>2, <1>4 DEF LifeInv, logVars
  <1> QED
    BY <1>1, <1>2, <1>5, <1>6, LifeGoesOn

\* HPD_stop may free twice: only a later start, or this stop, can tell.
LEMMA StopKeeps ==
  ASSUME DaemonInv, HPD_stop
  PROVE  DaemonInv'
  <1>1. /\ fault = "none" /\ app.at = "idle" /\ up
        /\ LifeTypeOK /\ LifeInv /\ LogInv
        /\ UNCHANGED <<up, starts, fromFile>> /\ Go("stop")
    BY DEF HPD_stop, At, DaemonInv
  <1>2. app' \in AppRecord /\ app'.at = "stop"
    BY <1>1, AppGoes
  <1>3. hpd_daemon' \in DaemonRecord /\ cfg' \in Memory
          /\ (cfg = "null" <=> cfg' = "null")
    <2>1. NoDaemon \in DaemonRecord
      BY DEF NoDaemon, DaemonRecord, Memory
    <2>2. CASE hpd_daemon.memory = "null"
      BY <1>1, <2>2 DEF HPD_stop, HPD_config_deinit, LifeTypeOK
    <2>3. CASE hpd_daemon.memory # "null"
      BY <1>1, <2>1, <2>3
         DEF HPD_stop, HPD_config_deinit, LifeTypeOK, Memory
    <2> QED
      BY <2>2, <2>3
  <1>4. LifeTypeOK'
    BY <1>1, <1>2, <1>3 DEF LifeTypeOK
  <1>5. CASE hpd_log.memory # "freed" /\ cfg = "freed"
    <2>1. /\ fault' = "cfg freed twice"
          /\ UNCHANGED <<hpd_log, log_mutex, log_file, writer, size, tail>>
      BY <1>5 DEF HPD_stop, HPD_config_deinit
    <2>2. fromFile
      BY <1>1, <1>5 DEF LifeInv
    <2>3. LogInv'
      BY <1>1, <2>1, LogStays DEF Faults
    <2> QED
      BY <1>1, <1>2, <1>4, <2>1, <2>2, <2>3 DEF DaemonInv, FaultNeedsStoppedFile
  <1>6. CASE ~(hpd_log.memory # "freed" /\ cfg = "freed")
    <2>1. destroy_hpd_log
      BY <1>6 DEF HPD_stop, HPD_config_deinit
    <2>2. LogInv'
      BY <1>1, <2>1, DestroyHpdLog
    <2>3. (fault' # "none" => hpd_log.memory = "freed")
            /\ UNCHANGED writer
            /\ (hpd_log'.memory # "null" => hpd_log.memory # "null")
      BY <1>1, <2>1 DEF destroy_hpd_log
    <2>4. fault' # "none" => fromFile'
      BY <1>1, <2>3 DEF LifeInv
    <2>5. LifeInv'
      BY <1>1, <1>2, <1>3, <2>3 DEF LifeInv
    <2> QED
      BY <1>2, <1>4, <2>2, <2>4, <2>5 DEF DaemonInv, FaultNeedsStoppedFile
  <1> QED
    BY <1>5, <1>6

LEMMA StoppedKeeps ==
  ASSUME DaemonInv, StopServer
  PROVE  DaemonInv'
  <1>1. /\ fault = "none" /\ app.at = "stop" /\ up' = FALSE
        /\ LifeTypeOK /\ LifeInv
        /\ \A t \in Thread : writer[t].at = "idle"
        /\ UNCHANGED <<logVars, hpd_daemon, cfg, starts, fromFile>>
    BY DEF StopServer, At, DaemonInv
  <1>2. app' \in AppRecord /\ app'.at = "idle"
    BY <1>1, AppGoes DEF StopServer
  <1>3. LifeTypeOK'
    BY <1>1, <1>2 DEF LifeTypeOK
  <1>4. LifeInv'
    BY <1>1, <1>2 DEF LifeInv, logVars
  <1> QED
    BY <1>1, <1>3, <1>4, LifeGoesOn

\* The functions that set or get a value.
LEMMA ValuesKeep ==
  ASSUME DaemonInv,
         \/ \E port \in Ports : HPD_config_set_port(port)
         \/ HPD_config_set_https \/ HPD_config_get
  PROVE  DaemonInv'
  <1>1. fault = "none" /\ app.at = "idle" /\ LifeTypeOK /\ LifeInv
          /\ UNCHANGED <<logVars, cfg, up, starts, fromFile>>
    BY DEF HPD_config_set_port, HPD_config_set_https, HPD_config_get, At,
           DaemonInv
  <1>2. app' \in AppRecord /\ app'.at = "idle"
    <2>1. \E rc \in {"SUCCESS", "ERROR", "BAD_PARAMETER", "MISSING_OPTION",
                     "CFG_FILE_ERROR", "CFG_NOT_INIT", "NO_HTTP"} :
            app' = [app EXCEPT !.rc = rc]
      BY Constants
         DEF HPD_config_set_port, HPD_config_set_https, HPD_config_get
    <2> QED
      BY <1>1, <2>1, AppGoes
  <1>3. hpd_daemon' \in DaemonRecord /\ hpd_daemon'.memory = hpd_daemon.memory
    <2>1. hpd_daemon \in DaemonRecord
      BY <1>1 DEF LifeTypeOK
    <2>2. \/ hpd_daemon' = hpd_daemon
          \/ hpd_daemon' = [hpd_daemon EXCEPT !.https = TRUE]
          \/ \E port \in Nat : hpd_daemon' = [hpd_daemon EXCEPT !.http_port = port]
      <3>1. ASSUME NEW port \in Ports, HPD_config_set_port(port)
            PROVE  \/ hpd_daemon' = hpd_daemon
                   \/ port \in Nat
                      /\ hpd_daemon' = [hpd_daemon EXCEPT !.http_port = port]
        BY <3>1, Constants DEF HPD_config_set_port
      <3> QED
        BY <3>1 DEF HPD_config_set_https, HPD_config_get
    <2> QED
      BY <2>1, <2>2 DEF DaemonRecord
  <1>4. LifeTypeOK'
    BY <1>1, <1>2, <1>3 DEF LifeTypeOK
  <1>5. LifeInv'
    BY <1>1, <1>2, <1>3 DEF LifeInv, logVars
  <1> QED
    BY <1>1, <1>4, <1>5, LifeGoesOn

\* A thread that logs finds freed memory only behind a stop.
LEMMA LoggingKeeps ==
  ASSUME DaemonInv, NEW t \in Thread, Requests(t) \/ Logs(t)
  PROVE  DaemonInv'
  <1>1. /\ fault = "none" /\ LifeTypeOK /\ LifeInv /\ LogInv
        /\ UNCHANGED <<hpd_daemon, cfg, app, up, starts, fromFile>>
        /\ LogCalled(t) \/ UsesFreed(t) \/ Log(t)
    BY DEF Requests, Logs, DaemonInv
  <1>2. LogInv'
    BY <1>1, LogStep
  <1>3. LifeTypeOK'
    BY <1>1 DEF LifeTypeOK
  <1>4. up
    BY <1>1 DEF Requests, Logs, Log, LifeInv
  <1>5. CASE UsesFreed(t)
    <2>1. hpd_log.memory = "freed" /\ fault' = "log used"
      BY <1>5 DEF UsesFreed
    <2>2. fromFile /\ (app.at = "stop" \/ starts > 1)
      BY <1>1, <1>4, <2>1 DEF LifeInv
    <2> QED
      BY <1>1, <1>2, <1>3, <2>1, <2>2 DEF DaemonInv, FaultNeedsStoppedFile
  <1>6. CASE ~UsesFreed(t)
    <2>1. UNCHANGED fault /\ hpd_log'.memory = hpd_log.memory
      <3>1. CASE LogCalled(t)
        BY <3>1 DEF LogCalled
      <3>2. CASE LogSendsEvent(t)
        BY <3>2 DEF LogSendsEvent
      <3>3. CASE LogLocks(t)
        BY <3>3 DEF LogLocks
      <3>4. CASE LogOpens(t)
        <4>1. hpd_log \in LogRecord
          BY <1>1, LogTypeIs DEF LogInv
        <4>2. UNCHANGED fault
                /\ \/ hpd_log' = hpd_log
                   \/ hpd_log' = [hpd_log EXCEPT !.pos = hpd_log.initial_pos]
          BY <3>4 DEF LogOpens, set_position_for_new_message
        <4> QED
          BY <4>1, <4>2 DEF LogRecord
      <3>5. CASE LogWrites(t)
        <4>1. hpd_log \in LogRecord
          BY <1>1, LogTypeIs DEF LogInv
        <4>2. UNCHANGED fault
                /\ \E p : hpd_log' = [hpd_log EXCEPT !.pos = p]
          BY <3>5 DEF LogWrites
        <4> QED
          BY <4>1, <4>2 DEF LogRecord
      <3> QED
        BY <1>1, <1>6, <3>1, <3>2, <3>3, <3>4, <3>5 DEF Log
    <2>2. LifeInv'
      BY <1>1, <1>4, <2>1 DEF LifeInv
    <2> QED
      BY <1>1, <1>2, <1>3, <2>1, <2>2 DEF DaemonInv, FaultNeedsStoppedFile
  <1> QED
    BY <1>5, <1>6

LEMMA DaemonStep == DaemonInv /\ [DaemonNext]_daemonVars => DaemonInv'
  <1> SUFFICES ASSUME DaemonInv, [DaemonNext]_daemonVars PROVE DaemonInv'
    OBVIOUS
  <1>1. CASE UNCHANGED daemonVars
    <2>1. UNCHANGED logVars /\ UNCHANGED <<hpd_daemon, cfg, app, up, starts, fromFile>>
      BY <1>1 DEF daemonVars
    <2>2. LogInv'
      BY <2>1, LogStays, LogTypeIs DEF DaemonInv, LogInv, logVars
    <2>3. LifeTypeOK' /\ FaultNeedsStoppedFile' /\ (fault' = "none" => LifeInv')
      BY <2>1 DEF DaemonInv, LifeTypeOK, FaultNeedsStoppedFile, LifeInv, logVars
    <2> QED
      BY <2>2, <2>3 DEF DaemonInv
  <1>2. CASE DaemonNext
    BY <1>2, StartKeeps, FileKeeps, OptionsKeep, ServersKeep, StopKeeps,
       StoppedKeeps, ValuesKeep, LoggingKeeps DEF DaemonNext
  <1> QED
    BY <1>1, <1>2

-----------------------------------------------------------------------------
(* Sequences glued together: induction over their number, which a set      *)
(* stands for.                                                             *)

LEMMA SetInduction ==
  ASSUME NEW T, 0 \in T, \A n \in Nat : n \in T => n + 1 \in T
  PROVE  Nat \subseteq T
  <1> DEFINE R == {p \in Nat \X Nat : p[1] < p[2]}
  <1>1. IsWellFoundedOn(R, Nat)
    <2>1. R = OpToRel(<, Nat)
      BY Zenon DEF OpToRel
    <2> QED
      BY <2>1, NatLessThanWellFounded
  <1> SUFFICES ASSUME Nat \ T # {} PROVE FALSE
    OBVIOUS
  <1> HIDE DEF R
  <1>2. PICK x \in Nat \ T : \A y \in Nat \ T : ~(<<y, x>> \in R)
    BY <1>1, WFMin
  <1>3. x # 0 /\ x - 1 \in Nat /\ x = (x - 1) + 1
    BY <1>2
  <1>4. x - 1 \notin T
    BY <1>2, <1>3
  <1>5. <<x - 1, x>> \in R
    BY <1>3 DEF R
  <1> QED
    BY <1>2, <1>3, <1>4, <1>5

\* g holds what the first parts give, for every number of them up to n.
Glues(g, parts, n) ==
  g = [i \in 0 .. n |-> IF i = 0 THEN <<>> ELSE g[i - 1] \o parts[i]]

\* One after the other: what Glues says of each number.
LEMMA GluesIs ==
  ASSUME NEW g, NEW parts, NEW n \in Nat, Glues(g, parts, n)
  PROVE  /\ g[0] = <<>>
         /\ \A i \in 1 .. n : g[i] = g[i - 1] \o parts[i]
  <1>1. \A i \in 0 .. n :
          g[i] = IF i = 0 THEN <<>> ELSE g[i - 1] \o parts[i]
    BY Zenon DEF Glues
  <1>2. 0 \in 0 .. n /\ \A i \in 1 .. n : i \in 0 .. n /\ i # 0
    OBVIOUS
  <1> QED
    BY Zenon, <1>1, <1>2

LEMMA GlueExistsUpTo ==
  ASSUME NEW S, NEW parts, NEW max \in Nat,
         \A i \in 1 .. max : parts[i] \in Seq(S)
  PROVE  \A n \in 0 .. max : \E g \in [0 .. n -> Seq(S)] : Glues(g, parts, n)
  <1> DEFINE T == {n \in Nat : n <= max =>
                     \E g \in [0 .. n -> Seq(S)] : Glues(g, parts, n)}
  <1>1. 0 \in T
    <2> DEFINE g == [i \in 0 .. 0 |-> <<>>]
    <2>1. g \in [0 .. 0 -> Seq(S)] /\ Glues(g, parts, 0)
      BY DEF Glues
    <2> HIDE DEF g
    <2> QED
      BY <2>1
  <1>2. ASSUME NEW n \in Nat, n \in T PROVE n + 1 \in T
    <2> SUFFICES ASSUME n + 1 <= max
                 PROVE  \E g \in [0 .. n + 1 -> Seq(S)] : Glues(g, parts, n + 1)
      OBVIOUS
    <2>1. PICK g \in [0 .. n -> Seq(S)] : Glues(g, parts, n)
      BY <1>2
    <2>2. parts[n + 1] \in Seq(S) /\ g[n] \in Seq(S)
      BY <2>1
    <2>3. g[n] \o parts[n + 1] \in Seq(S)
      BY <2>2, ConcatProperties
    <2> DEFINE h == [i \in 0 .. n + 1 |->
                       IF i <= n THEN g[i] ELSE g[n] \o parts[n + 1]]
    <2>4. h \in [0 .. n + 1 -> Seq(S)]
      BY <2>1, <2>3
    <2>5. /\ \A i \in 0 .. n : h[i] = g[i]
          /\ h[n + 1] = g[n] \o parts[n + 1]
      OBVIOUS
    <2> HIDE DEF h
    <2>6. ASSUME NEW i \in 0 .. n + 1
          PROVE  h[i] = IF i = 0 THEN <<>> ELSE h[i - 1] \o parts[i]
      <3>1. CASE i = 0
        <4>1. g[0] = <<>>
          BY Zenon, <2>1, GluesIs
        <4>2. h[0] = g[0]
          BY <2>5
        <4> QED
          BY <3>1, <4>1, <4>2
      <3>2. CASE i \in 1 .. n
        <4>1. i - 1 \in 0 .. n /\ i \in 0 .. n /\ i # 0
          BY <3>2
        <4>2. g[i] = g[i - 1] \o parts[i]
          BY Zenon, <2>1, <3>2, GluesIs
        <4> QED
          BY <2>5, <4>1, <4>2
      <3>3. CASE i = n + 1
        <4>1. i - 1 = n /\ n \in 0 .. n /\ i # 0
          BY <3>3
        <4> QED
          BY <2>5, <3>3, <4>1
      <3> QED
        BY <3>1, <3>2, <3>3
    <2>7. Glues(h, parts, n + 1)
      BY <2>4, <2>6 DEF Glues
    <2> QED
      BY <2>4, <2>7
  <1> HIDE DEF T
  <1>3. Nat \subseteq T
    BY <1>1, <1>2, SetInduction
  <1>4. \A n \in 0 .. max : n \in T /\ n <= max
    BY <1>3
  <1> QED
    BY Zenon, <1>4 DEF T

LEMMA GlueExists ==
  ASSUME NEW S, NEW parts, NEW n \in Nat,
         \A i \in 1 .. n : parts[i] \in Seq(S)
  PROVE  \E g \in [0 .. n -> Seq(S)] : Glues(g, parts, n)
  <1>1. n \in 0 .. n
    OBVIOUS
  <1> QED
    BY Zenon, <1>1, GlueExistsUpTo

\* The first k parts are the same.
Agree(b, c, k) == \A i \in 1 .. k : b[i] = c[i]

\* Parts that agree give the same.
LEMMA GlueUnique ==
  ASSUME NEW b, NEW c, NEW m \in Nat, NEW n \in Nat, NEW k \in 0 .. m,
         k \in 0 .. n, Agree(b, c, k),
         NEW g, Glues(g, b, m), NEW h, Glues(h, c, n)
  PROVE  g[k] = h[k]
  <1> DEFINE T == {i \in Nat : i <= k => g[i] = h[i]}
  <1>1. 0 \in T
    <2>1. g[0] = <<>> /\ h[0] = <<>>
      BY Zenon, GluesIs
    <2> QED
      BY <2>1
  <1>2. ASSUME NEW i \in Nat, i \in T PROVE i + 1 \in T
    <2> SUFFICES ASSUME i + 1 <= k PROVE g[i + 1] = h[i + 1]
      OBVIOUS
    <2>1. i + 1 \in 1 .. m /\ i + 1 \in 1 .. n /\ i + 1 \in 1 .. k
            /\ (i + 1) - 1 = i /\ i <= k
      OBVIOUS
    <2>2. /\ g[i + 1] = g[(i + 1) - 1] \o b[i + 1]
          /\ h[i + 1] = h[(i + 1) - 1] \o c[i + 1]
      <3>1. g[i + 1] = g[(i + 1) - 1] \o b[i + 1]
        BY Zenon, <2>1, GluesIs
      <3>2. h[i + 1] = h[(i + 1) - 1] \o c[i + 1]
        BY Zenon, <2>1, GluesIs
      <3> QED
        BY <3>1, <3>2
    <2> QED
      BY <1>2, <2>1, <2>2 DEF Agree
  <1> HIDE DEF T
  <1>3. Nat \subseteq T
    BY <1>1, <1>2, SetInduction
  <1>4. k \in T /\ k <= k
    BY <1>3
  <1> QED
    BY Zenon, <1>4 DEF T

\* Glued gives the last of them.
LEMMA GluedIs ==
  ASSUME NEW parts, NEW n, NEW g, Glues(g, parts, n)
  PROVE  \E h : Glues(h, parts, n) /\ Glued(parts, n) = h[n]
  BY Zenon DEF Glued, Glues

\* Parts that agree give the same text, a sequence of what they consist of.
LEMMA GlueAgrees ==
  ASSUME NEW S, NEW b, NEW c, NEW n \in Nat, Agree(b, c, n),
         \A i \in 1 .. n : b[i] \in Seq(S)
  PROVE  Glued(b, n) = Glued(c, n) /\ Glued(b, n) \in Seq(S)
  <1>8. \A i \in 1 .. n : b[i] \in Seq(S) /\ c[i] \in Seq(S)
    BY DEF Agree
  <1>1. PICK g \in [0 .. n -> Seq(S)] : Glues(g, b, n)
    BY Zenon, <1>8, GlueExists
  <1>2. PICK k : Glues(k, b, n) /\ Glued(b, n) = k[n]
    BY <1>1, GluedIs
  <1>3. \E l \in [0 .. n -> Seq(S)] : Glues(l, c, n)
    BY Zenon, <1>8, GlueExists
  <1>4. PICK h : Glues(h, c, n) /\ Glued(c, n) = h[n]
    BY <1>3, GluedIs
  <1>7. n \in 0 .. n /\ Agree(b, b, n)
    BY DEF Agree
  <1>10. Agree(b, c, n)
    BY DEF Agree
  <1>5. k[n] = g[n]
    BY <1>1, <1>2, <1>7, GlueUnique
  <1>9. k[n] = h[n]
    BY <1>2, <1>4, <1>7, <1>10, GlueUnique
  <1>6. g[n] \in Seq(S)
    BY <1>1
  <1> QED
    BY <1>2, <1>4, <1>5, <1>6, <1>9

\* One more part is added at the end.
LEMMA GlueNext ==
  ASSUME NEW S, NEW b, NEW c, NEW n \in Nat, Agree(b, c, n),
         \A i \in 1 .. n : b[i] \in Seq(S), c[n + 1] \in Seq(S)
  PROVE  Glued(c, n + 1) = Glued(b, n) \o c[n + 1]
  <1>1. \A i \in 1 .. n + 1 : c[i] \in Seq(S)
    <2> SUFFICES ASSUME NEW i \in 1 .. n + 1 PROVE c[i] \in Seq(S)
      OBVIOUS
    <2>1. i \in 1 .. n \/ i = n + 1
      OBVIOUS
    <2> QED
      BY <2>1 DEF Agree
  <1>8. n + 1 \in Nat /\ n \in 0 .. n /\ n \in 0 .. n + 1 /\ Agree(b, c, n)
    BY DEF Agree
  <1>9. \A i \in 1 .. n : b[i] \in Seq(S)
    OBVIOUS
  <1>2. \E g \in [0 .. n + 1 -> Seq(S)] : Glues(g, c, n + 1)
    BY Zenon, <1>1, <1>8, GlueExists
  <1>3. PICK h : Glues(h, c, n + 1) /\ Glued(c, n + 1) = h[n + 1]
    BY <1>2, GluedIs
  <1>4. \E g \in [0 .. n -> Seq(S)] : Glues(g, b, n)
    BY Zenon, <1>9, GlueExists
  <1>5. PICK k : Glues(k, b, n) /\ Glued(b, n) = k[n]
    BY <1>4, GluedIs
  <1>6. k[n] = h[n]
    BY <1>3, <1>5, <1>8, GlueUnique
  <1>7. h[n + 1] = h[n] \o c[n + 1]
    <2>1. n + 1 \in 1 .. n + 1 /\ (n + 1) - 1 = n
      OBVIOUS
    <2>2. h[n + 1] = h[(n + 1) - 1] \o c[n + 1]
      BY Zenon, <1>3, <1>8, <2>1, GluesIs
    <2> QED
      BY <2>1, <2>2
  <1> QED
    BY <1>3, <1>5, <1>6, <1>7

\* Nothing is glued from no parts.
LEMMA GluedNone ==
  ASSUME NEW parts
  PROVE  Glued(parts, 0) = <<>>
  <1>1. \E g \in [0 .. 0 -> Seq({})] : Glues(g, parts, 0)
    <2>1. 0 \in Nat /\ \A i \in 1 .. 0 : parts[i] \in Seq({})
      OBVIOUS
    <2> QED
      BY Zenon, <2>1, GlueExists
  <1>2. PICK h : Glues(h, parts, 0) /\ Glued(parts, 0) = h[0]
    BY <1>1, GluedIs
  <1> QED
    BY Zenon, <1>2, GluesIs

-----------------------------------------------------------------------------
(* The text of the log.                                                    *)

\* What a message with its newline fills, and what some messages fill.
Cells(m, n) == [j \in 1 .. n |-> m]

Pieces(sizes, msgs) ==
  [i \in 1 .. Len(msgs) |-> Cells(msgs[i], sizes[msgs[i]] + 1)]

TextOf(sizes, msgs) == Glued(Pieces(sizes, msgs), Len(msgs))

LEMMA TextIs == Text(tail) = TextOf(size, tail)
  BY DEF Text, Parts, TextOf, Pieces, Cells

LEMMA CellsAre ==
  ASSUME NEW m \in Nat, NEW n \in Nat
  PROVE  /\ Cells(m, n) \in Seq(Nat)
         /\ Len(Cells(m, n)) = n
         /\ \A j \in 1 .. n : Cells(m, n)[j] = m
  BY DEF Cells

LEMMA PiecesAre ==
  ASSUME NEW sizes \in Seq(Nat), NEW msgs \in Seq(1 .. Len(sizes))
  PROVE  \A i \in 1 .. Len(msgs) :
           /\ msgs[i] \in 1 .. Len(sizes) /\ sizes[msgs[i]] \in Nat
           /\ Pieces(sizes, msgs)[i] = Cells(msgs[i], sizes[msgs[i]] + 1)
           /\ Pieces(sizes, msgs)[i] \in Seq(Nat)
  <1> SUFFICES ASSUME NEW i \in 1 .. Len(msgs)
               PROVE  /\ msgs[i] \in 1 .. Len(sizes) /\ sizes[msgs[i]] \in Nat
                      /\ Pieces(sizes, msgs)[i] = Cells(msgs[i], sizes[msgs[i]] + 1)
                      /\ Pieces(sizes, msgs)[i] \in Seq(Nat)
    OBVIOUS
  <1>1. msgs[i] \in 1 .. Len(sizes)
    BY SequenceIs
  <1>2. sizes[msgs[i]] \in Nat /\ msgs[i] \in Nat
    BY <1>1, SequenceIs
  <1>3. Pieces(sizes, msgs)[i] = Cells(msgs[i], sizes[msgs[i]] + 1)
    BY DEF Pieces
  <1>4. Cells(msgs[i], sizes[msgs[i]] + 1) \in Seq(Nat)
    <2>1. sizes[msgs[i]] + 1 \in Nat
      BY <1>2
    <2> QED
      BY Zenon, <1>2, <2>1, CellsAre
  <1> QED
    BY <1>1, <1>2, <1>3, <1>4

LEMMA NoText ==
  ASSUME NEW sizes
  PROVE  TextOf(sizes, <<>>) = <<>>
  <1>1. Len(<<>>) = 0
    OBVIOUS
  <1> QED
    BY <1>1, GluedNone DEF TextOf

\* The sizes of later messages do not matter.
LEMMA TextStays ==
  ASSUME NEW sizes \in Seq(Nat), NEW msgs \in Seq(1 .. Len(sizes)), NEW n \in Nat
  PROVE  /\ TextOf(sizes, msgs) \in Seq(Nat)
         /\ TextOf(Append(sizes, n), msgs) = TextOf(sizes, msgs)
         /\ msgs \in Seq(1 .. Len(Append(sizes, n)))
  <1> DEFINE more == Append(sizes, n)
  <1>1. /\ more \in Seq(Nat) /\ Len(more) = Len(sizes) + 1
        /\ \A i \in 1 .. Len(sizes) : more[i] = sizes[i]
    OBVIOUS
  <1> HIDE DEF more
  <1>2. Len(sizes) \in Nat /\ Len(msgs) \in Nat
    OBVIOUS
  <1>3. msgs \in Seq(1 .. Len(more))
    <2>1. 1 .. Len(sizes) \subseteq 1 .. Len(more)
      BY <1>1, <1>2
    <2> QED
      BY <2>1, SeqMonotonic
  <1>4. /\ Agree(Pieces(sizes, msgs), Pieces(more, msgs), Len(msgs))
        /\ \A i \in 1 .. Len(msgs) : Pieces(sizes, msgs)[i] \in Seq(Nat)
    <2>1. \A i \in 1 .. Len(msgs) :
            /\ msgs[i] \in 1 .. Len(sizes)
            /\ Pieces(sizes, msgs)[i] = Cells(msgs[i], sizes[msgs[i]] + 1)
            /\ Pieces(sizes, msgs)[i] \in Seq(Nat)
      BY PiecesAre
    <2>2. \A i \in 1 .. Len(msgs) :
            Pieces(more, msgs)[i] = Cells(msgs[i], more[msgs[i]] + 1)
      BY <1>1, <1>3, PiecesAre
    <2> QED
      BY <1>1, <2>1, <2>2 DEF Agree
  <1>5. /\ Glued(Pieces(sizes, msgs), Len(msgs)) = Glued(Pieces(more, msgs), Len(msgs))
        /\ Glued(Pieces(sizes, msgs), Len(msgs)) \in Seq(Nat)
    BY Zenon, <1>2, <1>4, GlueAgrees
  <1> QED
    BY <1>3, <1>5 DEF TextOf, more

\* One more message is one more piece of text.
LEMMA TextGrows ==
  ASSUME NEW sizes \in Seq(Nat), NEW msgs \in Seq(1 .. Len(sizes)),
         NEW m \in 1 .. Len(sizes)
  PROVE  TextOf(sizes, Append(msgs, m)) =
           TextOf(sizes, msgs) \o Cells(m, sizes[m] + 1)
  <1> DEFINE more == Append(msgs, m)
             n == Len(msgs)
  <1>1. /\ more \in Seq(1 .. Len(sizes)) /\ Len(more) = n + 1 /\ n \in Nat
        /\ \A i \in 1 .. n : more[i] = msgs[i]
        /\ more[n + 1] = m
    OBVIOUS
  <1> HIDE DEF more, n
  <1>2. \A i \in 1 .. n + 1 :
          /\ Pieces(sizes, more)[i] = Cells(more[i], sizes[more[i]] + 1)
          /\ Pieces(sizes, more)[i] \in Seq(Nat)
    BY <1>1, PiecesAre
  <1>3. \A i \in 1 .. n :
          /\ Pieces(sizes, msgs)[i] = Cells(msgs[i], sizes[msgs[i]] + 1)
          /\ Pieces(sizes, msgs)[i] \in Seq(Nat)
    BY PiecesAre DEF n
  <1>4. n + 1 \in 1 .. n + 1 /\ \A i \in 1 .. n : i \in 1 .. n + 1
    BY <1>1
  <1>5. /\ Agree(Pieces(sizes, msgs), Pieces(sizes, more), n)
        /\ \A i \in 1 .. n : Pieces(sizes, msgs)[i] \in Seq(Nat)
    BY <1>1, <1>2, <1>3, <1>4 DEF Agree
  <1>6. Pieces(sizes, more)[n + 1] \in Seq(Nat)
          /\ Pieces(sizes, more)[n + 1] = Cells(m, sizes[m] + 1)
    BY <1>1, <1>2, <1>4
  <1>7. Glued(Pieces(sizes, more), n + 1) =
          Glued(Pieces(sizes, msgs), n) \o Pieces(sizes, more)[n + 1]
    <2>1. n \in Nat
      BY <1>1
    <2> DEFINE b == Pieces(sizes, msgs)
               c == Pieces(sizes, more)
    <2>2. /\ Agree(b, c, n) /\ c[n + 1] \in Seq(Nat)
          /\ \A i \in 1 .. n : b[i] \in Seq(Nat)
      BY <1>5, <1>6
    <2> HIDE DEF b, c
    <2>3. Glued(c, n + 1) = Glued(b, n) \o c[n + 1]
      BY <2>1, <2>2, GlueNext
    <2> QED
      BY <2>3 DEF b, c
  <1> QED
    BY <1>1, <1>6, <1>7 DEF TextOf, more, n

-----------------------------------------------------------------------------
(* The log is contiguous.                                                  *)

\* A thread between its choice of a position and its write has the mutex.
MutexInv ==
  \A t \in Thread :
    /\ writer[t].at \in {"open", "write"} => log_mutex = t
    /\ writer[t].at = "write" => writer[t].from = hpd_log.pos

\* The cells behind the header are those of the messages since.
CellsInv ==
  hpd_log.memory # "null" =>
    /\ hpd_log.pos = Header + Len(TextOf(size, tail))
    /\ \A i \in 1 .. Len(TextOf(size, tail)) :
         log_file[Header + i] = TextOf(size, tail)[i]

ContInv == MutexInv /\ tail \in Seq(1 .. Len(size)) /\ CellsInv

LEMMA SizesAre == LogInv => size \in Seq(Nat)
  BY LogTypeIs, Constants, SeqMonotonic DEF LogInv

LEMMA InitCont == DaemonInit => ContInv
  <1> SUFFICES ASSUME DaemonInit PROVE ContInv
    OBVIOUS
  <1>1. hpd_log.memory = "null" /\ tail = <<>>
          /\ writer = [t \in Thread |-> Quiet]
    BY DEF DaemonInit, LogInit, NoLog
  <1> QED
    BY <1>1, QuietIs DEF ContInv, MutexInv, CellsInv

\* Steps that neither log nor make a log.
LEMMA ContKept ==
  ASSUME ContInv, UNCHANGED <<log_mutex, log_file, writer, size, tail>>,
         hpd_log'.pos = hpd_log.pos,
         hpd_log'.memory # "null" => hpd_log.memory # "null"
  PROVE  ContInv'
  BY DEF ContInv, MutexInv, CellsInv

\* A new log starts behind its header, when nobody writes.
LEMMA ContCreated ==
  ASSUME LogInv, ContInv, NEW max \in MaxLogSizes, NEW level \in Levels,
         init_hpd_log(max, level)
  PROVE  ContInv'
  <1>1. CASE hpd_log.memory # "null"
    BY <1>1, ContKept DEF init_hpd_log
  <1>2. CASE hpd_log.memory = "null"
    <2>1. /\ hpd_log' = [memory |-> "live", level |-> level, max |-> max,
                         initial_pos |-> Header, pos |-> Header]
          /\ tail' = <<>> /\ UNCHANGED <<writer, size>>
      BY <1>2 DEF init_hpd_log, create_hpd_log
    <2>2. \A t \in Thread : writer'[t].at = "idle"
      BY <1>2, <2>1 DEF LogInv, RoomInv
    <2>3. MutexInv'
      BY <2>2 DEF MutexInv
    <2>4. TextOf(size', tail') = <<>> /\ hpd_log'.pos = Header
      BY <2>1, NoText
    <2>5. CellsInv'
      <3>1. Len(TextOf(size', tail')) = 0
        BY <2>4
      <3> QED
        BY <2>4, <3>1, Constants DEF CellsInv
    <2> QED
      BY <2>1, <2>3, <2>5 DEF ContInv
  <1> QED
    BY <1>1, <1>2

\* The next message does not change the text of those before.
LEMMA ContCalled ==
  ASSUME LogInv, ContInv, NEW t \in Thread, LogCalled(t)
  PROVE  ContInv'
  <1> DEFINE w == [writer[t] EXCEPT !.at = "lock", !.msg = Len(size) + 1]
  <1>1. LogTypeOK /\ writer[t] \in WriterRecord /\ Len(size) \in Nat
    BY LogTypeIs DEF LogInv
  <1>2. Len(size) + 1 \in 0 .. MaxMessages
    BY <1>1, Constants DEF LogCalled
  <1>3. w \in WriterRecord /\ w.at = "lock"
    BY <1>1, <1>2 DEF WriterRecord
  <1>4. writer' = [writer EXCEPT ![t] = w]
          /\ UNCHANGED <<hpd_log, log_mutex, log_file, tail>>
    BY DEF LogCalled
  <1> HIDE DEF w
  <1>5. writer'[t].at = "lock" /\ \A u \in Thread \ {t} : writer'[u] = writer[u]
    BY <1>1, <1>3, <1>4, WriterMoves
  <1>6. MutexInv'
    BY <1>4, <1>5 DEF ContInv, MutexInv
  <1>7. PICK n \in Sizes : size' = Append(size, n)
    BY DEF LogCalled
  <1>8. TextOf(size', tail) = TextOf(size, tail) /\ tail \in Seq(1 .. Len(size'))
    BY <1>7, SizesAre, Constants, TextStays DEF ContInv
  <1> QED
    BY <1>4, <1>6, <1>8 DEF ContInv, CellsInv

\* A thread that has or gives up the mutex as it moves.
LEMMA ContMoves ==
  ASSUME LogInv, ContInv, NEW t \in Thread,
         \A u \in Thread \ {t} : writer'[u] = writer[u],
         writer'[t].at # "write",
         writer'[t].at = "open" => log_mutex' = t,
         \/ log_mutex' = log_mutex
         \/ log_mutex \in {"free", t} /\ log_mutex' \in {"free", t},
         UNCHANGED <<hpd_log, log_file, size, tail>>
  PROVE  ContInv'
  <1>1. MutexInv'
    BY LogAssumption DEF ContInv, MutexInv
  <1> QED
    BY <1>1 DEF ContInv, CellsInv

LEMMA ContSends ==
  ASSUME LogInv, ContInv, NEW t \in Thread, LogSendsEvent(t)
  PROVE  ContInv'
  <1>1. LogTypeOK
    BY DEF LogInv
  <1>2. writer'[t] = Quiet /\ \A u \in Thread \ {t} : writer'[u] = writer[u]
    BY <1>1, QuietIs, WriterMoves DEF LogSendsEvent
  <1>3. writer'[t].at = "idle"
          /\ UNCHANGED <<hpd_log, log_mutex, log_file, size, tail>>
    BY <1>2, QuietIs DEF LogSendsEvent
  <1>4. MutexInv'
    BY <1>2, <1>3 DEF ContInv, MutexInv
  <1> QED
    BY <1>3, <1>4 DEF ContInv, CellsInv

LEMMA ContLocks ==
  ASSUME LogInv, ContInv, NEW t \in Thread, LogLocks(t)
  PROVE  ContInv'
  <1>1. LogTypeOK
    BY DEF LogInv
  <1>2. CASE hpd_log.level = 0
    <2>1. writer'[t] = Quiet /\ \A u \in Thread \ {t} : writer'[u] = writer[u]
      BY <1>1, <1>2, QuietIs, WriterMoves DEF LogLocks
    <2> QED
      BY <1>2, <2>1, QuietIs, ContMoves DEF LogLocks
  <1>3. CASE hpd_log.level # 0
    <2>1. Goes(t, "open")
      BY <1>3 DEF LogLocks
    <2>2. writer'[t].at = "open" /\ \A u \in Thread \ {t} : writer'[u] = writer[u]
      BY <1>1, <2>1, WriterGoes
    <2> QED
      BY <1>3, <2>2, ContMoves DEF LogLocks
  <1> QED
    BY <1>2, <1>3

\* The position stays, or starts again with an empty text.
LEMMA ContOpens ==
  ASSUME LogInv, ContInv, NEW t \in Thread, LogOpens(t)
  PROVE  ContInv'
  <1>1. LogTypeOK /\ hpd_log \in LogRecord /\ writer[t] \in WriterRecord
          /\ log_mutex = t /\ hpd_log.memory # "null"
          /\ writer[t].at = "open"
    BY LogTypeIs DEF LogInv, RoomInv, ContInv, MutexInv, LogOpens
  <1>2. CASE /\ UNCHANGED <<hpd_log, tail>> /\ log_mutex' = "free"
             /\ writer' = [writer EXCEPT ![t] = Quiet]
    <2>1. writer'[t] = Quiet /\ \A u \in Thread \ {t} : writer'[u] = writer[u]
      BY <1>1, <1>2, QuietIs, WriterMoves
    <2> QED
      BY <1>1, <1>2, <2>1, QuietIs, ContMoves DEF LogOpens
  <1>3. CASE /\ set_position_for_new_message(size[writer[t].msg])
             /\ writer' = [writer EXCEPT ![t].at = "write",
                                         ![t].from = hpd_log'.pos]
             /\ UNCHANGED log_mutex
    <2>1. \/ hpd_log' = hpd_log /\ tail' = tail
          \/ /\ hpd_log' = [hpd_log EXCEPT !.pos = hpd_log.initial_pos]
             /\ tail' = <<>>
      BY <1>3 DEF set_position_for_new_message
    <2>2. UNCHANGED <<log_file, size>> /\ hpd_log.initial_pos = Header
      BY <1>1 DEF LogOpens, LogInv, RoomInv
    <2>3. /\ hpd_log'.pos \in Nat /\ tail' \in Seq(1 .. Len(size'))
          /\ CellsInv'
      <3>1. CASE hpd_log' = hpd_log /\ tail' = tail
        BY <1>1, <2>2, <3>1 DEF ContInv, CellsInv, LogRecord
      <3>2. CASE /\ hpd_log' = [hpd_log EXCEPT !.pos = hpd_log.initial_pos]
                 /\ tail' = <<>>
        <4>1. hpd_log'.pos = Header
          BY <1>1, <2>2, <3>2 DEF LogRecord
        <4>2. TextOf(size', tail') = <<>>
          BY <3>2, NoText
        <4>3. Len(TextOf(size', tail')) = 0
          BY <4>2
        <4> QED
          BY <3>2, <4>1, <4>3, Constants DEF CellsInv
      <3> QED
        BY <2>1, <3>1, <3>2
    <2> DEFINE w == [writer[t] EXCEPT !.at = "write", !.from = hpd_log'.pos]
    <2>4. w \in WriterRecord /\ w.at = "write" /\ w.from = hpd_log'.pos
      BY <1>1, <2>3 DEF WriterRecord
    <2>5. writer' = [writer EXCEPT ![t] = w]
      BY <1>3
    <2> HIDE DEF w
    <2>6. writer'[t] = w /\ \A u \in Thread \ {t} : writer'[u] = writer[u]
      BY <1>1, <2>4, <2>5, WriterMoves
    <2>7. \A u \in Thread \ {t} : writer[u].at \notin {"open", "write"}
      BY <1>1 DEF ContInv, MutexInv
    <2>8. MutexInv'
      <3> SUFFICES ASSUME NEW u \in Thread
                   PROVE  /\ writer'[u].at \in {"open", "write"} => log_mutex' = u
                          /\ writer'[u].at = "write" => writer'[u].from = hpd_log'.pos
        BY DEF MutexInv
      <3>1. CASE u = t
        BY <1>1, <1>3, <2>4, <2>6, <3>1
      <3>2. CASE u # t
        BY <2>6, <2>7, <3>2
      <3> QED
        BY <3>1, <3>2
    <2> QED
      BY <2>3, <2>8 DEF ContInv
  <1> QED
    BY <1>2, <1>3 DEF LogOpens

\* The message is written where the text ends.
LEMMA ContWrites ==
  ASSUME LogInv, ContInv, NEW t \in Thread, LogWrites(t)
  PROVE  ContInv'
  <1> DEFINE at == writer[t].from
             msg == writer[t].msg
             n == size[msg] + 1
             text == TextOf(size, tail)
  <1>1. /\ LogTypeOK /\ writer[t] \in WriterRecord /\ hpd_log \in LogRecord
        /\ writer[t].at = "write" /\ hpd_log.memory # "null"
        /\ log_file \in Seq(0 .. MaxMessages) /\ Len(size) <= MaxMessages
        /\ log_mutex = t /\ at = hpd_log.pos
    BY LogTypeIs DEF LogInv, RoomInv, LogWrites, ContInv, MutexInv
  <1>2. msg \in 1 .. Len(size) /\ size \in Seq(Nat) /\ tail \in Seq(1 .. Len(size))
    BY <1>1, SizesAre DEF LogInv, RoomInv, ContInv
  <1>3. size[msg] \in Nat /\ n \in Nat /\ n > 0 /\ msg \in Nat
    BY <1>2, SequenceIs
  <1>4. /\ log_file' = Overwritten(at, n, msg)
        /\ hpd_log' = [hpd_log EXCEPT !.pos = at + n]
        /\ tail' = Append(tail, msg)
        /\ log_mutex' = "free" /\ Goes(t, "event") /\ size' = size
    BY DEF LogWrites
  <1>5. text \in Seq(Nat) /\ Len(text) \in Nat
    <2>1. text \in Seq(Nat)
      BY <1>2, TextStays
    <2> QED
      BY <2>1
  <1>6. at = Header + Len(text) /\ \A i \in 1 .. Len(text) : log_file[Header + i] = text[i]
    BY <1>1 DEF ContInv, CellsInv
  <1>7. at <= Len(log_file) /\ Len(log_file) \in Nat
    BY <1>1, SequenceIs DEF LogInv, FileInv
  <1>8. TextOf(size', tail') = text \o Cells(msg, n)
    BY <1>2, <1>4, TextGrows
  <1>9. tail' \in Seq(1 .. Len(size'))
    BY <1>2, <1>4
  <1>10. hpd_log'.pos = at + n
    BY <1>1, <1>4 DEF LogRecord
  <1>11. \A u \in Thread : writer'[u].at \notin {"open", "write"}
    <2>1. writer'[t].at = "event" /\ \A u \in Thread \ {t} : writer'[u] = writer[u]
      BY <1>1, <1>4, WriterGoes
    <2> QED
      BY <1>1, <2>1 DEF ContInv, MutexInv
  <1>12. ASSUME NEW i \in 1 .. at + n
         PROVE  log_file'[i] = IF i > at THEN msg ELSE log_file[i]
    <2> DEFINE long == IF Len(log_file) > at + n THEN Len(log_file) ELSE at + n
    <2>1. at \in Nat
      BY <1>5, <1>6, Constants
    <2>2. i \in 1 .. long /\ i <= at + n
      BY <1>3, <1>7, <2>1
    <2>3. log_file' = [j \in 1 .. long |->
                         IF j > at /\ j <= at + n THEN msg ELSE log_file[j]]
      BY <1>4 DEF Overwritten
    <2> HIDE DEF at, n, msg, long
    <2> QED
      BY <2>2, <2>3
  <1> HIDE DEF at, n, msg, text
  <1>13. /\ Len(text \o Cells(msg, n)) = Len(text) + n
         /\ \A i \in 1 .. Len(text) + n :
              (text \o Cells(msg, n))[i] = IF i <= Len(text) THEN text[i] ELSE msg
    <2>1. /\ Cells(msg, n) \in Seq(Nat) /\ Len(Cells(msg, n)) = n
          /\ \A j \in 1 .. n : Cells(msg, n)[j] = msg
      BY <1>3, CellsAre
    <2>2. /\ Len(text \o Cells(msg, n)) = Len(text) + n
          /\ \A i \in 1 .. Len(text) + n :
               (text \o Cells(msg, n))[i] =
                 IF i <= Len(text) THEN text[i] ELSE Cells(msg, n)[i - Len(text)]
      BY <1>5, <2>1, ConcatProperties
    <2>3. \A i \in 1 .. Len(text) + n : ~(i <= Len(text)) => i - Len(text) \in 1 .. n
      BY <1>3, <1>5
    <2> QED
      BY <2>1, <2>2, <2>3
  <1>14. ASSUME NEW i \in 1 .. Len(text) + n
         PROVE  log_file'[Header + i] = (text \o Cells(msg, n))[i]
    <2>1. /\ Header + i \in 1 .. at + n
          /\ Header + i > at <=> ~(i <= Len(text))
          /\ i <= Len(text) => i \in 1 .. Len(text)
      BY <1>3, <1>5, <1>6, Constants
    <2>2. log_file'[Header + i] =
            IF Header + i > at THEN msg ELSE log_file[Header + i]
      BY <1>12, <2>1
    <2>3. (text \o Cells(msg, n))[i] = IF i <= Len(text) THEN text[i] ELSE msg
      BY <1>13
    <2>4. i <= Len(text) => log_file[Header + i] = text[i]
      BY <1>6, <2>1
    <2> QED
      BY <2>1, <2>2, <2>3, <2>4
  <1>15. CellsInv'
    <2>1. Len(TextOf(size', tail')) = Len(text) + n
            /\ hpd_log'.pos = Header + (Len(text) + n)
      BY <1>3, <1>5, <1>6, <1>8, <1>10, <1>13, Constants
    <2> QED
      BY <1>8, <1>14, <2>1 DEF CellsInv
  <1>16. MutexInv'
    BY <1>11 DEF MutexInv
  <1> QED
    BY <1>9, <1>15, <1>16 DEF ContInv

LEMMA ContStep == DaemonInv /\ ContInv /\ [DaemonNext]_daemonVars => ContInv'
  <1> SUFFICES ASSUME DaemonInv, ContInv, [DaemonNext]_daemonVars PROVE ContInv'
    OBVIOUS
  <1>1. LogInv /\ hpd_log \in LogRecord
    BY LogTypeIs DEF DaemonInv, LogInv
  <1>2. CASE UNCHANGED logVars
    BY <1>2, ContKept DEF logVars
  <1>3. CASE HPD_config_file_init
    BY <1>1, <1>2, <1>3, ContCreated DEF HPD_config_file_init, ConfigFails
  <1>4. CASE StartServer
    BY <1>4, ContKept DEF StartServer
  <1>5. CASE HPD_stop
    <2>1. CASE hpd_log' = hpd_log
      BY <1>5, <2>1, ContKept DEF HPD_stop, HPD_config_deinit, destroy_hpd_log
    <2>2. CASE hpd_log' = [hpd_log EXCEPT !.memory = "freed"]
                 /\ hpd_log.memory # "null"
      <3>1. hpd_log'.pos = hpd_log.pos
        BY <1>1, <2>2 DEF LogRecord
      <3> QED
        BY <1>5, <2>2, <3>1, ContKept
           DEF HPD_stop, HPD_config_deinit, destroy_hpd_log
    <2> QED
      BY <1>5, <2>1, <2>2 DEF HPD_stop, HPD_config_deinit, destroy_hpd_log
  <1>6. ASSUME NEW t \in Thread, Requests(t) \/ Logs(t) PROVE ContInv'
    <2>1. CASE UsesFreed(t)
      BY <2>1, ContKept DEF UsesFreed
    <2>2. LogCalled(t) \/ UsesFreed(t) \/ Log(t)
      BY <1>6 DEF Requests, Logs
    <2> QED
      BY <1>1, <2>1, <2>2, ContCalled, ContSends, ContLocks, ContOpens, ContWrites
         DEF Log
  <1>7. CASE \/ HPD_start \/ parse_option_va \/ StopServer
             \/ \E port \in Ports : HPD_config_set_port(port)
             \/ HPD_config_set_https \/ HPD_config_get
    BY <1>2, <1>7 DEF HPD_start, parse_option_va, StopServer,
       HPD_config_set_port, HPD_config_set_https, HPD_config_get
  <1>8. CASE UNCHANGED daemonVars
    BY <1>2, <1>8 DEF daemonVars
  <1> QED
    BY <1>3, <1>4, <1>5, <1>6, <1>7, <1>8 DEF DaemonNext

\* The cells are the text, as a sequence.
LEMMA ContGives == LogInv /\ ContInv => LogIsContiguous
  <1> SUFFICES ASSUME LogInv, ContInv, hpd_log.memory = "live"
               PROVE  SubSeq(log_file, hpd_log.initial_pos + 1, hpd_log.pos) = Text(tail)
    BY DEF LogIsContiguous
  <1> DEFINE text == TextOf(size, tail)
             from == Header + 1
             to == Header + Len(text)
             part == SubSeq(log_file, from, to)
  <1>1. /\ hpd_log.initial_pos = Header
        /\ hpd_log.pos = Header + Len(text)
        /\ \A i \in 1 .. Len(text) : log_file[Header + i] = text[i]
        /\ size \in Seq(Nat) /\ tail \in Seq(1 .. Len(size))
    BY SizesAre DEF LogInv, RoomInv, ContInv, CellsInv
  <1>2. text \in Seq(Nat) /\ Len(text) \in Nat
    <2>1. text \in Seq(Nat)
      BY <1>1, TextStays
    <2> QED
      BY <2>1
  <1> HIDE DEF text
  <1>3. \A i \in 1 .. Len(text) : text[i] \in Nat /\ Header + i \in Header + 1 .. Header + Len(text)
    BY <1>2, Constants
  <1>4. from \in Int /\ to \in Int /\ \A i \in from .. to : log_file[i] \in Nat
    <2>1. Header + 1 \in Int /\ Header + Len(text) \in Int
      BY <1>2, Constants
    <2>2. ASSUME NEW i \in Header + 1 .. Header + Len(text) PROVE log_file[i] \in Nat
      <3>1. i - Header \in 1 .. Len(text) /\ Header + (i - Header) = i
        BY <1>2, Constants
      <3>2. log_file[Header + (i - Header)] = text[i - Header]
        BY <1>1, <3>1
      <3> QED
        BY <1>3, <3>1, <3>2
    <2> QED
      BY <2>1, <2>2
  <1>9. to - from + 1 = Len(text) /\ (from <= to <=> Len(text) > 0)
    BY <1>2, Constants
  <1> HIDE DEF from, to
  <1>5. /\ part \in Seq(Nat)
        /\ Len(part) = IF from <= to THEN to - from + 1 ELSE 0
        /\ \A i \in 1 .. to - from + 1 : part[i] = log_file[from + i - 1]
    BY <1>4, SubSeqProperties
  <1> HIDE DEF part
  <1>6. Len(part) = Len(text)
    BY <1>2, <1>5, <1>9
  <1>7. \A i \in 1 .. Len(text) : part[i] = text[i]
    <2> SUFFICES ASSUME NEW i \in 1 .. Len(text) PROVE part[i] = text[i]
      OBVIOUS
    <2>1. i \in 1 .. to - from + 1 /\ from + i - 1 = Header + i
      BY <1>2, <1>9, Constants DEF from
    <2> QED
      BY <1>1, <1>5, <2>1
  <1>8. part = text
    BY <1>2, <1>5, <1>6, <1>7, SeqEqual
  <1> QED
    BY <1>1, <1>8, TextIs DEF part, from, to, text

-----------------------------------------------------------------------------
(* The theorems.                                                           *)

(***************************************************************************)
(* Memory is used after it was freed, or freed twice, only once HPD_stop   *)
(* has taken a daemon with a configuration file apart (homeport.c:191-195, *)
(* hpd_configure.c:101-121); what HPD_start frees on its way to an error   *)
(* is not used again.  All positions of the log stay inside its file.      *)
(***************************************************************************)
THEOREM DaemonCorrect == DaemonSpec => []DaemonIsSound
  <1>1. DaemonInv => DaemonIsSound
    BY TypeIs DEF DaemonInv, LogInv, DaemonIsSound
  <1> QED
    BY <1>1, InitDaemon, DaemonStep, PTL DEF DaemonSpec

(***************************************************************************)
(* With a limit that leaves room for the header and any one message the    *)
(* log outgrows it by the newline of its last message at most, whatever    *)
(* the threads that log do between the choice of a position and the write  *)
(* (hpd_log.c:175-213).                                                    *)
(***************************************************************************)
THEOREM LogStaysSmall == DaemonSpec => []LogWithinLimit
  <1>1. DaemonInv => LogWithinLimit
    BY DEF DaemonInv, LogInv, RoomInv, Fits, LogWithinLimit
  <1> QED
    BY <1>1, InitDaemon, DaemonStep, PTL DEF DaemonSpec

(***************************************************************************)
(* Whatever the threads that log do, and after a restart that writes over  *)
(* an older file, the text between the header and the position is that of  *)
(* the messages since, whole and in the order in which their threads got   *)
(* the mutex (hpd_log.c:175-240): the thread between its choice of a       *)
(* position and its write has the mutex, so nobody moves the position.     *)
(***************************************************************************)
THEOREM LogIsWhole == DaemonSpec => []LogIsContiguous
  <1>1. DaemonInit => DaemonInv /\ ContInv
    BY InitDaemon, InitCont
  <1>2. DaemonInv /\ ContInv /\ [DaemonNext]_daemonVars => (DaemonInv /\ ContInv)'
    BY DaemonStep, ContStep
  <1>3. DaemonInv /\ ContInv => LogIsContiguous
    BY ContGives DEF DaemonInv
  <1> QED
    BY <1>1, <1>2, <1>3, PTL DEF DaemonSpec
=============================================================================
