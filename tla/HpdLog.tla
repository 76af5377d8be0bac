------------------------------- MODULE HpdLog -------------------------------
(***************************************************************************)
(* The log of the HomePort daemon (hpd_log.c): a text file that starts     *)
(* again behind its header when the next message would exceed its size.    *)
(* The threads of the web servers write to it under its mutex.  A file is  *)
(* a sequence of cells, each of which holds the message it belongs to;     *)
(* the text of messages is left out.                                       *)
(***************************************************************************)
EXTENDS Naturals, Sequences

CONSTANTS
  Thread,       \* threads that write
  Header,       \* the size of the header
  Sizes,        \* the sizes of messages
  MaxLogSizes,  \* the values of max_log_size that a configuration may have
  MaxMessages   \* bound on the messages of a behaviour

ASSUME LogAssumption ==
  /\ "free" \notin Thread
  /\ Header \in Nat \ {0} /\ MaxMessages \in Nat
  /\ Sizes \subseteq Nat /\ Sizes # {} /\ MaxLogSizes \subseteq Nat

VARIABLES
  hpd_log,      \* the structure: memory, level, size and positions
  log_mutex,    \* the thread that holds its mutex, or "free"
  log_file,     \* the cells of the file, <<>> when it does not exist
  writer,       \* where each thread is, its message, the position of its stream
  size,         \* history: the sizes of the messages so far
  tail,         \* history: the messages since the log last started again
  fault         \* the use of freed memory that ended the daemon, or "none"
logVars == <<hpd_log, log_mutex, log_file, writer, size, tail, fault>>

Levels == 0 .. 2        \* HPD_LOG_NO_LOG, HPD_LOG_ONLY_REQUESTS, HPD_LOG_ALL

NoLog == [memory |-> "null", level |-> 0, max |-> 0, initial_pos |-> 0,
          pos |-> 0]

Quiet == [at |-> "idle", msg |-> 0, from |-> 0]

LogInit ==
  /\ hpd_log = NoLog
  /\ log_mutex = "free"
  /\ log_file \in {<<>>, [i \in 1 .. Header + 2 |-> 0]}
  /\ writer = [t \in Thread |-> Quiet]
  /\ size = <<>>
  /\ tail = <<>>
  /\ fault = "none"

\* The file is made with its header, or the position is set behind the header
\* of the file that is there: a restart writes over the messages of before.
create_hpd_log(max, level) ==
  /\ log_file' = IF log_file = <<>> THEN [i \in 1 .. Header |-> 0] ELSE log_file
  /\ hpd_log' = [memory |-> "live", level |-> level, max |-> max,
                 initial_pos |-> Header, pos |-> Header]
  /\ tail' = <<>>

\* A log that is not NULL is taken for one that exists, freed or not.
init_hpd_log(max, level) ==
  /\ IF hpd_log.memory # "null" THEN UNCHANGED <<hpd_log, log_file, tail>>
     ELSE create_hpd_log(max, level)
  /\ UNCHANGED <<log_mutex, writer, size, fault>>

\* The pointer keeps its value.
destroy_hpd_log ==
  /\ IF hpd_log.memory = "freed" THEN fault' = "log freed twice"
     ELSE fault' = fault
  /\ hpd_log' = IF hpd_log.memory = "null" THEN hpd_log
                ELSE [hpd_log EXCEPT !.memory = "freed"]
  /\ UNCHANGED <<log_mutex, log_file, writer, size, tail>>

(***************************************************************************)
(* Log, in a thread that answers a request.                                *)
(***************************************************************************)
Goes(t, at) == writer' = [writer EXCEPT ![t].at = at]

UsesFreed(t) ==
  /\ hpd_log.memory = "freed"
  /\ fault' = "log used"
  /\ UNCHANGED <<hpd_log, log_mutex, log_file, writer, size, tail>>

\* Without a log the call returns HPD_E_LOG_NOT_INIT.
LogCalled(t) ==
  /\ writer[t].at = "idle"
  /\ Len(size) < MaxMessages
  /\ hpd_log.memory # "null"
  /\ \E n \in Sizes : size' = Append(size, n)
  /\ writer' = [writer EXCEPT ![t].at = "lock", ![t].msg = Len(size) + 1]
  /\ UNCHANGED <<hpd_log, log_mutex, log_file, tail, fault>>

\* Mutant: nobody locks.
LogLocksNot(t) ==
  /\ writer[t].at = "lock"
  /\ Goes(t, IF hpd_log.level = 0 THEN "event" ELSE "open")
  /\ UNCHANGED <<hpd_log, log_mutex, log_file, size, tail, fault>>

LogLocks(t) ==
  /\ writer[t].at = "lock"
  /\ log_mutex = "free"
  /\ IF hpd_log.level = 0
     THEN writer' = [writer EXCEPT ![t] = Quiet] /\ UNCHANGED log_mutex
     ELSE Goes(t, "open") /\ log_mutex' = t
  /\ UNCHANGED <<hpd_log, log_file, size, tail, fault>>

\* Mutant: the length of the message is forgotten.
set_position_for_new_messageShort(n) ==
  IF hpd_log.pos > hpd_log.max
  THEN hpd_log' = [hpd_log EXCEPT !.pos = hpd_log.initial_pos] /\ tail' = <<>>
  ELSE UNCHANGED <<hpd_log, tail>>

\* The newline that follows the message is not counted.
set_position_for_new_message(n) ==
  IF hpd_log.pos + n > hpd_log.max
  THEN hpd_log' = [hpd_log EXCEPT !.pos = hpd_log.initial_pos] /\ tail' = <<>>
  ELSE UNCHANGED <<hpd_log, tail>>

\* fopen, which may fail (HPD_E_FAILED_TO_OPEN_FILE), and fsetpos.
LogOpens(t) ==
  /\ writer[t].at = "open"
  /\ \/ /\ set_position_for_new_message(size[writer[t].msg])
        /\ writer' = [writer EXCEPT ![t].at = "write", ![t].from = hpd_log'.pos]
        /\ UNCHANGED log_mutex
     \/ /\ log_mutex' = "free"
        /\ writer' = [writer EXCEPT ![t] = Quiet]
        /\ UNCHANGED <<hpd_log, tail>>
  /\ UNCHANGED <<log_file, size, fault>>

\* The message and its newline replace what the file holds there.
Overwritten(at, n, msg) ==
  [i \in 1 .. (IF Len(log_file) > at + n THEN Len(log_file) ELSE at + n) |->
     IF i > at /\ i <= at + n THEN msg ELSE log_file[i]]

LogWrites(t) ==
  /\ writer[t].at = "write"
  /\ LET at == writer[t].from
         n == size[writer[t].msg] + 1
     IN  /\ log_file' = Overwritten(at, n, writer[t].msg)
         /\ hpd_log' = [hpd_log EXCEPT !.pos = at + n]
  /\ tail' = Append(tail, writer[t].msg)
  /\ log_mutex' = "free"
  /\ Goes(t, "event")
  /\ UNCHANGED <<size, fault>>

\* The event is sent without the mutex, and without a look at send_events.
LogSendsEvent(t) ==
  /\ writer[t].at = "event"
  /\ writer' = [writer EXCEPT ![t] = Quiet]
  /\ UNCHANGED <<hpd_log, log_mutex, log_file, size, tail, fault>>

\* The steps after the call use the structure, which is still there or not.
Log(t) ==
  /\ writer[t].at # "idle"
  /\ \/ writer[t].at = "event" /\ LogSendsEvent(t)
     \/ writer[t].at # "event" /\ UsesFreed(t)
     \/ /\ hpd_log.memory = "live"
        /\ LogLocks(t) \/ LogOpens(t) \/ LogWrites(t)

LogTypeOK ==
  /\ hpd_log \in [memory : {"null", "live", "freed"}, level : Levels,
                  max : Nat, initial_pos : Nat, pos : Nat]
  /\ log_mutex \in Thread \cup {"free"}
  /\ log_file \in Seq(0 .. MaxMessages)
  /\ writer \in [Thread -> [at : {"idle", "lock", "open", "write", "event"},
                            msg : 0 .. MaxMessages, from : Nat]]
  /\ size \in Seq(Sizes)
  /\ tail \in Seq(1 .. MaxMessages)
  /\ fault \in {"none", "log used", "log freed twice", "daemon used",
                "cfg freed twice"}
=============================================================================
