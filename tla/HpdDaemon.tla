------------------------------ MODULE HpdDaemon ------------------------------
(***************************************************************************)
(* The life of the HomePort daemon as homeport.c and hpd_configure.c       *)
(* manage it: HPD_start allocates the configuration, fills it from a file  *)
(* or from options and starts the servers; HPD_stop takes it apart while   *)
(* the threads of the servers may still be answering.  The three global    *)
(* pointers hpd_daemon, cfg and hpd_log outlive what they point to.        *)
(***************************************************************************)
EXTENDS HpdLog, Integers

CONSTANTS
  Keys,         \* the keys of the configuration file, in the order of lookup
  MaxStarts,    \* bound on the starts of a behaviour
  Ports         \* port numbers that an application may set

ASSUME DaemonAssumption ==
  /\ Keys \in Seq(STRING)
  /\ MaxStarts \in Nat
  /\ Ports \subseteq Int

VARIABLES
  hpd_daemon,   \* the structure of the configuration
  cfg,          \* the parsed file
  app,          \* where the application's thread is, and its last result
  up,           \* the servers run
  starts,       \* calls of HPD_start so far
  fromFile      \* history: some start has used a configuration file
daemonVars == <<logVars, hpd_daemon, cfg, app, up, starts, fromFile>>

Memory == {"null", "live", "freed"}

NoDaemon == [memory |-> "null", http_port |-> 0, https |-> FALSE]

DaemonInit ==
  /\ LogInit
  /\ hpd_daemon = NoDaemon
  /\ cfg = "null"
  /\ app = [at |-> "idle", rc |-> "SUCCESS"]
  /\ up = FALSE
  /\ starts = 0
  /\ fromFile = FALSE

At(place) == fault = "none" /\ app.at = place

Go(place) == app' = [app EXCEPT !.at = place]

Return(rc) == app' = [at |-> IF rc = "SUCCESS" THEN "idle" ELSE "exit", rc |-> rc]

(***************************************************************************)
(* Starting.  An application that cannot start the daemon exits.           *)
(***************************************************************************)
\* A fresh structure; what the pointer held before is forgotten.
HPD_init_daemon ==
  hpd_daemon' = [memory |-> "live", http_port |-> 0, https |-> FALSE]

HPD_start ==
  /\ At("idle") /\ ~up
  /\ starts < MaxStarts
  /\ starts' = starts + 1
  /\ HPD_init_daemon
  /\ \/ Go("file") /\ fromFile' = TRUE
     \/ Go("options") /\ UNCHANGED fromFile
  /\ UNCHANGED <<logVars, cfg, up>>

\* Mutant: the result of reading the file is ignored.
ConfigFailsOn ==
  /\ hpd_daemon' = [hpd_daemon EXCEPT !.memory = "freed"]
  /\ cfg' = "freed"
  /\ Go("servers")
  /\ UNCHANGED logVars

\* The file cannot be read or lacks a key: both structures are freed.
ConfigFails ==
  /\ hpd_daemon' = [hpd_daemon EXCEPT !.memory = "freed"]
  /\ cfg' = "freed"
  /\ Return("CFG_FILE_ERROR")
  /\ UNCHANGED logVars

\* The values are looked up one after the other until one is missing.
HPD_config_file_init ==
  /\ At("file")
  /\ \E missing \in 0 .. Len(Keys) + 1 :
       IF missing <= Len(Keys) THEN ConfigFails
       ELSE /\ hpd_daemon' = [hpd_daemon EXCEPT !.http_port = 80,
                                                !.https = TRUE]
            /\ cfg' = "live"
            /\ \E max \in MaxLogSizes, level \in Levels :
                 init_hpd_log(max, level)
            /\ Go("servers")
  /\ UNCHANGED <<up, starts, fromFile>>

\* A bad option ends the parsing; the options of the log are looked at and
\* forgotten, so no log is made.  The structure stays allocated.
parse_option_va ==
  /\ At("options")
  /\ \/ Return("BAD_PARAMETER") /\ UNCHANGED hpd_daemon
     \/ \E http, https \in BOOLEAN :
          /\ hpd_daemon' = [hpd_daemon EXCEPT !.http_port = IF http THEN 80 ELSE 0,
                                              !.https = https]
          /\ IF https THEN Go("servers") ELSE Return("MISSING_OPTION")
  /\ UNCHANGED <<logVars, cfg, up, starts, fromFile>>

\* start_server reads the ports and paths from the structure.
StartServer ==
  /\ At("servers")
  /\ IF hpd_daemon.memory # "live"
     THEN /\ fault' = "daemon used"
          /\ UNCHANGED <<app, up>>
     ELSE /\ \/ up' = TRUE /\ Return("SUCCESS")
             \/ up' = FALSE /\ Return("ERROR")
          /\ UNCHANGED fault
  /\ UNCHANGED <<hpd_log, log_mutex, log_file, writer, size, tail, hpd_daemon,
                 cfg, starts, fromFile>>

(***************************************************************************)
(* Stopping: the configuration and the log go first, the servers last.     *)
(***************************************************************************)
\* cfg and hpd_log keep their values.
HPD_config_deinit ==
  /\ IF hpd_daemon.memory = "null"
     THEN UNCHANGED <<hpd_daemon, cfg>>
     ELSE hpd_daemon' = NoDaemon /\ cfg' = (IF cfg = "null" THEN cfg ELSE "freed")
  /\ IF hpd_log.memory # "freed" /\ cfg = "freed"
     THEN /\ fault' = "cfg freed twice"
          /\ UNCHANGED <<hpd_log, log_mutex, log_file, writer, size, tail>>
     ELSE destroy_hpd_log

HPD_stop ==
  /\ At("idle") /\ up
  /\ HPD_config_deinit
  /\ Go("stop")
  /\ UNCHANGED <<up, starts, fromFile>>

\* MHD_stop_daemon waits for the threads of the connections.
StopServer ==
  /\ At("stop")
  /\ \A t \in Thread : writer[t].at = "idle"
  /\ up' = FALSE
  /\ Return("SUCCESS")
  /\ UNCHANGED <<logVars, hpd_daemon, cfg, starts, fromFile>>

(***************************************************************************)
(* The functions that set and get a value, while the daemon runs or not.   *)
(***************************************************************************)
HPD_config_set_port(port) ==
  /\ At("idle")
  /\ IF port <= 0 \/ hpd_daemon.memory = "null"
     THEN UNCHANGED hpd_daemon
     ELSE hpd_daemon' = [hpd_daemon EXCEPT !.http_port = port]
  /\ app' = [app EXCEPT !.rc =
               CASE port <= 0 -> "BAD_PARAMETER"
                 [] port > 0 /\ hpd_daemon.memory = "null" -> "CFG_NOT_INIT"
                 [] OTHER -> "NO_HTTP"]
  /\ UNCHANGED <<logVars, cfg, up, starts, fromFile>>

\* The port and the paths of the secure server.
HPD_config_set_https ==
  /\ At("idle")
  /\ IF hpd_daemon.memory = "null"
     THEN app' = [app EXCEPT !.rc = "CFG_NOT_INIT"] /\ UNCHANGED hpd_daemon
     ELSE /\ hpd_daemon' = [hpd_daemon EXCEPT !.https = TRUE]
          /\ app' = [app EXCEPT !.rc = "SUCCESS"]
  /\ UNCHANGED <<logVars, cfg, up, starts, fromFile>>

HPD_config_get ==
  /\ At("idle")
  /\ app' = [app EXCEPT !.rc = IF hpd_daemon.memory = "null"
                               THEN "CFG_NOT_INIT" ELSE "SUCCESS"]
  /\ UNCHANGED <<logVars, hpd_daemon, cfg, up, starts, fromFile>>

(***************************************************************************)
(* A thread of a web server logs its request.                              *)
(***************************************************************************)
Requests(t) ==
  /\ fault = "none"
  /\ up
  /\ IF hpd_log.memory = "freed" THEN UsesFreed(t) ELSE LogCalled(t)
  /\ UNCHANGED <<hpd_daemon, cfg, app, up, starts, fromFile>>

Logs(t) ==
  /\ fault = "none"
  /\ Log(t)
  /\ UNCHANGED <<hpd_daemon, cfg, app, up, starts, fromFile>>

DaemonNext ==
  \/ HPD_start \/ HPD_config_file_init \/ parse_option_va \/ StartServer
  \/ HPD_stop \/ StopServer
  \/ \E port \in Ports : HPD_config_set_port(port)
  \/ HPD_config_set_https \/ HPD_config_get
  \/ \E t \in Thread : Requests(t) \/ Logs(t)

DaemonSpec == DaemonInit /\ [][DaemonNext]_daemonVars

TypeOK ==
  /\ LogTypeOK
  /\ hpd_daemon \in [memory : Memory, http_port : Nat, https : BOOLEAN]
  /\ cfg \in Memory
  /\ app \in [at : {"idle", "file", "options", "servers", "stop", "exit"},
             rc : {"SUCCESS", "ERROR", "BAD_PARAMETER", "MISSING_OPTION",
                   "CFG_FILE_ERROR", "CFG_NOT_INIT", "NO_HTTP"}]
  /\ up \in BOOLEAN
  /\ starts \in 0 .. MaxStarts
  /\ fromFile \in BOOLEAN

(***************************************************************************)
(* What must hold.                                                         *)
(***************************************************************************)
\* The first n of some sequences, one after the other.
Glued(parts, n) ==
  LET glued[i \in 0 .. n] == IF i = 0 THEN <<>> ELSE glued[i - 1] \o parts[i]
  IN  glued[n]

\* The text of some messages, each with its newline.
Parts(msgs) ==
  [i \in 1 .. Len(msgs) |-> [j \in 1 .. size[msgs[i]] + 1 |-> msgs[i]]]

Text(msgs) == Glued(Parts(msgs), Len(msgs))

\* Whatever the threads that log, a restart that writes over an older file, and
\* the change from the end of the file to its start do, the text between the
\* header and the position is that of the messages since, whole and in the
\* order in which their threads got the mutex.
LogIsContiguous ==
  hpd_log.memory = "live" =>
    SubSeq(log_file, hpd_log.initial_pos + 1, hpd_log.pos) = Text(tail)

\* A log whose limit leaves room for a header and a message outgrows it by the
\* newline of its last message at most.
LogWithinLimit ==
  hpd_log.memory = "live"
    /\ (\A n \in Sizes : Header + n <= hpd_log.max) =>
         hpd_log.pos <= hpd_log.max + 1

\* What HPD_start frees on its way to an error is not used again, and an
\* application that gives options instead of a file may start and stop the
\* daemon as often as it likes: memory is used after it was freed, or freed
\* twice, only once HPD_stop has taken a daemon with a file apart.
FaultNeedsStoppedFile ==
  fault # "none" => fromFile /\ (app.at = "stop" \/ starts > 1)

\* Log, configuration and daemon are what their last owner left.
DaemonIsSound == TypeOK /\ FaultNeedsStoppedFile
=============================================================================
