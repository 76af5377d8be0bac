------------------------------ MODULE IpStream ------------------------------
(***************************************************************************)
(* The stream to the ZigBee gateway (DZigbee-bridge/ipstreamtasks.c).  The *)
(* receiver and the sender task both call use_ipstream_server, which opens *)
(* the listening socket, accepts a connection and reads or writes it; its  *)
(* static variables are shared by the two threads without a lock.          *)
(***************************************************************************)
EXTENDS Naturals

CONSTANTS Conn,     \* connections of the gateway, also their descriptors
          NoConn    \* the descriptor -1

ASSUME ConnAssumption == NoConn \notin Conn

Thread == {"recv", "send"}

VARIABLES
  ss,           \* the listening socket: "none", "open", or "error" for -1
  listening,    \* some socket of the program listens on the port
  serverready, zconnected, client,
  at,           \* where each thread is in use_ipstream_server
  fd,           \* the descriptor each thread reads or writes
  conn,         \* connections, as the operating system sees them
  up,           \* the program runs
  refused,      \* history: a socket call failed though nothing of this
                \* program was in its way
  overlap,      \* history: both threads were between a test and its effect
  cut           \* history: a connection was closed that its peer still used
streamVars == <<ss, listening, serverready, zconnected, client, at, fd, conn,
                up, refused, overlap, cut>>

StreamTypeOK ==
  /\ ss \in {"none", "open", "error"}
  /\ {listening, serverready, zconnected, up, refused, overlap, cut}
       \subseteq BOOLEAN
  /\ client \in Conn \cup {NoConn}
  /\ at \in [Thread -> {"idle", "init", "ready", "connected", "found", "accept",
                        "waiting", "set", "accepted", "first", "io", "closing",
                        "ended", "undefined"}]
  /\ fd \in [Thread -> Conn \cup {NoConn}]
  /\ conn \in [Conn -> {"none", "queued", "open", "half"}]

StreamInit ==
  /\ ss = "none" /\ client = NoConn
  /\ listening = FALSE /\ serverready = FALSE /\ zconnected = FALSE
  /\ refused = FALSE /\ overlap = FALSE /\ cut = FALSE
  /\ at = [t \in Thread |-> "idle"]
  /\ fd = [t \in Thread |-> NoConn]
  /\ conn = [c \in Conn |-> "none"]
  /\ up = TRUE

(* What a thread read of the static variables is stale until it is here no *)
(* more: the receiver's closing counts, for it reads client again.         *)
Exposed == {"init", "ready", "accept", "waiting", "set", "closing"}

Goto(t, where) ==
  /\ up
  /\ at' = [at EXCEPT ![t] = where]
  /\ overlap' = (overlap \/ \A u \in Thread : at'[u] \in Exposed)

(***************************************************************************)
(* use_ipstream_server, access by access.  server_init fails when socket,  *)
(* bind or listen does, which may happen at any time and does happen while *)
(* another socket of the program listens on the port; its result is kept   *)
(* in ss in either case.  A failed call ends the receiver task: nothing    *)
(* clears sslegacymode, since all commands start with 0xff (zigbee.c:406). *)
(***************************************************************************)
Call(t) ==
  /\ at[t] = "idle"
  /\ Goto(t, IF serverready THEN "connected" ELSE "init")
  /\ UNCHANGED <<ss, listening, serverready, zconnected, client, fd, conn,
                 up, refused, cut>>

server_init(t) ==
  /\ at[t] = "init" /\ ~listening
  /\ Goto(t, "ready")
  /\ listening' = TRUE /\ ss' = "open"
  /\ UNCHANGED <<serverready, zconnected, client, fd, conn, up, refused, cut>>

Failed(t) == IF t = "recv" THEN "ended" ELSE "idle"     \* returns -1

InitFails(t) ==
  /\ at[t] = "init"
  /\ Goto(t, Failed(t))
  /\ ss' = "error"
  /\ refused' = (refused \/ ~listening)
  /\ UNCHANGED <<listening, serverready, zconnected, client, fd, conn, up, cut>>

(* Mutant: the flag is never set, and the next call opens a second socket. *)
SetReadyNever(t) ==
  /\ at[t] = "ready"
  /\ Goto(t, "connected")
  /\ UNCHANGED <<ss, listening, serverready, zconnected, client, fd, conn, up,
                 refused, cut>>

SetReady(t) ==
  /\ at[t] = "ready"
  /\ Goto(t, "connected")
  /\ serverready' = TRUE
  /\ UNCHANGED <<ss, listening, zconnected, client, fd, conn, up, refused, cut>>

(* Mutant: a thread waits for a connection of its own.                     *)
TestConnectedNot(t) ==
  /\ at[t] = "connected"
  /\ Goto(t, "accept")
  /\ UNCHANGED <<ss, listening, serverready, zconnected, client, fd, conn, up,
                 refused, cut>>

TestConnected(t) ==
  /\ at[t] = "connected"
  /\ Goto(t, IF zconnected THEN "found" ELSE "accept")
  /\ UNCHANGED <<ss, listening, serverready, zconnected, client, fd, conn, up,
                 refused, cut>>

(* The argument of the call that writes or reads the stream.               *)
ReadClient(t) ==
  /\ \/ at[t] = "found" /\ Goto(t, "io")
     \/ at[t] = "accepted" /\ Goto(t, "first")
  /\ fd' = [fd EXCEPT ![t] = client]
  /\ UNCHANGED <<ss, listening, serverready, zconnected, client, conn, up,
                 refused, cut>>

(* The result of select is not used: accept waits for a connection, on the *)
(* socket that ss was when it was called.                                  *)
CallAccept(t) ==
  /\ at[t] = "accept" /\ ss = "open"
  /\ Goto(t, "waiting")
  /\ UNCHANGED <<ss, listening, serverready, zconnected, client, fd, conn, up,
                 refused, cut>>

Accept(t) ==
  /\ at[t] = "waiting"
  /\ \E c \in Conn :
       /\ conn[c] = "queued"
       /\ conn' = [conn EXCEPT ![c] = "open"]
       /\ client' = c
  /\ Goto(t, "set")
  /\ UNCHANGED <<ss, listening, serverready, zconnected, fd, up, refused, cut>>

(* accept on the descriptor -1.                                            *)
AcceptsNothing(t) ==
  /\ at[t] = "accept" /\ ss = "error"
  /\ Goto(t, Failed(t))
  /\ client' = NoConn
  /\ UNCHANGED <<ss, listening, serverready, zconnected, fd, conn, up, refused,
                 cut>>

(* accept fails for a reason of the operating system.                      *)
AcceptFails(t) ==
  /\ at[t] = "waiting"
  /\ Goto(t, Failed(t))
  /\ client' = NoConn
  /\ refused' = TRUE
  /\ UNCHANGED <<ss, listening, serverready, zconnected, fd, conn, up, cut>>

SetConnected(t) ==
  /\ at[t] = "set"
  /\ Goto(t, "accepted")
  /\ zconnected' = TRUE
  /\ UNCHANGED <<ss, listening, serverready, client, fd, conn, up, refused,
                 cut>>

Enter(t) == \/ server_init(t) \/ InitFails(t) \/ SetReady(t)
            \/ TestConnected(t) \/ ReadClient(t) \/ CallAccept(t)
            \/ Accept(t) \/ AcceptsNothing(t) \/ SetConnected(t)

(***************************************************************************)
(* The sender writes; a connection whose peer is gone may raise SIGPIPE,   *)
(* which ends the program.                                                 *)
(***************************************************************************)
send_stream_data ==
  /\ at["send"] \in {"first", "io"}
  /\ Goto("send", "idle")
  /\ \/ up' = TRUE
     \/ up' = FALSE /\ fd["send"] \in Conn /\ conn[fd["send"]] = "half"
  /\ UNCHANGED <<ss, listening, serverready, zconnected, client, fd, conn,
                 refused, cut>>

(* The receiver reads until the stream pauses.                             *)
receive_stream_data ==
  /\ at["recv"] \in {"first", "io"}
  /\ fd["recv"] \in Conn /\ conn[fd["recv"]] = "open"
  /\ Goto("recv", "idle")
  /\ UNCHANGED <<ss, listening, serverready, zconnected, client, fd, conn, up,
                 refused, cut>>

(* Descriptor -1 given to FD_SET.                                          *)
ReadsNothing ==
  /\ at["recv"] \in {"first", "io"} /\ fd["recv"] = NoConn
  /\ Goto("recv", "undefined")
  /\ UNCHANGED <<ss, listening, serverready, zconnected, client, fd, conn, up,
                 refused, cut>>

(* The end of the stream: only a call that found it connected closes it.   *)
EndSeen == fd["recv"] \in Conn /\ conn[fd["recv"]] # "open"

FirstEnd ==
  /\ at["recv"] = "first" /\ EndSeen
  /\ Goto("recv", "idle")
  /\ UNCHANGED <<ss, listening, serverready, zconnected, client, fd, conn, up,
                 refused, cut>>

Disconnect ==
  /\ at["recv"] = "io" /\ EndSeen
  /\ Goto("recv", "closing")
  /\ zconnected' = FALSE
  /\ UNCHANGED <<ss, listening, serverready, client, fd, conn, up, refused,
                 cut>>

(* shutdown and close of what client is by now.                            *)
Close ==
  /\ at["recv"] = "closing"
  /\ Goto("recv", "idle")
  /\ conn' = IF client \in Conn /\ conn[client] # "queued"
             THEN [conn EXCEPT ![client] = "none"] ELSE conn
  /\ cut' = (cut \/ (client \in Conn /\ conn[client] = "open"))
  /\ UNCHANGED <<ss, listening, serverready, zconnected, client, fd, up,
                 refused>>

(* The gateway connects and closes.                                        *)
PeerConnects ==
  /\ up /\ listening
  /\ \E c \in Conn : conn[c] = "none" /\ conn' = [conn EXCEPT ![c] = "queued"]
  /\ UNCHANGED <<ss, listening, serverready, zconnected, client, at, fd, up,
                 overlap, refused, cut>>

(* A gateway that has no connection opens one.                             *)
Reconnects ==
  PeerConnects /\ \A c \in Conn : conn[c] \in {"none", "half"}

PeerCloses ==
  /\ up
  /\ \E c \in Conn : conn[c] = "open" /\ conn' = [conn EXCEPT ![c] = "half"]
  /\ UNCHANGED <<ss, listening, serverready, zconnected, client, at, fd, up,
                 overlap, refused, cut>>

(***************************************************************************)
(* The two threads are safe with each other as long as they are never both *)
(* between a test and its effect: then only a socket call that failed by   *)
(* itself ends the receiver task (ipstreamtasks.c:62), no undefined        *)
(* descriptor is read, and only dead connections are closed.  Threads that *)
(* overlap do all of that to each other.                                   *)
(***************************************************************************)
OneByOneIsSafe ==
  ~overlap => /\ at["recv"] = "ended" => refused
              /\ at["recv"] # "undefined"
              /\ ~cut

(* The sender is done with each command, written or given up because a     *)
(* socket call failed, unless the threads overlapped (ipstreamtasks.c:     *)
(* 155-173: a thread that waits in accept is not told of the other's       *)
(* connection).                                                            *)
SenderReturns == (at["send"] # "idle") ~> (at["send"] = "idle" \/ overlap \/ ~up)
=============================================================================
