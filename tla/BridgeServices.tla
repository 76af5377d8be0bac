--------------------------- MODULE BridgeServices ---------------------------
(***************************************************************************)
(* The services a HomePort application offers for the ZigBee bridge        *)
(* (examples/heating_example.c with ihaplite/tcpclient.c and udpserver.c): *)
(* service s stands for TCP and UDP port 10000 + s of the bridge.  A       *)
(* request is handled by a thread of the web server that walks the list of *)
(* services, each behind its mutex (hpd_services.c matching_service), and  *)
(* keeps the mutex of its own service until its function returns.          *)
(***************************************************************************)
EXTENDS Naturals, FiniteSets

CONSTANTS
  NServices,    \* services, in the order of the list
  NPorts,       \* ports the bridge listens on, besides 10000
  Dev,          \* devices
  Lamp,         \* those whose description ODSDL_parser knows
  Client,       \* clients, each with one request at a time
  Example,      \* the client that is the example program
  None,         \* no service, client or device
  MaxSockets    \* descriptors the application may open for UDP

(* What a client gets: a value, or "none" before it has an answer.         *)
Answers == {"none", "failed", "xml", "lamp", "other"}

ASSUME BridgeServicesAssumption ==
  /\ NServices \in Nat \ {0} /\ NPorts \in Nat /\ MaxSockets \in Nat
  /\ Lamp \subseteq Dev /\ Example \in Client
  /\ None \notin Client /\ None \notin Dev /\ None \notin Answers

VARIABLES
  up,           \* main: "starting", "serving", or "failed"
  listed,       \* services registered so far
  device,       \* the device behind each port
  req,          \* the request of each client
  owner,        \* the client whose request holds each service's mutex
  sockets,      \* descriptors opened by UDP_init and never closed
  named,        \* history: the devices whose network address the entry of
                \* each port has held
  switched      \* history: the device the example switched last, if the
                \* entry of its port has held no address but its own
appVars == <<up, listed>>
serviceVars == <<appVars, device, req, owner, sockets, named, switched>>

Svc == 1 .. NServices
Port == {s \in Svc : s <= NPorts}

Stages == {"idle", "sent", "init", "listening", "told", "misled", "deaf",
           "put", "asking", "asked", "stuck", "sleeping", "done"}

Requests == [st: Stages, svc: Svc \cup {None},
             what: {"none", "xml", "get", "desc", "switch"},
             ans: Answers]

NoRequest == [st |-> "idle", svc |-> None, what |-> "none", ans |-> "none"]

ServicesTypeOK ==
  /\ up \in {"starting", "serving", "failed"}
  /\ listed \in 0 .. NServices
  /\ device \in [Port -> Dev]
  /\ req \in [Client -> Requests]
  /\ owner \in [Svc -> Client \cup {None}]
  /\ sockets \in 0 .. MaxSockets
  /\ named \in [Port -> SUBSET Dev]
  /\ switched \in Dev \cup {None}

ServicesInit ==
  /\ up = "starting" /\ listed = 0
  /\ device \in [Port -> Dev]
  /\ req = [c \in Client |-> NoRequest]
  /\ owner = [s \in Svc |-> None]
  /\ sockets \in 0 .. MaxSockets        \* left by earlier requests
  /\ named \in [Port -> SUBSET Dev]      \* and addresses by earlier devices
  /\ switched = None

(* main asks the bridge for its devices before it starts the daemon; with  *)
(* any other answer than a list it ends.                                   *)
StartsUp ==
  /\ up = "starting" /\ up' \in {"serving", "failed"}
  /\ UNCHANGED <<listed, device, req, owner, sockets, named, switched>>

(* main creates the services and registers one after the other, while the  *)
(* daemon serves the ones before; a second registration of the same one    *)
(* fails unseen.                                                           *)
HPD_register_service ==
  /\ up = "serving" /\ listed < NServices
  /\ listed' = listed + 1
  /\ UNCHANGED <<up, device, req, owner, sockets, named, switched>>

(***************************************************************************)
(* What the bridge does by itself: a port gets another device, by an       *)
(* update of the network list together with its network address, by an     *)
(* inclusion without it, in an entry that keeps the old one; a device that *)
(* announces itself, or that is given an address another one had, makes    *)
(* the entry's address its own.                                            *)
(***************************************************************************)
Renumbers ==
  /\ \E s \in Port, d \in Dev, more \in SUBSET Dev :
       /\ device' = [device EXCEPT ![s] = d]
       /\ named' = [named EXCEPT ![s] = @ \cup more]
  /\ UNCHANGED <<appVars, req, owner, sockets, switched>>

-----------------------------------------------------------------------------
Listed(s) == s \in Svc /\ s <= listed

(* A client's request; without a daemon or a page it fails at once.        *)
Request(c, s, what) ==
  /\ req[c].st = "idle"
  /\ req' = [req EXCEPT ![c] =
       [NoRequest EXCEPT !.what = what, !.svc = s,
                         !.st = IF Listed(s) THEN "sent" ELSE "done",
                         !.ans = IF Listed(s) THEN "none" ELSE "failed"]]
  /\ UNCHANGED <<appVars, device, owner, sockets, named, switched>>

(* The client has read the answer.                                         *)
Reply(c) == req[c].st = "done"
Forget(c) ==
  /\ req' = [req EXCEPT ![c] = NoRequest]
  /\ UNCHANGED <<appVars, device, owner, sockets, named, switched>>

At(c, stage) == req[c].st = stage

Move(c, stage) == req' = [req EXCEPT ![c].st = stage]

FreeUpTo(s) == \A t \in 1 .. s : owner[t] = None

matching_service(c) ==
  /\ At(c, "sent") /\ FreeUpTo(req[c].svc)
  /\ IF req[c].what = "xml"
     THEN /\ req' = [req EXCEPT ![c].st = "done", ![c].ans = "xml"]
          /\ UNCHANGED owner
     ELSE /\ owner' = [owner EXCEPT ![req[c].svc] = c]
          /\ Move(c, IF req[c].what = "get" THEN "init" ELSE "put")
  /\ UNCHANGED <<appVars, device, sockets, named, switched>>

Unlock(c) == owner' = [owner EXCEPT ![req[c].svc] = None]

-----------------------------------------------------------------------------
(***************************************************************************)
(* get_bridge: EventListen_local waits for a report the bridge broadcasts. *)
(* UDP_init binds a port whose number it never sets and one for the        *)
(* service; when it gives up, the select that follows has no descriptor    *)
(* and no timeout.  No descriptor is ever closed.                          *)
(***************************************************************************)
UDP_init(c) ==
  /\ At(c, "init")
  /\ \/ sockets + 2 <= MaxSockets /\ sockets' = sockets + 2
        /\ Move(c, "listening")
     \/ sockets + 1 <= MaxSockets /\ sockets' = sockets + 1 /\ Move(c, "deaf")
     \/ sockets = MaxSockets /\ UNCHANGED sockets /\ Move(c, "deaf")
  /\ UNCHANGED <<appVars, device, owner, named, switched>>

(* A report of the device behind the port, or a datagram of somebody else, *)
(* reaches whoever listens on it.                                          *)
UDP_broadcast(c) ==
  /\ At(c, "listening")
  /\ Move(c, "told") \/ Move(c, "misled")
  /\ UNCHANGED <<appVars, device, owner, sockets, named, switched>>

(* What get_ip_UDP_listen has received comes from the bridge's address, or *)
(* the wait goes on.                                                       *)
get_ip_UDP_listen(c) ==
  /\ At(c, "misled") /\ Move(c, "listening")
  /\ UNCHANGED <<appVars, device, owner, sockets, named, switched>>

EventListen_local(c) ==
  /\ At(c, "told")
  /\ req' = [req EXCEPT ![c].st = "done", ![c].ans = "other"]
  /\ Unlock(c)
  /\ UNCHANGED <<appVars, device, sockets, named, switched>>

(***************************************************************************)
(* put_bridge: IP_send_String connects, writes, and reads until the bridge *)
(* closes the connection; then the thread sleeps for three seconds.        *)
(***************************************************************************)
net_connect(c) ==
  /\ At(c, "put")
  /\ \/ req[c].svc \in Port /\ Move(c, "asking")
     \/ req' = [req EXCEPT ![c].st = "sleeping", ![c].ans = "failed"]
  /\ UNCHANGED <<appVars, device, owner, sockets, named, switched>>

BridgeTakes(c) ==
  /\ At(c, "asking") /\ Move(c, "asked")
  /\ LET s == req[c].svc
     IN switched' = IF c = Example /\ req[c].what = "switch"
                    THEN IF named[s] = {device[s]} THEN device[s] ELSE None
                    ELSE switched
  /\ UNCHANGED <<appVars, device, owner, sockets, named>>

(***************************************************************************)
(* The answer of the session, which takes the first report for its port: a *)
(* description, which is asked for and reported by network address and may *)
(* be a late one of an earlier session (vps2addr.c:89-102), an             *)
(* acknowledgement, or the text of a timeout.                              *)
(***************************************************************************)
IP_send_String(c) ==
  /\ At(c, "asked")
  /\ \E a \in {"other"} \cup
               (IF named[req[c].svc] \cap Lamp # {} THEN {"lamp"} ELSE {}) :
       req' = [req EXCEPT ![c].st = "sleeping", ![c].ans = a]
  /\ UNCHANGED <<appVars, device, owner, sockets, named, switched>>

(* The bus of the bridge lost the exchange: nobody closes the connection.  *)
BridgeForgets(c) ==
  /\ At(c, "asked") /\ Move(c, "stuck")
  /\ UNCHANGED <<appVars, device, owner, sockets, named, switched>>

put_bridge(c) ==
  /\ At(c, "sleeping") /\ Move(c, "done")
  /\ Unlock(c)
  /\ UNCHANGED <<appVars, device, sockets, named, switched>>

HandlerStep(c) ==
  \/ matching_service(c) \/ UDP_init(c)
  \/ get_ip_UDP_listen(c) \/ EventListen_local(c)
  \/ net_connect(c) \/ BridgeTakes(c) \/ IP_send_String(c)
  \/ BridgeForgets(c) \/ put_bridge(c)

(* A request that holds a service and is not sure to return.               *)
Holding(c) == req[c].st \in {"listening", "misled", "deaf", "stuck"}
=============================================================================
