--------------------------- MODULE MCZigBeeBridge ---------------------------
(***************************************************************************)
(* An instance of the field side for TLC: two devices, two numbers, and    *)
(* two descriptors for the connections of the gateway.  What the bridge    *)
(* does depends little on how the threads share the stream, so the run is  *)
(* a union: the gateway connects and closes at any time and one message    *)
(* arrives, or an INCLUDE_REQ while a NETLIST_REQ is to be sent; or it     *)
(* stays connected (quiet), the messages and requests are as many as the   *)
(* bounds allow, and the table and the modes are those of a start or of a  *)
(* bridge that has included devices.                                       *)
(***************************************************************************)
EXTENDS ZigBeeBridge, TLC

CONSTANTS a, b, na, nb, c1, c2

VARIABLE quiet
mcvars == <<vars, quiet>>

MCNwkOf == (a :> na) @@ (b :> nb)

(* What the ports carry: every message of two bytes from a few, and long   *)
(* ones around half the range of a length.                                 *)
MCMessage ==
  UNION {[1 .. n -> {0, 9, 10, 15, 16, 171, 255}] : n \in 0 .. 2}
  \cup {[k \in 1 .. n |-> k] : n \in 126 .. 129}

(* The state after the receiver has accepted the first connection.         *)
Connected ==
  /\ ss = "open" /\ listening = TRUE /\ serverready = TRUE /\ up = TRUE
  /\ zconnected = TRUE /\ client = c1
  /\ at = [t \in Thread |-> "idle"]
  /\ fd = [t \in Thread |-> IF t = "recv" THEN c1 ELSE NoConn]
  /\ conn = (c1 :> "open") @@ (c2 :> "none")
  /\ refused = FALSE /\ overlap = FALSE /\ cut = FALSE

B == vps_add(Fresh, b)

MCInit ==
  /\ \/ /\ quiet = FALSE /\ StreamInit
        /\ addrs = Fresh
        /\ \/ /\ BridgeInit
              /\ radio = MaxRadio - 1 /\ asks = MaxAsks
              /\ mode = {} /\ toSender = {}
           \/ /\ radio = MaxRadio /\ asks = MaxAsks
              /\ mode = {"netupdate"} /\ toSender = {None}
              /\ overrun = FALSE /\ reports = {}
              /\ toZigBee = {Request(0, "INCLUDE_REQ")}
              /\ session = [v \in Ports |->
                             IF v = 0 THEN [Idle EXCEPT !.st = "asked"]
                             ELSE Idle]
     \/ /\ BridgeInit /\ quiet = TRUE /\ Connected /\ toSender = {}
        /\ \/ addrs = Fresh /\ mode = {}
           \/ addrs = B /\ mode \in {{}, {"netupdate"}, {"include"}}
           \/ addrs = vps_add(B, a) /\ mode = {"include"}
        /\ radio = 0 /\ asks = 0

(* While it is quiet nobody sees where the stream tasks are, so they go    *)
(* first: the receiver to its read, the sender through its commands.       *)
Settled == quiet => at["recv"] = "io" /\ at["send"] = "idle" /\ toSender = {}

MCNext ==
  /\ \/ IpStreamReceiverTask \/ IpStreamSenderTask
     \/ Settled /\ (ZigBeeTask \/ Sessions)
     \/ ~quiet /\ Gateways
  /\ UNCHANGED quiet

MCSpec == MCInit /\ [][MCNext]_mcvars /\ Fairness
=============================================================================
