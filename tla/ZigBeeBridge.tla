---------------------------- MODULE ZigBeeBridge ----------------------------
(***************************************************************************)
(* The field side of the ZigBee bridge: the ZigBee task (zigbee.c), which  *)
(* translates between virtual ports and devices, with its table, the two   *)
(* stream tasks, and the bus and the sessions they serve.  The bus may     *)
(* lose and reorder messages (MessageBus); messages in it that are alike   *)
(* count once.  A session is one exchange of an IP task (SessionManager).  *)
(***************************************************************************)
EXTENDS VpsTable, IpStream, HexCodec

CONSTANTS
  NwkOf,        \* the network address each device announces
  MaxListed,    \* devices an answer to NETLIST_REQ may hold
  MaxRadio,     \* bound on the messages of the radio
  MaxAsks       \* bound on the requests of IP clients

ASSUME BridgeAssumption ==
  /\ NwkOf \in [Addr -> Nwk]
  /\ MaxListed \in 0 .. (MAXVPS - 1)
  /\ MaxRadio \in Nat /\ MaxAsks \in Nat

VARIABLES
  addrs,        \* the table
  mode,         \* which of includemode, excludemode, netupdatemode and
                \* getdescmode are set
  overrun,      \* vps_add read beyond the table
  toZigBee, toSender, reports,      \* messages on the bus
  session,      \* the exchange of each virtual port
  radio, asks   \* messages and requests so far
bridgeVars == <<addrs, mode, overrun, toZigBee, toSender, reports, session,
                radio, asks>>
vars == <<bridgeVars, streamVars>>

Ports == 0 .. (MAXVPS - 1)

Commands == {"NETLIST_REQ", "INCLUDE_REQ", "XADDSTOP_REQ", "GETDESC_REQ",
             "XCLUDE_REQ", "GETUID_REQ", "other"}

Request(v, cmd) == [from |-> "upper", vps |-> v, what |-> cmd]

(* Radio messages by what the task tells apart; odd: a byte of a device's  *)
(* data is 0x81 where the task looks for the type of a message.            *)
Radio(what, dev, list) ==
  [from |-> "radio", what |-> what, dev |-> dev, list |-> list]

RadioMessages ==
  {Radio(w, d, <<>>) : w \in {"joined", "announce", "left", "acked", "failed",
                              "data", "odd", "desc"}, d \in Addr}
  \cup {Radio("netlist", None, l) :
          l \in UNION {[1 .. n -> Addr] : n \in 0 .. MaxListed}}
  \cup {Radio("gateway", None, <<>>)}

Empty == Radio("empty", None, <<>>)

(* A report; steady: no renumbering since the task sent it.                *)
ReportKinds == {"joined", "announce", "left", "acked", "failed", "data", "odd",
                "desc", "netlist", "gateway", "empty",
                "uid", "invalid vps", "netlist_done"}

Report(v, what, dev) ==
  [vps |-> v, what |-> what, dev |-> dev, steady |-> TRUE]

Idle == [st |-> "idle", dev |-> None, steady |-> TRUE]

TypeOK ==
  /\ addrs \in Tables
  /\ mode \subseteq {"include", "exclude", "netupdate", "getdesc"}
  /\ ~({"include", "exclude"} \subseteq mode)
  /\ overrun \in BOOLEAN
  /\ toZigBee \subseteq RadioMessages \cup {Empty}
                        \cup {Request(v, c) : v \in Ports, c \in Commands}
  /\ toSender \subseteq Addr \cup {None}
  /\ \A r \in reports :
       r \in [vps: Ports, what: ReportKinds, dev: Addr \cup {None}, steady: BOOLEAN]
  /\ session \in [Ports -> [st: {"idle", "asked", "sent"},
                            dev: Addr \cup {None}, steady: BOOLEAN]]
  /\ radio \in 0 .. MaxRadio /\ asks \in 0 .. MaxAsks
  /\ StreamTypeOK

BridgeInit ==
  /\ overrun = FALSE /\ toZigBee = {} /\ reports = {}
  /\ session = [v \in Ports |-> Idle]

Fresh == clearvpstable(genvpstable)

Init ==
  /\ addrs = Fresh /\ mode = {} /\ toSender = {}
  /\ BridgeInit
  /\ radio = 0 /\ asks = 0
  /\ StreamInit

-----------------------------------------------------------------------------
(***************************************************************************)
(* The ZigBee task: it takes message m and sends commands to the serial    *)
(* side and reports to the sessions.                                       *)
(***************************************************************************)
Takes(m) ==
  /\ up /\ ~overrun
  /\ m \in toZigBee /\ toZigBee' = toZigBee \ {m}
  /\ UNCHANGED <<radio, asks, streamVars>>

Sends(commands, rs) ==
  /\ toSender' = toSender \cup commands
  /\ reports' = reports \cup rs

Kept == UNCHANGED <<addrs, mode, overrun, session>>

(* A request for port 0 is one for the network.  Those for an end of the   *)
(* search, for a description and for an exclusion are sent to nobody.      *)
ManagementMode(cmd) ==
  CASE cmd = "NETLIST_REQ" -> mode \cup {"netupdate"}
    [] cmd = "INCLUDE_REQ" -> (mode \cup {"include"}) \ {"exclude"}
    [] cmd = "XCLUDE_REQ" -> (mode \cup {"exclude"}) \ {"include"}
    [] cmd \in {"XADDSTOP_REQ", "GETDESC_REQ"} -> mode \ {"include", "exclude"}
    [] OTHER -> mode

Manage(m) ==
  /\ m.from = "upper" /\ m.vps = 0
  /\ Takes(m)
  /\ mode' = ManagementMode(m.what)
  /\ Sends(IF m.what \in {"XADDSTOP_REQ", "GETDESC_REQ", "XCLUDE_REQ"}
           THEN {} ELSE {None}, {})
  /\ session' = [session EXCEPT ![0].st = IF @ = "asked" THEN "sent" ELSE @]
  /\ UNCHANGED <<addrs, overrun>>

CommandMode(cmd) ==
  CASE cmd = "XCLUDE_REQ" -> (mode \cup {"exclude"}) \ {"include"}
    [] cmd = "GETDESC_REQ" -> mode \cup {"getdesc"}
    [] OTHER -> mode

Command(m) ==
  /\ m.from = "upper" /\ m.vps > 0 /\ check_valid_vps(addrs, m.vps)
  /\ Takes(m)
  /\ mode' = CommandMode(m.what)
  /\ LET d == vps_vtoa(addrs, m.vps)
     IN /\ IF m.what = "GETUID_REQ"
           THEN Sends({}, {Report(m.vps, "uid", d)})
           ELSE Sends({d}, {})
        /\ session' = [session EXCEPT
                         ![m.vps] = IF @.st = "asked"
                                    THEN [@ EXCEPT !.st = "sent", !.dev = d]
                                    ELSE @]
  /\ UNCHANGED <<addrs, overrun>>

Invalid(m) ==
  /\ m.from = "upper" /\ m.vps > 0 /\ ~check_valid_vps(addrs, m.vps)
  /\ Takes(m)
  /\ Sends({}, {Report(m.vps, "invalid vps", None)})
  /\ Kept

(* A device that asks to join while the bridge includes gets a number.     *)
Include(m) ==
  /\ m.from = "radio" /\ m.what \in {"joined", "announce"}
  /\ "include" \in mode
  /\ Takes(m)
  /\ IF IsFull(addrs)
     THEN overrun' = TRUE /\ UNCHANGED <<addrs, mode>> /\ Sends({}, {})
     ELSE /\ mode' = mode \ {"include"}
          /\ addrs' = vps_add(addrs, m.dev)
          /\ Sends({m.dev}, {})
          /\ UNCHANGED overrun
  /\ UNCHANGED session

Announce(m) ==
  /\ m.from = "radio" /\ m.what = "announce" /\ "include" \notin mode
  /\ Takes(m)
  /\ addrs' = vps_add_nwk(addrs, vps_atov(addrs, m.dev), NwkOf[m.dev])
  /\ Sends({}, {})
  /\ UNCHANGED <<mode, overrun, session>>

Gateway(m) ==
  /\ m.from = "radio" /\ m.what = "gateway"
  /\ Takes(m)
  /\ Sends({}, {})
  /\ Kept

(* The device that reports while the bridge excludes is told to leave; its *)
(* number stays in the table.                                              *)
Exclude(m) ==
  /\ m.from = "radio" /\ m.what = "left" /\ "exclude" \in mode
  /\ Takes(m)
  /\ mode' = mode \ {"exclude"}
  /\ Sends({vps_vtoa(addrs, vps_atov(addrs, m.dev))}, {})
  /\ UNCHANGED <<addrs, overrun, session>>

(* The table is cleared and every listed device added: with all numbers    *)
(* free, vps_add gives the i-th one number i.                              *)
Renumbered(list) ==
  [v \in Vps |->
     IF v <= Len(list)
     THEN [used |-> TRUE, addr |-> list[v], nwk |-> NwkOf[list[v]]]
     ELSE clearvpstable(addrs)[v]]

(* An answer to NETLIST_REQ gives all devices new numbers.                 *)
NetUpdate(m) ==
  /\ m.from = "radio" /\ m.what = "netlist" /\ "netupdate" \in mode
  /\ Takes(m)
  /\ mode' = mode \ {"netupdate"}
  /\ addrs' = Renumbered(m.list)
  /\ toSender' = toSender
  /\ reports' = {[r EXCEPT !.steady = FALSE] : r \in reports}
                \cup {Report(0, "netlist_done", None)}
  /\ session' = [v \in Ports |-> [session[v] EXCEPT !.steady = FALSE]]
  /\ UNCHANGED overrun

(* What a device sends is reported under its number, and under 0 when the  *)
(* task does not know it; while a description is awaited data is reported  *)
(* under 0, too.  A status other than a failure, and what is not known,    *)
(* goes to 0, as does the empty message of a closed stream.                *)
ReportedAs(m) ==
  CASE m.what = "failed" -> {vps_atov(addrs, m.dev)}
    [] m.what \in {"data", "left"} ->
         {IF "getdesc" \in mode THEN 0 ELSE vps_atov(addrs, m.dev)}
    [] m.what = "odd" ->
         IF "getdesc" \in mode THEN {0}
         ELSE {vps_atov_nwk(addrs, n) : n \in Nwk \cup {None}}
    [] m.what = "desc" -> {vps_atov_nwk(addrs, NwkOf[m.dev])}
    [] OTHER -> {0}

Translate(m) ==
  /\ m.from = "radio"
  /\ \/ m.what \in {"acked", "failed", "data", "odd", "desc", "empty"}
     \/ m.what = "joined" /\ "include" \notin mode
     \/ m.what = "left" /\ "exclude" \notin mode
     \/ m.what = "netlist" /\ "netupdate" \notin mode
  /\ Takes(m)
  /\ \E v \in ReportedAs(m) : Sends({}, {Report(v, m.what, m.dev)})
  /\ mode' = IF m.what = "desc" THEN mode \ {"getdesc"} ELSE mode
  /\ UNCHANGED <<addrs, overrun, session>>

ZigBeeTask == \E m \in toZigBee :
  \/ Manage(m) \/ Command(m) \/ Invalid(m)
  \/ Include(m) \/ Announce(m) \/ Gateway(m) \/ Exclude(m) \/ NetUpdate(m)
  \/ Translate(m)

-----------------------------------------------------------------------------
(***************************************************************************)
(* The stream tasks.  What the receiver returns with is broadcast to the   *)
(* ZigBee task, an empty message when the stream has ended.                *)
(***************************************************************************)
Receives(m) ==
  /\ toZigBee' = toZigBee \cup {m}
  /\ UNCHANGED <<addrs, mode, overrun, toSender, reports, session, asks>>

IpStreamReceiverTask ==
  \/ (Call("recv") \/ Enter("recv")) /\ UNCHANGED bridgeVars
  \/ /\ receive_stream_data
     /\ radio < MaxRadio /\ radio' = radio + 1
     /\ \E m \in RadioMessages : Receives(m)
  \/ (FirstEnd \/ Close) /\ Receives(Empty) /\ UNCHANGED radio
  \/ (Disconnect \/ ReadsNothing) /\ UNCHANGED bridgeVars

IpStreamSenderTask ==
  \/ /\ Call("send")
     /\ \E c \in toSender : toSender' = toSender \ {c}
     /\ UNCHANGED <<addrs, mode, overrun, toZigBee, reports, session, radio,
                    asks>>
  \/ Enter("send") /\ UNCHANGED bridgeVars
  \/ send_stream_data /\ UNCHANGED bridgeVars

(* What happens to the stream from outside.                                *)
Gateways ==
  /\ PeerConnects \/ PeerCloses \/ \E t \in Thread : AcceptFails(t)
  /\ UNCHANGED bridgeVars

-----------------------------------------------------------------------------
(* The sessions: a request is sent, and ended by the first report for its  *)
(* port or by its timeout; other reports are broadcast and forgotten.      *)
Ask(v, cmd) ==
  /\ up /\ asks < MaxAsks /\ asks' = asks + 1
  /\ session[v].st = "idle"
  /\ session' = [session EXCEPT ![v] = [Idle EXCEPT !.st = "asked"]]
  /\ toZigBee' = toZigBee \cup {Request(v, cmd)}
  /\ UNCHANGED <<addrs, mode, overrun, toSender, reports, radio, streamVars>>

Answer(r) ==
  /\ up /\ r \in reports /\ reports' = reports \ {r}
  /\ session' = [session EXCEPT ![r.vps] = Idle]
  /\ UNCHANGED <<addrs, mode, overrun, toZigBee, toSender, radio, asks,
                 streamVars>>

TimesOut(v) ==
  /\ up /\ session[v].st # "idle"
  /\ session' = [session EXCEPT ![v] = Idle]
  /\ UNCHANGED <<addrs, mode, overrun, toZigBee, toSender, reports, radio,
                 asks, streamVars>>

Lose(m) ==
  /\ up /\ m \in toZigBee /\ toZigBee' = toZigBee \ {m}
  /\ UNCHANGED <<addrs, mode, overrun, toSender, reports, session, radio,
                 asks, streamVars>>

Sessions ==
  \/ \E v \in Ports : TimesOut(v) \/ \E c \in Commands : Ask(v, c)
  \/ \E r \in reports : Answer(r)
  \/ \E m \in toZigBee : Lose(m)

Next == ZigBeeTask \/ IpStreamReceiverTask \/ IpStreamSenderTask
        \/ Sessions \/ Gateways

(* The threads run, and a gateway without a connection connects; accept    *)
(* need not fail.                                                          *)
Fairness ==
  /\ WF_vars(IpStreamSenderTask)
  /\ WF_vars(Disconnect /\ UNCHANGED bridgeVars)
  /\ WF_vars((FirstEnd \/ Close) /\ Receives(Empty) /\ UNCHANGED radio)
  /\ WF_vars((Call("recv") \/ Enter("recv")) /\ UNCHANGED bridgeVars)
  /\ WF_vars(Reconnects /\ UNCHANGED bridgeVars)

BridgeSpec == Init /\ [][Next]_vars /\ Fairness

-----------------------------------------------------------------------------
(***************************************************************************)
(* What a device reports about itself reaches the session that asked it:   *)
(* between a request and its answer numbers keep their devices, unless the *)
(* table was made anew (zigbee.c:330).                                     *)
(***************************************************************************)
ByAddress == {"uid", "data", "left", "failed"}

AnswersNameTheDevice ==
  \A r \in reports :
    LET s == session[r.vps]
    IN (/\ r.vps > 0 /\ r.what \in ByAddress /\ r.steady
        /\ s.st = "sent" /\ s.dev # None /\ s.steady)
       => r.dev = s.dev

(***************************************************************************)
(* A number that was given to a device keeps naming it in every step but   *)
(* an update of the network list.                                          *)
(***************************************************************************)
NumbersAreKept ==
  [][ \/ "netupdate" \in mode /\ "netupdate" \notin mode'
      \/ \A v \in Vps : addrs[v].used =>
           addrs'[v].used /\ addrs'[v].addr = addrs[v].addr ]_vars

(***************************************************************************)
(* Of whatever message an exchange carries through its port the client     *)
(* that asked reads what the bridge sent, up to the bytes a length of one  *)
(* byte leaves (iptask.c and tcpserver.c convert it to hexadecimal and     *)
(* back).                                                                  *)
(***************************************************************************)
ExchangesKeepMessages ==
  \A v \in Ports : session[v].st # "idle" => PortsKeepMessages

(***************************************************************************)
(* Table, modes, messages and connections are those the tasks expect, as   *)
(* long as the stream threads do not overlap.                              *)
(***************************************************************************)
FieldIsSound == TypeOK /\ OneByOneIsSafe
=============================================================================
