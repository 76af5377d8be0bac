------------------------ MODULE ZigBeeBridge_proofs -------------------------
(***************************************************************************)
(* Theorems about the field side of the bridge, for every size of the      *)
(* table, every set of devices and connections, and every bound.           *)
(***************************************************************************)
EXTENDS ZigBeeBridge, WellFoundedInduction, TLAPS

-----------------------------------------------------------------------------
(* The hexadecimal form of messages.                                       *)

(* The two digits of a byte are digits, and make the byte                  *)
(* (auxfunctions.c:42-55 undoes 66-81).                                    *)
LEMMA NibblesMakeByte ==
  ASSUME NEW b \in Byte
  PROVE  /\ HighNibble(b) \in Digit /\ LowNibble(b) \in Digit
         /\ Shifted(Shifted(0, HighNibble(b)), LowNibble(b)) = b
  <1>1. HighNibble(b) \in Digit /\ LowNibble(b) \in Digit
    BY DEF HighNibble, LowNibble, Byte, Digit
  <1>2. 16 * HighNibble(b) + LowNibble(b) = b
    BY DEF HighNibble, LowNibble, Byte
  <1>3. Shifted(0, HighNibble(b)) = HighNibble(b)
    BY <1>1 DEF Shifted, Digit
  <1> QED
    BY <1>1, <1>2, <1>3 DEF Shifted, Byte, Digit

(* The length of a message's text, kept in a byte (auxfunctions.c:85).     *)
LEMMA TextLength ==
  ASSUME NEW m \in Seq(Byte)
  PROVE  /\ HexLength(m) = 2 * (Len(m) % 128)
         /\ Len(m) % 128 \in 0 .. 127 /\ Len(m) % 128 <= Len(m)
  <1> DEFINE n == Len(m)
             q == n \div 128
             r == n % 128
  <1>1. n \in Nat
    OBVIOUS
  <1> HIDE DEF n
  <1>2. q \in Nat /\ r \in 0 .. 127 /\ n = 128 * q + r
    BY <1>1
  <1> HIDE DEF q, r
  <1>3. 2 * n = 256 * q + 2 * r /\ 2 * r \in 0 .. 255
    BY <1>2
  <1>4. (2 * n) % 256 = 2 * r
    BY <1>1, <1>2, <1>3
  <1>5. r <= n
    BY <1>1, <1>2
  <1> QED
    BY <1>2, <1>4, <1>5 DEF HexLength, n, r

(* The characters at the two places of byte j (auxfunctions.c:66-82).      *)
LEMMA DigitsOfByte ==
  ASSUME NEW m \in Seq(Byte), NEW j \in 1 .. Len(m)
  PROVE  /\ HexDigits(m)[2 * j - 1] = HighNibble(m[j])
         /\ HexDigits(m)[2 * j] = LowNibble(m[j])
  <1>1. Len(m) \in Nat /\ j \in Nat
    OBVIOUS
  <1>2. 2 * j - 1 \in 1 .. 2 * Len(m) /\ 2 * j \in 1 .. 2 * Len(m)
    BY <1>1
  <1>3. /\ (2 * j - 1) % 2 = 1 /\ (2 * j - 1 + 1) \div 2 = j
        /\ (2 * j) % 2 = 0 /\ (2 * j) \div 2 = j
    BY <1>1
  <1> QED
    BY <1>2, <1>3 DEF HexDigits

(* What is sent of a message converts back to its first bytes, to all of   *)
(* them if their text's length fits in a byte, and to none of 128          *)
(* (auxfunctions.c:36-86, tcpserver.c:146-161).                            *)
THEOREM MessagesSurvive ==
  PortsKeepMessages
  <1> SUFFICES ASSUME NEW m \in Message
               PROVE  hexbinary_to_binary(IP_send_server_hexbinaryString(m))
                        = SubSeq(m, 1, Len(m) % 128)
    BY DEF PortsKeepMessages
  <1>0. m \in Seq(Byte)
    BY MessageAssumption
  <1> DEFINE t == IP_send_server_hexbinaryString(m)
             n == Len(m) % 128
  <1>1. n \in 0 .. 127 /\ n <= Len(m) /\ HexLength(m) = 2 * n
    BY <1>0, TextLength
  <1>2. Len(m) \in Nat
    BY <1>0
  <1> HIDE DEF n
  <1>3. /\ Len(t) = 2 * n
        /\ \A k \in 1 .. 2 * n : t[k] = HexDigits(m)[k]
    BY <1>1 DEF IP_send_server_hexbinaryString
  <1>4. (Len(t) \div 2) % 256 = n
    BY <1>1, <1>3
  <1>5. ASSUME NEW j \in 1 .. n
        PROVE  Shifted(Shifted(0, t[2 * j - 1]), t[2 * j]) = m[j]
    <2>1. j \in 1 .. Len(m)
      BY <1>1, <1>2
    <2>2. m[j] \in Byte
      BY <1>0, <2>1
    <2>3. 2 * j - 1 \in 1 .. 2 * n /\ 2 * j \in 1 .. 2 * n
      BY <1>1
    <2>4. t[2 * j - 1] = HexDigits(m)[2 * j - 1] /\ t[2 * j] = HexDigits(m)[2 * j]
      BY <1>3, <2>3
    <2> QED
      BY <1>0, <2>1, <2>2, <2>4, DigitsOfByte, NibblesMakeByte
  <1> HIDE DEF t
  <1>6. hexbinary_to_binary(t) = [j \in 1 .. n |-> m[j]]
    BY <1>4, <1>5 DEF hexbinary_to_binary
  <1>7. SubSeq(m, 1, n) = [j \in 1 .. n |-> m[j]]
    BY <1>0, <1>1
  <1> QED
    BY <1>6, <1>7 DEF n, t

-----------------------------------------------------------------------------
(* The table.                                                              *)

(* A set of numbers that is not empty has a first one.                     *)
LEMMA FirstIsIn ==
  ASSUME NEW S \in SUBSET Vps, S # {}
  PROVE  First(S) \in S /\ First(S) \in Vps
  <1> DEFINE R == {p \in Nat \X Nat : p[1] < p[2]}
  <1>1. S \subseteq Nat
    BY MaxVpsAssumption DEF Vps
  <1>2. IsWellFoundedOn(R, Nat)
    <2>1. R = OpToRel(<, Nat)
      BY Zenon DEF OpToRel
    <2> QED
      BY <2>1, NatLessThanWellFounded
  <1> HIDE DEF R
  <1>3. PICK x \in S : \A y \in S : ~(<<y, x>> \in R)
    BY <1>1, <1>2, WFMin
  <1>4. ASSUME NEW y \in S PROVE x <= y
    <2>1. ~(<<y, x>> \in R)
      BY <1>3
    <2>2. ~(y < x)
      BY <1>1, <2>1 DEF R
    <2> QED
      BY <1>1, <2>2
  <1> QED
    BY <1>3, <1>4 DEF First

(* vps_add takes a free number and touches no other (vps2addr.c:54-64).    *)
LEMMA AddTakesFree ==
  ASSUME NEW t \in Tables, NEW d \in Addr, ~IsFull(t)
  PROVE  /\ vps_add(t, d) \in Tables
         /\ \A v \in Vps : t[v].used => vps_add(t, d)[v] = t[v]
  <1>1. AddNumber(t) \in FreeNumbers(t) /\ AddNumber(t) \in Vps
    BY FirstIsIn DEF AddNumber, IsFull, FreeNumbers
  <1>2. ~t[AddNumber(t)].used
    BY <1>1 DEF FreeNumbers
  <1> QED
    BY <1>1, <1>2 DEF vps_add, Tables

(* vps_add_nwk changes neither who has a number nor which device           *)
(* (vps2addr.c:66-68).                                                     *)
LEMMA NwkTouchesNoNumber ==
  ASSUME NEW t \in Tables, NEW v \in Vps \cup {0}, NEW n \in Nwk
  PROVE  /\ vps_add_nwk(t, v, n) \in Tables
         /\ \A w \in Vps : /\ vps_add_nwk(t, v, n)[w].used = t[w].used
                           /\ vps_add_nwk(t, v, n)[w].addr = t[w].addr
  <1>1. CASE v = 0
    BY <1>1 DEF vps_add_nwk
  <1>2. CASE v \in Vps /\ v # 0
    BY <1>2 DEF vps_add_nwk, Tables
  <1> QED
    BY <1>1, <1>2

(* The number of an address names it (vps2addr.c:78-87).                   *)
LEMMA NumberNames ==
  ASSUME NEW t \in Tables, NEW d
  PROVE  /\ vps_atov(t, d) \in Vps \cup {0}
         /\ vps_atov(t, d) # 0 =>
              t[vps_atov(t, d)].used /\ t[vps_atov(t, d)].addr = d
  <1>1. NumbersOf(t, d) \subseteq Vps
    BY DEF NumbersOf
  <1>2. CASE NumbersOf(t, d) = {}
    BY <1>2 DEF vps_atov
  <1>3. CASE NumbersOf(t, d) # {}
    <2>1. vps_atov(t, d) \in NumbersOf(t, d)
      BY <1>1, <1>3, FirstIsIn DEF vps_atov
    <2> QED
      BY <1>1, <2>1 DEF NumbersOf
  <1> QED
    BY <1>2, <1>3

(* The number of a network address is one of the table's.                  *)
LEMMA NumberOfNwk ==
  ASSUME NEW t \in Tables, NEW n
  PROVE  vps_atov_nwk(t, n) \in Vps \cup {0}
  <1>1. NumbersOfNwk(t, n) \subseteq Vps
    BY DEF NumbersOfNwk
  <1> QED
    BY <1>1, FirstIsIn DEF vps_atov_nwk

-----------------------------------------------------------------------------
(* Messages and ports.                                                     *)

LEMMA PortsAre == Ports = Vps \cup {0} /\ 0 \notin Vps /\ Vps \subseteq Nat
  BY MaxVpsAssumption DEF Ports, Vps

(* Where a message comes from tells what its fields hold.                  *)
Messages ==
  RadioMessages \cup {Empty} \cup {Request(v, c) : v \in Ports, c \in Commands}

LEMMA MessageIs ==
  ASSUME NEW m \in Messages
  PROVE  /\ m.from \in {"upper", "radio"}
         /\ m.from = "upper" => m.vps \in Ports /\ m.what \in Commands
         /\ m.from = "radio" =>
              /\ m.what \in {"joined", "announce", "left", "acked", "failed",
                             "data", "odd", "desc", "netlist", "gateway",
                             "empty"}
              /\ m.dev \in Addr \cup {None}
              /\ m.what \notin {"netlist", "gateway", "empty"} => m.dev \in Addr
              /\ m.what = "netlist" =>
                   \E n \in 0 .. MaxListed : m.list \in [1 .. n -> Addr]
  BY DEF Messages, RadioMessages, Radio, Empty, Request

(* A report is a record of its fields.                                     *)
Reports == [vps: Ports, what: ReportKinds, dev: Addr \cup {None}, steady: BOOLEAN]

LEMMA ReportIs ==
  ASSUME NEW v \in Ports, NEW w \in ReportKinds, NEW d \in Addr \cup {None}
  PROVE  /\ Report(v, w, d) \in Reports
         /\ Report(v, w, d).vps = v /\ Report(v, w, d).what = w
         /\ Report(v, w, d).dev = d
  BY DEF Report, Reports

-----------------------------------------------------------------------------
(* The invariant of the exchanges.  A steady session or report was made    *)
(* when its number named its device, and no step but a renumbering, which  *)
(* unsteadies it, changes that.                                            *)
BridgeTypeOK ==
  /\ addrs \in Tables
  /\ mode \subseteq {"include", "exclude", "netupdate", "getdesc"}
  /\ ~({"include", "exclude"} \subseteq mode)
  /\ overrun \in BOOLEAN
  /\ toZigBee \subseteq Messages
  /\ toSender \subseteq Addr \cup {None}
  /\ reports \subseteq Reports
  /\ session \in [Ports -> [st: {"idle", "asked", "sent"},
                            dev: Addr \cup {None}, steady: BOOLEAN]]
  /\ radio \in 0 .. MaxRadio /\ asks \in 0 .. MaxAsks

SessionsNamed ==
  \A v \in Vps :
    session[v].st = "sent" /\ session[v].steady =>
      addrs[v].used /\ addrs[v].addr = session[v].dev

ReportsNamed ==
  \A r \in reports :
    r.vps > 0 /\ r.what \in ByAddress /\ r.steady =>
      addrs[r.vps].used /\ addrs[r.vps].addr = r.dev

AnswerInv == BridgeTypeOK /\ SessionsNamed /\ ReportsNamed

(* What the actions need of the constants.                                 *)
LEMMA Constants ==
  /\ MAXVPS \in Nat \ {0} /\ NwkOf \in [Addr -> Nwk]
  /\ MaxListed \in 0 .. (MAXVPS - 1) /\ MaxRadio \in Nat /\ MaxAsks \in Nat
  BY MaxVpsAssumption, BridgeAssumption

LEMMA TypeIs == TypeOK <=> BridgeTypeOK /\ StreamTypeOK
  BY DEF TypeOK, BridgeTypeOK, Messages, Reports

LEMMA InitAnswers == Init => AnswerInv
  <1> SUFFICES ASSUME Init PROVE AnswerInv
    OBVIOUS
  <1>1. addrs \in Tables /\ \A v \in Vps : ~addrs[v].used
    BY DEF Init, Fresh, clearvpstable, genvpstable, Tables
  <1>2. session \in [Ports -> [st: {"idle", "asked", "sent"},
                              dev: Addr \cup {None}, steady: BOOLEAN]]
    BY DEF Init, BridgeInit, Idle
  <1>3. 0 \in 0 .. MaxRadio /\ 0 \in 0 .. MaxAsks
    BY Constants
  <1>4. BridgeTypeOK
    BY <1>1, <1>2, <1>3 DEF Init, BridgeInit, BridgeTypeOK
  <1> QED
    BY <1>4, PortsAre
       DEF Init, BridgeInit, AnswerInv, SessionsNamed, ReportsNamed, Idle

(* A step that keeps who has which number, and neither makes a session     *)
(* sent nor a report, keeps the names right.                               *)
LEMMA NamesKept ==
  ASSUME AnswerInv, BridgeTypeOK',
         \A v \in Vps : addrs[v].used =>
           addrs'[v].used /\ addrs'[v].addr = addrs[v].addr,
         \A v \in Vps : session'[v].st = "sent" => session'[v] = session[v],
         \A r \in reports' : r \in reports \/ r.what \notin ByAddress \/ r.vps = 0
  PROVE  AnswerInv'
  <1>1. SessionsNamed'
    BY DEF AnswerInv, SessionsNamed
  <1>2. ASSUME NEW r \in reports', r.vps > 0, r.what \in ByAddress, r.steady
        PROVE  addrs'[r.vps].used /\ addrs'[r.vps].addr = r.dev
    <2>1. r \in reports /\ r.vps \in Vps
      BY <1>2, PortsAre DEF BridgeTypeOK, Reports
    <2> QED
      BY <1>2, <2>1 DEF AnswerInv, ReportsNamed
  <1> QED
    BY <1>1, <1>2 DEF AnswerInv, ReportsNamed

-----------------------------------------------------------------------------
(* The ZigBee task, one lemma for each kind of message.                    *)

LEMMA TakesMessage ==
  ASSUME AnswerInv, NEW m \in toZigBee, Takes(m)
  PROVE  /\ m \in Messages
         /\ toZigBee' \subseteq Messages
         /\ radio' \in 0 .. MaxRadio /\ asks' \in 0 .. MaxAsks
  BY DEF AnswerInv, BridgeTypeOK, Takes

LEMMA ManageKeeps ==
  ASSUME AnswerInv, NEW m \in toZigBee, Manage(m)
  PROVE  AnswerInv'
  <1>1. mode' \subseteq {"include", "exclude", "netupdate", "getdesc"}
          /\ ~({"include", "exclude"} \subseteq mode')
    BY DEF Manage, ManagementMode, AnswerInv, BridgeTypeOK
  <1>2. toSender' \subseteq Addr \cup {None} /\ reports' = reports
    BY DEF Manage, Sends, AnswerInv, BridgeTypeOK
  <1>3. /\ session' \in [Ports -> [st: {"idle", "asked", "sent"},
                                   dev: Addr \cup {None}, steady: BOOLEAN]]
        /\ \A v \in Vps : session'[v] = session[v]
    BY PortsAre DEF Manage, AnswerInv, BridgeTypeOK
  <1>4. BridgeTypeOK'
    BY <1>1, <1>2, <1>3, TakesMessage
       DEF Manage, AnswerInv, BridgeTypeOK
  <1> QED
    BY <1>2, <1>3, <1>4, NamesKept DEF Manage

LEMMA CommandKeeps ==
  ASSUME AnswerInv, NEW m \in toZigBee, Command(m)
  PROVE  AnswerInv'
  <1> DEFINE v == m.vps
             d == vps_vtoa(addrs, v)
  <1>1. v \in Vps /\ addrs[v].used /\ d = addrs[v].addr /\ d \in Addr \cup {None}
    BY TakesMessage, MessageIs, PortsAre
       DEF Command, check_valid_vps, vps_vtoa, AnswerInv, BridgeTypeOK, Tables
  <1>2. mode' \subseteq {"include", "exclude", "netupdate", "getdesc"}
          /\ ~({"include", "exclude"} \subseteq mode')
    BY DEF Command, CommandMode, AnswerInv, BridgeTypeOK
  <1>3. /\ toSender' \subseteq Addr \cup {None}
        /\ reports' \subseteq reports \cup {Report(v, "uid", d)}
    BY <1>1 DEF Command, Sends, AnswerInv, BridgeTypeOK
  <1> DEFINE x == IF session[v].st = "asked"
                  THEN [session[v] EXCEPT !.st = "sent", !.dev = d]
                  ELSE session[v]
  <1>4. session' = [session EXCEPT ![v] = x]
    BY DEF Command
  <1>41. session[v] \in [st: {"idle", "asked", "sent"},
                         dev: Addr \cup {None}, steady: BOOLEAN]
    BY <1>1, PortsAre DEF AnswerInv, BridgeTypeOK
  <1>42. /\ x \in [st: {"idle", "asked", "sent"},
                    dev: Addr \cup {None}, steady: BOOLEAN]
         /\ x = session[v] \/ x.dev = d
    BY <1>1, <1>41
  <1> HIDE DEF x
  <1>5. /\ session' \in [Ports -> [st: {"idle", "asked", "sent"},
                                   dev: Addr \cup {None}, steady: BOOLEAN]]
        /\ \A w \in Vps \ {v} : session'[w] = session[w]
        /\ session'[v] = session[v] \/ session'[v].dev = d
    BY <1>1, <1>4, <1>42, PortsAre DEF AnswerInv, BridgeTypeOK
  <1>51. Report(v, "uid", d) \in Reports /\ Report(v, "uid", d).vps = v
           /\ Report(v, "uid", d).dev = d
    BY <1>1, PortsAre DEF Report, Reports, ReportKinds
  <1>6. BridgeTypeOK'
    BY <1>2, <1>3, <1>5, <1>51, TakesMessage
       DEF Command, AnswerInv, BridgeTypeOK
  <1>7. SessionsNamed'
    BY <1>1, <1>5 DEF Command, AnswerInv, SessionsNamed
  <1>8. ReportsNamed'
    BY <1>1, <1>3, <1>51 DEF Command, AnswerInv, ReportsNamed
  <1> QED
    BY <1>6, <1>7, <1>8 DEF AnswerInv

LEMMA InvalidKeeps ==
  ASSUME AnswerInv, NEW m \in toZigBee, Invalid(m)
  PROVE  AnswerInv'
  <1>1. m.vps \in Ports
    BY TakesMessage, MessageIs DEF Invalid
  <1> DEFINE q == Report(m.vps, "invalid vps", None)
  <1>2. q \in Reports /\ q.what = "invalid vps"
    BY <1>1 DEF Report, Reports, ReportKinds
  <1>3. reports' = reports \cup {q} /\ toSender' = toSender
          /\ UNCHANGED <<addrs, mode, overrun, session>>
    BY DEF Invalid, Sends, Kept
  <1> HIDE DEF q
  <1>4. BridgeTypeOK'
    BY <1>2, <1>3, TakesMessage DEF Invalid, AnswerInv, BridgeTypeOK
  <1>5. q.what \notin ByAddress
    BY <1>2 DEF ByAddress
  <1> QED
    BY <1>3, <1>4, <1>5, NamesKept

LEMMA IncludeKeeps ==
  ASSUME AnswerInv, NEW m \in toZigBee, Include(m)
  PROVE  AnswerInv'
  <1>1. m.dev \in Addr
    BY TakesMessage, MessageIs DEF Include
  <1>2. /\ addrs' \in Tables
        /\ \A v \in Vps : addrs[v].used =>
             addrs'[v].used /\ addrs'[v].addr = addrs[v].addr
    BY <1>1, AddTakesFree DEF Include, AnswerInv, BridgeTypeOK
  <1>3. BridgeTypeOK'
    BY <1>1, <1>2, TakesMessage
       DEF Include, Sends, AnswerInv, BridgeTypeOK
  <1> QED
    BY <1>2, <1>3, NamesKept DEF Include, Sends

LEMMA AnnounceKeeps ==
  ASSUME AnswerInv, NEW m \in toZigBee, Announce(m)
  PROVE  AnswerInv'
  <1>1. m.dev \in Addr /\ NwkOf[m.dev] \in Nwk
    BY TakesMessage, MessageIs, Constants DEF Announce
  <1>2. vps_atov(addrs, m.dev) \in Vps \cup {0} /\ addrs \in Tables
    BY NumberNames DEF AnswerInv, BridgeTypeOK
  <1>3. /\ addrs' \in Tables
        /\ \A v \in Vps : addrs'[v].used = addrs[v].used
                          /\ addrs'[v].addr = addrs[v].addr
    BY <1>1, <1>2, NwkTouchesNoNumber DEF Announce
  <1>4. BridgeTypeOK'
    BY <1>3, TakesMessage DEF Announce, Sends, AnswerInv, BridgeTypeOK
  <1> QED
    BY <1>3, <1>4, NamesKept DEF Announce, Sends

LEMMA GatewayKeeps ==
  ASSUME AnswerInv, NEW m \in toZigBee, Gateway(m)
  PROVE  AnswerInv'
  <1>1. BridgeTypeOK'
    BY TakesMessage DEF Gateway, Sends, Kept, AnswerInv, BridgeTypeOK
  <1> QED
    BY <1>1, NamesKept DEF Gateway, Sends, Kept

LEMMA ExcludeKeeps ==
  ASSUME AnswerInv, NEW m \in toZigBee, Exclude(m)
  PROVE  AnswerInv'
  <1>1. vps_vtoa(addrs, vps_atov(addrs, m.dev)) \in Addr \cup {None}
    BY NumberNames DEF vps_vtoa, AnswerInv, BridgeTypeOK, Tables
  <1>2. BridgeTypeOK'
    BY <1>1, TakesMessage DEF Exclude, Sends, AnswerInv, BridgeTypeOK
  <1> QED
    BY <1>2, NamesKept DEF Exclude, Sends

(* After a renumbering nothing is steady.                                  *)
LEMMA NetUpdateKeeps ==
  ASSUME AnswerInv, NEW m \in toZigBee, NetUpdate(m)
  PROVE  AnswerInv'
  <1>1. PICK n \in 0 .. MaxListed : m.list \in [1 .. n -> Addr]
    BY TakesMessage, MessageIs DEF NetUpdate
  <1>2. Len(m.list) = n /\ n \in Nat
    BY <1>1, Constants
  <1>21. ASSUME NEW v \in Vps
         PROVE  /\ v <= n => m.list[v] \in Addr /\ NwkOf[m.list[v]] \in Nwk
                /\ clearvpstable(addrs)[v]
                     \in [used: BOOLEAN, addr: Addr \cup {None}, nwk: Nwk \cup {None}]
    <2>1. v <= n => v \in 1 .. n
      BY <1>2, MaxVpsAssumption DEF Vps
    <2> QED
      BY <1>1, <2>1, Constants
         DEF clearvpstable, Tables, AnswerInv, BridgeTypeOK
  <1>3. addrs' \in Tables
    BY <1>2, <1>21 DEF NetUpdate, Renumbered, Tables
  <1>4. /\ session' \in [Ports -> [st: {"idle", "asked", "sent"},
                                   dev: Addr \cup {None}, steady: BOOLEAN]]
        /\ \A v \in Ports : ~session'[v].steady
    BY DEF NetUpdate, AnswerInv, BridgeTypeOK
  <1>5. ASSUME NEW r \in reports'
        PROVE  /\ r \in Reports
               /\ ~r.steady \/ r.vps = 0
    <2>1. CASE r = Report(0, "netlist_done", None)
      BY <2>1, PortsAre DEF Report, Reports, ReportKinds
    <2>2. CASE \E q \in reports : r = [q EXCEPT !.steady = FALSE]
      BY <2>2 DEF AnswerInv, BridgeTypeOK, Reports
    <2> QED
      BY <1>5, <2>1, <2>2 DEF NetUpdate
  <1>6. BridgeTypeOK'
    BY <1>3, <1>4, <1>5, TakesMessage DEF NetUpdate, AnswerInv, BridgeTypeOK
  <1>7. SessionsNamed' /\ ReportsNamed'
    BY <1>4, <1>5, PortsAre DEF SessionsNamed, ReportsNamed
  <1> QED
    BY <1>6, <1>7 DEF AnswerInv

LEMMA TranslateKeeps ==
  ASSUME AnswerInv, NEW m \in toZigBee, Translate(m)
  PROVE  AnswerInv'
  <1>1. addrs \in Tables /\ UNCHANGED <<addrs, overrun, session>>
    BY DEF Translate, AnswerInv, BridgeTypeOK
  <1>2. m.dev \in Addr \cup {None} /\ m.what \in ReportKinds
    <2>1. m \in Messages /\ m.from = "radio"
      BY TakesMessage DEF Translate
    <2> QED
      BY <2>1, MessageIs DEF ReportKinds
  <1>3. PICK v \in ReportedAs(m) : /\ toSender' = toSender
                                   /\ reports' = reports \cup {Report(v, m.what, m.dev)}
    BY DEF Translate, Sends
  <1>4. v \in Ports
    BY <1>1, NumberNames, NumberOfNwk, PortsAre DEF ReportedAs
  <1>5. m.what \in ByAddress /\ v # 0 => v = vps_atov(addrs, m.dev)
    BY TakesMessage, MessageIs DEF Translate, ReportedAs, ByAddress
  <1>6. mode' \subseteq mode
    BY DEF Translate
  <1>7. BridgeTypeOK'
    BY <1>1, <1>2, <1>3, <1>4, <1>6, TakesMessage, ReportIs
       DEF Translate, AnswerInv, BridgeTypeOK
  <1>8. SessionsNamed'
    BY <1>1 DEF AnswerInv, SessionsNamed
  <1>9. ReportsNamed'
    BY <1>1, <1>2, <1>3, <1>4, <1>5, NumberNames, ReportIs
       DEF AnswerInv, ReportsNamed
  <1> QED
    BY <1>7, <1>8, <1>9 DEF AnswerInv

-----------------------------------------------------------------------------
(* The other tasks.                                                        *)

(* The stream tasks bring messages in and take commands away.              *)
LEMMA StreamKeeps ==
  ASSUME AnswerInv, IpStreamReceiverTask \/ IpStreamSenderTask \/ Gateways
  PROVE  AnswerInv'
  <1>1. CASE UNCHANGED bridgeVars
    BY <1>1, NamesKept DEF bridgeVars, AnswerInv, BridgeTypeOK
  <1>2. ASSUME NEW m \in Messages, Receives(m), radio' \in 0 .. MaxRadio
        PROVE  AnswerInv'
    <2>1. BridgeTypeOK'
      BY <1>2 DEF Receives, AnswerInv, BridgeTypeOK
    <2> QED
      BY <1>2, <2>1, NamesKept DEF Receives
  <1>3. CASE /\ receive_stream_data
             /\ radio < MaxRadio /\ radio' = radio + 1
             /\ \E m \in RadioMessages : Receives(m)
    <2>1. radio' \in 0 .. MaxRadio
      BY <1>3, Constants DEF AnswerInv, BridgeTypeOK
    <2> QED
      BY <1>2, <1>3, <2>1 DEF Messages
  <1>4. CASE (FirstEnd \/ Close) /\ Receives(Empty) /\ UNCHANGED radio
    BY <1>2, <1>4 DEF Messages, AnswerInv, BridgeTypeOK
  <1>5. CASE /\ \E c \in toSender : toSender' = toSender \ {c}
             /\ UNCHANGED <<addrs, mode, overrun, toZigBee, reports, session,
                            radio, asks>>
    <2>1. BridgeTypeOK'
      BY <1>5 DEF AnswerInv, BridgeTypeOK
    <2> QED
      BY <1>5, <2>1, NamesKept
  <1>6. CASE IpStreamReceiverTask
    BY <1>1, <1>3, <1>4, <1>6 DEF IpStreamReceiverTask
  <1>7. CASE IpStreamSenderTask
    <2>1. CASE UNCHANGED bridgeVars
      BY <1>1, <2>1
    <2>2. CASE ~(UNCHANGED bridgeVars)
      BY <1>5, <1>7, <2>2, Zenon DEF IpStreamSenderTask
    <2> QED
      BY <2>1, <2>2
  <1>8. CASE Gateways
    BY <1>1, <1>8 DEF Gateways
  <1> QED
    BY <1>6, <1>7, <1>8

(* A session's entry becomes a fresh exchange.                             *)
LEMMA SessionSet ==
  ASSUME AnswerInv, NEW v \in Ports, NEW st \in {"idle", "asked"},
         session' = [session EXCEPT ![v] = [Idle EXCEPT !.st = st]]
  PROVE  /\ session' \in [Ports -> [st: {"idle", "asked", "sent"},
                                    dev: Addr \cup {None}, steady: BOOLEAN]]
         /\ \A w \in Vps : session'[w].st = "sent" => session'[w] = session[w]
  BY PortsAre DEF Idle, AnswerInv, BridgeTypeOK

LEMMA IdleIs == [Idle EXCEPT !.st = "idle"] = Idle
  <1> DEFINE e == [Idle EXCEPT !.st = "idle"]
  <1>1. DOMAIN e = DOMAIN Idle
    OBVIOUS
  <1>2. Idle.st = "idle" /\ DOMAIN Idle = {"st", "dev", "steady"}
    BY DEF Idle
  <1>3. \A f \in DOMAIN Idle : e[f] = Idle[f]
    BY <1>2
  <1> QED
    BY <1>1, <1>2, <1>3 DEF Idle

LEMMA SessionsKeep ==
  ASSUME AnswerInv, Sessions
  PROVE  AnswerInv'
  <1>1. ASSUME NEW v \in Ports, TimesOut(v) PROVE AnswerInv'
    <2>1. session' = [session EXCEPT ![v] = [Idle EXCEPT !.st = "idle"]]
      BY <1>1, IdleIs DEF TimesOut
    <2>2. BridgeTypeOK'
      BY <1>1, <2>1, SessionSet DEF TimesOut, AnswerInv, BridgeTypeOK
    <2> QED
      BY <1>1, <2>1, <2>2, SessionSet, NamesKept DEF TimesOut
  <1>2. ASSUME NEW v \in Ports, NEW c \in Commands, Ask(v, c) PROVE AnswerInv'
    <2>1. session' = [session EXCEPT ![v] = [Idle EXCEPT !.st = "asked"]]
      BY <1>2 DEF Ask
    <2>2. toZigBee' \subseteq Messages
      BY <1>2 DEF Ask, Messages, AnswerInv, BridgeTypeOK
    <2>3. asks' \in 0 .. MaxAsks
      BY <1>2, Constants DEF Ask, AnswerInv, BridgeTypeOK
    <2>4. BridgeTypeOK'
      BY <1>2, <2>1, <2>2, <2>3, SessionSet DEF Ask, AnswerInv, BridgeTypeOK
    <2> QED
      BY <1>2, <2>1, <2>4, SessionSet, NamesKept DEF Ask
  <1>3. ASSUME NEW r \in reports, Answer(r) PROVE AnswerInv'
    <2>1. r.vps \in Ports
      BY DEF AnswerInv, BridgeTypeOK, Reports
    <2>2. session' = [session EXCEPT ![r.vps] = [Idle EXCEPT !.st = "idle"]]
      BY <1>3, IdleIs DEF Answer
    <2>3. BridgeTypeOK'
      BY <1>3, <2>1, <2>2, SessionSet DEF Answer, AnswerInv, BridgeTypeOK
    <2> QED
      BY <1>3, <2>1, <2>2, <2>3, SessionSet, NamesKept DEF Answer
  <1>4. ASSUME NEW m \in toZigBee, Lose(m) PROVE AnswerInv'
    <2>1. BridgeTypeOK'
      BY <1>4 DEF Lose, AnswerInv, BridgeTypeOK
    <2> QED
      BY <1>4, <2>1, NamesKept DEF Lose
  <1> QED
    BY <1>1, <1>2, <1>3, <1>4 DEF Sessions

(* Every step of the bridge keeps the invariant of the exchanges.          *)
LEMMA AnswersStep == AnswerInv /\ [Next]_vars => AnswerInv'
  <1> SUFFICES ASSUME AnswerInv, [Next]_vars PROVE AnswerInv'
    OBVIOUS
  <1>1. CASE ZigBeeTask
    BY <1>1, ManageKeeps, CommandKeeps, InvalidKeeps, IncludeKeeps,
       AnnounceKeeps, GatewayKeeps, ExcludeKeeps, NetUpdateKeeps,
       TranslateKeeps DEF ZigBeeTask
  <1>2. CASE UNCHANGED vars
    BY <1>2, NamesKept DEF vars, bridgeVars, AnswerInv, BridgeTypeOK
  <1> QED
    BY <1>1, <1>2, StreamKeeps, SessionsKeep DEF Next

-----------------------------------------------------------------------------
(* The stream.  What a thread found when it tested a flag still holds when *)
(* it acts, as long as the threads have not overlapped.                    *)
Testing == {"accept", "waiting", "set"}

StreamInv ==
  /\ StreamTypeOK
  /\ ~overlap =>
       /\ ~(at["recv"] \in Exposed /\ at["send"] \in Exposed)
       /\ at["recv"] = "ended" => refused
       /\ at["recv"] # "undefined"
       /\ ~cut
       /\ listening => serverready \/ \E t \in Thread : at[t] = "ready"
       /\ serverready => listening
       /\ listening => ss = "open"
       /\ zconnected => client \in Conn
       /\ at["recv"] = "closing" => client \in Conn /\ conn[client] # "open"
       /\ at["recv"] \in {"found", "accepted"} => zconnected
       /\ at["recv"] = "io" => zconnected /\ fd["recv"] = client
       /\ at["recv"] = "first" => fd["recv"] \in Conn
       /\ \A t \in Thread :
            /\ at[t] = "init" => ~serverready
            /\ at[t] = "ready" => listening
            /\ at[t] = "accept" => serverready
            /\ at[t] = "connected" => serverready
            /\ at[t] \in Testing => ~zconnected
            /\ at[t] = "set" => client \in Conn

LEMMA InitStream == Init => StreamInv
  BY DEF Init, StreamInit, StreamInv, StreamTypeOK, Thread, Testing, Exposed

(* The steps of use_ipstream_server, in either thread.                     *)
LEMMA EnterKeeps ==
  ASSUME StreamInv, NEW t \in Thread, Call(t) \/ Enter(t)
  PROVE  StreamInv'
  <1> USE DEF StreamInv, StreamTypeOK, Thread, Testing, Exposed, Goto
  <1>1. CASE Call(t)
    BY <1>1 DEF Call
  <1>2. CASE server_init(t)
    BY <1>2 DEF server_init
  <1>3. CASE InitFails(t)
    BY <1>3 DEF InitFails, Failed
  <1>4. CASE SetReady(t)
    BY <1>4 DEF SetReady
  <1>5. CASE TestConnected(t)
    BY <1>5 DEF TestConnected
  <1>10. CASE ReadClient(t)
    BY <1>10 DEF ReadClient
  <1>6. CASE CallAccept(t)
    BY <1>6 DEF CallAccept
  <1>7. CASE Accept(t)
    BY <1>7 DEF Accept
  <1>8. CASE AcceptsNothing(t)
    BY <1>8 DEF AcceptsNothing, Failed
  <1>9. CASE SetConnected(t)
    BY <1>9 DEF SetConnected
  <1> QED
    BY <1>1, <1>2, <1>3, <1>4, <1>5, <1>6, <1>7, <1>8, <1>9, <1>10 DEF Enter

(* Reading, writing, closing, and what the gateway does.                   *)
LEMMA IoKeeps ==
  ASSUME StreamInv,
         \/ send_stream_data \/ receive_stream_data \/ ReadsNothing
         \/ FirstEnd \/ Disconnect \/ Close \/ PeerConnects \/ PeerCloses
         \/ \E t \in Thread : AcceptFails(t)
  PROVE  StreamInv'
  <1> USE ConnAssumption
      DEF StreamInv, StreamTypeOK, Thread, Testing, Exposed, Goto
  <1>1. CASE send_stream_data
    BY <1>1 DEF send_stream_data
  <1>2. CASE receive_stream_data
    BY <1>2 DEF receive_stream_data
  <1>3. CASE ReadsNothing
    BY <1>3 DEF ReadsNothing
  <1>4. CASE FirstEnd
    BY <1>4 DEF FirstEnd
  <1>5. CASE Disconnect
    BY <1>5 DEF Disconnect, EndSeen
  <1>6. CASE Close
    BY <1>6 DEF Close
  <1>7. CASE PeerConnects
    BY <1>7 DEF PeerConnects
  <1>8. CASE PeerCloses
    BY <1>8 DEF PeerCloses
  <1>9. ASSUME NEW t \in Thread, AcceptFails(t) PROVE StreamInv'
    BY <1>9 DEF AcceptFails, Failed
  <1> QED
    BY <1>1, <1>2, <1>3, <1>4, <1>5, <1>6, <1>7, <1>8, <1>9

(* Every step of the bridge keeps the invariant of the stream.             *)
LEMMA StreamStep == StreamInv /\ [Next]_vars => StreamInv'
  <1> SUFFICES ASSUME StreamInv, [Next]_vars PROVE StreamInv'
    OBVIOUS
  <1>1. CASE UNCHANGED streamVars
    BY <1>1 DEF StreamInv, StreamTypeOK, streamVars, Thread, Testing, Exposed
  <1>2. CASE ZigBeeTask
    BY <1>1, <1>2 DEF ZigBeeTask, Manage, Command, Invalid, Include, Announce,
                      Gateway, Exclude, NetUpdate, Translate, Takes
  <1>3. CASE IpStreamReceiverTask
    BY <1>3, EnterKeeps, IoKeeps DEF IpStreamReceiverTask, Thread
  <1>4. CASE IpStreamSenderTask
    BY <1>4, EnterKeeps, IoKeeps DEF IpStreamSenderTask, Thread
  <1>5. CASE Sessions
    BY <1>1, <1>5 DEF Sessions, TimesOut, Ask, Answer, Lose
  <1>6. CASE Gateways
    BY <1>6, IoKeeps DEF Gateways
  <1>7. CASE UNCHANGED vars
    BY <1>1, <1>7 DEF vars
  <1> QED
    BY <1>2, <1>3, <1>4, <1>5, <1>6, <1>7 DEF Next

-----------------------------------------------------------------------------
(* The theorems.                                                           *)

(***************************************************************************)
(* Table, modes, messages and sockets stay well formed, and the receiver   *)
(* and the sender task (ipstreamtasks.c:110-227) are safe with each other  *)
(* as long as they are never both between a test of the static variables   *)
(* and its effect: the receiver ends only after a socket call that failed  *)
(* by itself, selects on no descriptor -1, and closes no connection its    *)
(* peer uses.                                                              *)
(***************************************************************************)
THEOREM FieldCorrect == BridgeSpec => []FieldIsSound
  <1>1. Init => AnswerInv /\ StreamInv
    BY InitAnswers, InitStream
  <1>2. AnswerInv /\ StreamInv /\ [Next]_vars => (AnswerInv /\ StreamInv)'
    BY AnswersStep, StreamStep
  <1>3. AnswerInv /\ StreamInv => FieldIsSound
    BY TypeIs DEF AnswerInv, StreamInv, FieldIsSound, OneByOneIsSafe
  <1> QED
    BY <1>1, <1>2, <1>3, PTL DEF BridgeSpec

(***************************************************************************)
(* A report that reaches the session which asked for it names the device   *)
(* the request was sent to, for reports made by address (zigbee.c:78-418)  *)
(* and while the network list is not made anew.                            *)
(***************************************************************************)
THEOREM AnswersCorrect == BridgeSpec => []AnswersNameTheDevice
  <1>1. AnswerInv => AnswersNameTheDevice
    <2> SUFFICES ASSUME AnswerInv, NEW r \in reports,
                        r.vps > 0, r.what \in ByAddress, r.steady,
                        session[r.vps].st = "sent", session[r.vps].steady
                 PROVE  r.dev = session[r.vps].dev
      BY DEF AnswersNameTheDevice
    <2>1. r.vps \in Vps
      BY PortsAre DEF AnswerInv, BridgeTypeOK, Reports
    <2> QED
      BY <2>1 DEF AnswerInv, SessionsNamed, ReportsNamed
  <1> QED
    BY <1>1, InitAnswers, AnswersStep, PTL DEF BridgeSpec

(* Steps other than an update of the network list leave every number that  *)
(* is in use to its device.                                                *)
LEMMA NumbersStep ==
  ASSUME AnswerInv, Next
  PROVE  \/ "netupdate" \in mode /\ "netupdate" \notin mode'
         \/ \A v \in Vps : addrs[v].used =>
              addrs'[v].used /\ addrs'[v].addr = addrs[v].addr
  <1>1. addrs \in Tables
    BY DEF AnswerInv, BridgeTypeOK
  <1>2. CASE UNCHANGED addrs
    BY <1>2
  <1>3. ASSUME NEW m \in toZigBee, Include(m)
        PROVE  \A v \in Vps : addrs[v].used =>
                 addrs'[v].used /\ addrs'[v].addr = addrs[v].addr
    <2>1. m.dev \in Addr
      BY <1>3, TakesMessage, MessageIs DEF Include
    <2> QED
      BY <1>1, <1>3, <2>1, AddTakesFree DEF Include
  <1>4. ASSUME NEW m \in toZigBee, Announce(m)
        PROVE  \A v \in Vps : addrs[v].used =>
                 addrs'[v].used /\ addrs'[v].addr = addrs[v].addr
    <2>1. NwkOf[m.dev] \in Nwk
      BY <1>4, TakesMessage, MessageIs, Constants DEF Announce
    <2>2. vps_atov(addrs, m.dev) \in Vps \cup {0}
      BY <1>1, NumberNames
    <2> QED
      BY <1>1, <1>4, <2>1, <2>2, NwkTouchesNoNumber DEF Announce
  <1>5. ASSUME NEW m \in toZigBee, NetUpdate(m)
        PROVE  "netupdate" \in mode /\ "netupdate" \notin mode'
    BY <1>5 DEF NetUpdate
  <1>6. CASE ZigBeeTask
    BY <1>2, <1>3, <1>4, <1>5, <1>6
       DEF ZigBeeTask, Manage, Command, Invalid, Gateway, Exclude, Translate, Kept
  <1>7. CASE IpStreamReceiverTask \/ IpStreamSenderTask \/ Gateways
    BY <1>2, <1>7 DEF IpStreamReceiverTask, IpStreamSenderTask, Gateways,
                      Receives, bridgeVars
  <1>8. CASE Sessions
    BY <1>2, <1>8 DEF Sessions, TimesOut, Ask, Answer, Lose
  <1> QED
    BY <1>6, <1>7, <1>8 DEF Next

(***************************************************************************)
(* A number keeps naming its device in every step but an update of the     *)
(* network list: neither vps_add nor vps_add_nwk nor an exclusion          *)
(* (zigbee.c:78-418, vps2addr.c:54-68) takes it away.                      *)
(***************************************************************************)
THEOREM NumbersKept == BridgeSpec => NumbersAreKept
  <1>1. AnswerInv /\ [Next]_vars =>
          [ \/ "netupdate" \in mode /\ "netupdate" \notin mode'
            \/ \A v \in Vps : addrs[v].used =>
                 addrs'[v].used /\ addrs'[v].addr = addrs[v].addr ]_vars
    BY NumbersStep
  <1> QED
    BY <1>1, InitAnswers, AnswersStep, PTL DEF BridgeSpec, NumbersAreKept
=============================================================================
