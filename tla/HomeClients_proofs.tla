---------------------------- MODULE HomeClients_proofs ----------------------
(***************************************************************************)
(* Theorems about the programs that use a home, for every number of        *)
(* services, ports, devices and clients, and every description.            *)
(***************************************************************************)
EXTENDS HomeClients, TLAPS

-----------------------------------------------------------------------------
(* The inductive invariants.                                               *)

(* A port is only asked for if the bridge has it.                          *)
PortInv ==
  \A c \in Client : req[c].st \in {"asking", "asked"} => req[c].svc \in Port

(* What is written and printed was compared with what is looked for.       *)
Wanted(s) ==
  /\ WantedType \in {NULL, Description[s].type}
  /\ WantedLocation = Description[s].location

SeekInv ==
  /\ poll = "getting" => matched \in Svc
  /\ poll \in {"opening", "writing", "leaving"} => Wanted(matched)
  /\ line # None => Wanted(line)

(* The search is over before the example asks for a description, so that   *)
(* the request the example has is the one of the stage it is in.           *)
StageInv ==
  /\ at = "start" => main = "none"
  /\ at \in {"describing", "switching", "end"} => main = "ended"
  /\ at = "describing" <=> req[Example].what = "desc"
  /\ req[Example].what = "switch" => at = "switching"
  /\ req[Example].what \in {"desc", "switch"} => req[Example].svc = url

(* An answer that is a lamp's description is that of a lamp whose network  *)
(* address the entry of the port has held, and addresses are not forgotten.*)
LampNamed(s) == s \in Port /\ named[s] \cap Lamp # {}

DescribedInv ==
  req[Example].what = "desc" /\ req[Example].ans = "lamp" =>
    LampNamed(url) /\ req[Example].st \in {"sleeping", "done"}

LampInv ==
  /\ StageInv /\ DescribedInv
  /\ at = "switching" => LampNamed(url)
  /\ OnlyLampsAreSwitched

-----------------------------------------------------------------------------
(* The requests.                                                           *)

(* The numeric constants and the values that are no service.               *)
LEMMA Sizes ==
  /\ NServices \in Nat /\ NPorts \in Nat /\ MaxSockets \in Nat
  /\ Example \in Client /\ User \in Client /\ User # Example
  /\ None \notin Client /\ None \notin Dev /\ None # "lamp"
  /\ Lamp \subseteq Dev
BY BridgeServicesAssumption, UserAssumption DEF Answers

(* What a step does to the requests: that of one client gets another       *)
(* stage or answer, and is still the same request.                         *)
Changes(c, st, ans) ==
  /\ req' \in [Client -> Requests]
  /\ \A d \in Client : d # c => req'[d] = req[d]
  /\ req'[c].svc = req[c].svc /\ req'[c].what = req[c].what
  /\ req'[c].st = st /\ req'[c].ans = ans

LEMMA ChangesOne ==
  ASSUME req \in [Client -> Requests], NEW c \in Client, NEW x \in Requests,
         x.svc = req[c].svc, x.what = req[c].what, req' = [req EXCEPT ![c] = x]
  PROVE  Changes(c, x.st, x.ans)
BY DEF Changes

(* A request gets to another stage.                                        *)
LEMMA Moves ==
  ASSUME req \in [Client -> Requests], NEW c \in Client,
         NEW st \in Stages, Move(c, st)
  PROVE  Changes(c, st, req[c].ans)
<1>. DEFINE x == [req[c] EXCEPT !.st = st]
<1>1. req[c] \in Requests
  OBVIOUS
<1>2. /\ x \in Requests /\ x.svc = req[c].svc /\ x.what = req[c].what
      /\ x.st = st /\ x.ans = req[c].ans
  BY <1>1 DEF Requests
<1>3. req' = [req EXCEPT ![c] = x]
  BY DEF Move
<1>. HIDE DEF x
<1>. QED BY <1>2, <1>3, ChangesOne

(* A request gets an answer with its stage.                                *)
LEMMA Gets ==
  ASSUME req \in [Client -> Requests], NEW c \in Client,
         NEW st \in Stages, NEW ans \in Answers,
         req' = [req EXCEPT ![c].st = st, ![c].ans = ans]
  PROVE  Changes(c, st, ans)
<1>. DEFINE x == [req[c] EXCEPT !.st = st, !.ans = ans]
<1>1. req[c] \in Requests
  OBVIOUS
<1>2. /\ x \in Requests /\ x.svc = req[c].svc /\ x.what = req[c].what
      /\ x.st = st /\ x.ans = ans
  BY <1>1 DEF Requests
<1>3. req' = [req EXCEPT ![c] = x]
  OBVIOUS
<1>. HIDE DEF x
<1>. QED BY <1>2, <1>3, ChangesOne

(* A new request, and none.                                                *)
LEMMA Asks ==
  ASSUME req \in [Client -> Requests], NEW c \in Client, NEW s \in Svc \cup {None},
         NEW what \in {"xml", "get", "desc", "switch"}, Request(c, s, what)
  PROVE  /\ req' \in [Client -> Requests]
         /\ \A d \in Client : d # c => req'[d] = req[d]
         /\ req'[c].what = what /\ req'[c].svc = s
         /\ req'[c].st \in {"sent", "done"} /\ req'[c].ans \in {"none", "failed"}
         /\ req[c].st = "idle"
         /\ UNCHANGED <<appVars, device, owner, sockets, named, switched>>
<1>. DEFINE x == [NoRequest EXCEPT !.what = what, !.svc = s,
                         !.st = IF Listed(s) THEN "sent" ELSE "done",
                         !.ans = IF Listed(s) THEN "none" ELSE "failed"]
<1>1. /\ x \in Requests /\ x.what = what /\ x.svc = s
      /\ x.st \in {"sent", "done"} /\ x.ans \in {"none", "failed"}
  BY DEF NoRequest, Requests, Stages, Answers
<1>2. req' = [req EXCEPT ![c] = x]
  BY DEF Request
<1>. HIDE DEF x
<1>. QED BY <1>1, <1>2 DEF Request

LEMMA NoRequestIs ==
  /\ NoRequest \in Requests /\ NoRequest.st = "idle" /\ NoRequest.what = "none"
  /\ NoRequest.ans = "none"
BY DEF NoRequest, Requests, Stages, Answers

LEMMA Forgotten ==
  ASSUME req \in [Client -> Requests], NEW c \in Client,
         req' = [req EXCEPT ![c] = NoRequest]
  PROVE  /\ req' \in [Client -> Requests]
         /\ \A d \in Client : d # c => req'[d] = req[d]
         /\ req'[c] = NoRequest
BY NoRequestIs

-----------------------------------------------------------------------------
(* The threads of the daemon.                                              *)

(* A step of a handler that neither asks a device nor reads its answer.    *)
Passes(c) ==
  /\ UNCHANGED <<named, switched>>
  /\ \E st \in Stages, ans \in Answers :
       /\ Changes(c, st, ans)
       /\ st = "asking" => req[c].svc \in Port
       /\ st # "asked"
       /\ ans = "lamp" =>
            /\ req[c].ans = "lamp"
            /\ st = "done" \/ req[c].st \notin {"sleeping", "done"}

LEMMA HandlerCases ==
  ASSUME req \in [Client -> Requests], NEW c \in Client, HandlerStep(c)
  PROVE  BridgeTakes(c) \/ IP_send_String(c) \/ Passes(c)
<1>. USE DEF Passes, At, Stages, Answers
<1>0. req[c] \in Requests /\ req[c].ans \in Answers
  BY DEF Requests
<1>1. CASE matching_service(c)
  BY <1>0, <1>1, Moves, Gets DEF matching_service
<1>2. CASE UDP_init(c)
  BY <1>0, <1>2, Moves DEF UDP_init
<1>3. CASE get_ip_UDP_listen(c)
  BY <1>0, <1>3, Moves DEF get_ip_UDP_listen
<1>4. CASE EventListen_local(c)
  BY <1>0, <1>4, Gets DEF EventListen_local
<1>5. CASE net_connect(c)
  BY <1>0, <1>5, Moves, Gets DEF net_connect
<1>6. CASE BridgeForgets(c)
  BY <1>0, <1>6, Moves DEF BridgeForgets
<1>7. CASE put_bridge(c)
  BY <1>0, <1>7, Moves DEF put_bridge
<1>. QED BY <1>1, <1>2, <1>3, <1>4, <1>5, <1>6, <1>7 DEF HandlerStep

LEMMA Takes ==
  ASSUME ServicesTypeOK, NEW c \in Client, BridgeTakes(c)
  PROVE  Changes(c, "asked", req[c].ans) /\ UNCHANGED named
BY Moves DEF BridgeTakes, ServicesTypeOK, Stages

LEMMA Reads ==
  ASSUME ServicesTypeOK, NEW c \in Client, IP_send_String(c)
  PROVE  \E ans \in {"other", "lamp"} :
           /\ Changes(c, "sleeping", ans)
           /\ ans = "lamp" => named[req[c].svc] \cap Lamp # {}
           /\ UNCHANGED <<named, switched>>
<1>1. PICK ans \in {"other", "lamp"} :
        /\ ans = "lamp" => named[req[c].svc] \cap Lamp # {}
        /\ req' = [req EXCEPT ![c].st = "sleeping", ![c].ans = ans]
  BY DEF IP_send_String
<1>. QED BY <1>1, Gets DEF IP_send_String, ServicesTypeOK, Stages, Answers

-----------------------------------------------------------------------------
(* Type correctness of the requests and the services.                      *)

ServicesOK == ServicesTypeOK /\ PortInv

LEMMA SameServices ==
  ASSUME ServicesOK, UNCHANGED serviceVars PROVE ServicesOK'
BY DEF ServicesOK, ServicesTypeOK, PortInv, At, serviceVars, appVars

LEMMA ApplicationKeepsServices ==
  ASSUME ServicesOK, StartsUp \/ HPD_register_service \/ Renumbers
  PROVE  ServicesOK'
<1>. USE Sizes DEF ServicesOK, ServicesTypeOK, PortInv, At
<1>1. CASE StartsUp BY <1>1 DEF StartsUp
<1>2. CASE HPD_register_service BY <1>2 DEF HPD_register_service
<1>3. CASE Renumbers
  <2>1. device' \in [Port -> Dev] /\ named' \in [Port -> SUBSET Dev]
    BY <1>3 DEF Renumbers
  <2>. QED BY <1>3, <2>1 DEF Renumbers, appVars
<1>. QED BY <1>1, <1>2, <1>3

LEMMA AskKeepsServices ==
  ASSUME ServicesOK, NEW c \in Client, NEW s \in Svc \cup {None},
         NEW what \in {"xml", "get", "desc", "switch"}, Request(c, s, what)
  PROVE  ServicesOK'
<1>1. /\ req' \in [Client -> Requests]
      /\ \A d \in Client : d # c => req'[d] = req[d]
      /\ req'[c].st \in {"sent", "done"}
      /\ UNCHANGED <<appVars, device, owner, sockets, named, switched>>
  BY Asks DEF ServicesOK, ServicesTypeOK
<1>. QED BY <1>1 DEF ServicesOK, ServicesTypeOK, PortInv, At, appVars

LEMMA ForgetKeepsServices ==
  ASSUME ServicesOK, NEW c \in Client,
         req' = [req EXCEPT ![c] = NoRequest],
         UNCHANGED <<appVars, device, owner, sockets, named, switched>>
  PROVE  ServicesOK'
<1>1. owner' \in [Svc -> Client \cup {None}]
  BY DEF ServicesOK, ServicesTypeOK
<1>2. /\ req' \in [Client -> Requests]
      /\ \A d \in Client : d # c => req'[d] = req[d]
      /\ req'[c] = NoRequest
  BY Forgotten DEF ServicesOK, ServicesTypeOK
<1>. QED
  BY <1>1, <1>2, NoRequestIs DEF ServicesOK, ServicesTypeOK, PortInv, At, appVars

LEMMA HandlerKeepsServices ==
  ASSUME ServicesOK, NEW c \in Client, HandlerStep(c) PROVE ServicesOK'
<1>. USE DEF ServicesOK
<1>1. /\ req' \in [Client -> Requests]
      /\ \A d \in Client : d # c => req'[d] = req[d]
      /\ req'[c].st \in {"asking", "asked"} => req'[c].svc \in Port
  <2>1. CASE BridgeTakes(c)
    BY <2>1, Takes DEF Changes, BridgeTakes, At, PortInv
  <2>2. CASE IP_send_String(c) BY <2>2, Reads DEF Changes
  <2>3. CASE Passes(c) BY <2>3 DEF Passes, Changes
  <2>. QED BY <2>1, <2>2, <2>3, HandlerCases DEF ServicesTypeOK
<1>2. owner' \in [Svc -> Client \cup {None}]
  BY DEF HandlerStep, matching_service, UDP_init, get_ip_UDP_listen,
         EventListen_local, net_connect, BridgeTakes, IP_send_String,
         BridgeForgets, put_bridge, Unlock, ServicesTypeOK
<1>3. sockets' \in 0 .. MaxSockets
  BY Sizes DEF HandlerStep, matching_service, UDP_init, get_ip_UDP_listen,
         EventListen_local, net_connect, BridgeTakes, IP_send_String,
         BridgeForgets, put_bridge, ServicesTypeOK
<1>4. UNCHANGED <<device, named>> /\ switched' \in Dev \cup {None}
  <2>1. CASE BridgeTakes(c)
    <3>1. device[req[c].svc] \in Dev
      BY <2>1 DEF BridgeTakes, At, PortInv, ServicesTypeOK
    <3>. QED BY <2>1, <3>1 DEF BridgeTakes, ServicesTypeOK
  <2>2. CASE ~BridgeTakes(c)
    BY <2>2 DEF HandlerStep, matching_service, UDP_init, get_ip_UDP_listen,
                EventListen_local, net_connect, IP_send_String,
                BridgeForgets, put_bridge, ServicesTypeOK
  <2>. QED BY <2>1, <2>2
<1>5. UNCHANGED <<up, listed>>
  BY DEF HandlerStep, matching_service, UDP_init, get_ip_UDP_listen,
         EventListen_local, net_connect, BridgeTakes, IP_send_String,
         BridgeForgets, put_bridge, appVars
<1>. QED BY <1>1, <1>2, <1>3, <1>4, <1>5 DEF ServicesTypeOK, PortInv, At

-----------------------------------------------------------------------------
(* The search.                                                             *)

SearchInv == SDTypeOK /\ SeekInv

(* A description that matches a request is that of a wanted service.       *)
LEMMA MatchIsWanted ==
  ASSUME NEW s \in Svc, requests \subseteq creaters(WantedType, WantedLocation),
         get_matching_request_service(Description[s], requests) # {}
  PROVE  Wanted(s)
<1>1. PICK r \in creaters(WantedType, WantedLocation) : Matches(r, Description[s])
  BY DEF get_matching_request_service
<1>2. WantedLocation # NULL
  BY <1>1 DEF creaters
<1>3. r = [init_request_service_struct EXCEPT !.type = WantedType,
                                              !.location = WantedLocation]
  BY <1>1, <1>2 DEF creaters
<1>4. r["type"] = WantedType /\ r["location"] = WantedLocation
  BY <1>3 DEF init_request_service_struct, Field
<1>5. /\ r["type"] # NULL => r["type"] = Description[s]["type"]
      /\ r["location"] # NULL => r["location"] = Description[s]["location"]
  BY <1>1 DEF Matches, Field
<1>. QED BY <1>2, <1>4, <1>5 DEF Wanted

LEMMA SameSearch ==
  ASSUME SearchInv, UNCHANGED sdVars PROVE SearchInv'
BY DEF SearchInv, SDTypeOK, SeekInv, Wanted, sdVars, seekVars

(* The end of the program leaves what it has written.                      *)
LEMMA EndsSearch ==
  ASSUME SearchInv, ServicesOK, NEW printed \in SUBSET (Svc \cup {None}),
         \A s \in printed : s # None => Wanted(s), Ends(printed)
  PROVE  SearchInv' /\ ServicesOK'
<1>1. ServicesOK'
  BY ForgetKeepsServices, Sizes DEF Ends
<1>. QED
  BY <1>1 DEF Ends, SearchInv, SDTypeOK, SeekInv, Wanted,
              destroy_request_service_list

LEMMA LooksSearch ==
  ASSUME SearchInv, ServicesOK, NEW s \in Svc, http_get_function(s)
  PROVE  SearchInv' /\ ServicesOK'
<1>1. CASE curl = "failed"
  BY <1>1, EndsSearch DEF http_get_function
<1>2. CASE curl # "failed"
  <2>1. ServicesOK'
    BY <1>2, AskKeepsServices, Sizes DEF http_get_function
  <2>. QED
    BY <1>2, <2>1 DEF http_get_function, SearchInv, SDTypeOK, SeekInv, Wanted,
                      seekVars
<1>. QED BY <1>1, <1>2

LEMMA DiscoveryKeeps ==
  ASSUME SearchInv, ServicesOK, Discovery PROVE SearchInv' /\ ServicesOK'
<1>1. ASSUME NEW s \in Svc, browse_callback(s) PROVE SearchInv' /\ ServicesOK'
  BY <1>1, SameServices
     DEF browse_callback, SearchInv, SDTypeOK, SeekInv, Wanted, seekVars
<1>2. ASSUME NEW s \in Svc, resolve_callback(s) PROVE SearchInv' /\ ServicesOK'
  <2>1. CASE http_get_function(s)
    BY <2>1, LooksSearch
  <2>2. CASE ~http_get_function(s)
    BY <1>2, <2>2, SameServices
       DEF resolve_callback, SearchInv, SDTypeOK, SeekInv, Wanted, seekVars
  <2>. QED BY <2>1, <2>2
<1>3. CASE BrowserFails
  BY <1>3, EndsSearch DEF BrowserFails
<1>4. CASE service_found_callback
  <2>1. ServicesOK'
    BY <1>4, ForgetKeepsServices, Sizes DEF service_found_callback, Forget
  <2>2. SDTypeOK'
    BY <1>4 DEF service_found_callback, SearchInv, SDTypeOK, seekVars
  <2>3. poll' = "opening" => matched' = matched /\ Wanted(matched)
    <3>. SUFFICES ASSUME poll' = "opening"
                  PROVE  matched' = matched /\ Wanted(matched)
      OBVIOUS
    <3>1. /\ get_matching_request_service(Description[matched], requests) # {}
          /\ matched' = matched
      BY <1>4 DEF service_found_callback
    <3>2. matched \in Svc /\ requests \subseteq creaters(WantedType, WantedLocation)
      BY <1>4 DEF service_found_callback, SearchInv, SDTypeOK, SeekInv
    <3>. QED BY <3>1, <3>2, MatchIsWanted
  <2>4. SeekInv'
    BY <1>4, <2>3 DEF service_found_callback, SearchInv, SeekInv, Wanted
  <2>. QED BY <2>1, <2>2, <2>4 DEF SearchInv
<1>5. CASE WriteOpens \/ write_str_buffer_to_file
  BY <1>5, SameServices DEF WriteOpens, write_str_buffer_to_file, SearchInv,
                            SDTypeOK, SeekInv, Wanted, seekVars
<1>6. CASE Leaves
  BY <1>6, EndsSearch DEF Leaves, SearchInv, SDTypeOK, SeekInv
<1>7. CASE HP_client_deinit
  BY <1>7, SameServices DEF HP_client_deinit, SearchInv, SDTypeOK, SeekInv,
                            Wanted, seekVars
<1>8. CASE avahi_core_stop
  BY <1>8, EndsSearch DEF avahi_core_stop
<1>. QED
  BY <1>1, <1>2, <1>3, <1>4, <1>5, <1>6, <1>7, <1>8 DEF Discovery

-----------------------------------------------------------------------------
(* Type correctness, and what the search hands on.                         *)

ClientInv == TypeOK /\ PortInv /\ SeekInv

LEMMA ClientInvParts == ClientInv <=>
  /\ ServicesOK /\ SearchInv
  /\ at \in {"start", "searching", "describing", "switching", "end"}
  /\ url \in Svc \cup {None} /\ uses \in 0 .. MaxUses
BY DEF ClientInv, TypeOK, ServicesOK, SearchInv

(* What the user's program starts with.                                    *)
LEMMA UserStarts ==
  ASSUME ClientInv, hpclientXML \/ hpclientGET
                    \/ \E what \in {"desc", "switch"} : hpclientPUT(what)
  PROVE  /\ UNCHANGED <<at, url, sdVars>> /\ uses' \in 0 .. MaxUses
         /\ \/ UNCHANGED serviceVars
            \/ \E s \in Svc \cup {None}, what \in {"xml", "get", "desc", "switch"} :
                 Request(User, s, what)
<1>1. FileUrl \in Svc \cup {None}
  BY DEF FileUrl
<1>2. uses \in 0 .. MaxUses /\ MaxUses \in Nat
  BY UserAssumption DEF ClientInv, TypeOK
<1>3. UNCHANGED <<at, url, sdVars>> /\ uses' \in 0 .. MaxUses
  BY <1>2 DEF hpclientXML, hpclientGET, hpclientPUT, Uses
<1>. QED
  BY <1>1, <1>3 DEF hpclientXML, hpclientGET, hpclientPUT, Uses, http_get

(* A step of the example.                                                  *)
LEMMA ExampleSteps ==
  ASSUME ClientInv, ExampleStep
  PROVE  /\ ServicesOK' /\ UNCHANGED <<uses, sdVars>>
         /\ at' \in {"describing", "switching", "end"}
         /\ url' \in Svc \cup {None}
<1>0. ServicesOK /\ line \in Svc \cup {None} /\ url \in Svc \cup {None}
  BY DEF ClientInv, ServicesOK, TypeOK, SDTypeOK
<1>1. CASE get_desc
  BY <1>0, <1>1, AskKeepsServices, Sizes DEF get_desc
<1>2. CASE ODSDL_parser
  BY <1>0, <1>2, ForgetKeepsServices, Sizes DEF ODSDL_parser, Forget
<1>3. CASE d_zigbee_device_on
  BY <1>0, <1>3, AskKeepsServices, Sizes DEF d_zigbee_device_on
<1>4. CASE hp_ODSDL_parser
  BY <1>0, <1>4, ForgetKeepsServices, Sizes DEF hp_ODSDL_parser, Forget
<1>. QED BY <1>1, <1>2, <1>3, <1>4 DEF ExampleStep

(* A report changes nothing but the stage of a request.                    *)
LEMMA ReportPasses ==
  ASSUME ServicesOK, NEW c \in Client, UDP_broadcast(c)
  PROVE  ServicesOK' /\ Passes(c)
<1>1. PICK st \in {"told", "misled"} : Changes(c, st, req[c].ans)
  BY Moves DEF UDP_broadcast, ServicesOK, ServicesTypeOK, Stages
<1>2. req[c].ans \in Answers /\ st \in Stages
  BY DEF ServicesOK, ServicesTypeOK, Requests, Stages
<1>3. Passes(c)
  BY <1>1, <1>2 DEF Passes, UDP_broadcast, At
<1>4. ServicesOK'
  BY <1>1 DEF UDP_broadcast, ServicesOK, ServicesTypeOK, PortInv, At, Changes,
              appVars
<1>. QED BY <1>3, <1>4

(* The types, and the invariants of the requests and the search.           *)
LEMMA ClientInvHolds == ClientsSpec => []ClientInv
<1>1. Init => ClientInv
  <2>. SUFFICES ASSUME Init PROVE ClientInv
    OBVIOUS
  <2>1. ServicesTypeOK /\ PortInv
    <3>1. req = [c \in Client |-> NoRequest] /\ owner = [s \in Svc |-> None]
      BY DEF Init, ServicesInit
    <3>2. req \in [Client -> Requests] /\ PortInv
      BY <3>1, NoRequestIs DEF PortInv, At
    <3>3. owner \in [Svc -> Client \cup {None}]
      BY <3>1
    <3>4. switched \in Dev \cup {None} /\ named \in [Port -> SUBSET Dev]
      BY DEF Init, ServicesInit
    <3>5. /\ up = "starting" /\ listed = 0
          /\ device \in [Port -> Dev] /\ sockets \in 0 .. MaxSockets
      BY DEF Init, ServicesInit
    <3>6. listed \in 0 .. NServices
      BY <3>5, Sizes
    <3>. QED
      BY <3>2, <3>3, <3>4, <3>5, <3>6 DEF ServicesTypeOK
  <2>2. SDTypeOK /\ SeekInv
    BY DEF Init, SDInit, SDTypeOK, SeekInv
  <2>. QED
    BY <2>1, <2>2, UserAssumption DEF Init, ClientInv, TypeOK
<1>2. ClientInv /\ [Next]_vars => ClientInv'
  <2>. SUFFICES ASSUME ClientInv, [Next]_vars PROVE ClientInv'
    OBVIOUS
  <2>0. /\ ServicesOK /\ SearchInv
        /\ at \in {"start", "searching", "describing", "switching", "end"}
        /\ url \in Svc \cup {None} /\ uses \in 0 .. MaxUses
    BY ClientInvParts
  <2>. SUFFICES
         /\ ServicesOK' /\ SearchInv'
         /\ at' \in {"start", "searching", "describing", "switching", "end"}
         /\ url' \in Svc \cup {None} /\ uses' \in 0 .. MaxUses
    BY DEF ClientInv, TypeOK, ServicesOK, SearchInv
  <2>1. CASE (StartsUp \/ HPD_register_service \/ Renumbers)
             /\ UNCHANGED <<sdVars, clientVars>>
    BY <2>0, <2>1, ApplicationKeepsServices, SameSearch DEF clientVars
  <2>2. CASE Reports
    BY <2>0, <2>2, ReportPasses, SameSearch DEF Reports, clientVars
  <2>3. ASSUME NEW c \in Client, Handlers(c) PROVE ServicesOK' /\ SearchInv' /\ UNCHANGED clientVars
    BY <2>0, <2>3, HandlerKeepsServices, SameSearch DEF Handlers
  <2>4. CASE Search
    BY <2>0, <2>4, DiscoveryKeeps DEF Search, clientVars
  <2>5. CASE find_service_at_location
    <3>1. ServicesOK'
      BY <2>0, <2>5, SameServices DEF find_service_at_location, HP_client_init
    <3>2. SearchInv'
      BY <2>0, <2>5 DEF find_service_at_location, HP_client_init, init_curl,
                        SearchInv, SDTypeOK, SeekInv, Wanted
    <3>. QED BY <2>0, <2>5, <3>1, <3>2 DEF find_service_at_location
  <2>6. CASE ExampleStep
    BY <2>0, <2>6, ExampleSteps, SameSearch
  <2>7. CASE hpclientXML \/ hpclientGET
             \/ \E what \in {"desc", "switch"} : hpclientPUT(what)
    BY <2>0, <2>7, UserStarts, SameSearch, SameServices, AskKeepsServices, Sizes
  <2>8. CASE httpput
    BY <2>0, <2>8, ForgetKeepsServices, SameSearch, Sizes
       DEF httpput, Forget, clientVars
  <2>9. CASE UNCHANGED vars
    BY <2>0, <2>9, SameServices, SameSearch DEF vars, clientVars
  <2>. QED
    BY <2>0, <2>1, <2>2, <2>3, <2>4, <2>5, <2>6, <2>7, <2>8, <2>9
       DEF Next, clientVars
<1>. QED BY <1>1, <1>2, PTL DEF ClientsSpec

(* What the search writes to its file and prints is a service of the type  *)
(* and at the location it was asked for, whatever the daemon, Avahi, the   *)
(* main thread's timer and the other clients do meanwhile.                 *)
THEOREM SearchCorrect == ClientsSpec => []SearchIsSound
<1>1. ClientInv => SearchIsSound
  BY DEF ClientInv, SeekInv, Wanted, SearchIsSound, FoundIsWanted
<1>. QED BY <1>1, ClientInvHolds, PTL

-----------------------------------------------------------------------------
(* Only lamps are switched.                                                *)

(* What the example sees is left alone.                                    *)
LEMMA UnseenByExample ==
  ASSUME LampInv, UNCHANGED <<at, url, main, named, switched>>,
         req'[Example] = req[Example]
  PROVE  LampInv'
BY DEF LampInv, StageInv, DescribedInv, LampNamed, OnlyLampsAreSwitched

(* Whatever the bridge does to its table, an address an entry has held is  *)
(* not forgotten.                                                          *)
LEMMA RenumbersKeepsLamps ==
  ASSUME ClientInv, LampInv, Renumbers, UNCHANGED <<sdVars, clientVars>>
  PROVE  LampInv'
<1>1. UNCHANGED <<at, url, main, req, switched>>
  BY DEF Renumbers, sdVars, clientVars
<1>2. \A s \in Port : named[s] \cap Lamp # {} => named'[s] \cap Lamp # {}
  BY DEF Renumbers, ClientInv, TypeOK, ServicesTypeOK
<1>. QED
  BY <1>1, <1>2 DEF LampInv, StageInv, DescribedInv, LampNamed, OnlyLampsAreSwitched

LEMMA PassesKeepsLamps ==
  ASSUME LampInv, NEW c \in Client, Passes(c), UNCHANGED <<sdVars, clientVars>>
  PROVE  LampInv'
<1>0. UNCHANGED <<at, url, main, named, switched>>
  BY DEF Passes, sdVars, clientVars
<1>1. CASE c # Example
  BY <1>0, <1>1, UnseenByExample, Sizes DEF Passes, Changes
<1>2. CASE c = Example
  <2>1. PICK st \in Stages, ans \in Answers :
          /\ Changes(c, st, ans)
          /\ ans = "lamp" =>
               /\ req[c].ans = "lamp"
               /\ st = "done" \/ req[c].st \notin {"sleeping", "done"}
    BY DEF Passes
  <2>. QED
    BY <1>0, <1>2, <2>1 DEF Changes, LampInv, StageInv, DescribedInv,
                            LampNamed, OnlyLampsAreSwitched
<1>. QED BY <1>1, <1>2

(* The bridge takes the request of the example: the device that it         *)
(* switches behind an entry which has held its address only is the lamp    *)
(* that the description was of.                                            *)
LEMMA TakesKeepsLamps ==
  ASSUME ClientInv, LampInv, NEW c \in Client, BridgeTakes(c),
         UNCHANGED <<sdVars, clientVars>>
  PROVE  LampInv'
<1>0. /\ Changes(c, "asked", req[c].ans)
      /\ UNCHANGED <<at, url, main, named>>
      /\ req[c].st = "asking"
  BY Takes DEF sdVars, clientVars, ClientInv, TypeOK, BridgeTakes, At
<1>1. CASE c # Example
  <2>1. UNCHANGED switched
    BY <1>1 DEF BridgeTakes
  <2>. QED BY <1>0, <1>1, <2>1, UnseenByExample, Sizes DEF Changes
<1>2. CASE c = Example /\ req[Example].what = "switch"
  <2>1. at = "switching" /\ req[Example].svc = url
    BY <1>2 DEF LampInv, StageInv
  <2>2. switched' # None => named[url] = {device[url]} /\ switched' = device[url]
    BY <1>2, <2>1 DEF BridgeTakes
  <2>3. named[url] \cap Lamp # {}
    BY <2>1 DEF LampInv, LampNamed
  <2>4. OnlyLampsAreSwitched'
    BY <2>2, <2>3 DEF OnlyLampsAreSwitched
  <2>. QED
    BY <1>0, <1>2, <2>1, <2>4
       DEF Changes, LampInv, StageInv, DescribedInv, LampNamed
<1>3. CASE c = Example /\ req[Example].what # "switch"
  <2>1. UNCHANGED switched
    BY <1>3 DEF BridgeTakes
  <2>. QED
    BY <1>0, <1>3, <2>1 DEF Changes, LampInv, StageInv, DescribedInv,
                            LampNamed, OnlyLampsAreSwitched
<1>. QED BY <1>1, <1>2, <1>3

(* A lamp's description that answers the example comes from a lamp whose   *)
(* address the entry has held.                                             *)
LEMMA ReadsKeepsLamps ==
  ASSUME ClientInv, LampInv, NEW c \in Client, IP_send_String(c),
         UNCHANGED <<sdVars, clientVars>>
  PROVE  LampInv'
<1>1. PICK ans \in {"other", "lamp"} :
        /\ Changes(c, "sleeping", ans)
        /\ ans = "lamp" => named[req[c].svc] \cap Lamp # {}
        /\ UNCHANGED <<named, switched>>
  BY Reads DEF ClientInv, TypeOK
<1>0. UNCHANGED <<at, url, main, named, switched>>
  BY <1>1 DEF sdVars, clientVars
<1>2. CASE c # Example
  BY <1>0, <1>1, <1>2, UnseenByExample, Sizes DEF Changes
<1>3. CASE c = Example
  <2>1. req[c].svc \in Port
    BY DEF IP_send_String, At, ClientInv, PortInv
  <2>2. req[Example].what = "desc" => req[Example].svc = url
    BY DEF LampInv, StageInv
  <2>. QED
    BY <1>0, <1>1, <1>3, <2>1, <2>2
       DEF Changes, LampInv, StageInv, DescribedInv, LampNamed,
           OnlyLampsAreSwitched
<1>. QED BY <1>2, <1>3

(* While the search runs the example has no other request.                 *)
LEMMA SearchKeepsLamps ==
  ASSUME ClientInv, LampInv, Search PROVE LampInv'
<1>1. at = "searching" /\ UNCHANGED <<at, url>>
  BY DEF Search, Discovery, Searching, LampInv, StageInv, ClientInv, TypeOK,
         clientVars
<1>2. /\ UNCHANGED <<named, switched>>
      /\ req'[Example].what \in {"none", "xml"} \/ req'[Example] = req[Example]
  <2>0. req \in [Client -> Requests]
    BY DEF ClientInv, TypeOK, ServicesTypeOK
  <2>1. ASSUME NEW printed, Ends(printed)
        PROVE  UNCHANGED <<named, switched>> /\ req'[Example].what = "none"
    BY <2>0, <2>1, Forgotten, NoRequestIs, Sizes DEF Ends
  <2>2. ASSUME NEW s \in Svc, resolve_callback(s)
        PROVE  /\ UNCHANGED <<named, switched>>
               /\ req'[Example].what \in {"none", "xml"} \/ req' = req
    <3>1. CASE http_get_function(s)
      BY <2>0, <2>1, <3>1, Asks, Sizes DEF http_get_function
    <3>2. CASE ~http_get_function(s)
      BY <2>2, <3>2 DEF resolve_callback, serviceVars
    <3>. QED BY <3>1, <3>2
  <2>3. CASE service_found_callback
    BY <2>0, <2>3, Forgotten, NoRequestIs, Sizes
       DEF service_found_callback, Forget
  <2>4. CASE UNCHANGED serviceVars
    BY <2>4 DEF serviceVars
  <2>5. CASE BrowserFails \/ Leaves \/ avahi_core_stop
    BY <2>1, <2>5 DEF BrowserFails, Leaves, avahi_core_stop
  <2>6. ASSUME NEW s \in Svc, browse_callback(s) PROVE UNCHANGED serviceVars
    BY <2>6 DEF browse_callback
  <2>7. WriteOpens \/ write_str_buffer_to_file \/ HP_client_deinit
          => UNCHANGED serviceVars
    BY DEF WriteOpens, write_str_buffer_to_file, HP_client_deinit
  <2>. QED
    BY <2>2, <2>3, <2>4, <2>5, <2>6, <2>7 DEF Search, Discovery
<1>. QED
  BY <1>1, <1>2 DEF LampInv, StageInv, DescribedInv, LampNamed, OnlyLampsAreSwitched

(* The example goes on to switch a device when it was told it is a lamp.   *)
LEMMA ExampleKeepsLamps ==
  ASSUME ClientInv, LampInv, ExampleStep PROVE LampInv'
<1>0. /\ req \in [Client -> Requests] /\ main' = main
      /\ line \in Svc \cup {None} /\ url \in Svc \cup {None}
  BY DEF ClientInv, TypeOK, ServicesTypeOK, SDTypeOK, ExampleStep, get_desc,
         ODSDL_parser, d_zigbee_device_on, hp_ODSDL_parser, sdVars
<1>. USE Sizes DEF LampInv, StageInv, DescribedInv, LampNamed, OnlyLampsAreSwitched
<1>1. CASE get_desc
  <2>1. Request(Example, line, "desc")
    BY <1>1 DEF get_desc
  <2>2. /\ req'[Example].what = "desc" /\ req'[Example].svc = line
        /\ req'[Example].ans \in {"none", "failed"}
        /\ UNCHANGED <<named, switched>>
    BY <1>0, <2>1, Asks
  <2>. QED BY <1>0, <1>1, <2>2 DEF get_desc
<1>2. CASE ODSDL_parser
  <2>1. /\ at = "describing" /\ UNCHANGED <<url, named, switched>>
        /\ at' = IF KnownDescription(req[Example].ans) THEN "switching" ELSE "end"
        /\ req'[Example].what = "none"
    BY <1>0, <1>2, Forgotten, NoRequestIs DEF ODSDL_parser, Forget
  <2>2. KnownDescription(req[Example].ans) => req[Example].ans = "lamp"
    BY DEF KnownDescription, get_value_from_xml_value
  <2>3. at' = "switching" => LampNamed(url)
    <3>. SUFFICES ASSUME at' = "switching" PROVE LampNamed(url)
      OBVIOUS
    <3>1. req[Example].what = "desc" /\ req[Example].ans = "lamp"
      BY <2>1, <2>2
    <3>. QED BY <3>1
  <2>. QED BY <1>0, <2>1, <2>3
<1>3. CASE d_zigbee_device_on
  <2>1. Request(Example, url, "switch")
    BY <1>3 DEF d_zigbee_device_on
  <2>2. /\ req'[Example].what = "switch" /\ req'[Example].svc = url
        /\ UNCHANGED <<named, switched>>
    BY <1>0, <2>1, Asks
  <2>. QED BY <1>0, <1>3, <2>2 DEF d_zigbee_device_on
<1>4. CASE hp_ODSDL_parser
  <2>1. /\ at = "switching" /\ at' = "end"
        /\ UNCHANGED <<url, named, switched>>
        /\ req'[Example].what = "none"
    BY <1>0, <1>4, Forgotten, NoRequestIs DEF hp_ODSDL_parser, Forget
  <2>. QED BY <1>0, <2>1
<1>. QED BY <1>1, <1>2, <1>3, <1>4 DEF ExampleStep

(* The example switches no device but a lamp, over the search, the daemon, *)
(* the bridge and any number of other clients, behind every port whose     *)
(* entry has held no network address but that of the device.               *)
THEOREM LampsOnly == ClientsSpec => []OnlyLampsAreSwitched
<1>1. Init => LampInv
  <2>. SUFFICES ASSUME Init PROVE LampInv
    OBVIOUS
  <2>1. req[Example].what = "none" /\ switched = None
    BY Sizes, NoRequestIs DEF Init, ServicesInit
  <2>2. at = "start" /\ main = "none"
    BY DEF Init, SDInit
  <2>. QED
    BY <2>1, <2>2 DEF LampInv, StageInv, DescribedInv, LampNamed, OnlyLampsAreSwitched
<1>2. ClientInv /\ LampInv /\ [Next]_vars => LampInv'
  <2>. SUFFICES ASSUME ClientInv, LampInv, [Next]_vars PROVE LampInv'
    OBVIOUS
  <2>0. req \in [Client -> Requests] /\ ServicesOK /\ ServicesTypeOK /\ PortInv
    BY DEF ClientInv, TypeOK, ServicesTypeOK, ServicesOK
  <2>1. CASE (StartsUp \/ HPD_register_service) /\ UNCHANGED <<sdVars, clientVars>>
    BY <2>1, UnseenByExample
       DEF StartsUp, HPD_register_service, sdVars, clientVars
  <2>2. CASE Renumbers /\ UNCHANGED <<sdVars, clientVars>>
    BY <2>2, RenumbersKeepsLamps
  <2>3. CASE Reports
    BY <2>0, <2>3, ReportPasses, PassesKeepsLamps DEF Reports
  <2>4. ASSUME NEW c \in Client, Handlers(c) PROVE LampInv'
    BY <2>0, <2>4, HandlerCases, TakesKeepsLamps, ReadsKeepsLamps,
       PassesKeepsLamps DEF Handlers
  <2>5. CASE Search
    BY <2>5, SearchKeepsLamps
  <2>6. CASE find_service_at_location
    BY <2>6 DEF find_service_at_location, HP_client_init, serviceVars, LampInv,
                StageInv, DescribedInv, LampNamed, OnlyLampsAreSwitched
  <2>7. CASE ExampleStep
    BY <2>7, ExampleKeepsLamps
  <2>8. CASE hpclientXML \/ hpclientGET
             \/ \E what \in {"desc", "switch"} : hpclientPUT(what)
    <3>1. UNCHANGED <<at, url, main>>
      BY <2>8, UserStarts DEF sdVars
    <3>2. UNCHANGED <<named, switched>> /\ req'[Example] = req[Example]
      BY <2>0, <2>8, UserStarts, Asks, Sizes DEF serviceVars
    <3>. QED BY <3>1, <3>2, UnseenByExample
  <2>9. CASE httpput
    <3>1. req'[Example] = req[Example]
      BY <2>0, <2>9, Forgotten, Sizes DEF httpput, Forget
    <3>. QED
      BY <2>9, <3>1, UnseenByExample DEF httpput, Forget, sdVars, clientVars
  <2>10. CASE UNCHANGED vars
    BY <2>10, UnseenByExample DEF vars, sdVars, clientVars, serviceVars
  <2>. QED
    BY <2>1, <2>2, <2>3, <2>4, <2>5, <2>6, <2>7, <2>8, <2>9, <2>10 DEF Next
<1>3. LampInv => OnlyLampsAreSwitched
  BY DEF LampInv
<1>. QED BY <1>1, <1>2, <1>3, ClientInvHolds, PTL DEF ClientsSpec
=============================================================================
