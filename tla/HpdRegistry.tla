---------------------------- MODULE HpdRegistry -----------------------------
(***************************************************************************)
(* The service registry of the HomePort daemon (hpd_web_server.c, with     *)
(* homeport.c above it and the lists of hpd_http_web_server.c and          *)
(* hpd_https_web_server.c below).  One application thread starts and stops *)
(* the daemon, and creates, registers, unregisters and destroys services.  *)
(* A call goes through several parts: the list of the web server, the      *)
(* description, Avahi and the availability event; each is a step here,     *)
(* because the threads of the web servers and of Avahi run in between, and *)
(* because a part that fails leaves the ones before it as they are.        *)
(***************************************************************************)
EXTENDS HpdServices, AvahiPublish

CONSTANTS
  Secure,       \* the devices with HPD_SECURE_DEVICE
  NULL

\* No two structures bear the same names.  The daemon compares names only:
\* twins on the two servers would share a node of the description.
ASSUME DistinctNames ==
  /\ DevOf \in [Service -> Device]
  /\ DOMAIN DevName = Device /\ DOMAIN SvcName = Service
  /\ Secure \subseteq Device
  /\ \A s, t \in Service : Url(s) = Url(t) => s = t
  /\ \A d, e \in Device : DevName[d] = DevName[e] => d = e
  /\ NULL \notin Service

VARIABLES
  up,           \* the parts of the server that run
  http_list,    \* service_head of the web server
  https_list,   \* secure_service_head
  xml_tree,     \* the description
  told,         \* the last availability event of a service
  call,         \* the call of the application that is under way
  last          \* what the last call was about and what it returned

serverVars == <<up, http_list, https_list, xml_tree, told>>

regVars == <<structVars, serverVars, avahiVars, call, last>>

Parts == {"xml", "events", "http", "https", "avahi"}

Listed == http_list \cup https_list

Idle == call.step = "idle"

\* The steps of a call in their order; "next" takes the next service of a loop.
Steps == {"idle", "next", "list", "xml", "events", "http", "https", "avahi",
          "notify"}

Calls == {"none", "start", "stop", "register", "unregister"}

\* HPD_E_SUCCESS, an error of a part that fails to start, and the errors of
\* registering and unregistering.
Codes == {"SUCCESS", "ERROR", "ALREADY_REGISTER", "NOT_REGISTER", "XML_ERROR",
          "AVAHI_ERROR", "SERVICE_NOT_FOUND"}

At(op, step) == call.op = op /\ call.step = step

GoTo(step) == call' = [call EXCEPT !.step = step] /\ UNCHANGED last

Return(rc) ==
  /\ call' = [op |-> "none", step |-> "idle", svc |-> NULL, todo |-> {},
              all |-> {}]
  /\ last' = [op |-> call.op, all |-> call.all, rc |-> rc]

Begin(op, step, S) ==
  /\ Idle
  /\ call' = [op |-> op, step |-> step, svc |-> NULL, todo |-> S, all |-> S]
  /\ UNCHANGED last

RegInit ==
  /\ StructInit
  /\ AvahiInit
  /\ up = {}
  /\ http_list = {} /\ https_list = {}
  /\ xml_tree = init_xml_file
  /\ told = [s \in Service |-> "new"]
  /\ call = [op |-> "none", step |-> "idle", svc |-> NULL, todo |-> {},
             all |-> {}]
  /\ last = [op |-> "none", all |-> {}, rc |-> "SUCCESS"]

\* A start that failed ends the program: every application returns from main.
Running == last.op = "start" => last.rc = "SUCCESS"

(***************************************************************************)
(* HPD_start and HPD_stop.                                                 *)
(***************************************************************************)
HPD_start ==
  /\ up = {}
  /\ Running
  /\ Begin("start", "xml", {})
  /\ UNCHANGED <<structVars, serverVars, avahiVars>>

\* The document is new; the queues and their thread follow.
init_xml ==
  /\ At("start", "xml")
  /\ xml_tree' = init_xml_file
  /\ up' = up \cup {"xml"}
  /\ GoTo("events")
  /\ UNCHANGED <<structVars, avahiVars, http_list, https_list, told>>

\* A part that starts, or fails and leaves the parts before it running.
StartPart(part, next) ==
  /\ At("start", part)
  /\ \/ up' = up \cup {part} /\ GoTo(next)
     \/ up' = up /\ Return("ERROR")
  /\ UNCHANGED <<structVars, avahiVars, http_list, https_list, xml_tree, told>>

start_unsecure_server == StartPart("http", "https")

start_secure_server == StartPart("https", "avahi")

start_server ==
  \/ init_xml
  \/ StartPart("events", "http")
  \/ start_unsecure_server
  \/ start_secure_server
  \/ /\ At("start", "avahi")
     /\ \E ok \in BOOLEAN :
          /\ avahi_start(ok)
          /\ up' = IF ok THEN up \cup {"avahi"} ELSE up
          /\ Return(IF ok THEN "SUCCESS" ELSE "ERROR")
     /\ UNCHANGED <<structVars, http_list, https_list, xml_tree, told>>

HPD_stop ==
  /\ up = Parts
  /\ Begin("stop", "events", {})
  /\ UNCHANGED <<structVars, serverVars, avahiVars>>

\* Every session goes with its queue.
free_events ==
  /\ At("stop", "events")
  /\ up' = up \ {"events"}
  /\ told' = [s \in Service |-> "new"]
  /\ GoTo("http")
  /\ UNCHANGED <<structVars, avahiVars, http_list, https_list, xml_tree>>

free_unsecure_server_services ==
  destroy_services(http_list) /\ http_list' = {} /\ UNCHANGED https_list

free_secure_server_services ==
  destroy_services(https_list) /\ https_list' = {} /\ UNCHANGED http_list

\* The registered services are destroyed before the web server is stopped.
stop_unsecure_server ==
  /\ At("stop", "http")
  /\ free_unsecure_server_services
  /\ up' = up \ {"http"}
  /\ GoTo("https")
  /\ UNCHANGED <<avahiVars, xml_tree, told>>

stop_secure_server ==
  /\ At("stop", "https")
  /\ free_secure_server_services
  /\ up' = up \ {"https"}
  /\ GoTo("xml")
  /\ UNCHANGED <<avahiVars, xml_tree, told>>

delete_xml ==
  /\ At("stop", "xml")
  /\ xml_tree' = init_xml_file
  /\ up' = up \ {"xml"}
  /\ GoTo("avahi")
  /\ UNCHANGED <<structVars, avahiVars, http_list, https_list, told>>

stop_server ==
  \/ free_events
  \/ stop_unsecure_server
  \/ stop_secure_server
  \/ delete_xml
  \/ /\ At("stop", "avahi")
     /\ avahi_quit
     /\ up' = up \ {"avahi"}
     /\ Return("SUCCESS")
     /\ UNCHANGED <<structVars, http_list, https_list, xml_tree, told>>

(***************************************************************************)
(* Registering and unregistering.  A call for a device does its services   *)
(* one after the other and ends at the first that fails.                   *)
(***************************************************************************)
register_service_in_unsecure_server(s) ==
  http_list' = http_list \cup {s} /\ UNCHANGED https_list

register_service_in_secure_server(s) ==
  https_list' = https_list \cup {s} /\ UNCHANGED http_list

\* The element with the same URL is removed, whichever structure it holds.
unregister_service_in_unsecure_server(s) ==
  /\ http_list' = {e \in http_list : Url(e) # Url(s)}
  /\ UNCHANGED https_list

unregister_service_in_secure_server(s) ==
  /\ https_list' = {e \in https_list : Url(e) # Url(s)}
  /\ UNCHANGED http_list

is_unsecure_service_registered(s) == \E e \in http_list : Url(e) = Url(s)

is_secure_service_registered(s) == \E e \in https_list : Url(e) = Url(s)

is_service_registered(s) ==
  IF DevOf[s] \in Secure THEN is_secure_service_registered(s)
  ELSE is_unsecure_service_registered(s)

(***************************************************************************)
(* Looking up by the names of a device and a service, in the first list    *)
(* and then in the second.  A result is the set of what may be found.      *)
(***************************************************************************)
get_service_from_unsecure_server(d, v) == {s \in http_list : Url(s) = <<d, v>>}

get_service_from_secure_server(d, v) == {s \in https_list : Url(s) = <<d, v>>}

get_service_from_server(d, v) ==
  IF get_service_from_unsecure_server(d, v) # {}
  THEN get_service_from_unsecure_server(d, v)
  ELSE get_service_from_secure_server(d, v)

HPD_get_service(d, v) == get_service_from_server(d, v)

get_device_from_unsecure_server(d) ==
  {DevOf[s] : s \in {e \in http_list : DevName[DevOf[e]] = d}}

get_device_from_secure_server(d) ==
  {DevOf[s] : s \in {e \in https_list : DevName[DevOf[e]] = d}}

get_device_from_server(d) ==
  IF get_device_from_unsecure_server(d) # {}
  THEN get_device_from_unsecure_server(d)
  ELSE get_device_from_secure_server(d)

HPD_get_device(d) == get_device_from_server(d)

Registered == {s \in Service : is_service_registered(s)}

HPD_register_service(s) ==
  /\ up = Parts
  /\ s \in services
  /\ Begin("register", "next", {s})
  /\ UNCHANGED <<structVars, serverVars, avahiVars>>

HPD_unregister_service(s) ==
  /\ up = Parts
  /\ s \in services
  /\ Begin("unregister", "next", {s})
  /\ UNCHANGED <<structVars, serverVars, avahiVars>>

\* Only for devices of the first server: for a secure device the code passes
\* list elements where services are expected.
register_device_services(d) ==
  /\ up = Parts
  /\ d \in devices \ Secure
  /\ Begin("register", "next", service_head[d])
  /\ UNCHANGED <<structVars, serverVars, avahiVars>>

unregister_device_services(d) ==
  /\ up = Parts
  /\ d \in devices \ Secure
  /\ Begin("unregister", "next", service_head[d])
  /\ UNCHANGED <<structVars, serverVars, avahiVars>>

NextService ==
  /\ call.step = "next"
  /\ IF call.todo = {} THEN Return("SUCCESS")
     ELSE /\ \E s \in call.todo :
               call' = [call EXCEPT !.step = "list", !.svc = s,
                                    !.todo = @ \ {s}]
          /\ UNCHANGED last
  /\ UNCHANGED <<structVars, serverVars, avahiVars>>

register_in_list ==
  /\ At("register", "list")
  /\ IF is_service_registered(call.svc)
     THEN Return("ALREADY_REGISTER") /\ UNCHANGED <<http_list, https_list>>
     ELSE /\ IF DevOf[call.svc] \in Secure
             THEN register_service_in_secure_server(call.svc)
             ELSE register_service_in_unsecure_server(call.svc)
          /\ GoTo("xml")
  /\ UNCHANGED <<structVars, avahiVars, up, xml_tree, told>>

\* -1 and -2 are the only results looked at, and the description has others.
register_in_xml ==
  /\ At("register", "xml")
  /\ xml_tree' = add_service_to_xml(xml_tree, call.svc)
  /\ GoTo("avahi")
  /\ UNCHANGED <<structVars, avahiVars, up, http_list, https_list, told>>

\* Mutant: the result of Avahi is ignored.
register_in_avahiBlind ==
  /\ At("register", "avahi")
  /\ \E ok \in BOOLEAN : avahi_create_service(call.svc, ok)
  /\ GoTo("notify")
  /\ UNCHANGED <<structVars, serverVars>>

\* avahi_create_service has no prototype here and returns nothing: what is
\* left in the register is the result of the function it calls.
register_in_avahi ==
  /\ At("register", "avahi")
  /\ \E ok \in BOOLEAN :
       /\ avahi_create_service(call.svc, ok)
       /\ IF ok THEN GoTo("notify") ELSE Return("AVAHI_ERROR")
  /\ UNCHANGED <<structVars, serverVars>>

notify_registered ==
  /\ At("register", "notify")
  /\ told' = [told EXCEPT ![call.svc] = "YES"]
  /\ GoTo("next")
  /\ UNCHANGED <<structVars, avahiVars, up, http_list, https_list, xml_tree>>

register_service_in_server ==
  register_in_list \/ register_in_xml \/ register_in_avahi
    \/ notify_registered

unregister_in_list ==
  /\ At("unregister", "list")
  /\ IF ~is_service_registered(call.svc)
     THEN Return("NOT_REGISTER") /\ UNCHANGED <<http_list, https_list>>
     ELSE /\ IF DevOf[call.svc] \in Secure
             THEN unregister_service_in_secure_server(call.svc)
             ELSE unregister_service_in_unsecure_server(call.svc)
          /\ GoTo("xml")
  /\ UNCHANGED <<structVars, avahiVars, up, xml_tree, told>>

unregister_in_xml ==
  /\ At("unregister", "xml")
  /\ IF ~service_is_in_xml_file(xml_tree, call.svc)
     THEN Return("XML_ERROR") /\ UNCHANGED xml_tree
     ELSE /\ xml_tree' = remove_service_from_XML(xml_tree, call.svc)
          /\ GoTo("avahi")
  /\ UNCHANGED <<structVars, avahiVars, up, http_list, https_list, told>>

unregister_in_avahi ==
  /\ At("unregister", "avahi")
  /\ avahi_remove_service(call.svc)
  /\ IF Published(call.svc) = {} THEN Return("SERVICE_NOT_FOUND")
     ELSE GoTo("notify")
  /\ UNCHANGED <<structVars, serverVars>>

\* Mutant: the clients are not told.
notify_unregisteredNot ==
  /\ At("unregister", "notify")
  /\ GoTo("next")
  /\ UNCHANGED <<structVars, serverVars, avahiVars>>

notify_unregistered ==
  /\ At("unregister", "notify")
  /\ told' = [told EXCEPT ![call.svc] = "NO"]
  /\ GoTo("next")
  /\ UNCHANGED <<structVars, avahiVars, up, http_list, https_list, xml_tree>>

unregister_service_in_server ==
  unregister_in_list \/ unregister_in_xml \/ unregister_in_avahi
    \/ notify_unregistered

(***************************************************************************)
(* Creating and destroying, between two calls.  A destruction asks whether *)
(* the service is registered, which takes a server that was started.       *)
(***************************************************************************)
CreateDevice(d) ==
  /\ Idle /\ Running
  /\ create_device_struct(d)
  /\ UNCHANGED <<serverVars, avahiVars, call, last>>

\* The application creates a service once.
CreateService(s) ==
  /\ Idle /\ Running
  /\ create_service_struct(s)
  /\ UNCHANGED <<serverVars, avahiVars, call, last>>

\* What assert(d) asks for: a daemon was started, and may be stopped again.
WasStarted == up = Parts \/ last.op = "stop"

\* Mutant: nobody asks whether the service is registered.
DestroyServiceUnasked(s) ==
  /\ Idle
  /\ WasStarted
  /\ s \in services
  /\ destroy_service_struct(s)
  /\ UNCHANGED <<serverVars, avahiVars, call, last>>

DestroyService(s) ==
  /\ Idle
  /\ WasStarted
  /\ s \in services
  /\ IF is_service_registered(s) THEN UNCHANGED structVars
     ELSE destroy_service_struct(s)
  /\ UNCHANGED <<serverVars, avahiVars, call, last>>

DestroyDevice(d) ==
  /\ Idle
  /\ WasStarted
  /\ d \in devices
  /\ destroy_device_struct(d, Registered)
  /\ UNCHANGED <<serverVars, avahiVars, call, last>>

AvahiRuns ==
  /\ AvahiCallback
  /\ UNCHANGED <<structVars, serverVars, call, last>>

RegNext ==
  \/ HPD_start
  \/ start_server
  \/ HPD_stop
  \/ stop_server
  \/ \E s \in Service : HPD_register_service(s) \/ HPD_unregister_service(s)
  \/ \E d \in Device :
       register_device_services(d) \/ unregister_device_services(d)
  \/ NextService
  \/ register_service_in_server
  \/ unregister_service_in_server
  \/ \E d \in Device : CreateDevice(d) \/ DestroyDevice(d)
  \/ \E s \in Service : CreateService(s) \/ DestroyService(s)
  \/ AvahiRuns

TypeOK ==
  /\ StructTypeOK
  /\ AvahiTypeOK
  /\ up \subseteq Parts
  /\ http_list \subseteq Service /\ https_list \subseteq Service
  /\ xml_tree \in Trees
  /\ told \in [Service -> {"new", "YES", "NO"}]
  /\ call \in [op : Calls, step : Steps, svc : Service \cup {NULL},
               todo : SUBSET Service, all : SUBSET Service]
  /\ last \in [op : Calls, all : SUBSET Service, rc : Codes]

RegSpec == RegInit /\ [][RegNext]_regVars

(***************************************************************************)
(* What must hold.                                                         *)
(***************************************************************************)
InCall(op, step, s) == At(op, step) /\ call.svc = s

Stopping == call.op = "stop"

Described(s) == service_is_in_xml_file(xml_tree, s)

\* A web server answers for a service through pointers to its structure and to
\* that of its device: neither is freed while the service is listed, and a
\* device that is allocated lists allocated services only (destroy_service_struct
\* takes the device along with its last service).
ListedIsAlive ==
  /\ Listed \subseteq services
  /\ \A s \in services :
       DevOf[s] \in devices /\ s \in service_head[DevOf[s]]
  /\ \A d \in devices : service_head[d] \subseteq services

\* HPD_get_service and HPD_get_device, given the names in a description, return
\* the service and the device that bear them, through both lists, and nothing
\* once the service, or the last service of the device, is unregistered.
LookupFindsListed ==
  \A s \in Service :
    /\ HPD_get_service(DevName[DevOf[s]], SvcName[s]) = Listed \cap {s}
    /\ HPD_get_device(DevName[DevOf[s]]) =
         {d \in {DevOf[s]} : \E t \in Listed : DevOf[t] = d}

\* The lists, and what is found through them, consist of allocated structures
\* of the right kind.
ListsAreSound == TypeOK /\ ListedIsAlive /\ LookupFindsListed

\* The description and the lists of the web servers name the same services,
\* but for the one service between the two steps of its own call and for the
\* end of the server: a call that fails on the way leaves no service in one of
\* them and not in the other.
ListedIsDescribed ==
  \A s \in Service :
    /\ s \in Listed => Described(s) \/ InCall("register", "xml", s)
    /\ Described(s) =>
         s \in Listed \/ InCall("unregister", "xml", s) \/ Stopping

\* What is published with Avahi can be requested, and what was announced to
\* the clients is published, but for the service that is on its way out.
AdvertisedIsListed ==
  \A s \in Service :
    /\ s \in groups =>
         \/ s \in Listed
         \/ InCall("unregister", "xml", s)
         \/ InCall("unregister", "avahi", s)
         \/ Stopping
    /\ told[s] = "YES" =>
         s \in groups \/ InCall("unregister", "notify", s)

\* What was described, published and announced agrees with the lists of the
\* web servers: whichever step of a call fails, no part is left behind.
PartsAgree == ListedIsDescribed /\ AdvertisedIsListed

\* HPD_register_service and HPD_register_device_services that return SUCCESS
\* have done all of their parts for all of the services, and the same for
\* unregistering; a failure on the way is reported.
SuccessMeansDone ==
  Idle /\ last.rc = "SUCCESS" =>
    \A s \in last.all :
      IF last.op = "register"
      THEN s \in Listed \cap groups /\ Described(s) /\ told[s] = "YES"
      ELSE s \notin Listed \cup groups /\ ~Described(s) /\ told[s] # "YES"

\* Through all partial failures the daemon keeps the promise of ServiceCatalog:
\* availability events alternate, and tell only what is so.
Catalog ==
  INSTANCE ServiceCatalog WITH
    available <- {s \in Listed \cap groups : told[s] = "YES" /\ Described(s)}

ImplementsCatalog == Catalog!Catalog
=============================================================================
