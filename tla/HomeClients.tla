----------------------------- MODULE HomeClients ----------------------------
(***************************************************************************)
(* The programs that use a home: the example (Example/ztest.c with         *)
(* ihaplite/parser.c and utils.c), which searches for a service, asks its  *)
(* device for a description and switches it when it knows the description; *)
(* and a user of hpclientPUT, who gets, describes or switches the service  *)
(* of the file that the search writes.                                     *)
(***************************************************************************)
EXTENDS ServiceDiscovery

CONSTANTS User, MaxUses         \* the user, and a bound on the uses

ASSUME UserAssumption ==
  User \in Client \ {Example} /\ MaxUses \in Nat

VARIABLES
  at,           \* where the example is
  url,          \* the service its URL names
  uses          \* uses of hpclientPUT by the user so far
clientVars == <<at, url, uses>>
vars == <<serviceVars, sdVars, clientVars>>

TypeOK ==
  /\ ServicesTypeOK /\ SDTypeOK
  /\ at \in {"start", "searching", "describing", "switching", "end"}
  /\ url \in Svc \cup {None}
  /\ uses \in 0 .. MaxUses

Init ==
  /\ ServicesInit /\ SDInit
  /\ at = "start" /\ url = None /\ uses = 0

-----------------------------------------------------------------------------
(* The example reads the first line of the search's output; without one    *)
(* its URL is what its memory held, which names no service.                *)
find_service_at_location ==
  /\ at = "start" /\ at' = "searching"
  /\ HP_client_init
  /\ UNCHANGED <<url, uses>>

get_desc ==
  /\ at = "searching" /\ main = "ended"
  /\ url' = line /\ at' = "describing"
  /\ Request(Example, line, "desc")
  /\ UNCHANGED <<uses, sdVars>>

(* What is printed of an answer: a failed request has no value.            *)
get_value_from_xml_value(ans) == IF ans = "failed" THEN None ELSE ans

(* Mutant: every device is taken for a lamp.                               *)
KnownDescriptionAny(ans) == get_value_from_xml_value(ans) # None

(* hpclientPUT prints the value of the answer; ODSDL_parser compares it.   *)
KnownDescription(ans) == get_value_from_xml_value(ans) = "lamp"

ODSDL_parser ==
  /\ at = "describing" /\ Reply(Example)
  /\ at' = IF KnownDescription(req[Example].ans) THEN "switching" ELSE "end"
  /\ Forget(Example)
  /\ UNCHANGED <<url, uses, sdVars>>

d_zigbee_device_on ==
  /\ at = "switching" /\ At(Example, "idle")
  /\ Request(Example, url, "switch")
  /\ UNCHANGED <<at, url, uses, sdVars>>

hp_ODSDL_parser ==
  /\ at = "switching" /\ Reply(Example)
  /\ at' = "end"
  /\ Forget(Example)
  /\ UNCHANGED <<url, uses, sdVars>>

ExampleStep == get_desc \/ ODSDL_parser \/ d_zigbee_device_on
               \/ hp_ODSDL_parser

-----------------------------------------------------------------------------
(* FILE: an empty file and none give a URL that fails.         *)
FileUrl == IF file \in Svc THEN file ELSE None

(* A use of hpclientPUT.  XML and GET need curl, and crash if it could not *)
(* be set up; PUT writes its request itself.                               *)
Uses(Started) ==
  /\ uses < MaxUses /\ uses' = uses + 1
  /\ Started
  /\ UNCHANGED <<at, url, sdVars>>

http_get(s, what) == Request(User, s, what) \/ UNCHANGED serviceVars

hpclientXML == Uses(\E s \in Svc : http_get(s, "xml"))

hpclientGET == Uses(http_get(FileUrl, "get"))

hpclientPUT(what) == Uses(Request(User, FileUrl, what))

httpput ==
  /\ Reply(User)
  /\ Forget(User)
  /\ UNCHANGED <<clientVars, sdVars>>

-----------------------------------------------------------------------------
Handlers(c) == HandlerStep(c) /\ UNCHANGED <<sdVars, clientVars>>

Reports == (\E c \in Client : UDP_broadcast(c))
           /\ UNCHANGED <<sdVars, clientVars>>

Search == Discovery /\ UNCHANGED clientVars

Next ==
  \/ (StartsUp \/ HPD_register_service \/ Renumbers) /\ UNCHANGED <<sdVars, clientVars>>
  \/ Reports
  \/ \E c \in Client : Handlers(c)
  \/ Search
  \/ find_service_at_location \/ ExampleStep
  \/ hpclientXML \/ hpclientGET
  \/ \E what \in {"desc", "switch"} : hpclientPUT(what)
  \/ httpput

(* Threads and programs run; devices report when they like.                *)
Fairness ==
  /\ WF_vars((StartsUp \/ HPD_register_service) /\ UNCHANGED <<sdVars, clientVars>>)
  /\ \A c \in Client : WF_vars(Handlers(c))
  /\ WF_vars(find_service_at_location) /\ WF_vars(ExampleStep)
  /\ WF_vars(httpput)
  /\ WF_vars(service_found_callback /\ UNCHANGED clientVars)
  /\ WF_vars(WriteOpens /\ UNCHANGED clientVars)
  /\ WF_vars(write_str_buffer_to_file /\ UNCHANGED clientVars)
  /\ WF_vars(Leaves /\ UNCHANGED clientVars)
  /\ WF_vars(HP_client_deinit /\ UNCHANGED clientVars)
  /\ SF_vars(avahi_core_stop /\ UNCHANGED clientVars)

ClientsSpec == Init /\ [][Next]_vars /\ Fairness

-----------------------------------------------------------------------------
(***************************************************************************)
(* What the example reads as a lamp's description leads it to a lamp: it   *)
(* switches another device only behind a port whose entry has held the     *)
(* network address of some other device (the bridge asks for descriptions  *)
(* and routes them by network address, and switches by IEEE address).      *)
(***************************************************************************)
OnlyLampsAreSwitched == switched # None => switched \in Lamp

(***************************************************************************)
(* The example ends, unless some request holds a service for good: a GET   *)
(* that no report answers, or a PUT whose exchange the bridge lost; there  *)
(* is no timeout in any of these programs.                                 *)
(***************************************************************************)
ExampleEnds == <>(at = "end") \/ []<>(\E c \in Client : Holding(c))

(***************************************************************************)
(* What the search hands on names a service as it was asked for.           *)
(***************************************************************************)
SearchIsSound == TypeOK /\ FoundIsWanted
=============================================================================
