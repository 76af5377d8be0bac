---------------------------- MODULE HpdServices -----------------------------
(***************************************************************************)
(* The structures of services and devices (hpd_services.c): which are      *)
(* allocated and which services a device lists.  The service list of a     *)
(* device is a set, and loops over it take its elements in any order.      *)
(* Strings, parameters and the fields the code only copies are left out.   *)
(***************************************************************************)
EXTENDS HpdXml

VARIABLES
  services,     \* allocated service structures
  devices,      \* allocated device structures
  service_head  \* the services in the list of a device
structVars == <<services, devices, service_head>>

StructTypeOK ==
  /\ services \subseteq Service
  /\ devices \subseteq Device
  /\ service_head \in [Device -> SUBSET Service]

StructInit ==
  /\ services = {}
  /\ devices = {}
  /\ service_head = [d \in Device |-> {}]

create_device_struct(d) ==
  /\ d \notin devices
  /\ devices' = devices \cup {d}
  /\ service_head' = [service_head EXCEPT ![d] = {}]
  /\ UNCHANGED services

\* Two services are the same to a list when their URLs are equal.
cmp_ServiceElement(a, b) == Url(a) = Url(b)

\* SERVICE_ALREADY_IN_LIST leaves the list alone.
add_service_to_device(s, d) ==
  IF \E e \in service_head[d] : cmp_ServiceElement(e, s) THEN service_head
  ELSE [service_head EXCEPT ![d] = @ \cup {s}]

\* Only the result -1 of add_service_to_device is an error: a service that the
\* device lists already is returned all the same.
create_service_struct(s) ==
  /\ s \notin services
  /\ DevOf[s] \in devices
  /\ services' = services \cup {s}
  /\ service_head' = add_service_to_device(s, DevOf[s])
  /\ UNCHANGED devices

\* The element that is removed is found by the names of the service.
remove_service_from_device(s, d) ==
  {e \in service_head[d] : SvcName[e] # SvcName[s]}

\* Destroying a service removes it from the list of its device, and the
\* device goes with the last one.
destroy_service_struct(s) ==
  LET d == DevOf[s]
      left == remove_service_from_device(s, d)
  IN  /\ services' = services \ {s}
      /\ service_head' = [service_head EXCEPT ![d] = left]
      /\ devices' = IF service_head[d] # {} /\ left = {} THEN devices \ {d}
                    ELSE devices

\* One destruction after the other, for every service of a list.
destroy_services(S) ==
  /\ services' = services \ S
  /\ service_head' = [d \in Device |-> service_head[d] \ S]
  /\ devices' = {d \in devices : service_head[d] \cap S = {}
                                 \/ service_head[d] \ S # {}}

\* The loop ends at the first registered service; those before it are gone.
destroy_device_struct(d, registered) ==
  LET kept == service_head[d] \cap registered
  IN  \E S \in SUBSET (service_head[d] \ kept) :
        /\ kept = {} => S = service_head[d]
        /\ services' = services \ S
        /\ service_head' = [service_head EXCEPT ![d] = @ \ S]
        /\ devices' = IF kept = {} THEN devices \ {d} ELSE devices
=============================================================================
