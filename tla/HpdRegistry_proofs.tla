------------------------- MODULE HpdRegistry_proofs -------------------------
(***************************************************************************)
(* Theorems about the service registry of the daemon, for every set of     *)
(* devices and services, every division of the devices among the two       *)
(* servers, both Avahi builds and every step at which a call may fail.     *)
(***************************************************************************)
EXTENDS HpdRegistry, TLAPS

-----------------------------------------------------------------------------
(* The description.                                                        *)

(* Two services are one when their names are, and a name of a device is    *)
(* that of one device.                                                     *)
LEMMA NamesTell ==
  ASSUME NEW s \in Service, NEW t \in Service
  PROVE  /\ DevOf[s] \in Device
         /\ DevName[DevOf[s]] \in Names(DevName)
         /\ SvcName[s] \in Names(SvcName)
         /\ Url(s) = Url(t) <=> s = t
         /\ DevName[DevOf[s]] = DevName[DevOf[t]] => DevOf[s] = DevOf[t]
         /\ /\ DevName[DevOf[s]] = DevName[DevOf[t]]
            /\ SvcName[s] = SvcName[t]
            => s = t
  <1>1. DevOf[s] \in Device /\ DevOf[t] \in Device
    BY DistinctNames
  <1>2. DevName[DevOf[s]] \in Names(DevName) /\ SvcName[s] \in Names(SvcName)
    BY <1>1, DistinctNames DEF Names
  <1>3. Url(s) = Url(t) => s = t
    BY DistinctNames
  <1> QED
    BY <1>1, <1>2, <1>3, DistinctNames DEF Url

(* A new document describes nothing.                                       *)
LEMMA NothingDescribed ==
  /\ init_xml_file \in Trees
  /\ \A s \in Service : ~service_is_in_xml_file(init_xml_file, s)
  <1>1. init_xml_file = [n \in {} |-> {}]
    BY DEF init_xml_file
  <1>2. [n \in {} |-> {}] \in [{} -> SUBSET Names(SvcName)]
    OBVIOUS
  <1>3. init_xml_file \in Trees
    BY <1>1, <1>2 DEF Trees
  <1>4. DOMAIN init_xml_file = {}
    BY <1>1
  <1> QED
    BY <1>3, <1>4 DEF service_is_in_xml_file, device_is_in_xml_file

(* add_service_to_xml describes the service and no other, whether or not   *)
(* its device has a node (hpd_xml.c).                                      *)
LEMMA AddDescribes ==
  ASSUME NEW tree \in Trees, NEW s \in Service
  PROVE  /\ add_service_to_xml(tree, s) \in Trees
         /\ \A t \in Service :
              service_is_in_xml_file(add_service_to_xml(tree, s), t)
                <=> t = s \/ service_is_in_xml_file(tree, t)
  <1> DEFINE n == DevName[DevOf[s]]
             with == add_device_to_xml(tree, DevOf[s])
  <1>1. n \in Names(DevName) /\ SvcName[s] \in Names(SvcName)
    BY NamesTell
  <1>2. PICK D \in SUBSET Names(DevName) :
          tree \in [D -> SUBSET Names(SvcName)]
    BY DEF Trees
  <1>3. DOMAIN with = D \cup {n}
    BY <1>2 DEF add_device_to_xml, device_is_in_xml_file
  <1>4. /\ with \in [D \cup {n} -> SUBSET Names(SvcName)]
        /\ \A x \in D : with[x] = tree[x]
        /\ n \notin D => with[n] = {}
    <2>1. CASE n \in D
      <3>1. with = tree /\ D \cup {n} = D
        BY <1>2, <2>1 DEF add_device_to_xml, device_is_in_xml_file
      <3> QED
        BY <1>2, <2>1, <3>1
    <2>2. CASE n \notin D
      <3>1. with = [x \in D \cup {n} |-> IF x \in D THEN tree[x] ELSE {}]
        BY <1>2, <2>2 DEF add_device_to_xml, device_is_in_xml_file
      <3> QED
        BY <1>2, <2>2, <3>1
    <2> QED
      BY <2>1, <2>2
  <1> HIDE DEF with
  <1>5. CASE service_is_in_xml_file(tree, s)
    BY <1>5 DEF add_service_to_xml
  <1>6. CASE ~service_is_in_xml_file(tree, s)
    <2> DEFINE new == [with EXCEPT ![n] = @ \cup {SvcName[s]}]
    <2>1. add_service_to_xml(tree, s) = new
      BY <1>6 DEF add_service_to_xml, with
    <2>2. /\ new \in [D \cup {n} -> SUBSET Names(SvcName)]
          /\ new[n] = with[n] \cup {SvcName[s]}
          /\ \A x \in D : x # n => new[x] = tree[x]
      BY <1>1, <1>4
    <2>3. new \in Trees
      BY <1>1, <2>2 DEF Trees
    <2> HIDE DEF new
    <2>4. ASSUME NEW t \in Service
          PROVE  service_is_in_xml_file(new, t)
                   <=> t = s \/ service_is_in_xml_file(tree, t)
      <3>1. CASE DevName[DevOf[t]] = n
        <4>1. service_is_in_xml_file(new, t)
                <=> SvcName[t] \in with[n] \cup {SvcName[s]}
          BY <2>2, <3>1
             DEF service_is_in_xml_file, device_is_in_xml_file,
                 get_xml_node_of_device
        <4>2. SvcName[t] = SvcName[s] <=> t = s
          BY <3>1, NamesTell
        <4>3. SvcName[t] \in with[n] <=> service_is_in_xml_file(tree, t)
          BY <1>2, <1>4, <3>1
             DEF service_is_in_xml_file, device_is_in_xml_file,
                 get_xml_node_of_device
        <4> QED
          BY <4>1, <4>2, <4>3
      <3>2. CASE DevName[DevOf[t]] # n
        BY <1>2, <2>2, <3>2
           DEF service_is_in_xml_file, device_is_in_xml_file,
               get_xml_node_of_device
      <3> QED
        BY <3>1, <3>2
    <2> QED
      BY <2>1, <2>3, <2>4
  <1> QED
    BY <1>5, <1>6

(* remove_service_from_XML takes away the service and no other.            *)
LEMMA RemoveDescribesNot ==
  ASSUME NEW tree \in Trees, NEW s \in Service,
         service_is_in_xml_file(tree, s)
  PROVE  /\ remove_service_from_XML(tree, s) \in Trees
         /\ \A t \in Service :
              service_is_in_xml_file(remove_service_from_XML(tree, s), t)
                <=> t # s /\ service_is_in_xml_file(tree, t)
  <1> DEFINE n == DevName[DevOf[s]]
             new == [tree EXCEPT ![n] = @ \ {SvcName[s]}]
  <1>1. remove_service_from_XML(tree, s) = new
    BY DEF remove_service_from_XML
  <1>2. PICK D \in SUBSET Names(DevName) :
          tree \in [D -> SUBSET Names(SvcName)]
    BY DEF Trees
  <1>3. n \in D
    BY <1>2 DEF service_is_in_xml_file, device_is_in_xml_file
  <1>4. /\ new \in [D -> SUBSET Names(SvcName)]
        /\ new[n] = tree[n] \ {SvcName[s]}
        /\ \A x \in D : x # n => new[x] = tree[x]
    BY <1>2, <1>3
  <1>5. new \in Trees
    BY <1>4 DEF Trees
  <1> HIDE DEF new
  <1>6. ASSUME NEW t \in Service
        PROVE  service_is_in_xml_file(new, t)
                 <=> t # s /\ service_is_in_xml_file(tree, t)
    <2>1. CASE DevName[DevOf[t]] = n
      <3>1. SvcName[t] = SvcName[s] <=> t = s
        BY <2>1, NamesTell
      <3> QED
        BY <1>2, <1>3, <1>4, <2>1, <3>1
           DEF service_is_in_xml_file, device_is_in_xml_file,
               get_xml_node_of_device
    <2>2. CASE DevName[DevOf[t]] # n
      BY <1>2, <1>4, <2>2
         DEF service_is_in_xml_file, device_is_in_xml_file,
             get_xml_node_of_device
    <2> QED
      BY <2>1, <2>2
  <1> QED
    BY <1>1, <1>5, <1>6

-----------------------------------------------------------------------------
(* The structures and the lists.                                           *)

\* Where a call can be, what it has left to do, and that its services exist.
CallShape ==
  /\ call.op = "none" <=> call.step = "idle"
  /\ call.op \in {"start", "stop"} =>
       call.step \in {"xml", "events", "http", "https", "avahi"}
  /\ call.op \in {"register", "unregister"} =>
       /\ call.step \in {"next", "list", "xml", "avahi", "notify"}
       /\ up = Parts
       /\ call.todo \subseteq call.all /\ call.all \subseteq services
       /\ call.step # "next" => call.svc \in call.all \ call.todo
  /\ call.op \in {"none", "start", "stop"} => call.all = {}

\* A device lists its own services, and a server those of its own devices.
Owned ==
  /\ \A d \in Device : \A s \in service_head[d] : DevOf[s] = d
  /\ \A s \in http_list : DevOf[s] \notin Secure
  /\ \A s \in https_list : DevOf[s] \in Secure

StructInv == TypeOK /\ ListedIsAlive /\ Owned /\ CallShape

(* The daemon looks for a service by its names in the list of its server,  *)
(* and finds it exactly when it is listed.                                 *)
LEMMA RegisteredMeansListed ==
  ASSUME TypeOK, Owned, NEW s \in Service
  PROVE  is_service_registered(s) <=> s \in Listed
  <1>1. \A e \in Listed : Url(e) = Url(s) <=> e = s
    BY NamesTell DEF TypeOK, Listed
  <1> QED
    BY <1>1 DEF Owned, Listed, is_service_registered,
                is_secure_service_registered, is_unsecure_service_registered

(* Taking a service from its server's list leaves the others.              *)
LEMMA ListLosesOne ==
  ASSUME TypeOK, Owned, NEW s \in Service,
         IF DevOf[s] \in Secure
         THEN unregister_service_in_secure_server(s)
         ELSE unregister_service_in_unsecure_server(s)
  PROVE  /\ http_list' \subseteq http_list /\ https_list' \subseteq https_list
         /\ Listed' = Listed \ {s}
  <1>1. \A e \in Listed : Url(e) = Url(s) <=> e = s
    BY NamesTell DEF TypeOK, Listed
  <1>2. CASE DevOf[s] \in Secure
    <2>1. https_list' = https_list \ {s} /\ http_list' = http_list
      BY <1>1, <1>2 DEF unregister_service_in_secure_server, Listed
    <2> QED
      BY <1>2, <2>1 DEF Listed, Owned
  <1>3. CASE DevOf[s] \notin Secure
    <2>1. http_list' = http_list \ {s} /\ https_list' = https_list
      BY <1>1, <1>3 DEF unregister_service_in_unsecure_server, Listed
    <2> QED
      BY <1>3, <2>1 DEF Listed, Owned
  <1> QED
    BY <1>2, <1>3

(* What a call writes of itself keeps its type.                            *)
LEMMA CallKeepsType ==
  ASSUME TypeOK
  PROVE  /\ \A step \in Steps : GoTo(step) =>
              /\ call' \in [op : Calls, step : Steps,
                            svc : Service \cup {NULL},
                            todo : SUBSET Service, all : SUBSET Service]
              /\ last' = last
              /\ call'.op = call.op /\ call'.step = step
              /\ call'.svc = call.svc /\ call'.todo = call.todo
              /\ call'.all = call.all
         /\ \A rc \in Codes : Return(rc) =>
              /\ call' \in [op : Calls, step : Steps,
                            svc : Service \cup {NULL},
                            todo : SUBSET Service, all : SUBSET Service]
              /\ last' \in [op : Calls, all : SUBSET Service, rc : Codes]
              /\ call'.op = "none" /\ call'.step = "idle"
              /\ call'.todo = {} /\ call'.all = {}
              /\ last'.op = call.op /\ last'.all = call.all /\ last'.rc = rc
         /\ \A op \in Calls, step \in Steps, S \in SUBSET Service :
              Begin(op, step, S) =>
                /\ call' \in [op : Calls, step : Steps,
                              svc : Service \cup {NULL},
                              todo : SUBSET Service, all : SUBSET Service]
                /\ last' = last
                /\ call'.op = op /\ call'.step = step
                /\ call'.todo = S /\ call'.all = S
  <1>1. ASSUME NEW step \in Steps, GoTo(step)
        PROVE  /\ call' \in [op : Calls, step : Steps,
                             svc : Service \cup {NULL},
                             todo : SUBSET Service, all : SUBSET Service]
               /\ last' = last
               /\ call'.op = call.op /\ call'.step = step
               /\ call'.svc = call.svc /\ call'.todo = call.todo
               /\ call'.all = call.all
    BY <1>1 DEF TypeOK, GoTo
  <1>2. ASSUME NEW rc \in Codes, Return(rc)
        PROVE  /\ call' \in [op : Calls, step : Steps,
                             svc : Service \cup {NULL},
                             todo : SUBSET Service, all : SUBSET Service]
               /\ last' \in [op : Calls, all : SUBSET Service, rc : Codes]
               /\ call'.op = "none" /\ call'.step = "idle"
               /\ call'.todo = {} /\ call'.all = {}
               /\ last'.op = call.op /\ last'.all = call.all /\ last'.rc = rc
    <2>1. "none" \in Calls /\ "idle" \in Steps
      BY DEF Calls, Steps
    <2> QED
      BY <1>2, <2>1 DEF TypeOK, Return
  <1>3. ASSUME NEW op \in Calls, NEW step \in Steps, NEW S \in SUBSET Service,
               Begin(op, step, S)
        PROVE  /\ call' \in [op : Calls, step : Steps,
                             svc : Service \cup {NULL},
                             todo : SUBSET Service, all : SUBSET Service]
               /\ last' = last
               /\ call'.op = op /\ call'.step = step
               /\ call'.todo = S /\ call'.all = S
    BY <1>3 DEF Begin
  <1> QED
    BY <1>1, <1>2, <1>3

Structs == ListedIsAlive /\ Owned

(* Creating and destroying one structure at a time: nothing listed goes,   *)
(* and a device goes with its last service only.                           *)
LEMMA CreateDeviceKeeps ==
  ASSUME StructInv, NEW d \in Device, CreateDevice(d)
  PROVE  StructTypeOK' /\ Structs'
  <1> USE DEF StructInv, CreateDevice, create_device_struct, serverVars
  <1>1. StructTypeOK'
    BY DEF TypeOK, StructTypeOK
  <1>2. \A s \in services : DevOf[s] # d
    BY DEF ListedIsAlive
  <1>3. /\ service_head'[d] = {}
        /\ \A e \in Device : e # d => service_head'[e] = service_head[e]
    BY DEF TypeOK, StructTypeOK
  <1>4. Owned'
    BY <1>3 DEF Owned
  <1>5. ListedIsAlive'
    BY <1>2, <1>3 DEF ListedIsAlive, Listed, TypeOK, StructTypeOK
  <1> QED
    BY <1>1, <1>4, <1>5 DEF Structs

LEMMA CreateServiceKeeps ==
  ASSUME StructInv, NEW s \in Service, CreateService(s)
  PROVE  StructTypeOK' /\ Structs' /\ services \subseteq services'
  <1> USE DEF StructInv, CreateService, create_service_struct, serverVars
  <1> DEFINE d == DevOf[s]
  <1>1. d \in Device /\ d \in devices
    BY DEF TypeOK, StructTypeOK
  <1>2. \A e \in service_head[d] : ~cmp_ServiceElement(e, s)
    <2>1. \A e \in service_head[d] : e \in services /\ e \in Service /\ e # s
      BY <1>1 DEF ListedIsAlive, TypeOK, StructTypeOK
    <2> QED
      BY <2>1, NamesTell DEF cmp_ServiceElement
  <1>3. service_head' = [service_head EXCEPT ![d] = @ \cup {s}]
    BY <1>2 DEF add_service_to_device
  <1>4. /\ service_head'[d] = service_head[d] \cup {s}
        /\ \A e \in Device : e # d => service_head'[e] = service_head[e]
        /\ service_head' \in [Device -> SUBSET Service]
    BY <1>1, <1>3 DEF TypeOK, StructTypeOK
  <1>5. StructTypeOK'
    BY <1>4 DEF TypeOK, StructTypeOK
  <1>6. Owned'
    BY <1>4 DEF Owned
  <1>7. ListedIsAlive'
    BY <1>1, <1>4 DEF ListedIsAlive, Listed, TypeOK, StructTypeOK
  <1> QED
    BY <1>5, <1>6, <1>7 DEF Structs

LEMMA DestroyServiceKeeps ==
  ASSUME StructInv, NEW s \in Service, DestroyService(s)
  PROVE  StructTypeOK' /\ Structs'
  <1> USE DEF StructInv, DestroyService, serverVars
  <1>1. CASE is_service_registered(s)
    BY <1>1 DEF structVars, TypeOK, StructTypeOK, Structs, ListedIsAlive,
                Listed, Owned
  <1>2. CASE ~is_service_registered(s)
    <2> DEFINE d == DevOf[s]
               left == remove_service_from_device(s, d)
    <2>1. s \notin Listed
      BY <1>2, RegisteredMeansListed
    <2>2. d \in Device /\ d \in devices /\ s \in service_head[d]
      BY DEF TypeOK, StructTypeOK, ListedIsAlive
    <2>3. left = service_head[d] \ {s}
      <3>1. \A e \in service_head[d] :
              e \in Service /\ DevOf[e] = d /\ (SvcName[e] = SvcName[s] <=> e = s)
        BY <2>2, NamesTell DEF TypeOK, StructTypeOK, Owned, ListedIsAlive
      <3> QED
        BY <3>1 DEF remove_service_from_device
    <2>4. /\ services' = services \ {s}
          /\ service_head' = [service_head EXCEPT ![d] = left]
          /\ devices' = IF service_head[d] # {} /\ left = {}
                        THEN devices \ {d} ELSE devices
      BY <1>2 DEF destroy_service_struct
    <2> HIDE DEF left
    <2>5. /\ service_head'[d] = service_head[d] \ {s}
          /\ \A e \in Device : e # d => service_head'[e] = service_head[e]
          /\ service_head' \in [Device -> SUBSET Service]
      BY <2>2, <2>3, <2>4 DEF TypeOK, StructTypeOK
    <2>6. StructTypeOK'
      BY <2>4, <2>5 DEF TypeOK, StructTypeOK
    <2>7. Owned'
      BY <2>5 DEF Owned
    <2>8. \A t \in services' : DevOf[t] \in devices' /\ t \in service_head'[DevOf[t]]
      <3> TAKE t \in services'
      <3>1. /\ t \in services /\ t # s /\ DevOf[t] \in devices
            /\ t \in service_head[DevOf[t]] /\ DevOf[t] \in Device
        BY <2>4 DEF ListedIsAlive, TypeOK, StructTypeOK
      <3>2. CASE DevOf[t] = d
        BY <2>3, <2>4, <2>5, <3>1, <3>2
      <3>3. CASE DevOf[t] # d
        BY <2>4, <2>5, <3>1, <3>3
      <3> QED
        BY <3>2, <3>3
    <2>9. \A e \in devices' : service_head'[e] \subseteq services'
      <3> TAKE e \in devices'
      <3>1. e \in devices /\ e \in Device /\ service_head[e] \subseteq services
        BY <2>4 DEF ListedIsAlive, TypeOK, StructTypeOK
      <3>2. e # d => s \notin service_head[e]
        BY <3>1 DEF Owned
      <3> QED
        BY <2>4, <2>5, <3>1, <3>2
    <2>10. Listed' \subseteq services'
      BY <2>1, <2>4 DEF ListedIsAlive, Listed
    <2> QED
      BY <2>6, <2>7, <2>8, <2>9, <2>10 DEF Structs, ListedIsAlive
  <1> QED
    BY <1>1, <1>2

LEMMA DestroyDeviceKeeps ==
  ASSUME StructInv, NEW d \in Device, DestroyDevice(d)
  PROVE  StructTypeOK' /\ Structs'
  <1> USE DEF StructInv, DestroyDevice, serverVars
  <1> DEFINE kept == service_head[d] \cap Registered
  <1>1. PICK S \in SUBSET (service_head[d] \ kept) :
          /\ kept = {} => S = service_head[d]
          /\ services' = services \ S
          /\ service_head' = [service_head EXCEPT ![d] = @ \ S]
          /\ devices' = IF kept = {} THEN devices \ {d} ELSE devices
    BY DEF destroy_device_struct
  <1>2. S \cap Listed = {}
    <2>1. \A s \in Listed : s \in Registered
      BY RegisteredMeansListed DEF Registered, Listed, TypeOK
    <2> QED
      BY <1>1, <2>1
  <1> HIDE DEF kept
  <1>3. /\ service_head'[d] = service_head[d] \ S
        /\ \A e \in Device : e # d => service_head'[e] = service_head[e]
        /\ service_head' \in [Device -> SUBSET Service]
    BY <1>1 DEF TypeOK, StructTypeOK
  <1>4. StructTypeOK'
    BY <1>1, <1>3 DEF TypeOK, StructTypeOK
  <1>5. Owned'
    BY <1>3 DEF Owned
  <1>6. \A s \in S : DevOf[s] = d
    BY <1>1 DEF Owned
  <1>7. \A t \in services' : DevOf[t] \in devices' /\ t \in service_head'[DevOf[t]]
    <2> TAKE t \in services'
    <2>1. /\ t \in services /\ t \notin S /\ DevOf[t] \in devices
          /\ t \in service_head[DevOf[t]] /\ DevOf[t] \in Device
      BY <1>1 DEF ListedIsAlive, TypeOK, StructTypeOK
    <2>2. CASE DevOf[t] = d
      BY <1>1, <1>3, <2>1, <2>2
    <2>3. CASE DevOf[t] # d
      BY <1>1, <1>3, <2>1, <2>3
    <2> QED
      BY <2>2, <2>3
  <1>8. \A e \in devices' : service_head'[e] \subseteq services'
    <2> TAKE e \in devices'
    <2>1. e \in devices /\ e \in Device /\ service_head[e] \subseteq services
      BY <1>1 DEF ListedIsAlive, TypeOK, StructTypeOK
    <2>2. e # d => \A s \in service_head[e] : s \notin S
      BY <1>6, <2>1 DEF Owned
    <2> QED
      BY <1>1, <1>3, <2>1, <2>2
  <1>9. Listed' \subseteq services'
    BY <1>1, <1>2 DEF ListedIsAlive, Listed
  <1> QED
    BY <1>4, <1>5, <1>7, <1>8, <1>9 DEF Structs, ListedIsAlive

(* A server that stops destroys what it lists: those of the other server   *)
(* stay, with their devices.                                               *)
LEMMA DestroyListKeeps ==
  ASSUME StructInv, NEW L, L \subseteq Service, destroy_services(L)
  PROVE  /\ StructTypeOK'
         /\ \A s \in services' : DevOf[s] \in devices' /\ s \in service_head'[DevOf[s]]
         /\ \A d \in devices' : service_head'[d] \subseteq services'
         /\ \A d \in Device : \A s \in service_head'[d] : DevOf[s] = d
         /\ services' = services \ L
  <1> USE DEF StructInv, destroy_services
  <1>1. StructTypeOK'
    BY DEF TypeOK, StructTypeOK
  <1>2. \A d \in Device : service_head'[d] = service_head[d] \ L
    OBVIOUS
  <1>3. devices' \subseteq devices /\ devices \subseteq Device
    BY DEF TypeOK, StructTypeOK
  <1>4. ASSUME NEW s \in services'
        PROVE  DevOf[s] \in devices' /\ s \in service_head'[DevOf[s]]
    <2>1. s \in services /\ s \notin L /\ DevOf[s] \in devices
          /\ s \in service_head[DevOf[s]]
      BY DEF ListedIsAlive
    <2> QED
      BY <1>2, <1>3, <2>1
  <1>5. \A d \in devices' : service_head'[d] \subseteq services'
    BY <1>2, <1>3 DEF ListedIsAlive
  <1>6. \A d \in Device : \A s \in service_head'[d] : DevOf[s] = d
    BY <1>2 DEF Owned
  <1> QED
    BY <1>1, <1>4, <1>5, <1>6

LEMMA SameStructs ==
  ASSUME StructInv, UNCHANGED structVars, UNCHANGED <<http_list, https_list>>
  PROVE  /\ StructTypeOK' /\ Structs' /\ http_list' \subseteq Service
         /\ https_list' \subseteq Service
  BY DEF StructInv, structVars, TypeOK, StructTypeOK, Structs, ListedIsAlive,
         Listed, Owned

(* Avahi writes of its variables what their type allows.                   *)
LEMMA AvahiKeepsType ==
  ASSUME AvahiTypeOK
  PROVE  /\ UNCHANGED avahiVars => AvahiTypeOK'
         /\ \A ok \in BOOLEAN : avahi_start(ok) => AvahiTypeOK'
         /\ \A s \in Service, ok \in BOOLEAN :
              avahi_create_service(s, ok) => AvahiTypeOK'
         /\ \A s \in Service : avahi_remove_service(s) => AvahiTypeOK'
         /\ avahi_quit => AvahiTypeOK'
         /\ AvahiCallback => AvahiTypeOK'
  <1> USE DEF AvahiTypeOK, PollStates
  <1>1. UNCHANGED avahiVars => AvahiTypeOK'
    BY DEF avahiVars
  <1>2. ASSUME NEW ok \in BOOLEAN, avahi_start(ok) PROVE AvahiTypeOK'
    BY <1>2 DEF avahi_start, avahi_client_start, avahi_core_start
  <1>3. ASSUME NEW s \in Service, NEW ok \in BOOLEAN,
               avahi_create_service(s, ok)
        PROVE  AvahiTypeOK'
    BY <1>3 DEF avahi_create_service, avahi_client_create_service,
                avahi_core_create_service
  <1>4. ASSUME NEW s \in Service, avahi_remove_service(s) PROVE AvahiTypeOK'
    BY <1>4 DEF avahi_remove_service, avahi_client_remove_service,
                avahi_core_remove_service
  <1>5. avahi_quit => AvahiTypeOK'
    BY DEF avahi_quit, avahi_client_quit, avahi_core_quit
  <1>6. AvahiCallback => AvahiTypeOK'
    BY DEF AvahiCallback, client_entry_group_callback, client_callback,
           core_entry_group_callback, server_callback
  <1> QED
    BY <1>1, <1>2, <1>3, <1>4, <1>5, <1>6

LEMMA StructInvInit == RegInit => StructInv
  <1> SUFFICES ASSUME RegInit PROVE StructInv
    OBVIOUS
  <1> USE DEF RegInit, StructInit, AvahiInit
  <1>1. StructTypeOK /\ AvahiTypeOK
    BY DEF StructTypeOK, AvahiTypeOK, PollStates
  <1>2. xml_tree \in Trees
    BY NothingDescribed
  <1>3. /\ call \in [op : Calls, step : Steps, svc : Service \cup {NULL},
                     todo : SUBSET Service, all : SUBSET Service]
        /\ last \in [op : Calls, all : SUBSET Service, rc : Codes]
    BY DEF Calls, Steps, Codes
  <1>4. TypeOK
    BY <1>1, <1>2, <1>3 DEF TypeOK
  <1> QED
    BY <1>4 DEF StructInv, ListedIsAlive, Listed, Owned, CallShape

(* The parts of a start.                                                   *)
LEMMA StartKeepsStructs ==
  ASSUME StructInv, HPD_start \/ start_server
  PROVE  StructInv'
  <1> USE DEF StructInv
  <1>1. CASE HPD_start
    <2> USE <1>1 DEF HPD_start, serverVars
    <2>1. "start" \in Calls /\ "xml" \in Steps
      BY DEF Calls, Steps
    <2>2. /\ call'.op = "start" /\ call'.step = "xml" /\ call'.all = {}
          /\ call' \in [op : Calls, step : Steps, svc : Service \cup {NULL},
                        todo : SUBSET Service, all : SUBSET Service]
          /\ last' = last
      BY <2>1, CallKeepsType
    <2> QED
      BY <2>2, SameStructs, AvahiKeepsType DEF TypeOK, Structs, CallShape
  <1>2. CASE init_xml
    <2> USE <1>2 DEF init_xml
    <2>1. "events" \in Steps
      BY DEF Steps
    <2>2. call.op = "start" /\ call.all = {}
      BY DEF At, CallShape
    <2>3. up' \subseteq Parts
      BY DEF TypeOK, Parts
    <2>4. xml_tree' \in Trees
      BY NothingDescribed
    <2> QED
      BY <2>1, <2>2, <2>3, <2>4, CallKeepsType, SameStructs, AvahiKeepsType
         DEF TypeOK, Structs, CallShape
  <1>3. ASSUME NEW part \in Parts, NEW next \in {"http", "https", "avahi"},
               StartPart(part, next)
        PROVE  StructInv'
    <2> USE <1>3 DEF StartPart
    <2>1. next \in Steps /\ "ERROR" \in Codes
      BY DEF Steps, Codes
    <2>2. call.op = "start" /\ call.all = {}
      BY DEF At, CallShape
    <2>3. up' \subseteq Parts
      BY DEF TypeOK
    <2> QED
      BY <2>1, <2>2, <2>3, CallKeepsType, SameStructs, AvahiKeepsType
         DEF TypeOK, Structs, CallShape
  <1>4. ASSUME NEW ok \in BOOLEAN, At("start", "avahi"), avahi_start(ok),
               up' = IF ok THEN up \cup {"avahi"} ELSE up,
               Return(IF ok THEN "SUCCESS" ELSE "ERROR"),
               UNCHANGED <<structVars, http_list, https_list, xml_tree, told>>
        PROVE  StructInv'
    <2> USE <1>4
    <2> DEFINE rc == IF ok THEN "SUCCESS" ELSE "ERROR"
    <2>1. rc \in Codes
      BY DEF Codes
    <2> HIDE DEF rc
    <2>2. Return(rc)
      BY DEF rc
    <2>3. up' \subseteq Parts
      BY DEF TypeOK, Parts
    <2> QED
      BY <2>1, <2>2, <2>3, CallKeepsType, SameStructs, AvahiKeepsType
         DEF TypeOK, Structs, CallShape
  <1> QED
    BY <1>1, <1>2, <1>3, <1>4 DEF start_server, start_unsecure_server,
       start_secure_server, Parts

(* The parts of a stop.                                                    *)
LEMMA StopKeepsStructs ==
  ASSUME StructInv, HPD_stop \/ stop_server
  PROVE  StructInv'
  <1> USE DEF StructInv
  <1>0. /\ {"https", "xml", "avahi", "events", "http"} \subseteq Steps
        /\ "stop" \in Calls /\ "SUCCESS" \in Codes
    BY DEF Steps, Calls, Codes
  <1>1. CASE HPD_stop
    <2> USE <1>1 DEF HPD_stop, serverVars
    <2>2. /\ call'.op = "stop" /\ call'.step = "events" /\ call'.all = {}
          /\ call' \in [op : Calls, step : Steps, svc : Service \cup {NULL},
                        todo : SUBSET Service, all : SUBSET Service]
          /\ last' = last
      BY <1>0, CallKeepsType
    <2> QED
      BY <2>2, SameStructs, AvahiKeepsType DEF TypeOK, Structs, CallShape
  <1>2. CASE free_events
    <2> USE <1>2 DEF free_events
    <2>1. call.op = "stop" /\ call.all = {}
      BY DEF At, CallShape
    <2> QED
      BY <1>0, <2>1, CallKeepsType, SameStructs, AvahiKeepsType
         DEF TypeOK, Structs, CallShape
  <1>3. CASE stop_unsecure_server
    <2> USE <1>3 DEF stop_unsecure_server, free_unsecure_server_services
    <2>1. call.op = "stop" /\ call.all = {} /\ http_list \subseteq Service
      BY DEF At, CallShape, TypeOK
    <2>2. \A s \in https_list : s \in services /\ s \notin http_list
      BY DEF ListedIsAlive, Listed, Owned
    <2>3. Listed' \subseteq services'
      BY <2>1, <2>2, DestroyListKeeps DEF Listed
    <2>4. ListedIsAlive' /\ Owned'
      BY <2>1, <2>3, DestroyListKeeps DEF ListedIsAlive, Owned
    <2> QED
      BY <1>0, <2>1, <2>4, CallKeepsType, DestroyListKeeps, AvahiKeepsType
         DEF TypeOK, CallShape
  <1>4. CASE stop_secure_server
    <2> USE <1>4 DEF stop_secure_server, free_secure_server_services
    <2>1. call.op = "stop" /\ call.all = {} /\ https_list \subseteq Service
      BY DEF At, CallShape, TypeOK
    <2>2. \A s \in http_list : s \in services /\ s \notin https_list
      BY DEF ListedIsAlive, Listed, Owned
    <2>3. Listed' \subseteq services'
      BY <2>1, <2>2, DestroyListKeeps DEF Listed
    <2>4. ListedIsAlive' /\ Owned'
      BY <2>1, <2>3, DestroyListKeeps DEF ListedIsAlive, Owned
    <2> QED
      BY <1>0, <2>1, <2>4, CallKeepsType, DestroyListKeeps, AvahiKeepsType
         DEF TypeOK, CallShape
  <1>5. CASE delete_xml
    <2> USE <1>5 DEF delete_xml
    <2>1. call.op = "stop" /\ call.all = {}
      BY DEF At, CallShape
    <2> QED
      BY <1>0, <2>1, CallKeepsType, SameStructs, AvahiKeepsType,
         NothingDescribed DEF TypeOK, Structs, CallShape
  <1>6. ASSUME At("stop", "avahi"), avahi_quit, up' = up \ {"avahi"},
               Return("SUCCESS"),
               UNCHANGED <<structVars, http_list, https_list, xml_tree, told>>
        PROVE  StructInv'
    <2> USE <1>6
    <2>1. call.op = "stop" /\ call.all = {}
      BY DEF At, CallShape
    <2> QED
      BY <1>0, <2>1, CallKeepsType, SameStructs, AvahiKeepsType
         DEF TypeOK, Structs, CallShape
  <1> QED
    BY <1>1, <1>2, <1>3, <1>4, <1>5, <1>6 DEF stop_server

(* The parts of a registration.                                            *)
LEMMA RegisterKeepsStructs ==
  ASSUME StructInv, register_service_in_server
  PROVE  StructInv'
  <1> USE DEF StructInv
  <1>0. {"next", "xml", "avahi", "notify"} \subseteq Steps
        /\ {"ALREADY_REGISTER", "AVAHI_ERROR"} \subseteq Codes
    BY DEF Steps, Codes
  <1>1. /\ call.op = "register"
        /\ call.step \in {"list", "xml", "avahi", "notify"}
        /\ call.svc \in call.all \ call.todo
        /\ call.svc \in services /\ call.svc \in Service
    BY DEF register_service_in_server, register_in_list, register_in_xml,
           register_in_avahi, notify_registered, At, CallShape, TypeOK,
           StructTypeOK
  <1>2. CASE register_in_list
    <2> USE <1>2 DEF register_in_list
    <2>1. CASE is_service_registered(call.svc)
      BY <1>0, <1>1, <2>1, CallKeepsType, SameStructs, AvahiKeepsType
         DEF TypeOK, Structs, CallShape
    <2>2. CASE ~is_service_registered(call.svc)
      <3>1. /\ http_list' \subseteq Service /\ https_list' \subseteq Service
            /\ Listed' = Listed \cup {call.svc}
            /\ Owned'
        BY <1>1, <2>2 DEF register_service_in_secure_server,
           register_service_in_unsecure_server, TypeOK, Listed, Owned,
           structVars
      <3>2. ListedIsAlive'
        BY <1>1, <3>1 DEF ListedIsAlive, structVars
      <3>3. StructTypeOK'
        BY DEF TypeOK, StructTypeOK, structVars
      <3> QED
        BY <1>0, <1>1, <2>2, <3>1, <3>2, <3>3, CallKeepsType, AvahiKeepsType
           DEF TypeOK, CallShape, structVars
    <2> QED
      BY <2>1, <2>2
  <1>3. CASE register_in_xml
    BY <1>0, <1>1, <1>3, CallKeepsType, SameStructs, AvahiKeepsType,
       AddDescribes DEF register_in_xml, TypeOK, Structs, CallShape, structVars
  <1>4. CASE register_in_avahi
    BY <1>0, <1>1, <1>4, CallKeepsType, SameStructs, AvahiKeepsType
       DEF register_in_avahi, serverVars, TypeOK, Structs, CallShape, structVars
  <1>5. CASE notify_registered
    <2> USE <1>5 DEF notify_registered
    <2>1. told' \in [Service -> {"new", "YES", "NO"}]
      BY DEF TypeOK
    <2> QED
      BY <1>0, <1>1, <2>1, CallKeepsType, SameStructs, AvahiKeepsType
         DEF TypeOK, Structs, CallShape, structVars
  <1> QED
    BY <1>2, <1>3, <1>4, <1>5 DEF register_service_in_server

(* The parts of an unregistration.                                         *)
LEMMA UnregisterKeepsStructs ==
  ASSUME StructInv, unregister_service_in_server
  PROVE  StructInv'
  <1> USE DEF StructInv
  <1>0. {"next", "xml", "avahi", "notify"} \subseteq Steps
        /\ {"NOT_REGISTER", "XML_ERROR", "SERVICE_NOT_FOUND"} \subseteq Codes
    BY DEF Steps, Codes
  <1>1. /\ call.op = "unregister"
        /\ call.step \in {"list", "xml", "avahi", "notify"}
        /\ call.svc \in call.all \ call.todo
        /\ call.svc \in services /\ call.svc \in Service
    BY DEF unregister_service_in_server, unregister_in_list, unregister_in_xml,
           unregister_in_avahi, notify_unregistered, At, CallShape, TypeOK,
           StructTypeOK
  <1>2. CASE unregister_in_list
    <2> USE <1>2 DEF unregister_in_list
    <2>1. CASE ~is_service_registered(call.svc)
      BY <1>0, <1>1, <2>1, CallKeepsType, SameStructs, AvahiKeepsType
         DEF TypeOK, Structs, CallShape, structVars
    <2>2. CASE is_service_registered(call.svc)
      <3>1. /\ http_list' \subseteq http_list /\ https_list' \subseteq https_list
            /\ Listed' = Listed \ {call.svc}
        BY <1>1, <2>2, ListLosesOne
      <3>2. ListedIsAlive' /\ Owned'
        BY <3>1 DEF ListedIsAlive, Owned, structVars
      <3>3. StructTypeOK'
        BY DEF TypeOK, StructTypeOK, structVars
      <3> QED
        BY <1>0, <1>1, <2>2, <3>1, <3>2, <3>3, CallKeepsType, AvahiKeepsType
           DEF TypeOK, CallShape, structVars
    <2> QED
      BY <2>1, <2>2
  <1>3. CASE unregister_in_xml
    BY <1>0, <1>1, <1>3, CallKeepsType, SameStructs, AvahiKeepsType,
       RemoveDescribesNot
       DEF unregister_in_xml, TypeOK, Structs, CallShape, structVars
  <1>4. CASE unregister_in_avahi
    BY <1>0, <1>1, <1>4, CallKeepsType, SameStructs, AvahiKeepsType
       DEF unregister_in_avahi, serverVars, TypeOK, Structs, CallShape,
           structVars
  <1>5. CASE notify_unregistered
    <2> USE <1>5 DEF notify_unregistered
    <2>1. told' \in [Service -> {"new", "YES", "NO"}]
      BY DEF TypeOK
    <2> QED
      BY <1>0, <1>1, <2>1, CallKeepsType, SameStructs, AvahiKeepsType
         DEF TypeOK, Structs, CallShape, structVars
  <1> QED
    BY <1>2, <1>3, <1>4, <1>5 DEF unregister_service_in_server

(* A call begins, and goes on to its next service.                         *)
LEMMA CallKeepsStructs ==
  ASSUME StructInv,
         \/ \E s \in Service : HPD_register_service(s)
                               \/ HPD_unregister_service(s)
         \/ \E d \in Device : register_device_services(d)
                              \/ unregister_device_services(d)
         \/ NextService
  PROVE  StructInv'
  <1> USE DEF StructInv
  <1>1. ASSUME NEW op \in {"register", "unregister"}, NEW S \in SUBSET services,
               up = Parts, Begin(op, "next", S),
               UNCHANGED <<structVars, serverVars, avahiVars>>
        PROVE  StructInv'
    <2>1. op \in Calls /\ "next" \in Steps /\ S \in SUBSET Service
      BY DEF Calls, Steps, TypeOK, StructTypeOK
    <2>2. /\ call'.op = op /\ call'.step = "next" /\ call'.all = S
          /\ call'.todo = S /\ last' = last
          /\ call' \in [op : Calls, step : Steps, svc : Service \cup {NULL},
                        todo : SUBSET Service, all : SUBSET Service]
      BY <1>1, <2>1, CallKeepsType
    <2> QED
      BY <1>1, <2>2, SameStructs, AvahiKeepsType
         DEF TypeOK, Structs, CallShape, serverVars, structVars
  <1>2. ASSUME NEW s \in Service, HPD_register_service(s)
        PROVE  StructInv'
    BY <1>1, <1>2 DEF HPD_register_service
  <1>3. ASSUME NEW s \in Service, HPD_unregister_service(s)
        PROVE  StructInv'
    BY <1>1, <1>3 DEF HPD_unregister_service
  <1>4. ASSUME NEW d \in Device, register_device_services(d)
        PROVE  StructInv'
    <2>1. service_head[d] \in SUBSET services
      BY <1>4 DEF register_device_services, ListedIsAlive
    <2> QED
      BY <1>1, <1>4, <2>1 DEF register_device_services
  <1>5. ASSUME NEW d \in Device, unregister_device_services(d)
        PROVE  StructInv'
    <2>1. service_head[d] \in SUBSET services
      BY <1>5 DEF unregister_device_services, ListedIsAlive
    <2> QED
      BY <1>1, <1>5, <2>1 DEF unregister_device_services
  <1>6. CASE NextService
    <2> USE <1>6 DEF NextService
    <2>0. "list" \in Steps /\ "SUCCESS" \in Codes
      BY DEF Steps, Codes
    <2>1. /\ call.op \in {"register", "unregister"}
          /\ up = Parts
          /\ call.todo \subseteq call.all /\ call.all \subseteq services
          /\ call.todo \subseteq Service
      BY DEF CallShape, TypeOK, Calls
    <2>2. CASE call.todo = {}
      BY <2>0, <2>1, <2>2, CallKeepsType, SameStructs, AvahiKeepsType
         DEF TypeOK, Structs, CallShape, serverVars, structVars
    <2>3. CASE call.todo # {}
      <3>1. PICK s \in call.todo :
              call' = [call EXCEPT !.step = "list", !.svc = s,
                                   !.todo = @ \ {s}]
        BY <2>3
      <3>2. /\ call'.op = call.op /\ call'.step = "list" /\ call'.svc = s
            /\ call'.todo = call.todo \ {s} /\ call'.all = call.all
            /\ call' \in [op : Calls, step : Steps, svc : Service \cup {NULL},
                          todo : SUBSET Service, all : SUBSET Service]
        BY <2>0, <2>1, <3>1 DEF TypeOK
      <3> QED
        BY <2>1, <2>3, <3>1, <3>2, SameStructs, AvahiKeepsType
           DEF TypeOK, Structs, CallShape, serverVars, structVars
    <2> QED
      BY <2>2, <2>3
  <1> QED
    BY <1>2, <1>3, <1>4, <1>5, <1>6

LEMMA StructStep == StructInv /\ [RegNext]_regVars => StructInv'
  <1> SUFFICES ASSUME StructInv, [RegNext]_regVars PROVE StructInv'
    OBVIOUS
  <1>1. ASSUME StructTypeOK', Structs', UNCHANGED <<serverVars, avahiVars>>,
               UNCHANGED <<call, last>>,
               call.op = "none" \/ services' = services
        PROVE  StructInv'
    BY <1>1, AvahiKeepsType
       DEF StructInv, TypeOK, Structs, CallShape, serverVars
  <1>2. Idle => call.op = "none"
    BY DEF StructInv, CallShape, Idle
  <1>3. ASSUME NEW d \in Device, CreateDevice(d) PROVE StructInv'
    BY <1>1, <1>2, <1>3, CreateDeviceKeeps DEF CreateDevice
  <1>4. ASSUME NEW d \in Device, DestroyDevice(d) PROVE StructInv'
    BY <1>1, <1>2, <1>4, DestroyDeviceKeeps DEF DestroyDevice
  <1>5. ASSUME NEW s \in Service, CreateService(s) PROVE StructInv'
    BY <1>1, <1>2, <1>5, CreateServiceKeeps DEF CreateService
  <1>6. ASSUME NEW s \in Service, DestroyService(s) PROVE StructInv'
    BY <1>1, <1>2, <1>6, DestroyServiceKeeps DEF DestroyService
  <1>7. CASE AvahiRuns
    BY <1>7, SameStructs, AvahiKeepsType
       DEF AvahiRuns, serverVars, StructInv, TypeOK, Structs, CallShape,
           structVars
  <1>8. CASE UNCHANGED regVars
    BY <1>1, <1>8, SameStructs DEF regVars, serverVars, structVars
  <1> QED
    BY <1>3, <1>4, <1>5, <1>6, <1>7, <1>8, StartKeepsStructs, StopKeepsStructs,
       RegisterKeepsStructs, UnregisterKeepsStructs, CallKeepsStructs
       DEF RegNext

(* ListsAreSound: nothing that a web server lists is freed, and looking up *)
(* by names finds what is listed, in the two lists together.               *)
LEMMA StructsAreSound == StructInv => ListsAreSound
  <1> SUFFICES ASSUME StructInv PROVE ListsAreSound
    OBVIOUS
  <1> USE DEF StructInv
  <1>1. ASSUME NEW s \in Service
        PROVE  HPD_get_service(DevName[DevOf[s]], SvcName[s]) = Listed \cap {s}
    <2>1. \A e \in Listed :
            Url(e) = <<DevName[DevOf[s]], SvcName[s]>> <=> e = s
      BY NamesTell DEF TypeOK, Listed, Url
    <2>2. get_service_from_unsecure_server(DevName[DevOf[s]], SvcName[s])
            = http_list \cap {s}
      BY <2>1 DEF get_service_from_unsecure_server, Listed
    <2>3. get_service_from_secure_server(DevName[DevOf[s]], SvcName[s])
            = https_list \cap {s}
      BY <2>1 DEF get_service_from_secure_server, Listed
    <2> QED
      BY <2>2, <2>3 DEF HPD_get_service, get_service_from_server, Listed
  <1>2. ASSUME NEW s \in Service
        PROVE  HPD_get_device(DevName[DevOf[s]]) =
                 {d \in {DevOf[s]} : \E t \in Listed : DevOf[t] = d}
    <2> DEFINE d == DevOf[s]
    <2>1. \A e \in Listed : DevName[DevOf[e]] = DevName[d] <=> DevOf[e] = d
      BY NamesTell DEF TypeOK, Listed
    <2>2. get_device_from_unsecure_server(DevName[d])
            = {x \in {d} : \E t \in http_list : DevOf[t] = x}
      BY <2>1 DEF get_device_from_unsecure_server, Listed
    <2>3. get_device_from_secure_server(DevName[d])
            = {x \in {d} : \E t \in https_list : DevOf[t] = x}
      BY <2>1 DEF get_device_from_secure_server, Listed
    <2> QED
      BY <2>2, <2>3 DEF HPD_get_device, get_device_from_server, Listed
  <1> QED
    BY <1>1, <1>2 DEF ListsAreSound, LookupFindsListed

(* No list of the daemon names a structure that was freed, whatever is     *)
(* created, registered, unregistered and destroyed, and whichever part     *)
(* fails (hpd_web_server.c, hpd_services.c).                               *)
THEOREM ListsCorrect == RegSpec => []ListsAreSound
  <1>1. RegSpec => []StructInv
    BY StructInvInit, StructStep, PTL DEF RegSpec
  <1> QED
    BY <1>1, StructsAreSound, PTL

-----------------------------------------------------------------------------
(* The parts agree.                                                        *)

\* Nothing is listed, published, described or told: the daemon does not run.
Down ==
  /\ Listed = {} /\ groups = {}
  /\ \A s \in Service : ~Described(s) /\ told[s] = "new"

\* What a start finds, and what a stop has emptied so far.
LifeInv ==
  /\ call.op = "start" => Down
  /\ call.op = "none" /\ up # Parts => Down
  /\ call.op = "stop" /\ call.step # "events" =>
       \A s \in Service : told[s] = "new"
  /\ call.op = "stop" /\ call.step \in {"https", "xml", "avahi"} =>
       http_list = {}
  /\ call.op = "stop" /\ call.step \in {"xml", "avahi"} => https_list = {}
  /\ call.op = "stop" /\ call.step = "avahi" =>
       \A s \in Service : ~Described(s)

\* What a registration has done so far for the service it is at.
RegisteringInv ==
  call.op = "register" /\ call.step \in {"xml", "avahi", "notify"} =>
    /\ call.svc \in Listed
    /\ told[call.svc] # "YES"
    /\ call.step # "xml" => Described(call.svc)
    /\ call.step = "notify" => call.svc \in groups

\* What an unregistration has done so far for the service it is at.
UnregisteringInv ==
  call.op = "unregister" /\ call.step \in {"xml", "avahi", "notify"} =>
    /\ call.svc \notin Listed
    /\ Described(call.svc) <=> call.step = "xml"
    /\ call.step = "notify" => /\ call.svc \notin groups
                               /\ told[call.svc] = "YES"

\* What is published was announced.
PublishedIsTold ==
  \A s \in Service : s \in groups =>
    told[s] = "YES" \/ InCall("register", "notify", s) \/ Stopping

\* The services of the call that it is done with.
Finished(op, s) ==
  IF op = "register"
  THEN s \in Listed /\ s \in groups /\ Described(s) /\ told[s] = "YES"
  ELSE s \notin Listed /\ s \notin groups /\ ~Described(s) /\ told[s] # "YES"

FinishedInv ==
  \A s \in call.all \ call.todo :
    (call.step # "next" /\ s = call.svc) \/ Finished(call.op, s)

PartsInv ==
  /\ StructInv
  /\ LifeInv /\ RegisteringInv /\ UnregisteringInv
  /\ PublishedIsTold /\ FinishedInv
  /\ PartsAgree /\ SuccessMeansDone

(* A step that leaves the parts and the call as they are.                  *)
LEMMA SameParts ==
  ASSUME PartsInv, StructInv', UNCHANGED <<serverVars, groups, call, last>>
  PROVE  PartsInv'
  <1> USE DEF PartsInv, serverVars
  <1>1. Listed' = Listed
    BY DEF Listed
  <1>2. LifeInv' /\ RegisteringInv' /\ UnregisteringInv'
    BY <1>1 DEF LifeInv, RegisteringInv, UnregisteringInv, Down, Described
  <1>3. PublishedIsTold' /\ FinishedInv'
    BY <1>1 DEF PublishedIsTold, FinishedInv, Finished, InCall, At, Stopping,
                Described
  <1>4. PartsAgree'
    BY <1>1 DEF PartsAgree, ListedIsDescribed, AdvertisedIsListed, InCall, At,
                Stopping, Described
  <1>5. SuccessMeansDone'
    BY <1>1 DEF SuccessMeansDone, Idle, Described
  <1> QED
    BY <1>2, <1>3, <1>4, <1>5

(* A daemon that is down agrees with itself.                               *)
LEMMA DownAgrees ==
  ASSUME StructInv', Down', call'.op \in {"none", "start"},
         call'.op = "none" /\ last'.rc = "SUCCESS" => last'.all = {}
  PROVE  PartsInv'
  <1>1. call'.all = {}
    BY DEF StructInv, CallShape
  <1>2. LifeInv' /\ RegisteringInv' /\ UnregisteringInv'
    BY DEF LifeInv, RegisteringInv, UnregisteringInv
  <1>3. PublishedIsTold' /\ FinishedInv'
    BY <1>1 DEF PublishedIsTold, FinishedInv, Down
  <1>4. PartsAgree'
    BY DEF PartsAgree, ListedIsDescribed, AdvertisedIsListed, Down
  <1>5. SuccessMeansDone'
    BY DEF SuccessMeansDone, Idle, StructInv, CallShape
  <1> QED
    BY <1>2, <1>3, <1>4, <1>5 DEF PartsInv

LEMMA PartsInit == RegInit => PartsInv
  <1> SUFFICES ASSUME RegInit PROVE PartsInv
    OBVIOUS
  <1>0. StructInv
    BY StructInvInit
  <1>1. Down
    BY NothingDescribed
       DEF Down, RegInit, StructInit, AvahiInit, Listed, Described
  <1>2. call.op = "none" /\ call.all = {} /\ last.all = {}
    BY DEF RegInit
  <1>3. LifeInv /\ RegisteringInv /\ UnregisteringInv
    BY <1>1, <1>2 DEF LifeInv, RegisteringInv, UnregisteringInv
  <1>4. PublishedIsTold /\ FinishedInv /\ SuccessMeansDone
    BY <1>1, <1>2 DEF PublishedIsTold, FinishedInv, Down, SuccessMeansDone
  <1>5. PartsAgree
    BY <1>1 DEF PartsAgree, ListedIsDescribed, AdvertisedIsListed, Down
  <1> QED
    BY <1>0, <1>3, <1>4, <1>5 DEF PartsInv

(* A start finds nothing and leaves nothing, however far it comes.         *)
LEMMA StartKeepsParts ==
  ASSUME PartsInv, StructInv', HPD_start \/ start_server
  PROVE  PartsInv'
  <1> USE DEF PartsInv
  <1>1. Down
    <2>1. HPD_start => call.op = "none" /\ up # Parts
      BY DEF HPD_start, Begin, Idle, StructInv, CallShape, Parts
    <2>2. start_server => call.op = "start"
      BY DEF start_server, init_xml, StartPart, start_unsecure_server,
             start_secure_server, At
    <2> QED
      BY <2>1, <2>2 DEF LifeInv
  <1>2. /\ UNCHANGED <<http_list, https_list, told, groups>>
        /\ xml_tree' \in {xml_tree, init_xml_file}
    BY DEF HPD_start, start_server, init_xml, StartPart, start_unsecure_server,
           start_secure_server, serverVars, avahiVars, avahi_start
  <1>3. Down'
    BY <1>1, <1>2, NothingDescribed DEF Down, Listed, Described
  <1>4. call'.op \in {"none", "start"}
    BY DEF HPD_start, start_server, init_xml, StartPart, start_unsecure_server,
           start_secure_server, GoTo, Return, Begin, At, StructInv, TypeOK
  <1>5. call'.op = "none" => last'.all = {}
    BY DEF HPD_start, start_server, init_xml, StartPart, start_unsecure_server,
           start_secure_server, GoTo, Return, Begin, At, StructInv, CallShape,
           TypeOK
  <1> QED
    BY <1>3, <1>4, <1>5, DownAgrees

(* A stop empties the parts one after the other.                           *)
LEMMA StopKeepsParts ==
  ASSUME PartsInv, StructInv', HPD_stop \/ stop_server
  PROVE  PartsInv'
  <1> USE DEF PartsInv
  <1>0. /\ {"https", "xml", "avahi", "events", "http"} \subseteq Steps
        /\ "stop" \in Calls /\ "SUCCESS" \in Codes /\ TypeOK
    BY DEF Steps, Calls, Codes, StructInv
  <1>1. CASE HPD_stop
    <2> USE <1>1 DEF HPD_stop, serverVars, avahiVars
    <2>1. call'.op = "stop" /\ call'.step = "events" /\ call'.all = {}
      BY <1>0, CallKeepsType
    <2>2. call.op = "none" /\ Listed' = Listed
      BY DEF Begin, Idle, StructInv, CallShape, Listed
    <2>3. LifeInv' /\ RegisteringInv' /\ UnregisteringInv' /\ FinishedInv'
          /\ SuccessMeansDone'
      BY <2>1 DEF LifeInv, RegisteringInv, UnregisteringInv, FinishedInv,
         SuccessMeansDone, Idle
    <2>4. PublishedIsTold' /\ PartsAgree'
      BY <2>1, <2>2 DEF PublishedIsTold, PartsAgree, ListedIsDescribed,
         AdvertisedIsListed, InCall, At, Stopping, Described
    <2> QED
      BY <2>3, <2>4
  <1>2. stop_server => call.op = "stop" /\ call.all = {}
    BY DEF stop_server, free_events, stop_unsecure_server, stop_secure_server,
           delete_xml, At, StructInv, CallShape
  <1>3. call.op = "stop" =>
          \A s \in Service : s \in Listed => Described(s)
    BY DEF PartsAgree, ListedIsDescribed, InCall, At
  <1>4. ASSUME NEW next \in Steps \ {"idle"}, stop_server, GoTo(next),
               \A s \in Service : told'[s] = "new",
               \A s \in Service : s \in Listed' => Described(s)',
               LifeInv'
        PROVE  PartsInv'
    <2>1. call'.op = "stop" /\ call'.step = next /\ call'.all = {}
      BY <1>0, <1>2, <1>4, CallKeepsType
    <2>2. RegisteringInv' /\ UnregisteringInv' /\ FinishedInv'
          /\ SuccessMeansDone'
      BY <1>4, <2>1 DEF RegisteringInv, UnregisteringInv, FinishedInv,
         SuccessMeansDone, Idle
    <2>3. PublishedIsTold' /\ PartsAgree'
      BY <1>4, <2>1 DEF PublishedIsTold, PartsAgree, ListedIsDescribed,
         AdvertisedIsListed, Stopping
    <2> QED
      BY <1>4, <2>2, <2>3
  <1>5. CASE free_events
    <2> USE <1>5 DEF free_events
    <2>1. call'.op = "stop" /\ call'.step = "http"
      BY <1>0, CallKeepsType DEF At
    <2>2. LifeInv' /\ Listed' = Listed
      BY <2>1 DEF LifeInv, Listed
    <2>3. "http" \in Steps \ {"idle"} /\ stop_server
      BY <1>0 DEF stop_server
    <2> QED
      BY <1>2, <1>3, <1>4, <2>2, <2>3 DEF Described
  <1>6. CASE stop_unsecure_server
    <2> USE <1>6 DEF stop_unsecure_server, free_unsecure_server_services
    <2>1. call.op = "stop" /\ call.step = "http"
          /\ call'.op = "stop" /\ call'.step = "https"
      BY <1>0, CallKeepsType DEF At
    <2>2. LifeInv' /\ Listed' \subseteq Listed
      BY <2>1 DEF LifeInv, Listed
    <2>3. "https" \in Steps \ {"idle"} /\ stop_server
      BY <1>0 DEF stop_server
    <2>4. \A s \in Service : told'[s] = "new"
      BY <2>1 DEF LifeInv
    <2> QED
      BY <1>2, <1>3, <1>4, <2>2, <2>3, <2>4 DEF Described
  <1>7. CASE stop_secure_server
    <2> USE <1>7 DEF stop_secure_server, free_secure_server_services
    <2>1. call.op = "stop" /\ call.step = "https"
          /\ call'.op = "stop" /\ call'.step = "xml"
      BY <1>0, CallKeepsType DEF At
    <2>2. LifeInv' /\ Listed' \subseteq Listed
      BY <2>1 DEF LifeInv, Listed
    <2>3. "xml" \in Steps \ {"idle"} /\ stop_server
      BY <1>0 DEF stop_server
    <2>4. \A s \in Service : told'[s] = "new"
      BY <2>1 DEF LifeInv
    <2> QED
      BY <1>2, <1>3, <1>4, <2>2, <2>3, <2>4 DEF Described
  <1>8. CASE delete_xml
    <2> USE <1>8 DEF delete_xml
    <2>1. call.op = "stop" /\ call.step = "xml"
          /\ call'.op = "stop" /\ call'.step = "avahi"
      BY <1>0, CallKeepsType DEF At
    <2>2. \A s \in Service : ~Described(s)'
      BY NothingDescribed DEF Described
    <2>3. LifeInv' /\ Listed' = {}
      BY <2>1, <2>2 DEF LifeInv, Listed
    <2>4. "avahi" \in Steps \ {"idle"} /\ stop_server
      BY <1>0 DEF stop_server
    <2>5. \A s \in Service : told'[s] = "new"
      BY <2>1 DEF LifeInv
    <2> QED
      BY <1>4, <2>3, <2>4, <2>5
  <1>9. ASSUME At("stop", "avahi"), avahi_quit, Return("SUCCESS"),
               UNCHANGED <<structVars, http_list, https_list, xml_tree, told>>
        PROVE  PartsInv'
    <2>1. call.op = "stop" /\ call.step = "avahi"
          /\ call'.op = "none" /\ last'.all = {}
      BY <1>0, <1>9, CallKeepsType DEF At, StructInv, CallShape
    <2>2. Listed' = {} /\ groups' = {}
      BY <1>9, <2>1 DEF LifeInv, Listed, avahi_quit, avahi_client_quit,
         avahi_core_quit
    <2>3. Down'
      BY <1>9, <2>1, <2>2 DEF LifeInv, Down, Described
    <2> QED
      BY <2>1, <2>3, DownAgrees
  <1> QED
    BY <1>1, <1>5, <1>6, <1>7, <1>8, <1>9 DEF stop_server

(* A registration adds the service to one part after the other.            *)
LEMMA RegisterKeepsParts ==
  ASSUME PartsInv, StructInv', register_service_in_server
  PROVE  PartsInv'
  <1> USE DEF PartsInv
  <1> DEFINE s == call.svc
  <1>0. {"next", "xml", "avahi", "notify"} \subseteq Steps
        /\ {"ALREADY_REGISTER", "AVAHI_ERROR"} \subseteq Codes /\ TypeOK
    BY DEF Steps, Codes, StructInv
  <1>1. /\ call.op = "register" /\ call.step # "next"
        /\ s \in call.all \ call.todo /\ s \in Service
        /\ call.all \subseteq Service
    BY DEF register_service_in_server, register_in_list, register_in_xml,
           register_in_avahi, notify_registered, At, StructInv, CallShape,
           TypeOK, StructTypeOK
  <1> HIDE DEF s
  <1>2. s = call.svc
    BY DEF s
  <1>3. ASSUME NEW rc \in Codes, Return(rc), rc # "SUCCESS",
               UNCHANGED <<Listed, told, xml_tree, groups, up>>,
               call.step = "list" \/ (call.step = "avahi" /\ s \notin groups)
        PROVE  PartsInv'
    <2>1. call'.op = "none" /\ call'.all = {} /\ last'.rc = rc /\ up = Parts
      BY <1>0, <1>1, <1>3, CallKeepsType DEF StructInv, CallShape
    <2>2. LifeInv' /\ RegisteringInv' /\ UnregisteringInv' /\ FinishedInv'
          /\ SuccessMeansDone'
      BY <1>3, <2>1 DEF LifeInv, RegisteringInv, UnregisteringInv, FinishedInv,
         SuccessMeansDone
    <2>3. PublishedIsTold' /\ PartsAgree'
      BY <1>1, <1>2, <1>3, <2>1 DEF PublishedIsTold, PartsAgree,
         ListedIsDescribed, AdvertisedIsListed, InCall, At, Stopping,
         Described, RegisteringInv
    <2> QED
      BY <2>2, <2>3
  <1>4. ASSUME NEW next \in {"xml", "avahi", "notify", "next"}, GoTo(next)
        PROVE  /\ call'.op = "register" /\ call'.step = next /\ call'.svc = s
               /\ call'.all = call.all /\ call'.todo = call.todo
               /\ LifeInv' /\ UnregisteringInv' /\ SuccessMeansDone'
    BY <1>0, <1>1, <1>2, <1>4, CallKeepsType
       DEF LifeInv, UnregisteringInv, SuccessMeansDone, Idle
  <1>5. CASE register_in_list
    <2> USE <1>5 DEF register_in_list
    <2>1. CASE is_service_registered(s)
      BY <1>0, <1>2, <1>3, <2>1 DEF avahiVars, At, Listed
    <2>2. CASE ~is_service_registered(s)
      <3>1. s \notin Listed
        BY <1>0, <1>1, <2>2, RegisteredMeansListed DEF StructInv
      <3>2. Listed' = Listed \cup {s}
        BY <1>2, <2>2 DEF register_service_in_secure_server,
           register_service_in_unsecure_server, Listed
      <3>3. UNCHANGED <<xml_tree, told, groups>> /\ GoTo("xml")
        BY <1>2, <2>2 DEF avahiVars
      <3>4. told[s] # "YES" /\ s \notin groups
        BY <1>1, <3>1 DEF PartsAgree, AdvertisedIsListed, InCall, At, Stopping
      <3>5. RegisteringInv' /\ PublishedIsTold'
        BY <1>1, <1>4, <3>2, <3>3, <3>4
           DEF RegisteringInv, PublishedIsTold, InCall, At, Stopping
      <3>6. FinishedInv'
        BY <1>1, <1>2, <1>4, <3>2, <3>3
           DEF FinishedInv, Finished, Described
      <3>7. PartsAgree'
        BY <1>1, <1>2, <1>4, <3>2, <3>3
           DEF PartsAgree, ListedIsDescribed, AdvertisedIsListed, InCall, At,
               Stopping, Described
      <3> QED
        BY <1>4, <3>3, <3>5, <3>6, <3>7
    <2> QED
      BY <2>1, <2>2
  <1>6. CASE register_in_xml
    <2> USE <1>6 DEF register_in_xml
    <2>1. UNCHANGED <<Listed, told, groups>> /\ GoTo("avahi")
          /\ call.step = "xml"
      BY DEF Listed, avahiVars, At
    <2>2. \A t \in Service : Described(t)' <=> t = s \/ Described(t)
      BY <1>0, <1>1, <1>2, AddDescribes DEF TypeOK, Described
    <2>3. RegisteringInv' /\ PublishedIsTold'
      BY <1>1, <1>2, <1>4, <2>1, <2>2
         DEF RegisteringInv, PublishedIsTold, InCall, At, Stopping
    <2>4. FinishedInv'
      BY <1>1, <1>2, <1>4, <2>1, <2>2 DEF FinishedInv, Finished
    <2>5. s \in Listed
      BY <1>1, <1>2, <2>1 DEF RegisteringInv
    <2>6. PartsAgree'
      BY <1>1, <1>2, <1>4, <2>1, <2>2, <2>5
         DEF PartsAgree, ListedIsDescribed, AdvertisedIsListed, InCall, At,
             Stopping
    <2> QED
      BY <1>4, <2>1, <2>3, <2>4, <2>6
  <1>7. CASE register_in_avahi
    <2>1. PICK ok \in BOOLEAN :
            /\ avahi_create_service(s, ok)
            /\ IF ok THEN GoTo("notify") ELSE Return("AVAHI_ERROR")
      BY <1>2, <1>7 DEF register_in_avahi
    <2>2. /\ UNCHANGED <<Listed, told, xml_tree, up>> /\ call.step = "avahi"
      BY <1>7 DEF register_in_avahi, Listed, serverVars, At
    <2>3. groups' = IF ok THEN groups \cup {s} ELSE groups
      BY <2>1 DEF avahi_create_service, avahi_client_create_service,
         avahi_core_create_service
    <2>4. s \in Listed /\ told[s] # "YES" /\ s \notin groups
      BY <1>1, <1>2, <2>2 DEF RegisteringInv, PublishedIsTold, InCall, At,
         Stopping
    <2>5. CASE ok
      <3>1. groups' = groups \cup {s} /\ GoTo("notify")
        BY <2>1, <2>3, <2>5
      <3>2. RegisteringInv' /\ PublishedIsTold'
        BY <1>1, <1>2, <1>4, <2>2, <2>4, <3>1
           DEF RegisteringInv, PublishedIsTold, InCall, At, Stopping, Described
      <3>3. FinishedInv'
        BY <1>1, <1>2, <1>4, <2>2, <3>1 DEF FinishedInv, Finished, Described
      <3>4. PartsAgree'
        BY <1>1, <1>2, <1>4, <2>2, <2>4, <3>1
           DEF PartsAgree, ListedIsDescribed, AdvertisedIsListed, InCall, At,
               Stopping, Described
      <3> QED
        BY <1>4, <3>1, <3>2, <3>3, <3>4
    <2>6. CASE ~ok
      BY <1>0, <1>3, <2>1, <2>2, <2>3, <2>4, <2>6
    <2> QED
      BY <2>5, <2>6
  <1>8. CASE notify_registered
    <2> USE <1>8 DEF notify_registered
    <2>1. UNCHANGED <<Listed, xml_tree, groups>> /\ GoTo("next")
          /\ call.step = "notify"
      BY DEF Listed, avahiVars, At
    <2>2. told'[s] = "YES" /\ \A t \in Service : t # s => told'[t] = told[t]
      BY <1>0, <1>1, <1>2 DEF TypeOK
    <2>3. RegisteringInv' /\ PublishedIsTold'
      BY <1>1, <1>2, <1>4, <2>1, <2>2
         DEF RegisteringInv, PublishedIsTold, InCall, At, Stopping
    <2>4. s \in Listed /\ s \in groups /\ Described(s)
      BY <1>1, <1>2, <2>1 DEF RegisteringInv
    <2>5. FinishedInv'
      BY <1>1, <1>2, <1>4, <2>1, <2>2, <2>4
         DEF FinishedInv, Finished, Described
    <2>6. PartsAgree'
      BY <1>1, <1>2, <1>4, <2>1, <2>2, <2>4
         DEF PartsAgree, ListedIsDescribed, AdvertisedIsListed, InCall, At,
             Stopping, Described
    <2> QED
      BY <1>4, <2>1, <2>3, <2>5, <2>6
  <1> QED
    BY <1>5, <1>6, <1>7, <1>8 DEF register_service_in_server

(* Avahi finds the group of a service by its name: its own and no other.   *)
LEMMA PublishedIsIt ==
  ASSUME TypeOK, NEW s \in Service
  PROVE  /\ Published(s) = groups \cap {s}
         /\ avahi_remove_service(s) => groups' = groups \ {s}
  <1>1. \A g \in groups : Url(g) = Url(s) <=> g = s
    BY NamesTell DEF TypeOK, AvahiTypeOK
  <1>2. Published(s) = groups \cap {s}
    BY <1>1 DEF Published
  <1> QED
    BY <1>2 DEF avahi_remove_service, avahi_client_remove_service,
       avahi_core_remove_service

(* An unregistration removes the service from one part after the other; a  *)
(* service that is listed is described, so that the XML error cannot       *)
(* happen, and one that Avahi does not publish was never announced.        *)
LEMMA UnregisterKeepsParts ==
  ASSUME PartsInv, StructInv', unregister_service_in_server
  PROVE  PartsInv'
  <1> USE DEF PartsInv
  <1> DEFINE s == call.svc
  <1>0. {"next", "xml", "avahi", "notify"} \subseteq Steps
        /\ {"NOT_REGISTER", "SERVICE_NOT_FOUND"} \subseteq Codes /\ TypeOK
    BY DEF Steps, Codes, StructInv
  <1>1. /\ call.op = "unregister" /\ call.step # "next"
        /\ s \in call.all \ call.todo /\ s \in Service
        /\ call.all \subseteq Service
    BY DEF unregister_service_in_server, unregister_in_list, unregister_in_xml,
           unregister_in_avahi, notify_unregistered, At, StructInv, CallShape,
           TypeOK, StructTypeOK
  <1> HIDE DEF s
  <1>2. s = call.svc
    BY DEF s
  <1>3. ASSUME NEW rc \in Codes, Return(rc), rc # "SUCCESS",
               UNCHANGED <<Listed, told, xml_tree, groups, up>>,
               call.step = "list" \/ (call.step = "avahi" /\ s \notin groups)
        PROVE  PartsInv'
    <2>1. call'.op = "none" /\ call'.all = {} /\ last'.rc = rc /\ up = Parts
      BY <1>0, <1>1, <1>3, CallKeepsType DEF StructInv, CallShape
    <2>2. LifeInv' /\ RegisteringInv' /\ UnregisteringInv' /\ FinishedInv'
          /\ SuccessMeansDone'
      BY <1>3, <2>1 DEF LifeInv, RegisteringInv, UnregisteringInv, FinishedInv,
         SuccessMeansDone
    <2>3. PublishedIsTold' /\ PartsAgree'
      BY <1>1, <1>2, <1>3, <2>1 DEF PublishedIsTold, PartsAgree,
         ListedIsDescribed, AdvertisedIsListed, InCall, At, Stopping,
         Described, UnregisteringInv
    <2> QED
      BY <2>2, <2>3
  <1>4. ASSUME NEW next \in {"xml", "avahi", "notify", "next"}, GoTo(next)
        PROVE  /\ call'.op = "unregister" /\ call'.step = next /\ call'.svc = s
               /\ call'.all = call.all /\ call'.todo = call.todo
               /\ LifeInv' /\ RegisteringInv' /\ SuccessMeansDone'
    BY <1>0, <1>1, <1>2, <1>4, CallKeepsType
       DEF LifeInv, RegisteringInv, SuccessMeansDone, Idle
  <1>5. CASE unregister_in_list
    <2> USE <1>5 DEF unregister_in_list
    <2>1. CASE ~is_service_registered(s)
      BY <1>0, <1>2, <1>3, <2>1 DEF avahiVars, At, Listed
    <2>2. CASE is_service_registered(s)
      <3>1. s \in Listed
        BY <1>0, <1>1, <2>2, RegisteredMeansListed DEF StructInv
      <3>2. Listed' = Listed \ {s}
        BY <1>0, <1>1, <1>2, <2>2, ListLosesOne DEF StructInv
      <3>3. UNCHANGED <<xml_tree, told, groups>> /\ GoTo("xml")
        BY <1>2, <2>2 DEF avahiVars
      <3>4. Described(s)
        BY <1>1, <3>1 DEF PartsAgree, ListedIsDescribed, InCall, At
      <3>5. UnregisteringInv' /\ PublishedIsTold'
        BY <1>1, <1>4, <3>2, <3>3, <3>4
           DEF UnregisteringInv, PublishedIsTold, InCall, At, Stopping,
               Described
      <3>6. FinishedInv'
        BY <1>1, <1>2, <1>4, <3>2, <3>3
           DEF FinishedInv, Finished, Described
      <3>7. PartsAgree'
        BY <1>1, <1>2, <1>4, <3>2, <3>3
           DEF PartsAgree, ListedIsDescribed, AdvertisedIsListed, InCall, At,
               Stopping, Described
      <3> QED
        BY <1>4, <3>3, <3>5, <3>6, <3>7
    <2> QED
      BY <2>1, <2>2
  <1>6. CASE unregister_in_xml
    <2> USE <1>6 DEF unregister_in_xml
    <2>1. Described(s) /\ s \notin Listed /\ call.step = "xml"
      BY <1>1, <1>2 DEF UnregisteringInv, At
    <2>2. UNCHANGED <<Listed, told, groups>> /\ GoTo("avahi")
      BY <1>2, <2>1 DEF Listed, avahiVars, Described
    <2>3. \A t \in Service : Described(t)' <=> t # s /\ Described(t)
      BY <1>0, <1>1, <1>2, <2>1, RemoveDescribesNot DEF TypeOK, Described
    <2>4. UnregisteringInv' /\ PublishedIsTold'
      BY <1>1, <1>2, <1>4, <2>1, <2>2, <2>3
         DEF UnregisteringInv, PublishedIsTold, InCall, At, Stopping
    <2>5. FinishedInv'
      BY <1>1, <1>2, <1>4, <2>2, <2>3 DEF FinishedInv, Finished
    <2>6. PartsAgree'
      BY <1>1, <1>2, <1>4, <2>1, <2>2, <2>3
         DEF PartsAgree, ListedIsDescribed, AdvertisedIsListed, InCall, At,
             Stopping
    <2> QED
      BY <1>4, <2>2, <2>4, <2>5, <2>6
  <1>7. CASE unregister_in_avahi
    <2> USE <1>7 DEF unregister_in_avahi
    <2>1. /\ UNCHANGED <<Listed, told, xml_tree, up>> /\ call.step = "avahi"
          /\ s \notin Listed /\ ~Described(s)
      BY <1>1, <1>2 DEF Listed, serverVars, At, UnregisteringInv
    <2>2. groups' = groups \ {s} /\ Published(s) = groups \cap {s}
      BY <1>0, <1>1, <1>2, PublishedIsIt
    <2>3. CASE s \notin groups
      <3>1. Return("SERVICE_NOT_FOUND") /\ groups' = groups
        BY <1>2, <2>2, <2>3
      <3> QED
        BY <1>0, <1>3, <2>1, <2>3, <3>1
    <2>4. CASE s \in groups
      <3>1. GoTo("notify") /\ told[s] = "YES"
        BY <1>1, <1>2, <2>1, <2>2, <2>4 DEF PublishedIsTold, InCall, At,
           Stopping
      <3>2. UnregisteringInv' /\ PublishedIsTold'
        BY <1>1, <1>2, <1>4, <2>1, <2>2, <3>1
           DEF UnregisteringInv, PublishedIsTold, InCall, At, Stopping,
               Described
      <3>3. FinishedInv'
        BY <1>1, <1>2, <1>4, <2>1, <2>2, <3>1
           DEF FinishedInv, Finished, Described
      <3>4. PartsAgree'
        BY <1>1, <1>2, <1>4, <2>1, <2>2, <3>1
           DEF PartsAgree, ListedIsDescribed, AdvertisedIsListed, InCall, At,
               Stopping, Described
      <3> QED
        BY <1>4, <3>1, <3>2, <3>3, <3>4
    <2> QED
      BY <2>3, <2>4
  <1>8. CASE notify_unregistered
    <2> USE <1>8 DEF notify_unregistered
    <2>1. UNCHANGED <<Listed, xml_tree, groups>> /\ GoTo("next")
          /\ call.step = "notify"
      BY DEF Listed, avahiVars, At
    <2>2. told'[s] = "NO" /\ \A t \in Service : t # s => told'[t] = told[t]
      BY <1>0, <1>1, <1>2 DEF TypeOK
    <2>3. s \notin Listed /\ s \notin groups /\ ~Described(s)
      BY <1>1, <1>2, <2>1 DEF UnregisteringInv
    <2>4. UnregisteringInv' /\ PublishedIsTold'
      BY <1>1, <1>2, <1>4, <2>1, <2>2, <2>3
         DEF UnregisteringInv, PublishedIsTold, InCall, At, Stopping
    <2>5. FinishedInv'
      BY <1>1, <1>2, <1>4, <2>1, <2>2, <2>3
         DEF FinishedInv, Finished, Described
    <2>6. PartsAgree'
      BY <1>1, <1>2, <1>4, <2>1, <2>2, <2>3
         DEF PartsAgree, ListedIsDescribed, AdvertisedIsListed, InCall, At,
             Stopping, Described
    <2> QED
      BY <1>4, <2>1, <2>4, <2>5, <2>6
  <1> QED
    BY <1>5, <1>6, <1>7, <1>8 DEF unregister_service_in_server

(* A call begins with nothing done, and ends when it is done with all.     *)
LEMMA CallKeepsParts ==
  ASSUME PartsInv, StructInv',
         \/ \E s \in Service : HPD_register_service(s)
                               \/ HPD_unregister_service(s)
         \/ \E d \in Device : register_device_services(d)
                              \/ unregister_device_services(d)
         \/ NextService
  PROVE  PartsInv'
  <1> USE DEF PartsInv
  <1>0. TypeOK /\ "next" \in Steps /\ {"register", "unregister"} \subseteq Calls
        /\ "SUCCESS" \in Codes
    BY DEF StructInv, Steps, Calls, Codes
  <1>1. UNCHANGED <<Listed, told, xml_tree, groups, up>>
    BY DEF HPD_register_service, HPD_unregister_service,
           register_device_services, unregister_device_services, NextService,
           serverVars, avahiVars, Listed
  <1>2. ASSUME NEW op \in {"register", "unregister"}, NEW S \in SUBSET Service,
               Begin(op, "next", S)
        PROVE  PartsInv'
    <2>1. /\ call'.op = op /\ call'.step = "next" /\ call'.todo = S
          /\ call'.all = S /\ call.op = "none"
      BY <1>0, <1>2, CallKeepsType DEF Begin, Idle, StructInv, CallShape
    <2>2. LifeInv' /\ RegisteringInv' /\ UnregisteringInv' /\ FinishedInv'
          /\ SuccessMeansDone'
      BY <2>1 DEF LifeInv, RegisteringInv, UnregisteringInv, FinishedInv,
         SuccessMeansDone, Idle
    <2>3. PublishedIsTold' /\ PartsAgree'
      BY <1>1, <2>1 DEF PublishedIsTold, PartsAgree, ListedIsDescribed,
         AdvertisedIsListed, InCall, At, Stopping, Described
    <2> QED
      BY <2>2, <2>3
  <1>3. CASE NextService
    <2> USE <1>3 DEF NextService
    <2>1. /\ call.op \in {"register", "unregister"} /\ call.step = "next"
          /\ up = Parts /\ call.todo \subseteq call.all
          /\ call.all \subseteq Service
      BY DEF StructInv, CallShape, TypeOK, StructTypeOK, Calls
    <2>2. \A t \in call.all \ call.todo : Finished(call.op, t)
      BY <2>1 DEF FinishedInv
    <2>3. CASE call.todo = {}
      <3>1. /\ call'.op = "none" /\ call'.step = "idle" /\ call'.all = {}
            /\ last'.op = call.op /\ last'.all = call.all
        BY <1>0, <2>3, CallKeepsType
      <3>2. LifeInv' /\ RegisteringInv' /\ UnregisteringInv' /\ FinishedInv'
        BY <1>1, <2>1, <3>1 DEF LifeInv, RegisteringInv, UnregisteringInv,
           FinishedInv
      <3>3. PublishedIsTold' /\ PartsAgree'
        BY <1>1, <2>1, <3>1 DEF PublishedIsTold, PartsAgree, ListedIsDescribed,
           AdvertisedIsListed, InCall, At, Stopping, Described
      <3>4. SuccessMeansDone'
        BY <1>1, <2>1, <2>2, <2>3, <3>1
           DEF SuccessMeansDone, Finished, Described
      <3> QED
        BY <3>2, <3>3, <3>4
    <2>4. CASE call.todo # {}
      <3>1. PICK s \in call.todo :
              call' = [call EXCEPT !.step = "list", !.svc = s,
                                   !.todo = @ \ {s}]
        BY <2>4
      <3>2. /\ call'.op = call.op /\ call'.step = "list" /\ call'.svc = s
            /\ call'.todo = call.todo \ {s} /\ call'.all = call.all
        BY <1>0, <3>1 DEF TypeOK
      <3>3. LifeInv' /\ RegisteringInv' /\ UnregisteringInv'
            /\ SuccessMeansDone'
        BY <2>1, <3>2 DEF LifeInv, RegisteringInv, UnregisteringInv,
           SuccessMeansDone, Idle
      <3>4. FinishedInv'
        BY <1>1, <2>1, <2>2, <3>1, <3>2 DEF FinishedInv, Finished, Described
      <3>5. PublishedIsTold' /\ PartsAgree'
        BY <1>1, <2>1, <3>2 DEF PublishedIsTold, PartsAgree, ListedIsDescribed,
           AdvertisedIsListed, InCall, At, Stopping, Described
      <3> QED
        BY <3>3, <3>4, <3>5
    <2> QED
      BY <2>3, <2>4
  <1>4. ASSUME NEW d \in Device PROVE service_head[d] \in SUBSET Service
    BY <1>0 DEF TypeOK, StructTypeOK
  <1> QED
    BY <1>2, <1>3, <1>4 DEF HPD_register_service, HPD_unregister_service,
       register_device_services, unregister_device_services

LEMMA PartsStep == PartsInv /\ [RegNext]_regVars => PartsInv'
  <1> SUFFICES ASSUME PartsInv, [RegNext]_regVars PROVE PartsInv'
    OBVIOUS
  <1>1. StructInv'
    BY StructStep DEF PartsInv
  <1>2. ASSUME \/ \E d \in Device : CreateDevice(d) \/ DestroyDevice(d)
               \/ \E s \in Service : CreateService(s) \/ DestroyService(s)
               \/ AvahiRuns
               \/ UNCHANGED regVars
        PROVE  PartsInv'
    <2>1. UNCHANGED <<serverVars, groups, call, last>>
      BY <1>2 DEF CreateDevice, DestroyDevice, CreateService, DestroyService,
         AvahiRuns, AvahiCallback, regVars, avahiVars
    <2> QED
      BY <1>1, <2>1, SameParts
  <1> QED
    BY <1>1, <1>2, StartKeepsParts, StopKeepsParts, RegisterKeepsParts,
       UnregisterKeepsParts, CallKeepsParts DEF RegNext

LEMMA PartsAlways == RegSpec => []PartsInv
  BY PartsInit, PartsStep, PTL DEF RegSpec

(* A failure at any step of a call leaves list, description, publication   *)
(* and announcement in agreement (hpd_web_server.c:149-283).               *)
THEOREM PartsStayTogether == RegSpec => []PartsAgree
  BY PartsAlways, PTL DEF PartsInv

(* HPD_E_SUCCESS is returned only when every part of the call was done for *)
(* each of its services.                                                   *)
THEOREM SuccessIsDone == RegSpec => []SuccessMeansDone
  BY PartsAlways, PTL DEF PartsInv

-----------------------------------------------------------------------------
(* The registry implements the catalog.                                    *)

\* What the catalog calls available.
Offered == {s \in Listed \cap groups : told[s] = "YES" /\ Described(s)}

(* A step after which the same services are offered and told.              *)
LEMMA CatalogStutters ==
  ASSUME Offered' = Offered, told' = told
  PROVE  UNCHANGED Catalog!catalogVars
  BY DEF Catalog!catalogVars, Offered

LEMMA CatalogStep ==
  PartsInv /\ [RegNext]_regVars => [Catalog!CatalogNext]_Catalog!catalogVars
  <1> SUFFICES ASSUME PartsInv, [RegNext]_regVars
               PROVE  Catalog!CatalogNext \/ UNCHANGED Catalog!catalogVars
    OBVIOUS
  <1> USE DEF PartsInv
  <1>0. /\ TypeOK
        /\ Listed \subseteq Service
        /\ told \in [Service -> {"new", "YES", "NO"}]
    BY DEF StructInv, TypeOK, Listed
  <1>1. ASSUME UNCHANGED <<serverVars, groups>>
        PROVE  UNCHANGED Catalog!catalogVars
    <2>1. Offered' = Offered /\ told' = told
      BY <1>1 DEF Offered, Listed, serverVars, Described
    <2> QED
      BY <2>1, CatalogStutters
  <1>2. ASSUME \A s \in Service : told[s] # "YES", told' = told,
               Listed' \subseteq Service
        PROVE  UNCHANGED Catalog!catalogVars
    <2>1. Offered = {} /\ Offered' = {}
      BY <1>0, <1>2 DEF Offered
    <2> QED
      BY <1>2, <2>1, CatalogStutters
  <1>3. Listed' \subseteq Service
    <2>1. StructInv'
      BY StructStep
    <2> QED
      BY <2>1 DEF StructInv, TypeOK, Listed
  <1>4. CASE start_server
    <2>1. Down /\ told' = told
      BY <1>4 DEF LifeInv, start_server, init_xml, StartPart,
         start_unsecure_server, start_secure_server, At
    <2> QED
      BY <1>2, <1>3, <2>1 DEF Down
  <1>5. CASE stop_server
    <2>1. CASE free_events
      <3>1. told' = [s \in Service |-> "new"]
        BY <2>1 DEF free_events
      <3>2. Offered' = {}
        BY <1>3, <3>1 DEF Offered
      <3>3. Catalog!Reset
        BY <3>1, <3>2 DEF Catalog!Reset, Offered
      <3> QED
        BY <3>3 DEF Catalog!CatalogNext
    <2>2. CASE ~free_events
      <3>1. /\ call.op = "stop" /\ call.step # "events" /\ told' = told
        BY <1>5, <2>2 DEF stop_server, stop_unsecure_server,
           stop_secure_server, delete_xml, At
      <3> QED
        BY <1>2, <1>3, <3>1 DEF LifeInv
    <2> QED
      BY <2>1, <2>2
  <1> DEFINE s == call.svc
  <1>6. ASSUME call.op \in {"register", "unregister"}, call.step # "next"
        PROVE  s \in Service
    BY <1>6 DEF StructInv, CallShape, TypeOK, StructTypeOK
  <1> HIDE DEF s
  <1>7. s = call.svc
    BY DEF s
  <1>8. ASSUME s \in Service, told' = told, told[s] # "YES" \/ s \notin Listed,
               \A t \in Service \ {s} : /\ t \in Listed' <=> t \in Listed
                                        /\ t \in groups' <=> t \in groups
                                        /\ Described(t)' <=> Described(t),
               s \in Listed' => s \in Listed \/ told[s] # "YES"
        PROVE  UNCHANGED Catalog!catalogVars
    <2>1. Offered' = Offered
      BY <1>0, <1>3, <1>8 DEF Offered
    <2> QED
      BY <1>8, <2>1, CatalogStutters
  <1>9. CASE register_in_list
    <2> USE <1>9 DEF register_in_list
    <2>1. s \in Service /\ call.op = "register" /\ call.step = "list"
      BY <1>6, <1>7 DEF At
    <2>2. CASE is_service_registered(s)
      BY <1>1, <1>7, <2>2 DEF serverVars, avahiVars
    <2>3. CASE ~is_service_registered(s)
      <3>1. s \notin Listed
        BY <1>0, <2>1, <2>3, RegisteredMeansListed DEF StructInv
      <3>2. Listed' = Listed \cup {s}
        BY <1>7, <2>3 DEF register_service_in_secure_server,
           register_service_in_unsecure_server, Listed
      <3>3. told[s] # "YES"
        BY <2>1, <3>1 DEF PartsAgree, AdvertisedIsListed, InCall, At, Stopping
      <3> QED
        BY <1>8, <2>1, <3>1, <3>2, <3>3 DEF avahiVars, Described
    <2> QED
      BY <2>2, <2>3
  <1>10. CASE register_in_xml
    <2> USE <1>10 DEF register_in_xml
    <2>1. s \in Service /\ call.op = "register" /\ call.step = "xml"
      BY <1>6, <1>7 DEF At
    <2>2. \A t \in Service : Described(t)' <=> t = s \/ Described(t)
      BY <1>0, <1>7, <2>1, AddDescribes DEF TypeOK, Described
    <2>3. told[s] # "YES" /\ Listed' = Listed /\ groups' = groups
      BY <1>7, <2>1 DEF RegisteringInv, Listed, avahiVars
    <2> QED
      BY <1>8, <2>1, <2>2, <2>3
  <1>11. CASE register_in_avahi
    <2> USE <1>11 DEF register_in_avahi
    <2>1. s \in Service /\ call.op = "register" /\ call.step = "avahi"
      BY <1>6, <1>7 DEF At
    <2>2. groups' = groups \cup {s} \/ groups' = groups
      BY <1>7 DEF avahi_create_service, avahi_client_create_service,
         avahi_core_create_service
    <2>3. told[s] # "YES" /\ Listed' = Listed /\ told' = told
          /\ xml_tree' = xml_tree
      BY <1>7, <2>1 DEF RegisteringInv, Listed, serverVars
    <2> QED
      BY <1>8, <2>1, <2>2, <2>3 DEF Described
  <1>12. CASE notify_registered
    <2> USE <1>12 DEF notify_registered
    <2>1. s \in Service /\ call.op = "register" /\ call.step = "notify"
      BY <1>6, <1>7 DEF At
    <2>2. /\ told[s] # "YES" /\ s \in Listed /\ s \in groups /\ Described(s)
          /\ Listed' = Listed /\ groups' = groups /\ xml_tree' = xml_tree
          /\ told' = [told EXCEPT ![s] = "YES"]
      BY <1>7, <2>1 DEF RegisteringInv, Listed, avahiVars
    <2>3. told'[s] = "YES" /\ \A t \in Service : t # s => told'[t] = told[t]
      BY <1>0, <2>1, <2>2
    <2>4. s \notin Offered /\ Offered' = Offered \cup {s}
      BY <1>0, <2>1, <2>2, <2>3 DEF Offered, Described
    <2>5. PICK t \in Service : t = s
      BY <2>1
    <2>6. Catalog!Announce(t)
      BY <2>2, <2>4, <2>5 DEF Catalog!Announce, Offered
    <2> QED
      BY <2>6 DEF Catalog!CatalogNext
  <1>13. CASE unregister_in_list
    <2> USE <1>13 DEF unregister_in_list
    <2>1. s \in Service /\ call.op = "unregister" /\ call.step = "list"
      BY <1>6, <1>7 DEF At
    <2>2. CASE ~is_service_registered(s)
      BY <1>1, <1>7, <2>2 DEF serverVars, avahiVars
    <2>3. CASE is_service_registered(s)
      <3>1. Listed' = Listed \ {s}
        BY <1>0, <1>7, <2>1, <2>3, ListLosesOne DEF StructInv
      <3>2. told' = told /\ groups' = groups /\ xml_tree' = xml_tree
        BY DEF avahiVars
      <3>3. Offered' = Offered \ {s}
        BY <3>1, <3>2 DEF Offered, Described
      <3>4. CASE s \in Offered
        <4>1. PICK t \in Service : t = s
          BY <2>1
        <4>2. Catalog!Withdraw(t)
          BY <3>2, <3>3, <3>4, <4>1 DEF Catalog!Withdraw, Offered
        <4> QED
          BY <4>2 DEF Catalog!CatalogNext
      <3>5. CASE s \notin Offered
        BY <3>2, <3>3, <3>5, CatalogStutters
      <3> QED
        BY <3>4, <3>5
    <2> QED
      BY <2>2, <2>3
  <1>14. CASE unregister_in_xml
    <2> USE <1>14 DEF unregister_in_xml
    <2>1. s \in Service /\ call.op = "unregister" /\ call.step = "xml"
      BY <1>6, <1>7 DEF At
    <2>2. Described(s) /\ s \notin Listed /\ Listed' = Listed
          /\ groups' = groups
      BY <1>7, <2>1 DEF UnregisteringInv, Listed, avahiVars
    <2>3. \A t \in Service : Described(t)' <=> t # s /\ Described(t)
      BY <1>0, <1>7, <2>1, <2>2, RemoveDescribesNot DEF TypeOK, Described
    <2> QED
      BY <1>8, <2>1, <2>2, <2>3
  <1>15. CASE unregister_in_avahi
    <2> USE <1>15 DEF unregister_in_avahi
    <2>1. s \in Service /\ call.op = "unregister" /\ call.step = "avahi"
      BY <1>6, <1>7 DEF At
    <2>2. s \notin Listed /\ Listed' = Listed /\ told' = told
          /\ xml_tree' = xml_tree
      BY <1>7, <2>1 DEF UnregisteringInv, Listed, serverVars
    <2>3. groups' = groups \ {s}
      BY <1>0, <1>7, <2>1, PublishedIsIt
    <2> QED
      BY <1>8, <2>1, <2>2, <2>3 DEF Described
  <1>16. CASE notify_unregistered
    <2> USE <1>16 DEF notify_unregistered
    <2>1. s \in Service /\ call.op = "unregister" /\ call.step = "notify"
      BY <1>6, <1>7 DEF At
    <2>2. /\ told[s] = "YES" /\ s \notin Listed
          /\ Listed' = Listed /\ groups' = groups /\ xml_tree' = xml_tree
          /\ told' = [told EXCEPT ![s] = "NO"]
      BY <1>7, <2>1 DEF UnregisteringInv, Listed, avahiVars
    <2>3. \A t \in Service : t # s => told'[t] = told[t]
      BY <1>0, <2>1, <2>2
    <2>4. s \notin Offered /\ Offered' = Offered
      BY <1>0, <2>1, <2>2, <2>3 DEF Offered, Described
    <2>5. PICK t \in Service : t = s
      BY <2>1
    <2>6. Catalog!Retract(t)
      BY <2>2, <2>4, <2>5 DEF Catalog!Retract, Offered
    <2> QED
      BY <2>6 DEF Catalog!CatalogNext
  <1>17. ASSUME \/ HPD_start \/ HPD_stop
                \/ \E t \in Service : HPD_register_service(t)
                                      \/ HPD_unregister_service(t)
                \/ \E d \in Device : register_device_services(d)
                                     \/ unregister_device_services(d)
                \/ NextService
                \/ \E d \in Device : CreateDevice(d) \/ DestroyDevice(d)
                \/ \E t \in Service : CreateService(t) \/ DestroyService(t)
                \/ AvahiRuns
                \/ UNCHANGED regVars
         PROVE  UNCHANGED <<serverVars, groups>>
    BY <1>17 DEF HPD_start, HPD_stop, HPD_register_service,
       HPD_unregister_service, register_device_services,
       unregister_device_services, NextService, CreateDevice, DestroyDevice,
       CreateService, DestroyService, AvahiRuns, AvahiCallback, regVars,
       avahiVars
  <1> QED
    BY <1>1, <1>4, <1>5, <1>9, <1>10, <1>11, <1>12, <1>13, <1>14, <1>15, <1>16,
       <1>17 DEF RegNext, register_service_in_server,
       unregister_service_in_server

(* Clients that follow the availability events are told YES and NO in turn *)
(* and only what is so, through all failures of calls (ServiceCatalog).    *)
THEOREM CatalogImplemented == RegSpec => ImplementsCatalog
  <1>1. RegInit => Catalog!CatalogInit
    BY DEF RegInit, Catalog!CatalogInit, AvahiInit, Listed
  <1> QED
    BY <1>1, CatalogStep, PartsAlways, PTL
       DEF RegSpec, ImplementsCatalog, Catalog!Catalog
=============================================================================
