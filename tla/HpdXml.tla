------------------------------- MODULE HpdXml -------------------------------
(***************************************************************************)
(* The device description of the HomePort daemon (hpd_xml.c): a document   *)
(* with one node per device and, below it, one node per service.  A tree   *)
(* is a function from the names of the listed devices to the names of      *)
(* their services; a name stands for the pair (type, id) that the code     *)
(* compares, so two devices may bear the same one.  Attributes, parameters *)
(* and the text of the file are left out.                                  *)
(***************************************************************************)
EXTENDS TLC

CONSTANTS
  Service,      \* service structures
  Device,       \* device structures
  DevOf,        \* the device of a service
  DevName,      \* the (type, id) of a device
  SvcName       \* the (type, id) of a service

\* value_url and zeroConfName: both are made of the four names.
Url(s) == <<DevName[DevOf[s]], SvcName[s]>>

Names(f) == {f[x] : x \in DOMAIN f}

Trees == UNION {[D -> SUBSET Names(SvcName)] : D \in SUBSET Names(DevName)}

init_xml_file == <<>>

device_is_in_xml_file(tree, d) == DevName[d] \in DOMAIN tree

get_xml_node_of_device(tree, d) == tree[DevName[d]]

service_is_in_xml_file(tree, s) ==
  /\ device_is_in_xml_file(tree, DevOf[s])
  /\ SvcName[s] \in get_xml_node_of_device(tree, DevOf[s])

\* DEVICE_ALREADY_IN_XML leaves the document alone.
add_device_to_xml(tree, d) ==
  IF device_is_in_xml_file(tree, d) THEN tree
  ELSE [n \in DOMAIN tree \cup {DevName[d]} |->
          IF n \in DOMAIN tree THEN tree[n] ELSE {}]

\* Mutant: a device that is missing is added, and the service is not.
add_service_to_xmlOnce(tree, s) ==
  IF ~device_is_in_xml_file(tree, DevOf[s])
  THEN add_device_to_xml(tree, DevOf[s])
  ELSE [tree EXCEPT ![DevName[DevOf[s]]] = @ \cup {SvcName[s]}]

\* SERVICE_ALREADY_IN_XML leaves the document alone; a device that is missing
\* is added first.
add_service_to_xml(tree, s) ==
  IF service_is_in_xml_file(tree, s) THEN tree
  ELSE LET with == add_device_to_xml(tree, DevOf[s])
       IN  [with EXCEPT ![DevName[DevOf[s]]] = @ \cup {SvcName[s]}]

\* The node of the device stays, even without services: nothing calls
\* remove_device_from_XML.
remove_service_from_XML(tree, s) ==
  [tree EXCEPT ![DevName[DevOf[s]]] = @ \ {SvcName[s]}]

\* The answer to GET url?x=1: whether there is a description to send.
extract_service_xml(tree, s) == service_is_in_xml_file(tree, s)

\* The answer to GET /devices: every device node with its services.
get_xml_device_list(tree) ==
  UNION {{<<n, v>> : v \in tree[n]} : n \in DOMAIN tree}
=============================================================================
