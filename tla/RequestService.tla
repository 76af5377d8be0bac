--------------------------- MODULE RequestService ---------------------------
(***************************************************************************)
(* What hpclientSD looks for (request_service.c and xmlAPI.c): a list of   *)
(* requests whose fields that are NULL match anything.                     *)
(***************************************************************************)
CONSTANTS
  NULL,         \* a field nobody has set, or an attribute that is absent
  Garbage       \* what malloc left in a field

Field == {"ID", "type", "device_ID", "device_type", "location"}

(* Every field but the location.                                           *)
init_request_service_struct ==
  [f \in Field |-> IF f = "location" THEN Garbage ELSE NULL]

(* The list main makes of its arguments: a type that is not given matches  *)
(* every type; without a location there is no request.                     *)
creaters(servicetype, location) ==
  IF location = NULL THEN {}
  ELSE {[init_request_service_struct EXCEPT !.type = servicetype,
                                            !.location = location]}

destroy_request_service_list(requests) == {}

Matches(r, description) ==
  \A f \in Field : r[f] # NULL => r[f] = description[f]

(* Mutant: a location found is compared only when no type is asked for.    *)
get_matching_request_serviceAnywhere(description, requests) ==
  {r \in requests : \A f \in Field \ {"location"} :
                      r[f] # NULL => r[f] = description[f]}

(* An attribute the description lacks matches no request for it.           *)
get_matching_request_service(description, requests) ==
  {r \in requests : Matches(r, description)}
=============================================================================
