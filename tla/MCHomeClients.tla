---------------------------- MODULE MCHomeClients ---------------------------
(***************************************************************************)
(* An instance for TLC: three services, one behind the only port of the   *)
(* bridge, one of another location than the wanted one, and one described  *)
(* in more than hpclientSD's buffer holds; a lamp and another device;      *)
(* descriptors for one GET, which may be gone.                             *)
(***************************************************************************)
EXTENDS HomeClients

MCAttributes(type, location) ==
  [ID |-> "0", type |-> type, device_ID |-> "out", device_type |-> "Bridge",
   location |-> location]

MCDescription == <<MCAttributes("light", "outside"),
                   MCAttributes("light", "inside"),
                   MCAttributes("light", "outside")>>
=============================================================================
