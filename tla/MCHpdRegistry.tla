--------------------------- MODULE MCHpdRegistry ----------------------------
(***************************************************************************)
(* An instance of the registry for TLC: a device of the first web server   *)
(* with two services and a secure device with one.                         *)
(***************************************************************************)
EXTENDS HpdRegistry

CONSTANTS lamp, switch, s0, s1, s2

MCDevOf == s0 :> lamp @@ s1 :> lamp @@ s2 :> switch

MCDevName == lamp :> "lamp" @@ switch :> "switch"

MCSvcName == s0 :> "relay" @@ s1 :> "dimmer" @@ s2 :> "relay"
=============================================================================
