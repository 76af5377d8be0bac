-------------------------- MODULE MCHpdConnections --------------------------
(***************************************************************************)
(* An instance of the request handlers for TLC: two services, the second   *)
(* of which has no put_function.                                           *)
(***************************************************************************)
EXTENDS HpdConnections

CONSTANTS s0, s1

MCList == <<s0, s1>>
=============================================================================
