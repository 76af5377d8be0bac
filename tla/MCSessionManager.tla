-------------------------- MODULE MCSessionManager --------------------------
(***************************************************************************)
(* Instances of the session manager for TLC.  The session manager's task   *)
(* id is the VPS of an IP task, as task 2 is in the bridge.                *)
(***************************************************************************)
EXTENDS SessionManager

MCSlots == {SessionManagerTask_id}
=============================================================================
