------------------------- MODULE MCServerSentEvents -------------------------
(***************************************************************************)
(* Instances of the server-sent events for TLC.  Connections are           *)
(* interchangeable, so are sessions (the list orders them by creation) and *)
(* the threads that serve subscriptions.                                   *)
(***************************************************************************)
EXTENDS ServerSentEvents, TLC

Symmetry ==
  Permutations(Session) \cup Permutations(Conn) \cup Permutations(Request)
=============================================================================
