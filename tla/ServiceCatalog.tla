--------------------------- MODULE ServiceCatalog ---------------------------
(***************************************************************************)
(* What the HomePort daemon promises about services: a client that follows *)
(* the availability events is told YES and NO in turn, YES only of a       *)
(* service that it can find, and NO only of one that is gone.              *)
(***************************************************************************)
CONSTANT Service

VARIABLES
  available,    \* services that can be requested, described and discovered
  told          \* the last availability event of a service, "new" before any
catalogVars == <<available, told>>

CatalogInit ==
  /\ available = {}
  /\ told = [s \in Service |-> "new"]

Announce(s) ==
  /\ s \notin available
  /\ told[s] # "YES"
  /\ available' = available \cup {s}
  /\ told' = [told EXCEPT ![s] = "YES"]

Withdraw(s) ==
  /\ s \in available
  /\ available' = available \ {s}
  /\ UNCHANGED told

Retract(s) ==
  /\ s \notin available
  /\ told[s] = "YES"
  /\ told' = [told EXCEPT ![s] = "NO"]
  /\ UNCHANGED available

\* The end of the server ends every event session: nobody knows anything.
Reset ==
  /\ available' = {}
  /\ told' = [s \in Service |-> "new"]

CatalogNext ==
  \/ \E s \in Service : Announce(s) \/ Withdraw(s) \/ Retract(s)
  \/ Reset

Catalog == CatalogInit /\ [][CatalogNext]_catalogVars
=============================================================================
