---------------------------- MODULE AvahiPublish ----------------------------
(***************************************************************************)
(* Publishing services with Avahi.  A build has one of two variants: the   *)
(* client of the Avahi daemon (hpd_avahi_publish_client.c) and an embedded *)
(* server (hpd_avahi_publish_core.c).  The library's thread runs callbacks *)
(* while it holds the lock of the poll object; the application takes the   *)
(* same lock around its own calls, which makes each call one step.         *)
(***************************************************************************)
EXTENDS HpdXml

VARIABLES
  client,       \* AVAHI_CLIENT: which variant the program was built with
  poll,         \* the poll object and its thread
  groups        \* services with an entry group that was committed
avahiVars == <<client, poll, groups>>

PollStates == {"none", "running", "quit", "stuck"}

AvahiTypeOK ==
  /\ client \in BOOLEAN
  /\ poll \in PollStates
  /\ groups \subseteq Service

AvahiInit ==
  /\ client \in BOOLEAN
  /\ poll = "none"
  /\ groups = {}

avahi_client_start(ok) ==
  /\ client
  /\ poll' = IF ok THEN "running" ELSE "none"

avahi_core_start(ok) ==
  /\ ~client
  /\ poll' = IF ok THEN "running" ELSE "none"

avahi_start(ok) ==
  /\ avahi_client_start(ok) \/ avahi_core_start(ok)
  /\ UNCHANGED <<client, groups>>

\* A thread that sits on its own lock never gives it to the application.
Lockable == poll \in {"running", "quit"}

\* An error of the library makes the poll thread quit: nothing that was
\* published before is withdrawn from the lists of the program.
avahi_client_create_service(s, ok) ==
  /\ client
  /\ Lockable
  /\ IF ok THEN groups' = groups \cup {s} /\ poll' = poll
           ELSE groups' = groups /\ poll' = "quit"

avahi_core_create_service(s, ok) ==
  /\ ~client
  /\ Lockable
  /\ IF ok THEN groups' = groups \cup {s} /\ poll' = poll
           ELSE groups' = groups /\ poll' = "quit"

avahi_create_service(s, ok) ==
  /\ avahi_client_create_service(s, ok) \/ avahi_core_create_service(s, ok)
  /\ UNCHANGED client

\* Both variants look for the zeroConfName, which is made like the URL.
Published(s) == {g \in groups : Url(g) = Url(s)}

avahi_client_remove_service(s) ==
  /\ client
  /\ IF Published(s) = {} THEN groups' = groups
     ELSE Lockable /\ \E g \in Published(s) : groups' = groups \ {g}

avahi_core_remove_service(s) ==
  /\ ~client
  /\ Lockable
  /\ IF Published(s) = {} THEN groups' = groups
     ELSE \E g \in Published(s) : groups' = groups \ {g}

avahi_remove_service(s) ==
  /\ avahi_client_remove_service(s) \/ avahi_core_remove_service(s)
  /\ UNCHANGED <<client, poll>>

avahi_client_quit == client /\ groups' = {} /\ poll' = "none"

avahi_core_quit == ~client /\ groups' = {} /\ poll' = "none"

avahi_quit ==
  /\ Lockable
  /\ avahi_client_quit \/ avahi_core_quit
  /\ UNCHANGED client

(***************************************************************************)
(* The callbacks.  A group or the connection to the daemon that fails ends *)
(* the poll thread.  The embedded server answers a collision by calling    *)
(* avahi_core_create_service, which takes the lock its own thread holds.   *)
(***************************************************************************)
client_entry_group_callback ==
  /\ client
  /\ poll = "running"
  /\ groups # {}
  /\ poll' = "quit"

client_callback ==
  /\ client
  /\ poll = "running"
  /\ poll' = "quit"

core_entry_group_callback ==
  /\ ~client
  /\ poll = "running"
  /\ groups # {}
  /\ poll' \in {"stuck", "quit"}

server_callback ==
  /\ ~client
  /\ poll = "running"
  /\ poll' = "quit"

AvahiCallback ==
  /\ \/ client_entry_group_callback
     \/ client_callback
     \/ core_entry_group_callback
     \/ server_callback
  /\ UNCHANGED <<client, groups>>
=============================================================================
