---------------------------- MODULE ServiceValue ----------------------------
(***************************************************************************)
(* What the web servers of the HomePort daemon promise about the value of  *)
(* a service: a request reads or writes it in one step between its arrival *)
(* and its answer, and the answer is what that step read or wrote.         *)
(***************************************************************************)
CONSTANTS Conn, Service, Values, None

VARIABLES
  value,        \* the value of a service
  asked,        \* the request of a connection, or None
  result,       \* what its step read or wrote, None before
  heard         \* the answer that is on its way to a client, or None
valueVars == <<value, asked, result, heard>>

ValueInit ==
  /\ value = [s \in Service |-> 0]
  /\ asked = [c \in Conn |-> None]
  /\ result = [c \in Conn |-> None]
  /\ heard = [c \in Conn |-> None]

Ask(c) ==
  /\ asked[c] = None
  /\ \E r \in [op : {"GET", "PUT"}, svc : Service, new : Values] :
       asked' = [asked EXCEPT ![c] = r]
  /\ UNCHANGED <<value, result, heard>>

Read(c) ==
  /\ asked[c] # None /\ result[c] = None
  /\ asked[c].op = "GET"
  /\ result' = [result EXCEPT ![c] = value[asked[c].svc]]
  /\ UNCHANGED <<value, asked, heard>>

Write(c) ==
  /\ asked[c] # None /\ result[c] = None
  /\ asked[c].op = "PUT"
  /\ value' = [value EXCEPT ![asked[c].svc] = asked[c].new]
  /\ result' = [result EXCEPT ![c] = asked[c].new]
  /\ UNCHANGED <<asked, heard>>

\* The answer; a request may also end without having read or written.
Answer(c) ==
  /\ asked[c] # None
  /\ asked' = [asked EXCEPT ![c] = None]
  /\ result' = [result EXCEPT ![c] = None]
  /\ heard' \in {heard, [heard EXCEPT ![c] = result[c]]}
  /\ UNCHANGED value

Done(c) ==
  /\ heard' = [heard EXCEPT ![c] = None]
  /\ UNCHANGED <<value, asked, result>>

ValueNext ==
  \E c \in Conn : Ask(c) \/ Read(c) \/ Write(c) \/ Answer(c) \/ Done(c)

ServiceValueSpec == ValueInit /\ [][ValueNext]_valueVars
=============================================================================
