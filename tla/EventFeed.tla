----------------------------- MODULE EventFeed -----------------------------
(***************************************************************************)
(* What a browser session may rely on: a feed of events, taken in order by *)
(* one connection at a time, the one that attached last.  Everything that  *)
(* is pending may be forgotten at once, when the session is given up.      *)
(* ServerSentEvents is shown to implement this.                            *)
(***************************************************************************)
EXTENDS Naturals, Sequences

CONSTANTS
  Session,
  Reader,     \* connections
  NoReader,
  Item        \* events

VARIABLES
  pending,    \* [Session -> events still to be taken]
  reader,     \* [Session -> the connection that may take them]
  taken       \* [Session -> who took what, in order]

vars == <<pending, reader, taken>>

Init ==
  /\ pending = [s \in Session |-> <<>>]
  /\ reader = [s \in Session |-> NoReader]
  /\ taken = [s \in Session |-> <<>>]

\* One event is appended to the feeds of some sessions.
Publish(S, e) ==
  /\ pending' = [s \in Session |->
                   IF s \in S THEN Append(pending[s], e) ELSE pending[s]]
  /\ UNCHANGED <<reader, taken>>

\* A connection that has taken nothing yet becomes the reader.
Attach(s, r) ==
  /\ \A i \in 1..Len(taken[s]) : taken[s][i].conn # r
  /\ reader' = [reader EXCEPT ![s] = r]
  /\ UNCHANGED <<pending, taken>>

Take(s) ==
  /\ reader[s] # NoReader
  /\ pending[s] # <<>>
  /\ pending' = [pending EXCEPT ![s] = Tail(@)]
  /\ taken' = [taken EXCEPT ![s] =
                 Append(@, [conn |-> reader[s], event |-> Head(pending[s])])]
  /\ UNCHANGED reader

GiveUp(s) ==
  /\ pending' = [pending EXCEPT ![s] = <<>>]
  /\ reader' = [reader EXCEPT ![s] = NoReader]
  /\ UNCHANGED taken

Next ==
  \/ \E S \in SUBSET Session, e \in Item : Publish(S, e)
  \/ \E s \in Session, r \in Reader : Attach(s, r)
  \/ \E s \in Session : Take(s) \/ GiveUp(s)

Spec == Init /\ [][Next]_vars
=============================================================================
