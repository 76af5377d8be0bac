----------------------------- MODULE MessageBus -----------------------------
(***************************************************************************)
(* What a user of the ihaplite bus may rely on: a message goes to the one  *)
(* task the soft wiring names for it, at most once, in no promised order,  *)
(* and it may be lost.  What a task finds in its context was addressed to  *)
(* it unless it is one of the strays.  MsgHandler is shown to implement    *)
(* this.                                                                   *)
(***************************************************************************)
EXTENDS Naturals, Sequences

CONSTANTS
  Task,     \* the tasks on the bus
  Strays    \* the tasks that an entry without an address may reach

VARIABLES
  sent,     \* the receivers of the messages broadcast so far, in order
  transit,  \* the messages (by number) the bus still carries
  mailbox,  \* [Task -> the last message put into the task's context]
  handed    \* the messages that have been given to their receiver

vars == <<sent, transit, mailbox, handed>>

Init ==
  /\ sent = <<>>
  /\ transit = {}
  /\ mailbox = [t \in Task |-> 0]
  /\ handed = {}

\* A message for t is broadcast.  Others that were on the bus may be lost.
Accept(t) ==
  /\ sent' = Append(sent, t)
  /\ \E kept \in SUBSET transit : transit' = kept \cup {Len(sent) + 1}
  /\ UNCHANGED <<mailbox, handed>>

\* Message m reaches its receiver.  A message the receiver has not read yet is
\* gone with the write.
Hand(m) ==
  /\ m \in transit
  /\ \E kept \in SUBSET (transit \ {m}) : transit' = kept
  /\ mailbox' = [mailbox EXCEPT ![sent[m]] = m]
  /\ handed' = handed \cup {m}
  /\ UNCHANGED sent

\* A stray may find any message in its context.
Stray(t) ==
  /\ \E m \in 0..Len(sent) : mailbox' = [mailbox EXCEPT ![t] = m]
  /\ \E kept \in SUBSET transit : transit' = kept
  /\ UNCHANGED <<sent, handed>>

Lose ==
  /\ \E kept \in SUBSET transit : transit' = kept
  /\ UNCHANGED <<sent, mailbox, handed>>

Next ==
  \/ \E t \in Task : Accept(t)
  \/ \E m \in transit : Hand(m)
  \/ \E t \in Strays : Stray(t)
  \/ Lose

Spec == Init /\ [][Next]_vars
=============================================================================
