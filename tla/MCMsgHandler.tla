---------------------------- MODULE MCMsgHandler ----------------------------
(***************************************************************************)
(* Instances of the bus for TLC.  Three tasks stand for the roles of the   *)
(* bridge: 0 is a receiver thread that broadcasts and never locks its own  *)
(* context (IpStreamReceiverTask), 1 a loop that checks the result of      *)
(* receive() (SessionManagerTask, ZigBeeTask), 2 a task that broadcasts a  *)
(* request and uses whatever wakes it as the answer (IPTask).  Task ids    *)
(* and the table have the shape main() gives them: the last column of the  *)
(* table, Out11, is never set and names task 0.                            *)
(* BeforeTable = 0 takes the bytes in front of it to be zeros too; the     *)
(* properties that depend on them speak of the tasks they do not name.     *)
(***************************************************************************)
EXTENDS MsgHandler

MCTable ==
  [t \in 0..2 |-> CASE t = 0 -> <<1, 0>>
                    [] t = 1 -> <<2, 0>>
                    [] t = 2 -> <<1, 0>>]

\* A chain: what the receiver thread brings in is passed on by the first
\* listener to the second.
MCChain == [t \in 0..2 |-> IF t = 2 THEN {} ELSE {1}]

\* Only the two listeners broadcast.
MCTwoOutputs == [t \in 0..2 |-> IF t = 0 THEN {} ELSE {1}]

\* Every listener passes its own id to receive().
MCFlagIndex == [t \in {1, 2} |-> t]
=============================================================================
