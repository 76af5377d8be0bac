---------------------------- MODULE TimeManager ----------------------------
(***************************************************************************)
(* The alarm service of the ihaplite framework (ihaplite/timemanager.c).   *)
(*                                                                         *)
(* AlarmCountdown and AlarmSignal are plain global arrays, one entry per   *)
(* task id.  Any task writes its own countdown with alarmSet and tests its *)
(* own signal with alarmTestAndReset; the TimeManager thread counts every  *)
(* non-zero entry down.  Nothing protects the arrays (the comment at the   *)
(* top of TimeManagerTask says a mutex probably should), so the thread's   *)
(* visit of one entry is modelled access by access: the steps of the other *)
(* threads fall between them.                                              *)
(*                                                                         *)
(* The thread visits one entry at a time.  The order of a pass and the     *)
(* 100 ms between two passes are not modelled: any non-zero entry may be   *)
(* the next one visited.                                                   *)
(***************************************************************************)
EXTENDS Integers

CONSTANTS
  Slots,     \* the entries of the two arrays (task ids) a module uses
  MaxDelay   \* the longest delay any caller passes to alarmSet

ASSUME TimeManagerAssumption == MaxDelay \in Nat \ {0}

VARIABLES
  AlarmCountdown,  \* [Slots -> 0..MaxDelay], 0 when no alarm is armed
  AlarmSignal,     \* [Slots -> BOOLEAN], set on expiry, reset by its task
  tmPc,            \* [Slots -> step of the thread's visit of the entry]
  tmReg            \* the value loaded for the decrement under way

tmVars == <<AlarmCountdown, AlarmSignal, tmPc, tmReg>>

TMTypeOK ==
  /\ AlarmCountdown \in [Slots -> 0..MaxDelay]
  /\ AlarmSignal \in [Slots -> BOOLEAN]
  /\ tmPc \in [Slots -> {"idle", "count", "expire", "raised", "cleared"}]
  /\ tmReg \in 0..MaxDelay

TMInit ==
  /\ AlarmCountdown = [s \in Slots |-> 0]
  /\ AlarmSignal = [s \in Slots |-> FALSE]
  /\ tmPc = [s \in Slots |-> "idle"]
  /\ tmReg = 0

-----------------------------------------------------------------------------
(* The two operations tasks call.  The reset of alarmTestAndReset is taken *)
(* together with the test: a signal raised between the two has the same    *)
(* effect as one raised before them.                                       *)

alarmSet(s, time) == AlarmCountdown' = [AlarmCountdown EXCEPT ![s] = time]

alarmTestAndReset(s) == AlarmSignal' = [AlarmSignal EXCEPT ![s] = FALSE]

-----------------------------------------------------------------------------
(* The steps of TimeManagerTask's visit of entry s.                        *)

\* The entry is read: zero is skipped, one is about to expire, a larger
\* value is loaded to be decremented.
TMVisit(s) ==
  /\ \A r \in Slots : tmPc[r] = "idle"
  /\ AlarmCountdown[s] > 0
  /\ IF AlarmCountdown[s] <= 1
       THEN /\ tmPc' = [tmPc EXCEPT ![s] = "expire"]
            /\ UNCHANGED tmReg
       ELSE /\ tmPc' = [tmPc EXCEPT ![s] = "count"]
            /\ tmReg' = AlarmCountdown[s] - 1
  /\ UNCHANGED <<AlarmCountdown, AlarmSignal>>

\* AlarmCountdown[i]-- stores the decremented value.
TMCountDown(s) ==
  /\ tmPc[s] = "count"
  /\ tmPc' = [tmPc EXCEPT ![s] = "idle"]
  /\ AlarmCountdown' = [AlarmCountdown EXCEPT ![s] = tmReg]
  /\ tmReg' = 0
  /\ UNCHANGED AlarmSignal

\* AlarmSignal[i] = 1
TMRaise(s) ==
  /\ tmPc[s] = "expire"
  /\ tmPc' = [tmPc EXCEPT ![s] = "raised"]
  /\ AlarmSignal' = [AlarmSignal EXCEPT ![s] = TRUE]
  /\ UNCHANGED <<AlarmCountdown, tmReg>>

\* AlarmCountdown[i] = 0, whatever an alarmSet stored since the visit began.
TMClear(s) ==
  /\ tmPc[s] = "raised"
  /\ tmPc' = [tmPc EXCEPT ![s] = "cleared"]
  /\ AlarmCountdown' = [AlarmCountdown EXCEPT ![s] = 0]
  /\ UNCHANGED <<AlarmSignal, tmReg>>

\* pthread_cond_signal on the entry's condition.  A module that extends this
\* one adds the effect on the thread that waits there, if one does.
TMSignal(s) ==
  /\ tmPc[s] = "cleared"
  /\ tmPc' = [tmPc EXCEPT ![s] = "idle"]
  /\ UNCHANGED <<AlarmCountdown, AlarmSignal, tmReg>>

TMInternal(s) == TMVisit(s) \/ TMCountDown(s) \/ TMRaise(s) \/ TMClear(s)

\* The thread is inside its visit of s, past the point where it will signal.
Firing(s) == tmPc[s] \in {"expire", "raised", "cleared"}
=============================================================================
