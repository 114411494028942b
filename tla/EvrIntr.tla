------------------------------- MODULE EvrIntr -------------------------------
(***************************************************************************)
(* The once-a-second path of the timing IOC, from the event receiver's     *)
(* interrupt to devProc: irqHandler and _read of the ts2ip kernel driver   *)
(* (ts2ip.c), ip_intrEn and ip_intrClear (ts2ipDrv.cpp), devThread         *)
(* (tsDev.cpp) as userP_main calls it for ever, and the interrupt register *)
(* of the receiver as the environment.                                     *)
(*                                                                         *)
(* The driver keeps one flag for all its devices; only evrMain's interrupt *)
(* is ever enabled.  The handler disables the interrupt, sets the flag and *)
(* wakes the reader; the reader enables it again on its next turn.         *)
(***************************************************************************)
EXTENDS Naturals, FiniteSets

CONSTANTS
  Causes,     (* bits of the receiver's interrupt register in use          *)
  Alarm       (* evrW_alarm_sec, raised once a second                      *)

ASSUME AlarmAssumption == Alarm \in Causes

VARIABLES
  enabled,    (* bit 0 of A_ipSys_config                                   *)
  pending,    (* A_ipSys_intrReg                                           *)
  clearing,   (* bit 0 of A_ipSys_setting                                  *)
  flag,       (* the driver's static flag                                  *)
  queued,     (* the reader is on read_wait_queue, not woken               *)
  isr,        (* the handler's next step                                   *)
  pc,         (* the main thread's next step                               *)
  rData,      (* what _read got from the interrupt register                *)
  owed        (* alarms raised less runs of devProc, up to MaxOwed         *)

(* At most one alarm is in the register and one in rData, so that 2 tells  *)
(* whether a run of devProc has an alarm of its own.                       *)
MaxOwed == 2

driver == <<flag, queued, isr>>
reg    == <<enabled, pending, clearing>>
vars   == <<reg, driver, pc, rData, owed>>

Init ==
  /\ enabled = FALSE
  /\ pending = {}
  /\ clearing = FALSE
  /\ flag = 0
  /\ queued = FALSE
  /\ isr = "idle"
  /\ pc = "enable"
  /\ rData = {}
  /\ owed = 0

-----------------------------------------------------------------------------
(* The receiver: a bit raised while the register is held clear may be lost *)

Raise(c) ==
  /\ c \notin pending
  /\ \/ pending' = pending \cup {c}
     \/ clearing /\ UNCHANGED pending
  /\ owed' = IF c = Alarm /\ owed < MaxOwed THEN owed + 1 ELSE owed
  /\ UNCHANGED <<enabled, clearing, driver, pc, rData>>

-----------------------------------------------------------------------------
(* irqHandler *)

IrqEnter ==
  /\ enabled
  /\ pending # {}
  /\ isr = "idle"
  /\ isr' = "disable"
  /\ UNCHANGED <<reg, flag, queued, pc, rData, owed>>

IrqDisable ==
  /\ isr = "disable"
  /\ enabled' = FALSE
  /\ isr' = "flag"
  /\ UNCHANGED <<pending, clearing, flag, queued, pc, rData, owed>>

IrqFlag ==
  /\ isr = "flag"
  /\ flag' = 1
  /\ isr' = "wake"
  /\ UNCHANGED <<reg, queued, pc, rData, owed>>

IrqWake ==
  /\ isr = "wake"
  /\ queued' = FALSE
  /\ isr' = "idle"
  /\ UNCHANGED <<reg, flag, pc, rData, owed>>

-----------------------------------------------------------------------------
(* devThread, and _read inside it *)

(* Mutant: the interrupt is enabled only when the loop starts.             *)
Enable_Once ==
  /\ pc = "enable"
  /\ enabled' = (owed = 0 \/ enabled)
  /\ pc' = "queue"
  /\ UNCHANGED <<pending, clearing, driver, rData, owed>>

Enable ==
  /\ pc = "enable"
  /\ enabled' = TRUE
  /\ pc' = "queue"
  /\ UNCHANGED <<pending, clearing, driver, rData, owed>>

(* wait_event_interruptible: look, queue, look again, sleep until woken or *)
(* signalled; an interrupted read makes devThread return, to be called     *)
(* again.                                                                  *)
Queue ==
  /\ pc = "queue"
  /\ queued' = TRUE
  /\ pc' = "test"
  /\ UNCHANGED <<reg, flag, isr, rData, owed>>

(* Mutant: the flag is not looked at again once queued.                    *)
Test_Blind ==
  /\ pc = "test"
  /\ pc' = "sleep"
  /\ UNCHANGED <<reg, driver, rData, owed>>

Test ==
  /\ pc = "test"
  /\ \/ /\ flag # 0
        /\ pc' = "register"
        /\ queued' = FALSE
     \/ /\ flag = 0
        /\ pc' = "sleep"
        /\ UNCHANGED queued
  /\ UNCHANGED <<reg, flag, isr, rData, owed>>

Wake ==
  /\ pc = "sleep"
  /\ ~queued
  /\ pc' = "queue"
  /\ UNCHANGED <<reg, driver, rData, owed>>

Interrupted ==
  /\ pc = "sleep"
  /\ queued' = FALSE
  /\ pc' = "enable"
  /\ UNCHANGED <<reg, flag, isr, rData, owed>>

ReadRegister ==
  /\ pc = "register"
  /\ rData' = pending
  /\ pc' = "copy"
  /\ UNCHANGED <<reg, driver, owed>>

(* copy_to_user fails: the flag stays set, for the next turn.              *)
CopyFails ==
  /\ pc = "copy"
  /\ pc' = "enable"
  /\ rData' = {}
  /\ UNCHANGED <<reg, driver, owed>>

Copied ==
  /\ pc = "copy"
  /\ flag' = 0
  /\ pc' = IF rData = {} THEN "enable" ELSE "clear"
  /\ UNCHANGED <<reg, queued, isr, rData, owed>>

(* Mutant: only the second write of ip_intrClear is done.                  *)
Clear_Half ==
  /\ pc = "clear"
  /\ pc' = "unclear"
  /\ UNCHANGED <<reg, driver, rData, owed>>

(* ip_intrClear: every pending bit goes, also those raised since the read. *)
Clear ==
  /\ pc = "clear"
  /\ pending' = {}
  /\ clearing' = TRUE
  /\ pc' = "unclear"
  /\ UNCHANGED <<enabled, driver, rData, owed>>

Unclear ==
  /\ pc = "unclear"
  /\ clearing' = FALSE
  /\ pc' = IF Alarm \in rData THEN "devProc" ELSE "enable"
  /\ UNCHANGED <<enabled, pending, driver, rData, owed>>

DevProc ==
  /\ pc = "devProc"
  /\ owed' = owed - 1
  /\ pc' = "enable"
  /\ rData' = {}
  /\ UNCHANGED <<reg, driver>>

-----------------------------------------------------------------------------
IrqStep  == IrqDisable \/ IrqFlag \/ IrqWake
MainStep == \/ Enable \/ Queue \/ Test \/ Wake \/ ReadRegister
            \/ Copied \/ Clear \/ Unclear \/ DevProc

Next ==
  \/ \E c \in Causes : Raise(c)
  \/ IrqEnter \/ IrqStep
  \/ MainStep
  \/ Interrupted \/ CopyFails

Spec == Init /\ [][Next]_vars

(* The CPU takes the interrupt and finishes the handler, and the scheduler *)
(* runs the main thread.  No signal and no alarm has to come, and copying   *)
(* to devThread's own variable does not fail every time.                   *)
Fairness ==
  /\ WF_vars(IrqEnter) /\ WF_vars(IrqStep)
  /\ WF_vars(MainStep) /\ SF_vars(Copied)

FairSpec == Spec /\ Fairness

-----------------------------------------------------------------------------
(* Type correctness. The values the handler, the flag and the main thread  *)
(* take.                                                                   *)
TypeOK ==
  /\ enabled \in BOOLEAN /\ clearing \in BOOLEAN /\ queued \in BOOLEAN
  /\ owed \in 0..MaxOwed
  /\ pending \subseteq Causes /\ rData \subseteq Causes
  /\ flag \in {0, 1}
  /\ isr \in {"idle", "disable", "flag", "wake"}
  /\ pc \in {"enable", "queue", "test", "sleep", "register", "copy", "clear",
             "unclear", "devProc"}

(* The main thread never sleeps in _read with nothing left to wake it: its *)
(* interrupt is enabled, or the handler is on its way to the wake-up.      *)
SleeperIsWoken == pc = "sleep" /\ queued => enabled \/ isr \in {"flag", "wake"}

(* devProc never runs for a second that was already handled: each run has  *)
(* an alarm of its own, whatever reads fail or are interrupted.            *)
NoPhantomSecond == pc = "devProc" => owed > 0

(* As long as the alarm is the only cause raised, every second is handled: *)
(* an alarm leads to a devProc.  With a second cause it need not: clearing *)
(* the one wipes an alarm that came after the register was read.           *)
AlarmAlone == [](pending \subseteq {Alarm})
SecondHandled == AlarmAlone => ((Alarm \in pending) ~> (pc = "devProc"))
=============================================================================
