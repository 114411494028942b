------------------------------ MODULE EvCommand ------------------------------
(***************************************************************************)
(* ts2ipDrv::ip_setCommand (ts2ipDrv.cpp): a command is a pulse on the     *)
(* IP's A_setReg, guarded by a static variable isRunning that all IPs and  *)
(* all threads share.  The callers are the threads of the IOC: userP_main  *)
(* (through devProc and get_evTimeAll), userP_timeSync, and the threads    *)
(* that process records, one at a time under the port's lock (time stamps  *)
(* and writeReg).                                                          *)
(*                                                                         *)
(* Each access to isRunning and each register write is a step.  The delays *)
(* only let other threads run, which they may do between any two steps.    *)
(***************************************************************************)
EXTENDS Naturals

CONSTANTS
  Threads,    (* threads that may send a command                           *)
  IPs,        (* the IPs they send it to                                   *)
  Commands,   (* command words, none of them 0                             *)
  MaxSpin     (* tests of isRunning before giving up (10000 in the code)   *)

ASSUME CommandsAssumption == 0 \notin Commands
ASSUME MaxSpinAssumption  == MaxSpin \in Nat \ {0}

VARIABLES
  isRunning,  (* the static "mutex control"                                *)
  setReg,     (* A_setReg of each IP                                       *)
  pc,         (* a thread's next step of ip_setCommand                     *)
  i,          (* its loop counter                                          *)
  call,       (* the IP and command it was called with                     *)
  result      (* what its last call returned                               *)

vars == <<isRunning, setReg, pc, i, call, result>>

Labels == {"idle", "spin", "test", "claim", "set", "reset", "release"}

Calls == [ip : IPs, cmd : Commands]

Init ==
  /\ isRunning = 0
  /\ setReg = [p \in IPs |-> 0]
  /\ pc = [t \in Threads |-> "idle"]
  /\ i = [t \in Threads |-> 0]
  /\ call \in [Threads -> Calls]
  /\ result = [t \in Threads |-> "none"]

Goto(t, l) == pc' = [pc EXCEPT ![t] = l]

-----------------------------------------------------------------------------
Call(t) ==
  /\ pc[t] = "idle"
  /\ Goto(t, "spin")
  /\ i' = [i EXCEPT ![t] = 0]
  /\ \E c \in Calls : call' = [call EXCEPT ![t] = c]
  /\ result' = [result EXCEPT ![t] = "none"]
  /\ UNCHANGED <<isRunning, setReg>>

(* Mutant: the loop waits for as long as it takes.                         *)
Spin_Forever(t) ==
  /\ pc[t] = "spin"
  /\ Goto(t, IF isRunning = 0 THEN "test" ELSE "spin")
  /\ UNCHANGED <<isRunning, setReg, i, call, result>>

Spin(t) ==
  /\ pc[t] = "spin"
  /\ \/ /\ isRunning = 0
        /\ Goto(t, "test")
        /\ UNCHANGED i
     \/ /\ isRunning # 0
        /\ i' = [i EXCEPT ![t] = @ + 1]
        /\ Goto(t, IF i[t] + 1 = MaxSpin THEN "test" ELSE "spin")
  /\ UNCHANGED <<isRunning, setReg, call, result>>

(* isRunning is tested again and only then set, each in a step of its own. *)
Test(t) ==
  /\ pc[t] = "test"
  /\ \/ /\ isRunning = 1
        /\ Goto(t, "idle")
        /\ result' = [result EXCEPT ![t] = "RET_ERR"]
     \/ /\ isRunning # 1
        /\ Goto(t, "claim")
        /\ UNCHANGED result
  /\ UNCHANGED <<isRunning, setReg, i, call>>

Claim(t) ==
  /\ pc[t] = "claim"
  /\ isRunning' = 1
  /\ Goto(t, "set")
  /\ UNCHANGED <<setReg, i, call, result>>

Set(t) ==
  /\ pc[t] = "set"
  /\ setReg' = [setReg EXCEPT ![call[t].ip] = call[t].cmd]
  /\ Goto(t, "reset")
  /\ UNCHANGED <<isRunning, i, call, result>>

(* Mutant: the register is written back only by a thread that still has    *)
(* isRunning.                                                              *)
Reset_IfFree(t) ==
  /\ pc[t] = "reset"
  /\ setReg' = [setReg EXCEPT ![call[t].ip] = IF isRunning = 1 THEN 0 ELSE @]
  /\ Goto(t, "release")
  /\ UNCHANGED <<isRunning, i, call, result>>

Reset(t) ==
  /\ pc[t] = "reset"
  /\ setReg' = [setReg EXCEPT ![call[t].ip] = 0]
  /\ Goto(t, "release")
  /\ UNCHANGED <<isRunning, i, call, result>>

(* Mutant: a thread that had to wait does not release.                     *)
Release_Counted(t) ==
  /\ pc[t] = "release"
  /\ isRunning' = IF i[t] = 0 THEN 0 ELSE isRunning
  /\ Goto(t, "idle")
  /\ result' = [result EXCEPT ![t] = "RET_OK"]
  /\ UNCHANGED <<setReg, i, call>>

Release(t) ==
  /\ pc[t] = "release"
  /\ isRunning' = 0
  /\ Goto(t, "idle")
  /\ result' = [result EXCEPT ![t] = "RET_OK"]
  /\ UNCHANGED <<setReg, i, call>>

-----------------------------------------------------------------------------
Step(t) == Spin(t) \/ Test(t) \/ Claim(t) \/ Set(t) \/ Reset(t) \/ Release(t)

Next == \E t \in Threads : Call(t) \/ Step(t)

Spec == Init /\ [][Next]_vars

(* The scheduler runs every thread that is inside ip_setCommand.           *)
FairSpec == Spec /\ \A t \in Threads : WF_vars(Step(t))

-----------------------------------------------------------------------------
Inside(t) == pc[t] \in {"set", "reset", "release"}

(* Type correctness. The steps of each thread, and what isRunning and the  *)
(* registers hold.                                                         *)
TypeOK ==
  /\ isRunning \in {0, 1}
  /\ setReg \in [IPs -> Commands \cup {0}]
  /\ pc \in [Threads -> Labels]
  /\ i \in [Threads -> 0..MaxSpin]
  /\ call \in [Threads -> Calls]
  /\ result \in [Threads -> {"none", "RET_ERR", "RET_OK"}]

(* isRunning is never left set with no thread inside: however commands     *)
(* overlap, RET_ERR is returned only while another is really being sent.   *)
NeverWedged == isRunning = 1 => \E t \in Threads : Inside(t)

(* A command is always a pulse: when no thread is between its two writes   *)
(* to an IP, that IP's A_setReg is 0, even after overlapping commands.     *)
CommandIsPulse ==
  \A p \in IPs : setReg[p] # 0 => \E t \in Threads : pc[t] = "reset" /\ call[t].ip = p

(* ip_setCommand returns, whatever the other threads send.                 *)
CallReturns == \A t \in Threads : (pc[t] # "idle") ~> (pc[t] = "idle")

(* The steps before the register is written are the call, the others the   *)
(* return of the pulse.                                                    *)
Phase(l) ==
  CASE l = "idle" -> "idle"
    [] l \in {"spin", "test", "claim", "set"} -> "called"
    [] OTHER -> "sent"

Promise == INSTANCE CommandPulse WITH phase <- [t \in Threads |-> Phase(pc[t])]

(* ip_setCommand keeps the promise of CommandPulse: one pulse or, only     *)
(* while another thread is in the middle of a command, a refusal.          *)
KeepsPromise == Promise!PulseSpec

(* What the comment on isRunning says it is, "mutex control"               *)
(* (ts2ipDrv.cpp): two commands are never sent at the same time.           *)
MutexControl == \A t, u \in Threads : Inside(t) /\ Inside(u) => t = u
=============================================================================
