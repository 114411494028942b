----------------------------- MODULE CommandPulse -----------------------------
(***************************************************************************)
(* What ts2ipDrv::ip_setCommand (ts2ipDrv.cpp) promises its callers: the   *)
(* command is given to the IP as one pulse, or refused, and refused only   *)
(* while another thread is in the middle of a command.  EvCommand shows    *)
(* the function keeps the promise; EvRound relies on it.                   *)
(***************************************************************************)
CONSTANTS
  Threads,    (* threads that may send a command                           *)
  IPs,        (* the IPs they send it to                                   *)
  Commands    (* command words                                             *)

VARIABLES
  phase,      (* a thread's command: none, called, or its pulse was given  *)
  call,       (* the IP and the command of the call                        *)
  result      (* what the last call returned                               *)

pulseVars == <<phase, call, result>>

Calls == [ip : IPs, cmd : Commands]

PulseInit ==
  /\ phase = [t \in Threads |-> "idle"]
  /\ call \in [Threads -> Calls]
  /\ result = [t \in Threads |-> "none"]

Call(t, c) ==
  /\ phase[t] = "idle"
  /\ phase' = [phase EXCEPT ![t] = "called"]
  /\ call' = [call EXCEPT ![t] = c]
  /\ result' = [result EXCEPT ![t] = "none"]

Pulse(t) ==
  /\ phase[t] = "called"
  /\ phase' = [phase EXCEPT ![t] = "sent"]
  /\ UNCHANGED <<call, result>>

Refuse(t) ==
  /\ phase[t] = "called"
  /\ \E u \in Threads \ {t} : phase[u] # "idle"
  /\ phase' = [phase EXCEPT ![t] = "idle"]
  /\ result' = [result EXCEPT ![t] = "RET_ERR"]
  /\ UNCHANGED call

Return(t) ==
  /\ phase[t] = "sent"
  /\ phase' = [phase EXCEPT ![t] = "idle"]
  /\ result' = [result EXCEPT ![t] = "RET_OK"]
  /\ UNCHANGED call

PulseNext ==
  \E t \in Threads :
    (\E c \in Calls : Call(t, c)) \/ Pulse(t) \/ Refuse(t) \/ Return(t)

PulseSpec == PulseInit /\ [][PulseNext]_pulseVars
=============================================================================
