------------------------------- MODULE EvRound --------------------------------
(***************************************************************************)
(* tsDev_evx::devProc (tsDev_evx.cpp) and what it shows: once a second,    *)
(* after the interrupt of the receiver's clock, userP_main latches the     *)
(* time, watches over the generator's clock, and brings the LCD and the    *)
(* front panel's LED up to date (ts2ipEvsys.cpp).  Beside it,              *)
(* userP_timeSync compares the generator's clock with the system's and     *)
(* sets it.  Both send their commands with ip_setCommand, taken as what    *)
(* CommandPulse promises of it; what the pulse of a command does is added. *)
(*                                                                         *)
(* The time is its seconds.  Which second the records see and the date are *)
(* in EvTime, the interrupt in EvrIntr, the other I2C buses in EvSystem.   *)
(***************************************************************************)
EXTENDS CommandPulse, Integers

CONSTANTS
  Minute,    (* bound: 60 in the code                                      *)
  SameMax,   (* rounds in the same second that are suffered (5)            *)
  Readings,  (* what a field of the LCD may have to show, NoReading too    *)
  MaxTrouble (* bound: stops, losses, settings of the clock, failed writes *)
             (* of the LED and readings after NoReading, together          *)

ASSUME ThreadsAssumption == Threads = {"main", "sync"}
ASSUME IPsAssumption == IPs = {"evsys", "gtp", "evr"}
ASSUME NamesAssumption == Commands = 1..4
ASSUME RoundBounds == Minute \in Nat \ 0..2 /\ SameMax \in Nat \ {0}
                      /\ MaxTrouble \in Nat

(* What the statics of the LCD's fields begin with: -1.0, the temperature  *)
(* where no slave board is plugged in; 0, the speed of a fan that stands;  *)
(* for the time and the counter 99 and 999.                                *)
NoReading == "none"

ASSUME ReadingsAssumption == NoReading \in Readings /\ "blank" \notin Readings

VARIABLES
  second,    (* the generator's clock                                      *)
  stopped,   (* it stands still                                            *)
  latch,     (* the time latched by the last getTime                       *)
  alarm,     (* the receiver's interrupt is pending                        *)
  track, loss, (* the transceiver: tracking, and how often it was lost     *)
  evTime,    (* evg[1]->evTime, seconds                                    *)
  at,        (* where each thread is between its commands                  *)
  same,      (* evTimeCheckCount                                           *)
  secPre,    (* evg_evTime_sec                                             *)
  doubt,     (* a sample was not taken, or the clock set or reset: new, or *)
             (* before this round                                          *)
  dev,       (* devProc's other statics and locals                         *)
  lcd,       (* the line of the messages                                   *)
  field,     (* any other field of the LCD, "blank" or what was drawn      *)
  led,       (* the timing network's LED                                   *)
  ledLost,   (* the last write to it failed                                *)
  trouble

(* The command words: bits of different IPs' registers in the code.        *)
getTime == 1
setTime == 2
getStat == 3
reset   == 4

command == pulseVars
hw    == <<second, stopped, latch>>
net   == <<track, loss>>
watch == <<same, secPre, doubt>>
panel == <<lcd, field, led, ledLost>>
roundVars == <<command, hw, alarm, net, evTime, at, watch, dev, panel, trouble>>

-----------------------------------------------------------------------------
RoundInit ==
  /\ PulseInit
  /\ call = [t \in Threads |-> [ip |-> "evsys", cmd |-> getTime]]
  /\ second = 0 /\ stopped = FALSE /\ latch = 0
  /\ alarm = FALSE
  /\ track \in BOOLEAN /\ loss = 0
  /\ evTime = 0
  /\ at = [t \in Threads |-> "wait"]
  /\ same = 0 /\ secPre = Minute /\ doubt = "none"
  /\ dev \in [newMode : BOOLEAN, lossPre : {-1}, lost : {TRUE}, netOK : {0}, fpPre : {255},
               value : {NoReading}, fieldPre : {NoReading}]
  /\ lcd = "blank" /\ field = "blank"
  /\ led = 1 /\ ledLost = FALSE
  /\ trouble = 0

Trouble == trouble < MaxTrouble /\ trouble' = trouble + 1
Calm == UNCHANGED trouble

-----------------------------------------------------------------------------
(* The hardware.  A second of the receiver's clock ends once the last one  *)
(* was noticed: devProc keeps up.                                          *)
Second ==
  /\ ~alarm
  /\ alarm' = TRUE
  /\ second' = IF stopped THEN second ELSE (second + 1) % Minute
  /\ UNCHANGED <<trouble, command, stopped, latch, net, evTime, at, watch, dev, panel>>

Stop ==
  /\ ~stopped /\ Trouble
  /\ stopped' = TRUE
  /\ UNCHANGED <<command, second, latch, alarm, net, evTime, at, watch, dev, panel>>

Track ==
  /\ IF track THEN Trouble /\ loss' = loss + 1 ELSE Calm /\ UNCHANGED loss
  /\ track' = ~track
  /\ UNCHANGED <<command, hw, alarm, evTime, at, watch, dev, panel>>

(* What a command does.  A clock that stands does not take the time it is  *)
(* set to.                                                                 *)
Effect(c) ==
  /\ latch' = IF c.cmd = getTime THEN second ELSE latch
  /\ IF c.cmd = setTime /\ ~stopped
       THEN Trouble /\ second' \in 0..(Minute - 1)
       ELSE Calm /\ UNCHANGED second
  /\ doubt' = IF c.cmd \in {setTime, reset} THEN "new" ELSE doubt
  /\ stopped' = (stopped /\ c.cmd # reset)

InCommand(t) ==
  /\ \/ Pulse(t) /\ Effect(call[t])
     \/ (Refuse(t) \/ Return(t)) /\ Calm /\ UNCHANGED <<hw, doubt>>
  /\ UNCHANGED <<alarm, net, evTime, at, same, secPre, dev, panel>>

Send(t, p, c) == Call(t, [ip |-> p, cmd |-> c])

Between(t, l) == at[t] = l /\ phase[t] = "idle"
Then(t, l) == at' = [at EXCEPT ![t] = l]

-----------------------------------------------------------------------------
(* devProc: get_evTimeAll latches the time, ...                            *)
Begin ==
  /\ Between("main", "wait") /\ alarm
  /\ alarm' = FALSE
  /\ Send("main", "evsys", getTime)
  /\ Then("main", "time")
  /\ UNCHANGED <<trouble, hw, net, evTime, watch, dev, panel>>

(* ... reads it unless ip_setCommand refused, and nobody is told; the      *)
(* temperature is read, and the receiver's status, its delays after a      *)
(* command of their own, ...                                               *)
GetStat == Send("main", "evr", getStat)

ReadTime ==
  /\ Between("main", "time")
  /\ IF result["main"] = "RET_ERR"
       THEN doubt' = "new" /\ UNCHANGED evTime
       ELSE evTime' = latch /\ UNCHANGED doubt
  /\ \E v \in Readings :
       /\ dev' = [dev EXCEPT !.value = v]
       /\ IF dev.value = NoReading /\ v # NoReading THEN Trouble ELSE Calm
  /\ GetStat
  /\ Then("main", "stat")
  /\ UNCHANGED <<hw, alarm, net, same, secPre, panel>>

(* Mutants: the bit that says "tracking" alone counts; a second that is    *)
(* the same as in the last round is never counted on.                      *)
Lost_BitOnly == ~track
Lost == dev.lossPre # loss \/ ~track

Count_Restarts == IF evTime = secPre THEN 1 ELSE 0
Count_Always   == IF same > SameMax THEN same ELSE same + 1
Count ==
  IF evTime # secPre THEN 0 ELSE IF same > SameMax THEN same ELSE same + 1

(* The transceiver's status, as far as a later step looks at it.           *)
Taken == [dev EXCEPT !.lost = Lost, !.lossPre = loss]

(* ... the transceiver's status is taken, and the transceiver is reset as  *)
(* long as the generator's second has been the same for too many rounds.   *)
Watch ==
  /\ Between("main", "stat")
  /\ dev' = Taken
  /\ same' = Count
  /\ secPre' = evTime
  /\ doubt' = IF doubt = "new" THEN "old" ELSE IF Count = 0 THEN "none" ELSE doubt
  /\ IF Count > SameMax THEN Send("main", "gtp", reset) ELSE UNCHANGED command
  /\ Then("main", "show")
  /\ UNCHANGED <<trouble, hw, alarm, net, evTime, panel>>

-----------------------------------------------------------------------------
(* init_system, when opMode is not what the last round saw: the LCD is     *)
(* cleared and the LED set to "timing network OK".                         *)
Cleared == dev.newMode

(* updateLCD_Time, _Temperature, _rxCount and _FAN: what differs from the  *)
(* static is drawn; what has only ever been NoReading is not.              *)
Field ==
  IF dev.value # dev.fieldPre THEN dev.value ELSE IF Cleared THEN "blank" ELSE field

Message ==
  IF dev.lost THEN "error"
  ELSE IF dev.netOK = 0 THEN "ok"
  ELSE IF Cleared THEN "blank" ELSE lcd

(* set_fp_led: the write may fail, and is not tried again.                 *)
SetLed(v) ==
  \/ led' = v /\ ledLost' = FALSE /\ Calm
  \/ ledLost' = TRUE /\ Trouble /\ UNCHANGED led

(* updateFrontPanel_LED writes when the states differ from its static.     *)
LedChanged(ok) == dev.fpPre # ok

(* Mutants: the mode is not remembered; the LED's static only follows a    *)
(* bad state.                                                              *)
Remember_NotMode(ok) ==
  [dev EXCEPT !.lost = TRUE, !.netOK = ok, !.fpPre = ok, !.fieldPre = dev.value]
Remember_BadOnly(ok) ==
  [dev EXCEPT !.lost = TRUE, !.netOK = ok, !.fpPre = IF ok = 0 THEN 0 ELSE @,
              !.fieldPre = dev.value, !.newMode = FALSE]
Remember(ok) ==
  [dev EXCEPT !.lost = TRUE, !.netOK = ok, !.fpPre = ok, !.fieldPre = dev.value,
              !.newMode = FALSE]

(* The panel: its statics tell what changed since the last round.          *)
Show ==
  LET ok == IF dev.lost THEN 0 ELSE 1 IN
  /\ Between("main", "show")
  /\ field' = Field /\ lcd' = Message
  /\ IF LedChanged(ok) THEN SetLed(ok)
     ELSE IF Cleared THEN SetLed(1) ELSE Calm /\ UNCHANGED <<led, ledLost>>
  /\ dev' = Remember(ok)
  /\ Then("main", "wait")
  /\ UNCHANGED <<command, hw, alarm, net, evTime, watch>>

-----------------------------------------------------------------------------
(* timingNet_timeSync: the time is latched and compared with the system's; *)
(* when it is off, the generators' watches are set and a command makes     *)
(* them the time.  Nobody looks at that command's result.                  *)
Compare ==
  /\ Between("sync", "wait")
  /\ Send("sync", "evsys", getTime)
  /\ Then("sync", "read")
  /\ UNCHANGED <<trouble, hw, alarm, net, evTime, watch, dev, panel>>

get_evTime == evTime' = latch

Sync ==
  /\ Between("sync", "read")
  /\ IF result["sync"] = "RET_ERR"
       THEN UNCHANGED <<evTime, command>> /\ Then("sync", "wait")
       ELSE /\ get_evTime
            /\ \/ UNCHANGED command /\ Then("sync", "wait")
               \/ Send("sync", "evsys", setTime) /\ Then("sync", "set")
  /\ UNCHANGED <<trouble, hw, alarm, net, watch, dev, panel>>

SyncDone ==
  /\ Between("sync", "set")
  /\ Then("sync", "wait")
  /\ UNCHANGED <<trouble, command, hw, alarm, net, evTime, watch, dev, panel>>

Main == InCommand("main") \/ Begin \/ ReadTime \/ Watch \/ Show
TimeSync == InCommand("sync") \/ Compare \/ Sync \/ SyncDone

RoundNext == Main \/ TimeSync \/ Second \/ Stop \/ Track

(* The scheduler runs both threads, and the receiver's clock does not      *)
(* stop: without its interrupt there are no rounds.                        *)
RoundSpec ==
  /\ RoundInit /\ [][RoundNext]_roundVars
  /\ WF_roundVars(Main) /\ WF_roundVars(TimeSync) /\ WF_roundVars(Second)

-----------------------------------------------------------------------------
(* Type correctness. The values that the clock, the threads' places and    *)
(* the statics take.                                                       *)
RoundTypeOK ==
  /\ phase \in [Threads -> {"idle", "called", "sent"}]
  /\ second \in 0..(Minute - 1) /\ latch \in 0..(Minute - 1) /\ evTime \in 0..(Minute - 1)
  /\ at \in [Threads -> {"wait", "time", "stat", "show", "read", "set"}]
  /\ same \in 0..(SameMax + 1) /\ secPre \in 0..Minute
  /\ led \in 0..1 /\ dev.netOK \in 0..1 /\ dev.fpPre \in {0, 1, 255}
  /\ lcd \in {"blank", "ok", "error"} /\ field \in Readings \cup {"blank"}
  /\ dev.value \in Readings /\ dev.fieldPre \in Readings
  /\ doubt \in {"none", "new", "old"}

(* The transceiver, and with it every unit behind it, is only reset when   *)
(* the generator's clock stood still, or when a sample of the count was    *)
(* not taken or the clock was set meanwhile.                               *)
NoFalseReset ==
  [][(phase["main"] = "called" /\ phase'["main"] = "sent" /\ call["main"].cmd = reset)
       => stopped \/ doubt # "none"]_roundVars

(* A generator's clock that stands still is brought back, unless commands  *)
(* of devProc are refused, which is not made good.                         *)
StopIsReset == stopped ~> ~stopped \/ result["main"] = "RET_ERR"

(* Between two rounds the LED shows the network's state the last one found *)
(* although it is only written on a change, unless the last write failed.  *)
LedShowsStatus ==
  at["main"] = "wait" /\ ~ledLost /\ dev.fpPre # 255 => led = dev.netOK

(* Between two rounds the LCD tells what the last one found, though only   *)
(* changes are drawn and the screen is cleared once when the program runs  *)
(* in another mode: the line of the messages the network's state, a field  *)
(* its value, or nothing where the value is the one its static begins with. *)
LcdShowsRound ==
  at["main"] = "wait" /\ dev.fpPre # 255 =>
    /\ lcd = IF dev.netOK = 1 THEN "ok" ELSE "error"
    /\ field = dev.value \/ (field = "blank" /\ dev.value = NoReading)

(* Every loss of the network is shown, also one that was over before the   *)
(* transceiver was looked at.                                              *)
LossShown ==
  loss # dev.lossPre ~> dev.netOK = 0 /\ lcd = "error"
=============================================================================
