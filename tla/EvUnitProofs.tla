---------------------------- MODULE EvUnitProofs -----------------------------
(***************************************************************************)
(* Theorems about an event timing unit's interrupt thread (EvrIntr), its   *)
(* rounds (EvRound) and its I2C buses (EvSystem), for every value of their *)
(* constants.  The three share no variable: each part of this module is    *)
(* about one of them.                                                      *)
(***************************************************************************)
EXTENDS EvrIntr, EvRound, EvSystem, SequenceTheorems, TLAPS

-----------------------------------------------------------------------------
(***************************************************************************)
(* EvrIntr, for any set of interrupt causes.                               *)
(***************************************************************************)

(* The alarms that are accounted for: the one that devThread has cleared   *)
(* and not yet handled, and the one in the register.  Between the read and *)
(* the clearing the two are the same bit.                                  *)
Accounted ==
  /\ Alarm \in pending => owed > 0
  /\ pc \in {"copy", "clear"} => rData \subseteq pending
  /\ pc \in {"unclear", "devProc"} /\ Alarm \in rData
       => owed > 0 /\ (Alarm \in pending => owed > 1)
  /\ pc = "devProc" => Alarm \in rData

(* From the enabling on, an interrupt that was disabled again has left its *)
(* flag, or is about to.                                                   *)
Armed ==
  /\ pc \in {"queue", "test", "sleep"} => enabled \/ isr = "flag" \/ flag = 1
  /\ pc = "sleep" /\ queued => enabled \/ isr \in {"flag", "wake"}

IInv == TypeOK /\ Accounted /\ Armed

LEMMA InitIInv == Init => IInv
<1> SUFFICES ASSUME Init PROVE IInv
  OBVIOUS
<1>1. TypeOK
  <2>1. enabled \in BOOLEAN /\ clearing \in BOOLEAN /\ queued \in BOOLEAN
    BY Zenon DEF Init
  <2>2. owed \in 0..2
    BY SMT DEF Init
  <2> QED BY <2>1, <2>2, Zenon DEF Init, TypeOK, MaxOwed
<1>2. Accounted
  BY DEF Init, Accounted
<1>3. Armed
  BY DEF Init, Armed
<1> QED BY <1>1, <1>2, <1>3 DEF IInv

LEMMA NextIInv == IInv /\ [Next]_vars => IInv'
<1> SUFFICES ASSUME IInv, [Next]_vars PROVE IInv'
  OBVIOUS
<1> USE AlarmAssumption DEF IInv, TypeOK, Accounted, Armed, MaxOwed
<1>1. ASSUME NEW c \in Causes, Raise(c) PROVE IInv'
  <2>1. /\ \/ pending' = pending \cup {c}
           \/ pending' = pending
        /\ owed' = IF c = Alarm /\ owed < 2 THEN owed + 1 ELSE owed
        /\ UNCHANGED <<enabled, clearing, flag, queued, isr, pc, rData>>
    BY <1>1 DEF Raise, driver
  <2>2. TypeOK' /\ Armed'
    BY <2>1
  <2>3. Accounted'
    <3>1. CASE c = Alarm
      BY <2>1, <3>1
    <3>2. CASE c # Alarm
      BY <2>1, <3>2
    <3> QED BY <3>1, <3>2
  <2> QED BY <2>2, <2>3
<1>2. CASE IrqEnter
  BY <1>2 DEF IrqEnter, reg
<1>3. CASE IrqStep
  <2>1. CASE IrqDisable
    BY <2>1 DEF IrqDisable
  <2>2. CASE IrqFlag
    BY <2>2 DEF IrqFlag, reg
  <2>3. CASE IrqWake
    BY <2>3 DEF IrqWake, reg
  <2> QED BY <1>3, <2>1, <2>2, <2>3 DEF IrqStep
<1>4. CASE MainStep
  <2>1. CASE Enable
    BY <2>1 DEF Enable, driver
  <2>2. CASE Queue
    BY <2>2 DEF Queue, reg
  <2>3. CASE Test
    <3>1. /\ pc = "test"
          /\ UNCHANGED <<enabled, pending, clearing, flag, isr, rData, owed>>
      BY <2>3 DEF Test, reg
    <3>2. CASE flag # 0 /\ pc' = "register" /\ queued' = FALSE
      BY <3>1, <3>2
    <3>3. CASE flag = 0 /\ pc' = "sleep" /\ queued' = queued
      BY <3>1, <3>3
    <3> QED BY <2>3, <3>2, <3>3 DEF Test
  <2>4. CASE Wake
    BY <2>4 DEF Wake, reg, driver
  <2>5. CASE ReadRegister
    BY <2>5 DEF ReadRegister, reg, driver
  <2>6. CASE Copied
    BY <2>6 DEF Copied, reg
  <2>7. CASE Clear
    BY <2>7 DEF Clear, driver
  <2>8. CASE Unclear
    BY <2>8 DEF Unclear, driver
  <2>9. CASE DevProc
    BY <2>9 DEF DevProc, reg, driver
  <2> QED
    BY <1>4, <2>1, <2>2, <2>3, <2>4, <2>5, <2>6, <2>7, <2>8, <2>9 DEF MainStep
<1>5. CASE Interrupted
  BY <1>5 DEF Interrupted, reg
<1>6. CASE CopyFails
  BY <1>6 DEF CopyFails, reg, driver
<1>7. CASE UNCHANGED vars
  BY <1>7 DEF vars, reg, driver
<1> QED BY <1>1, <1>2, <1>3, <1>4, <1>5, <1>6, <1>7 DEF Next

(* Every reachable state is well typed; in particular the count of alarms  *)
(* that devProc has not answered never drops below zero.                   *)
THEOREM TypeCorrect == Spec => []TypeOK
<1>1. IInv => TypeOK
  BY DEF IInv
<1> QED BY InitIInv, NextIInv, <1>1, PTL DEF Spec

(* For any set of causes, the thread that waits in _read always has an     *)
(* enabled interrupt or a wake-up on its way.                              *)
THEOREM NeverStranded == Spec => []SleeperIsWoken
<1>1. IInv => SleeperIsWoken
  BY DEF IInv, Armed, SleeperIsWoken
<1> QED BY InitIInv, NextIInv, <1>1, PTL DEF Spec

(* For any set of causes, no second is handled twice: each devProc answers *)
(* an alarm of its own.                                                    *)
THEOREM OneProcPerAlarm == Spec => []NoPhantomSecond
<1>1. IInv => NoPhantomSecond
  BY DEF IInv, TypeOK, Accounted, NoPhantomSecond
<1> QED BY InitIInv, NextIInv, <1>1, PTL DEF Spec

-----------------------------------------------------------------------------
(***************************************************************************)
(* EvRound, for any length of a minute from 3 seconds on and any bounds.   *)
(*                                                                         *)
(* The reset of the watchdog is the hard part: it is sent after two samples *)
(* of the same second, and is false if the clock was running.  WatchInv    *)
(* follows the last sample from the interrupt that ended its round: the clock *)
(* has advanced by as many seconds as there were interrupts since.         *)
(***************************************************************************)

(* The seconds the clock shows.                                            *)
Clock == 0..(Minute - 1)

(* The next second of the clock.                                           *)
Succ(s) == (s + 1) % Minute

(* What the threads call between which steps.                              *)
Calling ==
  /\ call["sync"].cmd \in {getTime, setTime}
  /\ at["main"] \in {"wait", "time", "stat", "show"}
  /\ at["main"] = "wait" => phase["main"] = "idle"
  /\ at["main"] = "time" =>
       /\ call["main"].cmd = getTime
       /\ phase["main"] = "idle" => result["main"] \in {"RET_ERR", "RET_OK"}
  /\ at["main"] = "stat" => call["main"].cmd = getStat
  /\ at["main"] = "show" => phase["main"] = "idle" \/ call["main"].cmd = reset

(* A sample of the running clock: taken since the last interrupt that was  *)
(* noticed, or in the second before the pending one.                       *)
Fresh(s) == s = second \/ (alarm /\ Succ(s) = second)

(* What this round has read, and what is latched, is such a sample.        *)
Sampled ==
  ~stopped /\ doubt # "new" =>
    /\ at["main"] = "time" /\ (phase["main"] = "sent"
                               \/ (phase["main"] = "idle" /\ result["main"] = "RET_OK"))
         => Fresh(latch)
    /\ at["main"] = "stat" => Fresh(latch) /\ Fresh(evTime)

(* The last round's sample, after and before the next begins: when it was  *)
(* the same second as the one before it, it was taken before the second of *)
(* the interrupt that ended it.                                            *)
Behind(s, n) ==
  IF n = 0 THEN s = second ELSE IF n = 1 THEN Succ(s) = second ELSE Succ(Succ(s)) = second
Passed == (IF alarm THEN 1 ELSE 0) + (IF at["main"] \in {"time", "stat"} THEN 1 ELSE 0)

(* While nobody sets the clock and no round has failed: the first sample   *)
(* is still to come, or the last one is behind by the interrupts since, or *)
(* by one less, but then it was not the second of its kind.                *)
Counted ==
  ~stopped /\ doubt = "none" =>
    \/ secPre = Minute /\ same = 0
    \/ /\ secPre \in Clock /\ same \in 0..1 /\ Behind(secPre, Passed)
    \/ /\ secPre \in Clock /\ same = 0 /\ Passed > 0 /\ Behind(secPre, Passed - 1)

(* A reset is only sent when the clock stood or the round was in doubt.    *)
ResetCause ==
  at["main"] = "show" /\ phase["main"] = "called" => stopped \/ doubt # "none"

WatchInv == Calling /\ Sampled /\ Counted /\ ResetCause

(* What the front panel shows is what the statics say was last sent to it, *)
(* and they follow what the rounds find.  Before the first round nothing   *)
(* is drawn: the screen can be cleared only then.                          *)
Drawn == field = dev.fieldPre \/ (field = "blank" /\ dev.fieldPre = NoReading)

Shown ==
  /\ dev.newMode => dev.fpPre = 255
  /\ dev.fpPre = 255 => dev.netOK = 0 /\ field = "blank" /\ dev.fieldPre = NoReading
  /\ dev.fpPre # 255 =>
       /\ ~ledLost => led = dev.fpPre
       /\ lcd = IF dev.netOK = 1 THEN "ok" ELSE "error"
  /\ Drawn
  /\ at["main"] = "wait" /\ dev.fpPre # 255 =>
       dev.netOK = dev.fpPre /\ dev.value = dev.fieldPre

-----------------------------------------------------------------------------
(* The device's flags and counts, and what the handlers make of them.      *)
DevType ==
  [newMode : BOOLEAN, lossPre : Int, lost : BOOLEAN, netOK : {0, 1}, fpPre : {0, 1, 255},
   value : Readings, fieldPre : Readings]

LEMMA TakenType ==
  ASSUME NEW d \in DevType, NEW b \in BOOLEAN, NEW n \in Int
  PROVE  [d EXCEPT !.lost = b, !.lossPre = n] \in DevType
BY DEF DevType

LEMMA RememberType ==
  ASSUME NEW d \in DevType, NEW ok \in {0, 1}
  PROVE  [d EXCEPT !.lost = TRUE, !.netOK = ok, !.fpPre = ok, !.fieldPre = d.value,
                   !.newMode = FALSE] \in DevType
BY DEF DevType

LEMMA ReadType ==
  ASSUME NEW d \in DevType, NEW v \in Readings
  PROVE  [d EXCEPT !.value = v] \in DevType
BY DEF DevType

(* What RoundTypeOK says, and the types it leaves out.                     *)
TypeInv ==
  /\ RoundTypeOK
  /\ call \in [Threads -> Calls]
  /\ result \in [Threads -> {"none", "RET_ERR", "RET_OK"}]
  /\ alarm \in BOOLEAN /\ stopped \in BOOLEAN /\ track \in BOOLEAN /\ ledLost \in BOOLEAN
  /\ loss \in Nat /\ trouble \in Nat
  /\ dev \in DevType

LEMMA InitTypeInv == RoundInit => TypeInv
<1> SUFFICES ASSUME RoundInit PROVE TypeInv
  OBVIOUS
<1> USE RoundBounds, ReadingsAssumption, ThreadsAssumption, IPsAssumption, NamesAssumption
    DEF RoundInit, PulseInit
<1>1. RoundTypeOK
  BY DEF RoundTypeOK
<1>2. /\ call \in [Threads -> Calls]
      /\ result \in [Threads -> {"none", "RET_ERR", "RET_OK"}]
  BY DEF Calls, getTime
<1>3. alarm \in BOOLEAN /\ stopped \in BOOLEAN /\ track \in BOOLEAN /\ ledLost \in BOOLEAN
  BY Zenon
<1>4. loss \in Nat /\ trouble \in Nat
  OBVIOUS
<1>5. dev \in DevType
  <2>1. PICK d \in [newMode : BOOLEAN, lossPre : {-1}, lost : {TRUE}, netOK : {0}, fpPre : {255},
                    value : {NoReading}, fieldPre : {NoReading}] :
          dev = d
    OBVIOUS
  <2>2. dev = [newMode |-> d.newMode, lossPre |-> -1, lost |-> d.lost, netOK |-> 0, fpPre |-> 255,
               value |-> NoReading, fieldPre |-> NoReading]
    BY <2>1
  <2>3. d.newMode \in BOOLEAN /\ d.lost \in BOOLEAN
    BY Zenon
  <2> QED BY <2>2, <2>3 DEF DevType
<1> QED BY <1>1, <1>2, <1>3, <1>4, <1>5 DEF TypeInv

(* What a thread's step within a command does.                             *)
LEMMA CommandStep ==
  ASSUME TypeInv, NEW t \in Threads, InCommand(t)
  PROVE  /\ UNCHANGED <<call, alarm, net, evTime, at, same, secPre, dev, panel>>
         /\ \A u \in Threads \ {t} : phase'[u] = phase[u] /\ result'[u] = result[u]
         /\ \/ /\ phase[t] = "called" /\ phase' = [phase EXCEPT ![t] = "sent"]
               /\ result' = result
               /\ Effect(call[t])
            \/ /\ phase[t] = "called" /\ phase' = [phase EXCEPT ![t] = "idle"]
               /\ result' = [result EXCEPT ![t] = "RET_ERR"]
               /\ UNCHANGED <<hw, doubt, trouble>>
            \/ /\ phase[t] = "sent" /\ phase' = [phase EXCEPT ![t] = "idle"]
               /\ result' = [result EXCEPT ![t] = "RET_OK"]
               /\ UNCHANGED <<hw, doubt, trouble>>
BY DEF InCommand, Pulse, Refuse, Return, Calm, TypeInv, RoundTypeOK

(* A command is called by a thread whose last one is over.                 *)
LEMMA SendStep ==
  ASSUME TypeInv, NEW t \in Threads, NEW p \in IPs, NEW c \in Commands, Send(t, p, c)
  PROVE  /\ phase[t] = "idle" /\ phase' = [phase EXCEPT ![t] = "called"]
         /\ call' = [call EXCEPT ![t] = [ip |-> p, cmd |-> c]]
         /\ result' = [result EXCEPT ![t] = "none"]
         /\ [ip |-> p, cmd |-> c] \in Calls
BY DEF Send, Call, Calls

LEMMA NextTypeInv == TypeInv /\ [RoundNext]_roundVars => TypeInv'
<1> SUFFICES ASSUME TypeInv, [RoundNext]_roundVars PROVE TypeInv'
  OBVIOUS
<1> USE RoundBounds, ReadingsAssumption, ThreadsAssumption, IPsAssumption, NamesAssumption
    DEF TypeInv, RoundTypeOK
<1>1. ASSUME NEW t \in Threads, InCommand(t) PROVE TypeInv'
  <2>1. /\ phase' \in [Threads -> {"idle", "called", "sent"}]
        /\ result' \in [Threads -> {"none", "RET_ERR", "RET_OK"}]
        /\ call' = call
    BY <1>1, CommandStep
  <2>2. UNCHANGED <<alarm, track, loss, evTime, at, same, secPre, dev, lcd, field, led, ledLost>>
    BY <1>1, CommandStep DEF net, panel
  <2>3. /\ second' \in Clock /\ latch' \in Clock /\ stopped' \in BOOLEAN
        /\ doubt' \in {"none", "new", "old"} /\ trouble' \in Nat
    <3>1. CASE Effect(call[t])
      BY <3>1 DEF Effect, Trouble, Calm, Clock
    <3>2. CASE UNCHANGED <<hw, doubt, trouble>>
      BY <3>2 DEF hw, Clock
    <3> QED BY <1>1, <3>1, <3>2, CommandStep
  <2> QED BY <2>1, <2>2, <2>3 DEF Clock
<1>2. CASE Begin
  <2>1. /\ phase' \in [Threads -> {"idle", "called", "sent"}]
        /\ result' \in [Threads -> {"none", "RET_ERR", "RET_OK"}]
        /\ call' \in [Threads -> Calls]
    BY <1>2, SendStep DEF Begin, getTime
  <2>2. alarm' \in BOOLEAN
    BY <1>2, Zenon DEF Begin
  <2> QED BY <1>2, <2>1, <2>2 DEF Begin, Then, hw, net, watch, panel
<1>3. CASE ReadTime
  <2>1. /\ phase' \in [Threads -> {"idle", "called", "sent"}]
        /\ result' \in [Threads -> {"none", "RET_ERR", "RET_OK"}]
        /\ call' \in [Threads -> Calls]
    BY <1>3, SendStep DEF ReadTime, GetStat, getStat
  <2>2. dev' \in DevType
    <3>1. PICK v \in Readings : dev' = [dev EXCEPT !.value = v]
      BY <1>3 DEF ReadTime
    <3> QED BY <3>1, ReadType, Zenon
  <2>3. trouble' \in Nat
    BY <1>3 DEF ReadTime, Trouble, Calm
  <2>4. /\ dev'.netOK \in 0..1 /\ dev'.fpPre \in {0, 1, 255}
        /\ dev'.value \in Readings /\ dev'.fieldPre \in Readings
    BY <2>2 DEF DevType
  <2> QED BY <1>3, <2>1, <2>2, <2>3, <2>4 DEF ReadTime, Then, hw, net, panel
<1>4. CASE Watch
  <2>1. /\ phase' \in [Threads -> {"idle", "called", "sent"}]
        /\ result' \in [Threads -> {"none", "RET_ERR", "RET_OK"}]
        /\ call' \in [Threads -> Calls]
    BY <1>4, SendStep DEF Watch, reset, command, pulseVars
  <2>2. Count \in 0..(SameMax + 1)
    BY DEF Count
  <2>3. dev' \in DevType
    <3>1. Lost \in BOOLEAN
      BY Zenon DEF Lost
    <3>2. loss \in Int
      OBVIOUS
    <3>3. dev' = [dev EXCEPT !.lost = Lost, !.lossPre = loss]
      BY <1>4, Zenon DEF Watch, Taken
    <3> QED BY <3>1, <3>2, <3>3, TakenType, Zenon
  <2>4. /\ dev'.netOK \in 0..1 /\ dev'.fpPre \in {0, 1, 255}
        /\ dev'.value \in Readings /\ dev'.fieldPre \in Readings
    BY <2>3 DEF DevType
  <2> QED BY <1>4, <2>1, <2>2, <2>3, <2>4 DEF Watch, Then, hw, net, panel
<1>5. CASE Show
  <2>1. dev' \in DevType
    <3>1. \A ok \in {0, 1} : Remember(ok) \in DevType
      BY RememberType, Zenon DEF Remember
    <3>2. dev' = Remember(0) \/ dev' = Remember(1)
      BY <1>5, Zenon DEF Show
    <3> QED BY <3>1, <3>2, SMTT(30)
  <2>2. led' \in 0..1 /\ ledLost' \in BOOLEAN /\ trouble' \in Nat
    <3>1. ASSUME NEW v \in 0..1, SetLed(v)
          PROVE  led' \in 0..1 /\ trouble' \in Nat /\ (ledLost' = TRUE \/ ledLost' = FALSE)
      BY <3>1 DEF SetLed, Trouble, Calm
    <3>2. \/ \E v \in 0..1 : SetLed(v)
          \/ Calm /\ UNCHANGED <<led, ledLost>>
      <4>1. (IF dev.lost THEN 0 ELSE 1) \in 0..1
        OBVIOUS
      <4> QED BY <1>5, <4>1 DEF Show
    <3>3. CASE \E v \in 0..1 : SetLed(v)
      <4>1. ledLost' \in BOOLEAN
        BY <3>1, <3>3, Zenon
      <4> QED BY <3>1, <3>3, <4>1
    <3>4. CASE Calm /\ UNCHANGED <<led, ledLost>>
      BY <3>4 DEF Calm
    <3> QED BY <3>2, <3>3, <3>4
  <2>3. lcd' \in {"blank", "ok", "error"} /\ field' \in Readings \cup {"blank"}
    BY <1>5 DEF Show, Message, Field
  <2>4. /\ dev'.netOK \in 0..1 /\ dev'.fpPre \in {0, 1, 255}
        /\ dev'.value \in Readings /\ dev'.fieldPre \in Readings
    BY <2>1 DEF DevType
  <2> QED BY <1>5, <2>1, <2>2, <2>3, <2>4 DEF Show, Then, command, pulseVars, hw, net, watch
<1>6. CASE Compare
  <2>1. /\ phase' \in [Threads -> {"idle", "called", "sent"}]
        /\ result' \in [Threads -> {"none", "RET_ERR", "RET_OK"}]
        /\ call' \in [Threads -> Calls]
    BY <1>6, SendStep DEF Compare, getTime
  <2> QED BY <1>6, <2>1 DEF Compare, Then, hw, net, watch, panel
<1>7. CASE Sync
  <2>1. /\ phase' \in [Threads -> {"idle", "called", "sent"}]
        /\ result' \in [Threads -> {"none", "RET_ERR", "RET_OK"}]
        /\ call' \in [Threads -> Calls]
    BY <1>7, SendStep DEF Sync, setTime, command, pulseVars
  <2>2. at' \in [Threads -> {"wait", "time", "stat", "show", "read", "set"}]
    BY <1>7 DEF Sync, Then
  <2>3. evTime' \in 0..(Minute - 1)
    BY <1>7 DEF Sync, get_evTime
  <2> QED BY <1>7, <2>1, <2>2, <2>3 DEF Sync, hw, net, watch, panel
<1>8. CASE SyncDone
  BY <1>8 DEF SyncDone, Then, command, pulseVars, hw, net, watch, panel
<1>9. CASE Second
  <2>1. second' \in 0..(Minute - 1)
    BY <1>9 DEF Second
  <2> QED BY <1>9, <2>1 DEF Second, command, pulseVars, net, watch, panel
<1>10. CASE Stop
  BY <1>10 DEF Stop, Trouble, command, pulseVars, net, watch, panel
<1>11. CASE Track
  <2>1. track' \in BOOLEAN /\ loss' \in Nat /\ trouble' \in Nat
    BY <1>11 DEF Track, Trouble, Calm
  <2> QED BY <1>11, <2>1 DEF Track, command, pulseVars, hw, watch, panel
<1>12. CASE UNCHANGED roundVars
  BY <1>12 DEF roundVars, command, pulseVars, hw, net, watch, panel
<1> QED
  BY <1>1, <1>2, <1>3, <1>4, <1>5, <1>6, <1>7, <1>8, <1>9, <1>10, <1>11, <1>12
     DEF RoundNext, Main, TimeSync

-----------------------------------------------------------------------------
(* The clock comes back to a second only after a whole minute, which is    *)
(* more than the seconds between two samples.                              *)
LEMMA SuccFacts ==
  /\ \A s \in Clock : Succ(s) \in Clock /\ Succ(s) # s /\ Succ(Succ(s)) # s
  /\ \A s, r \in Clock : Succ(s) = Succ(r) => s = r
  /\ Minute \notin Clock
<1>1. \A s \in Clock : Succ(s) = IF s = Minute - 1 THEN 0 ELSE s + 1
  BY RoundBounds DEF Succ, Clock
<1> QED BY <1>1, RoundBounds DEF Clock

LEMMA InitWatchInv == RoundInit => WatchInv
BY ThreadsAssumption DEF RoundInit, PulseInit, WatchInv, Calling, Sampled, Counted, ResetCause

LEMMA NextCalling == TypeInv /\ Calling /\ [RoundNext]_roundVars => Calling'
<1> SUFFICES ASSUME TypeInv, Calling, [RoundNext]_roundVars PROVE Calling'
  OBVIOUS
<1> USE ThreadsAssumption, IPsAssumption, NamesAssumption
    DEF TypeInv, RoundTypeOK, Calling, getTime, setTime, getStat, reset
<1>1. ASSUME NEW t \in Threads, InCommand(t) PROVE Calling'
  BY <1>1, CommandStep
<1>2. CASE Begin
  BY <1>2, SendStep DEF Begin, Then
<1>3. CASE ReadTime
  BY <1>3, SendStep DEF ReadTime, GetStat, Then
<1>4. CASE Watch
  <2>1. CASE Count > SameMax
    BY <1>4, <2>1, SendStep DEF Watch, Then
  <2>2. CASE ~(Count > SameMax)
    BY <1>4, <2>2 DEF Watch, Then, Between, command, pulseVars
  <2> QED BY <2>1, <2>2
<1>5. CASE Show
  BY <1>5 DEF Show, Then, Between, command, pulseVars
<1>6. CASE Compare
  BY <1>6, SendStep DEF Compare, Then
<1>7. CASE Sync
  <2>1. CASE UNCHANGED command
    BY <1>7, <2>1 DEF Sync, Then, command, pulseVars
  <2>2. CASE Send("sync", "evsys", setTime)
    BY <1>7, <2>2, SendStep DEF Sync, Then
  <2> QED BY <1>7, <2>1, <2>2 DEF Sync
<1>8. CASE SyncDone
  BY <1>8 DEF SyncDone, Then, command, pulseVars
<1>9. CASE Second \/ Stop \/ Track
  BY <1>9 DEF Second, Stop, Track, command, pulseVars
<1>10. CASE UNCHANGED roundVars
  BY <1>10 DEF roundVars, command, pulseVars
<1> QED
  BY <1>1, <1>2, <1>3, <1>4, <1>5, <1>6, <1>7, <1>8, <1>9, <1>10
     DEF RoundNext, Main, TimeSync

LEMMA NextWatchInv == TypeInv /\ WatchInv /\ [RoundNext]_roundVars => WatchInv'
<1> SUFFICES ASSUME TypeInv, WatchInv, [RoundNext]_roundVars
             PROVE  Sampled' /\ Counted' /\ ResetCause'
  BY NextCalling DEF WatchInv
<1> USE ThreadsAssumption, IPsAssumption, NamesAssumption, SuccFacts
    DEF TypeInv, RoundTypeOK, WatchInv, Calling, getTime, setTime, getStat, reset
<1>0. /\ second \in Clock /\ latch \in Clock /\ evTime \in Clock
      /\ secPre \in Clock \/ secPre = Minute
      /\ SameMax \in Nat /\ SameMax > 0
  BY RoundBounds DEF Clock
<1>1. ASSUME NEW t \in Threads, InCommand(t) PROVE Sampled' /\ Counted' /\ ResetCause'
  <2>1. /\ UNCHANGED <<call, alarm, evTime, at, same, secPre>>
        /\ \A u \in Threads \ {t} : phase'[u] = phase[u] /\ result'[u] = result[u]
    BY <1>1, CommandStep
  <2>2. CASE Effect(call[t]) /\ phase[t] = "called" /\ phase'[t] = "sent" /\ result' = result
    <3>1. call[t].cmd \in {setTime, reset} => doubt' = "new"
      BY <2>2 DEF Effect
    <3>2. call[t].cmd \notin {setTime, reset} => second' = second /\ stopped' = stopped /\ doubt' = doubt
      BY <2>2 DEF Effect
    <3>3. latch' = IF call[t].cmd = getTime THEN second ELSE latch
      BY <2>2 DEF Effect
    <3>4. Sampled' /\ Counted'
      BY <2>1, <2>2, <3>1, <3>2, <3>3 DEF Sampled, Counted, Fresh, Passed, Behind, Succ
    <3>5. ResetCause'
      BY <2>1, <2>2, <3>1, <3>2 DEF ResetCause
    <3> QED BY <3>4, <3>5
  <2>3. CASE /\ phase[t] = "called" /\ phase'[t] = "idle" /\ result'[t] = "RET_ERR"
             /\ UNCHANGED <<hw, doubt>>
    BY <2>1, <2>3 DEF Sampled, Counted, Fresh, Passed, Behind, Succ, ResetCause, hw
  <2>4. CASE /\ phase[t] = "sent" /\ phase'[t] = "idle" /\ result'[t] = "RET_OK"
             /\ UNCHANGED <<hw, doubt>>
    BY <2>1, <2>4 DEF Sampled, Counted, Fresh, Passed, Behind, Succ, ResetCause, hw
  <2> QED BY <1>1, <2>2, <2>3, <2>4, CommandStep
<1>2. CASE Begin
  <2>1. /\ at["main"] = "wait" /\ alarm /\ ~alarm' /\ at'["main"] = "time"
        /\ phase'["main"] = "called"
        /\ UNCHANGED <<second, stopped, latch, evTime, same, secPre, doubt>>
    BY <1>2, SendStep DEF Begin, Between, Then, hw, watch
  <2> QED BY <2>1 DEF Sampled, Counted, Fresh, Passed, Behind, Succ, ResetCause
<1>3. CASE ReadTime
  <2>1. /\ at["main"] = "time" /\ at'["main"] = "stat" /\ phase["main"] = "idle"
        /\ UNCHANGED <<second, stopped, latch, alarm, same, secPre>>
        /\ IF result["main"] = "RET_ERR" THEN doubt' = "new"
           ELSE evTime' = latch /\ doubt' = doubt
    BY <1>3 DEF ReadTime, Between, Then, hw
  <2> QED BY <2>1 DEF Sampled, Counted, Fresh, Passed, Behind, Succ, ResetCause
<1>4. CASE Watch
  <2>1. /\ at["main"] = "stat" /\ at'["main"] = "show"
        /\ same' = Count /\ secPre' = evTime
        /\ doubt' = IF doubt = "new" THEN "old" ELSE IF Count = 0 THEN "none" ELSE doubt
        /\ UNCHANGED <<second, stopped, latch, alarm, evTime>>
    BY <1>4 DEF Watch, Between, Then, hw
  <2>2. Sampled'
    BY <2>1 DEF Sampled
  <2>3. ~stopped /\ doubt = "none" => Count \in 0..1 /\ (Count = 1 => Behind(evTime, IF alarm THEN 1 ELSE 0))
    BY <1>0, <2>1 DEF Sampled, Counted, Fresh, Passed, Behind, Count
  <2>4. Counted'
    <3>1. CASE ~stopped /\ doubt' = "none"
      <4>1. Passed' = IF alarm THEN 1 ELSE 0
        BY <2>1 DEF Passed
      <4>2. Fresh(evTime) /\ Count \in 0..1 /\ (Count = 1 => Behind(evTime, IF alarm THEN 1 ELSE 0))
        BY <2>1, <2>3, <3>1 DEF Sampled
      <4> QED BY <1>0, <2>1, <3>1, <4>1, <4>2 DEF Counted, Fresh, Behind, Succ
    <3>2. CASE ~(~stopped /\ doubt' = "none")
      BY <2>1, <3>2 DEF Counted
    <3> QED BY <3>1, <3>2
  <2>5. ResetCause'
    <3>1. phase'["main"] = "called" => Count > SameMax
      BY <1>4 DEF Watch, Between, command, pulseVars
    <3> QED BY <1>0, <2>1, <2>3, <3>1 DEF ResetCause, Count
  <2> QED BY <2>2, <2>4, <2>5
<1>5. CASE Show
  <2>1. /\ at["main"] = "show" /\ at'["main"] = "wait"
        /\ UNCHANGED <<second, stopped, latch, alarm, evTime, same, secPre, doubt>>
    BY <1>5 DEF Show, Between, Then, hw, watch
  <2> QED BY <2>1 DEF Sampled, Counted, Fresh, Passed, Behind, Succ, ResetCause
<1>6. CASE Compare \/ SyncDone
  <2>1. /\ at'["main"] = at["main"] /\ phase'["main"] = phase["main"]
        /\ (phase'["main"] = "idle" => result'["main"] = result["main"])
        /\ UNCHANGED <<second, stopped, latch, alarm, evTime, same, secPre, doubt>>
    BY <1>6, SendStep DEF Compare, SyncDone, Then, hw, watch, command, pulseVars
  <2> QED BY <2>1 DEF Sampled, Counted, Fresh, Passed, Behind, Succ, ResetCause
<1>7. CASE Sync
  <2>1. /\ at'["main"] = at["main"] /\ phase'["main"] = phase["main"]
        /\ (phase'["main"] = "idle" => result'["main"] = result["main"])
    BY <1>7, SendStep DEF Sync, Then, command, pulseVars
  <2>2. /\ evTime' = evTime \/ evTime' = latch
        /\ UNCHANGED <<second, stopped, latch, alarm, same, secPre, doubt>>
    BY <1>7 DEF Sync, get_evTime, hw, watch
  <2> QED BY <2>1, <2>2 DEF Sampled, Counted, Fresh, Passed, Behind, Succ, ResetCause
<1>8. CASE Second
  <2>1. /\ ~alarm /\ alarm' /\ (~stopped => second' = Succ(second))
        /\ UNCHANGED <<phase, call, result, stopped, latch, evTime, at, same, secPre, doubt>>
    BY <1>8 DEF Second, Succ, command, pulseVars, watch
  <2> QED BY <1>0, <2>1 DEF Sampled, Counted, Fresh, Passed, Behind, Succ, ResetCause
<1>9. CASE Stop
  BY <1>9 DEF Stop, Sampled, Counted, ResetCause, command, pulseVars, watch
<1>10. CASE Track \/ UNCHANGED roundVars
  <2>1. UNCHANGED <<phase, result, second, stopped, latch, alarm, evTime, at, same, secPre, doubt>>
    BY <1>10 DEF Track, roundVars, command, pulseVars, hw, watch
  <2> QED BY <2>1 DEF Sampled, Counted, Fresh, Passed, Behind, Succ, ResetCause
<1> QED
  BY <1>1, <1>2, <1>3, <1>4, <1>5, <1>6, <1>7, <1>8, <1>9, <1>10
     DEF RoundNext, Main, TimeSync

-----------------------------------------------------------------------------
LEMMA NextShown == TypeInv /\ Calling /\ Shown /\ [RoundNext]_roundVars => Shown'
<1> SUFFICES ASSUME TypeInv, Calling, Shown, [RoundNext]_roundVars PROVE Shown'
  OBVIOUS
<1> USE ThreadsAssumption, IPsAssumption, NamesAssumption DEF Shown, Drawn
<1>1. CASE Show
  <2>1. PICK ok \in {0, 1} :
          /\ ok = IF dev.lost THEN 0 ELSE 1
          /\ dev' = Remember(ok)
          /\ IF LedChanged(ok) THEN SetLed(ok)
             ELSE IF Cleared THEN SetLed(1) ELSE Calm /\ UNCHANGED <<led, ledLost>>
    BY <1>1 DEF Show
  <2>2. /\ ~dev'.newMode /\ dev'.netOK = ok /\ dev'.fpPre = ok
        /\ dev'.value = dev.value /\ dev'.fieldPre = dev.value
    BY <2>1 DEF TypeInv, DevType, Remember
  <2>3. ~ledLost' => led' = ok
    BY <2>1 DEF LedChanged, SetLed, Cleared, Calm
  <2>4. Drawn'
    BY <1>1, <2>2 DEF Show, Field, Cleared
  <2>5. lcd' = IF ok = 1 THEN "ok" ELSE "error"
    BY <1>1, <2>1 DEF Show, Message, Cleared, TypeInv, RoundTypeOK
  <2> QED BY <2>2, <2>3, <2>4, <2>5
<1>2. CASE Watch
  <2>1. /\ dev'.newMode = dev.newMode /\ dev'.fpPre = dev.fpPre /\ dev'.netOK = dev.netOK
        /\ dev'.fieldPre = dev.fieldPre
    BY <1>2 DEF Watch, Taken, TypeInv, DevType
  <2> QED BY <1>2, <2>1 DEF Watch, Then, panel, TypeInv, RoundTypeOK
<1>3. ASSUME UNCHANGED <<dev, panel>>, at'["main"] = at["main"] \/ at'["main"] # "wait"
      PROVE  Shown'
  BY <1>3 DEF panel
<1>4. ASSUME NEW t \in Threads, InCommand(t) PROVE Shown'
  BY <1>3, <1>4, CommandStep
<1>5. CASE Begin
  BY <1>3, <1>5 DEF Begin, Then, TypeInv, RoundTypeOK
<1>8. CASE ReadTime
  <2>1. /\ dev'.newMode = dev.newMode /\ dev'.fpPre = dev.fpPre /\ dev'.netOK = dev.netOK
        /\ dev'.fieldPre = dev.fieldPre
    BY <1>8 DEF ReadTime, TypeInv, DevType
  <2> QED BY <1>8, <2>1 DEF ReadTime, Then, panel, TypeInv, RoundTypeOK
<1>6. CASE Compare \/ Sync \/ SyncDone
  BY <1>3, <1>6 DEF Compare, Sync, SyncDone, Then, TypeInv, RoundTypeOK
<1>7. CASE Second \/ Stop \/ Track \/ UNCHANGED roundVars
  BY <1>3, <1>7 DEF Second, Stop, Track, roundVars
<1> QED
  BY <1>1, <1>2, <1>4, <1>5, <1>6, <1>7, <1>8 DEF RoundNext, Main, TimeSync

RoundInv == TypeInv /\ WatchInv /\ Shown

LEMMA RoundInvariant == RoundSpec => []RoundInv
<1>1. RoundInit => RoundInv
  <2>1. RoundInit => Shown
    BY DEF RoundInit, Shown, Drawn
  <2> QED BY <2>1, InitTypeInv, InitWatchInv DEF RoundInv
<1>2. RoundInv /\ [RoundNext]_roundVars => RoundInv'
  BY NextTypeInv, NextWatchInv, NextShown DEF RoundInv, WatchInv
<1> QED BY <1>1, <1>2, PTL DEF RoundSpec

(* Every reachable state of a unit's rounds is well typed; the count of    *)
(* rounds in the same second stops one above its limit.                    *)
THEOREM RoundTypeCorrect == RoundSpec => []RoundTypeOK
<1>1. RoundInv => RoundTypeOK
  BY DEF RoundInv, TypeInv
<1> QED BY <1>1, RoundInvariant, PTL

(* For any length of the clock's minute and any limit of suffered rounds   *)
(* from 1 on, devProc never resets the transceiver of a clock that runs,   *)
(* however its samples, those of userP_timeSync and the seconds interleave. *)
THEOREM NeverFalseReset == RoundSpec => NoFalseReset
<1>1. RoundInv /\ [RoundNext]_roundVars
        => [(phase["main"] = "called" /\ phase'["main"] = "sent" /\ call["main"].cmd = reset)
              => stopped \/ doubt # "none"]_roundVars
  <2> SUFFICES ASSUME RoundInv, phase["main"] = "called", call["main"].cmd = reset
               PROVE  stopped \/ doubt # "none"
    OBVIOUS
  <2> QED BY DEF RoundInv, WatchInv, Calling, ResetCause, getTime, getStat, reset
<1> QED BY <1>1, RoundInvariant, PTL DEF RoundSpec, NoFalseReset

(* The LED is right after every round though it is only written when its   *)
(* static says that something changed.                                     *)
THEOREM LedRight == RoundSpec => []LedShowsStatus
<1>1. RoundInv => LedShowsStatus
  BY DEF RoundInv, Shown, LedShowsStatus
<1> QED BY <1>1, RoundInvariant, PTL

(* After every round the line of the messages tells the network's state,   *)
(* though it is only written on a change, and a field of the LCD what the  *)
(* round read for it, unless that is what its static begins with: then it  *)
(* may also be blank.                                                      *)
THEOREM LcdRight == RoundSpec => []LcdShowsRound
<1>1. RoundInv => LcdShowsRound
  BY DEF RoundInv, Shown, Drawn, LcdShowsRound
<1> QED BY <1>1, RoundInvariant, PTL

-----------------------------------------------------------------------------
(***************************************************************************)
(* EvSystem, for any number of bytes in a map and of registers of the clock, *)
(* any maps and any number of faults.                                      *)
(*                                                                         *)
(* A routine is a script with a place in it.  SysInv says which scripts a  *)
(* thread may have (JobsOK, Places), that one with the bus to itself talks to *)
(* the chip it means (OwnBus), and what has been sent at each place (MapSent, *)
(* ClockSent).  On the on-board bus a thread always has the bus to itself. *)
(***************************************************************************)

(* What a byte of a map holds, a map, and the routines' names.             *)
Vals == Maps \cup {"reset"}
Outs == [Bytes -> Vals]
Names == {"init_clk", "get_slaveBoardID", "set_slaveIO", "init_cps", "set_cpsConfig",
          "get_slaveTemp"}

(* What a routine sends, by its name and the map it was given.             *)
Script(n, out) ==
  CASE n = "init_clk"         -> init_clk.todo
    [] n = "get_slaveBoardID" -> get_slaveBoardID.todo
    [] n = "set_slaveIO"      -> set_slaveIO.todo
    [] n = "init_cps"         -> init_cps("ob").todo
    [] n = "set_cpsConfig"    -> set_cpsConfig("ob", out).todo
    [] n = "get_slaveTemp"    -> get_slaveTemp.todo

Routines ==
  [name : Names, bus : Buses, todo : {Script(n, out) : n \in Names, out \in Outs}, next : Nat]

(* A queued routine is whole but the first, and was made from the map that *)
(* is wanted: no map changes while one is being set.                       *)
Queued(t, j, out) ==
  \A i \in 1..Len(j) :
    /\ j[i].todo = Script(j[i].name, out[j[i].bus])
    /\ j[i].next \in 1..Len(j[i].todo)
    /\ i > 1 => j[i].next = 1
    /\ j[i].name = "init_clk" => t = "main" /\ j[i].bus = "ob"

JobsOK ==
  /\ job \in [Users -> Seq(Routines)]
  /\ \A t \in Users : Queued(t, job[t], cpsOut)

(* The port's thread sets maps and nothing else, and only once the unit is *)
(* up; from then on devProc leaves the on-board bus alone.                 *)
OfRound(r) == r.bus = "sl" /\ r.name \in {"get_slaveTemp", "init_cps"}
OfRecord(r) == r.name = "set_cpsConfig"

Places ==
  /\ stage \in {"clock", "boards", "started", "round", "mode"}
  /\ stage \in {"clock", "boards", "started"} => job["port"] = <<>>
  /\ stage \in {"round", "mode"} => \A i \in 1..Len(job["main"]) : OfRound(job["main"][i])
  /\ \A i \in 1..Len(job["port"]) : OfRecord(job["port"][i])

(* The chips a transfer can mean and the steps it can be at.               *)
Chips == {"SI5338A", "MAX7313A", "MAX7313B", "TMP112A", "ADN4604"}
Steps == {"none", "mux", "sel", "addr", "xfer", "data"}

(* A thread that has the bus to itself talks to the chip it means.         *)
TalksTo(t) ==
  Running(t) /\ alone[t] =>
    /\ step[t] = "sel" => slave[Cur(t).bus] = "MUX"
    /\ step[t] \in {"xfer", "data"} => slave[Cur(t).bus] = X(t).chip

OwnBus ==
  /\ alone \in [Users -> BOOLEAN]
  /\ \A t \in Users : Running(t) /\ Cur(t).bus = "ob" => alone[t]
  /\ \A t \in Users : TalksTo(t)

(* What a routine that has its bus to itself has done so far.              *)
SentBy(t) ==
  Running(t) /\ alone[t] =>
    LET r == Cur(t)  b == Cur(t).bus IN
    /\ r.name = "set_cpsConfig" =>
         /\ \A k \in Bytes : k < r.next => cps[b].map[k] = cpsOut[b][k]
         /\ r.next = NumBytes + 3 => cps[b].on = cpsOut[b]
    /\ r.name = "init_cps" /\ r.next > 1 => cps[b].map = Reset

MapSent == \A t \in Users : SentBy(t)

(* init_clk: the configuration so far, and the loop locked from the poll   *)
(* on, though a poll that failed counts as a lock.                         *)
ClockSentBy(t) ==
  Running(t) /\ Cur(t).name = "init_clk" =>
    LET r == Cur(t) IN
    /\ \A k \in ClockRegs : 3 + 2 * k < r.next => k \in clk.regs
    /\ r.next > 2 * NumRegs + 6 => clk.locked \/ faults > 0

ClockSent == \A t \in Users : ClockSentBy(t)

(* What the buses and the chips hold, ...                                  *)
Switches == [map : Outs, on : Outs]
Clocks == [regs : SUBSET ClockRegs, locked : BOOLEAN, on : BOOLEAN]

Held ==
  /\ id \in 0..2 /\ board \in 0..2
  /\ mux \in [Buses -> {0, 1, 2, 4, 8} \cup Strays]
  /\ slave \in [Buses -> Chips \cup {"MUX"}]
  /\ cps \in [Buses -> Switches]
  /\ clk \in Clocks
  /\ faults \in Nat /\ sets \in Nat

(* ... and what the threads do.                                            *)
ChipTypes ==
  /\ Held
  /\ step \in [Users -> Steps]
  /\ \A t \in Users : step[t] = "none" <=> ~Running(t)
  /\ cpsOut \in [Buses -> Outs]
  /\ tries \in Nat

SysInv == JobsOK /\ Places /\ OwnBus /\ MapSent /\ ClockSent /\ ChipTypes

-----------------------------------------------------------------------------
(* The scripts: the fields of a transfer, ...                              *)
LEMMA Fields ==
  ASSUME NEW op, NEW c, NEW r, NEW v
  PROVE  LET x == Transfer(op, c, r, v) IN
         /\ x.op = op /\ x.chip = c /\ x.reg = r /\ x.at = 0 /\ x.val = v /\ ~x.go
         /\ Try(x).op = op /\ Try(x).chip = c /\ Try(x).reg = r /\ Try(x).at = 0
         /\ Try(x).val = v
BY DEF Transfer, Try

LEMMA FieldsAt ==
  ASSUME NEW k, NEW v
  PROVE  /\ WrMap(k, v).op = "wr" /\ WrMap(k, v).chip = "ADN4604" /\ WrMap(k, v).reg = "map"
         /\ WrMap(k, v).at = k /\ WrMap(k, v).val = v /\ ~WrMap(k, v).go
         /\ WrCfg(k).op = "wr" /\ WrCfg(k).chip = "SI5338A" /\ WrCfg(k).reg = "cfg"
         /\ WrCfg(k).at = k /\ ~WrCfg(k).go
BY DEF WrMap, WrCfg, Wr, Transfer

(* ... three sequences, one after the other, item by item.                     *)
LEMMA Joined ==
  ASSUME NEW S, NEW A \in Seq(S), NEW G \in Seq(S), NEW B \in Seq(S)
  PROVE  /\ Len(A \o G \o B) = Len(A) + Len(G) + Len(B)
         /\ \A i \in 1..Len(A) : (A \o G \o B)[i] = A[i]
         /\ \A i \in 1..Len(G) : (A \o G \o B)[Len(A) + i] = G[i]
         /\ \A i \in 1..Len(B) : (A \o G \o B)[Len(A) + Len(G) + i] = B[i]
<1>1. Len(A) \in Nat /\ Len(G) \in Nat /\ Len(B) \in Nat
  BY LenProperties
<1> DEFINE C == A \o G
           D == C \o B
           a == Len(A)
           g == Len(G)
           b == Len(B)
<1>2. /\ C \in Seq(S) /\ Len(C) = a + g
      /\ \A i \in 1..a + g : C[i] = IF i <= a THEN A[i] ELSE G[i - a]
  BY ConcatProperties
<1> HIDE DEF C
<1>3. /\ Len(D) = Len(C) + b
      /\ \A i \in 1..Len(C) + b : D[i] = IF i <= Len(C) THEN C[i] ELSE B[i - Len(C)]
  <2>1. C \in Seq(S)  BY <1>2
  <2>2. /\ Len(C \o B) = Len(C) + Len(B)
        /\ \A i \in 1..Len(C) + Len(B) :
             (C \o B)[i] = IF i <= Len(C) THEN C[i] ELSE B[i - Len(C)]
    BY <2>1, ConcatProperties
  <2> QED  BY <2>2
<1>4. D = A \o G \o B  BY DEF C
<1> HIDE DEF D, a, g, b
<1>5. a \in Nat /\ g \in Nat /\ b \in Nat  BY <1>1 DEF a, g, b
<1>6. ASSUME NEW i \in 1..a PROVE D[i] = A[i]
  <2>1. i \in 1..a + g /\ i \in 1..Len(C) + b /\ i <= a /\ i <= Len(C)  BY <1>2, <1>5
  <2> QED  BY <2>1, <1>2, <1>3
<1>7. ASSUME NEW i \in 1..g PROVE D[a + i] = G[i]
  <2>1. /\ a + i \in 1..a + g /\ a + i \in 1..Len(C) + b /\ ~(a + i <= a)
        /\ a + i <= Len(C) /\ (a + i) - a = i
    BY <1>2, <1>5
  <2>2. D[a + i] = C[a + i]  BY <2>1, <1>3
  <2>3. C[a + i] = G[(a + i) - a]  BY <2>1, <1>2
  <2> QED  BY <2>1, <2>2, <2>3
<1>8. ASSUME NEW i \in 1..b PROVE D[a + g + i] = B[i]
  <2>1. /\ a + g + i \in 1..Len(C) + b /\ ~(a + g + i <= Len(C)) /\ (a + g + i) - Len(C) = i
    BY <1>2, <1>5
  <2>2. D[a + g + i] = B[(a + g + i) - Len(C)]  BY <2>1, <1>3
  <2> QED  BY <2>1, <2>2
<1>9. Len(D) = a + g + b  BY <1>2, <1>3
<1> QED  BY <1>4, <1>6, <1>7, <1>8, <1>9 DEF a, g, b

(* init_clk: where each of its transfers is.                               *)
LEMMA ClkScript ==
  LET todo == init_clk.todo IN
  /\ Len(todo) = 2 * NumRegs + 9
  /\ \A i \in 1..Len(todo) :
       /\ todo[i].chip = "SI5338A"
       /\ todo[i].reg = "reset" => i = 2
       /\ todo[i].reg = "oeb" /\ todo[i].val = 0 => i = 2 * NumRegs + 9
       /\ todo[i].reg = "cfg" => todo[i].at \in ClockRegs
       /\ todo[i].op = "poll" => ~todo[i].go
       /\ todo[i].op \in {"wr", "rd", "poll"}
  /\ \A k \in ClockRegs : todo[3 + 2 * k] = WrCfg(k)
  /\ todo[2 * NumRegs + 6] = Poll("SI5338A", "lock")
<1> DEFINE a1 == Rd("SI5338A", "test")
           a2 == Try(Wr("SI5338A", "reset", 1))
           a3 == Try(Wr("SI5338A", "oeb", 1))
           m  == 2 * NumRegs
           G  == [j \in 1..m |-> IF j % 2 = 1 THEN Try(Rd("SI5338A", "mask"))
                                              ELSE WrCfg(j \div 2)]
           b1 == Poll("SI5338A", "los")
           b2 == Try(Wr("SI5338A", "soft", 1))
           b3 == Poll("SI5338A", "lock")
           b4 == Try(Rd("SI5338A", "fcal"))
           b5 == Try(Wr("SI5338A", "fcal", 1))
           b6 == Try(Wr("SI5338A", "oeb", 0))
           todo == <<a1, a2, a3>> \o G \o <<b1, b2, b3, b4, b5, b6>>
           Fine(x) == /\ x.chip = "SI5338A" /\ x.op \in {"wr", "rd", "poll"}
                      /\ x.reg = "cfg" => x.at \in ClockRegs
                      /\ x.op = "poll" => ~x.go
           Plain(x) == Fine(x) /\ x.reg # "reset" /\ ~(x.reg = "oeb" /\ x.val = 0)
<1>1. init_clk.todo = todo  BY DEF init_clk, Routine
<1>2. NumRegs \in Nat /\ m \in Nat  BY SizesAssumption
<1>3. Plain(a1) /\ Fine(a2) /\ Plain(a3)
  BY Fields DEF Rd, Wr
<1>4. Plain(b1) /\ Plain(b2) /\ Plain(b3) /\ Plain(b4) /\ Plain(b5) /\ Fine(b6) /\ b6.reg # "reset"
  BY Fields DEF Rd, Wr, Poll
<1>5. \A j \in 1..m : Plain(G[j])
  <2> TAKE j \in 1..m
  <2>1. CASE j % 2 = 1
    <3>1. G[j] = Try(Rd("SI5338A", "mask"))  BY <2>1
    <3>2. Plain(Try(Rd("SI5338A", "mask")))  BY Fields DEF Rd
    <3> HIDE DEF G, Plain
    <3> QED  BY <3>1, <3>2
  <2>2. CASE j % 2 # 1
    <3>1. G[j] = WrCfg(j \div 2)  BY <2>2
    <3>2. j \div 2 \in ClockRegs  BY <1>2, <2>2 DEF ClockRegs
    <3>3. Plain(WrCfg(j \div 2))  BY <3>2, FieldsAt
    <3> HIDE DEF G, Plain
    <3> QED  BY <3>1, <3>3
  <2> QED  BY <2>1, <2>2
<1>6. \A k \in ClockRegs : 2 * k \in 1..m /\ G[2 * k] = WrCfg(k)
  <2> TAKE k \in ClockRegs
  <2>1. 2 * k \in 1..m /\ (2 * k) % 2 # 1 /\ (2 * k) \div 2 = k
    BY <1>2 DEF ClockRegs
  <2> QED  BY <2>1
<1> DEFINE S == {a1, a2, a3, b1, b2, b3, b4, b5, b6} \cup {G[j] : j \in 1..m}
           A == <<a1, a2, a3>>
           B == <<b1, b2, b3, b4, b5, b6>>
<1>7. G \in Seq(S) /\ Len(G) = m
  <2>1. \A j \in 1..m : G[j] \in S  OBVIOUS
  <2> HIDE DEF S
  <2> QED  BY <1>2, <2>1
<1> HIDE DEF a1, a2, a3, G, b1, b2, b3, b4, b5, b6
<1>8. /\ Len(todo) = m + 9
      /\ todo[1] = a1 /\ todo[2] = a2 /\ todo[3] = a3
      /\ \A j \in 1..m : todo[3 + j] = G[j]
      /\ todo[m + 4] = b1 /\ todo[m + 5] = b2 /\ todo[m + 6] = b3
      /\ todo[m + 7] = b4 /\ todo[m + 8] = b5 /\ todo[m + 9] = b6
  <2>1. A \in Seq(S) /\ Len(A) = 3 /\ A[1] = a1 /\ A[2] = a2 /\ A[3] = a3
    OBVIOUS
  <2>2. /\ B \in Seq(S) /\ Len(B) = 6
        /\ B[1] = b1 /\ B[2] = b2 /\ B[3] = b3 /\ B[4] = b4 /\ B[5] = b5 /\ B[6] = b6
    OBVIOUS
  <2>3. todo = A \o G \o B  OBVIOUS
  <2> HIDE DEF todo, A, B, S, m
  <2>4. /\ Len(todo) = 3 + m + 6
        /\ \A j \in 1..3 : todo[j] = A[j]
        /\ \A j \in 1..m : todo[3 + j] = G[j]
        /\ \A j \in 1..6 : todo[3 + m + j] = B[j]
    <3>1. A \in Seq(S) /\ G \in Seq(S) /\ B \in Seq(S)  BY <1>7, <2>1, <2>2
    <3>2. /\ Len(A \o G \o B) = Len(A) + Len(G) + Len(B)
          /\ \A i \in 1..Len(A) : (A \o G \o B)[i] = A[i]
          /\ \A i \in 1..Len(G) : (A \o G \o B)[Len(A) + i] = G[i]
          /\ \A i \in 1..Len(B) : (A \o G \o B)[Len(A) + Len(G) + i] = B[i]
      BY ONLY <3>1, Joined, SMTT(30)
    <3> QED  BY <3>2, <1>7, <2>1, <2>2, <2>3
  <2>5. /\ todo[3 + m + 1] = b1 /\ todo[3 + m + 2] = b2 /\ todo[3 + m + 3] = b3
        /\ todo[3 + m + 4] = b4 /\ todo[3 + m + 5] = b5 /\ todo[3 + m + 6] = b6
    BY <2>2, <2>4
  <2>6. /\ 3 + m + 1 = m + 4 /\ 3 + m + 2 = m + 5 /\ 3 + m + 3 = m + 6
        /\ 3 + m + 4 = m + 7 /\ 3 + m + 5 = m + 8 /\ 3 + m + 6 = m + 9
    BY <1>2
  <2> QED  BY <2>1, <2>4, <2>5, <2>6, SMTT(30)
<1> HIDE DEF todo
<1>9. ASSUME NEW i \in 1..Len(todo)
      PROVE  /\ Fine(todo[i])
             /\ todo[i].reg = "reset" => i = 2
             /\ todo[i].reg = "oeb" /\ todo[i].val = 0 => i = m + 9
  <2> HIDE DEF Fine
  <2>1. CASE i \in {1, 3, m + 4, m + 5, m + 6, m + 7, m + 8}
    BY <2>1, <1>3, <1>4, <1>8
  <2>2. CASE i = 2
    BY <2>2, <1>2, <1>3, <1>8, Fields DEF a2, Wr
  <2>3. CASE i = m + 9
    BY <2>3, <1>2, <1>4, <1>8
  <2>4. CASE i \in 4..m + 3
    <3>1. i - 3 \in 1..m /\ i = 3 + (i - 3)  BY <2>4, <1>2
    <3>2. todo[i] = G[i - 3]  BY <3>1, <1>8
    <3> QED  BY <3>1, <3>2, <1>5
  <2> QED  BY <2>1, <2>2, <2>3, <2>4, <1>2, <1>8
<1> QED  BY <1>1, <1>2, <1>6, <1>8, <1>9 DEF b3

(* set_cpsConfig and init_cps, likewise.                                   *)
LEMMA CpsScript ==
  ASSUME NEW out \in Outs
  PROVE  LET todo == set_cpsConfig("ob", out).todo IN
         /\ Len(todo) = NumBytes + 3
         /\ \A k \in Bytes : todo[k] = WrMap(k, out[k])
         /\ todo[NumBytes + 1] = Wr("ADN4604", "en", 1)
         /\ todo[NumBytes + 2] = Wr("ADN4604", "update", 1)
         /\ todo[NumBytes + 3] = Try(Rd("ADN4604", "check"))
<1> DEFINE n  == NumBytes
           b1 == Wr("ADN4604", "en", 1)
           b2 == Wr("ADN4604", "update", 1)
           b3 == Try(Rd("ADN4604", "check"))
           A  == [k \in Bytes |-> WrMap(k, out[k])]
           B  == <<b1, b2, b3>>
           S  == {b1, b2, b3} \cup {A[k] : k \in Bytes}
           todo == A \o B
<1>1. set_cpsConfig("ob", out).todo = todo  BY DEF set_cpsConfig, Routine
<1>2. n \in Nat  BY SizesAssumption
<1>3. \A k \in Bytes : A[k] = WrMap(k, out[k])  OBVIOUS
<1>4. A \in Seq(S) /\ Len(A) = n
  <2>1. \A k \in 1..n : A[k] \in S  BY DEF Bytes
  <2>2. A = [k \in 1..n |-> A[k]]  BY DEF Bytes
  <2> HIDE DEF S, A
  <2> QED  BY <1>2, <2>1, <2>2
<1> HIDE DEF b1, b2, b3, A
<1>5. B \in Seq(S) /\ Len(B) = 3 /\ B[1] = b1 /\ B[2] = b2 /\ B[3] = b3
  OBVIOUS
<1> HIDE DEF B, S
<1>6. /\ Len(A \o B) = Len(A) + Len(B)
      /\ \A i \in 1..Len(A) + Len(B) : (A \o B)[i] = IF i <= Len(A) THEN A[i] ELSE B[i - Len(A)]
  <2>1. A \in Seq(S) /\ B \in Seq(S)  BY <1>4, <1>5
  <2> QED  BY ONLY <2>1, ConcatProperties
<1>7. /\ Len(todo) = n + 3
      /\ \A i \in 1..n + 3 : todo[i] = IF i <= n THEN A[i] ELSE B[i - n]
  BY <1>4, <1>5, <1>6
<1> HIDE DEF todo
<1>8. \A k \in Bytes : todo[k] = WrMap(k, out[k])
  BY <1>2, <1>3, <1>7 DEF Bytes
<1>9. ASSUME NEW i \in 1..3 PROVE todo[n + i] = B[i]
  <2>1. n + i \in 1..n + 3 /\ ~(n + i <= n) /\ (n + i) - n = i  BY <1>2
  <2>2. todo[n + i] = B[(n + i) - n]  BY <2>1, <1>7
  <2> QED  BY <2>1, <2>2
<1>10. todo[n + 1] = b1 /\ todo[n + 2] = b2 /\ todo[n + 3] = b3
  BY <1>5, <1>9
<1> QED  BY <1>1, <1>7, <1>8, <1>10 DEF b1, b2, b3

LEMMA InitScript ==
  LET todo == init_cps("ob").todo IN
  /\ Len(todo) = 4
  /\ todo[1] = Wr("ADN4604", "reset", 1) /\ todo[2] = Wr("ADN4604", "mapsel", 0)
  /\ todo[3] = Wr("ADN4604", "term", 0) /\ todo[4] = Wr("ADN4604", "update", 1)
BY DEF init_cps, Routine

(* What every transfer of a script has in common.                          *)
Proper(n, x) ==
  /\ x.chip \in Chips
  /\ x.chip = "SI5338A" <=> n = "init_clk"
  /\ x.chip = "ADN4604" <=> n \in {"init_cps", "set_cpsConfig"}
  /\ x.op \in {"wr", "rd", "poll"}
  /\ x.op = "poll" => n = "init_clk" /\ ~x.go
  /\ x.chip = "ADN4604" /\ x.reg = "map" => x.at \in Bytes /\ x.val \in Vals
  /\ x.chip = "SI5338A" /\ x.reg = "cfg" => x.at \in ClockRegs

LEMMA ClkProper ==
  \A i \in 1..Len(init_clk.todo) : Proper("init_clk", init_clk.todo[i])
BY ClkScript DEF Proper, Chips

LEMMA CpsProper ==
  ASSUME NEW out \in Outs, NEW i \in 1..Len(set_cpsConfig("ob", out).todo)
  PROVE  Proper("set_cpsConfig", set_cpsConfig("ob", out).todo[i])
<1> DEFINE todo == set_cpsConfig("ob", out).todo
<1>1. i \in Bytes \/ i \in {NumBytes + 1, NumBytes + 2, NumBytes + 3}
  BY CpsScript, SizesAssumption DEF Bytes
<1>2. CASE i \in Bytes
  <2>1. todo[i] = WrMap(i, out[i]) /\ out[i] \in Vals  BY <1>2, CpsScript DEF Outs
  <2> HIDE DEF todo
  <2> QED  BY <1>2, <2>1, FieldsAt DEF Proper, Chips, todo
<1>3. CASE i \in {NumBytes + 1, NumBytes + 2, NumBytes + 3}
  <2>1. \/ todo[i] = Wr("ADN4604", "en", 1)
        \/ todo[i] = Wr("ADN4604", "update", 1)
        \/ todo[i] = Try(Rd("ADN4604", "check"))
    BY <1>3, CpsScript
  <2> HIDE DEF todo
  <2> QED  BY <2>1, Fields DEF Proper, Chips, todo, Wr, Rd
<1> QED  BY <1>1, <1>2, <1>3

LEMMA InitProper ==
  \A i \in 1..Len(init_cps("ob").todo) : Proper("init_cps", init_cps("ob").todo[i])
<1> DEFINE todo == init_cps("ob").todo
<1>1. Len(todo) = 4  BY InitScript
<1>2. ASSUME NEW i \in 1..4 PROVE Proper("init_cps", todo[i])
  <2>1. \/ todo[i] = Wr("ADN4604", "reset", 1) \/ todo[i] = Wr("ADN4604", "mapsel", 0)
        \/ todo[i] = Wr("ADN4604", "term", 0) \/ todo[i] = Wr("ADN4604", "update", 1)
    <3>1. i \in {1, 2, 3, 4}  OBVIOUS
    <3> QED  BY <3>1, InitScript
  <2> HIDE DEF todo
  <2> QED  BY <2>1, Fields DEF Proper, Chips, Wr
<1> HIDE DEF todo
<1>3. \A i \in 1..Len(todo) : Proper("init_cps", todo[i])
  BY <1>1, <1>2
<1> QED  BY <1>3 DEF todo

LEMMA TwoAndTwo ==
  ASSUME NEW a, NEW b, NEW c, NEW d
  PROVE  <<a, b>> \o <<c, d>> = <<a, b, c, d>>
<1> DEFINE S == {a, b, c, d}
           s == <<a, b>>
           t == <<c, d>>
           u == <<a, b, c, d>>
<1>1. s \in Seq(S) /\ Len(s) = 2 /\ s[1] = a /\ s[2] = b  OBVIOUS
<1>2. t \in Seq(S) /\ Len(t) = 2 /\ t[1] = c /\ t[2] = d  OBVIOUS
<1>3. u \in Seq(S) /\ Len(u) = 4 /\ u[1] = a /\ u[2] = b /\ u[3] = c /\ u[4] = d  OBVIOUS
<1> HIDE DEF s, t, u, S
<1>4. /\ s \o t \in Seq(S) /\ Len(s \o t) = Len(s) + Len(t)
      /\ \A i \in 1..Len(s) + Len(t) : (s \o t)[i] = IF i <= Len(s) THEN s[i] ELSE t[i - Len(s)]
  <2>1. s \in Seq(S) /\ t \in Seq(S)  BY <1>1, <1>2
  <2> QED  BY ONLY <2>1, ConcatProperties
<1>5. Len(s \o t) = 4 /\ (s \o t)[1] = a /\ (s \o t)[2] = b /\ (s \o t)[3] = c /\ (s \o t)[4] = d
  BY <1>1, <1>2, <1>4
<1> DEFINE v == s \o t
<1>6. v \in Seq(S) /\ Len(v) = 4 /\ v[1] = a /\ v[2] = b /\ v[3] = c /\ v[4] = d
  BY <1>4, <1>5
<1> HIDE DEF v
<1>7. \A i \in 1..Len(v) : v[i] = u[i]
  <2> TAKE i \in 1..Len(v)
  <2>1. i \in {1, 2, 3, 4}  BY <1>6
  <2> QED  BY <2>1, <1>3, <1>6
<1>8. v = u
  <2>1. Len(v) = Len(u) /\ v \in Seq(S) /\ u \in Seq(S)  BY <1>3, <1>6
  <2> QED  BY ONLY <1>7, <2>1, SeqEqual
<1> QED  BY <1>8 DEF v, s, t, u

LEMMA ShortScripts ==
  /\ get_slaveBoardID.todo = <<Rd("MAX7313A", "id")>>
  /\ get_slaveTemp.todo = <<Rd("TMP112A", "temp")>>
  /\ set_slaveIO.todo = <<Try(Wr("MAX7313B", "io", 2)), Try(Wr("MAX7313B", "io", 3)),
                          Try(Wr("MAX7313B", "io", 6)), Try(Wr("MAX7313B", "io", 7))>>
<1>1. max7313_setOutput \o max7313_configIO =
        <<Try(Wr("MAX7313B", "io", 2)), Try(Wr("MAX7313B", "io", 3)),
          Try(Wr("MAX7313B", "io", 6)), Try(Wr("MAX7313B", "io", 7))>>
  BY TwoAndTwo, Zenon DEF max7313_setOutput, max7313_configIO
<1> QED  BY <1>1 DEF get_slaveBoardID, get_slaveTemp, set_slaveIO, Routine

LEMMA ScriptProper ==
  ASSUME NEW n \in Names, NEW out \in Outs
  PROVE  /\ Len(Script(n, out)) \in Nat /\ Len(Script(n, out)) > 0
         /\ \A i \in 1..Len(Script(n, out)) : Proper(n, Script(n, out)[i])
<1>1. CASE n = "init_clk"
  BY <1>1, ClkScript, ClkProper, SizesAssumption DEF Script
<1>2. CASE n = "set_cpsConfig"
  BY <1>2, CpsScript, CpsProper, SizesAssumption DEF Script
<1>3. CASE n = "init_cps"
  BY <1>3, InitScript, InitProper DEF Script
<1>4. CASE n \in {"get_slaveBoardID", "get_slaveTemp"}
  <2>1. \/ n = "get_slaveBoardID" /\ Script(n, out) = <<Rd("MAX7313A", "id")>>
        \/ n = "get_slaveTemp" /\ Script(n, out) = <<Rd("TMP112A", "temp")>>
    BY <1>4, ShortScripts DEF Script
  <2>2. /\ Proper("get_slaveBoardID", Rd("MAX7313A", "id"))
        /\ Proper("get_slaveTemp", Rd("TMP112A", "temp"))
    BY Fields DEF Proper, Chips, Rd
  <2>3. ASSUME NEW x, Script(n, out) = <<x>>, Proper(n, x)
        PROVE  /\ Len(Script(n, out)) \in Nat /\ Len(Script(n, out)) > 0
               /\ \A i \in 1..Len(Script(n, out)) : Proper(n, Script(n, out)[i])
    BY <2>3
  <2> QED  BY <2>1, <2>2, <2>3
<1>5. CASE n = "set_slaveIO"
  <2>1. \A k \in {2, 3, 6, 7} : Proper("set_slaveIO", Try(Wr("MAX7313B", "io", k)))
    BY Fields DEF Proper, Chips, Wr
  <2>2. Script(n, out) = set_slaveIO.todo  BY <1>5 DEF Script
  <2>3. ASSUME NEW a, NEW b, NEW c, NEW d, Script(n, out) = <<a, b, c, d>>,
               Proper(n, a), Proper(n, b), Proper(n, c), Proper(n, d)
        PROVE  /\ Len(Script(n, out)) \in Nat /\ Len(Script(n, out)) > 0
               /\ \A i \in 1..Len(Script(n, out)) : Proper(n, Script(n, out)[i])
    BY <2>3
  <2> QED  BY <1>5, <2>1, <2>2, <2>3, ShortScripts
<1> QED  BY <1>1, <1>2, <1>3, <1>4, <1>5 DEF Names

(* Only set_cpsConfig's depends on the map.                                *)
LEMMA ScriptFree ==
  ASSUME NEW n \in Names \ {"set_cpsConfig"}, NEW out, NEW out2
  PROVE  Script(n, out) = Script(n, out2)
BY DEF Script, Names

-----------------------------------------------------------------------------
(* The queue of a thread when a transfer is over.                          *)
LEMMA Advanced ==
  ASSUME NEW j \in Seq(Routines), j # <<>>
  PROVE  LET a == [j EXCEPT ![1].next = @ + 1] IN
         /\ a \in Seq(Routines) /\ Len(a) = Len(j) /\ a # <<>>
         /\ Head(j) = j[1] /\ j[1] \in Routines /\ Head(a) = a[1] /\ 1 \in 1..Len(j)
         /\ a[1].name = j[1].name /\ a[1].bus = j[1].bus /\ a[1].todo = j[1].todo
         /\ a[1].next = j[1].next + 1
         /\ \A i \in 2..Len(j) : a[i] = j[i]
<1> DEFINE r == [j[1] EXCEPT !.next = @ + 1]
           a == [j EXCEPT ![1] = r]
<1>1. 1 \in 1..Len(j) /\ Head(j) = j[1] /\ j[1] \in Routines
  BY LenProperties, EmptySeq
<1>2. /\ r \in Routines /\ r.name = j[1].name /\ r.bus = j[1].bus /\ r.todo = j[1].todo
      /\ r.next = j[1].next + 1
  BY <1>1 DEF Routines
<1> HIDE DEF r
<1>3. /\ a \in Seq(Routines) /\ Len(a) = Len(j)
      /\ \A i \in 1..Len(j) : a[i] = IF i = 1 THEN r ELSE j[i]
  BY <1>1, <1>2, ExceptSeq
<1>4. a = [j EXCEPT ![1].next = @ + 1]  BY DEF r
<1> HIDE DEF a
<1>5. a # <<>> /\ Head(a) = a[1]
  BY <1>1, <1>3
<1> QED  BY <1>1, <1>2, <1>3, <1>4, <1>5

LEMMA Dropped ==
  ASSUME NEW j \in Seq(Routines), j # <<>>
  PROVE  /\ Tail(j) \in Seq(Routines) /\ Len(Tail(j)) = Len(j) - 1 /\ Len(j) \in Nat /\ Len(j) > 0
         /\ \A i \in 1..Len(Tail(j)) : Tail(j)[i] = j[i + 1] /\ i + 1 \in 2..Len(j)
         /\ Tail(j) # <<>> => Head(Tail(j)) = j[2] /\ 2 \in 1..Len(j)
<1>1. Len(j) \in Nat /\ Len(j) > 0
  BY LenProperties, EmptySeq
<1>2. /\ Tail(j) \in Seq(Routines) /\ Len(Tail(j)) = Len(j) - 1
      /\ \A i \in 1..Len(Tail(j)) : Tail(j)[i] = j[i + 1]
  BY HeadTailProperties
<1>3. \A i \in 1..Len(Tail(j)) : i + 1 \in 2..Len(j)
  BY <1>1, <1>2
<1>4. ASSUME Tail(j) # <<>> PROVE Head(Tail(j)) = j[2] /\ 2 \in 1..Len(j)
  <2> DEFINE s == Tail(j)
  <2>1. s \in Seq(Routines) /\ s # <<>> /\ Len(s) = Len(j) - 1 /\ (1 \in 1..Len(s) => s[1] = j[1 + 1])
    BY <1>2, <1>4
  <2> HIDE DEF s
  <2>2. 1 \in 1..Len(s) /\ Head(s) = s[1]
    BY <2>1, LenProperties, EmptySeq
  <2> QED  BY <1>1, <2>1, <2>2 DEF s
<1> QED  BY <1>1, <1>2, <1>3, <1>4

LEMMA QueuedAdvances ==
  ASSUME NEW j \in Seq(Routines), j # <<>>, NEW t, NEW out, Queued(t, j, out),
         Head(j).next < Len(Head(j).todo), Len(Head(j).todo) \in Nat
  PROVE  Queued(t, [j EXCEPT ![1].next = @ + 1], out)
<1> DEFINE a == [j EXCEPT ![1].next = @ + 1]
<1>1. /\ Len(a) = Len(j) /\ Head(j) = j[1] /\ 1 \in 1..Len(j) /\ j[1] \in Routines
      /\ a[1].name = j[1].name /\ a[1].bus = j[1].bus /\ a[1].todo = j[1].todo
      /\ a[1].next = j[1].next + 1
      /\ \A i \in 2..Len(j) : a[i] = j[i]
  BY Advanced
<1>2. Len(j) \in Nat  BY LenProperties
<1> HIDE DEF a
<1>3. ASSUME NEW i \in 1..Len(a)
      PROVE  /\ a[i].todo = Script(a[i].name, out[a[i].bus])
             /\ a[i].next \in 1..Len(a[i].todo)
             /\ i > 1 => a[i].next = 1
             /\ a[i].name = "init_clk" => t = "main" /\ a[i].bus = "ob"
  <2>1. CASE i = 1
    <3>1. j[1].next \in 1..Len(j[1].todo) /\ j[1].next \in Nat /\ j[1].next < Len(j[1].todo)
      BY <1>1 DEF Queued, Routines
    <3> QED  BY <2>1, <1>1, <3>1 DEF Queued
  <2>2. CASE i # 1
    <3>1. i \in 2..Len(j) /\ i \in 1..Len(j)  BY <2>2, <1>1, <1>2
    <3> QED  BY <3>1, <1>1 DEF Queued
  <2> QED  BY <2>1, <2>2
<1>4. Queued(t, a, out)  BY <1>3 DEF Queued
<1> QED  BY <1>4 DEF a

LEMMA QueuedDrops ==
  ASSUME NEW j \in Seq(Routines), j # <<>>, NEW t, NEW out, Queued(t, j, out)
  PROVE  /\ Queued(t, Tail(j), out)
         /\ Tail(j) # <<>> => Head(Tail(j)).next = 1
<1> DEFINE s == Tail(j)
<1>1. /\ \A i \in 1..Len(s) : s[i] = j[i + 1] /\ i + 1 \in 2..Len(j)
      /\ s # <<>> => Head(s) = j[2] /\ 2 \in 1..Len(j)
      /\ Len(j) \in Nat
  BY Dropped
<1> HIDE DEF s
<1>2. ASSUME NEW i \in 1..Len(s)
      PROVE  /\ s[i].todo = Script(s[i].name, out[s[i].bus])
             /\ s[i].next \in 1..Len(s[i].todo)
             /\ s[i].next = 1
             /\ s[i].name = "init_clk" => t = "main" /\ s[i].bus = "ob"
  <2>1. s[i] = j[i + 1] /\ i + 1 \in 1..Len(j) /\ i + 1 > 1  BY <1>1
  <2> QED  BY <2>1 DEF Queued
<1>3. Queued(t, s, out)  BY <1>2 DEF Queued
<1>4. s # <<>> => Head(s).next = 1
  <2>1. 2 > 1  BY SMTT(30)
  <2> QED  BY <1>1, <2>1 DEF Queued
<1> QED  BY <1>3, <1>4 DEF s

-----------------------------------------------------------------------------
(* What the invariant says of the routine a thread is in.                  *)
LEMMA RoutineFacts ==
  ASSUME JobsOK, Places, cpsOut \in [Buses -> Outs], NEW t \in Users, Running(t)
  PROVE  LET r == Cur(t) IN
         /\ job[t] \in Seq(Routines) /\ job[t] # <<>> /\ Queued(t, job[t], cpsOut)
         /\ r = job[t][1] /\ 1 \in 1..Len(job[t])
         /\ r.name \in Names /\ r.bus \in Buses /\ r.next \in Nat /\ r.next > 0
         /\ cpsOut[r.bus] \in Outs /\ r.todo = Script(r.name, cpsOut[r.bus])
         /\ Len(r.todo) \in Nat /\ r.next <= Len(r.todo)
         /\ X(t) = Script(r.name, cpsOut[r.bus])[r.next]
         /\ Proper(r.name, X(t))
         /\ r.name = "init_clk" => t = "main" /\ r.bus = "ob"
         /\ t = "port" => OfRecord(r) /\ stage \in {"round", "mode"}
         /\ t = "main" /\ stage \in {"round", "mode"} => OfRound(r)
<1> DEFINE j == job[t]
           r == Cur(t)
<1>1. j \in Seq(Routines) /\ j # <<>> /\ Queued(t, j, cpsOut)
  BY DEF JobsOK, Running
<1>2. Head(j) = j[1] /\ j[1] \in Routines /\ 1 \in 1..Len(j)
  BY <1>1, Advanced
<1>3. r = j[1]  BY <1>2 DEF Cur
<1>4. r.name \in Names /\ r.bus \in Buses /\ r.next \in Nat  BY <1>2, <1>3 DEF Routines
<1>5. /\ r.todo = Script(r.name, cpsOut[r.bus]) /\ r.next \in 1..Len(r.todo)
      /\ r.name = "init_clk" => t = "main" /\ r.bus = "ob"
  BY <1>1, <1>2, <1>3 DEF Queued
<1>6. cpsOut[r.bus] \in Outs  BY <1>4
<1> HIDE DEF r, j
<1>7. /\ Len(r.todo) \in Nat /\ r.next > 0 /\ r.next <= Len(r.todo)
      /\ Proper(r.name, r.todo[r.next])
  BY <1>4, <1>5, <1>6, ScriptProper
<1>8. X(t) = r.todo[r.next]  BY DEF X, Item, r
<1>9. t = "port" => OfRecord(r) /\ stage \in {"round", "mode"}
  BY <1>1, <1>2, <1>3 DEF Places, j
<1>10. t = "main" /\ stage \in {"round", "mode"} => OfRound(r)
  BY <1>2, <1>3 DEF Places, j
<1> QED  BY <1>1, <1>2, <1>3, <1>4, <1>5, <1>6, <1>7, <1>8, <1>9, <1>10 DEF j, r

(* The two threads are never on the on-board bus together.                 *)
LEMMA OneOnBoard ==
  ASSUME JobsOK, Places, cpsOut \in [Buses -> Outs], NEW t \in Users, NEW u \in Users \ {t},
         NEW n \in 1..Len(job[t]), job[t][n].bus = "ob", Running(t), Running(u)
  PROVE  Cur(u).bus # "ob"
<1>1. Running("port") /\ Running("main")  BY DEF Users
<1>2. stage \in {"round", "mode"}  BY <1>1, RoutineFacts DEF Users
<1>3. t # "main"  BY <1>2 DEF Places, OfRound
<1>4. OfRound(Cur("main"))  BY <1>1, <1>2, RoutineFacts DEF Users
<1> QED  BY <1>3, <1>4 DEF OfRound, Users

(* What is left to do was to be done before.                               *)
LEMMA RestIsOld ==
  ASSUME NEW j \in Seq(Routines), j # <<>>, NEW k,
         k = [j EXCEPT ![1].next = @ + 1] \/ k = Tail(j)
  PROVE  \A i \in 1..Len(k) : \E n \in 1..Len(j) : k[i].name = j[n].name /\ k[i].bus = j[n].bus
<1> TAKE i \in 1..Len(k)
<1>1. CASE k = [j EXCEPT ![1].next = @ + 1]
  <2>1. /\ Len(k) = Len(j) /\ k[1].name = j[1].name /\ k[1].bus = j[1].bus
        /\ \A n \in 2..Len(j) : k[n] = j[n]
    BY <1>1, Advanced
  <2>2. i \in 1..Len(j) /\ (i = 1 \/ i \in 2..Len(j))
    BY <2>1, LenProperties
  <2>3. k[i].name = j[i].name /\ k[i].bus = j[i].bus  BY <2>1, <2>2
  <2> QED  BY <2>2, <2>3
<1>2. CASE k = Tail(j)
  <2>1. k[i] = j[i + 1] /\ i + 1 \in 1..Len(j)  BY <1>2, Dropped
  <2> QED  BY <2>1
<1> QED  BY <1>1, <1>2

(* A thread's queue when the transfer it is in is over.                    *)
LEMMA OverJobs ==
  ASSUME JobsOK, Places, cpsOut \in [Buses -> Outs], NEW t \in Users, Running(t), NEW ok \in BOOLEAN,
         Over(t, ok), UNCHANGED <<cpsOut, stage>>
  PROVE  /\ JobsOK' /\ Places'
         /\ \A u \in Users \ {t} : job'[u] = job[u]
         /\ Running(t)' =>
              \/ /\ ok \/ X(t).go
                 /\ Cur(t)'.next = Cur(t).next + 1 /\ Cur(t)'.name = Cur(t).name
                 /\ Cur(t)'.bus = Cur(t).bus /\ alone'[t] = alone[t]
              \/ Cur(t)'.next = 1
         /\ Running(t)' => \E n \in 1..Len(job[t]) : Cur(t)'.bus = job[t][n].bus
<1> DEFINE j == job[t]
           r == Cur(t)
           more == (ok \/ X(t).go) /\ r.next < Len(r.todo)
           k == IF more THEN [j EXCEPT ![1].next = @ + 1] ELSE Tail(j)
<1>1. j \in Seq(Routines) /\ j # <<>> /\ Queued(t, j, cpsOut) /\ r = Head(j) /\ Len(r.todo) \in Nat
  BY RoutineFacts DEF Cur
<1>2. job' = [job EXCEPT ![t] = k]  BY Zenon DEF Over
<1>3. more => alone'[t] = alone[t]  BY Zenon DEF Over
<1>4. k \in Seq(Routines) /\ Queued(t, k, cpsOut)
  <2>1. CASE more  BY <2>1, <1>1, Advanced, QueuedAdvances
  <2>2. CASE ~more  BY <2>2, <1>1, Dropped, QueuedDrops
  <2> QED  BY <2>1, <2>2
<1>5. more => k # <<>> /\ Head(k).next = r.next + 1 /\ Head(k).name = r.name /\ Head(k).bus = r.bus
  BY <1>1, Advanced
<1>6. ~more /\ k # <<>> => Head(k).next = 1
  BY <1>1, QueuedDrops
<1>7. \A i \in 1..Len(k) : \E n \in 1..Len(j) : k[i].name = j[n].name /\ k[i].bus = j[n].bus
  <2>1. k = [j EXCEPT ![1].next = @ + 1] \/ k = Tail(j)  OBVIOUS
  <2> HIDE DEF k, j
  <2> QED  BY <1>1, <2>1, RestIsOld, SMTT(30)
<1>8. more => ok \/ X(t).go  OBVIOUS
<1> HIDE DEF k, more
<1>9. job \in [Users -> Seq(Routines)]  BY DEF JobsOK
<1>10. job'[t] = k /\ \A u \in Users \ {t} : job'[u] = job[u]  BY <1>2, <1>9
<1>11. JobsOK'
  <2>1. job' \in [Users -> Seq(Routines)]  BY <1>2, <1>4, <1>9
  <2>2. \A u \in Users : Queued(u, job'[u], cpsOut')
    BY <1>4, <1>10 DEF JobsOK
  <2> QED  BY <2>1, <2>2 DEF JobsOK
<1>12. Places'
  <2>1. t = "main" \/ t = "port"  BY DEF Users
  <2>2. \A i \in 1..Len(job'["port"]) : OfRecord(job'["port"][i])
    <3>1. CASE t = "port"
      <4>1. \A n \in 1..Len(j) : OfRecord(j[n])  BY <3>1 DEF Places
      <4> HIDE DEF j
      <4>2. \A i \in 1..Len(k) : OfRecord(k[i])  BY <1>7, <4>1 DEF OfRecord
      <4> QED  BY <3>1, <4>2, <1>10
    <3>2. CASE t = "main"
      <4>1. job'["port"] = job["port"]  BY <3>2, <1>10 DEF Users
      <4> QED  BY <4>1 DEF Places
    <3> QED  BY <2>1, <3>1, <3>2
  <2>3. stage \in {"round", "mode"} => \A i \in 1..Len(job'["main"]) : OfRound(job'["main"][i])
    <3> SUFFICES ASSUME stage \in {"round", "mode"}
                 PROVE  \A i \in 1..Len(job'["main"]) : OfRound(job'["main"][i])
      OBVIOUS
    <3>1. CASE t = "main"
      <4>1. \A n \in 1..Len(j) : OfRound(j[n])  BY <3>1 DEF Places
      <4> HIDE DEF j
      <4>2. \A i \in 1..Len(k) : OfRound(k[i])  BY <1>7, <4>1 DEF OfRound
      <4> QED  BY <3>1, <4>2, <1>10
    <3>2. CASE t = "port"
      <4>1. job'["main"] = job["main"]  BY <3>2, <1>10 DEF Users
      <4> QED  BY <4>1 DEF Places
    <3> QED  BY <2>1, <3>1, <3>2
  <2>4. stage \in {"clock", "boards", "started"} => job'["port"] = <<>>
    BY <1>1, <1>10, <2>1 DEF Places, Users
  <2> QED  BY <2>2, <2>3, <2>4 DEF Places
<1>13. Running(t)' => k # <<>>  BY <1>10 DEF Running
<1>14. Cur(t)' = Head(k)  BY <1>10 DEF Cur
<1>15. k # <<>> => \E n \in 1..Len(j) : Head(k).bus = j[n].bus
  BY <1>4, <1>7, Advanced
<1> QED
  BY <1>3, <1>5, <1>6, <1>8, <1>10, <1>11, <1>12, <1>13, <1>14, <1>15

(* The steps and the other thread's share of the bus when it is over, ...  *)
LEMMA OverSteps ==
  ASSUME JobsOK, Places, cpsOut \in [Buses -> Outs], OwnBus, NEW t \in Users, Running(t),
         NEW ok \in BOOLEAN, Over(t, ok), UNCHANGED <<cpsOut, stage>>, step \in [Users -> Steps]
  PROVE  /\ step' \in [Users -> Steps]
         /\ \A u \in Users \ {t} : step'[u] = step[u]
         /\ step'[t] \in {"none", "mux", "addr"}
         /\ step'[t] = "none" <=> ~Running(t)'
         /\ alone' \in [Users -> BOOLEAN]
         /\ \A u \in Users \ {t} :
              Running(u) /\ alone'[u] => alone[u] /\ Cur(u).bus # Cur(t).bus
         /\ \A u \in Users : Running(u)' /\ Cur(u)'.bus = "ob" => alone'[u]
<1> DEFINE j == job[t]
           r == Cur(t)
           more == (ok \/ X(t).go) /\ r.next < Len(r.todo)
           k == IF more THEN [j EXCEPT ![1].next = @ + 1] ELSE Tail(j)
           Free(b) == \A w \in Users \ {t} : Running(w) => Cur(w).bus # b
<1>1. /\ JobsOK' /\ \A u \in Users \ {t} : job'[u] = job[u]
      /\ Running(t)' => \E n \in 1..Len(job[t]) : Cur(t)'.bus = job[t][n].bus
  BY OverJobs
<1>2. step' = [step EXCEPT ![t] = StepOf(k)] /\ job' = [job EXCEPT ![t] = k]
  BY Zenon DEF Over
<1>3. alone' = [u \in Users |->
          IF u = t THEN
            IF more THEN alone[t]
            ELSE \A w \in Users \ {t} : Running(w) /\ k # <<>> => Cur(w).bus # Head(k).bus
          ELSE IF Running(u) /\ Cur(u).bus = r.bus THEN FALSE ELSE alone[u]]
  BY Zenon DEF Over
<1>4. job'[t] = k  BY <1>2 DEF JobsOK
<1>5. Running(t)' <=> k # <<>>  BY <1>4 DEF Running
<1>6. Cur(t)' = Head(k)  BY <1>4 DEF Cur
<1>7. more => Head(k).bus = r.bus  BY RoutineFacts, Advanced DEF Cur
<1>8. StepOf(k) \in {"none", "mux", "addr"} /\ (StepOf(k) = "none" <=> k = <<>>)
  BY DEF StepOf, First
<1> HIDE DEF k, more
<1>9. /\ step' \in [Users -> Steps] /\ step'[t] = StepOf(k)
      /\ \A u \in Users \ {t} : step'[u] = step[u]
  BY <1>2, <1>8 DEF Steps
<1>10. alone' \in [Users -> BOOLEAN]
  <2>1. \A u \in Users : alone'[u] \in BOOLEAN  BY <1>3, Zenon DEF OwnBus
  <2> QED  BY <1>3, <2>1, Zenon
<1>11. \A u \in Users \ {t} : Running(u) /\ alone'[u] => alone[u] /\ Cur(u).bus # Cur(t).bus
  BY <1>3
<1>12. ASSUME NEW u \in Users, Running(u)', Cur(u)'.bus = "ob" PROVE alone'[u]
  <2>1. CASE u # t
    <3>1. job'[u] = job[u]  BY <1>1, <2>1
    <3>2. Running(u) /\ Cur(u).bus = "ob"  BY <3>1, <1>12 DEF Running, Cur
    <3>3. alone[u]  BY <3>2, Zenon DEF OwnBus
    <3>4. 1 \in 1..Len(job[u]) /\ job[u][1].bus = "ob"  BY <3>2, RoutineFacts
    <3>5. Cur(t).bus # "ob"  BY <2>1, <3>2, <3>4, OneOnBoard
    <3>6. ~(Running(u) /\ Cur(u).bus = r.bus)  BY <3>2, <3>5
    <3> HIDE DEF r
    <3> QED  BY <1>3, <2>1, <3>3, <3>6, Zenon
  <2>2. CASE u = t /\ more
    <3>1. Cur(t).bus = "ob"  BY <1>6, <1>7, <1>12, <2>2
    <3>2. alone[t]  BY <3>1, Zenon DEF OwnBus
    <3> QED  BY <1>3, <2>2, <3>2, Zenon
  <2>3. CASE u = t /\ ~more
    <3>1. PICK n \in 1..Len(job[t]) : job[t][n].bus = "ob"
      BY <1>1, <1>12, <2>3
    <3>2. \A w \in Users \ {t} : Running(w) => Cur(w).bus # "ob"
      BY <3>1, OneOnBoard
    <3>3. \A w \in Users \ {t} : Running(w) /\ k # <<>> => Cur(w).bus # Head(k).bus
      BY <3>2, <1>6, <1>12, <2>3
    <3> QED  BY <1>3, <2>3, <3>3, Zenon
  <2> QED  BY <2>1, <2>2, <2>3
<1> QED  BY <1>5, <1>8, <1>9, <1>10, <1>11, <1>12

(* ... and when a transfer goes on to its next step.                       *)
LEMMA GotoSteps ==
  ASSUME JobsOK, Places, cpsOut \in [Buses -> Outs], OwnBus, NEW t \in Users, Running(t),
         NEW s \in Steps, Goto(t, s), step \in [Users -> Steps]
  PROVE  /\ job' = job /\ tries' = tries
         /\ step' \in [Users -> Steps] /\ step'[t] = s
         /\ \A u \in Users \ {t} : step'[u] = step[u]
         /\ alone' \in [Users -> BOOLEAN] /\ alone'[t] = alone[t]
         /\ \A u \in Users \ {t} :
              Running(u) /\ alone'[u] => alone[u] /\ Cur(u).bus # Cur(t).bus
         /\ \A u \in Users : Running(u) /\ Cur(u).bus = "ob" => alone'[u]
<1>1. job' = job /\ tries' = tries /\ step' = [step EXCEPT ![t] = s]
  BY DEF Goto
<1>2. alone' = [u \in Users |->
                  IF u # t /\ Running(u) /\ Cur(u).bus = Cur(t).bus THEN FALSE ELSE alone[u]]
  BY Zenon DEF Goto, Alone
<1>3. alone' \in [Users -> BOOLEAN]
  <2>1. \A u \in Users : alone'[u] \in BOOLEAN  BY <1>2, Zenon DEF OwnBus
  <2> QED  BY <1>2, <2>1, Zenon
<1>4. alone'[t] = alone[t]  BY <1>2, Zenon
<1>5. \A u \in Users \ {t} : Running(u) /\ alone'[u] => alone[u] /\ Cur(u).bus # Cur(t).bus
  BY <1>2
<1>6. ASSUME NEW u \in Users, Running(u), Cur(u).bus = "ob" PROVE alone'[u]
  <2>1. alone[u]  BY <1>6, Zenon DEF OwnBus
  <2>2. ~(u # t /\ Running(u) /\ Cur(u).bus = Cur(t).bus)
    <3> SUFFICES ASSUME u # t PROVE Cur(t).bus # "ob"  BY <1>6
    <3>1. 1 \in 1..Len(job[u]) /\ job[u][1].bus = "ob"  BY <1>6, RoutineFacts
    <3> QED  BY <1>6, <3>1, OneOnBoard
  <2> QED  BY <1>2, <2>1, <2>2, Zenon
<1> QED  BY <1>1, <1>3, <1>4, <1>5, <1>6

-----------------------------------------------------------------------------
(* A step of one thread seen by the other.                                 *)
Apart(t) ==
  /\ \A u \in Users \ {t} :
       /\ job'[u] = job[u] /\ step'[u] = step[u]
       /\ Running(u) /\ alone'[u] => alone[u] /\ Cur(u).bus # Cur(t).bus
  /\ \A b \in Buses \ {Cur(t).bus} : slave'[b] = slave[b] /\ cps'[b] = cps[b]
  /\ cpsOut' = cpsOut
  /\ faults \in Nat /\ faults' \in Nat /\ faults' >= faults

LEMMA Others ==
  ASSUME SysInv, NEW t \in Users, Running(t), Apart(t), NEW u \in Users \ {t},
         Cur(t).name = "init_clk" \/ clk' = clk
  PROVE  TalksTo(u)' /\ SentBy(u)' /\ ClockSentBy(u)'
<1>1. Running(u)' <=> Running(u)  BY DEF Running, Apart
<1>2. Cur(u)' = Cur(u)  BY DEF Cur, Apart
<1>3. X(u)' = X(u)  BY <1>2 DEF X
<1>4. step'[u] = step[u]  BY DEF Apart
<1>5. Running(u) /\ alone'[u] =>
        /\ alone[u] /\ slave'[Cur(u).bus] = slave[Cur(u).bus] /\ cps'[Cur(u).bus] = cps[Cur(u).bus]
  BY RoutineFacts DEF Apart, SysInv, ChipTypes, Held
<1>6. TalksTo(u) /\ SentBy(u) /\ ClockSentBy(u)  BY DEF SysInv, OwnBus, MapSent, ClockSent
<1>7. TalksTo(u)'  BY <1>1, <1>2, <1>3, <1>4, <1>5, <1>6 DEF TalksTo
<1>8. SentBy(u)'
  <2>1. cpsOut' = cpsOut  BY DEF Apart
  <2> QED  BY <1>1, <1>2, <1>5, <1>6, <2>1 DEF SentBy
<1>9. ClockSentBy(u)'
  <2> SUFFICES ASSUME Running(u), Cur(u).name = "init_clk" PROVE ClockSentBy(u)'
    BY <1>1, <1>2 DEF ClockSentBy
  <2>1. u = "main"  BY RoutineFacts DEF SysInv, ChipTypes
  <2>2. t = "port"  BY <2>1 DEF Users
  <2>3. Cur(t).name # "init_clk"  BY <2>2, RoutineFacts DEF SysInv, ChipTypes
  <2>4. clk' = clk  BY <2>3
  <2>5. faults > 0 => faults' > 0  BY DEF Apart
  <2> QED  BY <1>1, <1>2, <1>6, <2>4, <2>5 DEF ClockSentBy
<1> QED  BY <1>7, <1>8, <1>9

(* A routine that has just begun has sent nothing.                         *)
LEMMA Begun ==
  ASSUME NEW t \in Users, Running(t)' => Cur(t)'.next = 1
  PROVE  SentBy(t)' /\ ClockSentBy(t)'
<1>1. NumBytes \in Nat /\ NumRegs \in Nat  BY SizesAssumption
<1> SUFFICES ASSUME Running(t)', Cur(t)'.next = 1 PROVE SentBy(t)' /\ ClockSentBy(t)'
  BY DEF SentBy, ClockSentBy
<1>2. \A k \in Bytes : ~(k < 1)  BY <1>1 DEF Bytes
<1>3. \A k \in ClockRegs : ~(3 + 2 * k < 1)  BY <1>1 DEF ClockRegs
<1>4. 1 # NumBytes + 3 /\ ~(1 > 2 * NumRegs + 6) /\ ~(1 > 1)  BY <1>1
<1> QED  BY <1>2, <1>3, <1>4 DEF SentBy, ClockSentBy

(* Which transfer a routine is at.                                         *)
LEMMA CpsAt ==
  ASSUME SysInv, NEW t \in Users, Running(t), Cur(t).name = "set_cpsConfig"
  PROVE  LET n == Cur(t).next  x == X(t)  out == cpsOut[Cur(t).bus] IN
         /\ n \in Nat /\ n > 0 /\ n <= NumBytes + 3 /\ Len(Cur(t).todo) = NumBytes + 3
         /\ n \in Bytes => x = WrMap(n, out[n])
         /\ n = NumBytes + 1 => x = Wr("ADN4604", "en", 1)
         /\ n = NumBytes + 2 => x = Wr("ADN4604", "update", 1)
         /\ n = NumBytes + 3 => x = Try(Rd("ADN4604", "check"))
<1> DEFINE r == Cur(t)
           out == cpsOut[r.bus]
           todo == set_cpsConfig("ob", out).todo
<1>1. /\ out \in Outs /\ r.next \in Nat /\ r.next > 0 /\ r.next <= Len(r.todo)
      /\ r.todo = Script(r.name, out) /\ X(t) = Script(r.name, out)[r.next]
  BY RoutineFacts DEF SysInv, ChipTypes
<1>2. Script(r.name, out) = todo  BY DEF Script
<1> HIDE DEF r, out, todo
<1>3. /\ Len(todo) = NumBytes + 3
      /\ \A k \in Bytes : todo[k] = WrMap(k, out[k])
      /\ todo[NumBytes + 1] = Wr("ADN4604", "en", 1)
      /\ todo[NumBytes + 2] = Wr("ADN4604", "update", 1)
      /\ todo[NumBytes + 3] = Try(Rd("ADN4604", "check"))
  BY <1>1, CpsScript DEF todo
<1> QED  BY <1>1, <1>2, <1>3 DEF r, out

LEMMA InitAt ==
  ASSUME SysInv, NEW t \in Users, Running(t), Cur(t).name = "init_cps"
  PROVE  LET n == Cur(t).next  x == X(t) IN
         /\ n \in {1, 2, 3, 4}
         /\ n = 1 => x = Wr("ADN4604", "reset", 1)
         /\ n = 2 => x = Wr("ADN4604", "mapsel", 0)
         /\ n = 3 => x = Wr("ADN4604", "term", 0)
         /\ n = 4 => x = Wr("ADN4604", "update", 1)
<1> DEFINE r == Cur(t)
           out == cpsOut[r.bus]
           todo == init_cps("ob").todo
<1>1. /\ out \in Outs /\ r.next \in Nat /\ r.next > 0 /\ r.next <= Len(r.todo)
      /\ r.todo = Script(r.name, out) /\ X(t) = Script(r.name, out)[r.next]
  BY RoutineFacts DEF SysInv, ChipTypes
<1>2. Script(r.name, out) = todo  BY DEF Script
<1> HIDE DEF r, out, todo
<1>3. /\ Len(todo) = 4
      /\ todo[1] = Wr("ADN4604", "reset", 1) /\ todo[2] = Wr("ADN4604", "mapsel", 0)
      /\ todo[3] = Wr("ADN4604", "term", 0) /\ todo[4] = Wr("ADN4604", "update", 1)
  BY InitScript DEF todo
<1>4. r.next \in {1, 2, 3, 4}  BY <1>1, <1>2, <1>3
<1> QED  BY <1>1, <1>2, <1>3, <1>4 DEF r

LEMMA ClkAt ==
  ASSUME SysInv, NEW t \in Users, Running(t), Cur(t).name = "init_clk"
  PROVE  LET n == Cur(t).next  x == X(t) IN
         /\ n \in Nat /\ n > 0 /\ n <= 2 * NumRegs + 9
         /\ x.chip = "SI5338A" /\ Cur(t).bus = "ob" /\ t = "main" /\ alone[t]
         /\ x.reg = "reset" => n = 2
         /\ x.reg = "oeb" /\ x.val = 0 => n = 2 * NumRegs + 9
         /\ x.reg = "cfg" => x.at \in ClockRegs
         /\ \A k \in ClockRegs : n = 3 + 2 * k => x = WrCfg(k)
         /\ n = 2 * NumRegs + 6 => x = Poll("SI5338A", "lock")
<1> DEFINE r == Cur(t)
           out == cpsOut[r.bus]
           todo == init_clk.todo
<1>1. /\ out \in Outs /\ r.next \in Nat /\ r.next > 0 /\ r.next <= Len(r.todo)
      /\ r.todo = Script(r.name, out) /\ X(t) = Script(r.name, out)[r.next]
      /\ r.bus = "ob" /\ t = "main"
  BY RoutineFacts DEF SysInv, ChipTypes
<1>2. Script(r.name, out) = todo  BY DEF Script
<1>3. alone[t]  BY <1>1, Zenon DEF SysInv, OwnBus
<1> HIDE DEF r, out, todo
<1>4. /\ Len(todo) = 2 * NumRegs + 9
      /\ \A i \in 1..Len(todo) :
           /\ todo[i].chip = "SI5338A"
           /\ todo[i].reg = "reset" => i = 2
           /\ todo[i].reg = "oeb" /\ todo[i].val = 0 => i = 2 * NumRegs + 9
           /\ todo[i].reg = "cfg" => todo[i].at \in ClockRegs
      /\ \A k \in ClockRegs : todo[3 + 2 * k] = WrCfg(k)
      /\ todo[2 * NumRegs + 6] = Poll("SI5338A", "lock")
  BY ClkScript DEF todo
<1>5. r.next \in 1..Len(todo) /\ X(t) = todo[r.next]  BY <1>1, <1>2
<1> QED  BY <1>1, <1>3, <1>4, <1>5 DEF r

(* A transfer that changes no chip and is over.                            *)
LEMMA QuietSent ==
  ASSUME SysInv, NEW t \in Users, Running(t), NEW ok \in BOOLEAN, Over(t, ok),
         UNCHANGED <<cpsOut, stage, cps>>, ok => X(t).op # "wr"
  PROVE  SentBy(t)'
<1>1. NumBytes \in Nat  BY SizesAssumption
<1>2. SentBy(t) /\ cpsOut \in [Buses -> Outs]  BY DEF SysInv, MapSent, ChipTypes
<1>3. CASE Running(t)' => Cur(t)'.next = 1  BY <1>3, Begun
<1>4. ASSUME Running(t)', Cur(t)'.next # 1 PROVE SentBy(t)'
  <2>1. /\ ok \/ X(t).go
        /\ Cur(t)'.next = Cur(t).next + 1 /\ Cur(t)'.name = Cur(t).name
        /\ Cur(t)'.bus = Cur(t).bus /\ alone'[t] = alone[t]
    BY <1>2, <1>4, OverJobs DEF SysInv
  <2>2. Cur(t).name # "init_cps"
    <3> SUFFICES ASSUME Cur(t).name = "init_cps" PROVE FALSE  OBVIOUS
    <3>1. X(t).op = "wr" /\ ~X(t).go  BY InitAt, Fields DEF Wr
    <3> QED  BY <2>1, <3>1
  <2>3. CASE Cur(t).name # "set_cpsConfig"  BY <2>1, <2>2, <2>3 DEF SentBy
  <2>4. CASE Cur(t).name = "set_cpsConfig"
    <3> DEFINE n == Cur(t).next
    <3>1. n \in Nat /\ n > 0 /\ n <= NumBytes + 3  BY <2>4, CpsAt
    <3>2. n \notin Bytes
      <4> SUFFICES ASSUME n \in Bytes PROVE FALSE  OBVIOUS
      <4>1. X(t).op = "wr" /\ ~X(t).go  BY <2>4, CpsAt, FieldsAt
      <4> QED  BY <2>1, <4>1
    <3>3. n # NumBytes + 1 /\ n # NumBytes + 2
      <4> SUFFICES ASSUME n = NumBytes + 1 \/ n = NumBytes + 2 PROVE FALSE  OBVIOUS
      <4>1. X(t).op = "wr" /\ ~X(t).go  BY <2>4, CpsAt, Fields DEF Wr
      <4> QED  BY <2>1, <4>1
    <3>4. n = NumBytes + 3  BY <1>1, <3>1, <3>2, <3>3 DEF Bytes
    <3>5. \A k \in Bytes : k < n  BY <1>1, <3>4 DEF Bytes
    <3>6. n + 1 # NumBytes + 3  BY <1>1, <3>4
    <3> HIDE DEF n
    <3>7. Cur(t).next = n  BY DEF n
    <3> QED  BY <1>2, <2>1, <2>4, <3>5, <3>6, <3>7 DEF SentBy
  <2> QED  BY <2>3, <2>4
<1> QED  BY <1>3, <1>4

LEMMA QuietClock ==
  ASSUME SysInv, NEW t \in Users, Running(t), NEW ok \in BOOLEAN, Over(t, ok),
         UNCHANGED <<cpsOut, stage>>, ok => X(t).op # "wr",
         clk'.regs = clk.regs, clk.locked => clk'.locked,
         faults \in Nat, faults' \in Nat, faults' >= faults,
         ok /\ X(t) = Poll("SI5338A", "lock") => clk'.locked \/ faults' > 0
  PROVE  ClockSentBy(t)'
<1>1. NumRegs \in Nat  BY SizesAssumption
<1>2. ClockSentBy(t) /\ cpsOut \in [Buses -> Outs]  BY DEF SysInv, ClockSent, ChipTypes
<1>3. CASE Running(t)' => Cur(t)'.next = 1  BY <1>3, Begun
<1>4. ASSUME Running(t)', Cur(t)'.next # 1, Cur(t)'.name = "init_clk" PROVE ClockSentBy(t)'
  <2> DEFINE n == Cur(t).next
  <2>1. /\ ok \/ X(t).go
        /\ Cur(t)'.next = n + 1 /\ Cur(t).name = "init_clk"
    BY <1>2, <1>4, OverJobs DEF SysInv
  <2>2. n \in Nat /\ n > 0  BY <2>1, ClkAt
  <2>3. ASSUME NEW k \in ClockRegs, n = 3 + 2 * k PROVE FALSE
    <3>1. X(t) = WrCfg(k)  BY <2>1, <2>3, ClkAt
    <3>2. X(t).op = "wr" /\ ~X(t).go  BY <3>1, FieldsAt
    <3> QED  BY <2>1, <3>2
  <2>4. ASSUME n = 2 * NumRegs + 6 PROVE clk'.locked \/ faults' > 0
    <3>1. X(t) = Poll("SI5338A", "lock")  BY <2>1, <2>4, ClkAt
    <3>2. ~X(t).go  BY <3>1, Fields DEF Poll
    <3> QED  BY <2>1, <3>1, <3>2
  <2>5. ASSUME NEW k \in ClockRegs, 3 + 2 * k < n + 1 PROVE k \in clk'.regs
    <3>1. 3 + 2 * k < n  BY <1>1, <2>2, <2>3, <2>5 DEF ClockRegs
    <3> QED  BY <1>2, <2>1, <3>1 DEF ClockSentBy
  <2>6. ASSUME n + 1 > 2 * NumRegs + 6 PROVE clk'.locked \/ faults' > 0
    <3>1. CASE n = 2 * NumRegs + 6  BY <3>1, <2>4
    <3>2. CASE n > 2 * NumRegs + 6
      <4>1. clk.locked \/ faults > 0  BY <1>2, <2>1, <3>2 DEF ClockSentBy
      <4> QED  BY <4>1
    <3> QED  BY <3>1, <3>2, <1>1, <2>2, <2>6
  <2> HIDE DEF n
  <2> QED  BY <2>1, <2>5, <2>6 DEF ClockSentBy
<1> QED  BY <1>3, <1>4 DEF ClockSentBy

(* What a chip makes of a write.                                           *)
LEMMA ResetIsMap == Reset \in Outs
BY DEF Reset, Outs, Vals

LEMMA SwitchTakes ==
  ASSUME cps \in [Buses -> Switches], NEW b \in Buses, NEW x, Take(b, x),
         x.chip = "ADN4604" /\ x.reg = "map" => x.at \in Bytes /\ x.val \in Vals
  PROVE  /\ cps' \in [Buses -> Switches]
         /\ \A c \in Buses \ {b} : cps'[c] = cps[c]
         /\ x.chip # "ADN4604" => cps' = cps
         /\ x.chip = "ADN4604" =>
              /\ x.reg = "reset" => cps'[b].map = Reset /\ cps'[b].on = Reset
              /\ x.reg = "update" => cps'[b].map = cps[b].map /\ cps'[b].on = cps[b].map
              /\ x.reg = "map" =>
                   cps'[b].map = [cps[b].map EXCEPT ![x.at] = x.val] /\ cps'[b].on = cps[b].on
              /\ x.reg \notin {"reset", "update", "map"} => cps' = cps
<1>1. cps' = IF x.chip # "ADN4604" THEN cps ELSE
             CASE x.reg = "reset"  -> [cps EXCEPT ![b] = [map |-> Reset, on |-> Reset]]
               [] x.reg = "update" -> [cps EXCEPT ![b].on = cps[b].map]
               [] x.reg = "map"    -> [cps EXCEPT ![b].map[x.at] = x.val]
               [] OTHER            -> cps
  BY DEF Take
<1>2. CASE x.chip # "ADN4604"  BY <1>1, <1>2
<1>3. CASE x.chip = "ADN4604" /\ x.reg = "reset"
  <2>1. cps' = [cps EXCEPT ![b] = [map |-> Reset, on |-> Reset]]  BY <1>1, <1>3
  <2>2. [map |-> Reset, on |-> Reset] \in Switches  BY ResetIsMap DEF Switches
  <2> QED  BY <1>3, <2>1, <2>2
<1>4. CASE x.chip = "ADN4604" /\ x.reg = "update"
  <2>1. cps' = [cps EXCEPT ![b].on = cps[b].map]  BY <1>1, <1>4
  <2> QED  BY <1>4, <2>1 DEF Switches
<1>5. CASE x.chip = "ADN4604" /\ x.reg = "map"
  <2>1. cps' = [cps EXCEPT ![b].map[x.at] = x.val]  BY <1>1, <1>5
  <2>2. [cps[b].map EXCEPT ![x.at] = x.val] \in Outs  BY <1>5 DEF Switches, Outs
  <2> QED  BY <1>5, <2>1, <2>2 DEF Switches
<1>6. CASE x.chip = "ADN4604" /\ x.reg \notin {"reset", "update", "map"}
  BY <1>1, <1>6
<1> QED  BY <1>2, <1>3, <1>4, <1>5, <1>6

LEMMA ClockValues ==
  ASSUME NEW c \in Clocks, NEW k \in ClockRegs, NEW v \in BOOLEAN
  PROVE  /\ [regs |-> {}, locked |-> FALSE, on |-> FALSE] \in Clocks
         /\ [c EXCEPT !.on = v] \in Clocks
         /\ [c EXCEPT !.on = v].regs = c.regs /\ ([c EXCEPT !.on = v].locked <=> c.locked)
         /\ [c EXCEPT !.regs = @ \cup {k}] \in Clocks
         /\ [c EXCEPT !.regs = @ \cup {k}].regs = c.regs \cup {k}
         /\ [c EXCEPT !.regs = @ \cup {k}].locked <=> c.locked
         /\ [c EXCEPT !.regs = @ \cup {k}].on <=> c.on
         /\ [c EXCEPT !.locked = TRUE] \in Clocks
         /\ [c EXCEPT !.locked = TRUE].regs = c.regs /\ [c EXCEPT !.locked = TRUE].locked
         /\ [c EXCEPT !.locked = TRUE].on <=> c.on
BY DEF Clocks

LEMMA ClockTakes ==
  ASSUME clk \in Clocks, NEW b, NEW x, Take(b, x),
         x.chip = "SI5338A" /\ x.reg = "cfg" => x.at \in ClockRegs
  PROVE  /\ clk' \in Clocks
         /\ x.chip # "SI5338A" => clk' = clk
         /\ x.reg # "reset" => clk.regs \subseteq clk'.regs /\ (clk.locked => clk'.locked)
         /\ x.chip = "SI5338A" /\ x.reg = "cfg" => x.at \in clk'.regs
         /\ clk'.on /\ ~clk.on => x.chip = "SI5338A" /\ x.reg = "oeb" /\ x.val = 0
<1>1. clk' = IF x.chip # "SI5338A" THEN clk ELSE
             CASE x.reg = "reset"  -> [regs |-> {}, locked |-> FALSE, on |-> FALSE]
               [] x.reg = "oeb"    -> [clk EXCEPT !.on = (x.val = 0)]
               [] x.reg = "cfg"    -> [clk EXCEPT !.regs = @ \cup {x.at}]
               [] OTHER            -> clk
  BY Zenon DEF Take
<1>2. CASE x.chip # "SI5338A" \/ x.reg \notin {"reset", "oeb", "cfg"}
  <2>1. clk' = clk  BY <1>1, <1>2
  <2> QED  BY <1>2, <2>1
<1>3. CASE x.chip = "SI5338A" /\ x.reg = "reset"
  <2>1. clk' = [regs |-> {}, locked |-> FALSE, on |-> FALSE]  BY <1>1, <1>3
  <2>2. clk' \in Clocks /\ ~clk'.on  BY <2>1 DEF Clocks
  <2> QED  BY <1>3, <2>2
<1>4. CASE x.chip = "SI5338A" /\ x.reg = "oeb"
  <2>1. clk' = [clk EXCEPT !.on = (x.val = 0)]  BY <1>1, <1>4
  <2>2. PICK v \in BOOLEAN : v <=> x.val = 0  OBVIOUS
  <2>3. clk' = [clk EXCEPT !.on = v]  BY <2>1, <2>2, Zenon
  <2>4. /\ clk' \in Clocks /\ clk'.regs = clk.regs /\ (clk'.locked <=> clk.locked)
        /\ clk'.on <=> v
    BY <2>3, ClockValues DEF Clocks
  <2> QED  BY <1>4, <2>2, <2>4
<1>5. CASE x.chip = "SI5338A" /\ x.reg = "cfg"
  <2>1. clk' = [clk EXCEPT !.regs = @ \cup {x.at}]  BY <1>1, <1>5
  <2>2. /\ clk' \in Clocks /\ clk'.regs = clk.regs \cup {x.at}
        /\ clk'.locked <=> clk.locked
        /\ clk'.on <=> clk.on
    BY <1>5, <2>1, ClockValues
  <2> QED  BY <1>5, <2>2
<1> QED  BY <1>2, <1>3, <1>4, <1>5

-----------------------------------------------------------------------------
(* The invariant after a step of one thread on its bus, from what the step *)
(* does to the bus and to the thread itself: when the transfer is over,    *)
LEMMA OverKeeps ==
  ASSUME SysInv, NEW t \in Users, Running(t), NEW ok \in BOOLEAN, Over(t, ok),
         UNCHANGED <<cpsOut, stage>>, Held', faults' >= faults,
         \A b \in Buses \ {Cur(t).bus} : slave'[b] = slave[b] /\ cps'[b] = cps[b],
         Cur(t).name = "init_clk" \/ clk' = clk,
         SentBy(t)', ClockSentBy(t)'
  PROVE  SysInv'
<1>1. cpsOut \in [Buses -> Outs] /\ step \in [Users -> Steps]  BY DEF SysInv, ChipTypes
<1>2. /\ JobsOK' /\ Places'
      /\ \A u \in Users \ {t} : job'[u] = job[u]
  BY <1>1, OverJobs DEF SysInv
<1>3. /\ step' \in [Users -> Steps]
      /\ \A u \in Users \ {t} : step'[u] = step[u]
      /\ step'[t] \in {"none", "mux", "addr"}
      /\ step'[t] = "none" <=> ~Running(t)'
      /\ alone' \in [Users -> BOOLEAN]
      /\ \A u \in Users \ {t} :
           Running(u) /\ alone'[u] => alone[u] /\ Cur(u).bus # Cur(t).bus
      /\ \A u \in Users : Running(u)' /\ Cur(u)'.bus = "ob" => alone'[u]
  BY <1>1, OverSteps DEF SysInv
<1>4. Apart(t)
  BY <1>2, <1>3 DEF Apart, SysInv, ChipTypes, Held
<1>5. \A u \in Users \ {t} : TalksTo(u)' /\ SentBy(u)' /\ ClockSentBy(u)'
  BY <1>4, Others
<1>6. TalksTo(t)'  BY <1>3 DEF TalksTo
<1>7. OwnBus'  BY <1>3, <1>5, <1>6 DEF OwnBus
<1>8. MapSent' /\ ClockSent'  BY <1>5 DEF MapSent, ClockSent
<1>9. ChipTypes'
  <2>1. tries' = 0  BY Zenon DEF Over
  <2>2. \A u \in Users : step'[u] = "none" <=> ~Running(u)'
    <3> TAKE u \in Users
    <3>1. CASE u = t  BY <3>1, <1>3
    <3>2. CASE u # t
      <4>1. Running(u)' <=> Running(u)  BY <3>2, <1>2 DEF Running
      <4> QED  BY <4>1, <3>2, <1>3 DEF SysInv, ChipTypes
    <3> QED  BY <3>1, <3>2
  <2> QED  BY <1>1, <1>3, <2>1, <2>2 DEF ChipTypes
<1> QED  BY <1>2, <1>7, <1>8, <1>9 DEF SysInv

(* and when it goes on.                                                    *)
LEMMA GotoKeeps ==
  ASSUME SysInv, NEW t \in Users, Running(t), NEW s \in Steps \ {"none"}, Goto(t, s),
         UNCHANGED <<cpsOut, stage, cps, clk>>, Held', faults' >= faults,
         \A b \in Buses \ {Cur(t).bus} : slave'[b] = slave[b],
         alone[t] => /\ s = "sel" => slave'[Cur(t).bus] = "MUX"
                     /\ s \in {"xfer", "data"} => slave'[Cur(t).bus] = X(t).chip
  PROVE  SysInv'
<1>1. /\ cpsOut \in [Buses -> Outs] /\ step \in [Users -> Steps] /\ s \in Steps
      /\ faults \in Nat /\ faults' \in Nat
  BY DEF SysInv, ChipTypes, Held
<1>2. /\ job' = job /\ tries' = tries
      /\ step' \in [Users -> Steps] /\ step'[t] = s
      /\ \A u \in Users \ {t} : step'[u] = step[u]
      /\ alone' \in [Users -> BOOLEAN] /\ alone'[t] = alone[t]
      /\ \A u \in Users \ {t} :
           Running(u) /\ alone'[u] => alone[u] /\ Cur(u).bus # Cur(t).bus
      /\ \A u \in Users : Running(u) /\ Cur(u).bus = "ob" => alone'[u]
  BY <1>1, GotoSteps DEF SysInv
<1>3. /\ \A u : Running(u)' <=> Running(u)
      /\ \A u : Cur(u)' = Cur(u) /\ X(u)' = X(u)
  BY <1>2 DEF Running, Cur, X
<1>4. JobsOK' /\ Places'  BY <1>2 DEF SysInv, JobsOK, Places
<1>5. Apart(t)  BY <1>1, <1>2 DEF Apart
<1>6. \A u \in Users \ {t} : TalksTo(u)' /\ SentBy(u)' /\ ClockSentBy(u)'
  BY <1>5, Others
<1>7. TalksTo(t)'  BY <1>2, <1>3 DEF TalksTo
<1>8. SentBy(t)'  BY <1>2, <1>3 DEF SysInv, MapSent, SentBy
<1>9. ClockSentBy(t)'
  <2>1. faults > 0 => faults' > 0  BY <1>1
  <2> QED  BY <1>2, <1>3, <2>1 DEF SysInv, ClockSent, ClockSentBy
<1>10. OwnBus'  BY <1>2, <1>3, <1>6, <1>7 DEF OwnBus
<1>11. MapSent' /\ ClockSent'  BY <1>6, <1>8, <1>9 DEF MapSent, ClockSent
<1>12. ChipTypes'
  <2>1. \A u \in Users : step'[u] = "none" <=> ~Running(u)'
    BY <1>2, <1>3 DEF SysInv, ChipTypes
  <2>2. tries' \in Nat  BY <1>2 DEF SysInv, ChipTypes
  <2> QED  BY <1>1, <1>2, <2>1, <2>2 DEF ChipTypes
<1> QED  BY <1>4, <1>10, <1>11, <1>12 DEF SysInv

(* A transfer that is over and changed no chip.                            *)
LEMMA QuietKeeps ==
  ASSUME SysInv, NEW t \in Users, Running(t), NEW ok \in BOOLEAN, Over(t, ok),
         UNCHANGED <<cpsOut, stage, cps, clk, slave>>, Held', faults' >= faults,
         ok => X(t).op # "wr",
         ok /\ X(t) = Poll("SI5338A", "lock") => faults' > 0
  PROVE  SysInv'
<1>1. faults \in Nat /\ faults' \in Nat  BY DEF SysInv, ChipTypes, Held
<1>2. SentBy(t)'  BY QuietSent
<1>3. ClockSentBy(t)'  BY <1>1, QuietClock
<1> QED  BY <1>2, <1>3, OverKeeps

LEMMA ChannelTypes ==
  ASSUME NEW b, NEW c \in Chips
  PROVE  Channel(b, c) \in {0, 1, 2, 4, 8}
BY DEF Channel, Chips

(* What a thread's transfer is about.                                      *)
LEMMA AtTransfer ==
  ASSUME SysInv, NEW t \in Users, Running(t)
  PROVE  /\ X(t).chip \in Chips /\ Cur(t).bus \in Buses
         /\ X(t).op \in {"wr", "rd", "poll"}
         /\ X(t).op = "poll" \/ X(t).chip = "SI5338A" => Cur(t).name = "init_clk"
BY RoutineFacts DEF SysInv, ChipTypes, Held, Proper

LEMMA MuxAddressKeeps ==
  ASSUME SysInv, NEW t \in Users, MuxAddress(t)
  PROVE  SysInv'
<1>1. /\ Running(t) /\ slave' = [slave EXCEPT ![Cur(t).bus] = "MUX"] /\ Goto(t, "sel")
      /\ UNCHANGED <<still, id, mux, chip, faults>>
  BY DEF MuxAddress
<1>2. Cur(t).bus \in Buses  BY <1>1, AtTransfer
<1>3. Held /\ Held' /\ faults' >= faults
  BY <1>1, <1>2 DEF SysInv, ChipTypes, Held, still, unit, chip
<1>4. /\ \A b \in Buses \ {Cur(t).bus} : slave'[b] = slave[b]
      /\ slave'[Cur(t).bus] = "MUX"
  BY <1>1, <1>2, <1>3 DEF Held
<1>5. "sel" \in Steps \ {"none"}  BY DEF Steps
<1> QED  BY <1>1, <1>3, <1>4, <1>5, GotoKeeps DEF still, chip

LEMMA SelectedType ==
  ASSUME SysInv, NEW t \in Users, Running(t)
  PROVE  Selected(t) \in [Buses -> {0, 1, 2, 4, 8} \cup Strays]
<1>1. Channel(Cur(t).bus, X(t).chip) \in {0, 1, 2, 4, 8} /\ Cur(t).bus \in Buses
  BY AtTransfer, ChannelTypes
<1> QED  BY <1>1 DEF Selected, SysInv, ChipTypes, Held

LEMMA MuxSelectKeeps ==
  ASSUME SysInv, NEW t \in Users, MuxSelect(t)
  PROVE  SysInv'
<1>1. /\ Running(t) /\ mux' = Selected(t) /\ Goto(t, "addr")
      /\ UNCHANGED <<still, id, slave, chip, faults>>
  BY DEF MuxSelect, NoFault
<1>2. Held' /\ faults' >= faults
  BY <1>1, SelectedType DEF SysInv, ChipTypes, Held, still, unit, chip
<1>3. "addr" \in Steps \ {"none"}  BY DEF Steps
<1> QED  BY <1>1, <1>2, <1>3, GotoKeeps DEF still, chip

LEMMA MuxFailsKeeps ==
  ASSUME SysInv, NEW t \in Users, MuxFails(t)
  PROVE  SysInv'
<1>1. /\ Running(t) /\ UNCHANGED <<still, slave, chip>>
      /\ faults' = faults \/ faults' = faults + 1
      /\ \E m \in {mux, Selected(t)} : mux' \in {m, [m EXCEPT !["sl"] = 0]}
      /\ id' = IF X(t).reg = "id" THEN 0 ELSE id
  BY DEF MuxFails, Fault, NoFault
<1>2. Held' /\ faults' >= faults
  <2>1. \A m \in {mux, Selected(t)} : m \in [Buses -> {0, 1, 2, 4, 8} \cup Strays]
    BY <1>1, SelectedType DEF SysInv, ChipTypes, Held
  <2>2. mux' \in [Buses -> {0, 1, 2, 4, 8} \cup Strays]
    BY <1>1, <2>1
  <2> QED  BY <1>1, <2>2 DEF SysInv, ChipTypes, Held, still, unit, chip
<1>3. CASE Goto(t, "addr")
  <2>1. "addr" \in Steps \ {"none"}  BY DEF Steps
  <2> QED  BY <1>1, <1>2, <1>3, <2>1, GotoKeeps DEF still, chip
<1>4. CASE Over(t, FALSE)
  BY <1>1, <1>2, <1>4, QuietKeeps DEF still, chip
<1> QED  BY <1>3, <1>4 DEF MuxFails

LEMMA AddressKeeps ==
  ASSUME SysInv, NEW t \in Users, Address(t)
  PROVE  SysInv'
<1>1. /\ Running(t) /\ slave' = [slave EXCEPT ![Cur(t).bus] = X(t).chip] /\ Goto(t, "xfer")
      /\ UNCHANGED <<still, id, mux, chip, faults>>
  BY DEF Address
<1>2. Cur(t).bus \in Buses /\ X(t).chip \in Chips  BY <1>1, AtTransfer
<1>3. Held /\ Held' /\ faults' >= faults
  BY <1>1, <1>2 DEF SysInv, ChipTypes, Held, still, unit, chip
<1>4. /\ \A b \in Buses \ {Cur(t).bus} : slave'[b] = slave[b]
      /\ slave'[Cur(t).bus] = X(t).chip
  BY <1>1, <1>2, <1>3 DEF Held
<1>5. "xfer" \in Steps \ {"none"}  BY DEF Steps
<1> QED  BY <1>1, <1>3, <1>4, <1>5, GotoKeeps DEF still, chip

LEMMA WriteFailsKeeps ==
  ASSUME SysInv, NEW t \in Users, WriteFails(t)
  PROVE  SysInv'
<1>1. /\ Running(t) /\ Over(t, FALSE) /\ UNCHANGED <<still, id, mux, slave, chip>>
      /\ faults' = faults \/ faults' = faults + 1
  BY DEF WriteFails, Fault, NoFault
<1>2. Held' /\ faults' >= faults
  BY <1>1 DEF SysInv, ChipTypes, Held, still, unit, chip
<1> QED  BY <1>1, <1>2, QuietKeeps DEF still, chip

(* The clock is on the on-board bus itself: a step of its transfers that   *)
(* fails there is a fault.                                                 *)
LEMMA ClockAnswers ==
  ASSUME SysInv, NEW t \in Users, Running(t), Cur(t).name = "init_clk",
         step[t] \in {"xfer", "data"}
  PROVE  Answers(Cur(t).bus, slave[Cur(t).bus])
<1>1. Cur(t).bus = "ob" /\ X(t).chip = "SI5338A" /\ alone[t]  BY ClkAt, Zenon
<1>2. slave[Cur(t).bus] = X(t).chip  BY <1>1, Zenon DEF SysInv, OwnBus, TalksTo
<1> QED  BY <1>1, <1>2 DEF Answers, Plugged, Channel

LEMMA OffsetKeeps ==
  ASSUME SysInv, NEW t \in Users, Offset(t)
  PROVE  SysInv'
<1>1. /\ Running(t) /\ X(t).op # "wr" /\ step[t] = "xfer"
      /\ UNCHANGED <<still, mux, slave, chip>>
  BY DEF Offset
<1>2. CASE NoFault /\ Goto(t, "data") /\ UNCHANGED id
  <2>1. Held' /\ faults' >= faults
    BY <1>1, <1>2 DEF SysInv, ChipTypes, Held, still, unit, chip, NoFault
  <2>2. "data" \in Steps \ {"none"}  BY DEF Steps
  <2>3. alone[t] => slave'[Cur(t).bus] = X(t).chip
    BY <1>1 DEF SysInv, OwnBus, TalksTo
  <2> QED  BY <1>1, <1>2, <2>1, <2>2, <2>3, GotoKeeps DEF still, chip
<1>3. CASE /\ IF Answers(Cur(t).bus, slave[Cur(t).bus]) THEN Fault ELSE NoFault
           /\ Over(t, X(t).op = "poll")
           /\ id' = IF X(t).reg = "id" THEN 0 ELSE id
  <2>1. PICK ok \in BOOLEAN : ok <=> X(t).op = "poll"  OBVIOUS
  <2>2. Over(t, ok)
    <3>1. CASE X(t).op = "poll"
      <4>1. Over(t, TRUE)  BY <1>3, <3>1, Zenon
      <4> QED  BY <2>1, <3>1, <4>1, Zenon
    <3>2. CASE X(t).op # "poll"
      <4>1. Over(t, FALSE)  BY <1>3, <3>2, Zenon
      <4> QED  BY <2>1, <3>2, <4>1, Zenon
    <3> QED  BY <3>1, <3>2
  <2>3. Held' /\ faults' >= faults
    BY <1>1, <1>3 DEF SysInv, ChipTypes, Held, still, unit, chip, Fault, NoFault
  <2>4. ok => X(t).op # "wr"  BY <1>1
  <2>5. ok => faults' > 0
    <3> SUFFICES ASSUME X(t).op = "poll" PROVE faults' > 0  BY <2>1
    <3>1. Cur(t).name = "init_clk"  BY <1>1, AtTransfer
    <3>2. Fault  BY <1>1, <1>3, <3>1, ClockAnswers
    <3> QED  BY <3>2 DEF Fault, SysInv, ChipTypes, Held
  <2> QED  BY <1>1, <2>2, <2>3, <2>4, <2>5, QuietKeeps DEF still, chip
<1> QED  BY <1>2, <1>3 DEF Offset

LEMMA ReadKeeps ==
  ASSUME SysInv, NEW t \in Users, Read(t)
  PROVE  SysInv'
<1>1. /\ Running(t) /\ X(t).op = "rd" /\ UNCHANGED <<still, mux, slave, chip>>
      /\ faults' = faults \/ faults' = faults + 1
      /\ \E n \in 0..2 : id' = IF X(t).reg = "id" THEN n ELSE id
      /\ Over(t, TRUE) \/ Over(t, X(t).reg # "test")
  BY DEF Read, Fault, NoFault
<1>2. \E ok \in BOOLEAN : Over(t, ok)
  <2>1. CASE Over(t, TRUE)  BY <2>1, Zenon
  <2>2. CASE Over(t, X(t).reg # "test")
    <3>1. CASE X(t).reg = "test"
      <4>1. Over(t, FALSE)  BY <2>2, <3>1, Zenon
      <4> QED  BY <4>1, Zenon
    <3>2. CASE X(t).reg # "test"
      <4>1. Over(t, TRUE)  BY <2>2, <3>2, Zenon
      <4> QED  BY <4>1, Zenon
    <3> QED  BY <3>1, <3>2
  <2> QED  BY <1>1, <2>1, <2>2
<1>3. PICK ok \in BOOLEAN : Over(t, ok)  BY <1>2
<1>4. Held' /\ faults' >= faults
  BY <1>1 DEF SysInv, ChipTypes, Held, still, unit, chip
<1>5. X(t) # Poll("SI5338A", "lock")  BY <1>1, Fields DEF Poll
<1> QED  BY <1>1, <1>3, <1>4, <1>5, QuietKeeps DEF still, chip

LEMMA PollClockKeeps ==
  ASSUME SysInv, NEW t \in Users, PollClock(t)
  PROVE  SysInv'
<1>1. /\ Running(t) /\ X(t).op = "poll" /\ step[t] = "data"
      /\ UNCHANGED <<still, id, mux, slave, cps>>
  BY DEF PollClock
<1>2. Cur(t).name = "init_clk" /\ Cur(t).bus = "ob" /\ alone[t]
  BY <1>1, AtTransfer, ClkAt, Zenon
<1>3. CASE /\ NoFault
           /\ clk' = IF X(t).reg = "lock" THEN [clk EXCEPT !.locked = TRUE] ELSE clk
           /\ Over(t, TRUE)
  <2>1. /\ clk' \in Clocks /\ clk'.regs = clk.regs /\ (clk.locked => clk'.locked)
        /\ X(t).reg = "lock" => clk'.locked
    <3>1. clk \in Clocks  BY DEF SysInv, ChipTypes, Held
    <3>2. CASE X(t).reg = "lock"
      <4> DEFINE c == [clk EXCEPT !.locked = TRUE]
      <4>1. clk' = c  BY <1>3, <3>2
      <4>2. c \in Clocks /\ c.regs = clk.regs /\ c.locked  BY <3>1 DEF Clocks
      <4> HIDE DEF c
      <4> QED  BY <4>1, <4>2
    <3>3. CASE X(t).reg # "lock"
      <4>1. clk' = clk  BY <1>3, <3>3
      <4> QED  BY <3>1, <3>3, <4>1
    <3> QED  BY <3>2, <3>3
  <2>2. Held' /\ faults' >= faults /\ faults \in Nat /\ faults' \in Nat
    BY <1>1, <1>3, <2>1 DEF SysInv, ChipTypes, Held, still, unit, NoFault
  <2>3. X(t) = Poll("SI5338A", "lock") => X(t).reg = "lock"  BY Fields DEF Poll
  <2>4. SentBy(t)'  BY <1>1, <1>3, QuietSent DEF still
  <2>5. ClockSentBy(t)'  BY <1>1, <1>3, <2>1, <2>2, <2>3, QuietClock DEF still
  <2> QED  BY <1>1, <1>2, <1>3, <2>2, <2>4, <2>5, OverKeeps DEF still
<1>4. CASE Fault /\ Over(t, TRUE) /\ UNCHANGED clk
  <2>1. Held' /\ faults' >= faults /\ faults' > 0
    BY <1>1, <1>4 DEF SysInv, ChipTypes, Held, still, unit, Fault
  <2> QED  BY <1>1, <1>4, <2>1, QuietKeeps DEF still
<1>5. CASE NoFault /\ Over(t, FALSE) /\ UNCHANGED clk
  <2>1. Held' /\ faults' >= faults
    BY <1>1, <1>5 DEF SysInv, ChipTypes, Held, still, unit, NoFault
  <2> QED  BY <1>1, <1>5, <2>1, QuietKeeps DEF still
<1>6. CASE /\ NoFault /\ tries' = tries + 1 /\ step' = [step EXCEPT ![t] = "addr"]
           /\ UNCHANGED <<job, alone, clk>>
  <2>1. Held'
    BY <1>1, <1>6 DEF SysInv, ChipTypes, Held, still, unit, NoFault
  <2>2. /\ \A u : Running(u)' <=> Running(u)
        /\ \A u : Cur(u)' = Cur(u) /\ X(u)' = X(u)
    BY <1>6 DEF Running, Cur, X
  <2>3. JobsOK' /\ Places'  BY <1>1, <1>6 DEF SysInv, JobsOK, Places, still
  <2>4. /\ step' \in [Users -> Steps] /\ step'[t] = "addr"
        /\ \A u \in Users \ {t} : step'[u] = step[u]
    BY <1>6 DEF SysInv, ChipTypes, Steps
  <2>5. \A u \in Users : TalksTo(u)'
    <3> TAKE u \in Users
    <3>1. CASE u = t  BY <3>1, <2>4 DEF TalksTo
    <3>2. CASE u # t  BY <3>2, <1>1, <1>6, <2>2, <2>4 DEF TalksTo, SysInv, OwnBus
    <3> QED  BY <3>1, <3>2
  <2>6. OwnBus'  BY <1>6, <2>2, <2>5 DEF SysInv, OwnBus
  <2>7. MapSent'  BY <1>1, <1>6, <2>2 DEF SysInv, MapSent, SentBy, still
  <2>8. ClockSent'  BY <1>6, <2>2 DEF SysInv, ClockSent, ClockSentBy, NoFault
  <2>9. ChipTypes'
    <3>1. \A u \in Users : step'[u] = "none" <=> ~Running(u)'
      BY <1>1, <2>2, <2>4 DEF SysInv, ChipTypes
    <3> QED  BY <1>1, <1>6, <2>1, <2>4, <3>1 DEF SysInv, ChipTypes, still
  <2> QED  BY <2>3, <2>6, <2>7, <2>8, <2>9 DEF SysInv
<1> QED  BY <1>3, <1>4, <1>5, <1>6 DEF PollClock

(* A write that is taken.                                                  *)
LEMMA WriteFacts ==
  ASSUME SysInv, NEW t \in Users, Write(t)
  PROVE  /\ Running(t) /\ X(t).op = "wr" /\ Over(t, TRUE) /\ Cur(t).bus \in Buses
         /\ UNCHANGED <<still, id, slave, faults>>
         /\ slave[Cur(t).bus] = X(t).chip => Take(Cur(t).bus, X(t))
         /\ slave[Cur(t).bus] # X(t).chip => UNCHANGED chip
         /\ alone[t] => slave[Cur(t).bus] = X(t).chip
         /\ mux' \in [Buses -> {0, 1, 2, 4, 8} \cup Strays]
<1>1. /\ Running(t) /\ X(t).op = "wr" /\ step[t] = "xfer" /\ Over(t, TRUE)
      /\ UNCHANGED <<still, id, slave, faults>>
      /\ slave[Cur(t).bus] = X(t).chip => Take(Cur(t).bus, X(t))
      /\ slave[Cur(t).bus] # X(t).chip => UNCHANGED chip
      /\ IF slave[Cur(t).bus] = "MUX" THEN mux' \in {[mux EXCEPT ![Cur(t).bus] = ch] : ch \in Strays}
                                      ELSE UNCHANGED mux
  BY DEF Write, NoFault
<1>2. alone[t] => slave[Cur(t).bus] = X(t).chip  BY <1>1 DEF SysInv, OwnBus, TalksTo
<1>3. mux \in [Buses -> {0, 1, 2, 4, 8} \cup Strays]  BY DEF SysInv, ChipTypes, Held
<1>4. mux' \in [Buses -> {0, 1, 2, 4, 8} \cup Strays]
  BY <1>1, <1>3
<1> QED  BY <1>1, <1>2, <1>4, AtTransfer

LEMMA WriteSwitch ==
  ASSUME SysInv, NEW t \in Users, Write(t)
  PROVE  LET b == Cur(t).bus  x == X(t) IN
         /\ cps' \in [Buses -> Switches]
         /\ \A c \in Buses \ {b} : cps'[c] = cps[c]
         /\ x.chip # "ADN4604" => cps' = cps
         /\ slave[b] # x.chip => cps' = cps
         /\ x.chip = "ADN4604" /\ slave[b] = x.chip =>
              /\ x.reg = "reset" => cps'[b].map = Reset /\ cps'[b].on = Reset
              /\ x.reg = "update" => cps'[b].map = cps[b].map /\ cps'[b].on = cps[b].map
              /\ x.reg = "map" =>
                   cps'[b].map = [cps[b].map EXCEPT ![x.at] = x.val] /\ cps'[b].on = cps[b].on
              /\ x.reg \notin {"reset", "update", "map"} => cps' = cps
<1> DEFINE b == Cur(t).bus
           x == X(t)
<1>1. cps \in [Buses -> Switches]  BY DEF SysInv, ChipTypes, Held
<1>2. b \in Buses /\ Running(t)  BY WriteFacts
<1>3. Proper(Cur(t).name, x)  BY <1>2, RoutineFacts DEF SysInv, ChipTypes, Held
<1>4. x.chip = "ADN4604" /\ x.reg = "map" => x.at \in Bytes /\ x.val \in Vals
  BY <1>3 DEF Proper
<1>5. CASE slave[b] # x.chip
  BY <1>1, <1>5, WriteFacts DEF chip
<1>6. CASE slave[b] = x.chip
  <2>1. Take(b, x)  BY <1>6, WriteFacts
  <2> HIDE DEF b, x
  <2>2. /\ cps' \in [Buses -> Switches]
        /\ \A c \in Buses \ {b} : cps'[c] = cps[c]
        /\ x.chip # "ADN4604" => cps' = cps
        /\ x.chip = "ADN4604" =>
             /\ x.reg = "reset" => cps'[b].map = Reset /\ cps'[b].on = Reset
             /\ x.reg = "update" => cps'[b].map = cps[b].map /\ cps'[b].on = cps[b].map
             /\ x.reg = "map" =>
                  cps'[b].map = [cps[b].map EXCEPT ![x.at] = x.val] /\ cps'[b].on = cps[b].on
             /\ x.reg \notin {"reset", "update", "map"} => cps' = cps
    BY <1>1, <1>2, <1>4, <2>1, SwitchTakes
  <2> QED  BY <1>6, <2>2 DEF b, x
<1> QED  BY <1>5, <1>6

LEMMA WriteClock ==
  ASSUME SysInv, NEW t \in Users, Write(t)
  PROVE  LET x == X(t) IN
         /\ clk' \in Clocks
         /\ Cur(t).name # "init_clk" => clk' = clk
         /\ x.reg # "reset" => clk.regs \subseteq clk'.regs /\ (clk.locked => clk'.locked)
         /\ Cur(t).name = "init_clk" /\ x.reg = "cfg" => x.at \in clk'.regs
         /\ clk'.on /\ ~clk.on => Cur(t).name = "init_clk" /\ x.reg = "oeb" /\ x.val = 0
<1> DEFINE b == Cur(t).bus
           x == X(t)
<1>1. clk \in Clocks /\ Running(t)  BY WriteFacts DEF SysInv, ChipTypes, Held
<1>2. x.chip = "SI5338A" <=> Cur(t).name = "init_clk"
  BY <1>1, RoutineFacts DEF SysInv, ChipTypes, Held, Proper
<1>3. x.chip = "SI5338A" /\ x.reg = "cfg" => x.at \in ClockRegs
  BY <1>1, RoutineFacts DEF SysInv, ChipTypes, Held, Proper
<1>4. CASE slave[b] # x.chip
  <2>1. clk' = clk  BY <1>4, WriteFacts DEF chip
  <2>2. Cur(t).name # "init_clk"
    BY <1>1, <1>4, WriteFacts, ClkAt, Zenon
  <2> QED  BY <1>1, <2>1, <2>2
<1>5. CASE slave[b] = x.chip
  <2>1. Take(b, x)  BY <1>5, WriteFacts
  <2> HIDE DEF b, x
  <2>2. /\ clk' \in Clocks
        /\ x.chip # "SI5338A" => clk' = clk
        /\ x.reg # "reset" => clk.regs \subseteq clk'.regs /\ (clk.locked => clk'.locked)
        /\ x.chip = "SI5338A" /\ x.reg = "cfg" => x.at \in clk'.regs
        /\ clk'.on /\ ~clk.on => x.chip = "SI5338A" /\ x.reg = "oeb" /\ x.val = 0
    BY <1>1, <1>3, <2>1, ClockTakes
  <2> QED  BY <1>2, <2>2 DEF x
<1> QED  BY <1>4, <1>5

LEMMA WriteSent ==
  ASSUME SysInv, NEW t \in Users, Write(t)
  PROVE  SentBy(t)'
<1> DEFINE n == Cur(t).next
           b == Cur(t).bus
           x == X(t)
<1>1. NumBytes \in Nat  BY SizesAssumption
<1>2. /\ SentBy(t) /\ cpsOut' = cpsOut /\ stage' = stage /\ cps \in [Buses -> Switches]
      /\ cpsOut \in [Buses -> Outs] /\ b \in Buses /\ Running(t)
  BY WriteFacts DEF SysInv, MapSent, ChipTypes, Held, still
<1>3. CASE Running(t)' => Cur(t)'.next = 1  BY <1>3, Begun
<1>4. ASSUME Running(t)', Cur(t)'.next # 1, alone'[t] PROVE SentBy(t)'
  <2>1. /\ Cur(t)'.next = n + 1 /\ Cur(t)'.name = Cur(t).name
        /\ Cur(t)'.bus = b /\ alone[t]
    BY <1>2, <1>4, WriteFacts, OverJobs DEF SysInv
  <2>2. slave[b] = x.chip /\ x.op = "wr"  BY <2>1, WriteFacts
  <2>3. x.chip = "ADN4604" =>
          /\ x.reg = "reset" => cps'[b].map = Reset /\ cps'[b].on = Reset
          /\ x.reg = "update" => cps'[b].map = cps[b].map /\ cps'[b].on = cps[b].map
          /\ x.reg = "map" =>
               cps'[b].map = [cps[b].map EXCEPT ![x.at] = x.val] /\ cps'[b].on = cps[b].on
          /\ x.reg \notin {"reset", "update", "map"} => cps' = cps
    BY <2>2, WriteSwitch
  <2>4. CASE Cur(t).name = "set_cpsConfig"
    <3>1. n \in Nat /\ n > 0 /\ n <= NumBytes + 3  BY <1>2, <2>4, CpsAt
    <3>2. \A k \in Bytes : k < n => cps[b].map[k] = cpsOut[b][k]
      BY <1>2, <2>1, <2>4 DEF SentBy
    <3>3. CASE n \in Bytes
      <4>1. x = WrMap(n, cpsOut[b][n])  BY <1>2, <2>4, <3>3, CpsAt
      <4>2. x.chip = "ADN4604" /\ x.reg = "map" /\ x.at = n /\ x.val = cpsOut[b][n]
        BY <4>1, FieldsAt
      <4>3. cps'[b].map = [cps[b].map EXCEPT ![n] = cpsOut[b][n]]  BY <2>3, <4>2
      <4>4. cps[b].map \in Outs  BY <1>2 DEF Switches
      <4> HIDE DEF n, b, x
      <4>5. ASSUME NEW k \in Bytes, k < n + 1 PROVE cps'[b].map[k] = cpsOut[b][k]
        <5>1. k = n \/ k < n  BY <1>1, <3>1, <4>5 DEF Bytes
        <5> QED  BY <5>1, <3>2, <3>3, <4>3, <4>4 DEF Outs
      <4>6. n + 1 # NumBytes + 3  BY <1>1, <3>3 DEF Bytes
      <4> QED  BY <1>2, <2>1, <2>4, <4>5, <4>6 DEF SentBy
    <3>4. CASE n = NumBytes + 1
      <4>1. x = Wr("ADN4604", "en", 1)  BY <1>2, <2>4, <3>4, CpsAt
      <4>2. x.chip = "ADN4604" /\ x.reg = "en"  BY <4>1, Fields DEF Wr
      <4>3. cps' = cps  BY <2>3, <4>2
      <4>4. \A k \in Bytes : k < n  BY <1>1, <3>4 DEF Bytes
      <4>5. n + 1 # NumBytes + 3  BY <1>1, <3>4
      <4> HIDE DEF n, b, x
      <4> QED  BY <1>2, <2>1, <2>4, <3>2, <4>3, <4>4, <4>5 DEF SentBy
    <3>5. CASE n = NumBytes + 2
      <4>1. x = Wr("ADN4604", "update", 1)  BY <1>2, <2>4, <3>5, CpsAt
      <4>2. x.chip = "ADN4604" /\ x.reg = "update"  BY <4>1, Fields DEF Wr
      <4>3. cps'[b].map = cps[b].map /\ cps'[b].on = cps[b].map  BY <2>3, <4>2
      <4>4. \A k \in Bytes : k < n  BY <1>1, <3>5 DEF Bytes
      <4>5. cps[b].map \in Outs /\ cpsOut[b] \in Outs  BY <1>2 DEF Switches
      <4> HIDE DEF n, b, x
      <4>6. cps[b].map = cpsOut[b]
        BY <3>2, <4>4, <4>5 DEF Outs
      <4> QED  BY <1>2, <2>1, <2>4, <4>3, <4>6 DEF SentBy
    <3>6. n # NumBytes + 3
      <4> SUFFICES ASSUME n = NumBytes + 3 PROVE FALSE  OBVIOUS
      <4>1. x = Try(Rd("ADN4604", "check"))  BY <1>2, <2>4, CpsAt
      <4> QED  BY <2>2, <4>1, Fields DEF Rd
    <3> QED  BY <1>1, <3>1, <3>3, <3>4, <3>5, <3>6 DEF Bytes
  <2>5. CASE Cur(t).name = "init_cps"
    <3>1. /\ n \in {1, 2, 3, 4}
          /\ n = 1 => x = Wr("ADN4604", "reset", 1)
          /\ n = 2 => x = Wr("ADN4604", "mapsel", 0)
          /\ n = 3 => x = Wr("ADN4604", "term", 0)
          /\ n = 4 => x = Wr("ADN4604", "update", 1)
      BY <1>2, <2>5, InitAt
    <3>2. n > 1 => cps[b].map = Reset  BY <1>2, <2>1, <2>5 DEF SentBy
    <3>3. /\ x.chip = "ADN4604"
          /\ n = 1 => x.reg = "reset"
          /\ n \in {2, 3} => x.reg \in {"mapsel", "term"}
          /\ n = 4 => x.reg = "update"
      <4> HIDE DEF n, x
      <4> QED  BY <3>1, Fields DEF Wr
    <3>4. cps'[b].map = Reset
      <4> HIDE DEF n, x, b
      <4> QED  BY <2>3, <3>1, <3>2, <3>3
    <3> QED  BY <2>1, <2>5, <3>4 DEF SentBy
  <2>6. CASE Cur(t).name \notin {"set_cpsConfig", "init_cps"}
    BY <2>1, <2>6 DEF SentBy
  <2> QED  BY <2>4, <2>5, <2>6
<1> QED  BY <1>3, <1>4 DEF SentBy

LEMMA WriteClockSent ==
  ASSUME SysInv, NEW t \in Users, Write(t)
  PROVE  ClockSentBy(t)'
<1>1. NumRegs \in Nat  BY SizesAssumption
<1>2. /\ ClockSentBy(t) /\ cpsOut \in [Buses -> Outs] /\ cpsOut' = cpsOut /\ stage' = stage
      /\ Running(t) /\ faults' = faults
  BY WriteFacts DEF SysInv, ClockSent, ChipTypes, still
<1>3. CASE Running(t)' => Cur(t)'.next = 1  BY <1>3, Begun
<1>4. ASSUME Running(t)', Cur(t)'.next # 1, Cur(t)'.name = "init_clk" PROVE ClockSentBy(t)'
  <2> DEFINE n == Cur(t).next
             x == X(t)
  <2>1. Cur(t)'.next = n + 1 /\ Cur(t).name = "init_clk"
    BY <1>2, <1>4, WriteFacts, OverJobs DEF SysInv
  <2>2. /\ n \in Nat /\ n > 0
        /\ x.reg = "reset" => n = 2
        /\ \A k \in ClockRegs : n = 3 + 2 * k => x = WrCfg(k)
        /\ n = 2 * NumRegs + 6 => x = Poll("SI5338A", "lock")
    BY <1>2, <2>1, ClkAt
  <2>3. /\ x.reg # "reset" => clk.regs \subseteq clk'.regs /\ (clk.locked => clk'.locked)
        /\ x.reg = "cfg" => x.at \in clk'.regs
        /\ x.op = "wr"
    BY <2>1, WriteClock, WriteFacts
  <2>4. /\ \A k \in ClockRegs : 3 + 2 * k < n => k \in clk.regs
        /\ n > 2 * NumRegs + 6 => clk.locked \/ faults > 0
    BY <1>2, <2>1 DEF ClockSentBy
  <2> HIDE DEF n, x
  <2>5. CASE n = 2
    <3>1. \A k \in ClockRegs : ~(3 + 2 * k < n + 1)  BY <1>1, <2>5 DEF ClockRegs
    <3>2. ~(n + 1 > 2 * NumRegs + 6)  BY <1>1, <2>5
    <3> QED  BY <2>1, <3>1, <3>2 DEF ClockSentBy
  <2>6. CASE n # 2
    <3>1. clk.regs \subseteq clk'.regs /\ (clk.locked => clk'.locked)  BY <2>2, <2>3, <2>6
    <3>2. ASSUME NEW k \in ClockRegs, 3 + 2 * k < n + 1 PROVE k \in clk'.regs
      <4>1. CASE n = 3 + 2 * k
        <5>1. x = WrCfg(k)  BY <2>2, <4>1
        <5> QED  BY <2>3, <5>1, FieldsAt
      <4>2. CASE n # 3 + 2 * k
        <5>1. 3 + 2 * k < n  BY <1>1, <2>2, <3>2, <4>2 DEF ClockRegs
        <5> QED  BY <2>4, <3>1, <5>1
      <4> QED  BY <4>1, <4>2
    <3>3. n # 2 * NumRegs + 6
      <4> SUFFICES ASSUME n = 2 * NumRegs + 6 PROVE FALSE  OBVIOUS
      <4>1. x = Poll("SI5338A", "lock")  BY <2>2
      <4> QED  BY <2>3, <4>1, Fields DEF Poll
    <3>4. n + 1 > 2 * NumRegs + 6 => clk'.locked \/ faults' > 0
      <4>1. n + 1 > 2 * NumRegs + 6 => n > 2 * NumRegs + 6  BY <1>1, <2>2, <3>3
      <4> QED  BY <1>2, <2>4, <3>1, <4>1
    <3> QED  BY <2>1, <3>2, <3>4 DEF ClockSentBy
  <2> QED  BY <2>5, <2>6
<1> QED  BY <1>3, <1>4 DEF ClockSentBy

LEMMA WriteKeeps ==
  ASSUME SysInv, NEW t \in Users, Write(t)
  PROVE  SysInv'
<1>1. /\ Running(t) /\ Over(t, TRUE) /\ UNCHANGED <<still, id, slave, faults>>
      /\ mux' \in [Buses -> {0, 1, 2, 4, 8} \cup Strays]
  BY WriteFacts
<1>2. /\ cps' \in [Buses -> Switches] /\ \A b \in Buses \ {Cur(t).bus} : cps'[b] = cps[b]
  BY WriteSwitch
<1>3. clk' \in Clocks /\ (Cur(t).name = "init_clk" \/ clk' = clk)
  BY WriteClock
<1>4. Held' /\ faults' >= faults
  BY <1>1, <1>2, <1>3 DEF SysInv, ChipTypes, Held, still, unit
<1>5. SentBy(t)' /\ ClockSentBy(t)'  BY WriteSent, WriteClockSent
<1> QED  BY <1>1, <1>2, <1>3, <1>4, <1>5, OverKeeps DEF still

-----------------------------------------------------------------------------
(* Routines as they are made, ...                                          *)
Made(t, out) ==
  {r \in Routines : /\ r.todo = Script(r.name, out[r.bus]) /\ r.next = 1
                    /\ r.name = "init_clk" => t = "main" /\ r.bus = "ob"}

LEMMA Makes ==
  ASSUME NEW t \in Users, NEW out \in [Buses -> Outs], NEW n \in Names, NEW b \in Buses, NEW r,
         r = Routine(n, b, Script(n, out[b])),
         n = "init_clk" => t = "main" /\ b = "ob"
  PROVE  r \in Made(t, out) /\ r.name = n /\ r.bus = b
<1>1. r = [name |-> n, bus |-> b, todo |-> Script(n, out[b]), next |-> 1]
  BY DEF Routine
<1>2. Script(n, out[b]) \in {Script(m, o) : m \in Names, o \in Outs}
  <2>1. out[b] \in Outs  OBVIOUS
  <2> QED  BY <2>1
<1>3. r.name = n /\ r.bus = b /\ r.todo = Script(n, out[b]) /\ r.next = 1
  BY <1>1
<1>4. r \in Routines  BY <1>1, <1>2 DEF Routines
<1> QED  BY <1>3, <1>4 DEF Made

LEMMA RoutinesMade ==
  ASSUME NEW t \in Users, NEW out \in [Buses -> Outs], NEW b \in Buses
  PROVE  /\ t = "main" => init_clk \in Made(t, out)
         /\ get_slaveBoardID \in Made(t, out)
         /\ set_slaveIO \in Made(t, out)
         /\ get_slaveTemp \in Made(t, out) /\ OfRound(get_slaveTemp)
         /\ init_cps(b) \in Made(t, out)
         /\ init_cps(b).name = "init_cps" /\ init_cps(b).bus = b
         /\ set_cpsConfig(b, out[b]) \in Made(t, out) /\ OfRecord(set_cpsConfig(b, out[b]))
<1>1. "ob" \in Buses /\ "sl" \in Buses  BY DEF Buses
<1>2. ASSUME t = "main" PROVE init_clk \in Made(t, out)
  <2>1. init_clk = Routine("init_clk", "ob", Script("init_clk", out["ob"]))
    BY Zenon DEF init_clk, Script, Routine
  <2> QED  BY <1>1, <1>2, <2>1, Makes DEF Names
<1>3. get_slaveBoardID \in Made(t, out)
  <2>1. get_slaveBoardID = Routine("get_slaveBoardID", "sl", Script("get_slaveBoardID", out["sl"]))
    BY Zenon DEF get_slaveBoardID, Script, Routine
  <2> QED  BY <1>1, <2>1, Makes DEF Names
<1>4. set_slaveIO \in Made(t, out)
  <2>1. set_slaveIO = Routine("set_slaveIO", "sl", Script("set_slaveIO", out["sl"]))
    BY Zenon DEF set_slaveIO, Script, Routine
  <2> QED  BY <1>1, <2>1, Makes DEF Names
<1>5. get_slaveTemp \in Made(t, out) /\ OfRound(get_slaveTemp)
  <2>1. get_slaveTemp = Routine("get_slaveTemp", "sl", Script("get_slaveTemp", out["sl"]))
    BY Zenon DEF get_slaveTemp, Script, Routine
  <2> QED  BY <1>1, <2>1, Makes DEF Names, OfRound
<1>6. init_cps(b) \in Made(t, out) /\ init_cps(b).name = "init_cps" /\ init_cps(b).bus = b
  <2>1. init_cps(b) = Routine("init_cps", b, Script("init_cps", out[b]))
    BY Zenon DEF init_cps, Script, Routine
  <2> QED  BY <2>1, Makes DEF Names
<1>7. set_cpsConfig(b, out[b]) \in Made(t, out) /\ OfRecord(set_cpsConfig(b, out[b]))
  <2>1. set_cpsConfig(b, out[b]) = Routine("set_cpsConfig", b, Script("set_cpsConfig", out[b]))
    BY Zenon DEF set_cpsConfig, Script, Routine
  <2> QED  BY <2>1, Makes DEF Names, OfRecord
<1> QED  BY <1>2, <1>3, <1>4, <1>5, <1>6, <1>7

LEMMA MadeQueue ==
  ASSUME NEW t \in Users, NEW out \in [Buses -> Outs], NEW j \in Seq(Made(t, out))
  PROVE  /\ j \in Seq(Routines) /\ Queued(t, j, out)
         /\ j # <<>> => Head(j) \in Made(t, out) /\ 1 \in 1..Len(j) /\ Head(j) = j[1]
<1>1. Made(t, out) \subseteq Routines  BY DEF Made
<1>2. \A i \in 1..Len(j) : j[i] \in Made(t, out)  BY ElementOfSeq
<1>3. j \in Seq(Routines)  BY <1>1, <1>2
<1>4. Queued(t, j, out)
  <2> SUFFICES ASSUME NEW i \in 1..Len(j)
               PROVE  /\ j[i].todo = Script(j[i].name, out[j[i].bus])
                      /\ j[i].next \in 1..Len(j[i].todo)
                      /\ i > 1 => j[i].next = 1
                      /\ j[i].name = "init_clk" => t = "main" /\ j[i].bus = "ob"
    BY DEF Queued
  <2>1. j[i] \in Made(t, out)  BY <1>2
  <2>2. /\ j[i].name \in Names /\ j[i].bus \in Buses
        /\ j[i].todo = Script(j[i].name, out[j[i].bus]) /\ j[i].next = 1
        /\ j[i].name = "init_clk" => t = "main" /\ j[i].bus = "ob"
    BY <2>1 DEF Made, Routines
  <2>3. out[j[i].bus] \in Outs  BY <2>2
  <2>4. Len(j[i].todo) \in Nat /\ Len(j[i].todo) > 0  BY <2>2, <2>3, ScriptProper
  <2> QED  BY <2>2, <2>4
<1>5. j # <<>> => Head(j) = j[1] /\ 1 \in 1..Len(j)  BY <1>3, Advanced
<1> QED  BY <1>2, <1>3, <1>4, <1>5

(* ... and given to a thread that has none.                                *)
LEMMA AssignKeeps ==
  ASSUME SysInv, NEW t \in Users, ~Running(t), cpsOut' \in [Buses -> Outs],
         NEW j \in Seq(Made(t, cpsOut')), Assign(t, j), Held', faults' = faults,
         UNCHANGED <<slave, chip>>, Places',
         cpsOut' = cpsOut \/ \A u \in Users \ {t} : ~Running(u),
         j # <<>> /\ Head(j).bus = "ob" => \A u \in Users \ {t} : Running(u) => Cur(u).bus # "ob"
  PROVE  SysInv'
<1>1. /\ j \in Seq(Routines) /\ Queued(t, j, cpsOut')
      /\ j # <<>> => Head(j) \in Made(t, cpsOut')
  BY MadeQueue
<1>2. /\ job' = [job EXCEPT ![t] = j] /\ step' = [step EXCEPT ![t] = StepOf(j)] /\ tries' = 0
      /\ alone' = [alone EXCEPT ![t] =
                     \A u \in Users \ {t} : Running(u) /\ j # <<>> => Cur(u).bus # Head(j).bus]
  BY Zenon DEF Assign
<1>3. /\ job \in [Users -> Seq(Routines)] /\ \A u \in Users : Queued(u, job[u], cpsOut)
      /\ step \in [Users -> Steps] /\ \A u \in Users : step[u] = "none" <=> ~Running(u)
  BY DEF SysInv, JobsOK, ChipTypes
<1>4. StepOf(j) \in {"none", "mux", "addr"} /\ (StepOf(j) = "none" <=> j = <<>>)
  BY DEF StepOf, First
<1>5. /\ job'[t] = j /\ step'[t] = StepOf(j) /\ step' \in [Users -> Steps]
      /\ \A u \in Users \ {t} : job'[u] = job[u] /\ step'[u] = step[u]
  BY <1>2, <1>3, <1>4 DEF Steps
<1>6. /\ \A u \in Users \ {t} : Running(u)' <=> Running(u)
      /\ \A u \in Users \ {t} : Cur(u)' = Cur(u) /\ X(u)' = X(u)
      /\ Running(t)' <=> j # <<>>
      /\ Cur(t)' = Head(j)
  BY <1>5 DEF Running, Cur, X
<1>7. \A u \in Users \ {t} : alone'[u] = alone[u]
  <2>1. \A u \in Users : alone[u] \in BOOLEAN  BY Zenon DEF SysInv, OwnBus
  <2> QED  BY <1>2, Zenon DEF SysInv, OwnBus
<1>8. alone'[t] <=> \A u \in Users \ {t} : Running(u) /\ j # <<>> => Cur(u).bus # Head(j).bus
  BY <1>2, Zenon DEF SysInv, OwnBus
<1>9. alone' \in [Users -> BOOLEAN]
  <2>1. PICK v \in BOOLEAN :
          v <=> \A u \in Users \ {t} : Running(u) /\ j # <<>> => Cur(u).bus # Head(j).bus
    OBVIOUS
  <2>2. alone \in [Users -> BOOLEAN]  BY Zenon DEF SysInv, OwnBus
  <2>3. alone' = [alone EXCEPT ![t] = v]  BY <1>2, <2>1, Zenon
  <2> QED  BY <2>2, <2>3, Zenon
<1>10. JobsOK'
  <2>1. job' \in [Users -> Seq(Routines)]  BY <1>1, <1>2, <1>3
  <2>2. ASSUME NEW u \in Users PROVE Queued(u, job'[u], cpsOut')
    <3>1. CASE u = t  BY <3>1, <1>1, <1>5
    <3>2. CASE u # t /\ cpsOut' = cpsOut  BY <3>2, <1>3, <1>5
    <3>3. CASE u # t /\ ~Running(u)
      <4>1. job'[u] = <<>>  BY <3>3, <1>5 DEF Running
      <4> QED  BY <4>1 DEF Queued
    <3> QED  BY <3>1, <3>2, <3>3
  <2> QED  BY <2>1, <2>2 DEF JobsOK
<1>11. \A u \in Users : Running(u)' /\ Cur(u)'.bus = "ob" => alone'[u]
  <2> TAKE u \in Users
  <2>1. CASE u = t
    <3> SUFFICES ASSUME j # <<>>, Head(j).bus = "ob" PROVE alone'[t]  BY <1>6, <2>1
    <3> QED  BY <1>8
  <2>2. CASE u # t
    <3> SUFFICES ASSUME Running(u), Cur(u).bus = "ob" PROVE alone'[u]  BY <1>6, <2>2
    <3>1. alone[u]  BY Zenon DEF SysInv, OwnBus
    <3> QED  BY <1>7, <2>2, <3>1, Zenon
  <2> QED  BY <2>1, <2>2
<1>12. TalksTo(t)'  BY <1>4, <1>5 DEF TalksTo
<1>13. SentBy(t)' /\ ClockSentBy(t)'
  <2>1. Running(t)' => Cur(t)'.next = 1  BY <1>1, <1>6 DEF Made
  <2> QED  BY <2>1, Begun
<1>14. ASSUME NEW u \in Users \ {t} PROVE TalksTo(u)' /\ SentBy(u)' /\ ClockSentBy(u)'
  <2>1. TalksTo(u) /\ SentBy(u) /\ ClockSentBy(u)  BY DEF SysInv, OwnBus, MapSent, ClockSent
  <2>2. TalksTo(u)'  BY <1>5, <1>6, <1>7, <2>1 DEF TalksTo
  <2>3. SentBy(u)'  BY <1>6, <1>7, <2>1 DEF SentBy, chip
  <2>4. ClockSentBy(u)'  BY <1>6, <2>1 DEF ClockSentBy, chip
  <2> QED  BY <2>2, <2>3, <2>4
<1>15. OwnBus'  BY <1>9, <1>11, <1>12, <1>14 DEF OwnBus
<1>16. MapSent' /\ ClockSent'  BY <1>13, <1>14 DEF MapSent, ClockSent
<1>17. ChipTypes'
  <2>1. \A u \in Users : step'[u] = "none" <=> ~Running(u)'
    BY <1>3, <1>4, <1>5, <1>6
  <2> QED  BY <1>2, <1>5, <2>1 DEF ChipTypes
<1> QED  BY <1>10, <1>15, <1>16, <1>17 DEF SysInv

(* Steps of a thread off the buses.                                        *)
LEMMA IdleKeeps ==
  ASSUME SysInv, Places',
         UNCHANGED <<unit, id, mux, slave, job, step, tries, alone, cpsOut, chip, faults, sets>>
  PROVE  SysInv'
<1>1. /\ \A u : Running(u)' <=> Running(u)
      /\ \A u : Cur(u)' = Cur(u) /\ X(u)' = X(u)
  BY DEF Running, Cur, X
<1>2. JobsOK'  BY DEF SysInv, JobsOK
<1>3. OwnBus'  BY <1>1 DEF SysInv, OwnBus, TalksTo
<1>4. MapSent' /\ ClockSent'  BY <1>1 DEF SysInv, MapSent, SentBy, ClockSent, ClockSentBy, chip
<1>5. ChipTypes'  BY <1>1 DEF SysInv, ChipTypes, Held, unit, chip
<1> QED  BY <1>2, <1>3, <1>4, <1>5 DEF SysInv

LEMMA Resting ==
  ASSUME SysInv, NEW t \in Users, ~Running(t)
  PROVE  job[t] = <<>> /\ Len(job[t]) = 0
BY DEF Running

LEMMA AssignedJobs ==
  ASSUME SysInv, NEW t \in Users, NEW j, Assign(t, j)
  PROVE  job'[t] = j /\ \A u \in Users \ {t} : job'[u] = job[u]
BY DEF SysInv, JobsOK, Assign

LEMMA StartClockKeeps ==
  ASSUME SysInv, StartClock
  PROVE  SysInv'
<1> DEFINE j == <<init_clk, get_slaveBoardID>>
<1>1. /\ stage = "clock" /\ ~Running("main") /\ Assign("main", j) /\ stage' = "boards"
      /\ UNCHANGED <<unit, id, mux, slave, cpsOut, chip, faults, sets>>
  BY DEF StartClock, At, rest
<1>2. "main" \in Users /\ "port" \in Users \ {"main"} /\ cpsOut \in [Buses -> Outs]
      /\ "ob" \in Buses
  BY DEF Users, Buses, SysInv, ChipTypes
<1>3. j \in Seq(Made("main", cpsOut'))
  <2>1. init_clk \in Made("main", cpsOut') /\ get_slaveBoardID \in Made("main", cpsOut')
    BY <1>1, <1>2, RoutinesMade
  <2> QED  BY <2>1
<1>4. job["port"] = <<>>  BY <1>1 DEF SysInv, Places
<1> HIDE DEF j
<1>5. job'["port"] = <<>>  BY <1>1, <1>2, <1>4, AssignedJobs
<1>6. Places'  BY <1>1, <1>5 DEF Places
<1>7. Held'  BY <1>1 DEF SysInv, ChipTypes, Held, unit, chip
<1>8. \A u \in Users \ {"main"} : ~Running(u)  BY <1>4 DEF Users, Running
<1> QED  BY <1>1, <1>2, <1>3, <1>6, <1>7, <1>8, AssignKeeps

LEMMA StartBoardsKeeps ==
  ASSUME SysInv, StartBoards
  PROVE  SysInv'
<1> DEFINE out == [b \in Buses |-> ModeOut]
           M == Made("main", out)
           j == <<set_slaveIO>> \o init_system
                \o <<init_cps("ob"), set_cpsConfig("ob", ModeOut)>>
                \o OnlyIf(id = 2, <<set_cpsConfig("sl", ModeOut)>>)
<1>1. /\ stage = "boards" /\ ~Running("main") /\ Assign("main", j) /\ stage' = "started"
      /\ cpsOut' = out /\ UNCHANGED <<unit, id, mux, slave, chip, faults, sets>>
  BY DEF StartBoards, At
<1>2. "main" \in Users /\ "port" \in Users \ {"main"} /\ "ob" \in Buses /\ "sl" \in Buses
  BY DEF Users, Buses
<1>3. out \in [Buses -> Outs] /\ out["ob"] = ModeOut /\ out["sl"] = ModeOut
  <2>1. ModeOut \in Outs  BY SizesAssumption DEF ModeOut, Outs, Vals
  <2> QED  BY <1>2, <2>1
<1>4. j \in Seq(M)
  <2>1. /\ set_slaveIO \in M /\ init_cps("ob") \in M /\ init_cps("sl") \in M
        /\ set_cpsConfig("ob", ModeOut) \in M /\ set_cpsConfig("sl", ModeOut) \in M
    <3> HIDE DEF out
    <3> QED  BY <1>2, <1>3, RoutinesMade
  <2> HIDE DEF M
  <2>2. <<set_slaveIO>> \in Seq(M) /\ <<init_cps("ob"), set_cpsConfig("ob", ModeOut)>> \in Seq(M)
    BY <2>1
  <2>3. init_system \in Seq(M)
    <3>1. <<init_cps("sl")>> \in Seq(M) /\ <<>> \in Seq(M)  BY <2>1
    <3> QED  BY <3>1 DEF init_system, OnlyIf
  <2>4. OnlyIf(id = 2, <<set_cpsConfig("sl", ModeOut)>>) \in Seq(M)
    <3>1. <<set_cpsConfig("sl", ModeOut)>> \in Seq(M) /\ <<>> \in Seq(M)  BY <2>1
    <3> QED  BY <3>1 DEF OnlyIf
  <2>5. \A s, u \in Seq(M) : s \o u \in Seq(M)  BY ConcatProperties
  <2> QED  BY <2>2, <2>3, <2>4, <2>5
<1> HIDE DEF j, M
<1>5. job["port"] = <<>>  BY <1>1 DEF SysInv, Places
<1>6. job'["port"] = <<>>  BY <1>1, <1>2, <1>5, AssignedJobs
<1>7. Places'  BY <1>1, <1>6 DEF Places
<1>8. Held'  BY <1>1 DEF SysInv, ChipTypes, Held, unit, chip
<1>9. \A u \in Users \ {"main"} : ~Running(u)  BY <1>5 DEF Users, Running
<1>10. j \in Seq(Made("main", cpsOut')) /\ cpsOut' \in [Buses -> Outs]
  BY <1>1, <1>3, <1>4 DEF M
<1> HIDE DEF out
<1> QED  BY <1>1, <1>2, <1>7, <1>8, <1>9, <1>10, AssignKeeps

LEMMA StartedKeeps ==
  ASSUME SysInv, Started
  PROVE  SysInv'
<1>1. /\ ~Running("main") /\ stage' = "round"
      /\ UNCHANGED <<unit, id, mux, slave, job, step, tries, alone, cpsOut, chip, faults, sets>>
  BY DEF Started, At, rest
<1>2. job'["main"] = <<>>  BY <1>1 DEF Running
<1>3. Places'  BY <1>1, <1>2 DEF SysInv, Places
<1> QED  BY <1>1, <1>3, IdleKeeps

(* devProc's routines, given to a main thread that has none.               *)
LEMMA RoundKeeps ==
  ASSUME SysInv, stage \in {"round", "mode"}, stage' \in {"round", "mode"}, ~Running("main"),
         UNCHANGED <<unit, id, mux, slave, cpsOut, chip, faults, sets>>,
         \/ UNCHANGED <<job, step, tries, alone>>
         \/ Assign("main", <<get_slaveTemp>>)
         \/ Assign("main", init_system)
  PROVE  SysInv'
<1>1. "main" \in Users /\ "port" \in Users \ {"main"} /\ "sl" \in Buses
      /\ cpsOut \in [Buses -> Outs] /\ cpsOut' \in [Buses -> Outs]
  BY DEF Users, Buses, SysInv, ChipTypes
<1>2. CASE UNCHANGED <<job, step, tries, alone>>
  <2>1. Places'  BY <1>2 DEF SysInv, Places
  <2> QED  BY <1>2, <2>1, IdleKeeps
<1>3. CASE Assign("main", <<get_slaveTemp>>) \/ Assign("main", init_system)
  <2> DEFINE S == {r \in Made("main", cpsOut') : OfRound(r)}
  <2>1. get_slaveTemp \in S /\ init_cps("sl") \in S  BY <1>1, RoutinesMade DEF OfRound
  <2>2. <<get_slaveTemp>> \in Seq(S) /\ <<init_cps("sl")>> \in Seq(S) /\ <<>> \in Seq(S)
    <3> HIDE DEF S
    <3> QED  BY <2>1
  <2>3. init_system \in Seq(S)
    <3> HIDE DEF S
    <3> QED  BY <2>2 DEF init_system, OnlyIf
  <2>4. PICK j \in Seq(S) : Assign("main", j)
    <3> HIDE DEF S
    <3> QED  BY <1>3, <2>2, <2>3
  <2>5. /\ \A i \in 1..Len(j) : OfRound(j[i])
        /\ j \in Seq(Made("main", cpsOut'))
    <3>1. \A i \in 1..Len(j) : j[i] \in S  BY ElementOfSeq
    <3>2. S \subseteq Made("main", cpsOut')  OBVIOUS
    <3>3. \A i \in 1..Len(j) : OfRound(j[i])  BY <3>1
    <3> HIDE DEF S
    <3>4. j \in Seq(Made("main", cpsOut'))  BY <3>1, <3>2
    <3> QED  BY <3>3, <3>4
  <2>6. job'["main"] = j /\ job'["port"] = job["port"]  BY <1>1, <2>4, AssignedJobs
  <2>7. Places'  BY <2>5, <2>6 DEF SysInv, Places
  <2>8. Held'  BY DEF SysInv, ChipTypes, Held, unit, chip
  <2>9. j # <<>> => Head(j).bus # "ob"
    <3>1. j # <<>> => 1 \in 1..Len(j) /\ Head(j) = j[1]  BY <1>1, <2>5, MadeQueue
    <3> QED  BY <3>1, <2>5 DEF OfRound
  <2> QED  BY <1>1, <2>4, <2>5, <2>7, <2>8, <2>9, AssignKeeps
<1> QED  BY <1>2, <1>3

LEMMA TemperatureKeeps ==
  ASSUME SysInv, Temperature
  PROVE  SysInv'
<1>1. /\ stage \in {"round", "mode"} /\ stage' \in {"round", "mode"} /\ ~Running("main")
      /\ UNCHANGED <<unit, id, mux, slave, cpsOut, chip, faults, sets>>
      /\ \/ UNCHANGED <<job, step, tries, alone>>
         \/ Assign("main", <<get_slaveTemp>>)
  BY DEF Temperature, At, rest
<1> QED  BY <1>1, RoundKeeps

LEMMA CheckModeKeeps ==
  ASSUME SysInv, CheckMode
  PROVE  SysInv'
<1>1. /\ stage \in {"round", "mode"} /\ stage' \in {"round", "mode"} /\ ~Running("main")
      /\ UNCHANGED <<unit, id, mux, slave, cpsOut, chip, faults, sets>>
      /\ \/ UNCHANGED <<job, step, tries, alone>>
         \/ Assign("main", init_system)
  BY DEF CheckMode, At, rest
<1> QED  BY <1>1, RoundKeeps

LEMMA CpsSetKeeps ==
  ASSUME SysInv, CpsSet
  PROVE  SysInv'
<1> DEFINE a == set_cpsConfig("ob", cpsOut["ob"])
           c == set_cpsConfig("sl", cpsOut["sl"])
           j == <<a>> \o OnlyIf(id = 2, <<c>>)
           S == {r \in Made("port", cpsOut) : OfRecord(r)}
<1>1. /\ stage \in {"round", "mode"} /\ ~Running("port") /\ sets' = sets + 1 /\ Assign("port", j)
      /\ UNCHANGED <<unit, id, mux, slave, cpsOut, chip, stage, faults>>
  BY DEF CpsSet, Up
<1>2. "port" \in Users /\ "main" \in Users \ {"port"} /\ "sl" \in Buses /\ "ob" \in Buses
      /\ cpsOut \in [Buses -> Outs] /\ cpsOut' \in [Buses -> Outs]
  BY <1>1 DEF Users, Buses, SysInv, ChipTypes
<1>3. j \in Seq(S)
  <2>1. a \in S /\ c \in S  BY <1>2, RoutinesMade
  <2> HIDE DEF S, a, c
  <2>2. <<a>> \in Seq(S) /\ <<c>> \in Seq(S) /\ <<>> \in Seq(S)  BY <2>1
  <2>3. OnlyIf(id = 2, <<c>>) \in Seq(S)  BY <2>2 DEF OnlyIf
  <2> QED  BY <2>2, <2>3, ConcatProperties
<1> HIDE DEF j
<1>4. /\ \A i \in 1..Len(j) : OfRecord(j[i])
      /\ j \in Seq(Made("port", cpsOut'))
  <2>1. \A i \in 1..Len(j) : j[i] \in S  BY <1>3, ElementOfSeq
  <2>2. S \subseteq Made("port", cpsOut') /\ \A r \in S : OfRecord(r)  BY <1>1
  <2> HIDE DEF S
  <2>3. j \in Seq(Made("port", cpsOut'))  BY <1>3, <2>1, <2>2
  <2> QED  BY <2>1, <2>2, <2>3
<1>5. job'["port"] = j /\ job'["main"] = job["main"]  BY <1>1, <1>2, AssignedJobs
<1>6. Places'  BY <1>1, <1>4, <1>5 DEF SysInv, Places
<1>7. Held'  BY <1>1 DEF SysInv, ChipTypes, Held, unit, chip
<1>8. \A u \in Users \ {"port"} : Running(u) => Cur(u).bus # "ob"
  <2>1. Running("main") => OfRound(Cur("main"))
    BY <1>1, <1>2, RoutineFacts DEF SysInv, ChipTypes
  <2> QED  BY <2>1 DEF OfRound, Users
<1> QED  BY <1>1, <1>2, <1>4, <1>6, <1>7, <1>8, AssignKeeps

LEMMA WriteCpsOutKeeps ==
  ASSUME SysInv, WriteCpsOut
  PROVE  SysInv'
<1>1. /\ stage \in {"round", "mode"} /\ ~Running("port")
      /\ UNCHANGED <<unit, id, bus, chip, stage, faults, sets>>
  BY DEF WriteCpsOut, Up
<1>2. cpsOut' \in [Buses -> Outs]
  <2>1. PICK e \in Edits, v \in Maps : cpsOut' = [cpsOut EXCEPT ![e.bus][e.byte] = v]
    BY DEF WriteCpsOut
  <2>2. e.bus \in Buses /\ e.byte \in Bytes /\ v \in Vals  BY EditsAssumption DEF Buses, Vals
  <2>3. cpsOut \in [Buses -> Outs]  BY DEF SysInv, ChipTypes
  <2>4. [cpsOut[e.bus] EXCEPT ![e.byte] = v] \in Outs  BY <2>2, <2>3 DEF Outs
  <2> QED  BY <2>1, <2>2, <2>3, <2>4
<1>3. /\ \A u : Running(u)' <=> Running(u)
      /\ \A u : Cur(u)' = Cur(u) /\ X(u)' = X(u)
  BY <1>1 DEF Running, Cur, X, bus
<1>4. job["port"] = <<>> /\ \A i \in 1..Len(job["main"]) : OfRound(job["main"][i])
  BY <1>1 DEF Running, SysInv, Places
<1>5. Queued("main", job["main"], cpsOut')
  <2>1. Queued("main", job["main"], cpsOut)  BY DEF SysInv, JobsOK, Users
  <2>2. ASSUME NEW i \in 1..Len(job["main"])
        PROVE  Script(job["main"][i].name, cpsOut'[job["main"][i].bus])
                 = Script(job["main"][i].name, cpsOut[job["main"][i].bus])
    <3>1. job["main"][i].name \in Names \ {"set_cpsConfig"}  BY <1>4 DEF OfRound, Names
    <3> QED  BY <3>1, ScriptFree
  <2> QED  BY <2>1, <2>2 DEF Queued
<1>6. JobsOK'
  <2>1. \A u \in Users : Queued(u, job[u], cpsOut')
    <3>1. Queued("port", job["port"], cpsOut')  BY <1>4 DEF Queued
    <3> QED  BY <1>5, <3>1 DEF Users
  <2> QED  BY <1>1, <2>1 DEF SysInv, JobsOK, bus
<1>7. Places'  BY <1>1 DEF SysInv, Places, bus
<1>8. OwnBus'  BY <1>1, <1>3 DEF SysInv, OwnBus, TalksTo, bus
<1>9. MapSent'
  <2> SUFFICES ASSUME NEW u \in Users PROVE SentBy(u)'  BY DEF MapSent
  <2>1. SentBy(u)  BY DEF SysInv, MapSent
  <2>2. Running(u) => Cur(u).name # "set_cpsConfig"
    <3>1. ~Running("port")  BY <1>1
    <3>2. Running("main") => OfRound(Cur("main"))
      BY <1>1, RoutineFacts DEF SysInv, ChipTypes, Users
    <3> QED  BY <3>1, <3>2 DEF OfRound, Users
  <2> QED  BY <1>1, <1>3, <2>1, <2>2 DEF SentBy, bus, chip
<1>10. ClockSent'  BY <1>1, <1>3 DEF SysInv, ClockSent, ClockSentBy, chip
<1>11. ChipTypes'  BY <1>1, <1>2, <1>3 DEF SysInv, ChipTypes, Held, unit, chip, bus
<1> QED  BY <1>6, <1>7, <1>8, <1>9, <1>10, <1>11 DEF SysInv

LEMMA SysInitInv == SysInit => SysInv
<1> SUFFICES ASSUME SysInit PROVE SysInv  OBVIOUS
<1>1. \A t \in Users : job[t] = <<>> /\ ~Running(t)  BY DEF SysInit, Running
<1>2. JobsOK
  <2>1. <<>> \in Seq(Routines)  OBVIOUS
  <2>2. job \in [Users -> Seq(Routines)]  BY <2>1 DEF SysInit
  <2> QED  BY <1>1, <2>2 DEF JobsOK, Queued
<1>3. Places  BY <1>1 DEF SysInit, Places, Users
<1>4. OwnBus
  <2>1. alone \in [Users -> BOOLEAN]
    <3>1. alone = [t \in Users |-> TRUE]  BY Zenon DEF SysInit
    <3> QED  BY <3>1, Zenon
  <2> QED  BY <1>1, <2>1 DEF OwnBus, TalksTo
<1>5. MapSent /\ ClockSent  BY <1>1 DEF MapSent, SentBy, ClockSent, ClockSentBy
<1>6. Held
  <2>1. cps \in [Buses -> Switches]
    <3>1. [map |-> Reset, on |-> Reset] \in Switches  BY ResetIsMap DEF Switches
    <3> QED  BY <3>1 DEF SysInit
  <2>2. clk \in Clocks  BY DEF SysInit, Clocks
  <2> QED  BY <2>1, <2>2 DEF SysInit, Held
<1>7. ChipTypes
  <2>1. cpsOut \in [Buses -> Outs]  BY ResetIsMap DEF SysInit
  <2>2. step \in [Users -> Steps] /\ \A t \in Users : step[t] = "none"  BY DEF SysInit, Steps
  <2>3. tries \in Nat  BY DEF SysInit
  <2> QED  BY <1>1, <1>6, <2>1, <2>2, <2>3 DEF ChipTypes
<1> QED  BY <1>2, <1>3, <1>4, <1>5, <1>7 DEF SysInv

LEMMA SysStepInv == SysInv /\ [SysNext]_sysVars => SysInv'
<1> SUFFICES ASSUME SysInv, [SysNext]_sysVars PROVE SysInv'  OBVIOUS
<1>1. CASE \E t \in Users : Bus(t)
  <2>1. PICK t \in Users : Bus(t)  BY <1>1
  <2> QED
    BY <2>1, MuxAddressKeeps, MuxSelectKeeps, MuxFailsKeeps, AddressKeeps, WriteKeeps,
       WriteFailsKeeps, OffsetKeeps, ReadKeeps, PollClockKeeps DEF Bus
<1>2. CASE StartClock  BY <1>2, StartClockKeeps
<1>3. CASE StartBoards  BY <1>3, StartBoardsKeeps
<1>4. CASE Started  BY <1>4, StartedKeeps
<1>5. CASE Temperature  BY <1>5, TemperatureKeeps
<1>6. CASE CheckMode  BY <1>6, CheckModeKeeps
<1>7. CASE WriteCpsOut  BY <1>7, WriteCpsOutKeeps
<1>8. CASE CpsSet  BY <1>8, CpsSetKeeps
<1>9. CASE UNCHANGED sysVars
  <2>1. UNCHANGED <<unit, id, mux, slave, job, step, tries, alone, cpsOut, chip, faults, sets>>
        /\ UNCHANGED stage
    BY <1>9 DEF sysVars, bus
  <2>2. Places'  BY <2>1 DEF SysInv, Places
  <2> QED  BY <2>1, <2>2, IdleKeeps
<1>10. "main" \in Users /\ "port" \in Users  BY DEF Users
<1> QED
  BY <1>1, <1>2, <1>3, <1>4, <1>5, <1>6, <1>7, <1>8, <1>9, <1>10 DEF SysNext, MainThread, PortThread

-----------------------------------------------------------------------------
LEMMA SysAlways == SysSpec => []SysInv
BY SysInitInv, SysStepInv, PTL DEF SysSpec

(* Type correctness: the buses and the chips hold what the model says they *)
(* can, and a thread is at a step of a transfer exactly while it has a     *)
(* routine to run.                                                         *)
THEOREM SystemTypeCorrect == SysSpec => []SysTypeOK
<1>1. SysInv => SysTypeOK
  <2> SUFFICES ASSUME SysInv PROVE SysTypeOK  OBVIOUS
  <2>1. \A b \in Buses : cps[b] \in [map : [Bytes -> Maps \cup {"reset"}],
                                     on : [Bytes -> Maps \cup {"reset"}]]
    BY DEF SysInv, ChipTypes, Held, Switches, Outs, Vals
  <2>2. cps \in [Buses -> [map : [Bytes -> Maps \cup {"reset"}],
                           on : [Bytes -> Maps \cup {"reset"}]]]
    BY <2>1 DEF SysInv, ChipTypes, Held
  <2>3. clk.regs \subseteq ClockRegs  BY DEF SysInv, ChipTypes, Held, Clocks
  <2> QED  BY <2>2, <2>3 DEF SysInv, ChipTypes, Held, Steps, SysTypeOK
<1> QED  BY <1>1, SysAlways, PTL

(* The maps in force change by a write that reaches the switch and is a    *)
(* reset or an update, and what is in the registers by then.               *)
LEMMA SwitchChanges ==
  ASSUME SysInv, NEW t \in Users, Write(t), NEW b \in Buses, cps'[b].on # cps[b].on
  PROVE  \/ cps'[b].on \in {cpsOut[b], Reset}
         \/ b = "sl" /\ Running(t) /\ Cur(t).bus = b /\ ~alone[t]
<1> DEFINE x == X(t)
           n == Cur(t).next
<1>1. Running(t) /\ x.op = "wr" /\ Cur(t).bus = b
  BY WriteFacts, WriteSwitch
<1>2. x.chip = "ADN4604" /\ slave[b] = x.chip  BY <1>1, WriteSwitch
<1>3. x.reg = "reset" \/ (x.reg = "update" /\ cps'[b].on = cps[b].map) \/ x.reg = "map"
  BY <1>1, <1>2, WriteSwitch
<1>4. x.reg # "map"
  <2> SUFFICES ASSUME x.reg = "map" PROVE FALSE  OBVIOUS
  <2> QED  BY <1>1, <1>2, WriteSwitch
<1>5. CASE x.reg = "reset"  BY <1>1, <1>2, <1>5, WriteSwitch
<1>6. CASE x.reg = "update" /\ ~alone[t]
  <2>1. b # "ob"  BY <1>1, <1>6, Zenon DEF SysInv, OwnBus
  <2> QED  BY <1>1, <1>6, <2>1 DEF Buses
<1>7. CASE x.reg = "update" /\ alone[t]
  <2>1. Cur(t).name \in {"init_cps", "set_cpsConfig"}
    BY <1>1, <1>2, RoutineFacts DEF Proper, SysInv, ChipTypes
  <2>2. SentBy(t) /\ cps[b].map \in Outs /\ cpsOut[b] \in Outs
    BY DEF SysInv, MapSent, ChipTypes, Held, Switches
  <2>3. CASE Cur(t).name = "init_cps"
    <3>1. /\ n \in {1, 2, 3, 4}
          /\ n = 1 => x = Wr("ADN4604", "reset", 1)
      BY <1>1, <2>3, InitAt
    <3>2. n # 1  BY <1>7, <3>1, Fields DEF Wr
    <3>3. cps[b].map = Reset  BY <1>1, <1>7, <2>2, <2>3, <3>1, <3>2 DEF SentBy
    <3> QED  BY <1>3, <1>7, <3>3
  <2>4. CASE Cur(t).name = "set_cpsConfig"
    <3>1. /\ n \in Nat /\ n > 0 /\ n <= NumBytes + 3
          /\ n \in Bytes => x = WrMap(n, cpsOut[b][n])
          /\ n = NumBytes + 1 => x = Wr("ADN4604", "en", 1)
          /\ n = NumBytes + 3 => x = Try(Rd("ADN4604", "check"))
      BY <1>1, <2>4, CpsAt
    <3>2. n \notin Bytes  BY <1>7, <3>1, FieldsAt
    <3>3. n # NumBytes + 1  BY <1>7, <3>1, Fields DEF Wr
    <3>4. n # NumBytes + 3  BY <1>7, <3>1, Fields DEF Rd
    <3>5. \A k \in Bytes : k < n
      BY <3>1, <3>2, <3>3, <3>4, SizesAssumption DEF Bytes
    <3>6. \A k \in Bytes : cps[b].map[k] = cpsOut[b][k]
      BY <1>1, <1>7, <2>2, <2>4, <3>5 DEF SentBy
    <3>7. cps[b].map = cpsOut[b]
      BY <2>2, <3>6 DEF Outs
    <3> QED  BY <1>3, <1>7, <3>7
  <2> QED  BY <2>1, <2>3, <2>4
<1> QED  BY <1>3, <1>4, <1>5, <1>6, <1>7

(* What a step changes of the chips.                                       *)
LEMMA OnlyWrites ==
  ASSUME SysInv, [SysNext]_sysVars
  PROVE  cps' = cps \/ \E t \in Users : Write(t)
BY DEF SysNext, MainThread, PortThread, Bus, MuxAddress, MuxSelect, MuxFails, Address, WriteFails,
   Offset, Read, PollClock, StartClock, StartBoards, Started, Temperature, CheckMode, WriteCpsOut,
   CpsSet, rest, chip, sysVars, Users

LEMMA OnlyWritesSwitchOn ==
  ASSUME SysInv, [SysNext]_sysVars, clk'.on, ~clk.on
  PROVE  \E t \in Users : Write(t)
<1>1. clk' # clk  OBVIOUS
<1>2. ASSUME NEW t \in Users, PollClock(t) PROVE FALSE
  <2>1. clk' = clk \/ clk' = [clk EXCEPT !.locked = TRUE]  BY <1>2, Zenon DEF PollClock
  <2>2. clk' = [clk EXCEPT !.locked = TRUE]  BY <1>1, <2>1
  <2>3. clk \in Clocks  BY DEF SysInv, ChipTypes, Held
  <2>4. clk'.on <=> clk.on  BY <2>2, <2>3 DEF Clocks
  <2> QED  BY <2>4
<1>3. clk' = clk \/ \E t \in Users : Write(t) \/ PollClock(t)
  BY DEF SysNext, MainThread, PortThread, Bus, MuxAddress, MuxSelect, MuxFails, Address, WriteFails,
     Offset, Read, StartClock, StartBoards, Started, Temperature, CheckMode, WriteCpsOut,
     CpsSet, rest, chip, sysVars, Users
<1> QED  BY <1>1, <1>2, <1>3

(* A crosspoint switch never runs a mixture of two maps: whatever fails,   *)
(* on the main board a map goes into force whole or the switch is reset,   *)
(* and on a slave board too as long as no other thread comes between.      *)
THEOREM MapsGoWhole == SysSpec => SwitchedWhole
<1> DEFINE Whole ==
      \A b \in Buses :
        cps'[b].on # cps[b].on =>
          \/ cps'[b].on \in {cpsOut[b], Reset}
          \/ b = "sl" /\ \E t \in Users : Running(t) /\ Cur(t).bus = b /\ ~alone[t]
<1>1. SysInv /\ [SysNext]_sysVars => Whole
  BY OnlyWrites, SwitchChanges
<1>2. SysInv /\ [SysNext]_sysVars => [Whole]_sysVars  BY <1>1
<1> HIDE DEF Whole
<1>3. SysSpec => [][Whole]_sysVars  BY <1>2, SysAlways, PTL DEF SysSpec
<1> QED  BY <1>3 DEF Whole, SwitchedWhole

(* set_cpsConfig that comes to its last transfer and had the bus to itself *)
(* has put the map that is wanted in force.                                *)
THEOREM DoneIsDone == SysSpec => DoneMeansInForce
<1> DEFINE Done ==
      \A t \in Users :
        /\ Running(t) /\ Cur(t).name = "set_cpsConfig" /\ alone[t]
        /\ X(t).reg = "check" /\ step[t] # "none" /\ step'[t] # step[t]
        => cps[Cur(t).bus].on = cpsOut[Cur(t).bus]
<1>1. ASSUME SysInv, NEW t \in Users, Running(t), Cur(t).name = "set_cpsConfig", alone[t],
             X(t).reg = "check"
      PROVE  cps[Cur(t).bus].on = cpsOut[Cur(t).bus]
  <2> DEFINE n == Cur(t).next
             x == X(t)
  <2>1. /\ n \in Nat /\ n > 0 /\ n <= NumBytes + 3
        /\ n \in Bytes => x = WrMap(n, cpsOut[Cur(t).bus][n])
        /\ n = NumBytes + 1 => x = Wr("ADN4604", "en", 1)
        /\ n = NumBytes + 2 => x = Wr("ADN4604", "update", 1)
    BY <1>1, CpsAt
  <2>2. n \notin Bytes  BY <1>1, <2>1, FieldsAt
  <2>3. n # NumBytes + 1 /\ n # NumBytes + 2  BY <1>1, <2>1, Fields DEF Wr
  <2>4. n = NumBytes + 3  BY <2>1, <2>2, <2>3, SizesAssumption DEF Bytes
  <2> QED  BY <1>1, <2>4 DEF SysInv, MapSent, SentBy
<1>2. SysInv => Done  BY <1>1
<1>3. SysInv => [Done]_sysVars  BY <1>2
<1> HIDE DEF Done
<1>4. SysSpec => [][Done]_sysVars  BY <1>3, SysAlways, PTL
<1> QED  BY <1>4 DEF Done, DoneMeansInForce

(* init_clk switches the clock's outputs on with its whole configuration   *)
(* written and, unless a transfer has failed, its loop locked.             *)
THEOREM ClockOnLate == SysSpec => ClockOnWhenLocked
<1> DEFINE Late == clk'.on /\ ~clk.on => clk.regs = ClockRegs /\ (clk.locked \/ faults > 0)
<1>1. ASSUME SysInv, NEW t \in Users, Write(t), clk'.on, ~clk.on
      PROVE  clk.regs = ClockRegs /\ (clk.locked \/ faults > 0)
  <2> DEFINE n == Cur(t).next
  <2>1. Running(t) /\ Cur(t).name = "init_clk" /\ X(t).reg = "oeb" /\ X(t).val = 0
    BY <1>1, WriteClock, WriteFacts
  <2>2. n = 2 * NumRegs + 9  BY <1>1, <2>1, ClkAt
  <2>3. \A k \in ClockRegs : 3 + 2 * k < n  BY <2>2, SizesAssumption DEF ClockRegs
  <2>4. n > 2 * NumRegs + 6  BY <2>2, SizesAssumption
  <2>5. clk.regs \subseteq ClockRegs  BY <1>1 DEF SysInv, ChipTypes, Held, Clocks
  <2> QED  BY <1>1, <2>1, <2>3, <2>4, <2>5 DEF SysInv, ClockSent, ClockSentBy
<1>2. SysInv /\ [SysNext]_sysVars => Late
  BY <1>1, OnlyWritesSwitchOn
<1>3. SysInv /\ [SysNext]_sysVars => [Late]_sysVars  BY <1>2
<1> HIDE DEF Late
<1>4. SysSpec => [][Late]_sysVars  BY <1>3, SysAlways, PTL DEF SysSpec
<1> QED  BY <1>4 DEF Late, ClockOnWhenLocked

=============================================================================
