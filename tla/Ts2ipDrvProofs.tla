--------------------------- MODULE Ts2ipDrvProofs ----------------------------
(***************************************************************************)
(* Theorems about the access to the FPGA's IPs through ts2ipDrv: the command *)
(* register that several threads share (EvCommand) and the time a device   *)
(* reads from the event receiver (EvTime).                                 *)
(***************************************************************************)
EXTENDS EvCommand, EvTime, TLAPS

-----------------------------------------------------------------------------
(***************************************************************************)
(* EvCommand, for any threads, IPs and loop bound.                         *)
(***************************************************************************)

(* A thread in the loop has not used up its tests.                         *)
SpinBound == \A t \in Threads : pc[t] = "spin" => i[t] < MaxSpin

TInv == TypeOK /\ SpinBound

LEMMA InitTInv == Init => TInv
<1> SUFFICES ASSUME Init PROVE TInv
  OBVIOUS
<1>1. /\ isRunning \in {0, 1}
      /\ setReg \in [IPs -> Commands \cup {0}]
      /\ pc \in [Threads -> Labels]
      /\ call \in [Threads -> Calls]
      /\ result \in [Threads -> {"none", "RET_ERR", "RET_OK"}]
  BY DEF Init, Labels
<1>2. i \in [Threads -> 0..MaxSpin]
  BY MaxSpinAssumption DEF Init
<1>3. SpinBound
  BY DEF Init, SpinBound
<1> QED BY <1>1, <1>2, <1>3 DEF TInv, TypeOK

LEMMA NextTInv == TInv /\ [Next]_vars => TInv'
<1> SUFFICES ASSUME TInv, [Next]_vars PROVE TInv'
  OBVIOUS
<1> USE MaxSpinAssumption DEF TInv, SpinBound, TypeOK, Labels, Goto
<1>1. ASSUME NEW t \in Threads, Call(t) PROVE TInv'
  BY <1>1 DEF Call
<1>2. ASSUME NEW t \in Threads, Step(t) PROVE TInv'
  <2>1. CASE Spin(t)
    <3>1. i[t] \in 0..MaxSpin /\ i[t] < MaxSpin
      BY <2>1 DEF Spin
    <3>2. CASE isRunning = 0
      BY <2>1, <3>2 DEF Spin
    <3>3. CASE isRunning # 0
      <4>1. i[t] + 1 \in 0..MaxSpin
        BY <3>1
      <4>2. i' \in [Threads -> 0..MaxSpin]
        BY <2>1, <3>3, <4>1 DEF Spin
      <4>3. pc' = [pc EXCEPT ![t] = IF i[t] + 1 = MaxSpin THEN "test" ELSE "spin"]
        BY <2>1, <3>3 DEF Spin
      <4>4. i' = [i EXCEPT ![t] = i[t] + 1]
        BY <2>1, <3>3 DEF Spin
      <4>5. SpinBound'
        BY <3>1, <4>1, <4>3, <4>4
      <4> QED BY <2>1, <4>2, <4>3, <4>5 DEF Spin
    <3> QED BY <3>2, <3>3
  <2>2. CASE Test(t)
    BY <2>2 DEF Test
  <2>3. CASE Claim(t)
    BY <2>3 DEF Claim
  <2>4. CASE Set(t)
    BY <2>4 DEF Set, Calls
  <2>5. CASE Reset(t)
    BY <2>5 DEF Reset
  <2>6. CASE Release(t)
    BY <2>6 DEF Release
  <2> QED BY <1>2, <2>1, <2>2, <2>3, <2>4, <2>5, <2>6 DEF Step
<1>3. CASE UNCHANGED vars
  BY <1>3 DEF vars
<1> QED BY <1>1, <1>2, <1>3 DEF Next

(* Every reachable state is well typed; in particular no thread tests      *)
(* isRunning more than MaxSpin times in one call.                          *)
THEOREM TypeCorrect == Spec => []TypeOK
<1>1. TInv => TypeOK
  BY DEF TInv
<1> QED BY InitTInv, NextTInv, <1>1, PTL DEF Spec

(* What overlapping commands leave behind: isRunning and every A_setReg    *)
(* are accounted for by a thread that is still to write them back.         *)
CInv == NeverWedged /\ CommandIsPulse

LEMMA InitCInv == Init => CInv
  BY DEF Init, CInv, NeverWedged, CommandIsPulse

LEMMA NextCInv == TypeOK /\ CInv /\ [Next]_vars => CInv'
<1> SUFFICES ASSUME TypeOK, CInv, [Next]_vars PROVE CInv'
  OBVIOUS
<1> USE DEF CInv, NeverWedged, CommandIsPulse, Inside
<1>1. ASSUME NEW t \in Threads, Call(t) PROVE CInv'
  <2>1. /\ pc[t] = "idle"
        /\ pc' = [pc EXCEPT ![t] = "spin"]
        /\ \A u \in Threads \ {t} : call'[u] = call[u]
        /\ UNCHANGED <<isRunning, setReg>>
    BY <1>1 DEF Call, Goto, TypeOK
  <2>2. NeverWedged'
    BY <2>1 DEF TypeOK
  <2>3. ASSUME NEW p \in IPs, setReg'[p] # 0
        PROVE \E u \in Threads : pc'[u] = "reset" /\ call'[u].ip = p
    <3>1. PICK u \in Threads : pc[u] = "reset" /\ call[u].ip = p
      BY <2>1, <2>3
    <3> QED BY <2>1, <3>1 DEF TypeOK
  <2> QED BY <2>2, <2>3
<1>2. ASSUME NEW t \in Threads, Step(t) PROVE CInv'
  <2>1. ASSUME pc[t] \in {"spin", "test", "claim"},
               pc'[t] # "reset" \/ setReg' = setReg,
               \A u \in Threads \ {t} : pc'[u] = pc[u],
               UNCHANGED <<isRunning, setReg, call>>
        PROVE CInv'
    <3>1. NeverWedged'
      BY <2>1
    <3>2. CommandIsPulse'
      BY <2>1
    <3> QED BY <3>1, <3>2
  <2>2. CASE Spin(t)
    BY <2>1, <2>2 DEF Spin, Goto, TypeOK
  <2>3. CASE Test(t)
    BY <2>1, <2>3 DEF Test, Goto, TypeOK
  <2>4. CASE Claim(t)
    <3>1. NeverWedged'
      BY <2>4 DEF Claim, Goto, TypeOK
    <3>2. CommandIsPulse'
      BY <2>4 DEF Claim, Goto, TypeOK
    <3> QED BY <3>1, <3>2
  <2>5. CASE Set(t)
    <3>1. NeverWedged'
      BY <2>5 DEF Set, Goto, TypeOK
    <3>2. CommandIsPulse'
      BY <2>5 DEF Set, Goto, TypeOK
    <3> QED BY <3>1, <3>2
  <2>6. CASE Reset(t)
    <3>1. NeverWedged'
      BY <2>6 DEF Reset, Goto, TypeOK
    <3>2. CommandIsPulse'
      BY <2>6 DEF Reset, Goto, TypeOK
    <3> QED BY <3>1, <3>2
  <2>7. CASE Release(t)
    <3>1. NeverWedged'
      BY <2>7 DEF Release
    <3>2. CommandIsPulse'
      BY <2>7 DEF Release, Goto, TypeOK
    <3> QED BY <3>1, <3>2
  <2> QED BY <1>2, <2>2, <2>3, <2>4, <2>5, <2>6, <2>7 DEF Step
<1>3. CASE UNCHANGED vars
  BY <1>3 DEF vars
<1> QED BY <1>1, <1>2, <1>3 DEF Next

LEMMA AlwaysCInv == Spec => []CInv
<1>1. TInv => TypeOK
  BY DEF TInv
<1> QED BY InitTInv, NextTInv, <1>1, InitCInv, NextCInv, PTL DEF Spec

(* For any number of threads and any loop bound, isRunning is never left   *)
(* set behind: a call refused with RET_ERR met another that was inside.    *)
THEOREM NotWedged == Spec => []NeverWedged
<1>1. CInv => NeverWedged
  BY DEF CInv
<1> QED BY AlwaysCInv, <1>1, PTL

(* For any number of threads and IPs, a command never outlives the calls   *)
(* that sent it: with nobody about to write it back, A_setReg is 0.        *)
THEOREM PulseOnly == Spec => []CommandIsPulse
<1>1. CInv => CommandIsPulse
  BY DEF CInv
<1> QED BY AlwaysCInv, <1>1, PTL

-----------------------------------------------------------------------------
(* The step of CommandPulse each step of ip_setCommand is.                 *)
Phases == [t \in Threads |-> Phase(pc[t])]

LEMMA InitPromise == Init => Promise!PulseInit
  BY DEF Init, Phase, Calls, Promise!PulseInit, Promise!Calls

(* A step that leaves every thread's phase, call and result alone.         *)
LEMMA Stutter ==
  ASSUME TypeOK, NEW t \in Threads, NEW l \in Labels, Goto(t, l),
         Phase(l) = Phase(pc[t]), UNCHANGED <<call, result>>
  PROVE  UNCHANGED Promise!pulseVars
<1>1. Phases' = Phases
  BY DEF Phases, Goto, TypeOK
<1> QED BY <1>1 DEF Phases, Promise!pulseVars

(* A step that changes the phase of one thread.                            *)
LEMMA Moves ==
  ASSUME TypeOK, NEW t \in Threads, NEW l \in Labels, Goto(t, l)
  PROVE  Phases' = [Phases EXCEPT ![t] = Phase(l)]
  BY DEF Phases, Goto, TypeOK

LEMMA NextPromise ==
  TypeOK /\ NeverWedged /\ [Next]_vars => [Promise!PulseNext]_(Promise!pulseVars)
<1> SUFFICES ASSUME TypeOK, NeverWedged, [Next]_vars
             PROVE  [Promise!PulseNext]_(Promise!pulseVars)
  OBVIOUS
<1>1. ASSUME NEW t \in Threads, Call(t) PROVE Promise!PulseNext
  <2>1. Phases' = [Phases EXCEPT ![t] = "called"]
    BY <1>1, Moves DEF Call, Labels, Phase
  <2>2. Phases[t] = "idle"
    BY <1>1 DEF Call, Phases, Phase
  <2>3. PICK c \in Calls : call' = [call EXCEPT ![t] = c]
    BY <1>1 DEF Call
  <2>4. result' = [result EXCEPT ![t] = "none"]
    BY <1>1 DEF Call
  <2>5. Promise!Call(t, c)
    BY <2>1, <2>2, <2>3, <2>4 DEF Promise!Call, Phases
  <2> QED BY <2>5 DEF Promise!PulseNext, Promise!Calls, Calls
<1>2. ASSUME NEW t \in Threads, Spin(t) PROVE UNCHANGED Promise!pulseVars
  <2>1. PICK l \in {"spin", "test"} : Goto(t, l)
    BY <1>2 DEF Spin
  <2> QED BY <1>2, <2>1, Stutter DEF Spin, Labels, Phase
<1>3. ASSUME NEW t \in Threads, Test(t) PROVE [Promise!PulseNext]_(Promise!pulseVars)
  <2>1. CASE isRunning = 1
    <3>1. PICK u \in Threads : Inside(u)
      BY <2>1 DEF NeverWedged
    <3>2. u # t /\ Phases[u] # "idle"
      BY <1>3, <3>1 DEF Inside, Test, Phases, Phase
    <3>3. Phases' = [Phases EXCEPT ![t] = "idle"]
      BY <1>3, <2>1, Moves DEF Test, Labels, Phase
    <3>4. Phases[t] = "called"
      BY <1>3 DEF Test, Phases, Phase
    <3>5. Promise!Refuse(t)
      BY <1>3, <2>1, <3>2, <3>3, <3>4 DEF Test, Promise!Refuse, Phases
    <3> QED BY <3>5 DEF Promise!PulseNext
  <2>2. CASE isRunning # 1
    BY <1>3, <2>2, Stutter DEF Test, Labels, Phase
  <2> QED BY <2>1, <2>2
<1>4. ASSUME NEW t \in Threads, Claim(t) PROVE UNCHANGED Promise!pulseVars
  BY <1>4, Stutter DEF Claim, Labels, Phase
<1>5. ASSUME NEW t \in Threads, Set(t) PROVE Promise!PulseNext
  <2>1. Phases' = [Phases EXCEPT ![t] = "sent"]
    BY <1>5, Moves DEF Set, Labels, Phase
  <2>2. Phases[t] = "called"
    BY <1>5 DEF Set, Phases, Phase
  <2>3. Promise!Pulse(t)
    BY <1>5, <2>1, <2>2 DEF Set, Promise!Pulse, Phases
  <2> QED BY <2>3 DEF Promise!PulseNext
<1>6. ASSUME NEW t \in Threads, Reset(t) PROVE UNCHANGED Promise!pulseVars
  BY <1>6, Stutter DEF Reset, Labels, Phase
<1>7. ASSUME NEW t \in Threads, Release(t) PROVE Promise!PulseNext
  <2>1. Phases' = [Phases EXCEPT ![t] = "idle"]
    BY <1>7, Moves DEF Release, Labels, Phase
  <2>2. Phases[t] = "sent"
    BY <1>7 DEF Release, Phases, Phase
  <2>3. Promise!Return(t)
    BY <1>7, <2>1, <2>2 DEF Release, Promise!Return, Phases
  <2> QED BY <2>3 DEF Promise!PulseNext
<1>8. CASE UNCHANGED vars
  BY <1>8 DEF vars, Promise!pulseVars
<1> QED BY <1>1, <1>2, <1>3, <1>4, <1>5, <1>6, <1>7, <1>8 DEF Next, Step

(* For any threads, IPs, commands and loop bound ip_setCommand implements  *)
(* CommandPulse: a call gives one pulse, or is refused while another       *)
(* thread is in the middle of a command.                                   *)
THEOREM PromiseKept == Spec => KeepsPromise
<1>1. Spec => []TypeOK
  BY TypeCorrect
<1>2. Spec => []NeverWedged
  BY NotWedged
<1> QED BY <1>1, <1>2, InitPromise, NextPromise, PTL
           DEF Spec, KeepsPromise, Promise!PulseSpec

-----------------------------------------------------------------------------
(***************************************************************************)
(* EvTime, for any years from 2000 to 2037, time zone and stops of the clock. *)
(*                                                                         *)
(* TimeInv relates the receiver's clock, a year with its day and second, to *)
(* the calendar that is stepped a day at a time: both count the same days  *)
(* from the epoch, shifted by the time zone.                               *)
(***************************************************************************)

(* Is it tomorrow where the device is?  The day of the year there, of a    *)
(* clock and of a leaf of the calendar.                                    *)
Local(c) == (c.sec + TZone) \div 86400
YearDay(c) == c.day - 1 + Local(c)
Ends(y) == MonYday(IsLeap(y))
DayOf(l) == Ends(l.year)[l.mon] + l.mday - 1

(* The clock and the calendar show days there are, ...                     *)
ClockOK ==
  /\ clock \in [year : FirstYear..LastYear, day : 1..366, sec : SecondsOfDay]
  /\ clock.day <= DaysIn(clock.year)

CalOK ==
  /\ cal \in [number : Int, year : FirstYear..(LastYear + 1), mon : 1..12, mday : 1..31]
  /\ cal.mday <= MonthLength(cal.year, cal.mon)

(* ... the same day, which is next year's first in the last hours of the   *)
(* clock's year, ...                                                       *)
CalFollows ==
  IF YearDay(clock) < DaysIn(clock.year)
    THEN cal.year = clock.year /\ DayOf(cal) = YearDay(clock)
    ELSE cal.year = clock.year + 1 /\ DayOf(cal) = 0

(* ... and the leaf's number is its distance from the first, in days of    *)
(* mktime's seconds.                                                       *)
Numbered ==
  Mktime(FirstYear) + cal.number * 86400 = Mktime(cal.year) + DayOf(cal) * 86400

(* What was latched is a conversion of the clock.                          *)
Latched ==
  \E d \in MktimeShifts :
    drT = Convert(at, d) /\ eps = drT.secPastEpoch - EpsTimeOffset

TimeInv == ClockOK /\ CalOK /\ CalFollows /\ Numbered /\ Latched

-----------------------------------------------------------------------------
Years == 2000..2038

LEMMA LeapYears == \A y \in Years : IsLeap(y) <=> y % 4 = 0
BY DEF Years, IsLeap

LEMMA YearLengths ==
  \A y \in Years :
    /\ DaysIn(y) \in {365, 366}
    /\ SecInYear(y) = DaysIn(y) * 86400
    /\ Mktime(y) \in Int /\ Mktime(y + 1) = Mktime(y) + DaysIn(y) * 86400
<1> SUFFICES ASSUME NEW y \in Years
             PROVE  /\ DaysIn(y) \in {365, 366}
                    /\ SecInYear(y) = DaysIn(y) * 86400
                    /\ Mktime(y) \in Int /\ Mktime(y + 1) = Mktime(y) + DaysIn(y) * 86400
  OBVIOUS
<1>1. DaysIn(y) = (IF y % 4 = 0 THEN 366 ELSE 365) /\ SecInYear(y) = DaysIn(y) * 86400
  BY LeapYears DEF DaysIn, SecInYear
<1>2. (y + 1 - 1969) \div 4 = (y - 1969) \div 4 + (IF y % 4 = 0 THEN 1 ELSE 0)
  BY DEF Years
<1>3. (y - 1969) \div 4 \in Int
  BY SMTT(30) DEF Years
<1> QED BY <1>1, <1>2, <1>3 DEF Mktime, Years

(* The two rows of the table.                                              *)
LeapEnds   == <<0, 31, 60, 91, 121, 152, 182, 213, 244, 274, 305, 335, 366>>
CommonEnds == <<0, 31, 59, 90, 120, 151, 181, 212, 243, 273, 304, 334, 365>>

LEMMA LeapTable ==
  /\ LeapEnds[1] = 0 /\ LeapEnds[2] = 31 /\ LeapEnds[3] = 60 /\ LeapEnds[4] = 91
  /\ LeapEnds[5] = 121 /\ LeapEnds[6] = 152 /\ LeapEnds[7] = 182 /\ LeapEnds[8] = 213 /\ LeapEnds[9] = 244
  /\ LeapEnds[10] = 274 /\ LeapEnds[11] = 305 /\ LeapEnds[12] = 335 /\ LeapEnds[13] = 366
BY SMTT(30) DEF LeapEnds

LEMMA CommonTable ==
  /\ CommonEnds[1] = 0 /\ CommonEnds[2] = 31 /\ CommonEnds[3] = 59 /\ CommonEnds[4] = 90
  /\ CommonEnds[5] = 120 /\ CommonEnds[6] = 151 /\ CommonEnds[7] = 181 /\ CommonEnds[8] = 212 /\ CommonEnds[9] = 243
  /\ CommonEnds[10] = 273 /\ CommonEnds[11] = 304 /\ CommonEnds[12] = 334 /\ CommonEnds[13] = 365
BY SMTT(30) DEF CommonEnds

LEMMA Months == \A m \in 1..12 : m \in {1, 2, 3, 4, 5, 6, 7, 8, 9, 10, 11, 12}
BY SMTT(30)

(* The table has the lengths of the months.                                *)
LEMMA MonthEnds ==
  ASSUME NEW y \in Years
  PROVE  /\ Ends(y)[1] = 0 /\ Ends(y)[13] = DaysIn(y)
         /\ \A m \in 1..13 : Ends(y)[m] \in 0..366
         /\ \A m \in 1..12 :
              /\ MonthLength(y, m) \in 28..31
              /\ Ends(y)[m + 1] = Ends(y)[m] + MonthLength(y, m)
<1>1. IsLeap(y) \in BOOLEAN
  BY Zenon DEF IsLeap
<1>2. \A m \in 1..12 : MonthLength(y, m) = IF m = 2 THEN (IF y % 4 = 0 THEN 29 ELSE 28)
                                        ELSE IF m \in {4, 6, 9, 11} THEN 30 ELSE 31
  BY DEF MonthLength
<1>3. CASE IsLeap(y)
  <2>1. y % 4 = 0 /\ DaysIn(y) = 366
    BY <1>3, LeapYears DEF DaysIn
  <2>2. Ends(y) = LeapEnds
    BY <1>3 DEF Ends, MonYday, LeapEnds
  <2>3. \A m \in 1..13 : m \in 1..12 \/ m = 13
    OBVIOUS
  <2> QED BY <1>2, <2>1, <2>2, <2>3, LeapTable, Months, SMTT(30)
<1>4. CASE ~IsLeap(y)
  <2>1. y % 4 # 0 /\ DaysIn(y) = 365
    BY <1>4, LeapYears DEF DaysIn
  <2>2. Ends(y) = CommonEnds
    BY <1>4 DEF Ends, MonYday, CommonEnds
  <2>3. \A m \in 1..13 : m \in 1..12 \/ m = 13
    OBVIOUS
  <2> QED BY <1>2, <2>1, <2>2, <2>3, CommonTable, Months, SMTT(30)
<1> QED BY <1>3, <1>4

LEMMA ZoneBounds == TZone \in Nat /\ TZone >= 1 /\ TZone <= 50400 /\ TZone % 60 = 0
BY TZoneAssumption

(* The local day is the UTC day or the next.                               *)
LEMMA LocalDay ==
  ASSUME NEW s \in Nat, s <= 86399
  PROVE  /\ (s + TZone) \div 86400 = IF s >= 86400 - TZone THEN 1 ELSE 0
         /\ (s + TZone) % 86400 = IF s >= 86400 - TZone THEN s + TZone - 86400 ELSE s + TZone
<1>1. \A n \in Nat : n <= 172799 => /\ n \div 86400 = IF n >= 86400 THEN 1 ELSE 0
                                   /\ n % 86400 = IF n >= 86400 THEN n - 86400 ELSE n
  OBVIOUS
<1>2. s + TZone \in Nat /\ s + TZone <= 172799
  BY ZoneBounds
<1> QED BY <1>1, <1>2, ZoneBounds, SMTT(30)

LEMMA StopBounds ==
  /\ \A s \in SecondsOfDay : s \in Nat /\ s <= 86399
  /\ 86400 - TZone \in SecondsOfDay /\ 0 \in SecondsOfDay
  /\ FirstYear \in Years /\ LastYear \in Years /\ FirstYear <= LastYear /\ LastYear <= 2037
<1>1. FirstYear \in 2000..2037 /\ LastYear \in FirstYear..2037
  BY YearsAssumption
<1>2. FirstYear \in Years /\ LastYear \in Years /\ FirstYear <= LastYear /\ LastYear <= 2037
  BY <1>1 DEF Years
<1>3. \A s \in SecondsOfDay : s \in Nat /\ s <= 86399
  BY SecondsAssumption, SMTT(30)
<1> QED BY <1>2, <1>3, SecondsAssumption

-----------------------------------------------------------------------------
LEMMA EndsApart ==
  ASSUME NEW y \in Years, NEW m \in 1..12
  PROVE  /\ Ends(y)[m] \in Int /\ Ends(y)[m + 1] \in Int /\ Ends(y)[13] \in Int
         /\ Ends(y)[m + 1] = Ends(y)[m] + MonthLength(y, m)
         /\ Ends(y)[m + 1] <= Ends(y)[13]
         /\ m < 12 => Ends(y)[m + 1] < Ends(y)[13]
<1>1. \A k \in 1..12 : Ends(y)[k + 1] >= Ends(y)[k] + 28 /\ Ends(y)[k] \in Int /\ Ends(y)[k + 1] \in Int
  <2> TAKE k \in 1..12
  <2>1. k \in 1..13 /\ k + 1 \in 1..13
    OBVIOUS
  <2>2. Ends(y)[k] \in 0..366 /\ Ends(y)[k + 1] \in 0..366
    BY <2>1, MonthEnds
  <2>3. MonthLength(y, k) \in 28..31 /\ Ends(y)[k + 1] = Ends(y)[k] + MonthLength(y, k)
    BY MonthEnds
  <2> QED BY <2>2, <2>3, SMTT(30)
<1>2. PICK M : M = Ends(y)
  OBVIOUS
<1>3. /\ M[3] >= M[2] + 28 /\ M[4] >= M[3] + 28 /\ M[5] >= M[4] + 28 /\ M[6] >= M[5] + 28
      /\ M[7] >= M[6] + 28 /\ M[8] >= M[7] + 28 /\ M[9] >= M[8] + 28 /\ M[10] >= M[9] + 28
      /\ M[11] >= M[10] + 28 /\ M[12] >= M[11] + 28 /\ M[13] >= M[12] + 28
      /\ M[2] \in Int /\ M[3] \in Int /\ M[4] \in Int /\ M[5] \in Int /\ M[6] \in Int
      /\ M[7] \in Int /\ M[8] \in Int /\ M[9] \in Int /\ M[10] \in Int /\ M[11] \in Int
      /\ M[12] \in Int /\ M[13] \in Int
  BY <1>1, <1>2
<1>4. m \in {1, 2, 3, 4, 5, 6, 7, 8, 9, 10, 11, 12}
  OBVIOUS
<1>5. m < 12 => M[m + 1] < M[13]
  BY <1>3, <1>4
<1>6. m = 12 => M[m + 1] = M[13]
  OBVIOUS
<1> QED BY <1>1, <1>2, <1>3, <1>4, <1>5, <1>6, MonthEnds

LEMMA DayOfRecord ==
  \A n, y, m, d : DayOf([number |-> n, year |-> y, mon |-> m, mday |-> d]) = Ends(y)[m] + d - 1
BY DEF DayOf

(* A leaf turned is one day more, in the year and in all.                  *)
LEMMA LeafTurned ==
  ASSUME CalOK, cal.year <= LastYear, Numbered
  PROVE  LET c == NextLeaf(cal) IN
         /\ c \in [number : Int, year : FirstYear..(LastYear + 1), mon : 1..12, mday : 1..31]
         /\ c.mday <= MonthLength(c.year, c.mon)
         /\ IF DayOf(cal) + 1 < DaysIn(cal.year)
              THEN c.year = cal.year /\ DayOf(c) = DayOf(cal) + 1
              ELSE c.year = cal.year + 1 /\ DayOf(c) = 0
         /\ DayOf(cal) < DaysIn(cal.year)
         /\ Mktime(FirstYear) + c.number * 86400 = Mktime(c.year) + DayOf(c) * 86400
<1>1. PICK n, y, m, d : /\ n = cal.number /\ y = cal.year /\ m = cal.mon /\ d = cal.mday
                        /\ cal = [number |-> n, year |-> y, mon |-> m, mday |-> d]
  BY DEF CalOK
<1>2. PICK c : c = NextLeaf(cal)
  OBVIOUS
<1>3. /\ n \in Int /\ y \in Years /\ y + 1 \in Years /\ m \in 1..12 /\ d \in 1..31
      /\ d <= MonthLength(y, m) /\ y \in FirstYear..(LastYear + 1) /\ y + 1 \in FirstYear..(LastYear + 1)
  BY <1>1, StopBounds, SMTT(30) DEF CalOK, Years
<1>4. /\ MonthLength(y, m) \in 28..31 /\ MonthLength(y + 1, 1) \in 28..31
      /\ Ends(y + 1)[1] = 0 /\ Ends(y)[13] = DaysIn(y)
      /\ m < 12 => MonthLength(y, m + 1) \in 28..31
  BY <1>3, MonthEnds, SMTT(30)
<1>5. /\ Ends(y)[m] \in Int /\ Ends(y)[m + 1] \in Int /\ Ends(y)[13] \in Int
      /\ Ends(y)[m + 1] = Ends(y)[m] + MonthLength(y, m)
      /\ Ends(y)[m + 1] <= Ends(y)[13]
      /\ m < 12 => Ends(y)[m + 1] < Ends(y)[13]
  BY <1>3, EndsApart
<1>6. DayOf(cal) = Ends(y)[m] + d - 1
  BY <1>1, DayOfRecord
<1>7. Mktime(FirstYear) + n * 86400 = Mktime(y) + DayOf(cal) * 86400
  BY <1>1 DEF Numbered
<1>8. Mktime(FirstYear) \in Int /\ Mktime(y) \in Int /\ Mktime(y + 1) = Mktime(y) + DaysIn(y) * 86400
  BY <1>3, StopBounds, YearLengths
<1>9. SUFFICES
        /\ c \in [number : Int, year : FirstYear..(LastYear + 1), mon : 1..12, mday : 1..31]
        /\ c.mday <= MonthLength(c.year, c.mon)
        /\ IF DayOf(cal) + 1 < DaysIn(y)
             THEN c.year = y /\ DayOf(c) = DayOf(cal) + 1
             ELSE c.year = y + 1 /\ DayOf(c) = 0
        /\ DayOf(cal) < DaysIn(y)
        /\ Mktime(FirstYear) + c.number * 86400 = Mktime(c.year) + DayOf(c) * 86400
  BY <1>1, <1>2
<1>10. CASE d < MonthLength(y, m)
  <2>1. c = [number |-> n + 1, year |-> y, mon |-> m, mday |-> d + 1]
    BY <1>1, <1>2, <1>10 DEF NextLeaf
  <2>2. /\ DayOf(c) = Ends(y)[m] + (d + 1) - 1
        /\ c.number = n + 1 /\ c.year = y /\ c.mon = m /\ c.mday = d + 1
    BY <2>1, DayOfRecord
  <2>3. n + 1 \in Int /\ d + 1 \in 1..31 /\ d + 1 <= MonthLength(y, m)
    BY <1>3, <1>4, <1>10
  <2>4. DayOf(c) = DayOf(cal) + 1 /\ DayOf(cal) + 1 < DaysIn(y) /\ DayOf(cal) \in Int
    BY <1>3, <1>4, <1>5, <1>6, <1>10, <2>2
  <2>5. Mktime(FirstYear) + c.number * 86400 = Mktime(c.year) + DayOf(c) * 86400
    BY <1>3, <1>7, <1>8, <2>2, <2>4
  <2>6. c \in [number : Int, year : FirstYear..(LastYear + 1), mon : 1..12, mday : 1..31]
    BY <1>3, <2>1, <2>3
  <2>7. c.mday <= MonthLength(c.year, c.mon)
    BY <2>2, <2>3
  <2>8. DayOf(cal) < DaysIn(y)
    BY <1>4, <1>5, <2>4
  <2> QED BY <2>2, <2>4, <2>5, <2>6, <2>7, <2>8
<1>11. CASE d = MonthLength(y, m) /\ m < 12
  <2>1. c = [number |-> n + 1, year |-> y, mon |-> m + 1, mday |-> 1]
    <3>1. ~(cal.mday < MonthLength(cal.year, cal.mon)) /\ cal.mon < 12
      BY <1>1, <1>3, <1>4, <1>11
    <3> QED BY <1>1, <1>2, <3>1 DEF NextLeaf
  <2>2. /\ DayOf(c) = Ends(y)[m + 1] + 1 - 1
        /\ c.number = n + 1 /\ c.year = y /\ c.mon = m + 1 /\ c.mday = 1
    BY <2>1, DayOfRecord
  <2>3. n + 1 \in Int /\ m + 1 \in 1..12 /\ 1 \in 1..31 /\ 1 <= MonthLength(y, m + 1)
    BY <1>3, <1>4, <1>11
  <2>4. DayOf(c) = DayOf(cal) + 1 /\ DayOf(cal) + 1 < DaysIn(y) /\ DayOf(cal) \in Int
    BY <1>3, <1>4, <1>5, <1>6, <1>11, <2>2
  <2>5. Mktime(FirstYear) + c.number * 86400 = Mktime(c.year) + DayOf(c) * 86400
    BY <1>3, <1>7, <1>8, <2>2, <2>4
  <2>6. c \in [number : Int, year : FirstYear..(LastYear + 1), mon : 1..12, mday : 1..31]
    BY <1>3, <2>1, <2>3
  <2>7. c.mday <= MonthLength(c.year, c.mon)
    BY <2>2, <2>3
  <2>8. DayOf(cal) < DaysIn(y)
    BY <1>4, <1>5, <2>4
  <2> QED BY <2>2, <2>4, <2>5, <2>6, <2>7, <2>8
<1>12. CASE d = MonthLength(y, m) /\ m = 12
  <2>1. c = [number |-> n + 1, year |-> y + 1, mon |-> 1, mday |-> 1]
    <3>1. ~(cal.mday < MonthLength(cal.year, cal.mon)) /\ ~(cal.mon < 12)
      BY <1>1, <1>3, <1>4, <1>12
    <3> QED BY <1>1, <1>2, <3>1 DEF NextLeaf
  <2>2. /\ DayOf(c) = Ends(y + 1)[1] + 1 - 1
        /\ c.number = n + 1 /\ c.year = y + 1 /\ c.mon = 1 /\ c.mday = 1
    BY <2>1, DayOfRecord
  <2>3. n + 1 \in Int /\ 1 \in 1..12 /\ 1 \in 1..31 /\ 1 <= MonthLength(y + 1, 1)
    BY <1>3, <1>4
  <2>4. DayOf(c) = 0 /\ DayOf(cal) + 1 = DaysIn(y) /\ DayOf(cal) \in Int
    <3>1. m + 1 = 13
      BY <1>12
    <3> QED BY <1>3, <1>4, <1>5, <1>6, <1>12, <2>2, <3>1
  <2>5. Mktime(FirstYear) + c.number * 86400 = Mktime(c.year) + DayOf(c) * 86400
    BY <1>3, <1>7, <1>8, <2>2, <2>4
  <2>6. c \in [number : Int, year : FirstYear..(LastYear + 1), mon : 1..12, mday : 1..31]
    BY <1>3, <2>1, <2>3
  <2>7. ~(DayOf(cal) + 1 < DaysIn(y)) /\ DayOf(cal) < DaysIn(y)
    BY <2>4
  <2> QED BY <2>2, <2>3, <2>4, <2>5, <2>6, <2>7
<1> QED
  <2>1. d < MonthLength(y, m) \/ d = MonthLength(y, m)
    BY <1>3, <1>4
  <2>2. m < 12 \/ m = 12
    BY <1>3
  <2> QED BY <1>10, <1>11, <1>12, <2>1, <2>2

-----------------------------------------------------------------------------
(* Hours, minutes and seconds make up the time of day.                     *)
LEMMA TimeOfDay ==
  ASSUME NEW n \in Nat, NEW hour, NEW min, NEW sec,
         hour = (n % 86400) \div 3600, min = (n % 3600) \div 60, sec = n % 60
  PROVE  hour * 3600 + min * 60 + sec = n % 86400
<1>1. PICK q \in Nat, r \in Nat : n = q * 86400 + r /\ r < 86400 /\ n % 86400 = r
  OBVIOUS
<1>2. PICK h \in Nat, s \in Nat : r = h * 3600 + s /\ s < 3600 /\ r \div 3600 = h
  BY <1>1
<1>3. PICK k \in Nat, t \in Nat : s = k * 60 + t /\ t < 60 /\ s \div 60 = k
  BY <1>2
<1>4. n % 3600 = s
  <2>1. n = (24 * q + h) * 3600 + s
    BY <1>1, <1>2
  <2>2. \A u \in Nat : (u * 3600 + s) % 3600 = s
    BY <1>2
  <2> QED BY <2>1, <2>2
<1>5. n % 60 = t
  <2>1. n = (1440 * q + 60 * h + k) * 60 + t
    BY <1>1, <1>2, <1>3
  <2>2. \A u \in Nat : (u * 60 + t) % 60 = t
    BY <1>3
  <2> QED BY <2>1, <2>2
<1>6. hour = h /\ min = k /\ sec = t
  BY <1>1, <1>2, <1>3, <1>4, <1>5
<1>7. h * 3600 + k * 60 + t = r
  BY <1>2, <1>3
<1>8. hour * 3600 + min * 60 + sec = r
  BY <1>6, <1>7
<1> QED BY <1>1, <1>8

LEMMA DayAndTime ==
  ASSUME NEW w \in Nat, NEW r \in Nat, r < 86400
  PROVE  /\ (w * 86400 + r) \div 86400 = w
         /\ (w * 86400 + r) % 86400 = r
         /\ (w * 86400 + r) % 60 = r % 60
         /\ w * 86400 + r \in Nat
OBVIOUS

ClockValues == [year : FirstYear..LastYear, day : 1..366, sec : SecondsOfDay]
LocalTime(c) == (c.sec + TZone) % 86400

(* What the conversion makes of a time: the local year, its day and the    *)
(* local time of day, whichever side of a New Year the time is.            *)
LEMMA Converted ==
  ASSUME NEW c \in ClockValues, c.day <= DaysIn(c.year), NEW e \in Int
  PROVE  LET over == ~(YearDay(c) < DaysIn(c.year))
             w    == IF over THEN 0 ELSE YearDay(c)
             z    == IF over THEN c.year + 1 ELSE c.year
             m    == Month(IsLeap(c.year), w)
             dom  == w - Ends(c.year)[m + 1]
             x    == Convert(c, e)
         IN /\ LocalTime(c) \in Nat /\ LocalTime(c) < 86400 /\ w \in Nat
            /\ x.year = z
            /\ x.secPastEpoch = Mktime(z) + e + (w * 86400 + LocalTime(c))
            /\ x.hour * 3600 + x.min * 60 + x.sec = LocalTime(c)
            /\ x.mon = m /\ x.mday = IF dom > 30 THEN 31 ELSE dom + 1
<1> DEFINE over == ~(YearDay(c) < DaysIn(c.year))
           w    == IF over THEN 0 ELSE YearDay(c)
           raw  == (c.day - 1) * 86400 + c.sec + TZone
           secs == IF RollsOver(c.year, raw) THEN raw - SecInYear(c.year) ELSE raw
<1>1. /\ c.year \in Years /\ c.day \in 1..366 /\ c.sec \in Nat /\ c.sec <= 86399
      /\ DaysIn(c.year) \in {365, 366} /\ SecInYear(c.year) = DaysIn(c.year) * 86400
  BY StopBounds, YearLengths, SMTT(30) DEF ClockValues, Years
<1>2. /\ Local(c) = IF c.sec >= 86400 - TZone THEN 1 ELSE 0
      /\ LocalTime(c) = IF c.sec >= 86400 - TZone THEN c.sec + TZone - 86400 ELSE c.sec + TZone
  BY <1>1, LocalDay DEF Local, LocalTime
<1>3. LocalTime(c) \in Nat /\ LocalTime(c) < 86400
  BY <1>1, <1>2, ZoneBounds, SMTT(30)
<1>4. YearDay(c) \in Nat /\ YearDay(c) <= DaysIn(c.year)
  BY <1>1, <1>2, SMTT(30) DEF YearDay
<1>5. raw = YearDay(c) * 86400 + LocalTime(c)
  BY <1>1, <1>2, ZoneBounds, SMTT(30) DEF YearDay
<1>6. RollsOver(c.year, raw) <=> over
  BY <1>1, <1>3, <1>4, <1>5 DEF RollsOver
<1>7. secs = w * 86400 + LocalTime(c) /\ w \in Nat
  BY <1>1, <1>3, <1>4, <1>5, <1>6
<1> QED
  <2>1. secs \in Nat /\ secs \div 86400 = w /\ secs % 86400 = LocalTime(c) /\ secs % 60 = LocalTime(c) % 60
    BY <1>3, <1>7, DayAndTime
  <2>2. c.sec % 60 = secs % 60
    <3>1. LocalTime(c) % 60 = c.sec % 60
      BY <1>1, <1>2, ZoneBounds, SMTT(30)
    <3> QED BY <2>1, <3>1
  <2> DEFINE x == Convert(c, e)
             z == IF over THEN c.year + 1 ELSE c.year
             m == Month(IsLeap(c.year), w)
             dom == w - Ends(c.year)[m + 1]
  <2>4. /\ x.year = (IF RollsOver(c.year, raw) THEN c.year + 1 ELSE c.year)
        /\ x.hour = (secs % 86400) \div 3600 /\ x.min = (secs % 3600) \div 60
        /\ x.sec = c.sec % 60
        /\ x.mon = Month(IsLeap(c.year), secs \div 86400)
    BY DEF Convert
  <2>5. x.secPastEpoch = Mktime(IF RollsOver(c.year, raw) THEN c.year + 1 ELSE c.year) + e + secs
    BY DEF Convert
  <2>6. x.mday = IF (secs \div 86400) - Ends(c.year)[Month(IsLeap(c.year), secs \div 86400) + 1] > 30
                   THEN 31
                   ELSE (secs \div 86400) - Ends(c.year)[Month(IsLeap(c.year), secs \div 86400) + 1] + 1
    BY DEF Convert, Ends
  <2>7. x.year = z /\ x.secPastEpoch = Mktime(z) + e + (w * 86400 + LocalTime(c))
    BY <1>6, <1>7, <2>4, <2>5
  <2>8. x.mon = m /\ x.mday = IF dom > 30 THEN 31 ELSE dom + 1
    BY <2>1, <2>4, <2>6
  <2>9. x.hour * 3600 + x.min * 60 + x.sec = LocalTime(c)
    <3> HIDE DEF secs, x
    <3>1. x.sec = secs % 60
      BY <2>2, <2>4
    <3>2. PICK n, h, k, t : n = secs /\ h = x.hour /\ k = x.min /\ t = x.sec
      OBVIOUS
    <3>3. n \in Nat /\ n % 86400 = LocalTime(c)
      BY <2>1, <3>2
    <3>4. h = (n % 86400) \div 3600 /\ k = (n % 3600) \div 60 /\ t = n % 60
      BY <2>4, <3>1, <3>2
    <3>5. h * 3600 + k * 60 + t = n % 86400
      BY <3>3, <3>4, TimeOfDay, SMTT(30)
    <3> QED BY <3>2, <3>3, <3>5
  <2> QED BY <1>3, <1>7, <2>7, <2>8, <2>9

-----------------------------------------------------------------------------
LEMMA MinIs ==
  ASSUME NEW S \in SUBSET Int, NEW m \in S, \A k \in S : m <= k
  PROVE  Min(S) = m
<1>1. \A x \in S : (\A k \in S : x <= k) => x = m
  OBVIOUS
<1>2. \E x \in S : \A k \in S : x <= k
  OBVIOUS
<1> QED BY <1>1, <1>2 DEF Min

LEMMA EndsAscend ==
  ASSUME NEW y \in Years, NEW m \in 1..12, NEW k \in 1..12, k < m
  PROVE  Ends(y)[k + 1] <= Ends(y)[m]
<1>1. \A j \in 1..12 : Ends(y)[j + 1] >= Ends(y)[j] /\ Ends(y)[j] \in Int /\ Ends(y)[j + 1] \in Int
  <2> SUFFICES ASSUME NEW j \in 1..12
               PROVE  /\ Ends(y)[j + 1] >= Ends(y)[j]
                      /\ Ends(y)[j] \in Int /\ Ends(y)[j + 1] \in Int
    BY SMTT(30)
  <2>1. MonthLength(y, j) \in 28..31
    BY MonthEnds
  <2> QED BY <2>1, EndsApart
<1>2. PICK M : M = Ends(y)
  OBVIOUS
<1>3. /\ M[3] >= M[2] /\ M[4] >= M[3] /\ M[5] >= M[4] /\ M[6] >= M[5]
      /\ M[7] >= M[6] /\ M[8] >= M[7] /\ M[9] >= M[8] /\ M[10] >= M[9]
      /\ M[11] >= M[10] /\ M[12] >= M[11] /\ M[13] >= M[12]
      /\ M[2] \in Int /\ M[3] \in Int /\ M[4] \in Int /\ M[5] \in Int /\ M[6] \in Int
      /\ M[7] \in Int /\ M[8] \in Int /\ M[9] \in Int /\ M[10] \in Int /\ M[11] \in Int
      /\ M[12] \in Int /\ M[13] \in Int
  BY <1>1, <1>2
<1>4. /\ m \in {1, 2, 3, 4, 5, 6, 7, 8, 9, 10, 11, 12}
      /\ k \in {1, 2, 3, 4, 5, 6, 7, 8, 9, 10, 11}
  OBVIOUS
<1>5. M[k + 1] <= M[m]
  BY <1>3, <1>4, SMTT(60)
<1> QED BY <1>2, <1>5

(* The loop over the months finds the month of every day but the first of  *)
(* a month.                                                                *)
LEMMA MonthFound ==
  ASSUME NEW y \in Years, NEW m \in 1..12, NEW d \in 2..31, d <= MonthLength(y, m)
  PROVE  Month(IsLeap(y), Ends(y)[m] + d - 1) = m - 1
<1> DEFINE w == Ends(y)[m] + d - 1
           S == {k \in 1..12 : w <= Ends(y)[k + 1]} \cup {12}
<1>1. Month(IsLeap(y), w) = Min(S) - 1
  BY SMTT(30) DEF Month, Ends
<1>2. /\ Ends(y)[m] \in Int /\ MonthLength(y, m) \in Int
      /\ Ends(y)[m + 1] = Ends(y)[m] + MonthLength(y, m)
  BY MonthEnds, EndsApart
<1>3. m \in S
  BY <1>2
<1>4. \A k \in S : m <= k
  <2> SUFFICES ASSUME NEW k \in 1..12, k < m PROVE ~(w <= Ends(y)[k + 1])
    OBVIOUS
  <2>1. Ends(y)[k + 1] <= Ends(y)[m] /\ Ends(y)[k + 1] \in Int
    BY EndsAscend, EndsApart
  <2> QED BY <1>2, <2>1
<1>5. S \in SUBSET Int
  OBVIOUS
<1>6. Min(S) = m
  <2> HIDE DEF S
  <2> QED BY <1>3, <1>4, <1>5, MinIs
<1> QED BY <1>1, <1>6

-----------------------------------------------------------------------------
LEMMA InitTimeInv == TimeInit => TimeInv
<1> SUFFICES ASSUME TimeInit PROVE TimeInv
  OBVIOUS
<1>1. /\ FirstYear \in Years /\ LastYear \in Years /\ FirstYear <= LastYear
      /\ 0 \in SecondsOfDay
  BY StopBounds
<1>2. clock = [year |-> FirstYear, day |-> 1, sec |-> 0]
  BY DEF TimeInit, Midnight
<1>3. cal = [number |-> 0, year |-> FirstYear, mon |-> 1, mday |-> 1]
  BY SMTT(30) DEF TimeInit, FirstLeaf
<1>4. /\ Ends(FirstYear)[1] = 0 /\ MonthLength(FirstYear, 1) \in 28..31
      /\ DaysIn(FirstYear) \in {365, 366}
  BY <1>1, MonthEnds, YearLengths
<1>5. YearDay(clock) = 0
  <2>1. Local(clock) = 0
    BY <1>2, LocalDay, ZoneBounds DEF Local
  <2> QED BY <1>2, <2>1 DEF YearDay
<1>6. DayOf(cal) = 0
  BY <1>3, <1>4, DayOfRecord
<1>7. ClockOK
  BY <1>1, <1>2, <1>4 DEF ClockOK, Years
<1>8. CalOK
  BY <1>1, <1>3, <1>4 DEF CalOK, Years
<1>9. CalFollows
  BY <1>2, <1>3, <1>4, <1>5, <1>6 DEF CalFollows
<1>10. Numbered
  BY <1>1, <1>3, <1>6, YearLengths DEF Numbered
<1>11. Latched
  BY ShiftsAssumption DEF TimeInit, Latched
<1> QED BY <1>7, <1>8, <1>9, <1>10, <1>11 DEF TimeInv

(* Where the clock is before it moves on.                                  *)
LEMMA ClockFacts ==
  ASSUME ClockOK
  PROVE  /\ clock.year \in Years /\ clock.year >= FirstYear /\ clock.year <= LastYear
         /\ clock.day \in 1..366 /\ clock.day <= DaysIn(clock.year)
         /\ clock.sec \in Nat /\ clock.sec <= 86399 /\ clock.sec \in SecondsOfDay
         /\ DaysIn(clock.year) \in {365, 366}
         /\ Local(clock) = IF clock.sec >= 86400 - TZone THEN 1 ELSE 0
         /\ clock = [year |-> clock.year, day |-> clock.day, sec |-> clock.sec]
<1>1. /\ clock.year \in Years /\ clock.year >= FirstYear /\ clock.year <= LastYear
      /\ clock.day \in 1..366 /\ clock.day <= DaysIn(clock.year)
      /\ clock.sec \in Nat /\ clock.sec <= 86399 /\ clock.sec \in SecondsOfDay
      /\ clock = [year |-> clock.year, day |-> clock.day, sec |-> clock.sec]
  BY StopBounds DEF ClockOK, Years
<1> QED BY <1>1, YearLengths, LocalDay DEF Local

(* The clock's last stop of a day is in the next local day.                *)
LEMMA LastStop ==
  ASSUME ClockOK, {s \in SecondsOfDay : s > clock.sec} = {}
  PROVE  Local(clock) = 1
<1>1. 86400 - TZone \in SecondsOfDay /\ 86400 - TZone \in Int
  BY StopBounds, ZoneBounds
<1>2. clock.sec >= 86400 - TZone
  BY <1>1, ClockFacts
<1> QED BY <1>2, ClockFacts

LEMMA AdvanceTimeInv == TimeInv /\ Advance => TimeInv'
<1> SUFFICES ASSUME TimeInv, Advance PROVE TimeInv'
  OBVIOUS
<1> DEFINE later == {s \in SecondsOfDay : s > clock.sec}
<1>1. ClockOK /\ CalOK /\ CalFollows /\ Numbered /\ Latched
  BY DEF TimeInv
<1>2. Latched'
  BY <1>1 DEF Latched, Advance
<1>3. CASE /\ \E s \in later : clock' = [clock EXCEPT !.sec = s]
           /\ cal' = IF Local(clock') > Local(clock) THEN NextLeaf(cal) ELSE cal
  <2>1. PICK s \in SecondsOfDay : s > clock.sec /\ clock' = [clock EXCEPT !.sec = s]
    BY <1>3
  <2>2. s \in Nat /\ s <= 86399
    BY StopBounds
  <2>3. clock'.year = clock.year /\ clock'.day = clock.day /\ clock'.sec = s /\ ClockOK'
    BY <1>1, <2>1 DEF ClockOK
  <2>4. Local(clock') = IF s >= 86400 - TZone THEN 1 ELSE 0
    BY <2>2, <2>3, LocalDay DEF Local
  <2>5. CASE Local(clock') = Local(clock)
    <3>1. cal' = cal /\ YearDay(clock') = YearDay(clock)
      BY <1>3, <2>3, <2>4, <2>5, ClockFacts DEF YearDay
    <3>2. CalOK' /\ Numbered'
      BY <1>1, <3>1 DEF CalOK, Numbered
    <3>3. CalFollows'
      BY <1>1, <2>3, <3>1 DEF CalFollows
    <3> QED BY <1>2, <2>3, <3>2, <3>3 DEF TimeInv
  <2>6. CASE Local(clock') # Local(clock)
    <3>1. Local(clock') = 1 /\ Local(clock) = 0
      BY <1>1, <2>1, <2>2, <2>4, <2>6, ClockFacts, ZoneBounds
    <3>2. cal' = NextLeaf(cal) /\ YearDay(clock') = clock.day /\ YearDay(clock) = clock.day - 1
      BY <1>1, <1>3, <2>3, <3>1, ClockFacts DEF YearDay
    <3>3. cal.year = clock.year /\ DayOf(cal) = clock.day - 1 /\ cal.year <= LastYear
      BY <1>1, <3>2, ClockFacts DEF CalFollows
    <3>4. CalOK' /\ Numbered'
      BY <1>1, <3>2, <3>3, LeafTurned DEF CalOK, Numbered
    <3>5. IF clock.day < DaysIn(clock.year)
            THEN cal'.year = clock.year /\ DayOf(cal') = clock.day
            ELSE cal'.year = clock.year + 1 /\ DayOf(cal') = 0
      <4>1. DayOf(cal) + 1 = clock.day
        BY <1>1, <3>3, ClockFacts
      <4> QED BY <1>1, <3>2, <3>3, <4>1, LeafTurned
    <3>6. CalFollows'
      BY <2>3, <3>2, <3>5 DEF CalFollows
    <3> QED BY <1>2, <2>3, <3>4, <3>6 DEF TimeInv
  <2> QED BY <2>5, <2>6
<1>4. CASE /\ later = {} /\ clock.day < DaysIn(clock.year)
           /\ clock' = [clock EXCEPT !.sec = 0, !.day = @ + 1]
           /\ cal' = IF Local(clock) = 0 THEN NextLeaf(cal) ELSE cal
  <2>1. Local(clock) = 1
    BY <1>1, <1>4, LastStop
  <2>2. /\ clock'.year = clock.year /\ clock'.day = clock.day + 1 /\ clock'.sec = 0
        /\ clock' = [year |-> clock.year, day |-> clock.day + 1, sec |-> 0]
    <3>1. PICK y, d, s : clock = [year |-> y, day |-> d, sec |-> s]
      BY <1>1, ClockFacts
    <3> QED BY <1>4, <3>1
  <2>3. clock.day + 1 \in 1..366 /\ clock.day + 1 <= DaysIn(clock.year)
    BY <1>1, <1>4, ClockFacts
  <2>4. ClockOK'
    BY <1>1, <2>2, <2>3, StopBounds DEF ClockOK
  <2>5. Local(clock') = 0
    BY <2>2, LocalDay, ZoneBounds DEF Local
  <2>6. cal' = cal /\ YearDay(clock') = YearDay(clock)
    BY <1>1, <1>4, <2>1, <2>2, <2>5, ClockFacts DEF YearDay
  <2>7. CalOK' /\ Numbered'
    BY <1>1, <2>6 DEF CalOK, Numbered
  <2>8. CalFollows'
    BY <1>1, <2>2, <2>6 DEF CalFollows
  <2> QED BY <1>2, <2>4, <2>7, <2>8 DEF TimeInv
<1>5. CASE /\ later = {} /\ clock.day = DaysIn(clock.year) /\ clock.year < LastYear
           /\ clock' = Midnight(clock.year + 1)
           /\ cal' = IF Local(clock) = 0 THEN NextLeaf(cal) ELSE cal
  <2>1. Local(clock) = 1
    BY <1>1, <1>5, LastStop
  <2>2. /\ clock'.year = clock.year + 1 /\ clock'.day = 1 /\ clock'.sec = 0
        /\ clock' = [year |-> clock.year + 1, day |-> 1, sec |-> 0]
    BY <1>5 DEF Midnight
  <2>3. /\ clock.year + 1 \in FirstYear..LastYear
        /\ DaysIn(clock.year + 1) \in {365, 366}
    <3>1. clock.year + 1 \in FirstYear..LastYear /\ clock.year + 1 \in Years
      BY <1>1, <1>5, ClockFacts, StopBounds DEF Years
    <3> QED BY <3>1, YearLengths
  <2>4. ClockOK'
    BY <2>2, <2>3, StopBounds DEF ClockOK
  <2>5. Local(clock') = 0
    BY <2>2, LocalDay, ZoneBounds DEF Local
  <2>6. cal' = cal /\ YearDay(clock') = 0 /\ YearDay(clock) = DaysIn(clock.year)
    BY <1>1, <1>5, <2>1, <2>2, <2>5, ClockFacts DEF YearDay
  <2>7. CalOK' /\ Numbered'
    BY <1>1, <2>6 DEF CalOK, Numbered
  <2>8. cal.year = clock.year + 1 /\ DayOf(cal) = 0
    BY <1>1, <2>6, ClockFacts DEF CalFollows
  <2>9. CalFollows'
    BY <2>2, <2>3, <2>6, <2>8 DEF CalFollows
  <2> QED BY <1>2, <2>4, <2>7, <2>9 DEF TimeInv
<1> QED BY <1>3, <1>4, <1>5 DEF Advance, Local

LEMMA TimeInvariant == TimeSpec => []TimeInv
<1>1. TimeInv /\ [TimeNext]_timeVars => TimeInv'
  <2>1. TimeInv /\ GetEvTime => TimeInv'
    BY DEF TimeInv, GetEvTime, ClockOK, CalOK, CalFollows, Numbered, Latched
  <2>2. TimeInv /\ UNCHANGED timeVars => TimeInv'
    BY DEF TimeInv, timeVars, ClockOK, CalOK, CalFollows, Numbered, Latched
  <2> QED BY <2>1, <2>2, AdvanceTimeInv DEF TimeNext
<1> QED BY <1>1, InitTimeInv, PTL DEF TimeSpec

-----------------------------------------------------------------------------
(* What a sample of the clock shows, in terms of the calendar.             *)
LEMMA Shows ==
  ASSUME TimeInv, Sampled
  PROVE  \E e \in MktimeShifts :
           /\ LocalSec \in Nat /\ LocalSec < 86400 /\ e \in Int
           /\ drT.year = cal.year
           /\ drT.secPastEpoch = Mktime(cal.year) + e + (DayOf(cal) * 86400 + LocalSec)
           /\ eps = drT.secPastEpoch - 631152000
           /\ drT.hour * 3600 + drT.min * 60 + drT.sec = LocalSec
           /\ cal.year = clock.year =>
                LET m == Month(IsLeap(cal.year), DayOf(cal))
                    dom == DayOf(cal) - Ends(cal.year)[m + 1]
                IN drT.mon = m /\ drT.mday = IF dom > 30 THEN 31 ELSE dom + 1
           /\ cal.year # clock.year => DayOf(cal) = 0
<1>1. PICK e \in MktimeShifts : drT = Convert(clock, e) /\ eps = drT.secPastEpoch - EpsTimeOffset
  BY DEF TimeInv, Latched, Sampled
<1>2. e \in Int
  BY ShiftsAssumption
<1>3. clock \in ClockValues /\ clock.day <= DaysIn(clock.year)
  BY DEF TimeInv, ClockOK, ClockValues
<1>4. LocalTime(clock) = LocalSec
  BY DEF LocalTime, LocalSec, Sampled
<1>5. CASE YearDay(clock) < DaysIn(clock.year)
  <2>1. cal.year = clock.year /\ DayOf(cal) = YearDay(clock)
    BY <1>5 DEF TimeInv, CalFollows
  <2>2. /\ drT.year = clock.year
        /\ drT.secPastEpoch = Mktime(clock.year) + e + (YearDay(clock) * 86400 + LocalTime(clock))
        /\ LocalTime(clock) \in Nat /\ LocalTime(clock) < 86400
        /\ drT.hour * 3600 + drT.min * 60 + drT.sec = LocalTime(clock)
        /\ drT.mon = Month(IsLeap(clock.year), YearDay(clock))
    BY <1>1, <1>2, <1>3, <1>5, Converted
  <2>3. LET dom == YearDay(clock) - Ends(clock.year)[Month(IsLeap(clock.year), YearDay(clock)) + 1]
        IN drT.mday = IF dom > 30 THEN 31 ELSE dom + 1
    BY <1>1, <1>2, <1>3, <1>5, Converted
  <2> QED BY <1>1, <1>2, <1>4, <2>1, <2>2, <2>3 DEF EpsTimeOffset
<1>6. CASE ~(YearDay(clock) < DaysIn(clock.year))
  <2>1. cal.year = clock.year + 1 /\ DayOf(cal) = 0
    BY <1>6 DEF TimeInv, CalFollows
  <2>2. /\ drT.year = clock.year + 1
        /\ drT.secPastEpoch = Mktime(clock.year + 1) + e + (0 * 86400 + LocalTime(clock))
        /\ LocalTime(clock) \in Nat /\ LocalTime(clock) < 86400
        /\ drT.hour * 3600 + drT.min * 60 + drT.sec = LocalTime(clock)
    BY <1>1, <1>2, <1>3, <1>6, Converted
  <2>3. cal.year # clock.year
    BY <1>3, <2>1, StopBounds DEF ClockValues, Years
  <2> QED BY <1>1, <1>2, <1>4, <2>1, <2>2, <2>3 DEF EpsTimeOffset
<1> QED BY <1>5, <1>6

(* For every time zone east of UTC, any years from 2000 to 2037 and any    *)
(* stops of the clock: the seconds of the epoch and the EPICS time stamp   *)
(* run evenly over the local and the UTC New Year, leap years included.    *)
THEOREM EpochRunsEvenly == TimeSpec => []EpochIsLinear
<1>1. TimeInv => EpochIsLinear
  <2> SUFFICES ASSUME TimeInv, Sampled
               PROVE  /\ drT.secPastEpoch - (Mktime(FirstYear) + cal.number * 86400 + LocalSec)
                            \in MktimeShifts
                      /\ eps = drT.secPastEpoch - 631152000
    BY DEF EpochIsLinear
  <2>1. PICK e \in MktimeShifts :
          /\ LocalSec \in Nat /\ e \in Int
          /\ drT.secPastEpoch = Mktime(cal.year) + e + (DayOf(cal) * 86400 + LocalSec)
          /\ eps = drT.secPastEpoch - 631152000
    BY Shows
  <2>2. Mktime(FirstYear) + cal.number * 86400 = Mktime(cal.year) + DayOf(cal) * 86400
    BY DEF TimeInv, Numbered
  <2>3. /\ Mktime(FirstYear) \in Int /\ Mktime(cal.year) \in Int
        /\ cal.number \in Int /\ DayOf(cal) \in Int
    <3>1. cal.year \in Years /\ cal.mon \in 1..12 /\ cal.mday \in 1..31 /\ cal.number \in Int
      BY StopBounds DEF TimeInv, CalOK, Years
    <3>2. Ends(cal.year)[cal.mon] \in Int
      BY <3>1, EndsApart
    <3> QED BY <3>1, <3>2, StopBounds, YearLengths DEF DayOf
  <2>4. drT.secPastEpoch - (Mktime(FirstYear) + cal.number * 86400 + LocalSec) = e
    BY <2>1, <2>2, <2>3
  <2> QED BY <2>1, <2>4
<1> QED BY <1>1, TimeInvariant, PTL

(* The year and the time of day that are shown are always local.           *)
THEOREM FaceShowsLocalTime == TimeSpec => []ClockFaceIsLocal
<1>1. TimeInv => ClockFaceIsLocal
  BY Shows DEF ClockFaceIsLocal
<1> QED BY <1>1, TimeInvariant, PTL

(* Month and day are right on every day but the first of a month, in every *)
(* year and time zone.                                                     *)
THEOREM DateRight == TimeSpec => []DateRightAfterTheFirst
<1>1. TimeInv => DateRightAfterTheFirst
  <2> SUFFICES ASSUME TimeInv, Sampled, cal.mday > 1
               PROVE  drT.mon = cal.mon - 1 /\ drT.mday = cal.mday
    BY DEF DateRightAfterTheFirst
  <2>1. PICK y, m, d : y = cal.year /\ m = cal.mon /\ d = cal.mday
    OBVIOUS
  <2>2. y \in Years /\ m \in 1..12 /\ d \in 2..31 /\ d <= MonthLength(y, m)
    BY <2>1, StopBounds DEF TimeInv, CalOK, Years
  <2>3. DayOf(cal) = Ends(y)[m] + d - 1 /\ Ends(y)[m] \in Int
    BY <2>1, <2>2, EndsApart DEF DayOf
  <2>4. Ends(y)[m] >= 0
    <3>1. m \in 1..13
      BY <2>2
    <3>2. Ends(y)[m] \in 0..366
      BY <2>2, <3>1, MonthEnds
    <3> QED BY <3>2, SMTT(30)
  <2>5. cal.year = clock.year
    BY <2>2, <2>3, <2>4, Shows
  <2>6. Month(IsLeap(y), DayOf(cal)) = m - 1
    BY <2>2, <2>3, MonthFound
  <2>7. drT.mon = Month(IsLeap(y), DayOf(cal))
    BY <2>1, <2>5, Shows
  <2>8. LET dom == DayOf(cal) - Ends(y)[Month(IsLeap(y), DayOf(cal)) + 1]
        IN drT.mday = IF dom > 30 THEN 31 ELSE dom + 1
    BY <2>1, <2>5, Shows
  <2>9. (m - 1) + 1 = m /\ DayOf(cal) - Ends(y)[m] = d - 1
    BY <2>2, <2>3
  <2> QED BY <2>1, <2>2, <2>6, <2>7, <2>8, <2>9
<1> QED BY <1>1, TimeInvariant, PTL

=============================================================================
