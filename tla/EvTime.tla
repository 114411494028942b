-------------------------------- MODULE EvTime --------------------------------
(***************************************************************************)
(* ts2ipDrv::ip_getEvTime and ip_convEpsTime (ts2ipDrv.cpp): the latched   *)
(* time of an event generator or receiver, a year, a day of the year and a *)
(* time of day in UTC, turned into local date and time, into the seconds   *)
(* of the Unix epoch and into an EPICS time stamp.                         *)
(*                                                                         *)
(* The clock behind the registers runs on while the driver samples it.     *)
(* The unpacking of the register fields and the nanoseconds are left out.  *)
(***************************************************************************)
EXTENDS Integers, FiniteSetsExt

CONSTANTS
  FirstYear, LastYear,  (* bound: the years the clock runs through         *)
  SecondsOfDay,         (* bound: the times of day the clock stops at      *)
  TZone,                (* drTime_T.tzone, seconds east of UTC             *)
  MktimeShifts          (* what mktime may add for a tm_isdst that         *)
                        (* ip_getEvTime leaves uninitialized               *)

ASSUME YearsAssumption   == FirstYear \in 2000..2037 /\ LastYear \in FirstYear..2037
ASSUME SecondsAssumption == SecondsOfDay \subseteq Nat /\ {0, 86400 - TZone} \subseteq SecondsOfDay
                            /\ \A s \in SecondsOfDay : s < 86400
ASSUME TZoneAssumption   == TZone \in Nat \ {0} /\ TZone <= 50400 /\ TZone % 60 = 0
ASSUME ShiftsAssumption  == MktimeShifts \subseteq Int /\ 0 \in MktimeShifts

VARIABLES
  clock,   (* the hardware's time: year, day 1..366, second of the day     *)
  drT,     (* the drTime_T last filled, with dayOfMonth, a local           *)
  eps,     (* the EPICS time stamp converted from it                       *)
  at,      (* the clock when it was sampled                                *)
  cal      (* reference: the local date on the wall, and its day's number  *)

timeVars == <<clock, drT, eps, at, cal>>

-----------------------------------------------------------------------------
IsLeap(y) == (y % 100 # 0 /\ y % 4 = 0) \/ y % 400 = 0

(* __mon_yday: days before the first of each month, and in the whole year. *)
MonYday(leap) ==
  IF leap THEN <<0, 31, 60, 91, 121, 152, 182, 213, 244, 274, 305, 335, 366>>
          ELSE <<0, 31, 59, 90, 120, 151, 181, 212, 243, 273, 304, 334, 365>>

SecInYear_NoLeap(y) == 31536000
SecInYear(y) == IF IsLeap(y) THEN 31622400 ELSE 31536000

(* The loop over the months stops at the first whose end is not before     *)
(* yday; MonYday counts from 1, tm_mon from 0.                             *)
Month_FromStart(leap, yday) ==
  Min({m \in 1..12 : yday <= MonYday(leap)[m]} \cup {12}) - 1
Month(leap, yday) ==
  Min({m \in 1..12 : yday <= MonYday(leap)[m + 1]} \cup {12}) - 1

(* mktime for the 1st of January, 00:00:00 of a year, in a process whose   *)
(* time zone is UTC; the division counts the leap years since 1970.        *)
Mktime(y) == 86400 * (365 * (y - 1970) + (y - 1969) \div 4)

(* tt_epsTimeOffset, the seconds from 1970 to 1990.                        *)
EpsTimeOffset == 631152000

(* A year is left when its last second has passed.                         *)
RollsOver_Late(y, s) == SecInYear(y) < s
RollsOver(y, s)      == SecInYear(y) <= s

Convert(c, shift) ==
  LET raw   == (c.day - 1) * 86400 + c.sec + TZone
      over  == RollsOver(c.year, raw)
      year  == IF over THEN c.year + 1 ELSE c.year
      secs  == IF over THEN raw - SecInYear(c.year) ELSE raw
      yday  == secs \div 86400
      month == Month(IsLeap(c.year), yday)
      dom   == yday - MonYday(IsLeap(c.year))[month + 1]
  IN [year |-> year,
      mon  |-> month,
      mday |-> IF dom > 30 THEN 31 ELSE dom + 1,
      hour |-> (secs % 86400) \div 3600,
      min  |-> (secs % 3600) \div 60,
      sec  |-> c.sec % 60,
      dayOfMonth   |-> dom,
      secPastEpoch |-> Mktime(year) + shift + secs]

-----------------------------------------------------------------------------
(* The reference: a calendar on the wall that turns a leaf at each local   *)
(* midnight, knowing only the lengths of the months.                       *)
MonthLength(y, m) ==
  CASE m = 2 -> IF y % 4 = 0 THEN 29 ELSE 28
    [] m \in {4, 6, 9, 11} -> 30
    [] OTHER -> 31

NextLeaf(c) ==
  IF c.mday < MonthLength(c.year, c.mon)
    THEN [c EXCEPT !.number = @ + 1, !.mday = @ + 1]
  ELSE IF c.mon < 12
    THEN [c EXCEPT !.number = @ + 1, !.mday = 1, !.mon = @ + 1]
  ELSE [c EXCEPT !.number = @ + 1, !.mday = 1, !.mon = 1, !.year = @ + 1]

FirstLeaf == [number |-> 0, year |-> FirstYear, mon |-> 1, mday |-> 1]

-----------------------------------------------------------------------------
Midnight(y) == [year |-> y, day |-> 1, sec |-> 0]

TimeInit ==
  /\ clock = Midnight(FirstYear)
  /\ at = clock
  /\ drT = Convert(clock, 0)
  /\ eps = drT.secPastEpoch - EpsTimeOffset
  /\ cal = FirstLeaf

DaysIn(y) == IF IsLeap(y) THEN 366 ELSE 365

(* The hardware clock moves on to the next of SecondsOfDay, and the        *)
(* calendar with it.  Every stop is sampled: what an earlier sample left   *)
(* does not enter the next.                                                *)
Advance ==
  LET later == {s \in SecondsOfDay : s > clock.sec}
      local(c) == (c.sec + TZone) \div 86400
  IN
  /\ at = clock
  /\ \/ /\ \E s \in later : /\ \A r \in later : s <= r
                            /\ clock' = [clock EXCEPT !.sec = s]
        /\ cal' = IF local(clock') > local(clock) THEN NextLeaf(cal) ELSE cal
     \/ /\ later = {} /\ clock.day < DaysIn(clock.year)
        /\ clock' = [clock EXCEPT !.sec = 0, !.day = @ + 1]
        /\ cal' = IF local(clock) = 0 THEN NextLeaf(cal) ELSE cal
     \/ /\ later = {} /\ clock.day = DaysIn(clock.year)
        /\ clock.year < LastYear
        /\ clock' = Midnight(clock.year + 1)
        /\ cal' = IF local(clock) = 0 THEN NextLeaf(cal) ELSE cal
  /\ UNCHANGED <<drT, eps, at>>

(* get_evTime and the conversion to an EPICS time stamp.                   *)
GetEvTime ==
  /\ at # clock
  /\ at' = clock
  /\ \E d \in MktimeShifts : drT' = Convert(clock, d)
  /\ eps' = drT'.secPastEpoch - EpsTimeOffset
  /\ UNCHANGED <<clock, cal>>

TimeNext == Advance \/ GetEvTime

TimeSpec == TimeInit /\ [][TimeNext]_timeVars

-----------------------------------------------------------------------------
Sampled == at = clock

LocalSec == (at.sec + TZone) % 86400

(* The epoch runs evenly: whichever side of the local or the UTC New Year  *)
(* the sample falls, secPastEpoch and the EPICS time stamp count the       *)
(* seconds since FirstYear began in local time.                            *)
EpochIsLinear ==
  Sampled =>
    /\ drT.secPastEpoch - (Mktime(FirstYear) + cal.number * 86400 + LocalSec)
         \in MktimeShifts
    /\ eps = drT.secPastEpoch - 631152000

(* The year and the time of day that are shown are those of local time:    *)
(* the year changes at local midnight and not at UTC midnight.             *)
ClockFaceIsLocal ==
  Sampled => /\ drT.year = cal.year
             /\ drT.hour * 3600 + drT.min * 60 + drT.sec = LocalSec

(* Month and day are right on every day but the first of a month.          *)
DateRightAfterTheFirst ==
  Sampled /\ cal.mday > 1 => drT.mon = cal.mon - 1 /\ drT.mday = cal.mday
=============================================================================
