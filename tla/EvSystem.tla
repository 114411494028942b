------------------------------- MODULE EvSystem -------------------------------
(***************************************************************************)
(* ts2ipEvsys (ts2ipEvsys.cpp): the I2C buses of an event timing unit.  On *)
(* the on-board bus are a clock generator and a crosspoint switch, on each *)
(* slave board's a switch, a temperature sensor and an identity, behind a  *)
(* multiplexer.                                                            *)
(*                                                                         *)
(* Two threads use them without a lock of their own: userP_main, in        *)
(* tsDev_evx::devProc, and whichever thread holds the port's lock, in      *)
(* tsDev_evx::writeAppData.  Every ioctl, write and read on a bus is a     *)
(* step.  What a thread has to do on the buses is its job: routines, each  *)
(* a sequence of transfers of which one is next.                           *)
(*                                                                         *)
(* One slave board stands for the two, and one byte of the 8 of a switch's *)
(* map for two of its outputs.  The levels of the slave boards' lines and  *)
(* the switches' equalizers are written and never looked at again, and the *)
(* temperature only shown: their transfers are modelled, their values are  *)
(* not.  The backplane's bus has one chip and one thread: what it does to  *)
(* the front panel is in EvRound.                                          *)
(***************************************************************************)
EXTENDS Integers, Sequences

CONSTANTS
  NumBytes,   (* bound: the bytes of a switch's map, 8 in the code         *)
  Maps,       (* what a byte may hold; ModeMap is set_cpsByMode's          *)
  ModeMap,
  NumRegs,    (* bound: the registers of the clock's configuration         *)
  OpModes,    (* opMode: "NORMAL", "DELAYCHECK" or "FANCHECK"              *)
  Strays,     (* bound: channels a stray byte selects in a multiplexer     *)
  MaxPoll,    (* bound: 10000 in the code                                  *)
  MaxFaults,  (* bound: transfers that fail                                *)
  Edits,      (* bound: the bytes of the maps that records change          *)
  MaxSets     (* bound: writes to EV_CPS_SET; no map is changed after the  *)
              (* last                                                      *)

Bytes     == 1..NumBytes
ClockRegs == 1..NumRegs

ASSUME SizesAssumption == NumBytes \in Nat /\ NumRegs \in Nat /\ ModeMap \in Maps
ASSUME EditsAssumption == Edits \subseteq [bus : {"ob", "sl"}, byte : Bytes]
ASSUME BoundsAssumption ==
  MaxPoll \in Nat /\ MaxFaults \in Nat /\ MaxSets \in Nat

Users   == {"main", "port"}
Buses   == {"ob", "sl"}

VARIABLES
  opMode,     (* of this unit, fixed                                       *)
  board,      (* the slave board that is plugged in: 0 none, 1 I/O, 2 fan- *)
              (* out                                                       *)
  id,         (* sl.id, what get_slaveBoardID made of it                   *)
  mux,        (* the channel each bus's multiplexer has selected, 0 none   *)
  slave,      (* the address IIC_SLAVE_FORCE left on each bus's descriptor *)
  job,        (* the routines a thread still has to run                    *)
  step,       (* the step of the transfer it is at                         *)
  tries,      (* polls of the clock so far                                 *)
  alone,      (* no other thread has used the bus since the routine began  *)
  cpsOut,     (* the maps the program wants                                *)
  cps,        (* each switch: its map registers and the map in force       *)
  clk,        (* the clock generator: registers written, outputs enabled   *)
  opPre,      (* devProc's pre_opMode                                      *)
  stage,      (* where the main thread is                                  *)
  faults, sets

bus  == <<mux, slave, job, step, tries, alone>>
chip == <<cps, clk>>
unit == <<opMode, board>>
sysVars == <<unit, id, bus, cpsOut, chip, opPre, stage, faults, sets>>

-----------------------------------------------------------------------------
(* The slaves' table: the channel a chip is behind, 0 if it is on the bus  *)
(* itself.                                                                 *)
Channel(b, c) ==
  CASE c \in {"MUX", "SI5338A"} -> 0
    [] c = "MAX7313A" -> 1
    [] c = "MAX7313B" -> 2
    [] c = "TMP112A"  -> 4
    [] c = "ADN4604"  -> 8

Plugged(b, c) ==
  b = "sl" => \/ c = "MUX"
              \/ board # 0 /\ c # "ADN4604"
              \/ board = 2

(* A chip answers on its bus.                                              *)
Answers(b, c) == Plugged(b, c) /\ Channel(b, c) \in {0, mux[b]}

(* at: which of the registers "map" or "cfg".  go: the routine goes on     *)
(* when this transfer fails.                                               *)
Transfer(op, c, r, v) == [op |-> op, chip |-> c, reg |-> r, at |-> 0, val |-> v, go |-> FALSE]

Wr(c, r, v)    == Transfer("wr", c, r, v)
Rd(c, r)       == Transfer("rd", c, r, 0)
Poll(c, r)     == Transfer("poll", c, r, 0)
Try(x)         == [x EXCEPT !.go = TRUE]
WrMap(k, v)    == [Wr("ADN4604", "map", v) EXCEPT !.at = k]
WrCfg(k)       == [Wr("SI5338A", "cfg", 1) EXCEPT !.at = k]

Routine(n, b, t) == [name |-> n, bus |-> b, todo |-> t, next |-> 1]

init_clk ==
  Routine("init_clk", "ob",
    <<Rd("SI5338A", "test"),
      Try(Wr("SI5338A", "reset", 1)), Try(Wr("SI5338A", "oeb", 1))>>
    \o [j \in 1..(2 * NumRegs) |-> IF j % 2 = 1 THEN Try(Rd("SI5338A", "mask"))
                                               ELSE WrCfg(j \div 2)]
    \o <<Poll("SI5338A", "los"), Try(Wr("SI5338A", "soft", 1)),
         Poll("SI5338A", "lock"), Try(Rd("SI5338A", "fcal")),
         Try(Wr("SI5338A", "fcal", 1)), Try(Wr("SI5338A", "oeb", 0))>>)

get_slaveBoardID == Routine("get_slaveBoardID", "sl", <<Rd("MAX7313A", "id")>>)

(* Both return RET_OK whatever happened.                                   *)
max7313_setOutput == <<Try(Wr("MAX7313B", "io", 2)), Try(Wr("MAX7313B", "io", 3))>>
max7313_configIO  == <<Try(Wr("MAX7313B", "io", 6)), Try(Wr("MAX7313B", "io", 7))>>

set_slaveIO == Routine("set_slaveIO", "sl", max7313_setOutput \o max7313_configIO)

init_cps(b) ==
  Routine("init_cps", b,
    <<Wr("ADN4604", "reset", 1), Wr("ADN4604", "mapsel", 0),
      Wr("ADN4604", "term", 0), Wr("ADN4604", "update", 1)>>)

(* Mutants: the update is sent first; a failed write does not end the      *)
(* routine.                                                                *)
set_cpsConfig_UpdateFirst(b, out) ==
  Routine("set_cpsConfig", b,
    <<Wr("ADN4604", "update", 1)>> \o [k \in Bytes |-> WrMap(k, out[k])]
    \o <<Try(Rd("ADN4604", "check"))>>)
set_cpsConfig_GoesOn(b, out) ==
  Routine("set_cpsConfig", b,
    [k \in Bytes |-> Try(WrMap(k, out[k]))]
    \o <<Wr("ADN4604", "update", 1), Try(Rd("ADN4604", "check"))>>)

(* The readback compares nothing, and a failed one counts as read.         *)
set_cpsConfig(b, out) ==
  Routine("set_cpsConfig", b,
    [k \in Bytes |-> WrMap(k, out[k])]
    \o <<Wr("ADN4604", "en", 1), Wr("ADN4604", "update", 1), Try(Rd("ADN4604", "check"))>>)

get_slaveTemp == Routine("get_slaveTemp", "sl", <<Rd("TMP112A", "temp")>>)

OnlyIf(cond, routines) == IF cond THEN routines ELSE <<>>

-----------------------------------------------------------------------------
(* One transfer, step by step.                                             *)
Running(t) == job[t] # <<>>
Cur(t)     == Head(job[t])
Item(r)    == r.todo[r.next]
X(t)       == Item(Cur(t))

First(r) == IF Channel(r.bus, Item(r).chip) = 0 THEN "addr" ELSE "mux"
StepOf(j) == IF j = <<>> THEN "none" ELSE First(Head(j))

(* Another thread's use of the bus is remembered until its routine ends.   *)
Alone(t) ==
  alone' = [u \in Users |->
              IF u # t /\ Running(u) /\ Cur(u).bus = Cur(t).bus THEN FALSE
              ELSE alone[u]]

Assign(t, j) ==
  /\ job' = [job EXCEPT ![t] = j]
  /\ step' = [step EXCEPT ![t] = StepOf(j)]
  /\ alone' = [alone EXCEPT ![t] =
                 \A u \in Users \ {t} :
                   Running(u) /\ j # <<>> => Cur(u).bus # Head(j).bus]
  /\ tries' = 0

(* The transfer is over: the next one, or the next routine.                *)
Over(t, ok) ==
  LET r == Cur(t)
      more == (ok \/ X(t).go) /\ r.next < Len(r.todo)
      rest == IF more THEN [job[t] EXCEPT ![1].next = @ + 1] ELSE Tail(job[t])
  IN /\ job' = [job EXCEPT ![t] = rest]
     /\ step' = [step EXCEPT ![t] = StepOf(rest)]
     /\ tries' = 0
     /\ alone' = [u \in Users |->
          IF u = t THEN
            IF more THEN alone[t]
            ELSE \A w \in Users \ {t} :
                   Running(w) /\ rest # <<>> => Cur(w).bus # Head(rest).bus
          ELSE IF Running(u) /\ Cur(u).bus = r.bus THEN FALSE ELSE alone[u]]

Goto(t, s) == step' = [step EXCEPT ![t] = s] /\ UNCHANGED <<job, tries>> /\ Alone(t)

Fault == faults < MaxFaults /\ faults' = faults + 1
NoFault == UNCHANGED faults

still == <<unit, cpsOut, opPre, stage, sets>>

(* iic_setMux: the multiplexer's address ...                               *)
MuxAddress(t) ==
  /\ Running(t) /\ step[t] = "mux"
  /\ slave' = [slave EXCEPT ![Cur(t).bus] = "MUX"]
  /\ Goto(t, "sel")
  /\ UNCHANGED <<still, id, mux, chip, faults>>

Selected(t) ==
  LET b == Cur(t).bus IN
  IF slave[b] = "MUX" THEN [mux EXCEPT ![b] = Channel(b, X(t).chip)] ELSE mux

(* ... and the channel, written and read back to whichever chip the        *)
(* descriptor now addresses.                                               *)
MuxSelect(t) ==
  LET b == Cur(t).bus IN
  /\ Running(t) /\ step[t] = "sel"
  /\ Answers(b, slave[b]) /\ NoFault
  /\ mux' = Selected(t)
  /\ Goto(t, "addr")
  /\ UNCHANGED <<still, id, slave, chip>>

(* A failure, of the write or of reading it back, resets the slave boards' *)
(* buses, unless ip_setCommand refuses.                                    *)
(* iic_rd returns; iic_wr takes RET_ERR for success and goes on.           *)
MuxFails(t) ==
  LET b == Cur(t).bus IN
  /\ Running(t) /\ step[t] = "sel"
  /\ IF Answers(b, slave[b]) THEN Fault ELSE NoFault
  /\ \E m \in {mux, Selected(t)} : mux' \in {m, [m EXCEPT !["sl"] = 0]}
  /\ IF X(t).op = "wr" THEN Goto(t, "addr") ELSE Over(t, FALSE)
  /\ id' = IF X(t).reg = "id" THEN 0 ELSE id
  /\ UNCHANGED <<still, slave, chip>>

Address(t) ==
  /\ Running(t) /\ step[t] = "addr"
  /\ slave' = [slave EXCEPT ![Cur(t).bus] = X(t).chip]
  /\ Goto(t, "xfer")
  /\ UNCHANGED <<still, id, mux, chip, faults>>

-----------------------------------------------------------------------------
(* What a write does to the chip that takes it.                            *)
Reset == [k \in Bytes |-> "reset"]

Take(b, x) ==
  /\ cps' = IF x.chip # "ADN4604" THEN cps ELSE
            CASE x.reg = "reset"  -> [cps EXCEPT ![b] = [map |-> Reset, on |-> Reset]]
              [] x.reg = "update" -> [cps EXCEPT ![b].on = cps[b].map]
              [] x.reg = "map"    -> [cps EXCEPT ![b].map[x.at] = x.val]
              [] OTHER            -> cps
  /\ clk' = IF x.chip # "SI5338A" THEN clk ELSE
            CASE x.reg = "reset"  -> [regs |-> {}, locked |-> FALSE, on |-> FALSE]
              [] x.reg = "oeb"    -> [clk EXCEPT !.on = (x.val = 0)]
              [] x.reg = "cfg"    -> [clk EXCEPT !.regs = @ \cup {x.at}]
              [] OTHER            -> clk

(* iic_wr: the chip addressed last gets the bytes.  A multiplexer makes a  *)
(* channel of the last one.                                                *)
Write(t) ==
  LET b == Cur(t).bus  x == X(t) IN
  /\ Running(t) /\ x.op = "wr" /\ step[t] = "xfer"
  /\ Answers(b, slave[b]) /\ NoFault
  /\ IF slave[b] = "MUX" THEN mux' \in {[mux EXCEPT ![b] = ch] : ch \in Strays}
                         ELSE UNCHANGED mux
  /\ IF slave[b] = x.chip THEN Take(b, x) ELSE UNCHANGED chip
  /\ Over(t, TRUE)
  /\ UNCHANGED <<still, id, slave>>

WriteFails(t) ==
  LET b == Cur(t).bus  x == X(t) IN
  /\ Running(t) /\ x.op = "wr" /\ step[t] = "xfer"
  /\ IF Answers(b, slave[b]) THEN Fault ELSE NoFault
  /\ Over(t, FALSE)
  /\ UNCHANGED <<still, id, mux, slave, chip>>

-----------------------------------------------------------------------------
(* iic_rd writes the offset first: an error that is reported.  The poll of *)
(* a clock that cannot be read has read the 0 it waits for.                *)
Offset(t) ==
  LET b == Cur(t).bus  x == X(t) IN
  /\ Running(t) /\ x.op # "wr" /\ step[t] = "xfer"
  /\ \/ /\ Answers(b, slave[b]) /\ NoFault
        /\ Goto(t, "data")
        /\ UNCHANGED id
     \/ /\ IF Answers(b, slave[b]) THEN Fault ELSE NoFault
        /\ Over(t, x.op = "poll")
        /\ id' = IF x.reg = "id" THEN 0 ELSE id
  /\ UNCHANGED <<still, mux, slave, chip>>

Name(n) == IF n \in {1, 2} THEN n ELSE 0

Right(t) == LET b == Cur(t).bus IN Answers(b, slave[b]) /\ slave[b] = X(t).chip

(* The data arrives, or the read fails and counts as 255 bytes: the board  *)
(* id is then whatever was on the stack.                                   *)
Read(t) ==
  LET x == X(t) IN
  /\ Running(t) /\ x.op = "rd" /\ step[t] = "data"
  /\ \E n \in 0..2 :
       /\ id' = IF x.reg = "id" THEN n ELSE id
       /\ \/ /\ Right(t) /\ NoFault
             /\ n = Name(board)
             /\ Over(t, TRUE)
          \/ /\ Right(t) /\ Fault
             /\ Over(t, x.reg # "test")
          \/ /\ ~Right(t) /\ NoFault
             /\ Over(t, x.reg # "test")
  /\ UNCHANGED <<still, mux, slave, chip>>

(* Mutant: too many polls are no error.                                    *)
PollClock_GivesUp(t) ==
  LET x == X(t) IN
  /\ Running(t) /\ x.op = "poll" /\ step[t] = "data"
  /\ NoFault
  /\ \/ /\ clk' = IF x.reg = "lock" THEN [clk EXCEPT !.locked = TRUE] ELSE clk
        /\ Over(t, TRUE)
     \/ /\ tries < MaxPoll /\ tries' = tries + 1
        /\ step' = [step EXCEPT ![t] = "addr"]
        /\ UNCHANGED <<job, alone, clk>>
     \/ /\ tries = MaxPoll /\ Over(t, TRUE) /\ UNCHANGED clk
  /\ UNCHANGED <<still, id, mux, slave, cps>>

(* The loops of init_clk on a status bit, at most MaxPoll times more.      *)
PollClock(t) ==
  LET x == X(t) IN
  /\ Running(t) /\ x.op = "poll" /\ step[t] = "data"
  /\ \/ /\ NoFault
        /\ clk' = IF x.reg = "lock" THEN [clk EXCEPT !.locked = TRUE] ELSE clk
        /\ Over(t, TRUE)
     \/ /\ Fault
        /\ Over(t, TRUE)
        /\ UNCHANGED clk
     \/ /\ NoFault /\ tries < MaxPoll
        /\ tries' = tries + 1
        /\ step' = [step EXCEPT ![t] = "addr"]
        /\ UNCHANGED <<job, alone, clk>>
     \/ /\ NoFault /\ tries = MaxPoll
        /\ Over(t, FALSE)
        /\ UNCHANGED clk
  /\ UNCHANGED <<still, id, mux, slave, cps>>

Bus(t) ==
  \/ MuxAddress(t) \/ MuxSelect(t) \/ MuxFails(t) \/ Address(t)
  \/ Write(t) \/ WriteFails(t) \/ Offset(t) \/ Read(t) \/ PollClock(t)

-----------------------------------------------------------------------------
init_system == OnlyIf(id = 2, <<init_cps("sl")>>)

ModeOut == [k \in Bytes |-> ModeMap]

SysInit ==
  /\ opMode \in OpModes /\ board \in 0..2
  /\ id = 0
  /\ mux = [b \in Buses |-> 0]
  /\ slave = [b \in Buses |-> "MUX"]
  /\ job = [t \in Users |-> <<>>]
  /\ step = [t \in Users |-> "none"]
  /\ tries = 0
  /\ alone = [t \in Users |-> TRUE]
  /\ cpsOut = [b \in Buses |-> Reset]
  /\ cps = [b \in Buses |-> [map |-> Reset, on |-> Reset]]
  /\ clk = [regs |-> {}, locked |-> FALSE, on |-> FALSE]
  /\ opPre = "NORMAL"
  /\ stage = "clock"
  /\ faults = 0 /\ sets = 0

rest == <<unit, id, mux, slave, cpsOut, chip, faults, sets>>

At(p) == stage = p /\ ~Running("main")

(* The constructor: the clock, the slave board, then its lines, and the    *)
(* switches by the unit's mode.  No other thread runs yet.                 *)
StartClock ==
  /\ At("clock")
  /\ Assign("main", <<init_clk, get_slaveBoardID>>)
  /\ stage' = "boards"
  /\ UNCHANGED <<rest, opPre>>

StartBoards ==
  /\ At("boards")
  /\ cpsOut' = [b \in Buses |-> ModeOut]
  /\ Assign("main",
       <<set_slaveIO>> \o init_system
       \o <<init_cps("ob"), set_cpsConfig("ob", ModeOut)>>
       \o OnlyIf(id = 2, <<set_cpsConfig("sl", ModeOut)>>))
  /\ stage' = "started"
  /\ UNCHANGED <<unit, id, mux, slave, chip, opPre, faults, sets>>

Started ==
  /\ At("started")
  /\ stage' = "round"
  /\ UNCHANGED <<rest, job, step, tries, alone, opPre>>

(* devProc: the temperature, ...                                           *)
Temperature ==
  /\ At("round")
  /\ IF id = 0 THEN UNCHANGED <<job, step, tries, alone>>
               ELSE Assign("main", <<get_slaveTemp>>)
  /\ stage' = "mode"
  /\ UNCHANGED <<rest, opPre>>

(* ... and init_system when opMode is not what the last round saw.         *)
CheckMode ==
  /\ At("mode")
  /\ opPre' = opMode
  /\ IF opPre # opMode THEN Assign("main", init_system)
                       ELSE UNCHANGED <<job, step, tries, alone>>
  /\ stage' = "round"
  /\ UNCHANGED <<rest>>

-----------------------------------------------------------------------------
(* writeAppData, under the port's lock: a byte of a wanted map, or         *)
(* EV_CPS_SET.                                                             *)
Up == stage \in {"round", "mode"} /\ ~Running("port")

WriteCpsOut ==
  /\ Up /\ sets < MaxSets
  /\ \E e \in Edits, v \in Maps : cpsOut' = [cpsOut EXCEPT ![e.bus][e.byte] = v]
  /\ UNCHANGED <<unit, id, bus, chip, opPre, stage, faults, sets>>

CpsSet ==
  /\ Up /\ sets < MaxSets
  /\ sets' = sets + 1
  /\ Assign("port", <<set_cpsConfig("ob", cpsOut["ob"])>>
                    \o OnlyIf(id = 2, <<set_cpsConfig("sl", cpsOut["sl"])>>))
  /\ UNCHANGED <<unit, id, mux, slave, cpsOut, chip, opPre, stage, faults>>

MainThread == Bus("main") \/ StartClock \/ StartBoards \/ Started \/ Temperature \/ CheckMode
PortThread == Bus("port") \/ WriteCpsOut \/ CpsSet

SysNext == MainThread \/ PortThread

SysSpec == SysInit /\ [][SysNext]_sysVars

-----------------------------------------------------------------------------
(* Type correctness. The values the buses and chips take; a thread is at a *)
(* step of a transfer exactly while it has a routine to run.               *)
SysTypeOK ==
  /\ id \in 0..2 /\ board \in 0..2
  /\ mux \in [Buses -> {0, 1, 2, 4, 8} \cup Strays]
  /\ step \in [Users -> {"none", "mux", "sel", "addr", "xfer", "data"}]
  /\ \A t \in Users : step[t] = "none" <=> ~Running(t)
  /\ cps \in [Buses -> [map : [Bytes -> Maps \cup {"reset"}],
                               on : [Bytes -> Maps \cup {"reset"}]]]
  /\ clk.regs \subseteq ClockRegs

(* A switch never runs a mixture of two maps: on the main board, whatever  *)
(* fails and wherever the other thread is, and on a slave board as long    *)
(* as no other thread comes between, a map goes into force whole, or the   *)
(* switch is reset.                                                        *)
SwitchedWhole ==
  [][\A b \in Buses :
       cps'[b].on # cps[b].on =>
         \/ cps'[b].on \in {cpsOut[b], Reset}
         \/ b = "sl" /\ \E t \in Users : Running(t) /\ Cur(t).bus = b /\ ~alone[t]]_sysVars

(* set_cpsConfig tells the truth when no other thread uses the bus: if     *)
(* every write was counted as done, the wanted map is in force, though a   *)
(* multiplexer that could not be set counts as set.                        *)
DoneMeansInForce ==
  [][\A t \in Users :
       /\ Running(t) /\ Cur(t).name = "set_cpsConfig" /\ alone[t]
       /\ X(t).reg = "check" /\ step[t] # "none" /\ step'[t] # step[t]
       => cps[Cur(t).bus].on = cpsOut[Cur(t).bus]]_sysVars

(* The clock's outputs are switched on with its whole configuration        *)
(* written and its loop locked, unless a transfer failed.                  *)
ClockOnWhenLocked ==
  [][clk'.on /\ ~clk.on => clk.regs = ClockRegs /\ (clk.locked \/ faults > 0)]_sysVars

=============================================================================
