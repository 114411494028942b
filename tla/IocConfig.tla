------------------------------- MODULE IocConfig -------------------------------
(***************************************************************************)
(* The configuration of the timing IOC: how userP_main brings it back from *)
(* /mnt/sdcard/pvCfg.ini after a start (cfgInitFromFile), how channel      *)
(* access clients change it (writeInt32, writeReg) and save it             *)
(* (writeOctet, cfgSaveToFile), and a restart at any moment                *)
(* (timingAsynEpics.cpp, tsDev_evx.cpp, st.cmd).                           *)
(*                                                                         *)
(* A record is locked while it is put (dbPutField) and the driver is       *)
(* called under the port's lock; both locks are EPICS's.  db_get takes     *)
(* neither.  Three kinds of keys stand for the 289 that are saved: bit     *)
(* fields that share one register, which writeReg reads, masks and writes  *)
(* back; entries of cpsOut, sent to the crosspoint switch when EV_CPS_SET  *)
(* is put; and rates of a receiver's ports, which cfg_portFreq keeps in    *)
(* memory until SET_PORT_FREQ is put.  Values are small numbers, but the   *)
(* records of the last two kinds are texts and can be Empty; Absent in the *)
(* file is a missing key, which cfgGetValue puts as -1.                    *)
(***************************************************************************)
EXTENDS Integers, Sequences

CONSTANTS
  Fields,       (* keys that are bit fields of the shared register         *)
  Crosses,      (* keys that are entries of cpsOut                         *)
  Rates,        (* keys that are the rates of ports, EVR1_PORTFREQ_n       *)
  KeyOrder,     (* the keys in the order cfgInitFromFile and               *)
                (* cfgSaveToFile name them                                 *)
  FileOrder,    (* and in the order a std::map keeps them                  *)
  FieldSize,    (* values a field can hold, 2^dataWidth                    *)
  CpsDefault,   (* what set_cpsByMode leaves in cpsOut                     *)
  Values,       (* what clients put                                        *)
  Clients,      (* channel access clients                                  *)
  Main,         (* the thread of userP_main                                *)
  Nobody,
  Absent,
  Tries,        (* rounds of the startup loop (100)                        *)
  MaxCalls,     (* bound on what clients do                                *)
  MaxRestarts   (* bound on restarts                                       *)

Keys    == Fields \cup Crosses \cup Rates
Threads == Clients \cup {Main}

ASSUME KeysAssumption    ==
  Fields \cap Crosses = {} /\ Fields \cap Rates = {} /\ Crosses \cap Rates = {}
ASSUME OrderAssumption   == KeyOrder \in Seq(Keys) /\ KeyOrder # <<>>
ASSUME FileAssumption    ==
  FileOrder \in Seq(Keys) /\ Len(FileOrder) = Len(KeyOrder)
ASSUME CoverAssumption   ==
  \A k \in Keys : \E n, m \in 1..Len(KeyOrder) : KeyOrder[n] = k /\ FileOrder[m] = k
ASSUME ValuesAssumption  == Values \subseteq Nat /\ Absent \notin Int
ASSUME DeviceAssumption  == FieldSize \in Nat \ {0} /\ CpsDefault \in Nat
ASSUME ThreadsAssumption == Main \notin Clients /\ Nobody \notin Threads
ASSUME TriesAssumption   == Tries \in Nat \ {0}
ASSUME BoundsAssumption  == MaxCalls \in Nat /\ MaxRestarts \in Nat

VARIABLES
  file,       (* pvCfg.ini                                                 *)
  iniFt,      (* the INI::File in memory                                   *)
  dev,        (* the shared register, cpsOut, and the rates in memory      *)
  sent,       (* the cpsOut last sent to the crosspoint switch, and the    *)
              (* rates last written to the receiver's event code RAM       *)
  val,        (* VAL of the records                                        *)
  recLock,    (* who is putting a record                                   *)
  port,       (* who holds the port's lock                                 *)
  rdData,     (* writeReg's copy of the register                           *)
  pc, key,    (* where a thread is in a put or a save, and of what         *)
  ioc, run,   (* iocInit is done; SYS_P_RUN is "RUN"                       *)
  stage,      (* where userP_main is                                       *)
  tries, pos, (* its loop counter; the next key it or the save is at       *)
  spos,
  moved,      (* keys put since the save began                             *)
  disturbed,  (* since the start: a client put or saved, or a put failed   *)
  calls, restarts

disk   == <<file, sent, restarts>>
records == <<val, recLock>>
main   == <<stage, tries, pos>>
vars   == <<disk, iniFt, dev, records, port, rdData, pc, key, ioc, run, main,
            spos, moved, disturbed, calls>>

NoKeys == [k \in Keys |-> Absent]
Clear  == [k \in Keys |-> 0]
Empty  == -2    (* no text; none of the numbers a record can hold           *)

(* writeReg's mask and shift for a field; writeString's tables for a       *)
(* crosspoint and a rate, where a string they do not know is 0.            *)
Encode(k, v) == IF k \in Fields THEN v % FieldSize ELSE IF v < 0 THEN 0 ELSE v

(* set_cpsByMode, and the receiver's constructor, which clears the rates   *)
(* and the event code RAM.                                                 *)
Booted(d) ==
  [k \in Keys |-> IF k \in Fields THEN d[k] ELSE IF k \in Crosses THEN CpsDefault ELSE 0]

Goto(t, l) == pc' = [pc EXCEPT ![t] = l]

Init ==
  /\ file = NoKeys /\ iniFt = NoKeys
  /\ dev = Booted(Clear) /\ sent = Booted(Clear)
  /\ val = Clear
  /\ recLock = [k \in Keys |-> Nobody]
  /\ port = Nobody
  /\ rdData = Clear
  /\ pc = [t \in Threads |-> "idle"]
  /\ key = [t \in Threads |-> KeyOrder[1]]
  /\ ioc = FALSE /\ run = FALSE
  /\ stage = "try" /\ tries = 0 /\ pos = 1
  /\ spos = 1 /\ moved = {}
  /\ disturbed = FALSE
  /\ calls = 0 /\ restarts = 0

-----------------------------------------------------------------------------
(* st.cmd: iocInit, which reads the fields back into their records and     *)
(* processes those of the crosspoints, whose text "0" writeString stores   *)
(* as 0 in cpsOut, but not those of the rates; and dbpf SYS_P_RUN          *)

IocInit ==
  /\ ~ioc
  /\ port = Nobody
  /\ ioc' = TRUE
  /\ val' = [k \in Keys |-> IF k \in Fields THEN dev[k] ELSE 0]
  /\ dev' = [k \in Keys |-> IF k \in Rates THEN dev[k] ELSE val'[k]]
  /\ UNCHANGED <<disk, iniFt, recLock, port, rdData, pc, key, run, main,
                 spos, moved, disturbed, calls>>

DbpfRun ==
  /\ ioc /\ ~run
  /\ run' = TRUE
  /\ UNCHANGED <<disk, iniFt, dev, records, port, rdData, pc, key, ioc, main,
                 spos, moved, disturbed, calls>>

-----------------------------------------------------------------------------
(* dbPutField, writeInt32 or writeOctet, and writeReg *)

(* What a client does ends the undisturbed start.                          *)
ClientCall ==
  /\ calls < MaxCalls
  /\ calls' = calls + 1
  /\ disturbed' = TRUE

(* The record's VAL changes before the driver is called.                   *)
Put(t, k, v) ==
  /\ ioc
  /\ pc[t] = "idle"
  /\ recLock[k] = Nobody
  /\ recLock' = [recLock EXCEPT ![k] = t]
  /\ val' = [val EXCEPT ![k] = v]
  /\ key' = [key EXCEPT ![t] = k]
  /\ Goto(t, "driver")
  /\ moved' = moved \cup {k}
  /\ UNCHANGED <<disk, iniFt, dev, port, rdData, ioc, run, spos>>

Texts(k) == Values \cup IF k \in Fields THEN {} ELSE {Empty}

ClientPut(c) ==
  /\ \E k \in Keys : \E v \in Texts(k) : Put(c, k, v)
  /\ ClientCall
  /\ UNCHANGED main

(* Mutant: the driver is entered without the port's lock.                  *)
CallDriver_Unlocked(t) ==
  /\ pc[t] = "driver"
  /\ Goto(t, "read")
  /\ UNCHANGED <<disk, iniFt, dev, records, port, rdData, key, ioc, run, main,
                 spos, moved, disturbed, calls>>

CallDriver(t) ==
  /\ pc[t] = "driver"
  /\ port = Nobody
  /\ port' = t
  /\ Goto(t, "read")
  /\ UNCHANGED <<disk, iniFt, dev, records, rdData, key, ioc, run, main,
                 spos, moved, disturbed, calls>>

ReadReg(t) ==
  /\ pc[t] = "read"
  /\ rdData' = IF key[t] \in Fields THEN dev ELSE rdData
  /\ Goto(t, "write")
  /\ UNCHANGED <<disk, iniFt, dev, records, port, key, ioc, run, main,
                 spos, moved, disturbed, calls>>

(* A field's neighbours are written back as they were read; an entry of    *)
(* cpsOut or a rate is stored alone.  Then both locks are given up.        *)
WriteReg(t) ==
  LET k == key[t] IN
  /\ pc[t] = "write"
  /\ dev' = [f \in Keys |->
               IF f = k THEN Encode(k, val[k])
               ELSE IF {f, k} \subseteq Fields THEN rdData[f] ELSE dev[f]]
  /\ rdData' = Clear
  /\ recLock' = [recLock EXCEPT ![k] = Nobody]
  /\ port' = Nobody
  /\ Goto(t, "idle")
  /\ UNCHANGED <<disk, iniFt, val, key, ioc, run, main, spos, moved, disturbed, calls>>

(* EV_CPS_SET and SET_PORT_FREQ: writeAppData sends cpsOut, or             *)
(* set_evCodeList the rates, under the port's lock.                        *)
Send(kind) ==
  /\ port = Nobody
  /\ sent' = [k \in Keys |-> IF k \in kind THEN dev[k] ELSE sent[k]]

ClientSends(c) ==
  /\ ioc
  /\ pc[c] = "idle"
  /\ \E kind \in {Crosses, Rates} : Send(kind)
  /\ ClientCall
  /\ UNCHANGED <<file, restarts, iniFt, dev, records, port, rdData, pc, key, ioc,
                 run, main, spos, moved>>

-----------------------------------------------------------------------------
(* writeOctet(SYS_SAVE_CFG): cfgSaveToFile, all of it under the port's lock *)

Save(c) ==
  /\ ioc
  /\ pc[c] = "idle"
  /\ port = Nobody
  /\ port' = c
  /\ Goto(c, "collect")
  /\ spos' = 1
  /\ moved' = IF stage = "loop" THEN {} ELSE Keys
  /\ ClientCall
  /\ UNCHANGED <<disk, iniFt, dev, records, rdData, key, ioc, run, main>>

NextSaved(c, again, done) ==
  /\ spos' = IF spos = Len(KeyOrder) THEN 1 ELSE spos + 1
  /\ Goto(c, IF spos = Len(KeyOrder) THEN done ELSE again)

db_get(k) == val[k]

(* Mutants: the last key is left out; db_get waits for the record.         *)
SaveKey_OneShort(c) ==
  /\ pc[c] = "collect"
  /\ iniFt' = [iniFt EXCEPT ![KeyOrder[spos]] = val[KeyOrder[spos]]]
  /\ spos' = IF spos = Len(KeyOrder) - 1 THEN 1 ELSE spos + 1
  /\ Goto(c, IF spos = Len(KeyOrder) - 1 THEN "truncate" ELSE "collect")
  /\ UNCHANGED <<disk, dev, records, port, rdData, key, ioc, run, main, moved,
                 disturbed, calls>>
SaveKey_Locks(c) ==
  /\ pc[c] = "collect"
  /\ recLock[KeyOrder[spos]] = Nobody
  /\ iniFt' = [iniFt EXCEPT ![KeyOrder[spos]] = val[KeyOrder[spos]]]
  /\ NextSaved(c, "collect", "truncate")
  /\ UNCHANGED <<disk, dev, records, port, rdData, key, ioc, run, main, moved,
                 disturbed, calls>>

(* cfgSetValue; db_get reads VAL without the record's lock.                *)
SaveKey(c) ==
  /\ pc[c] = "collect"
  /\ iniFt' = [iniFt EXCEPT ![KeyOrder[spos]] = db_get(KeyOrder[spos])]
  /\ NextSaved(c, "collect", "truncate")
  /\ UNCHANGED <<disk, dev, records, port, rdData, key, ioc, run, main, moved,
                 disturbed, calls>>

(* INI::File::Save opens the file, which empties it, and SaveStream writes *)
(* a line for each key and flushes it.                                     *)
Truncate(c) ==
  /\ pc[c] = "truncate"
  /\ file' = NoKeys
  /\ Goto(c, "store")
  /\ UNCHANGED <<sent, restarts, iniFt, dev, records, port, rdData, key, ioc, run,
                 main, spos, moved, disturbed, calls>>

StoreKey(c) ==
  /\ pc[c] = "store"
  /\ file' = [file EXCEPT ![FileOrder[spos]] = iniFt[FileOrder[spos]]]
  /\ NextSaved(c, "store", "saved")
  /\ UNCHANGED <<sent, restarts, iniFt, dev, records, port, rdData, key, ioc, run,
                 main, moved, disturbed, calls>>

Saved(c) ==
  /\ pc[c] = "saved"
  /\ port' = Nobody
  /\ Goto(c, "idle")
  /\ moved' = {}
  /\ UNCHANGED <<disk, iniFt, dev, records, rdData, key, ioc, run, main, spos,
                 disturbed, calls>>

-----------------------------------------------------------------------------
(* userP_main: the startup loop, cfgInitFromFile, and the endless loop *)

(* lock(): every put waits while devThread waits for the interrupt.        *)
Try ==
  /\ stage = "try"
  /\ port = Nobody
  /\ port' = Main
  /\ stage' = "devThread"
  /\ UNCHANGED <<disk, iniFt, dev, records, rdData, pc, key, ioc, run, tries, pos,
                 spos, moved, disturbed, calls>>

DevThread ==
  /\ stage = "devThread"
  /\ port' = Nobody
  /\ stage' = "test"
  /\ UNCHANGED <<disk, iniFt, dev, records, rdData, pc, key, ioc, run, tries, pos,
                 spos, moved, disturbed, calls>>

TestRun ==
  /\ stage = "test"
  /\ \/ /\ run \/ tries + 1 = Tries
        /\ stage' = "load"
        /\ UNCHANGED tries
     \/ /\ ~run /\ tries + 1 < Tries
        /\ stage' = "try"
        /\ tries' = tries + 1
  /\ UNCHANGED <<disk, iniFt, dev, records, port, rdData, pc, key, ioc, run, pos,
                 spos, moved, disturbed, calls>>

(* "KEY =" and nothing behind it is not a line that ParseLine accepts.     *)
ParseLine(v) == IF v = Empty THEN "error" ELSE "entry"

(* ParseStream gives up at the first line it cannot read; what it has read *)
(* by then stays in memory.                                                *)
ParseStream(f) ==
  LET Read(n) == \A m \in 1..n : ParseLine(f[FileOrder[m]]) = "entry"
  IN  [k \in Keys |->
         IF \E n \in 1..Len(FileOrder) : FileOrder[n] = k /\ Read(n)
         THEN f[k] ELSE Absent]

(* INI::File::Load: what is in memory is dropped only if the file exists.  *)
(* cfgInitFromFile prints that it failed and goes on.                      *)
Load ==
  /\ stage = "load"
  /\ \/ iniFt' = ParseStream(file)
     \/ file = NoKeys /\ UNCHANGED iniFt
  /\ stage' = "restore"
  /\ UNCHANGED <<disk, dev, records, port, rdData, pc, key, ioc, run, tries, pos,
                 spos, moved, disturbed, calls>>

Restored(k, from) == IF from[k] = Absent THEN -1 ELSE from[k]

NextKey ==
  /\ pos' = IF pos = Len(KeyOrder) THEN 1 ELSE pos + 1
  /\ stage' = IF pos = Len(KeyOrder) THEN "apply" ELSE "restore"
  /\ UNCHANGED tries

RestoreKey ==
  /\ stage = "restore"
  /\ Put(Main, KeyOrder[pos], Restored(KeyOrder[pos], iniFt))
  /\ NextKey
  /\ UNCHANGED <<disturbed, calls>>

(* db_put before iocInit: "Record not found", and on to the next key.      *)
RestoreFails ==
  /\ stage = "restore"
  /\ ~ioc
  /\ NextKey
  /\ disturbed' = TRUE
  /\ UNCHANGED <<disk, iniFt, dev, records, port, rdData, pc, key, ioc, run, spos,
                 moved, calls>>

(* Mutant: EV_CPS_SET is put while the last put is still on its way.       *)
Apply_Early ==
  /\ stage = "apply"
  /\ Send(Crosses)
  /\ stage' = "loop"
  /\ UNCHANGED <<file, restarts, iniFt, dev, records, port, rdData, pc, key, ioc,
                 run, tries, pos, spos, moved, disturbed, calls>>

(* cfgGetValueToSet(EV_CPS_SET): 1, and 0, which does nothing.  Nothing    *)
(* puts SET_PORT_FREQ.                                                     *)
Apply ==
  /\ stage = "apply"
  /\ pc[Main] = "idle"
  /\ IF ioc THEN Send(Crosses) ELSE UNCHANGED sent
  /\ stage' = "loop"
  /\ UNCHANGED <<file, restarts, iniFt, dev, records, port, rdData, pc, key, ioc,
                 run, tries, pos, spos, moved, disturbed, calls>>

-----------------------------------------------------------------------------
(* The IOC dies, with or without the board losing its power; the file is   *)
(* what it was at that moment.                                             *)
Restart ==
  /\ restarts < MaxRestarts
  /\ restarts' = restarts + 1
  /\ \E d \in {dev, Clear} : dev' = Booted(d)
  /\ sent' = dev'
  /\ iniFt' = NoKeys
  /\ val' = Clear
  /\ recLock' = [k \in Keys |-> Nobody]
  /\ port' = Nobody
  /\ rdData' = Clear
  /\ pc' = [t \in Threads |-> "idle"]
  /\ key' = [t \in Threads |-> KeyOrder[1]]
  /\ ioc' = FALSE /\ run' = FALSE
  /\ stage' = "try" /\ tries' = 0 /\ pos' = 1
  /\ spos' = 1 /\ moved' = {}
  /\ disturbed' = FALSE
  /\ UNCHANGED <<file, calls>>

-----------------------------------------------------------------------------
Driver(t) == CallDriver(t) \/ ReadReg(t) \/ WriteReg(t)
Saving(c) == SaveKey(c) \/ Truncate(c) \/ StoreKey(c) \/ Saved(c)
UserPMain == \/ Try \/ DevThread \/ TestRun \/ Load
             \/ RestoreKey \/ RestoreFails \/ Apply

Next ==
  \/ IocInit \/ DbpfRun
  \/ \E c \in Clients : ClientPut(c) \/ ClientSends(c) \/ Save(c) \/ Saving(c)
  \/ \E t \in Threads : Driver(t)
  \/ UserPMain
  \/ Restart

Spec == Init /\ [][Next]_vars

(* Threads inside the driver run on and get its lock, though others take   *)
(* it again and again; the interrupt that devThread waits for comes every  *)
(* second.  st.cmd may never finish and clients need not do anything.      *)
FairSpec ==
  /\ Spec
  /\ \A t \in Threads : SF_vars(Driver(t))
  /\ \A c \in Clients : WF_vars(Saving(c))
  /\ SF_vars(UserPMain)

-----------------------------------------------------------------------------
(* Type correctness. The values of records, file and device, and where     *)
(* each thread is.                                                         *)
TypeOK ==
  /\ file \in [Keys -> Int \cup {Absent}] /\ iniFt \in [Keys -> Int \cup {Absent}]
  /\ dev \in [Keys -> Nat] /\ sent \in [Keys -> Nat] /\ rdData \in [Keys -> Nat]
  /\ val \in [Keys -> Int]
  /\ recLock \in [Keys -> Threads \cup {Nobody}]
  /\ port \in Threads \cup {Nobody}
  /\ pc \in [Threads -> {"idle", "driver", "read", "write", "collect", "truncate",
                         "store", "saved"}]
  /\ key \in [Threads -> Keys]
  /\ ioc \in BOOLEAN /\ run \in BOOLEAN /\ disturbed \in BOOLEAN
  /\ stage \in {"try", "devThread", "test", "load", "restore", "apply", "loop"}
  /\ tries \in 0..Tries - 1
  /\ pos \in 1..Len(KeyOrder) /\ spos \in 1..Len(KeyOrder)
  /\ moved \subseteq Keys
  /\ calls \in 0..MaxCalls /\ restarts \in 0..MaxRestarts

(* A record that nobody is putting shows what its field of the register    *)
(* holds: clients and the restore, writing neighbours in one register,     *)
(* never undo each other.                                                  *)
RecordShowsField ==
  \A k \in Fields : ioc /\ recLock[k] = Nobody => dev[k] = Encode(k, val[k])

(* After a start that no client disturbed every record is back to what can *)
(* be read of the file, and -1 where the file, cut short by an earlier     *)
(* restart or by an empty text, says nothing.  The registers, cpsOut and   *)
(* the rates in memory follow the records and the crosspoint switch was    *)
(* told so, but the event code RAM is as empty as the start left it.       *)
RestoredFromFile ==
  stage = "loop" /\ ~disturbed =>
    \A k \in Keys : /\ val[k] = Restored(k, ParseStream(file))
                    /\ dev[k] = Encode(k, val[k])
                    /\ k \in Crosses => sent[k] = dev[k]
                    /\ k \in Rates => sent[k] = 0

(* What a save leaves in the file is what the records show, but for those  *)
(* put while it ran: nothing of an older file survives, nothing is missed. *)
(* A save that starts before the restore is done is excepted.              *)
SavedAsShown ==
  \A c \in Clients, k \in Keys :
    pc[c] = "saved" /\ k \notin moved => file[k] = val[k]

(* No put and no save waits for ever: record locks and the port's lock are *)
(* never taken in a circle.                                                *)
CallsReturn == \A t \in Threads : (pc[t] # "idle") ~> (pc[t] = "idle")

=============================================================================
