---------------------------- MODULE Ts2ipLifecycle ----------------------------
(***************************************************************************)
(* Loading, probing, opening, closing and unloading the ts2ip driver:      *)
(* mod_init, _probe with its error labels, cleanup, _remove, _open and     *)
(* _close (ts2ip.c).                                                       *)
(*                                                                         *)
(* Several IPs share one driver: _probe takes the next entry of dInfo, and *)
(* _open and _close find the entry by the major number of the node.  The   *)
(* kernel offers the devices one after the other when the module is        *)
(* loaded, in any order, while programs already open those that are there. *)
(* A device leaves only with the module.  isOpen is tested and counted     *)
(* without a lock: the count that is stored may build on the value tested  *)
(* or on a fresh one.  class_create, device_create and cdev_add can fail   *)
(* unnoticed, as their error values are not the ones the code compares     *)
(* with.  "oops" is the end of a _remove that follows an invalid pointer.  *)
(*                                                                         *)
(* The kernel gives the numbers, any that other drivers have left.  _open  *)
(* keeps the number of the node in a char, unsigned on the ARM these IPs   *)
(* sit in, and compares it with the whole number of an entry: a number     *)
(* that needs more bits leads to whatever entry has its low ones.          *)
(*                                                                         *)
(* Left out: the mapping, which nobody ever unmaps, devices without memory *)
(* or with an unknown IP id, the register ioctls, and the log.             *)
(***************************************************************************)
EXTENDS Integers, FiniteSets, FiniteSetsExt

CONSTANTS
  Devices,    (* the IPs of the device tree                                *)
  Files,      (* files programs open on their nodes                        *)
  IpidMax,    (* entries of dInfo, 32                                      *)
  U32,        (* isOpen counts modulo this, 2^32                           *)
  Majors,     (* the numbers alloc_chrdev_region may give                  *)
  CharSize,   (* values of a char, 256                                     *)
  None

ASSUME IpidMaxAssumption == IpidMax \in Nat /\ Cardinality(Devices) <= IpidMax
ASSUME FilesAssumption   == IsFiniteSet(Files)
ASSUME U32Assumption     == U32 \in Nat \ {0} /\ U32 > 1 + Cardinality(Files)

ASSUME MajorsAssumption  == Majors \subseteq Nat \ {0}
ASSUME CharAssumption    == CharSize \in Nat \ {0}

Slots == 0 .. IpidMax - 1

ASSUME DevicesAssumption == IsFiniteSet(Devices) /\ None \notin Devices \cup Slots

VARIABLES
  module,     (* "out", "loading", "live", "going", or "oops"              *)
  tried,      (* devices offered to _probe since the module was loaded     *)
  probing,    (* the device in _probe, and its next step                   *)
  dInfo,      (* per entry: mem_base, isCreate with pCl, isOpen, devt      *)
  devCount,
  drv,        (* dev_get_drvdata of a device                               *)
  bound,      (* devices whose _probe returned 0                           *)
  mem,        (* devices with a reserved memory region                     *)
  irq,        (* the entry that the device's handler was registered with   *)
  numbers,    (* character device numbers in use                           *)
  node,       (* the number of the device's node, once it can be opened    *)
  file        (* a file's way through _open and _close                     *)

devs == <<drv, bound, mem, irq, numbers, node>>
vars == <<module, tried, probing, dInfo, devCount, devs, file>>

Blank  == [regs |-> None, pCl |-> "NULL", isOpen |-> 0, devt |-> 0]
Closed == [at |-> "closed", dev |-> None, slot |-> None, saw |-> 0]
Rest   == [dev |-> None, step |-> "none"]

Init ==
  /\ module = "out" /\ tried = {} /\ probing = Rest
  /\ dInfo = [s \in Slots |-> Blank] /\ devCount = 0
  /\ drv = [d \in Devices |-> None] /\ bound = {}
  /\ mem = {} /\ irq = [d \in Devices |-> None]
  /\ numbers = {} /\ node = [d \in Devices |-> 0]
  /\ file = [f \in Files |-> Closed]

-----------------------------------------------------------------------------
(* mod_init, _probe step by step *)

Load ==
  /\ module = "out"
  /\ module' = "loading"
  /\ tried' = {}
  /\ devCount' = 0
  /\ dInfo' = [s \in Slots |-> Blank]
  /\ UNCHANGED <<probing, devs, file>>

Step(d, s)   == probing = [dev |-> d, step |-> s]
Goto(d, s)   == probing' = [dev |-> d, step |-> s]
ProbeEnds    == probing' = Rest

(* Up to dev_set_drvdata.                                                  *)
Probe(d) ==
  /\ module = "loading" /\ probing = Rest /\ d \notin tried
  /\ tried' = tried \cup {d}
  /\ dInfo' = [dInfo EXCEPT ![devCount].regs = d]
  /\ drv' = [drv EXCEPT ![d] = devCount]
  /\ Goto(d, "region")
  /\ UNCHANGED <<module, devCount, bound, mem, irq, numbers, node, file>>

Region(d) ==
  /\ Step(d, "region")
  /\ d \notin mem
  /\ mem' = mem \cup {d}
  /\ Goto(d, "irq")
  /\ UNCHANGED <<module, tried, dInfo, devCount, drv, bound, irq, numbers, node, file>>

(* error1.                                                                 *)
RegionFails(d) ==
  /\ Step(d, "region")
  /\ drv' = [drv EXCEPT ![d] = None]
  /\ ProbeEnds
  /\ UNCHANGED <<module, tried, dInfo, devCount, bound, mem, irq, numbers, node, file>>

Irq(d) ==
  /\ Step(d, "irq")
  /\ irq[d] = None
  /\ irq' = [irq EXCEPT ![d] = devCount]
  /\ Goto(d, "number")
  /\ UNCHANGED <<module, tried, dInfo, devCount, drv, bound, mem, numbers, node, file>>

(* error2 is also the way of a device without an interrupt, and rc is then *)
(* still 0; error3 frees an interrupt that was not got.                    *)
IrqFails(d) ==
  /\ Step(d, "irq")
  /\ bound' \in {bound, bound \cup {d}}
  /\ mem' = mem \ {d}
  /\ drv' = [drv EXCEPT ![d] = None]
  /\ ProbeEnds
  /\ UNCHANGED <<module, tried, dInfo, devCount, irq, numbers, node, file>>

Number(d) ==
  /\ Step(d, "number")
  /\ \E m \in Majors \ numbers :
       /\ numbers' = numbers \cup {m}
       /\ dInfo' = [dInfo EXCEPT ![devCount].devt = m]
  /\ Goto(d, "publish")
  /\ UNCHANGED <<module, tried, devCount, drv, bound, mem, irq, node, file>>

Cleanup(d, s) ==
  /\ numbers' = numbers \ {dInfo[s].devt}
  /\ node' = [node EXCEPT ![d] = 0]

(* cdev_error: cleanup finds nothing to undo, and the interrupt and the    *)
(* region stay.  The kernel clears the drvdata of a failed probe.          *)
NumberFails(d) ==
  /\ Step(d, "number")
  /\ Cleanup(d, devCount)
  /\ drv' = [drv EXCEPT ![d] = None]
  /\ ProbeEnds
  /\ UNCHANGED <<module, tried, dInfo, devCount, bound, mem, irq, file>>

(* From class_create to cdev_add, any of which may fail without notice.    *)
Publish(d) ==
  /\ Step(d, "publish")
  /\ \E class \in {"class", "ERR_PTR"}, made \in BOOLEAN :
       /\ dInfo' = [dInfo EXCEPT ![devCount].pCl = class]
       /\ node' = [node EXCEPT ![d] =
                     IF made /\ class = "class" THEN dInfo[devCount].devt ELSE 0]
  /\ Goto(d, "count")
  /\ UNCHANGED <<module, tried, devCount, drv, bound, mem, irq, numbers, file>>

(* Mutant: devCount++ is forgotten.                                        *)
Count_Forgotten(d) ==
  /\ Step(d, "count")
  /\ devCount' = devCount
  /\ bound' = bound \cup {d}
  /\ ProbeEnds
  /\ UNCHANGED <<module, tried, dInfo, drv, mem, irq, numbers, node, file>>

Count(d) ==
  /\ Step(d, "count")
  /\ devCount' = devCount + 1
  /\ bound' = bound \cup {d}
  /\ ProbeEnds
  /\ UNCHANGED <<module, tried, dInfo, drv, mem, irq, numbers, node, file>>

Loaded ==
  /\ module = "loading" /\ probing = Rest /\ tried = Devices
  /\ module' = "live"
  /\ UNCHANGED <<tried, probing, dInfo, devCount, devs, file>>

-----------------------------------------------------------------------------
(* mod_exit and _remove *)

Rmmod ==
  /\ module = "live"
  /\ \A f \in Files : file[f] = Closed
  /\ module' = "going"
  /\ UNCHANGED <<tried, probing, dInfo, devCount, devs, file>>

(* devCount = 0, cleanup, free_irq and release_mem_region.  No file is     *)
(* open and no device is probed meanwhile.                                 *)
Remove(d) ==
  /\ module = "going" /\ d \in bound
  /\ drv[d] # None
  /\ dInfo[drv[d]].pCl # "ERR_PTR"
  /\ devCount' = 0
  /\ Cleanup(d, drv[d])
  /\ irq' = [irq EXCEPT ![d] = None]
  /\ mem' = mem \ {d}
  /\ drv' = [drv EXCEPT ![d] = None]
  /\ bound' = bound \ {d}
  /\ UNCHANGED <<module, tried, probing, dInfo, file>>

(* A device bound without an entry: cleanup(NULL).  A class that is an     *)
(* error value: device_destroy follows it.                                 *)
RemoveOops(d) ==
  /\ module = "going" /\ d \in bound
  /\ drv[d] # None => dInfo[drv[d]].pCl = "ERR_PTR"
  /\ devCount' = 0
  /\ module' = "oops"
  /\ UNCHANGED <<tried, probing, dInfo, devs, file>>

Exit ==
  /\ module = "going" /\ bound = {}
  /\ module' = "out"
  /\ UNCHANGED <<tried, probing, dInfo, devCount, devs, file>>

-----------------------------------------------------------------------------
(* _open and _close *)

(* The number of a node as _open and _close keep it, and the entries with  *)
(* it, of which get_idByMajor returns the first.                           *)
Char(m) == m % CharSize

(* Mutant: the number of an entry is cut to a char as well.                *)
Entries_Cut(m) == {s \in Slots : Char(dInfo[s].devt) = m}

Entries(m) == {s \in Slots : dInfo[s].devt = m}

Wrap(n) == n % U32

(* _open up to its test of isOpen; an open that is refused changes         *)
(* nothing.  _close finds the same entry again: entries only come behind   *)
(* those that are there while files are open.                              *)
Open(f, d) ==
  /\ module \in {"loading", "live"}
  /\ file[f] = Closed
  /\ node[d] # 0 /\ Char(node[d]) # 0 /\ Entries(Char(node[d])) # {}
  /\ LET s == Min(Entries(Char(node[d]))) IN
       /\ dInfo[s].pCl # "NULL"
       /\ dInfo[s].isOpen = 0
       /\ file' = [file EXCEPT ![f] = [at |-> "opening", dev |-> d, slot |-> s, saw |-> 0]]
  /\ UNCHANGED <<module, tried, probing, dInfo, devCount, devs>>

(* isOpen++ *)
Opened(f) ==
  /\ file[f].at = "opening"
  /\ \E n \in {file[f].saw, dInfo[file[f].slot].isOpen} :
       dInfo' = [dInfo EXCEPT ![file[f].slot].isOpen = Wrap(n + 1)]
  /\ file' = [file EXCEPT ![f].at = "open"]
  /\ UNCHANGED <<module, tried, probing, devCount, devs>>

(* Mutant: the last one to close leaves isOpen set.                        *)
Close_KeepsLast(f) ==
  /\ file[f].at = "open"
  /\ LET n == dInfo[file[f].slot].isOpen IN
       file' = [file EXCEPT ![f] = IF n <= 1 THEN Closed
                                   ELSE [@ EXCEPT !.at = "closing", !.saw = n]]
  /\ UNCHANGED <<module, tried, probing, dInfo, devCount, devs>>

(* _close up to its test of isOpen, which ends it with RET_ERR at 0.       *)
Close(f) ==
  /\ file[f].at = "open"
  /\ LET n == dInfo[file[f].slot].isOpen IN
       file' = [file EXCEPT ![f] = IF n < 1 THEN Closed
                                   ELSE [@ EXCEPT !.at = "closing", !.saw = n]]
  /\ UNCHANGED <<module, tried, probing, dInfo, devCount, devs>>

(* isOpen-- *)
CloseEnd(f) ==
  /\ file[f].at = "closing"
  /\ \E n \in {file[f].saw, dInfo[file[f].slot].isOpen} :
       dInfo' = [dInfo EXCEPT ![file[f].slot].isOpen = Wrap(n - 1)]
  /\ file' = [file EXCEPT ![f] = Closed]
  /\ UNCHANGED <<module, tried, probing, devCount, devs>>

-----------------------------------------------------------------------------
Next ==
  \/ Load \/ Loaded \/ Rmmod \/ Exit
  \/ \E d \in Devices :
       \/ Probe(d) \/ Region(d) \/ RegionFails(d) \/ Irq(d) \/ IrqFails(d)
       \/ Number(d) \/ NumberFails(d) \/ Publish(d) \/ Count(d)
       \/ Remove(d) \/ RemoveOops(d)
  \/ \E f \in Files : \/ \E d \in Devices : Open(f, d)
                      \/ Opened(f) \/ Close(f) \/ CloseEnd(f)

Spec == Init /\ [][Next]_vars

-----------------------------------------------------------------------------
(* Type correctness. devCount stays inside dInfo, and numbers and entries  *)
(* are the driver's.                                                       *)
TypeOK ==
  /\ module \in {"out", "loading", "live", "going", "oops"}
  /\ tried \subseteq Devices /\ bound \subseteq Devices /\ mem \subseteq Devices
  /\ probing \in [dev : Devices \cup {None},
                  step : {"none", "region", "irq", "number", "publish", "count"}]
  /\ dInfo \in [Slots -> [regs : Devices \cup {None}, pCl : {"NULL", "class", "ERR_PTR"},
                          isOpen : 0 .. U32 - 1, devt : Majors \cup {0}]]
  /\ devCount \in 0 .. IpidMax
  /\ drv \in [Devices -> Slots \cup {None}] /\ irq \in [Devices -> Slots \cup {None}]
  /\ numbers \subseteq Majors /\ node \in [Devices -> Majors \cup {0}]
  /\ file \in [Files -> [at : {"closed", "opening", "open", "closing"},
                         dev : Devices \cup {None}, slot : Slots \cup {None},
                         saw : 0 .. U32 - 1]]

(* The handler of a device that is bound disables the interrupt of that    *)
(* device and no other, whichever probes failed before it.  The handler a  *)
(* failed probe leaves behind may: the next device takes over its entry.   *)
HandlerIsOwn ==
  \A d \in bound : irq[d] # None => dInfo[irq[d]].regs = d

(* Who has a device open whose number fits a char reads the registers of   *)
(* that device, which are reserved for the driver, through the entry the   *)
(* number leads to, whatever numbers the kernel gave to the others.  One   *)
(* whose number does not fit may have another device's entry.              *)
OpenFileHasDevice ==
  \A f \in Files : file[f] # Closed /\ node[file[f].dev] < CharSize =>
    /\ file[f].dev \in mem /\ irq[file[f].dev] = file[f].slot
    /\ dInfo[file[f].slot].regs = file[f].dev

(* Unless opens and closes of one device overlap, isOpen is exact: at most *)
(* one file is open on it, and it can be opened again once that is closed. *)
Serial ==
  \A f, g \in Files :
    file[f].at \in {"opening", "closing"} /\ file[g].at \in {"opening", "closing"}
      /\ file[f].slot = file[g].slot => f = g
Counted ==
  \A s \in Slots :
    /\ dInfo[s].isOpen <= 1
    /\ dInfo[s].isOpen =
         Cardinality({f \in Files : file[f].slot = s /\ file[f].at \in {"open", "closing"}})
SerialOpens == []Serial => []Counted
=============================================================================
