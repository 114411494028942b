---------------------------- MODULE PicoLifecycle ----------------------------
(***************************************************************************)
(* Loading, probing, opening, removing and unloading the mps_pico driver:  *)
(* damc_fmc25_pcie_init/exit, probe, pico_pci_setup, pico_cdev_setup with  *)
(* their goto unwinding, remove, pico_cdev_cleanup, pico_pci_cleanup       *)
(* (mps_pico_main.c), char_open and char_release (mps_pico_char.c).        *)
(*                                                                         *)
(* One board.  Every acquisition of probe may fail.  The unwinding labels  *)
(* of the two setup functions and the bodies of the two cleanup functions  *)
(* release in one and the same order, so a release is a position in that   *)
(* order, named for what is released there.  A file can be opened while    *)
(* the device node exists.  The sysfs attributes, the FRIB site and the    *)
(* register accesses are left out.                                         *)
(***************************************************************************)
EXTENDS Naturals, Sequences, FiniteSets

CONSTANTS
  Files,      (* files that may be opened on the device                    *)
  BufCount,   (* DMA_BUF_COUNT, buffers of engine 1                        *)
  Unbind      (* the board may be unbound with the module in use           *)

ASSUME FilesAssumption    == IsFiniteSet(Files)
ASSUME BufCountAssumption == BufCount \in Nat \ {0}
ASSUME UnbindAssumption   == Unbind \in BOOLEAN

VARIABLES
  module,     (* "out", "live", or "going" once rmmod has begun            *)
  irqmode,    (* the module parameter: poll, level or msi                  *)
  at,         (* step of probe or of a release, "unbound" or "bound"       *)
  held,       (* what probe has acquired, but for the engine 1 buffers     *)
  bufs,       (* the engine 1 buffers that are allocated                   *)
  file,       (* a file's progress through open and release                *)
  refs        (* the reference count of the module                         *)

vars == <<module, irqmode, at, held, bufs, file, refs>>

(* The acquisitions of probe, in order.  "kobj" is the board_data, freed   *)
(* by pico_release with the last reference; "mask" acquires nothing.       *)
Acquisitions == <<"kobj", "enabled", "regions", "bar0", "bar2", "mask", "buf1",
                  "buf2", "msi", "irq", "sysfs", "chrdev", "cdev", "device">>

(* The releases, in order.                                                 *)
Releases == <<"device", "cdev", "chrdev", "sysfs", "irq", "msi", "buf2",
              "buf1", "bar2", "bar0", "regions", "enabled", "kobj", "end">>

Resources == {Acquisitions[i] : i \in 1..Len(Acquisitions)} \ {"mask", "buf1"}

(* Only these depend on the interrupt mode.                                *)
Skipped(s) == \/ s = "msi" /\ irqmode # "msi"
              \/ s = "irq" /\ irqmode = "poll"

(* The release that a failed acquisition jumps to: the labels of           *)
(* pico_pci_setup and pico_cdev_setup.                                     *)
FailTo == [kobj |-> "end",      enabled |-> "kobj",  regions |-> "enabled",
           bar0 |-> "regions",  bar2 |-> "bar0",     mask |-> "bar2",
           buf1 |-> "buf1",     buf2 |-> "buf2",     msi |-> "buf2",
           irq |-> "msi",       sysfs |-> "irq",     chrdev |-> "sysfs",
           cdev |-> "chrdev",   device |-> "cdev"]

After(order, s) == order[1 + CHOOSE i \in 1..Len(order) : order[i] = s]

Acquiring(s) == at = [doing |-> "acquire", what |-> s]
Releasing(s) == at = [doing |-> "release", what |-> s]
Unbound == at.doing = "unbound"
Bound   == at.doing = "bound"

StartOf(d, s) == [doing |-> d, what |-> s]

Init ==
  /\ module = "out"
  /\ irqmode = "msi"
  /\ at   = StartOf("unbound", "end")
  /\ held = {}
  /\ bufs = {}
  /\ file = [f \in Files |-> "closed"]
  /\ refs = 0

-----------------------------------------------------------------------------
(* damc_fmc25_pcie_init and damc_fmc25_pcie_exit *)

Load ==
  /\ module = "out"
  /\ module' = "live"
  /\ irqmode' \in {"poll", "level", "msi"}
  /\ UNCHANGED <<at, held, bufs, file, refs>>

(* delete_module(2): refused while the module is in use.                   *)
Rmmod ==
  /\ module = "live"
  /\ refs = 0
  /\ module' = "going"
  /\ UNCHANGED <<irqmode, at, held, bufs, file, refs>>

Exit ==
  /\ module = "going"
  /\ Unbound
  /\ module' = "out"
  /\ UNCHANGED <<irqmode, at, held, bufs, file, refs>>

-----------------------------------------------------------------------------
(* probe *)

Probe ==
  /\ module = "live"
  /\ Unbound
  /\ at' = StartOf("acquire", "kobj")
  /\ UNCHANGED <<module, irqmode, held, bufs, file, refs>>

NextAcquisition(s) ==
  IF s = "device" THEN StartOf("bound", "end")
  ELSE StartOf("acquire", After(Acquisitions, s))

Take(s) ==
  /\ Acquiring(s)
  /\ s # "buf1"
  /\ held' = IF s = "mask" \/ Skipped(s) THEN held ELSE held \cup {s}
  /\ at' = NextAcquisition(s)
  /\ UNCHANGED <<module, irqmode, bufs, file, refs>>

TakeBuf1 ==
  /\ Acquiring("buf1")
  /\ bufs' = bufs \cup {Cardinality(bufs) + 1}
  /\ at' = IF Cardinality(bufs) + 1 = BufCount THEN NextAcquisition("buf1") ELSE at
  /\ UNCHANGED <<module, irqmode, held, file, refs>>

(* A failed acquisition jumps to its label.  Mutants: request_irq failing  *)
(* jumps past the engine 2 buffer, or frees the interrupt it did not get.  *)
FailAt(s, label) ==
  /\ Acquiring(s)
  /\ ~Skipped(s)
  /\ at' = StartOf("release", label)
  /\ UNCHANGED <<module, irqmode, held, bufs, file, refs>>

Fail_IrqLate(s) == FailAt(s, IF s = "irq" THEN "buf1" ELSE FailTo[s])
Fail_IrqEarly(s)   == FailAt(s, IF s = "irq" THEN "irq" ELSE FailTo[s])
Fail(s)         == FailAt(s, FailTo[s])

-----------------------------------------------------------------------------
(* remove, and the unwinding of a failed probe *)

Remove ==
  /\ Bound
  /\ module = "going" \/ Unbind
  /\ at' = StartOf("release", "device")
  /\ UNCHANGED <<module, irqmode, held, bufs, file, refs>>

NextRelease(s) ==
  IF After(Releases, s) = "end" THEN StartOf("unbound", "end")
  ELSE StartOf("release", After(Releases, s))

(* Mutant: BAR0 is unmapped before the interrupt handler is freed.         *)
Give_BarFirst(s) ==
  /\ Releasing(s)
  /\ held' = held \ (IF s = "irq" THEN {"bar0"} ELSE IF s = "bar0" THEN {"irq"} ELSE {s})
  /\ bufs' = IF s = "buf1" THEN {} ELSE bufs
  /\ at' = NextRelease(s)
  /\ UNCHANGED <<module, irqmode, file, refs>>

Give(s) ==
  /\ Releasing(s)
  /\ s # "end"
  /\ held' = held \ {s}
  /\ bufs' = IF s = "buf1" THEN {} ELSE bufs
  /\ at' = NextRelease(s)
  /\ UNCHANGED <<module, irqmode, file, refs>>

(* The very first allocation failed: nothing to release.                   *)
GiveUp ==
  /\ Releasing("end")
  /\ at' = StartOf("unbound", "end")
  /\ UNCHANGED <<module, irqmode, held, bufs, file, refs>>

-----------------------------------------------------------------------------
(* open(2) and close(2): the kernel holds a reference of its own, through  *)
(* the owner of mps_pico_fops, from before char_open until after           *)
(* char_release                                                            *)

OpenStart(f) ==
  /\ file[f] = "closed"
  /\ "device" \in held
  /\ module = "live"
  /\ file' = [file EXCEPT ![f] = "opening"]
  /\ refs' = refs + 1
  /\ UNCHANGED <<module, irqmode, at, held, bufs>>

(* try_module_get succeeds: the kernel's reference keeps the module live.  *)
CharOpen(f) ==
  /\ file[f] = "opening"
  /\ file' = [file EXCEPT ![f] = "open"]
  /\ refs' = refs + 1
  /\ UNCHANGED <<module, irqmode, at, held, bufs>>

(* kzalloc fails: module_put, and the kernel drops its own reference.      *)
CharOpenNoMem(f) ==
  /\ file[f] = "opening"
  /\ file' = [file EXCEPT ![f] = "closed"]
  /\ refs' = refs - 1
  /\ UNCHANGED <<module, irqmode, at, held, bufs>>

(* Mutant: char_release puts twice, so the module can go while the kernel  *)
(* still holds the file.                                                   *)
CharRelease_Twice(f) ==
  /\ file[f] = "open"
  /\ file' = [file EXCEPT ![f] = "released"]
  /\ refs' = refs - 2
  /\ UNCHANGED <<module, irqmode, at, held, bufs>>

CharRelease(f) ==
  /\ file[f] = "open"
  /\ file' = [file EXCEPT ![f] = "released"]
  /\ refs' = refs - 1
  /\ UNCHANGED <<module, irqmode, at, held, bufs>>

CloseEnd(f) ==
  /\ file[f] = "released"
  /\ file' = [file EXCEPT ![f] = "closed"]
  /\ refs' = refs - 1
  /\ UNCHANGED <<module, irqmode, at, held, bufs>>

-----------------------------------------------------------------------------
Next ==
  \/ Load \/ Rmmod \/ Exit
  \/ Probe \/ TakeBuf1 \/ Remove \/ GiveUp
  \/ \E s \in DOMAIN FailTo : Take(s) \/ Fail(s) \/ Give(s)
  \/ \E f \in Files : \/ OpenStart(f) \/ CharOpen(f) \/ CharOpenNoMem(f)
                      \/ CharRelease(f) \/ CloseEnd(f)

Spec == Init /\ [][Next]_vars

-----------------------------------------------------------------------------
(* Type correctness. The step probe or remove is at, and what can be held. *)
TypeOK ==
  /\ module \in {"out", "live", "going"}
  /\ irqmode \in {"poll", "level", "msi"}
  /\ at \in [doing : {"unbound", "acquire", "bound", "release"},
             what : DOMAIN FailTo \cup {"end"}]
  /\ held \subseteq Resources
  /\ bufs \subseteq 1..BufCount
  /\ file \in [Files -> {"closed", "opening", "open", "released"}]
  /\ refs \in 0 .. 2 * Cardinality(Files)

(* After a probe that failed at any of its steps, and after remove,        *)
(* nothing is left allocated, mapped or registered.                        *)
NothingLeaked == Unbound => held = {} /\ bufs = {}

(* A release is never done on what is not there: the goto labels undo what *)
(* was acquired and no more.  The buffers and MSI are tested in the code.  *)
ReleasedOnce ==
  \A s \in Resources \ {"buf2"} :
    Releasing(s) => s \in held \/ Skipped(s)

(* While amc_isr is registered, what it dereferences is there: the board   *)
(* and BAR0, whatever order the failed probe or remove releases in.        *)
HandlerHasBoard == "irq" \in held => {"kobj", "bar0"} \subseteq held

(* Unless the board is unbound from a module in use, a file that is open   *)
(* or being opened has its board, both BARs and all DMA buffers.           *)
OpenFileHasBoard ==
  (\E f \in Files : file[f] # "closed") =>
    {"kobj", "bar0", "bar2", "buf2"} \subseteq held /\ bufs = 1..BufCount

(* The module's reference count drops to 0 exactly when no file is open,   *)
(* so that rmmod is neither refused for ever nor possible too early.       *)
RefsBalanced == refs = 0 <=> \A f \in Files : file[f] = "closed"
=============================================================================
