------------------------------ MODULE PicoRead ------------------------------
(***************************************************************************)
(* read(), ioctl(ABORT_READ) and the interrupt handler of the mps_pico     *)
(* PCIe driver: char_read, char_ioctl (mps_pico_char.c) and amc_isr        *)
(* (mps_pico_main.c), with the two DMA engines of the board as the         *)
(* environment.                                                            *)
(*                                                                         *)
(* One board, any number of callers of read().  A read arms both engines,  *)
(* waits for engine 1, copies its buffer to the user, then does the same   *)
(* for engine 2.  The spin lock of the wait queue (dma_queue.lock) guards  *)
(* the board's fields everywhere except in the interrupt handler, whose    *)
(* spin_lock_irqsave is commented out: the handler is a process of its own *)
(* that runs between any two steps of a lock holder on another CPU.        *)
(*                                                                         *)
(* Data: what a buffer holds is the caller whose transfer wrote it last,   *)
(* Fill, the 0xf0 pattern char_read leaves after a copy, or Nobody, what   *)
(* probe's allocation left there.  "Sometimes the DMA done interrupt comes *)
(* even though nothing has been transfered" (mps_pico_char.c:246), so a    *)
(* transfer may be reported without having written its buffer.  The byte   *)
(* counters (dmaN_bytes_trans), the counters of the handler and the log    *)
(* are left out.  The split of a count into chunks is PicoBufLayout.       *)
(***************************************************************************)
EXTENDS Naturals, Sequences, FiniteSets

CONSTANTS
  Readers,    (* callers of read()                                         *)
  IrqMode,    (* "irq" for dmac_irq_level and dmac_irq_msi, else "poll"    *)
  Ops,        (* values the handler can report: 1 done, 2 "FIFO ran away"  *)
  Outcomes,   (* what a transfer reported done may have done: "written" or *)
              (* "nothing"                                                 *)
  Nobody,     (* no caller: the lock is free, a buffer was not copied or   *)
              (* not written                                               *)
  Fill        (* the 0xf0 pattern                                          *)

ASSUME ReadersAssumption == Nobody \notin Readers /\ Fill \notin Readers
                            /\ Nobody # Fill
ASSUME IrqModeAssumption == IrqMode \in {"irq", "poll"}
ASSUME OpsAssumption     == Ops \subseteq {1, 2} /\ Ops # {}
ASSUME OutcomesAssumption == Outcomes \subseteq {"written", "nothing"} /\ Outcomes # {}

Engines == {1, 2}

(* What a buffer holds that no transfer has written since it was refilled. *)
Blank == {Nobody, Fill}

VARIABLES
  lock,        (* owner of dma_queue.lock                                  *)
  inProgress,  (* read1_in_progress, read2_in_progress                     *)
  flag,        (* dma1_irq_flag, dma2_irq_flag: 0 none, 1 done, 2 aborted  *)
  waitq,       (* callers asleep on dma_queue and not yet woken            *)
  pc, ph,      (* where a caller is, and the engine it is waiting for      *)
  rc, cond,    (* its locals rc and cond1/cond2                            *)
  sig,         (* a signal is pending for the caller                       *)
  got, ret,    (* what it copied per engine, and the result of its read()  *)
  isr,         (* the handler: its step, its engine, the caller polling it *)
  cmd,         (* per engine, the callers whose transfer is queued         *)
  fifo,        (* responses in the engine's response FIFO                  *)
  latch,       (* bits of INTR_LATCH                                       *)
  mem,         (* contents of kernel_mem1_buf, kernel_mem2_buf             *)
  dry          (* auxiliary: callers whose transfer of engine 1 was        *)
               (* reported done though it wrote nothing                    *)

caller == <<pc, ph, rc, cond, sig, got, ret>>
board  == <<lock, inProgress, flag, waitq>>
device == <<cmd, fifo, latch, mem, dry>>
vars   == <<board, caller, isr, device>>

Labels    == {"idle", "enter", "test", "queue", "sleep", "poll", "isr", "timed",
              "relock", "collect", "settle", "copy", "fill", "again"}
Results   == {"none", "EIO", "ECANCELED", "ERESTARTSYS", "uncopied", "count"}
IsrLabels == {"idle", "drain", "flag", "wake", "clear"}

(* The first step of the wait for an engine, entered with the lock held.   *)
Wait == IF IrqMode = "poll" THEN "poll" ELSE "test"

Goto(r, l) == pc' = [pc EXCEPT ![r] = l]

Acquire(r) == lock = Nobody /\ lock' = r
Release(r) == lock' = Nobody

(* Return from read(): a pending signal is delivered on the way out, and   *)
(* only a read that returns its count has data worth remembering.          *)
Return(r, result) ==
  /\ Goto(r, "idle")
  /\ got'  = IF result = "count" THEN got
             ELSE [got EXCEPT ![r] = [e \in Engines |-> Nobody]]
  /\ ret'  = [ret  EXCEPT ![r] = result]
  /\ rc'   = [rc   EXCEPT ![r] = "0"]
  /\ cond' = [cond EXCEPT ![r] = 0]
  /\ sig'  = [sig  EXCEPT ![r] = FALSE]

Init ==
  /\ lock = Nobody
  /\ inProgress = [e \in Engines |-> FALSE]
  /\ flag  = [e \in Engines |-> 0]
  /\ waitq = {}
  /\ pc    = [r \in Readers |-> "idle"]
  /\ ph    = [r \in Readers |-> 1]
  /\ rc    = [r \in Readers |-> "0"]
  /\ cond  = [r \in Readers |-> 0]
  /\ sig   = [r \in Readers |-> FALSE]
  /\ got   = [r \in Readers |-> [e \in Engines |-> Nobody]]
  /\ ret   = [r \in Readers |-> "none"]
  /\ isr   = [at |-> "idle", eng |-> 1, by |-> Nobody]
  /\ cmd   = [e \in Engines |-> <<>>]
  /\ fifo  = [e \in Engines |-> 0]
  /\ latch = {}
  /\ mem   = [e \in Engines |-> Nobody]
  /\ dry   = {}

-----------------------------------------------------------------------------
(* char_read, up to the wait for engine 1 *)

(* A count above DMA_BUF_COUNT*DMA_BUF_SIZE was refused before this point, *)
(* without a trace (PicoBufLayout).                                        *)
Enter(r) ==
  /\ pc[r] = "idle"
  /\ Acquire(r)
  /\ Goto(r, "enter")
  /\ UNCHANGED <<inProgress, flag, waitq, ph, rc, cond, sig, got, ret, isr, device>>

Busy1(r) ==
  /\ pc[r] = "enter"
  /\ inProgress[1]
  /\ Release(r)
  /\ Return(r, "EIO")
  /\ UNCHANGED <<inProgress, flag, waitq, ph, isr, device>>

(* The second test comes after read1_in_progress was set, and its early    *)
(* return leaves it set.                                                   *)
Busy2(r) ==
  /\ pc[r] = "enter"
  /\ ~inProgress[1]
  /\ inProgress[2]
  /\ inProgress' = [inProgress EXCEPT ![1] = TRUE]
  /\ Release(r)
  /\ Return(r, "EIO")
  /\ UNCHANGED <<flag, waitq, ph, isr, device>>

(* Mutant: the second in-progress test is forgotten.                       *)
Arm_Test1Only(r) ==
  /\ pc[r] = "enter"
  /\ ~inProgress[1]
  /\ inProgress' = [e \in Engines |-> TRUE]
  /\ cmd' = [e \in Engines |-> Append(cmd[e], r)]
  /\ Goto(r, Wait)
  /\ ph'  = [ph  EXCEPT ![r] = 1]
  /\ got' = [got EXCEPT ![r] = [e \in Engines |-> Nobody]]
  /\ dry' = dry \ {r}
  /\ UNCHANGED <<lock, flag, waitq, rc, cond, sig, ret, isr, fifo, latch, mem>>

(* Both engines get the caller's buffers and are enabled.  The flags are   *)
(* not reset: an abort that came before the read is still to be seen.      *)
Arm(r) ==
  /\ pc[r] = "enter"
  /\ ~inProgress[1]
  /\ ~inProgress[2]
  /\ inProgress' = [e \in Engines |-> TRUE]
  /\ cmd' = [e \in Engines |-> Append(cmd[e], r)]
  /\ Goto(r, Wait)
  /\ ph'  = [ph  EXCEPT ![r] = 1]
  /\ got' = [got EXCEPT ![r] = [e \in Engines |-> Nobody]]
  /\ ret' = [ret EXCEPT ![r] = "none"]
  /\ dry' = dry \ {r}
  /\ UNCHANGED <<lock, flag, waitq, rc, cond, sig, isr, fifo, latch, mem>>

-----------------------------------------------------------------------------
(* wait_event_interruptible_locked_irq(dma_queue, dmaN_irq_flag != 0) *)

Test(r) ==
  /\ pc[r] = "test"
  /\ Goto(r, IF flag[ph[r]] # 0 THEN "collect" ELSE "queue")
  /\ UNCHANGED <<board, ph, rc, cond, sig, got, ret, isr, device>>

(* Queue, look for a signal, drop the lock and sleep.  The condition is    *)
(* not looked at again on the way.                                         *)
Queue(r) ==
  /\ pc[r] = "queue"
  /\ \/ /\ sig[r]
        /\ rc' = [rc EXCEPT ![r] = "ERESTARTSYS"]
        /\ Goto(r, "collect")
        /\ UNCHANGED <<lock, waitq>>
     \/ /\ ~sig[r]
        /\ waitq' = waitq \cup {r}
        /\ Release(r)
        /\ Goto(r, "sleep")
        /\ UNCHANGED rc
  /\ UNCHANGED <<inProgress, flag, ph, cond, sig, got, ret, isr, device>>

Woken(r) ==
  /\ pc[r] = "sleep"
  /\ r \notin waitq
  /\ Acquire(r)
  /\ Goto(r, "test")
  /\ UNCHANGED <<inProgress, flag, waitq, ph, rc, cond, sig, got, ret, isr, device>>

-----------------------------------------------------------------------------
(* The polling loop of dmac_irq_poll: the caller runs amc_isr itself *)

Poll(r) ==
  /\ pc[r] = "poll"
  /\ Release(r)
  /\ \/ /\ latch = {}
        /\ Goto(r, "timed")
        /\ UNCHANGED isr
     \/ \E e \in latch :
        /\ e = 2 => 1 \notin latch
        /\ isr' = [at |-> "drain", eng |-> e, by |-> r]
        /\ Goto(r, "isr")
  /\ UNCHANGED <<inProgress, flag, waitq, ph, rc, cond, sig, got, ret, device>>

(* Mutant: the wait has no timeout.                                        *)
Timed_NoTimeout(r) ==
  /\ pc[r] = "timed"
  /\ flag[ph[r]] # 0 \/ sig[r]
  /\ rc' = [rc EXCEPT ![r] = IF flag[ph[r]] = 0 /\ sig[r] THEN "ERESTARTSYS" ELSE "0"]
  /\ Goto(r, "relock")
  /\ UNCHANGED <<board, ph, cond, sig, got, ret, isr, device>>

(* wait_event_interruptible_timeout: the condition, a signal or 1 ms.      *)
Timed(r) ==
  /\ pc[r] = "timed"
  /\ rc' = [rc EXCEPT ![r] = IF flag[ph[r]] = 0 /\ sig[r] THEN "ERESTARTSYS" ELSE "0"]
  /\ Goto(r, "relock")
  /\ UNCHANGED <<board, ph, cond, sig, got, ret, isr, device>>

(* Mutant: only a completion, not an abort, ends the loop.                 *)
Relock_DoneOnly(r) ==
  /\ pc[r] = "relock"
  /\ Acquire(r)
  /\ Goto(r, IF flag[ph[r]] # 1 /\ rc[r] = "0" THEN "poll" ELSE "collect")
  /\ UNCHANGED <<inProgress, flag, waitq, ph, rc, cond, sig, got, ret, isr, device>>

Relock(r) ==
  /\ pc[r] = "relock"
  /\ Acquire(r)
  /\ Goto(r, IF flag[ph[r]] = 0 /\ rc[r] = "0" THEN "poll" ELSE "collect")
  /\ UNCHANGED <<inProgress, flag, waitq, ph, rc, cond, sig, got, ret, isr, device>>

-----------------------------------------------------------------------------
(* char_read, after the wait: the same code for each engine *)

(* The flag is read here and cleared in Settle; the handler may write it   *)
(* in between.                                                             *)
Collect(r) ==
  /\ pc[r] = "collect"
  /\ cond' = [cond EXCEPT ![r] = flag[ph[r]]]
  /\ Goto(r, "settle")
  /\ UNCHANGED <<board, ph, rc, sig, got, ret, isr, device>>

(* dmaN_reset: the engine drops its commands and its responses.            *)
Reset(e) ==
  /\ cmd'  = [cmd  EXCEPT ![e] = <<>>]
  /\ fifo' = [fifo EXCEPT ![e] = 0]

(* An interrupted or aborted wait returns with only its own engine reset   *)
(* and only its own in-progress mark cleared.                              *)
SettleWith(r, newFlag, newMarks) ==
  LET e == ph[r] IN
  /\ pc[r] = "settle"
  /\ flag' = newFlag
  /\ inProgress' = newMarks
  /\ Release(r)
  /\ \/ /\ rc[r] # "0" \/ cond[r] # 1
        /\ Return(r, IF cond[r] # 1 THEN "ECANCELED" ELSE rc[r])
        /\ Reset(e)
     \/ /\ rc[r] = "0" /\ cond[r] = 1
        /\ Goto(r, "copy")
        /\ UNCHANGED <<rc, cond, sig, got, ret, cmd, fifo>>
  /\ UNCHANGED <<waitq, ph, isr, latch, mem, dry>>

(* Mutant: both in-progress marks are cleared when the wait for engine 1   *)
(* ends.                                                                   *)
Settle_FreesBoth(r) == SettleWith(r, [flag EXCEPT ![ph[r]] = 0], [e \in Engines |-> FALSE])

Settle(r) ==
  SettleWith(r, [flag EXCEPT ![ph[r]] = 0], [inProgress EXCEPT ![ph[r]] = FALSE])

(* copy_to_user, which may leave bytes uncopied; the lock is not held.     *)
Copy(r) ==
  /\ pc[r] = "copy"
  /\ got' = [got EXCEPT ![r][ph[r]] = mem[ph[r]]]
  /\ \E left \in {"0", "uncopied"} : rc' = [rc EXCEPT ![r] = left]
  /\ Goto(r, "fill")
  /\ UNCHANGED <<board, ph, cond, sig, ret, isr, device>>

(* The memset that follows, and the return of a copy that failed or of     *)
(* the whole read.  Buffers after the one whose copy failed are neither    *)
(* copied nor refilled.                                                    *)
FillWith(r, filled) ==
  /\ pc[r] = "fill"
  /\ \/ /\ rc[r] = "uncopied"
        /\ mem' \in {mem, filled}
        /\ Return(r, "uncopied")
     \/ /\ rc[r] = "0" /\ ph[r] = 1
        /\ mem' = filled
        /\ Goto(r, "again")
        /\ UNCHANGED <<rc, cond, sig, got, ret>>
     \/ /\ rc[r] = "0" /\ ph[r] = 2
        /\ mem' = filled
        /\ Return(r, "count")
  /\ UNCHANGED <<board, ph, isr, cmd, fifo, latch, dry>>

(* Mutant: the copied buffer is not refilled.                              *)
FillBuf_Kept(r) == FillWith(r, mem)

FillBuf(r) == FillWith(r, [mem EXCEPT ![ph[r]] = Fill])

Again(r) ==
  /\ pc[r] = "again"
  /\ Acquire(r)
  /\ ph' = [ph EXCEPT ![r] = 2]
  /\ Goto(r, Wait)
  /\ UNCHANGED <<inProgress, flag, waitq, rc, cond, sig, got, ret, isr, device>>

-----------------------------------------------------------------------------
(* ioctl(ABORT_READ), and signals *)

(* Mutant: ABORT_READ does not take the lock.                              *)
Abort_Unlocked ==
  /\ flag' = [e \in Engines |-> 2]
  /\ waitq' = {}
  /\ UNCHANGED <<lock, inProgress, caller, isr, device>>

Abort ==
  /\ lock = Nobody
  /\ flag' = [e \in Engines |-> 2]
  /\ waitq' = {}
  /\ UNCHANGED <<lock, inProgress, caller, isr, device>>

Signal(r) ==
  /\ pc[r] # "idle"
  /\ ~sig[r]
  /\ sig' = [sig EXCEPT ![r] = TRUE]
  /\ waitq' = waitq \ {r}
  /\ UNCHANGED <<lock, inProgress, flag, pc, ph, rc, cond, got, ret, isr, device>>

-----------------------------------------------------------------------------
(* amc_isr: engine 1 is looked at first, and one run serves one engine *)

IsrEnter ==
  /\ IrqMode = "irq"
  /\ isr.at = "idle"
  /\ \E e \in latch :
       /\ e = 2 => 1 \notin latch
       /\ isr' = [at |-> "drain", eng |-> e, by |-> Nobody]
  /\ UNCHANGED <<board, caller, device>>

(* An empty FIFO is only warned about: no flag, no wake-up.                *)
IsrDrain ==
  /\ isr.at = "drain"
  /\ isr' = [isr EXCEPT !.at = IF fifo[isr.eng] = 0 THEN "clear" ELSE "flag"]
  /\ fifo' = [fifo EXCEPT ![isr.eng] = 0]
  /\ UNCHANGED <<board, caller, cmd, latch, mem, dry>>

IsrFlag ==
  /\ isr.at = "flag"
  /\ \E op \in Ops : flag' = [flag EXCEPT ![isr.eng] = op]
  /\ isr' = [isr EXCEPT !.at = "wake"]
  /\ UNCHANGED <<lock, inProgress, waitq, caller, device>>

IsrWake ==
  /\ isr.at = "wake"
  /\ waitq' = {}
  /\ isr' = [isr EXCEPT !.at = "clear"]
  /\ UNCHANGED <<lock, inProgress, flag, caller, device>>

(* INTR_CLEAR, and in polling mode the return to the caller's loop.        *)
IsrClear ==
  /\ isr.at = "clear"
  /\ latch' = latch \ {isr.eng}
  /\ isr' = [isr EXCEPT !.at = "idle", !.by = Nobody]
  /\ pc' = [r \in Readers |-> IF r = isr.by THEN "relock" ELSE pc[r]]
  /\ rc' = [r \in Readers |-> IF r = isr.by THEN "0" ELSE rc[r]]
  /\ UNCHANGED <<board, ph, cond, sig, got, ret, cmd, fifo, mem, dry>>

-----------------------------------------------------------------------------
(* The board: an engine finishes the oldest transfer queued on it, and may *)
(* report it done without having written the buffer.                       *)

Transfer(e) ==
  /\ cmd[e] # <<>>
  /\ \/ /\ "written" \in Outcomes
        /\ mem' = [mem EXCEPT ![e] = Head(cmd[e])]
        /\ UNCHANGED dry
     \/ /\ "nothing" \in Outcomes
        /\ mem' = mem
        /\ dry' = IF e = 1 THEN dry \cup {Head(cmd[e])} ELSE dry
  /\ cmd'   = [cmd  EXCEPT ![e] = Tail(cmd[e])]
  /\ fifo'  = [fifo EXCEPT ![e] = @ + 1]
  /\ latch' = latch \cup {e}
  /\ UNCHANGED <<board, caller, isr>>

-----------------------------------------------------------------------------
ReadStep(r) ==
  \/ Busy1(r) \/ Busy2(r) \/ Arm(r)
  \/ Test(r) \/ Queue(r) \/ Woken(r)
  \/ Poll(r) \/ Timed(r) \/ Relock(r)
  \/ Collect(r) \/ Settle(r) \/ Copy(r) \/ FillBuf(r) \/ Again(r)

IsrStep == IsrDrain \/ IsrFlag \/ IsrWake \/ IsrClear

Next ==
  \/ \E r \in Readers : Enter(r) \/ ReadStep(r) \/ Signal(r)
  \/ Abort
  \/ IsrEnter
  \/ IsrStep
  \/ \E e \in Engines : Transfer(e)

Spec == Init /\ [][Next]_vars

(* A caller inside read() keeps running, and gets the lock when others     *)
(* keep taking it; the board finishes its transfers and raises its         *)
(* interrupt.  Nobody has to call read(), to abort or to be signalled.     *)
Fairness ==
  /\ \A r \in Readers : SF_vars(ReadStep(r))
  /\ WF_vars(IsrEnter)
  /\ WF_vars(IsrStep)
  /\ \A e \in Engines : WF_vars(Transfer(e))

FairSpec == Spec /\ Fairness

-----------------------------------------------------------------------------
(* Type correctness. The marks, flags and the card's state, and where      *)
(* callers and handler are.                                                *)
TypeOK ==
  /\ lock \in Readers \cup {Nobody}
  /\ inProgress \in [Engines -> BOOLEAN]
  /\ flag \in [Engines -> 0..2]
  /\ waitq \subseteq Readers
  /\ pc \in [Readers -> Labels]
  /\ ph \in [Readers -> Engines]
  /\ rc \in [Readers -> {"0", "ERESTARTSYS", "uncopied"}]
  /\ cond \in [Readers -> 0..2]
  /\ sig \in [Readers -> BOOLEAN]
  /\ got \in [Readers -> [Engines -> Readers \cup {Nobody, Fill}]]
  /\ ret \in [Readers -> Results]
  /\ isr \in [at : IsrLabels, eng : Engines, by : Readers \cup {Nobody}]
  /\ cmd \in [Engines -> Seq(Readers)]
  /\ fifo \in [Engines -> Nat]
  /\ latch \subseteq Engines
  /\ mem \in [Engines -> Readers \cup Blank]
  /\ dry \subseteq Readers

(* From the in-progress tests to the end of its wait for engine 2 a read   *)
(* has the engines to itself.                                              *)
Armed(r) ==
  pc[r] \notin {"idle", "enter"} /\ ~(ph[r] = 2 /\ pc[r] \in {"copy", "fill"})

(* Two reads never have the engines armed at the same time, whatever       *)
(* aborts, signals and late interrupts do to the in-progress marks: the    *)
(* tests of read1_in_progress and read2_in_progress in char_read do keep   *)
(* a second caller out.                                                    *)
OneArmedRead == \A r, q \in Readers : Armed(r) /\ Armed(q) => r = q

(* While a caller copies the engine 1 buffer to the user and refills it,   *)
(* without the lock and with read1_in_progress already cleared, engine 1   *)
(* has no transfer queued that could write the buffer under it.            *)
Buffer1Stable ==
  \A r \in Readers : pc[r] \in {"copy", "fill"} /\ ph[r] = 1 => cmd[1] = <<>>

(* A read that returns its count delivered, for engine 1, the samples of   *)
(* its own transfer; and if that transfer was reported without having      *)
(* moved anything, the pattern the memset of char_read is there for, never *)
(* the samples of an earlier read, be it one that was aborted or whose     *)
(* copy failed and left its samples in the buffer.                         *)
OwnEngine1Data ==
  \A r \in Readers :
    ret[r] = "count" => IF r \in dry THEN got[r][1] \in Blank ELSE got[r][1] = r

(* ABORT_READ is not lost on a sleeping caller: nobody stays queued on     *)
(* dma_queue for an engine whose flag says aborted.                        *)
AbortSeen == \A r \in waitq : flag[ph[r]] # 2

(* ABORT_READ makes a read in progress return: "If a read() is in progress *)
(* it returns immediately" (README.md:115).                                *)
AbortedReadReturns ==
  \A r \in Readers :
    (pc[r] \notin {"idle", "enter"} /\ flag = [e \in Engines |-> 2]) ~> (pc[r] = "idle")

(* Unless somebody aborts a read or is signalled, every read that was      *)
(* started returns: read() "returns when the requested number of samples   *)
(* have been received" (README.md:75-77).                                  *)
Undisturbed == [](\A r \in Readers : ~sig[r]) /\ [](\A e \in Engines : flag[e] # 2)
ReadReturns ==
  Undisturbed => \A r \in Readers : (pc[r] # "idle") ~> (pc[r] = "idle")

-----------------------------------------------------------------------------
(* What README.md says of read() and the code does not do *)

(* A read is refused as a concurrent one only while another is in          *)
(* progress; after ECANCELED "subsequent read() calls will block as        *)
(* normal" (README.md:118-119).                                            *)
RefusedOnlyWhenBusy ==
  [][\A r \in Readers :
       pc[r] = "enter" /\ pc'[r] = "idle"
         => \E q \in Readers \ {r} : pc[q] \notin {"idle", "enter"}]_vars
=============================================================================
