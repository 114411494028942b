---------------------------- MODULE PicoBufLayout ----------------------------
(***************************************************************************)
(* How char_read (mps_pico_char.c) splits a count: the share of each       *)
(* engine, the buffers of engine 1 it queues with dma1_push, and the       *)
(* copies to the user once the engines are done.  The waiting in between,  *)
(* with everything that can go wrong there, is PicoRead; here one read is  *)
(* followed from its count to its last copy.                               *)
(***************************************************************************)
EXTENDS Naturals, Sequences

CONSTANTS
  BufSize,    (* DMA_BUF_SIZE, the module parameter damc_dma_buf_len       *)
  BufCount,   (* DMA_BUF_COUNT                                             *)
  Ratio,      (* samples of engine 1 for one of engine 2 (1000)            *)
  Line        (* DMA_BYTES_PER_LINE                                        *)

ASSUME BufSizeAssumption  == BufSize \in Nat \ {0}
ASSUME BufCountAssumption == BufCount \in Nat \ {0}
ASSUME RatioAssumption    == Ratio \in Nat \ {0} /\ BufCount <= Ratio
ASSUME LineAssumption     == Line \in Nat \ {0}

VARIABLES
  pc,
  count,      (* the bytes asked for                                       *)
  dma1,       (* dma1_count_copy, engine 1's share                         *)
  dma2,       (* dma2_count                                                *)
  left,       (* dma1_count, counted down by both loops                    *)
  i,          (* index of the engine 1 buffer                              *)
  hw,         (* what was queued on engine 1: buffer, length, interrupt    *)
  hw2,        (* and on engine 2                                           *)
  user        (* what was copied: offset, engine, buffer, length           *)

vars == <<pc, count, dma1, dma2, left, i, hw, hw2, user>>

(* Bound: the counts asked for, up to twice what is allowed.               *)
MaxCount == 2 * BufCount * BufSize

Init ==
  /\ pc = "entry"
  /\ count \in 0 .. MaxCount
  /\ dma1 = 0 /\ dma2 = 0 /\ left = 0 /\ i = 0
  /\ hw = <<>> /\ hw2 = <<>>
  /\ user = <<>>

-----------------------------------------------------------------------------
(* Engine 2 gets a Ratio-th, in whole lines; engine 1 the rest.            *)
Share == ((count \div Ratio) \div Line) * Line

Refuse ==
  /\ pc = "entry"
  /\ count > BufCount * BufSize
  /\ pc' = "EINVAL"
  /\ UNCHANGED <<count, dma1, dma2, left, i, hw, hw2, user>>

(* Mutant: the count is not checked.                                       *)
Split_Unchecked ==
  /\ pc = "entry"
  /\ dma2' = Share
  /\ dma1' = count - Share
  /\ left' = count - Share
  /\ i' = 0
  /\ pc' = "push"
  /\ UNCHANGED <<count, hw, hw2, user>>

Split ==
  /\ pc = "entry"
  /\ count <= BufCount * BufSize
  /\ dma2' = Share
  /\ dma1' = count - Share
  /\ left' = count - Share
  /\ i' = 0
  /\ pc' = "push"
  /\ UNCHANGED <<count, hw, hw2, user>>

PushFull ==
  /\ pc = "push"
  /\ left > BufSize
  /\ hw' = Append(hw, [buf |-> i, len |-> BufSize, irq |-> 0])
  /\ i' = i + 1
  /\ left' = left - BufSize
  /\ UNCHANGED <<pc, count, dma1, dma2, hw2, user>>

(* The last push of engine 1 and the one of engine 2 ask for the           *)
(* interrupt; they are made even for a length of 0.                        *)
PushLast ==
  /\ pc = "push"
  /\ left <= BufSize
  /\ hw' = Append(hw, [buf |-> i, len |-> left, irq |-> 1])
  /\ hw2' = Append(hw2, [buf |-> 0, len |-> dma2, irq |-> 1])
  /\ pc' = "wait"
  /\ UNCHANGED <<count, dma1, dma2, left, i, user>>

(* Engine 1 is done: the share is restored and the buffers walked again.   *)
Done1 ==
  /\ pc = "wait"
  /\ left' = dma1
  /\ i' = 0
  /\ pc' = "copy"
  /\ UNCHANGED <<count, dma1, dma2, hw, hw2, user>>

(* copy_to_user, which may fail and ends the read.                         *)
CopyTo(at, engine, buf, len, then) ==
  /\ user' = Append(user, [at |-> at, engine |-> engine, buf |-> buf, len |-> len])
  /\ pc' \in {then, "uncopied"}

CopyFull ==
  /\ pc = "copy"
  /\ left > BufSize
  /\ CopyTo(BufSize * i, 1, i, BufSize, "copy")
  /\ i' = i + 1
  /\ left' = left - BufSize
  /\ UNCHANGED <<count, dma1, dma2, hw, hw2>>

CopyLast ==
  /\ pc = "copy"
  /\ left <= BufSize
  /\ CopyTo(BufSize * i, 1, i, left, "copy2")
  /\ UNCHANGED <<count, dma1, dma2, left, i, hw, hw2>>

(* Mutant: engine 2's bytes go behind engine 1's whole share.              *)
Copy2_AfterShare ==
  /\ pc = "copy2"
  /\ CopyTo(BufSize * i + dma1, 2, 0, dma2, "done")
  /\ UNCHANGED <<count, dma1, dma2, left, i, hw, hw2>>

(* The offset uses i and dma1_count as the loop above left them.           *)
Copy2 ==
  /\ pc = "copy2"
  /\ CopyTo(BufSize * i + left, 2, 0, dma2, "done")
  /\ UNCHANGED <<count, dma1, dma2, left, i, hw, hw2>>

Next == \/ Refuse \/ Split \/ PushFull \/ PushLast \/ Done1
        \/ CopyFull \/ CopyLast \/ Copy2

Spec == Init /\ [][Next]_vars

-----------------------------------------------------------------------------
Working == pc \in {"push", "wait", "copy", "copy2"}

(* Type correctness. The shares, the remainder and the index stay numbers  *)
(* of bytes and of buffers, and the transfers pieces of the user's buffer. *)
TypeOK ==
  /\ pc \in {"entry", "EINVAL", "push", "wait", "copy", "copy2", "uncopied", "done"}
  /\ count \in Nat /\ dma1 \in Nat /\ dma2 \in Nat /\ left \in Nat /\ i \in Nat
  /\ hw \in Seq([buf : Nat, len : Nat, irq : {0, 1}])
  /\ hw2 \in Seq([buf : Nat, len : Nat, irq : {0, 1}])
  /\ user \in Seq([at : Nat, engine : {1, 2}, buf : Nat, len : Nat])

(* The index of the buffers never leaves dma1_buf and kernel_mem1_buf,     *)
(* whatever the count: a read of the largest allowed count ends in the     *)
(* last buffer and not behind it.                                          *)
BufferInRange == Working => i < BufCount

(* Engine 2's share fits its single buffer of DMA_BUF_SIZE bytes.          *)
Engine2Fits == Working => dma2 <= BufSize

(* A read that ends well has filled the user's buffer from its first byte  *)
(* to its count, with no byte left out and none written twice, and the     *)
(* buffers of both engines were copied out as they had been queued.        *)
UserBufferFilled ==
  pc = "done" =>
    /\ \A k \in 1 .. Len(user) :
         user[k].engine = 1 => user[k].buf = hw[k].buf /\ user[k].len = hw[k].len
    /\ \A k \in 1 .. Len(user) :
         user[k].engine = 2 => user[k].buf = hw2[1].buf /\ user[k].len = hw2[1].len
    /\ user[1].at = 0
    /\ \A k \in 1 .. Len(user) - 1 : user[k + 1].at = user[k].at + user[k].len
    /\ user[Len(user)].at + user[Len(user)].len = count

(* The transfers of a list that ask for an interrupt.                      *)
Asking(list) == {k \in 1 .. Len(list) : list[k].irq = 1}

(* The driver takes an engine's first interrupt for the end of its         *)
(* transfers, and that is right: each engine asks for one, with its last   *)
(* transfer, and what is queued up to there is the engine's whole share of *)
(* the count.  Engine 1's other transfers are full buffers.                *)
InterruptEndsShare ==
  pc \in {"wait", "copy", "copy2", "uncopied", "done"} =>
    /\ Asking(hw) = {Len(hw)}
    /\ \A k \in 1 .. Len(hw) - 1 : hw[k].len = BufSize
    /\ (Len(hw) - 1) * BufSize + hw[Len(hw)].len = dma1
    /\ Asking(hw2) = {Len(hw2)}
    /\ Len(hw2) = 1 /\ hw2[1].len = dma2
    /\ dma1 + dma2 = count
=============================================================================
