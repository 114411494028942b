----------------------------- MODULE MCPicoRead -----------------------------
(* Model-checking instance of PicoRead: interrupt mode and polling mode.   *)
EXTENDS PicoRead, TLC

Symmetry == Permutations(Readers)

(* What the buffer of engine 2 holds decides nothing and no property is    *)
(* about it.                                                               *)
Engine1Only ==
  <<board, pc, ph, rc, cond, sig, [r \in Readers |-> got[r][1]], ret, isr,
    cmd, fifo, latch, mem[1], dry>>
=============================================================================
