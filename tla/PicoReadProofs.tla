--------------------------- MODULE PicoReadProofs ---------------------------
(* Theorems about PicoRead, for any set of callers and both wait modes.    *)
EXTENDS PicoRead, TLAPS

USE DEF Engines

(* Every reachable state of the driver and the board is well typed.        *)
THEOREM TypeCorrect == Spec => []TypeOK
<1> USE ReadersAssumption, OpsAssumption DEF TypeOK, Labels, Results, IsrLabels, Blank
<1>1. Init => TypeOK
  BY DEF Init
<1>2. TypeOK /\ [Next]_vars => TypeOK'
  <2> SUFFICES ASSUME TypeOK, [Next]_vars PROVE TypeOK'
    OBVIOUS
  <2>1. ASSUME NEW r \in Readers, Enter(r) PROVE TypeOK'
    BY <2>1 DEF Enter, Acquire, Goto, device
  <2>2. ASSUME NEW r \in Readers, ReadStep(r) PROVE TypeOK'
    <3>1. CASE Busy1(r)
      BY <3>1 DEF Busy1, Release, Return, Goto, device
    <3>2. CASE Busy2(r)
      BY <3>2 DEF Busy2, Release, Return, Goto, device
    <3>3. CASE Arm(r)
      <4>1. cmd' \in [Engines -> Seq(Readers)]
        BY <3>3 DEF Arm
      <4> QED BY <3>3, <4>1 DEF Arm, Goto, Wait
    <3>4. CASE Test(r)
      BY <3>4 DEF Test, Goto, board, device
    <3>5. CASE Queue(r)
      <4>1. /\ pc' = [pc EXCEPT ![r] = "collect"] \/ pc' = [pc EXCEPT ![r] = "sleep"]
            /\ rc' = rc \/ rc' = [rc EXCEPT ![r] = "ERESTARTSYS"]
            /\ lock' \in {lock, Nobody}
            /\ waitq' \in {waitq, waitq \cup {r}}
            /\ UNCHANGED <<inProgress, flag, ph, cond, sig, got, ret, isr, device>>
        BY <3>5 DEF Queue, Goto, Release
      <4>2. pc' \in [Readers -> Labels]
        BY <4>1
      <4>3. rc' \in [Readers -> {"0", "ERESTARTSYS", "uncopied"}]
        BY <4>1
      <4> QED BY <4>1, <4>2, <4>3 DEF device
    <3>6. CASE Woken(r)
      BY <3>6 DEF Woken, Goto, Acquire, device
    <3>7. CASE Poll(r)
      BY <3>7 DEF Poll, Goto, Release, device
    <3>8. CASE Timed(r)
      BY <3>8 DEF Timed, Goto, board, device
    <3>9. CASE Relock(r)
      BY <3>9 DEF Relock, Goto, Acquire, device
    <3>10. CASE Collect(r)
      BY <3>10 DEF Collect, Goto, board, device
    <3>11. CASE Settle(r)
      <4>1. ph[r] \in {1, 2} /\ rc[r] \in {"0", "ERESTARTSYS", "uncopied"}
        OBVIOUS
      <4>2. /\ lock' = Nobody
            /\ flag' = [flag EXCEPT ![ph[r]] = 0]
            /\ inProgress' = [inProgress EXCEPT ![ph[r]] = FALSE]
            /\ UNCHANGED <<waitq, ph, isr, latch, mem, dry>>
        BY <3>11 DEF Settle, SettleWith, Release
      <4>3. flag' \in [Engines -> 0..2] /\ inProgress' \in [Engines -> BOOLEAN]
        BY <4>1, <4>2
      <4>4. CASE rc[r] = "0" /\ cond[r] = 1
        <5>1. Goto(r, "copy") /\ UNCHANGED <<rc, cond, sig, got, ret, cmd, fifo>>
          BY <3>11, <4>4 DEF Settle, SettleWith
        <5> QED BY <4>2, <4>3, <5>1 DEF Goto
      <4>5. CASE rc[r] # "0" \/ cond[r] # 1
        <5>1. /\ Return(r, IF cond[r] # 1 THEN "ECANCELED" ELSE rc[r])
              /\ Reset(ph[r])
          BY <3>11, <4>5 DEF Settle, SettleWith
        <5>2. (IF cond[r] # 1 THEN "ECANCELED" ELSE rc[r]) \in Results
          BY <4>1, <4>5
        <5>3. /\ cmd' \in [Engines -> Seq(Readers)]
              /\ fifo' \in [Engines -> Nat]
          BY <4>1, <5>1 DEF Reset
        <5>4. /\ pc' \in [Readers -> Labels]
              /\ got' \in [Readers -> [Engines -> Readers \cup {Nobody, Fill}]]
              /\ ret' \in [Readers -> Results]
              /\ rc' \in [Readers -> {"0", "ERESTARTSYS", "uncopied"}]
              /\ cond' \in [Readers -> 0..2]
              /\ sig' \in [Readers -> BOOLEAN]
          BY <5>1, <5>2 DEF Return, Goto
        <5> QED BY <4>2, <4>3, <5>3, <5>4
      <4> QED BY <3>11, <4>4, <4>5 DEF Settle, SettleWith
    <3>12. CASE Copy(r)
      BY <3>12 DEF Copy, Goto, board, device
    <3>13. CASE FillBuf(r)
      <4>1. ph[r] \in {1, 2}
        OBVIOUS
      <4>2. mem' \in [Engines -> Readers \cup Blank]
        BY <3>13, <4>1 DEF FillBuf, FillWith
      <4>3. /\ UNCHANGED <<board, ph, isr, cmd, fifo, latch, dry>>
            /\ \/ \E v \in {"uncopied", "count"} : Return(r, v)
               \/ Goto(r, "again") /\ UNCHANGED <<rc, cond, sig, got, ret>>
        BY <3>13 DEF FillBuf, FillWith
      <4>4. CASE \E v \in {"uncopied", "count"} : Return(r, v)
        BY <4>2, <4>3, <4>4 DEF Return, Goto, board
      <4>5. CASE Goto(r, "again") /\ UNCHANGED <<rc, cond, sig, got, ret>>
        BY <4>2, <4>3, <4>5 DEF Goto, board
      <4> QED BY <4>3, <4>4, <4>5
    <3>14. CASE Again(r)
      BY <3>14 DEF Again, Goto, Acquire, Wait, device
    <3> QED
      BY <2>2, <3>1, <3>2, <3>3, <3>4, <3>5, <3>6, <3>7, <3>8, <3>9, <3>10,
         <3>11, <3>12, <3>13, <3>14 DEF ReadStep
  <2>3. ASSUME NEW r \in Readers, Signal(r) PROVE TypeOK'
    BY <2>3 DEF Signal, device
  <2>4. CASE Abort
    BY <2>4 DEF Abort, caller, device
  <2>5. CASE IsrEnter
    BY <2>5 DEF IsrEnter, board, caller, device
  <2>6. CASE IsrStep
    <3>1. CASE IsrDrain
      <4>1. isr.eng \in Engines
        OBVIOUS
      <4>2. fifo' \in [Engines -> Nat]
        BY <3>1, <4>1 DEF IsrDrain
      <4>3. isr' \in [at : IsrLabels, eng : Engines, by : Readers \cup {Nobody}]
        BY <3>1 DEF IsrDrain
      <4> QED BY <3>1, <4>2, <4>3 DEF IsrDrain, board, caller
    <3>2. CASE IsrFlag
      <4>1. isr.eng \in Engines
        OBVIOUS
      <4>2. PICK op \in Ops : flag' = [flag EXCEPT ![isr.eng] = op]
        BY <3>2 DEF IsrFlag
      <4>3. flag' \in [Engines -> 0..2]
        BY <4>1, <4>2
      <4>4. isr' \in [at : IsrLabels, eng : Engines, by : Readers \cup {Nobody}]
        BY <3>2 DEF IsrFlag
      <4> QED BY <3>2, <4>3, <4>4 DEF IsrFlag, caller, device
    <3>3. CASE IsrWake
      BY <3>3 DEF IsrWake, caller, device
    <3>4. CASE IsrClear
      <4>1. isr' \in [at : IsrLabels, eng : Engines, by : Readers \cup {Nobody}]
        BY <3>4 DEF IsrClear
      <4>2. /\ pc' \in [Readers -> Labels]
            /\ rc' \in [Readers -> {"0", "ERESTARTSYS", "uncopied"}]
        BY <3>4 DEF IsrClear
      <4> QED BY <3>4, <4>1, <4>2 DEF IsrClear, board
    <3> QED BY <2>6, <3>1, <3>2, <3>3, <3>4 DEF IsrStep
  <2>7. ASSUME NEW e \in Engines, Transfer(e) PROVE TypeOK'
    <3>1. Head(cmd[e]) \in Readers /\ Tail(cmd[e]) \in Seq(Readers)
      BY <2>7 DEF Transfer
    <3>2. mem' \in [Engines -> Readers \cup Blank] /\ dry' \subseteq Readers
      BY <2>7, <3>1 DEF Transfer
    <3> QED BY <2>7, <3>1, <3>2, SMTT(30) DEF Transfer, board, caller
  <2>8. CASE UNCHANGED vars
    BY <2>8 DEF vars, board, caller, device
  <2> QED
    BY <2>1, <2>2, <2>3, <2>4, <2>5, <2>6, <2>7, <2>8 DEF Next
<1> QED BY <1>1, <1>2, PTL DEF Spec

-----------------------------------------------------------------------------
(* The inductive invariant of mutual exclusion: an armed read owns the     *)
(* engine 2 mark, and only a caller inside the handler is sent back to the *)
(* polling loop by it.                                                     *)
ArmedInv ==
  /\ \A r \in Readers : Armed(r) => inProgress[2]
  /\ isr.by \in Readers => pc[isr.by] = "isr"
  /\ OneArmedRead

(* ArmedInv holds in every reachable state.                                *)
LEMMA ArmedInvariant == Spec => []ArmedInv
<1> USE ReadersAssumption DEF ArmedInv, OneArmedRead, Armed
<1>1. Init => ArmedInv
  BY DEF Init
<1>2. TypeOK /\ ArmedInv /\ [Next]_vars => ArmedInv'
  <2> SUFFICES ASSUME TypeOK, ArmedInv, [Next]_vars PROVE ArmedInv'
    OBVIOUS
  <2> USE DEF TypeOK
  <2>1. ASSUME NEW r \in Readers, Enter(r) PROVE ArmedInv'
    BY <2>1 DEF Enter, Goto
  <2>2. ASSUME NEW r \in Readers, ReadStep(r) PROVE ArmedInv'
    <3>1. CASE Busy1(r)
      BY <3>1 DEF Busy1, Return, Goto
    <3>2. CASE Busy2(r)
      BY <3>2 DEF Busy2, Return, Goto
    <3>3. CASE Arm(r)
      BY <3>3 DEF Arm, Goto, Wait
    <3>4. CASE Test(r)
      BY <3>4 DEF Test, Goto, board
    <3>5. CASE Queue(r)
      <4>1. /\ pc[r] = "queue"
            /\ Goto(r, "collect") \/ Goto(r, "sleep")
            /\ UNCHANGED <<inProgress, ph, isr>>
        BY <3>5 DEF Queue
      <4>2. \A q \in Readers : Armed(q)' => Armed(q)
        BY <4>1 DEF Goto
      <4>3. isr.by # r /\ (isr.by \in Readers => pc'[isr.by] = "isr")
        BY <4>1 DEF Goto
      <4> QED BY <4>1, <4>2, <4>3
    <3>6. CASE Woken(r)
      BY <3>6 DEF Woken, Goto
    <3>7. CASE Poll(r)
      <4>1. pc[r] = "poll" /\ UNCHANGED <<inProgress, ph>>
        BY <3>7 DEF Poll
      <4>2. CASE Goto(r, "timed") /\ UNCHANGED isr
        BY <4>1, <4>2 DEF Goto
      <4>3. CASE Goto(r, "isr") /\ isr'.by = r
        BY <4>1, <4>3 DEF Goto
      <4> QED BY <3>7, <4>2, <4>3 DEF Poll
    <3>8. CASE Timed(r)
      BY <3>8 DEF Timed, Goto, board
    <3>9. CASE Relock(r)
      BY <3>9 DEF Relock, Goto
    <3>10. CASE Collect(r)
      BY <3>10 DEF Collect, Goto, board
    <3>11. CASE Settle(r)
      <4>1. /\ pc[r] = "settle"
            /\ inProgress' = [inProgress EXCEPT ![ph[r]] = FALSE]
            /\ Goto(r, "copy") \/ Goto(r, "idle")
            /\ UNCHANGED <<ph, isr>>
        BY <3>11 DEF Settle, SettleWith, Return
      <4>2. ph[r] \in {1, 2}
        OBVIOUS
      <4>3. ASSUME NEW q \in Readers, Armed(q)' PROVE Armed(q) /\ inProgress'[2]
        <5>1. CASE ph[r] = 1
          BY <4>1, <4>3, <5>1 DEF Goto
        <5>2. CASE ph[r] = 2
          <6>1. q # r
            BY <4>1, <4>3, <5>2 DEF Goto
          <6>2. Armed(q) /\ Armed(r)
            BY <4>1, <4>3, <6>1 DEF Goto
          <6> QED BY <6>1, <6>2
        <5> QED BY <4>2, <5>1, <5>2
      <4>4. isr'.by \in Readers => pc'[isr'.by] = "isr"
        BY <4>1 DEF Goto
      <4> QED BY <4>3, <4>4
    <3>12. CASE Copy(r)
      BY <3>12 DEF Copy, Goto, board
    <3>13. CASE FillBuf(r)
      <4>1. /\ pc[r] = "fill"
            /\ Goto(r, "idle") \/ (ph[r] = 1 /\ Goto(r, "again"))
            /\ UNCHANGED <<inProgress, ph, isr>>
        BY <3>13 DEF FillBuf, FillWith, Return, board
      <4>2. \A q \in Readers : Armed(q)' => Armed(q)
        BY <4>1 DEF Goto
      <4>3. isr'.by \in Readers => pc'[isr'.by] = "isr"
        BY <4>1 DEF Goto
      <4> QED BY <4>1, <4>2, <4>3
    <3>14. CASE Again(r)
      BY <3>14 DEF Again, Goto, Wait
    <3> QED
      BY <2>2, <3>1, <3>2, <3>3, <3>4, <3>5, <3>6, <3>7, <3>8, <3>9, <3>10,
         <3>11, <3>12, <3>13, <3>14 DEF ReadStep
  <2>3. ASSUME NEW r \in Readers, Signal(r) PROVE ArmedInv'
    BY <2>3 DEF Signal
  <2>4. CASE Abort
    BY <2>4 DEF Abort, caller
  <2>5. CASE IsrEnter
    BY <2>5 DEF IsrEnter, board, caller
  <2>6. CASE IsrStep
    <3>1. CASE IsrDrain \/ IsrFlag \/ IsrWake
      <4>1. isr'.by = isr.by /\ UNCHANGED <<inProgress, pc, ph>>
        BY <3>1 DEF IsrDrain, IsrFlag, IsrWake, board, caller
      <4> QED BY <4>1
    <3>2. CASE IsrClear
      <4>1. isr'.by = Nobody
        BY <3>2 DEF IsrClear
      <4>2. \A r \in Readers : Armed(r)' => Armed(r)
        BY <3>2 DEF IsrClear
      <4>3. inProgress' = inProgress /\ isr'.by \notin Readers
        BY <3>2, <4>1 DEF IsrClear, board
      <4> QED BY <4>2, <4>3
    <3> QED BY <2>6, <3>1, <3>2 DEF IsrStep
  <2>7. ASSUME NEW e \in Engines, Transfer(e) PROVE ArmedInv'
    BY <2>7 DEF Transfer, board, caller
  <2>8. CASE UNCHANGED vars
    BY <2>8 DEF vars, board, caller
  <2> QED
    BY <2>1, <2>2, <2>3, <2>4, <2>5, <2>6, <2>7, <2>8 DEF Next
<1> QED BY <1>1, <1>2, TypeCorrect, PTL DEF Spec

(* Two reads never have the engines armed at the same time: char_read's    *)
(* in-progress tests keep a second caller out until the first one's wait   *)
(* for engine 2 is over.                                                   *)
THEOREM MutualExclusion == Spec => []OneArmedRead
<1>1. ArmedInv => OneArmedRead
  BY DEF ArmedInv
<1> QED BY <1>1, ArmedInvariant, PTL

-----------------------------------------------------------------------------
(* Where a caller has the queue's lock.                                    *)
Holding(r) == pc[r] \in {"enter", "test", "queue", "poll", "collect", "settle"}
HolderInv  == \A r \in Readers : Holding(r) => lock = r

LEMMA Holder == Spec => []HolderInv
<1> USE ReadersAssumption DEF HolderInv, Holding
<1>1. Init => HolderInv
  BY DEF Init
<1>2. TypeOK /\ ArmedInv /\ HolderInv /\ [Next]_vars => HolderInv'
  <2> SUFFICES ASSUME TypeOK, ArmedInv, HolderInv, [Next]_vars PROVE HolderInv'
    OBVIOUS
  <2> USE DEF TypeOK
  <2>1. ASSUME NEW r \in Readers, Enter(r) \/ Woken(r) \/ Relock(r) \/ Again(r) PROVE HolderInv'
    BY <2>1 DEF Enter, Woken, Relock, Again, Acquire, Goto
  <2>2. ASSUME NEW r \in Readers, Busy1(r) \/ Busy2(r) \/ Queue(r) \/ Settle(r) \/ Poll(r)
        PROVE  HolderInv'
    <3>1. /\ Holding(r) /\ lock' \in {lock, Nobody} /\ \A q \in Readers \ {r} : pc'[q] = pc[q]
          /\ pc'[r] \in {"idle", "collect", "sleep", "copy", "timed", "isr"}
          /\ pc'[r] = "collect" => lock' = lock
      BY <2>2 DEF Busy1, Busy2, Queue, Settle, SettleWith, Poll, Return, Release, Goto
    <3> QED BY <3>1
  <2>3. ASSUME NEW r \in Readers, Arm(r) \/ Test(r) \/ Collect(r) PROVE HolderInv'
    BY <2>3 DEF Arm, Test, Collect, Goto, Wait, board
  <2>4. ASSUME NEW r \in Readers, Timed(r) \/ Copy(r) \/ FillBuf(r) PROVE HolderInv'
    <3>1. /\ lock' = lock /\ \A q \in Readers \ {r} : pc'[q] = pc[q]
          /\ pc'[r] \in {"relock", "fill", "idle", "again"}
      BY <2>4 DEF Timed, Copy, FillBuf, FillWith, Return, Goto, board
    <3> QED BY <3>1
  <2>5. ASSUME NEW r \in Readers, Signal(r) PROVE HolderInv'
    BY <2>5 DEF Signal
  <2>6. CASE Abort \/ IsrEnter \/ IsrDrain \/ IsrFlag \/ IsrWake
    BY <2>6 DEF Abort, IsrEnter, IsrDrain, IsrFlag, IsrWake, board, caller
  <2>7. CASE IsrClear
    BY <2>7 DEF IsrClear, ArmedInv, board
  <2>8. ASSUME NEW e \in Engines, Transfer(e) PROVE HolderInv'
    BY <2>8 DEF Transfer, board, caller
  <2>9. CASE UNCHANGED vars
    BY <2>9 DEF vars, board, caller
  <2> QED
    BY <2>1, <2>2, <2>3, <2>4, <2>5, <2>6, <2>7, <2>8, <2>9 DEF Next, ReadStep, IsrStep
<1> QED BY <1>1, <1>2, TypeCorrect, ArmedInvariant, PTL DEF Spec

-----------------------------------------------------------------------------
(* Why an abort is seen: the steps of the wait from its test of the flag   *)
(* to the sleep are taken by the owner of the lock, ABORT_READ takes the   *)
(* lock, and the handler, which does not, never writes 2.                  *)
WaitInv ==
  /\ \A r \in waitq : pc[r] = "sleep"
  /\ \A r \in Readers : pc[r] = "queue" => flag[ph[r]] # 2
  /\ AbortSeen

(* ABORT_READ is never lost on a sleeping caller, provided the handler     *)
(* reports no runaway FIFO.                                                *)
THEOREM AbortNotLost == Ops = {1} => (Spec => []AbortSeen)
<1> SUFFICES ASSUME Ops = {1} PROVE Spec => []AbortSeen
  OBVIOUS
<1> USE ReadersAssumption DEF WaitInv, AbortSeen, HolderInv, Holding
<1>1. Init => WaitInv
  BY DEF Init
<1>2. TypeOK /\ ArmedInv /\ HolderInv /\ WaitInv /\ [Next]_vars => WaitInv'
  <2> SUFFICES ASSUME TypeOK, ArmedInv, HolderInv, WaitInv, [Next]_vars PROVE WaitInv'
    OBVIOUS
  <2> USE DEF TypeOK
  <2>1. ASSUME NEW r \in Readers, Enter(r) PROVE WaitInv'
    BY <2>1 DEF Enter, Acquire, Goto
  <2>2. ASSUME NEW r \in Readers, ReadStep(r) PROVE WaitInv'
    <3>1. CASE Busy1(r)
      BY <3>1 DEF Busy1, Return, Release, Goto
    <3>2. CASE Busy2(r)
      BY <3>2 DEF Busy2, Return, Release, Goto
    <3>3. CASE Arm(r)
      BY <3>3 DEF Arm, Goto, Wait
    <3>4. CASE Test(r)
      BY <3>4 DEF Test, Goto, board
    <3>5. CASE Queue(r)
      BY <3>5 DEF Queue, Release, Goto
    <3>6. CASE Woken(r)
      BY <3>6 DEF Woken, Acquire, Goto
    <3>7. CASE Poll(r)
      <4>1. /\ pc[r] = "poll"
            /\ lock' = Nobody
            /\ Goto(r, "timed") \/ Goto(r, "isr")
            /\ UNCHANGED <<waitq, flag, ph>>
        BY <3>7 DEF Poll, Release
      <4>2. \A q \in Readers :
              pc'[q] = IF q = r THEN pc'[r] ELSE pc[q]
        BY <4>1 DEF Goto
      <4>3. pc'[r] \in {"timed", "isr"}
        BY <4>1 DEF Goto
      <4>4. r \notin waitq
        BY <4>1
      <4>5. \A q \in Readers \ {r} :
              pc[q] \notin {"enter", "test", "queue", "poll", "collect", "settle"}
        BY <4>1
      <4>6. \A q \in Readers : pc'[q] \notin {"enter", "test", "queue", "poll", "collect", "settle"}
        BY <4>2, <4>3, <4>5
      <4>7. \A q \in waitq' : pc'[q] = "sleep"
        BY <4>1, <4>2, <4>4
      <4>8. AbortSeen'
        BY <4>1
      <4> QED BY <4>6, <4>7, <4>8
    <3>8. CASE Timed(r)
      BY <3>8 DEF Timed, Goto, board
    <3>9. CASE Relock(r)
      BY <3>9 DEF Relock, Acquire, Goto
    <3>10. CASE Collect(r)
      BY <3>10 DEF Collect, Goto, board
    <3>11. CASE Settle(r)
      <4>1. /\ pc[r] = "settle"
            /\ lock' = Nobody
            /\ flag' = [flag EXCEPT ![ph[r]] = 0]
            /\ Goto(r, "copy") \/ Goto(r, "idle")
            /\ UNCHANGED <<waitq, ph>>
        BY <3>11 DEF Settle, SettleWith, Return, Release
      <4>2. \A e \in Engines : flag'[e] # 2 \/ flag'[e] = flag[e]
        BY <4>1
      <4>3. /\ \A q \in Readers : q # r => pc'[q] = pc[q]
            /\ pc'[r] \in {"copy", "idle"}
        BY <4>1 DEF Goto
      <4> QED BY <4>1, <4>2, <4>3
    <3>12. CASE Copy(r)
      BY <3>12 DEF Copy, Goto, board
    <3>13. CASE FillBuf(r)
      BY <3>13 DEF FillBuf, FillWith, Goto, Return, board
    <3>14. CASE Again(r)
      BY <3>14 DEF Again, Acquire, Goto, Wait
    <3> QED
      BY <2>2, <3>1, <3>2, <3>3, <3>4, <3>5, <3>6, <3>7, <3>8, <3>9, <3>10,
         <3>11, <3>12, <3>13, <3>14 DEF ReadStep
  <2>3. ASSUME NEW r \in Readers, Signal(r) PROVE WaitInv'
    BY <2>3 DEF Signal
  <2>4. CASE Abort
    BY <2>4 DEF Abort, caller
  <2>5. CASE IsrEnter
    BY <2>5 DEF IsrEnter, board, caller
  <2>6. CASE IsrStep
    <3>1. CASE IsrDrain
      BY <3>1 DEF IsrDrain, board, caller
    <3>2. CASE IsrFlag
      BY <3>2 DEF IsrFlag, caller
    <3>3. CASE IsrWake
      BY <3>3 DEF IsrWake, caller
    <3>4. CASE IsrClear
      BY <3>4 DEF IsrClear, ArmedInv, board
    <3> QED BY <2>6, <3>1, <3>2, <3>3, <3>4 DEF IsrStep
  <2>7. ASSUME NEW e \in Engines, Transfer(e) PROVE WaitInv'
    BY <2>7 DEF Transfer, board, caller
  <2>8. CASE UNCHANGED vars
    BY <2>8 DEF vars, board, caller
  <2> QED
    BY <2>1, <2>2, <2>3, <2>4, <2>5, <2>6, <2>7, <2>8 DEF Next
<1>3. WaitInv => AbortSeen
  OBVIOUS
<1> QED BY <1>1, <1>2, <1>3, TypeCorrect, ArmedInvariant, Holder, PTL DEF Spec

-----------------------------------------------------------------------------
(* Why the samples are the read's own: a transfer of engine 1 is in one    *)
(* place at a time, from the command queue over the response FIFO and the  *)
(* handler to the flag, and it has left all of them before the engine 2    *)
(* mark, which keeps others out, is cleared.  Its buffer has been refilled *)
(* by then too: a read that leaves samples behind leaves the mark set.     *)
Flagging == isr.at = "flag" /\ isr.eng = 1
Idle1    == cmd[1] = <<>> /\ fifo[1] = 0 /\ ~Flagging
Quiet1   == Idle1 /\ flag[1] # 1

Blank1   == mem[1] \in Blank

(* What the buffer holds once a caller's transfer is reported done.        *)
Done1(r) == IF r \in dry THEN Blank1 ELSE mem[1] = r
Own(r)   == IF r \in dry THEN got[r][1] \in Blank ELSE got[r][1] = r

Queued1(r) == cmd[1] # <<>> /\ Head(cmd[1]) = r

Waiting1(r) ==
  ph[r] = 1 /\ pc[r] \in {"test", "queue", "sleep", "poll", "isr", "timed", "relock",
                          "collect", "settle"}

(* Where the transfer of a caller that waits for engine 1 is, if anywhere. *)
Under(r) ==
  \/ cmd[1] = <<r>> /\ fifo[1] = 0 /\ ~Flagging /\ flag[1] # 1 /\ r \notin dry /\ Blank1
  \/ cmd[1] = <<>> /\ fifo[1] = 1 /\ ~Flagging /\ flag[1] # 1 /\ Done1(r)
  \/ cmd[1] = <<>> /\ fifo[1] = 0 /\ Flagging /\ flag[1] # 1 /\ Done1(r)
  \/ Idle1 /\ flag[1] = 1 /\ Done1(r)
  \/ Quiet1

ReaderInv(r) ==
  /\ Queued1(r) => Waiting1(r)
  /\ Waiting1(r) => Under(r) /\ ret[r] # "count"
  /\ Waiting1(r) /\ pc[r] = "settle" /\ cond[r] = 1 => flag[1] = 1
  /\ Armed(r) /\ ~Waiting1(r) => Quiet1
  /\ pc[r] = "copy" /\ ph[r] = 1 => Done1(r)
  /\ pc[r] \in {"fill", "again"} /\ ph[r] = 1 => Own(r)
  /\ pc[r] = "again" => Blank1
  /\ pc[r] \notin {"idle", "enter"} /\ ph[r] = 2 => Own(r)
  /\ Armed(r) /\ ph[r] = 2 => Blank1
  /\ ret[r] = "count" => Own(r)

Engine1Inv == (~inProgress[2] => Quiet1 /\ Blank1) /\ \A r \in Readers : ReaderInv(r)

EngineStays ==
  UNCHANGED <<cmd[1], fifo[1], flag[1], mem[1], dry>> /\ (Flagging' <=> Flagging)

LEMMA SameEngine ==
  ASSUME EngineStays
  PROVE  /\ Quiet1' <=> Quiet1
         /\ Idle1' <=> Idle1
         /\ Blank1' <=> Blank1
         /\ \A r \in Readers : Queued1(r)' <=> Queued1(r)
         /\ \A r \in Readers : Done1(r)' <=> Done1(r)
         /\ \A r \in Readers : Under(r)' <=> Under(r)
<1>1. /\ cmd'[1] = cmd[1] /\ fifo'[1] = fifo[1] /\ flag'[1] = flag[1]
      /\ mem'[1] = mem[1] /\ dry' = dry /\ (Flagging' <=> Flagging)
  BY DEF EngineStays
<1>2. (Quiet1' <=> Quiet1) /\ (Idle1' <=> Idle1) /\ (Blank1' <=> Blank1)
  BY <1>1 DEF Quiet1, Idle1, Blank1
<1>3. \A r \in Readers : Queued1(r)' <=> Queued1(r)
  BY <1>1 DEF Queued1
<1>4. \A r \in Readers : Done1(r)' <=> Done1(r)
  BY <1>1, <1>2 DEF Done1
<1>5. \A r \in Readers : Under(r)' <=> Under(r)
  BY <1>1, <1>2 DEF Under, Done1
<1> QED BY <1>2, <1>3, <1>4, <1>5

(* A caller that stays where it is.                                        *)
LEMMA Standing ==
  ASSUME Engine1Inv, NEW q \in Readers,
         pc'[q] = pc[q], ph'[q] = ph[q], cond'[q] = cond[q], got'[q] = got[q], ret'[q] = ret[q],
         q \in dry' <=> q \in dry, Queued1(q)' => Queued1(q),
         Armed(q) => EngineStays
  PROVE  ReaderInv(q)'
<1>1. ReaderInv(q) /\ (Armed(q)' <=> Armed(q)) /\ (Waiting1(q)' <=> Waiting1(q))
  BY DEF Engine1Inv, Armed, Waiting1
<1>2. CASE Armed(q)
  BY <1>1, <1>2, SameEngine DEF EngineStays, ReaderInv, Own, Done1, Blank1, Queued1
<1>3. CASE ~Armed(q)
  <2>1. ~Waiting1(q) /\ pc[q] # "again" /\ (ph[q] = 1 => pc[q] \notin {"copy", "fill"})
    BY <1>3 DEF Armed, Waiting1
  <2>2. ~Queued1(q)' /\ (Own(q)' <=> Own(q))
    BY <1>1, <2>1 DEF ReaderInv, Own
  <2> QED BY <1>1, <1>3, <2>1, <2>2 DEF ReaderInv
<1> QED BY <1>2, <1>3

(* A step of one caller only changes engine 1 if that caller is armed.     *)
LEMMA OneMoves ==
  ASSUME ArmedInv, Engine1Inv, NEW r \in Readers,
         \A q \in Readers \ {r} : /\ pc'[q] = pc[q] /\ ph'[q] = ph[q] /\ cond'[q] = cond[q]
                                  /\ got'[q] = got[q] /\ ret'[q] = ret[q]
                                  /\ (q \in dry' <=> q \in dry) /\ (Queued1(q)' => Queued1(q)),
         Armed(r) \/ EngineStays
  PROVE  \A q \in Readers \ {r} : ReaderInv(q)'
BY Standing DEF ArmedInv, OneArmedRead, EngineStays, Queued1

LEMMA Engine1Next ==
  TypeOK /\ ArmedInv /\ HolderInv /\ Engine1Inv /\ [Next]_vars => Engine1Inv'
<1> SUFFICES ASSUME TypeOK, ArmedInv, HolderInv, Engine1Inv, [Next]_vars PROVE Engine1Inv'
  OBVIOUS
<1> USE ReadersAssumption DEF TypeOK
<1>0. \A r \in Readers : ReaderInv(r)
  BY DEF Engine1Inv
<1>1. ASSUME NEW r \in Readers, Enter(r) \/ Busy1(r) \/ Busy2(r) PROVE Engine1Inv'
  <2>1. /\ EngineStays /\ pc'[r] \in {"idle", "enter"}
        /\ (ret'[r] = "EIO" \/ (ret'[r] = ret[r] /\ got'[r] = got[r]))
    BY <1>1 DEF Enter, Busy1, Busy2, Return, Goto, device, EngineStays, Flagging
  <2>2. /\ inProgress'[2] = inProgress[2]
        /\ \A q \in Readers \ {r} : /\ pc'[q] = pc[q] /\ ph'[q] = ph[q] /\ cond'[q] = cond[q]
                                    /\ got'[q] = got[q] /\ ret'[q] = ret[q]
    BY <1>1 DEF Enter, Busy1, Busy2, Return, Goto
  <2>3. \A q \in Readers \ {r} : ReaderInv(q)'
    BY <2>1, <2>2, OneMoves DEF EngineStays, Queued1
  <2>4. ReaderInv(r)'
    <3>1. ~Waiting1(r) /\ ~Waiting1(r)' /\ ~Armed(r)'
      BY <1>1, <2>1 DEF Waiting1, Armed, Enter, Busy1, Busy2
    <3>2. ~Queued1(r)'
      BY <1>0, <2>1, <3>1, SameEngine DEF ReaderInv
    <3>3. ret'[r] = "count" => (Own(r)' <=> Own(r)) /\ ret[r] = "count"
      BY <2>1 DEF Own, EngineStays
    <3> QED BY <1>0, <2>1, <3>1, <3>2, <3>3 DEF ReaderInv
  <2> QED BY <2>1, <2>2, <2>3, <2>4, SameEngine DEF Engine1Inv
<1>2. ASSUME NEW r \in Readers, Arm(r) PROVE Engine1Inv'
  <2>1. /\ Quiet1 /\ Blank1 /\ inProgress'[2] /\ pc'[r] \in {"test", "poll"} /\ ph'[r] = 1 /\ ret'[r] = "none"
        /\ cmd'[1] = <<r>> /\ dry' = dry \ {r}
        /\ UNCHANGED <<isr, fifo, flag, mem>>
    <3>1. Quiet1 /\ Blank1
      BY <1>2 DEF Arm, Engine1Inv
    <3>2. cmd'[1] = Append(cmd[1], r) /\ cmd[1] = <<>>
      BY <1>2, <3>1 DEF Arm, Quiet1, Idle1
    <3>3. cmd'[1] = <<r>>
      BY <3>2
    <3> QED BY <1>2, <3>1, <3>3 DEF Arm, Goto, Wait
  <2>2. /\ \A q \in Readers \ {r} : /\ pc'[q] = pc[q] /\ ph'[q] = ph[q] /\ cond'[q] = cond[q]
                                    /\ got'[q] = got[q] /\ ret'[q] = ret[q]
        /\ \A q \in Readers : ~Armed(q)
    BY <1>2 DEF Arm, Goto, ArmedInv
  <2>3. \A q \in Readers \ {r} : ReaderInv(q)'
    <3>1. ASSUME NEW q \in Readers \ {r} PROVE ~Queued1(q)' /\ (q \in dry' <=> q \in dry)
      <4>1. Head(<<r>>) = r
        OBVIOUS
      <4> QED BY <2>1, <4>1 DEF Queued1
    <3> QED BY <2>2, <3>1, Standing
  <2>4. ReaderInv(r)'
    BY <2>1 DEF ReaderInv, Own, Done1, Blank1, Queued1, Waiting1, Under, Quiet1, Idle1, Flagging, Armed
  <2> QED BY <2>1, <2>3, <2>4 DEF Engine1Inv
<1>3. ASSUME NEW r \in Readers, \/ Test(r) \/ Queue(r) \/ Woken(r) \/ Timed(r) \/ Relock(r)
      PROVE  Engine1Inv'
  <2>1. /\ UNCHANGED <<inProgress, ph, cond, got, ret, cmd, fifo, flag, isr, mem, dry>>
        /\ \A q \in Readers \ {r} : pc'[q] = pc[q]
        /\ pc[r] \in {"test", "queue", "sleep", "timed", "relock"}
        /\ pc'[r] \in {"test", "queue", "sleep", "relock", "poll", "collect"}
    BY <1>3 DEF Test, Queue, Woken, Timed, Relock, Goto, board, device
  <2>2. EngineStays
    BY <2>1 DEF EngineStays, Flagging
  <2>3. \A q \in Readers \ {r} : ReaderInv(q)'
    BY <2>1, <2>2, OneMoves DEF EngineStays, Queued1
  <2>4. ReaderInv(r)'
    <3>1. (Waiting1(r)' <=> Waiting1(r)) /\ (Armed(r)' <=> Armed(r))
      BY <2>1 DEF Waiting1, Armed
    <3> QED BY <1>0, <2>1, <2>2, <3>1, SameEngine DEF ReaderInv, Own, Done1, Blank1, Queued1
  <2> QED BY <2>1, <2>2, <2>3, <2>4, SameEngine DEF Engine1Inv
<1>4. ASSUME NEW r \in Readers, Poll(r) PROVE Engine1Inv'
  <2>1. /\ UNCHANGED <<inProgress, ph, cond, got, ret, cmd, fifo, flag, mem, dry>>
        /\ \A q \in Readers \ {r} : pc'[q] = pc[q]
        /\ pc[r] = "poll" /\ pc'[r] \in {"timed", "isr"} /\ Armed(r)
        /\ Flagging' => Flagging
    BY <1>4 DEF Poll, Goto, device, Armed, Flagging
  <2>2. \A q \in Readers \ {r} : ReaderInv(q)'
    BY <2>1, OneMoves DEF EngineStays, Queued1
  <2>3. (Quiet1 => Quiet1') /\ (Blank1' <=> Blank1)
    BY <2>1 DEF Quiet1, Idle1, Blank1
  <2>4. Under(r) => Under(r)'
    BY <2>1 DEF Under, Done1, Blank1, Quiet1, Idle1
  <2>5. ReaderInv(r)'
    <3>1. (Waiting1(r)' <=> Waiting1(r)) /\ (Armed(r)' <=> Armed(r))
      BY <2>1 DEF Waiting1, Armed
    <3> QED BY <1>0, <2>1, <2>3, <2>4, <3>1 DEF ReaderInv, Own, Done1, Blank1, Queued1
  <2> QED BY <2>1, <2>2, <2>3, <2>5 DEF Engine1Inv
<1>5. ASSUME NEW r \in Readers, Collect(r) PROVE Engine1Inv'
  <2>1. /\ UNCHANGED <<inProgress, ph, got, ret, cmd, fifo, flag, isr, mem, dry>>
        /\ \A q \in Readers \ {r} : pc'[q] = pc[q] /\ cond'[q] = cond[q]
        /\ pc[r] = "collect" /\ pc'[r] = "settle" /\ cond'[r] = flag[ph[r]]
    BY <1>5 DEF Collect, Goto, board, device
  <2>2. EngineStays
    BY <2>1 DEF EngineStays, Flagging
  <2>3. \A q \in Readers \ {r} : ReaderInv(q)'
    BY <2>1, <2>2, OneMoves DEF EngineStays, Queued1
  <2>4. ReaderInv(r)'
    <3>1. (Waiting1(r)' <=> Waiting1(r)) /\ (Armed(r)' <=> Armed(r))
      BY <2>1 DEF Waiting1, Armed
    <3>2. Waiting1(r) => ph[r] = 1
      BY DEF Waiting1
    <3> QED BY <1>0, <2>1, <2>2, <3>1, <3>2, SameEngine DEF ReaderInv, Own, Done1, Blank1, Queued1
  <2> QED BY <2>1, <2>2, <2>3, <2>4, SameEngine DEF Engine1Inv
<1>6. ASSUME NEW r \in Readers, Settle(r) PROVE Engine1Inv'
  <2>1. /\ pc[r] = "settle" /\ Armed(r) /\ inProgress[2] /\ ph' = ph
        /\ flag' = [flag EXCEPT ![ph[r]] = 0] /\ inProgress' = [inProgress EXCEPT ![ph[r]] = FALSE]
        /\ UNCHANGED <<isr, mem, dry>>
    BY <1>6 DEF Settle, SettleWith, ArmedInv, Armed
  <2>2. \/ /\ cond[r] = 1 /\ Goto(r, "copy")
           /\ UNCHANGED <<cond, got, ret, cmd, fifo>>
        \/ /\ \E v \in {"ECANCELED", "ERESTARTSYS", "uncopied"} : Return(r, v)
           /\ Reset(ph[r])
    BY <1>6 DEF Settle, SettleWith
  <2>3. /\ \A q \in Readers \ {r} : /\ pc'[q] = pc[q] /\ ph'[q] = ph[q] /\ cond'[q] = cond[q]
                                    /\ got'[q] = got[q] /\ ret'[q] = ret[q]
        /\ pc'[r] = "idle" => ret'[r] # "count"
        /\ pc'[r] = "copy" => cond[r] = 1 /\ UNCHANGED <<got, ret, cmd, fifo>>
        /\ pc'[r] \in {"idle", "copy"}
    BY <2>1, <2>2 DEF Goto, Return
  <2>4. \A q \in Readers \ {r} : ReaderInv(q)'
    <3>1. cmd'[1] = cmd[1] \/ cmd'[1] = <<>>
      BY <2>2 DEF Reset
    <3>2. \A q \in Readers : Queued1(q)' => Queued1(q)
      BY <3>1 DEF Queued1
    <3> QED BY <2>1, <2>3, <3>2, OneMoves
  <2>5. CASE ph[r] = 1
    <3>1. inProgress'[2] /\ flag'[1] = 0
      BY <2>1, <2>5
    <3>2. CASE pc'[r] = "copy"
      <4>1. Waiting1(r) /\ flag[1] = 1 /\ Under(r)
        BY <1>0, <2>1, <2>3, <2>5, <3>2 DEF Waiting1, ReaderInv, Own, Done1, Blank1, Queued1
      <4>2. Idle1 /\ Done1(r)
        BY <4>1 DEF Under, Done1, Blank1, Quiet1
      <4>3. Quiet1' /\ Done1(r)'
        BY <2>1, <2>3, <3>1, <3>2, <4>2 DEF Quiet1, Idle1, Flagging, Done1, Blank1
      <4>4. /\ ~Queued1(r)' /\ ~Waiting1(r)' /\ ph'[r] = 1
            /\ ret'[r] = "count" => ret[r] = "count" /\ (Own(r)' <=> Own(r))
        BY <2>1, <2>3, <2>5, <3>2, <4>3 DEF Quiet1, Idle1, Queued1, Waiting1, Own
      <4>5. ReaderInv(r)'
        BY <1>0, <2>3, <3>2, <4>3, <4>4 DEF ReaderInv
      <4> QED BY <2>4, <3>1, <4>5 DEF Engine1Inv
    <3>3. CASE pc'[r] = "idle"
      <4>1. ~Queued1(r)' /\ ~Waiting1(r)' /\ ~Armed(r)'
        <5>1. cmd'[1] = <<>>
          BY <2>2, <2>5, <3>3 DEF Goto, Reset
        <5> QED BY <3>3, <5>1 DEF Queued1, Waiting1, Armed
      <4>2. ReaderInv(r)'
        BY <2>3, <3>3, <4>1 DEF ReaderInv
      <4> QED BY <2>4, <3>1, <4>2 DEF Engine1Inv
    <3> QED BY <2>3, <3>2, <3>3
  <2>6. CASE ph[r] = 2
    <3>1. Quiet1 /\ Blank1 /\ Own(r)
      BY <1>0, <2>1, <2>6 DEF ReaderInv, Waiting1
    <3>2. flag'[1] = flag[1] /\ cmd'[1] = cmd[1] /\ fifo'[1] = fifo[1]
      BY <2>1, <2>2, <2>6 DEF Reset
    <3>3. Quiet1' /\ Blank1'
      BY <2>1, <3>1, <3>2 DEF Quiet1, Idle1, Flagging, Blank1
    <3>4. /\ ~Queued1(r)' /\ ~Waiting1(r)' /\ ph'[r] = 2
          /\ pc'[r] # "idle" => Own(r)'
      BY <2>1, <2>3, <2>6, <3>1, <3>3 DEF Quiet1, Idle1, Queued1, Waiting1, Own
    <3>5. ReaderInv(r)'
      <4>1. pc'[r] = "copy" => ret'[r] = ret[r]
        BY <2>3
      <4> QED BY <1>0, <2>3, <3>3, <3>4, <4>1 DEF ReaderInv
    <3> QED BY <2>4, <3>3, <3>5 DEF Engine1Inv
  <2> QED BY <2>5, <2>6
<1>7. ASSUME NEW r \in Readers, Copy(r) PROVE Engine1Inv'
  <2>1. /\ UNCHANGED <<inProgress, ph, cond, ret, cmd, fifo, flag, isr, mem, dry>>
        /\ \A q \in Readers \ {r} : pc'[q] = pc[q] /\ got'[q] = got[q]
        /\ pc[r] = "copy" /\ pc'[r] = "fill" /\ got'[r] = [got[r] EXCEPT ![ph[r]] = mem[ph[r]]]
    BY <1>7 DEF Copy, Goto, board, device
  <2>2. EngineStays
    BY <2>1 DEF EngineStays, Flagging
  <2>3. \A q \in Readers \ {r} : ReaderInv(q)'
    BY <2>1, <2>2, OneMoves DEF EngineStays, Queued1
  <2>4. Own(r)'
    <3>1. CASE ph[r] = 1
      BY <1>0, <2>1, <3>1 DEF ReaderInv, Own, Done1, Blank1, Queued1
    <3>2. CASE ph[r] = 2
      BY <1>0, <2>1, <3>2 DEF ReaderInv, Own, Done1, Blank1, Queued1
    <3> QED BY <3>1, <3>2
  <2>5. ReaderInv(r)'
    <3>1. ~Waiting1(r)' /\ ~Waiting1(r) /\ (Armed(r)' <=> Armed(r))
      BY <2>1 DEF Waiting1, Armed
    <3> QED BY <1>0, <2>1, <2>2, <2>4, <3>1, SameEngine DEF ReaderInv, Own, Done1, Blank1, Queued1
  <2> QED BY <2>1, <2>2, <2>3, <2>5, SameEngine DEF Engine1Inv
<1>8. ASSUME NEW r \in Readers, FillBuf(r) PROVE Engine1Inv'
  <2>1. /\ UNCHANGED <<inProgress, ph, cmd, fifo, flag, isr, dry>>
        /\ \A q \in Readers \ {r} : /\ pc'[q] = pc[q] /\ cond'[q] = cond[q]
                                    /\ got'[q] = got[q] /\ ret'[q] = ret[q]
        /\ pc[r] = "fill" /\ mem' \in {mem, [mem EXCEPT ![ph[r]] = Fill]}
    BY <1>8 DEF FillBuf, FillWith, Return, Goto, board
  <2>2. \/ pc'[r] = "idle" /\ ret'[r] # "count"
        \/ /\ pc'[r] = "again" /\ ph[r] = 1 /\ UNCHANGED <<got, ret>>
           /\ mem' = [mem EXCEPT ![ph[r]] = Fill]
        \/ pc'[r] = "idle" /\ ph[r] = 2 /\ got' = got
    BY <1>8 DEF FillBuf, FillWith, Return, Goto
  <2>3. /\ Quiet1' <=> Quiet1
        /\ \A q \in Readers : Queued1(q)' <=> Queued1(q)
    BY <2>1 DEF Quiet1, Idle1, Flagging, Queued1
  <2>4. ph[r] = 2 => EngineStays
    BY <2>1 DEF EngineStays, Flagging
  <2>5. \A q \in Readers \ {r} : ReaderInv(q)'
    <3>1. ph[r] = 1 => Armed(r)
      BY <2>1 DEF Armed
    <3>2. ph[r] \in {1, 2}
      OBVIOUS
    <3> QED BY <2>1, <2>3, <2>4, <3>1, <3>2, OneMoves
  <2>6. Own(r)
    <3>1. ReaderInv(r) /\ pc[r] = "fill" /\ ph[r] \in {1, 2}
      BY <1>0, <2>1
    <3> QED BY <3>1, Zenon DEF ReaderInv
  <2>7. ReaderInv(r)'
    <3>1. ~Waiting1(r) /\ ~Waiting1(r)' /\ ~Queued1(r)
      BY <1>0, <2>1, <2>2 DEF Waiting1, ReaderInv
    <3>2. CASE pc'[r] = "again"
      <4>1. Armed(r) /\ ph[r] = 1
        BY <2>1, <2>2, <3>2 DEF Armed
      <4>2. Quiet1' /\ Blank1'
        BY <1>0, <2>2, <2>3, <3>1, <3>2, <4>1 DEF ReaderInv, Blank1, Blank
      <4>3. Own(r)' /\ ret'[r] = ret[r] /\ ph'[r] = 1
        BY <2>1, <2>2, <2>6, <3>2, <4>1 DEF Own
      <4> QED BY <2>3, <3>1, <3>2, <4>2, <4>3 DEF ReaderInv
    <3>3. CASE pc'[r] = "idle"
      <4>1. ~Armed(r)' /\ (ret'[r] = "count" => Own(r)')
        BY <2>1, <2>2, <2>6, <3>3 DEF Armed, Own
      <4> QED BY <2>3, <3>1, <3>3, <4>1 DEF ReaderInv
    <3> QED BY <2>2, <3>2, <3>3
  <2>8. ~inProgress'[2] => Quiet1' /\ Blank1'
    <3>1. ph[r] = 1 => inProgress[2]
      <4>1. ph[r] = 1 => Armed(r)
        BY <2>1 DEF Armed
      <4> QED BY <4>1 DEF ArmedInv
    <3>2. ph[r] \in {1, 2}
      OBVIOUS
    <3> QED BY <2>1, <2>4, <3>1, <3>2, SameEngine DEF Engine1Inv
  <2> QED BY <2>5, <2>7, <2>8 DEF Engine1Inv
<1>9. ASSUME NEW r \in Readers, Again(r) PROVE Engine1Inv'
  <2>1. /\ UNCHANGED <<inProgress, cond, got, ret, cmd, fifo, flag, isr, mem, dry>>
        /\ \A q \in Readers \ {r} : pc'[q] = pc[q] /\ ph'[q] = ph[q]
        /\ pc[r] = "again" /\ pc'[r] \in {"test", "poll"} /\ ph'[r] = 2
    BY <1>9 DEF Again, Goto, Wait, device
  <2>2. EngineStays
    BY <2>1 DEF EngineStays, Flagging
  <2>3. \A q \in Readers \ {r} : ReaderInv(q)'
    BY <2>1, <2>2, OneMoves DEF EngineStays, Queued1
  <2>4. Quiet1 /\ Blank1 /\ Own(r)
    <3>1. Armed(r) /\ ~Waiting1(r) /\ ph[r] \in {1, 2}
      BY <2>1 DEF Armed, Waiting1
    <3> QED BY <1>0, <2>1, <3>1 DEF ReaderInv
  <2>5. ReaderInv(r)'
    <3>1. ~Waiting1(r)' /\ ~Waiting1(r) /\ ~Queued1(r)'
      <4>1. ~Waiting1(r)' /\ ~Waiting1(r)
        BY <2>1 DEF Waiting1
      <4>2. Queued1(r)' <=> Queued1(r)
        BY <2>2, SameEngine
      <4> QED BY <1>0, <4>1, <4>2 DEF ReaderInv
    <3>2. (Own(r)' <=> Own(r)) /\ ret'[r] = ret[r]
      BY <2>1 DEF Own
    <3> QED BY <2>1, <2>2, <2>4, <3>1, <3>2, SameEngine DEF ReaderInv
  <2> QED BY <2>1, <2>2, <2>3, <2>5, SameEngine DEF Engine1Inv
<1>10. ASSUME NEW r \in Readers, Signal(r) PROVE Engine1Inv'
  <2>1. UNCHANGED <<inProgress, pc, ph, cond, got, ret, cmd, fifo, flag, isr, mem, dry>>
    BY <1>10 DEF Signal, device
  <2>2. EngineStays
    BY <2>1 DEF EngineStays, Flagging
  <2>3. \A q \in Readers : ReaderInv(q)'
    BY <2>1, <2>2, Standing DEF EngineStays, Queued1
  <2> QED BY <2>1, <2>2, <2>3, SameEngine DEF Engine1Inv
<1>11. CASE Abort
  <2>1. /\ UNCHANGED <<inProgress, pc, ph, cond, got, ret, cmd, fifo, isr, mem, dry>>
        /\ flag'[1] = 2 /\ lock = Nobody
    BY <1>11 DEF Abort, caller, device
  <2>2. (Quiet1 => Quiet1') /\ (Blank1' <=> Blank1)
    BY <2>1 DEF Quiet1, Idle1, Blank1, Flagging
  <2>3. ASSUME NEW q \in Readers PROVE ReaderInv(q)'
    <3>1. pc[q] # "settle"
      BY <2>1 DEF HolderInv, Holding
    <3>2. Under(q) => Under(q)'
      BY <2>1 DEF Under, Done1, Blank1, Quiet1, Idle1, Flagging
    <3>3. (Waiting1(q)' <=> Waiting1(q)) /\ (Armed(q)' <=> Armed(q))
      BY <2>1 DEF Waiting1, Armed
    <3> QED BY <1>0, <2>1, <2>2, <3>1, <3>2, <3>3 DEF ReaderInv, Own, Done1, Blank1, Queued1
  <2> QED BY <2>1, <2>2, <2>3 DEF Engine1Inv
<1>12. CASE IsrEnter \/ IsrWake
  <2>1. /\ UNCHANGED <<inProgress, pc, ph, cond, got, ret, cmd, fifo, flag, mem, dry>>
        /\ ~Flagging /\ ~Flagging'
    BY <1>12 DEF IsrEnter, IsrWake, board, caller, device, Flagging
  <2>2. EngineStays
    BY <2>1 DEF EngineStays
  <2>3. \A q \in Readers : ReaderInv(q)'
    BY <2>1, <2>2, Standing DEF EngineStays, Queued1
  <2> QED BY <2>1, <2>2, <2>3, SameEngine DEF Engine1Inv
<1>13. CASE IsrDrain
  <2>1. /\ UNCHANGED <<inProgress, pc, ph, cond, got, ret, cmd, flag, mem, dry>> /\ ~Flagging
        /\ fifo' = [fifo EXCEPT ![isr.eng] = 0]
        /\ Flagging' <=> isr.eng = 1 /\ fifo[1] # 0
    BY <1>13 DEF IsrDrain, board, caller, Flagging
  <2>2. (Quiet1 => Quiet1') /\ (Blank1' <=> Blank1)
    BY <2>1 DEF Quiet1, Idle1, Blank1
  <2>3. ASSUME NEW q \in Readers PROVE ReaderInv(q)'
    <3>1. Under(q) => Under(q)'
      BY <2>1 DEF Under, Done1, Blank1, Quiet1, Idle1
    <3>2. (Waiting1(q)' <=> Waiting1(q)) /\ (Armed(q)' <=> Armed(q))
      BY <2>1 DEF Waiting1, Armed
    <3> QED BY <1>0, <2>1, <2>2, <3>1, <3>2 DEF ReaderInv, Own, Done1, Blank1, Queued1
  <2> QED BY <2>1, <2>2, <2>3 DEF Engine1Inv
<1>14. CASE IsrFlag
  <2>1. /\ UNCHANGED <<inProgress, pc, ph, cond, got, ret, cmd, fifo, mem, dry>>
        /\ isr.at = "flag" /\ ~Flagging'
        /\ (flag'[1] = flag[1] \/ (Flagging /\ flag'[1] \in Ops))
    BY <1>14 DEF IsrFlag, caller, device, Flagging
  <2>2. flag[1] \in 0 .. 2 /\ flag'[1] \in 0 .. 2
    <3>1. flag[1] \in 0 .. 2
      OBVIOUS
    <3>2. \A op \in Ops : op \in 0 .. 2
      BY OpsAssumption
    <3> QED BY <2>1, <3>1, <3>2
  <2>3. (Quiet1 => Quiet1') /\ (Blank1' <=> Blank1)
    BY <2>1 DEF Quiet1, Idle1, Blank1
  <2>4. ASSUME NEW q \in Readers PROVE ReaderInv(q)'
    <3>1. Under(q) => Under(q)'
      BY <2>1, <2>2 DEF Under, Done1, Blank1, Quiet1, Idle1
    <3>2. (Waiting1(q)' <=> Waiting1(q)) /\ (Armed(q)' <=> Armed(q))
      BY <2>1 DEF Waiting1, Armed
    <3>3. Under(q) /\ flag[1] = 1 => flag'[1] = 1
      BY <2>1 DEF Under, Done1, Blank1, Quiet1, Idle1
    <3> QED BY <1>0, <2>1, <2>3, <3>1, <3>2, <3>3 DEF ReaderInv, Own, Done1, Blank1, Queued1
  <2> QED BY <2>1, <2>3, <2>4 DEF Engine1Inv
<1>15. CASE IsrClear
  <2>1. /\ UNCHANGED <<inProgress, ph, cond, got, ret, cmd, fifo, flag, mem, dry>>
        /\ ~Flagging /\ ~Flagging'
        /\ \A q \in Readers : pc'[q] = pc[q] \/ (pc[q] = "isr" /\ pc'[q] = "relock")
    BY <1>15 DEF IsrClear, board, Flagging, ArmedInv
  <2>2. EngineStays
    BY <2>1 DEF EngineStays
  <2>3. ASSUME NEW q \in Readers PROVE ReaderInv(q)'
    <3>1. CASE pc'[q] = pc[q]
      BY <2>1, <2>2, <3>1, Standing DEF EngineStays, Queued1
    <3>2. CASE pc[q] = "isr" /\ pc'[q] = "relock"
      <4>1. (Waiting1(q)' <=> Waiting1(q)) /\ (Armed(q)' <=> Armed(q))
        BY <2>1, <3>2 DEF Waiting1, Armed
      <4> QED BY <1>0, <2>1, <2>2, <3>2, <4>1, SameEngine DEF ReaderInv, Own, Done1, Blank1, Queued1
    <3> QED BY <2>1, <3>1, <3>2
  <2> QED BY <2>1, <2>2, <2>3, SameEngine DEF Engine1Inv
<1>16. ASSUME NEW e \in Engines, Transfer(e) PROVE Engine1Inv'
  <2>1. /\ UNCHANGED <<inProgress, pc, ph, cond, got, ret, isr, flag>>
        /\ \/ mem' = [mem EXCEPT ![e] = Head(cmd[e])] /\ dry' = dry
           \/ mem' = mem /\ dry' = IF e = 1 THEN dry \cup {Head(cmd[e])} ELSE dry
        /\ cmd' = [cmd EXCEPT ![e] = Tail(cmd[e])]
        /\ fifo' = [fifo EXCEPT ![e] = @ + 1] /\ cmd[e] # <<>>
    BY <1>16 DEF Transfer, board, caller
  <2>2. CASE e = 2
    <3>1. EngineStays
      BY <2>1, <2>2 DEF EngineStays, Flagging
    <3>2. \A q \in Readers : ReaderInv(q)'
      BY <2>1, <3>1, Standing DEF EngineStays, Queued1
    <3> QED BY <2>1, <3>1, <3>2, SameEngine DEF Engine1Inv
  <2>3. CASE e = 1
    <3>1. ~Quiet1 /\ inProgress'[2]
      BY <2>1, <2>3 DEF Quiet1, Idle1, Engine1Inv
    <3>2. Flagging' <=> Flagging
      BY <2>1 DEF Flagging
    <3>3. ASSUME NEW q \in Readers PROVE ReaderInv(q)'
      <4>1. (Waiting1(q)' <=> Waiting1(q)) /\ (Armed(q)' <=> Armed(q))
        BY <2>1 DEF Waiting1, Armed
      <4>2. CASE Waiting1(q)
        <5>1. /\ cmd[1] = <<q>> /\ fifo[1] = 0 /\ ~Flagging /\ flag[1] # 1
              /\ q \notin dry /\ Blank1
          BY <1>0, <2>1, <2>3, <4>2 DEF ReaderInv, Own, Done1, Blank1, Queued1, Under, Done1, Blank1, Quiet1, Idle1
        <5>2. Head(<<q>>) = q /\ Tail(<<q>>) = <<>>
          OBVIOUS
        <5>3. Done1(q)'
          BY <2>1, <2>3, <5>1, <5>2 DEF Done1, Blank1
        <5>4. Under(q)' /\ ~Queued1(q)'
          BY <2>1, <2>3, <3>2, <5>1, <5>2, <5>3 DEF Under, Queued1
        <5>5. ~(pc[q] = "settle" /\ cond[q] = 1) /\ ph[q] = 1 /\ ret[q] # "count"
          BY <1>0, <4>2, <5>1 DEF ReaderInv, Waiting1
        <5> QED BY <1>0, <2>1, <4>1, <4>2, <5>4, <5>5 DEF ReaderInv, Waiting1
      <4>3. CASE ~Waiting1(q)
        <5>1. ~Armed(q)
          BY <1>0, <3>1, <4>3 DEF ReaderInv, Own, Done1, Blank1, Queued1
        <5>2. ~Queued1(q)
          BY <1>0, <4>3 DEF ReaderInv
        <5>3. (q \in dry' <=> q \in dry) /\ ~Queued1(q)'
          <6> DEFINE h == Head(cmd[1])
          <6>1. h \in Readers /\ h # q
            BY <2>1, <2>3, <5>2 DEF Queued1
          <6>2. Under(h) /\ cmd[1] # <<>>
            BY <1>0, <2>1, <2>3, <6>1 DEF ReaderInv, Queued1
          <6>3. cmd[1] = <<h>>
            BY <6>2 DEF Under, Quiet1, Idle1
          <6>4. cmd'[1] = <<>>
            BY <2>1, <2>3, <6>3, SMTT(30)
          <6> QED BY <2>1, <2>3, <6>1, <6>4 DEF Queued1
        <5> QED BY <2>1, <5>1, <5>3, Standing
      <4> QED BY <4>2, <4>3
    <3> QED BY <3>1, <3>3 DEF Engine1Inv
  <2> QED BY <2>2, <2>3
<1>17. CASE UNCHANGED vars
  <2>1. UNCHANGED <<inProgress, pc, ph, cond, got, ret, cmd, fifo, flag, isr, mem, dry>>
    BY <1>17 DEF vars, board, caller, device
  <2>2. EngineStays
    BY <2>1 DEF EngineStays, Flagging
  <2>3. \A q \in Readers : ReaderInv(q)'
    BY <2>1, <2>2, Standing DEF EngineStays, Queued1
  <2> QED BY <2>1, <2>2, <2>3, SameEngine DEF Engine1Inv
<1> QED
  BY <1>1, <1>2, <1>3, <1>4, <1>5, <1>6, <1>7, <1>8, <1>9, <1>10, <1>11, <1>12, <1>13,
     <1>14, <1>15, <1>16, <1>17 DEF Next, ReadStep, IsrStep

LEMMA Engine1Always == Spec => []Engine1Inv
<1>1. Init => Engine1Inv
  BY DEF Init, Engine1Inv, ReaderInv, Own, Done1, Blank1, Queued1, Blank, Quiet1, Idle1, Flagging, Waiting1, Armed
<1> QED BY <1>1, Engine1Next, TypeCorrect, ArmedInvariant, Holder, PTL DEF Spec

(* While engine 1's buffer is copied and refilled, no transfer of engine 1 *)
(* is queued that could write it, whatever aborts and late interrupts do.  *)
THEOREM BufferStable == Spec => []Buffer1Stable
<1>1. Engine1Inv => Buffer1Stable
  BY DEF Engine1Inv, ReaderInv, Own, Done1, Blank1, Queued1, Buffer1Stable, Armed, Waiting1, Quiet1, Idle1
<1> QED BY <1>1, Engine1Always, PTL

(* A read that returns its count has engine 1's samples of its own         *)
(* transfer, for any callers, in both modes and whatever the handler says. *)
THEOREM OwnSamples == Spec => []OwnEngine1Data
<1>1. Engine1Inv => OwnEngine1Data
  BY DEF Engine1Inv, ReaderInv, Own, Done1, Blank1, Queued1, OwnEngine1Data
<1> QED BY <1>1, Engine1Always, PTL
=============================================================================
