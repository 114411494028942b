------------------------- MODULE PicoBufLayoutProofs -------------------------
(* Theorems about PicoBufLayout, for any buffer size and count, any ratio  *)
(* of the engines' rates and any line length.                              *)
EXTENDS PicoBufLayout, TLAPS

LEMMA CancelTimes ==
  ASSUME NEW a \in Nat, NEW b \in Nat, NEW s \in Nat \ {0}, a * s < b * s
  PROVE  a < b
<1> SUFFICES ASSUME b <= a PROVE FALSE
  OBVIOUS
<1>1. PICK d \in Nat : a = b + d
  <2>1. a - b \in Nat /\ a = b + (a - b)
    OBVIOUS
  <2> QED BY <2>1
<1>2. a * s = b * s + d * s
  BY <1>1
<1>3. d * s >= 0
  OBVIOUS
<1> QED BY <1>2, <1>3

LEMMA DivTimes ==
  ASSUME NEW a \in Nat, NEW b \in Nat \ {0}
  PROVE  /\ a \div b \in Nat
         /\ (a \div b) * b <= a
         /\ a \div b <= a
  OBVIOUS

(* The share of engine 2 is a part of the count.                           *)
LEMMA ShareBound ==
  ASSUME count \in Nat
  PROVE  Share \in Nat /\ Share <= count /\ Share <= count \div Ratio
  BY RatioAssumption, LineAssumption, DivTimes DEF Share

(* Where both loops stand: buffer i begins i * BufSize bytes into engine   *)
(* 1's share, and once the first buffer is full there is more to come.     *)
Walk ==
  /\ count \in Nat /\ dma1 \in Nat /\ dma2 \in Nat /\ left \in Nat /\ i \in Nat
  /\ pc \in {"entry", "EINVAL", "push", "wait", "copy", "copy2", "uncopied", "done"}
  /\ pc \in {"push", "wait", "copy", "copy2"} =>
       /\ count <= BufCount * BufSize
       /\ dma1 + dma2 = count
       /\ dma2 <= count \div Ratio
       /\ i * BufSize + left = dma1
       /\ i > 0 => left > 0

LEMMA InitWalk == Init => Walk
<1> SUFFICES ASSUME Init PROVE Walk
  OBVIOUS
<1>1. MaxCount \in Nat
  BY BufSizeAssumption, BufCountAssumption DEF MaxCount
<1>2. count \in Nat
  BY <1>1 DEF Init
<1> QED BY <1>2 DEF Init, Walk

LEMMA FullStep ==
  ASSUME left \in Nat, i \in Nat, left > BufSize
  PROVE  /\ left - BufSize \in Nat /\ left - BufSize > 0
         /\ i + 1 \in Nat
         /\ (i + 1) * BufSize + (left - BufSize) = i * BufSize + left
<1>1. (i + 1) * BufSize = i * BufSize + BufSize
  BY BufSizeAssumption
<1> QED BY <1>1, BufSizeAssumption

LEMMA NextWalk == Walk /\ [Next]_vars => Walk'
<1> SUFFICES ASSUME Walk, [Next]_vars PROVE Walk'
  OBVIOUS
<1> USE BufSizeAssumption, BufCountAssumption DEF Walk
<1>1. CASE Refuse
  BY <1>1 DEF Refuse
<1>2. CASE Split
  <2>1. Share \in Nat /\ Share <= count /\ Share <= count \div Ratio
    BY ShareBound
  <2>2. /\ count' = count /\ dma2' = Share /\ dma1' = count - Share
        /\ left' = count - Share /\ i' = 0 /\ pc' = "push"
        /\ count <= BufCount * BufSize
    BY <1>2 DEF Split
  <2>3. 0 * BufSize + (count - Share) = count - Share
    BY <2>1
  <2> QED BY <2>1, <2>2, <2>3
<1>3. CASE PushFull
  BY <1>3, FullStep DEF PushFull
<1>4. CASE PushLast
  BY <1>4 DEF PushLast
<1>5. CASE Done1
  <2>1. 0 * BufSize + dma1 = dma1
    OBVIOUS
  <2> QED BY <1>5, <2>1 DEF Done1
<1>6. CASE CopyFull
  BY <1>6, FullStep DEF CopyFull, CopyTo
<1>7. CASE CopyLast
  BY <1>7 DEF CopyLast, CopyTo
<1>8. CASE Copy2
  BY <1>8 DEF Copy2, CopyTo
<1>9. CASE UNCHANGED vars
  BY <1>9 DEF vars
<1> QED
  BY <1>1, <1>2, <1>3, <1>4, <1>5, <1>6, <1>7, <1>8, <1>9 DEF Next

(* For every buffer size and count, no read reaches behind the last of     *)
(* engine 1's buffers, neither when it queues them nor when it copies.     *)
THEOREM BuffersInRange == Spec => []BufferInRange
<1>1. Walk => BufferInRange
  <2> SUFFICES ASSUME Walk, Working PROVE i < BufCount
    BY DEF BufferInRange
  <2>1. i * BufSize + left <= BufCount * BufSize
    <3>1. dma1 <= count
      BY DEF Walk, Working
    <3>2. i * BufSize + left = dma1 /\ count <= BufCount * BufSize
      BY DEF Walk, Working
    <3>3. BufCount * BufSize \in Nat
      BY BufSizeAssumption, BufCountAssumption
    <3> HIDE DEF Working
    <3> QED BY <3>1, <3>2, <3>3 DEF Walk
  <2>2. CASE i = 0
    BY <2>2, BufCountAssumption
  <2>3. CASE i > 0
    <3>1. i * BufSize \in Nat /\ BufCount * BufSize \in Nat
      BY BufSizeAssumption, BufCountAssumption DEF Walk
    <3>2. i * BufSize < BufCount * BufSize
      BY <2>1, <2>3, <3>1 DEF Walk, Working
    <3> QED BY <3>2, CancelTimes, BufSizeAssumption, BufCountAssumption DEF Walk
  <2> QED BY <2>2, <2>3 DEF Walk
<1> QED BY InitWalk, NextWalk, <1>1, PTL DEF Spec

(* For every buffer size, and as many buffers as the ratio of the rates at *)
(* most, engine 2's share of an allowed count fits its one buffer.         *)
THEOREM OneBufferForEngine2 == Spec => []Engine2Fits
<1>1. Walk => Engine2Fits
  <2> SUFFICES ASSUME Walk, Working PROVE dma2 <= BufSize
    BY DEF Engine2Fits
  <2>1. dma2 \in Nat /\ dma2 <= count \div Ratio /\ count <= BufCount * BufSize
    BY DEF Walk, Working
  <2>2. (count \div Ratio) * Ratio <= BufCount * BufSize
    BY <2>1, DivTimes, RatioAssumption, BufCountAssumption, BufSizeAssumption DEF Walk
  <2>3. BufCount * BufSize <= Ratio * BufSize
    <3>1. PICK d \in Nat : Ratio = BufCount + d
      <4>1. Ratio - BufCount \in Nat /\ Ratio = BufCount + (Ratio - BufCount)
        BY RatioAssumption, BufCountAssumption
      <4> QED BY <4>1
    <3>2. Ratio * BufSize = BufCount * BufSize + d * BufSize
      BY <3>1, BufCountAssumption, BufSizeAssumption
    <3> QED BY <3>2, BufCountAssumption, BufSizeAssumption
  <2>4. count \div Ratio <= BufSize
    <3> DEFINE q == count \div Ratio
    <3>1. q \in Nat /\ q * Ratio <= BufSize * Ratio
      BY <2>2, <2>3, DivTimes, RatioAssumption, BufCountAssumption, BufSizeAssumption DEF Walk
    <3> HIDE DEF q
    <3>2. ~(BufSize < q)
      <4> SUFFICES ASSUME BufSize < q PROVE FALSE
        OBVIOUS
      <4>1. PICK d \in Nat : q = BufSize + 1 + d
        <5>1. q - BufSize - 1 \in Nat /\ q = BufSize + 1 + (q - BufSize - 1)
          BY <3>1, BufSizeAssumption
        <5> QED BY <5>1
      <4>2. q * Ratio = BufSize * Ratio + Ratio + d * Ratio
        BY <4>1, RatioAssumption, BufSizeAssumption
      <4> QED BY <3>1, <4>2, RatioAssumption, BufSizeAssumption
    <3>3. q <= BufSize
      BY <3>1, <3>2, BufSizeAssumption
    <3> QED BY <3>3 DEF q
  <2> QED BY <2>1, <2>4, BufSizeAssumption, RatioAssumption DEF Walk
<1> QED BY InitWalk, NextWalk, <1>1, PTL DEF Spec
-----------------------------------------------------------------------------
Item  == [buf : Nat, len : Nat, irq : {0, 1}]
Piece == [at : Nat, engine : {1, 2}, buf : Nat, len : Nat]

Queued(k) == hw[k].buf = k - 1 /\ hw[k].len = BufSize /\ hw[k].irq = 0
Offset(k) == BufSize * k
Copied(k) ==
  /\ user[k].at = Offset(k - 1) /\ user[k].engine = 1
  /\ user[k].buf = k - 1 /\ user[k].len = BufSize

(* The lists are complete: for engine 1 full buffers and a last one, for   *)
(* engine 2 its one buffer.                                                *)
Complete ==
  /\ Len(hw) >= 1
  /\ \A k \in 1 .. Len(hw) - 1 : Queued(k)
  /\ hw[Len(hw)].buf = Len(hw) - 1 /\ hw[Len(hw)].irq = 1
  /\ (Len(hw) - 1) * BufSize + hw[Len(hw)].len = dma1
  /\ hw[Len(hw)].len <= BufSize
  /\ Len(hw) > 1 => hw[Len(hw)].len > 0
  /\ hw2 = <<[buf |-> 0, len |-> dma2, irq |-> 1]>>
  /\ dma1 + dma2 = count

(* The loop that copies walks the same buffers: what it has copied is what *)
(* the list says, and it ends at the list's last entry.                    *)
Lists ==
  /\ hw \in Seq(Item) /\ user \in Seq(Piece) /\ hw2 \in Seq(Item)
  /\ pc \in {"entry", "EINVAL"} => hw = <<>>
  /\ pc = "push" => Len(hw) = i /\ \A k \in 1 .. i : Queued(k)
  /\ pc \in {"entry", "EINVAL", "push"} => hw2 = <<>>
  /\ pc \in {"wait", "copy", "copy2", "uncopied", "done"} => Complete
  /\ pc \in {"entry", "EINVAL", "push", "wait"} => user = <<>>
  /\ pc \in {"copy", "copy2", "done"} =>
       /\ \A k \in 1 .. i : Copied(k)
       /\ i < Len(hw)
       /\ i * BufSize + left = dma1 /\ dma1 + dma2 = count
  /\ pc = "copy" => Len(user) = i
  /\ pc \in {"copy2", "done"} =>
       /\ i = Len(hw) - 1 /\ left = hw[i + 1].len
       /\ user[i + 1] = [at |-> Offset(i), engine |-> 1, buf |-> i, len |-> left]
  /\ pc = "copy2" => Len(user) = i + 1
  /\ pc = "done" => /\ Len(user) = i + 2
                    /\ user[i + 2] = [at |-> Offset(i) + left, engine |-> 2, buf |-> 0, len |-> dma2]

LEMMA AppendOne ==
  ASSUME NEW S, NEW q \in Seq(S), NEW e \in S
  PROVE  /\ Append(q, e) \in Seq(S) /\ Len(q) \in Nat /\ Len(Append(q, e)) = Len(q) + 1
         /\ Append(q, e)[Len(q) + 1] = e
         /\ \A k \in 1 .. Len(q) : Append(q, e)[k] = q[k]
OBVIOUS

(* Both loops end at the same buffer.                                      *)
LEMMA SameEnd ==
  ASSUME NEW n \in Nat, NEW j \in Nat, NEW last \in Nat, NEW rest \in Nat,
         j <= n, n * BufSize + last = j * BufSize + rest,
         last <= BufSize, n > 0 => last > 0
  PROVE  rest <= BufSize <=> j = n
<1> USE BufSizeAssumption
<1>1. PICK d \in Nat : n = j + d
  <2>1. n - j \in Nat /\ n = j + (n - j)
    OBVIOUS
  <2> QED BY <2>1
<1>2. rest = d * BufSize + last
  <2>1. n * BufSize = j * BufSize + d * BufSize
    BY <1>1
  <2>2. n * BufSize \in Nat /\ j * BufSize \in Nat /\ d * BufSize \in Nat
    BY <1>1
  <2> QED BY <2>1, <2>2
<1>3. CASE d = 0
  BY <1>1, <1>2, <1>3
<1>4. CASE d > 0
  <2>1. PICK e \in Nat : d = e + 1
    <3>1. d - 1 \in Nat /\ d = (d - 1) + 1
      BY <1>4
    <3> QED BY <3>1
  <2>2. d * BufSize = e * BufSize + BufSize /\ e * BufSize \in Nat
    BY <2>1
  <2>3. last > 0
    BY <1>1, <1>4
  <2>4. rest > BufSize
    BY <1>2, <2>2, <2>3
  <2> QED BY <1>1, <1>4, <2>4
<1> QED BY <1>3, <1>4

LEMMA InitLists == Init => Lists
<1> SUFFICES ASSUME Init PROVE Lists
  OBVIOUS
<1>1. pc = "entry" /\ hw = <<>> /\ hw2 = <<>> /\ user = <<>>
  BY DEF Init
<1> QED BY <1>1 DEF Lists

LEMMA NextLists == Walk /\ Lists /\ [Next]_vars => Lists'
<1> SUFFICES ASSUME Walk, Lists, [Next]_vars PROVE Lists'
  OBVIOUS
<1> USE BufSizeAssumption
<1>0. /\ hw \in Seq(Item) /\ user \in Seq(Piece) /\ i \in Nat /\ left \in Nat
      /\ dma1 \in Nat /\ dma2 \in Nat /\ Offset(i) \in Nat
      /\ Len(hw) \in Nat /\ Len(user) \in Nat
  BY DEF Walk, Lists, Offset
<1>1. CASE Refuse
  BY <1>1 DEF Refuse, Lists
<1>2. CASE Split
  <2>1. /\ pc' = "push" /\ i' = 0 /\ hw' = hw /\ user' = user /\ hw = <<>> /\ user = <<>>
        /\ hw2' = hw2 /\ hw2 = <<>>
    BY <1>2 DEF Split, Lists
  <2> QED BY <2>1 DEF Lists
<1>3. CASE PushFull
  <2> DEFINE e == [buf |-> i, len |-> BufSize, irq |-> 0]
  <2>1. /\ pc = "push" /\ pc' = "push" /\ i' = i + 1 /\ hw' = Append(hw, e) /\ user' = user
        /\ hw2' = hw2 /\ hw2 = <<>>
        /\ Len(hw) = i /\ user = <<>> /\ \A k \in 1 .. i : Queued(k)
    BY <1>3 DEF PushFull, Lists
  <2>2. e \in Item
    BY <1>0 DEF Item
  <2> HIDE DEF e
  <2>3. hw' \in Seq(Item) /\ Len(hw') = i + 1 /\ hw'[i + 1] = e /\ \A k \in 1 .. i : hw'[k] = hw[k]
    <3>1. hw \in Seq(Item) /\ hw' = Append(hw, e) /\ Len(hw) = i
      BY <1>0, <2>1
    <3> QED BY <2>2, <3>1, AppendOne
  <2>4. \A k \in 1 .. i + 1 : Queued(k)'
    <3>1. \A k \in 1 .. i + 1 : k \in 1 .. i \/ k = i + 1
      BY <1>0
    <3>2. ASSUME NEW k \in 1 .. i + 1, k = i + 1 PROVE Queued(k)'
      BY <1>0, <2>3, <3>2 DEF Queued, e
    <3>3. ASSUME NEW k \in 1 .. i PROVE Queued(k)'
      BY <2>1, <2>3 DEF Queued
    <3> QED BY <3>1, <3>2, <3>3
  <2> QED BY <2>1, <2>3, <2>4 DEF Lists
<1>4. CASE PushLast
  <2> DEFINE e == [buf |-> i, len |-> left, irq |-> 1]
  <2> DEFINE e2 == [buf |-> 0, len |-> dma2, irq |-> 1]
  <2>0. hw2' = <<e2>> /\ e2' = e2
    <3>1. hw2 = <<>> /\ hw2' = Append(hw2, e2) /\ dma2' = dma2
      BY <1>4 DEF PushLast, Lists
    <3> QED BY <3>1
  <2>6. hw2' \in Seq(Item)
    <3>1. e2 \in Item
      BY <1>0 DEF Item
    <3> HIDE DEF e2
    <3> QED BY <2>0, <3>1
  <2>1. /\ pc = "push" /\ pc' = "wait" /\ i' = i /\ hw' = Append(hw, e) /\ user' = user /\ dma1' = dma1
        /\ dma2' = dma2 /\ count' = count /\ dma1 + dma2 = count
        /\ Len(hw) = i /\ user = <<>> /\ \A k \in 1 .. i : Queued(k)
        /\ left <= BufSize /\ i * BufSize + left = dma1 /\ (i > 0 => left > 0)
    BY <1>4 DEF PushLast, Lists, Walk
  <2>2. e \in Item
    BY <1>0 DEF Item
  <2> HIDE DEF e
  <2>3. hw' \in Seq(Item) /\ Len(hw') = i + 1 /\ hw'[i + 1] = e /\ \A k \in 1 .. i : hw'[k] = hw[k]
    <3>1. hw \in Seq(Item) /\ hw' = Append(hw, e) /\ Len(hw) = i
      BY <1>0, <2>1
    <3> QED BY <2>2, <3>1, AppendOne
  <2>4. \A k \in 1 .. i : Queued(k)'
    BY <2>1, <2>3 DEF Queued
  <2>5. Complete'
    <3>1. hw'[i + 1].buf = i /\ hw'[i + 1].len = left /\ hw'[i + 1].irq = 1
      BY <2>3 DEF e
    <3>2. (i + 1) - 1 = i
      BY <1>0
    <3> QED BY <1>0, <2>0, <2>1, <2>3, <2>4, <3>1, <3>2 DEF Complete
  <2> QED BY <2>1, <2>3, <2>5, <2>6 DEF Lists
<1>5. CASE Done1
  <2>1. /\ pc = "wait" /\ pc' = "copy" /\ i' = 0 /\ left' = dma1 /\ UNCHANGED <<hw, hw2, user, dma1, dma2, count>>
        /\ user = <<>> /\ Complete /\ dma1 + dma2 = count
    BY <1>5 DEF Done1, Lists, Walk
  <2>2. Complete'
    BY <2>1 DEF Complete, Queued
  <2>3. 0 < Len(hw) /\ 0 * BufSize + dma1 = dma1
    BY <1>0, <2>1 DEF Complete
  <2> QED BY <1>0, <2>1, <2>2, <2>3 DEF Lists
<1>6. ASSUME pc \in {"copy", "copy2"} PROVE
        /\ Complete /\ (\A k \in 1 .. i : Copied(k)) /\ i <= Len(hw) - 1 /\ Len(hw) - 1 \in Nat
        /\ i * BufSize + left = dma1 /\ dma1 + dma2 = count
        /\ left <= BufSize <=> i = Len(hw) - 1
  <2>1. /\ Complete /\ (\A k \in 1 .. i : Copied(k)) /\ i < Len(hw)
        /\ i * BufSize + left = dma1 /\ dma1 + dma2 = count
    BY <1>6 DEF Lists
  <2>2. Len(hw) - 1 \in Nat /\ i <= Len(hw) - 1
    BY <1>0, <2>1
  <2>3. hw[Len(hw)].len \in Nat
    <3>1. Len(hw) \in 1 .. Len(hw)
      BY <1>0, <2>1 DEF Complete
    <3>2. hw[Len(hw)] \in Item
      BY <1>0, <3>1
    <3> QED BY <3>2 DEF Item
  <2>4. left <= BufSize <=> i = Len(hw) - 1
    <3> DEFINE n == Len(hw) - 1
               last == hw[Len(hw)].len
    <3>1. n * BufSize + last = i * BufSize + left /\ last <= BufSize
      BY <2>1 DEF Complete
    <3>5. n > 0 => last > 0
      BY <1>0, <2>1 DEF Complete
    <3>2. n \in Nat /\ last \in Nat /\ i <= n
      BY <2>2, <2>3
    <3> HIDE DEF n, last
    <3>3. left <= BufSize <=> i = n
      BY <1>0, <3>1, <3>2, <3>5, SameEnd
    <3> QED BY <3>3 DEF n
  <2> QED BY <2>1, <2>2, <2>4
<1>7. CASE CopyFull
  <2> DEFINE e == [at |-> Offset(i), engine |-> 1, buf |-> i, len |-> BufSize]
  <2>1. /\ pc = "copy" /\ pc' \in {"copy", "uncopied"} /\ i' = i + 1 /\ left' = left - BufSize
        /\ user' = Append(user, e) /\ UNCHANGED <<count, dma1, dma2, hw, hw2>> /\ left > BufSize
        /\ Len(user) = i
    BY <1>7 DEF CopyFull, CopyTo, Lists, Offset
  <2>2. e \in Piece
    BY <1>0 DEF Piece
  <2> HIDE DEF e
  <2>3. user' \in Seq(Piece) /\ Len(user') = i + 1 /\ user'[i + 1] = e /\ \A k \in 1 .. i : user'[k] = user[k]
    BY <1>0, <2>1, <2>2, AppendOne
  <2>4. \A k \in 1 .. i + 1 : Copied(k)'
    <3>1. ASSUME NEW k \in 1 .. i PROVE Copied(k)'
      BY <1>6, <2>1, <2>3, <3>1 DEF Copied
    <3>2. (i + 1) - 1 = i
      BY <1>0
    <3>3. ASSUME NEW k \in 1 .. i + 1, k = i + 1 PROVE Copied(k)'
      <4>1. /\ user'[i + 1].at = Offset(i) /\ user'[i + 1].engine = 1
            /\ user'[i + 1].buf = i /\ user'[i + 1].len = BufSize
        BY <2>3 DEF e
      <4> QED BY <3>2, <3>3, <4>1 DEF Copied
    <3>4. \A k \in 1 .. i + 1 : k \in 1 .. i \/ k = i + 1
      BY <1>0
    <3> QED BY <3>1, <3>3, <3>4
  <2>5. Complete'
    BY <1>6, <2>1 DEF Complete, Queued
  <2>6. i + 1 < Len(hw)
    BY <1>0, <1>6, <2>1
  <2>7. (i + 1) * BufSize + (left - BufSize) = dma1
    BY <1>0, <1>6, <2>1, FullStep
  <2> QED BY <1>0, <1>6, <2>1, <2>3, <2>4, <2>5, <2>6, <2>7 DEF Lists
<1>8. CASE CopyLast
  <2> DEFINE e == [at |-> Offset(i), engine |-> 1, buf |-> i, len |-> left]
  <2>1. /\ pc = "copy" /\ pc' \in {"copy2", "uncopied"} /\ left <= BufSize
        /\ user' = Append(user, e) /\ UNCHANGED <<count, dma1, dma2, hw, hw2, i, left>>
        /\ Len(user) = i
    BY <1>8 DEF CopyLast, CopyTo, Lists, Offset
  <2>2. e \in Piece
    BY <1>0 DEF Piece
  <2> HIDE DEF e
  <2>3. user' \in Seq(Piece) /\ Len(user') = i + 1 /\ user'[i + 1] = e /\ \A k \in 1 .. i : user'[k] = user[k]
    BY <1>0, <2>1, <2>2, AppendOne
  <2>4. \A k \in 1 .. i : Copied(k)'
    BY <1>6, <2>1, <2>3 DEF Copied
  <2>5. Complete'
    BY <1>6, <2>1 DEF Complete, Queued
  <2>6. i = Len(hw) - 1 /\ Len(hw) = i + 1
    BY <1>0, <1>6, <2>1
  <2>7. left = hw[i + 1].len
    <3>0. hw[i + 1] \in Item
      BY <1>0, <2>6
    <3>1. i * BufSize + hw[i + 1].len = dma1 /\ hw[i + 1].len \in Nat
      BY <1>0, <1>6, <2>1, <2>6, <3>0 DEF Complete, Item
    <3> QED BY <1>0, <1>6, <2>1, <3>1, SMTT(30)
  <2> QED BY <1>0, <1>6, <2>1, <2>3, <2>4, <2>5, <2>6, <2>7 DEF Lists, e
<1>9. CASE Copy2
  <2> DEFINE e == [at |-> Offset(i) + left, engine |-> 2, buf |-> 0, len |-> dma2]
  <2>1. /\ pc = "copy2" /\ pc' \in {"done", "uncopied"}
        /\ user' = Append(user, e) /\ UNCHANGED <<count, dma1, dma2, hw, hw2, i, left>>
        /\ Len(user) = i + 1 /\ i = Len(hw) - 1 /\ left = hw[i + 1].len
        /\ user[i + 1] = [at |-> Offset(i), engine |-> 1, buf |-> i, len |-> left]
    BY <1>9 DEF Copy2, CopyTo, Lists, Offset
  <2>2. e \in Piece
    BY <1>0 DEF Piece
  <2> HIDE DEF e
  <2>3. user' \in Seq(Piece) /\ Len(user') = i + 2 /\ user'[i + 2] = e /\ \A k \in 1 .. i + 1 : user'[k] = user[k]
    BY <1>0, <2>1, <2>2, AppendOne
  <2>4. \A k \in 1 .. i : Copied(k)'
    <3>1. \A k \in 1 .. i : user'[k] = user[k]
      BY <1>0, <2>3
    <3> QED BY <1>6, <2>1, <3>1 DEF Copied
  <2>5. Complete'
    BY <1>6, <2>1 DEF Complete, Queued
  <2>6. user'[i + 1] = user[i + 1]
    BY <1>0, <2>3
  <2> QED BY <1>0, <1>6, <2>1, <2>3, <2>4, <2>5, <2>6 DEF Lists, e
<1>10. CASE UNCHANGED vars
  BY <1>10 DEF vars, Lists, Complete, Queued, Copied
<1> QED
  BY <1>1, <1>2, <1>3, <1>4, <1>5, <1>7, <1>8, <1>9, <1>10 DEF Next

LEMMA AlwaysLists == Spec => []Lists
BY InitWalk, NextWalk, InitLists, NextLists, PTL DEF Spec

(* Shares, remainder and index stay natural numbers, and the lists well    *)
(* formed, for every count and size.                                       *)
THEOREM TypeCorrect == Spec => []TypeOK
<1>1. Walk /\ Lists => TypeOK
  BY DEF Walk, Lists, Item, Piece, TypeOK
<1> QED BY InitWalk, NextWalk, AlwaysLists, <1>1, PTL DEF Spec

(* For every buffer size and count, a read that ends well leaves no gap in *)
(* the user's buffer, writes nothing twice, and copies from engine 1 what  *)
(* was queued for it.                                                      *)
THEOREM CopiedAsQueued == Spec => []UserBufferFilled
<1>1. ASSUME Walk, Lists PROVE UserBufferFilled
  <2> SUFFICES ASSUME pc = "done"
               PROVE  /\ \A k \in 1 .. Len(user) :
                           user[k].engine = 1 => user[k].buf = hw[k].buf /\ user[k].len = hw[k].len
                      /\ \A k \in 1 .. Len(user) :
                           user[k].engine = 2 => user[k].buf = hw2[1].buf /\ user[k].len = hw2[1].len
                      /\ user[1].at = 0
                      /\ \A k \in 1 .. Len(user) - 1 : user[k + 1].at = user[k].at + user[k].len
                      /\ user[Len(user)].at + user[Len(user)].len = count
    BY DEF UserBufferFilled
  <2>0. i \in Nat /\ left \in Nat /\ BufSize \in Nat /\ Offset(i) = i * BufSize
    BY <1>1, BufSizeAssumption DEF Walk, Offset
  <2>1. /\ Complete /\ Len(user) = i + 2 /\ i = Len(hw) - 1 /\ Len(hw) = i + 1 /\ left = hw[i + 1].len
        /\ i * BufSize + left = dma1 /\ dma1 + dma2 = count
        /\ user[i + 1] = [at |-> Offset(i), engine |-> 1, buf |-> i, len |-> left]
        /\ user[i + 2] = [at |-> Offset(i) + left, engine |-> 2, buf |-> 0, len |-> dma2]
        /\ \A k \in 1 .. i : Copied(k)
    BY <1>1, <2>0 DEF Lists
  <2>2. \A k \in 1 .. i : Queued(k)
    BY <2>0, <2>1 DEF Complete
  <2>3. hw[i + 1].buf = i
    BY <2>0, <2>1 DEF Complete
  <2>4. \A k \in 1 .. i + 2 : k \in 1 .. i \/ k = i + 1 \/ k = i + 2
    BY <2>0
  <2>5. ASSUME NEW k \in 1 .. i + 2, user[k].engine = 1
        PROVE  user[k].buf = hw[k].buf /\ user[k].len = hw[k].len
    BY <2>1, <2>2, <2>3, <2>4, <2>5 DEF Copied, Queued
  <2>10. ASSUME NEW k \in 1 .. i + 2, user[k].engine = 2
         PROVE  user[k].buf = hw2[1].buf /\ user[k].len = hw2[1].len
    <3>1. hw2[1].buf = 0 /\ hw2[1].len = dma2
      BY <2>1 DEF Complete
    <3>2. k \notin 1 .. i
      BY <2>1, <2>10 DEF Copied
    <3>3. user[i + 1].engine = 1 /\ k # i + 1
      BY <2>1, <2>10
    <3>4. k = i + 2
      BY <2>0, <3>2, <3>3
    <3> QED BY <2>1, <3>1, <3>4
  <2>6. user[1].at = 0
    <3>1. CASE i = 0
      <4>1. i + 1 = 1 /\ Offset(i) = 0
        BY <2>0, <3>1
      <4>2. user[i + 1].at = Offset(i)
        BY <2>1
      <4> QED BY <4>1, <4>2
    <3>2. CASE i # 0
      <4>1. 1 \in 1 .. i /\ Offset(1 - 1) = 0
        BY <2>0, <3>2 DEF Offset
      <4> QED BY <2>1, <4>1 DEF Copied
    <3> QED BY <3>1, <3>2
  <2>7. ASSUME NEW k \in 1 .. i + 1 PROVE user[k + 1].at = user[k].at + user[k].len
    <3>1. CASE k = i + 1
      <4>1. k + 1 = i + 2
        BY <2>0, <3>1
      <4> QED BY <2>1, <3>1, <4>1
    <3>2. CASE k # i + 1
      <4>1. k \in 1 .. i /\ (k + 1 \in 1 .. i \/ k = i) /\ k \in Nat
        BY <2>0, <3>2
      <4>2. Offset(k) = Offset(k - 1) + BufSize /\ (k + 1) - 1 = k
        <5>1. PICK j \in Nat : k = j + 1
          <6>1. k - 1 \in Nat /\ k = (k - 1) + 1
            BY <4>1
          <6> QED BY <6>1
        <5>2. BufSize * (j + 1) = BufSize * j + BufSize
          BY <2>0, <5>1
        <5>3. k - 1 = j /\ (k + 1) - 1 = j + 1
          BY <5>1
        <5> QED BY <5>1, <5>2, <5>3 DEF Offset
      <4>3. user[k].at = Offset(k - 1) /\ user[k].len = BufSize
        BY <2>1, <4>1 DEF Copied
      <4>4. user[k + 1].at = Offset(k)
        BY <2>1, <4>1, <4>2, SMTT(30) DEF Copied
      <4> QED BY <4>2, <4>3, <4>4
    <3> QED BY <3>1, <3>2
  <2>8. user[i + 2].at + user[i + 2].len = count
    BY <2>0, <2>1
  <2>9. (i + 2) - 1 = i + 1
    BY <2>0
  <2> QED BY <2>1, <2>5, <2>6, <2>7, <2>8, <2>9, <2>10
<1> QED BY InitWalk, NextWalk, AlwaysLists, <1>1, PTL DEF Spec

(* For every count, each engine's one interrupt comes with the last byte   *)
(* of its share: the driver never copies before all is there.              *)
THEOREM WaitsForTheShare == Spec => []InterruptEndsShare
<1>1. ASSUME Walk, Lists PROVE InterruptEndsShare
  <2> SUFFICES ASSUME pc \in {"wait", "copy", "copy2", "uncopied", "done"}
               PROVE  /\ Asking(hw) = {Len(hw)}
                      /\ \A k \in 1 .. Len(hw) - 1 : hw[k].len = BufSize
                      /\ (Len(hw) - 1) * BufSize + hw[Len(hw)].len = dma1
                      /\ Asking(hw2) = {Len(hw2)}
                      /\ Len(hw2) = 1 /\ hw2[1].len = dma2
                      /\ dma1 + dma2 = count
    BY DEF InterruptEndsShare
  <2>1. Complete /\ Len(hw) \in Nat
    BY <1>1 DEF Lists
  <2>2. Asking(hw) = {Len(hw)}
    <3>1. \A k \in 1 .. Len(hw) : k \in 1 .. Len(hw) - 1 \/ k = Len(hw)
      BY <2>1
    <3>2. \A k \in 1 .. Len(hw) - 1 : hw[k].irq = 0
      BY <2>1 DEF Complete, Queued
    <3>3. Len(hw) \in 1 .. Len(hw) /\ hw[Len(hw)].irq = 1
      BY <2>1 DEF Complete
    <3> QED BY <3>1, <3>2, <3>3 DEF Asking
  <2>3. hw2 = <<[buf |-> 0, len |-> dma2, irq |-> 1]>>
    BY <2>1 DEF Complete
  <2>4. Len(hw2) = 1 /\ hw2[1].len = dma2 /\ hw2[1].irq = 1
    BY <2>3
  <2>5. Asking(hw2) = {1}
    BY <2>4 DEF Asking
  <2> QED BY <2>1, <2>2, <2>4, <2>5 DEF Complete, Queued
<1> QED BY InitWalk, NextWalk, AlwaysLists, <1>1, PTL DEF Spec
=============================================================================
