---------------------------- MODULE IoParamsProofs ----------------------------
(* Theorems about IoParams, for any register list, boards, values, arrays  *)
(* and files that its assumptions allow.                                   *)
EXTENDS IoParams, TLAPS, WellFoundedInduction

-----------------------------------------------------------------------------
(* A set of numbers has a least member, a bounded one a greatest.          *)
LEMMA Least ==
  ASSUME NEW S, S \subseteq Nat, S # {}
  PROVE  \E x \in S : \A y \in S : x <= y
<1>1. OpToRel(<, Nat) = {ss \in Nat \X Nat : ss[1] < ss[2]}
  BY DEF OpToRel
<1>2. IsWellFoundedOn({ss \in Nat \X Nat : ss[1] < ss[2]}, Nat)
  BY <1>1, NatLessThanWellFounded
<1>3. PICK x \in S : \A y \in S : ~(<<y, x>> \in {ss \in Nat \X Nat : ss[1] < ss[2]})
  BY <1>2, WFMin, Zenon
<1>4. ASSUME NEW y \in S PROVE x <= y
  <2>1. x \in Nat /\ y \in Nat
    OBVIOUS
  <2>2. ~(y < x)
    BY <1>3, <2>1
  <2> QED BY <2>1, <2>2
<1> QED BY <1>4

LEMMA MinIsIn ==
  ASSUME NEW S, S \subseteq Nat, S # {}
  PROVE  Min(S) \in S
BY Least DEF Min

LEMMA MaxIsIn ==
  ASSUME NEW n \in Nat, NEW S, S \subseteq 1..n, S # {}
  PROVE  Max(S) \in S
<1> DEFINE T == {n - k : k \in S}
<1>1. T \subseteq Nat
  <2>1. \A k \in S : k \in 1..n /\ n - k \in Nat
    OBVIOUS
  <2> QED BY <2>1
<1>2. T # {}
  OBVIOUS
<1>3. PICK x \in T : \A y \in T : x <= y
  <2> HIDE DEF T
  <2> QED BY <1>1, <1>2, Least
<1>4. PICK k \in S : x = n - k
  BY <1>3
<1>5. ASSUME NEW l \in S PROVE k >= l
  <2>1. k \in 1..n /\ l \in 1..n
    OBVIOUS
  <2>2. n - k <= n - l
    BY <1>3, <1>4
  <2> QED BY <2>1, <2>2
<1> QED BY <1>5 DEF Max

-----------------------------------------------------------------------------
(* What the list says of a field.                                          *)
LEMMA FieldFacts ==
  ASSUME NEW n \in Fields
  PROVE  /\ n \in AllNames /\ n \in Scalars /\ n \notin IntArrays
         /\ RegMap[n].ip \in IPs
         /\ RegMap[n].acc = "raw" /\ RegMap[n].kind # "pulse"
         /\ Width[n] \in Narrow \cup {Word}
         /\ Width[n] \in Nat \ {0}
         /\ 0..Width[n] - 1 \subseteq Bits
         /\ RegMap[n].offset \in Nat
         /\ Home(n) \in Cells /\ ~InRam(Home(n)) /\ Span(n) \subseteq Bits
<1>1. n \in Scalars /\ RegMap[n].kind # "pulse" /\ Width[n] \in Narrow \cup {Word}
  BY DEF Fields
<1>2. n \in AllNames /\ n \notin IntArrays /\ RegMap[n].acc = "raw"
  BY <1>1 DEF Scalars, Numbers, Octets, IntArrays
<1>3. Width[n] \in Nat \ {0} /\ 0..Width[n] - 1 \subseteq Bits
  <2>1. CASE Width[n] = Word
    BY <2>1, WordAssumption DEF Bits
  <2>2. CASE Width[n] \in 1..Word - 1
    BY <2>2, WordAssumption DEF Bits
  <2> QED BY <1>1, <2>1, <2>2, WordAssumption
<1> QED BY <1>1, <1>2, <1>3, ListAssumption DEF IPs

LEMMA FieldValue ==
  ASSUME NEW n \in Fields, NEW r \in SUBSET Bits
  PROVE  FieldOf(n, r) \in SUBSET (0..Width[n] - 1)
  BY DEF FieldOf, Bits

LEMMA FieldOfOnes ==
  ASSUME NEW n \in Fields
  PROVE  FieldOf(n, Bits) = 0..Width[n] - 1
  BY FieldFacts DEF FieldOf, Span, Bits

(* Writing a field of a register leaves a text's field beside it.          *)
LEMMA OthersKept ==
  ASSUME NEW n \in Fields \cap Octets, NEW m \in Scalars \ {n}, Home(m) = Home(n),
         NEW r, NEW v
  PROVE  m \in Fields /\ FieldOf(n, Insert(m, r, v)) = FieldOf(n, r)
<1>1. m \in Fields /\ Span(m) \cap Span(n) = {}
  BY ListAssumption
<1>2. Width[n] # Word /\ Width[m] # Word
  <2>1. \E b \in Bits : b \in Span(n)
    <3>1. 0 + RegMap[n].offset \in Bits \/ Width[n] = Word
      BY FieldFacts DEF Span
    <3>2. 0 \in Bits
      BY WordAssumption DEF Bits
    <3> QED BY <3>1, <3>2, FieldFacts DEF Span
  <2>2. \E b \in Bits : b \in Span(m)
    <3>1. 0 + RegMap[m].offset \in Bits \/ Width[m] = Word
      BY <1>1, FieldFacts DEF Span
    <3>2. 0 \in Bits
      BY WordAssumption DEF Bits
    <3> QED BY <1>1, <3>1, <3>2, FieldFacts DEF Span
  <2> QED BY <1>1, <2>1, <2>2 DEF Span
<1>3. Width[m] \in Narrow /\ Width[n] \in Narrow
  BY <1>1, <1>2, FieldFacts
<1>4. \A b \in 0..Width[n] - 1 : b + RegMap[n].offset \in Span(n)
  BY <1>2 DEF Span
<1>5. {b + RegMap[m].offset : b \in v \cap (0..Width[m] - 1)} \subseteq Span(m)
  BY <1>2 DEF Span
<1>6. \A b \in 0..Width[n] - 1 :
        b + RegMap[n].offset \in Insert(m, r, v) <=> b + RegMap[n].offset \in r
  BY <1>1, <1>3, <1>4, <1>5 DEF Insert
<1> QED BY <1>1, <1>2, <1>6 DEF FieldOf

(* A register is still one after a write.                                  *)
LEMMA InsertType ==
  ASSUME NEW n \in AllNames, NEW r \in SUBSET Bits, NEW v \in SUBSET Bits
  PROVE  Insert(n, r, v) \in SUBSET Bits
<1>1. CASE Width[n] \in Narrow
  <2>1. Width[n] # Word
    BY <1>1, WordAssumption
  <2>2. {b + RegMap[n].offset : b \in v \cap (0..Width[n] - 1)} \subseteq Bits
    BY <1>1, <2>1, ListAssumption DEF Span
  <2> QED BY <1>1, <2>2 DEF Insert
<1>2. CASE Width[n] \notin Narrow
  BY <1>2 DEF Insert
<1> QED BY <1>1, <1>2

-----------------------------------------------------------------------------
(* The places of a field in its register, and a write in terms of them.    *)
At(n, b) == IF Width[n] = Word THEN b ELSE b + RegMap[n].offset

LEMMA Places ==
  ASSUME NEW n \in Fields
  PROVE  /\ Span(n) = {At(n, b) : b \in 0..Width[n] - 1}
         /\ \A b \in 0..Width[n] - 1 : BitOf[n][b] = <<Home(n), At(n, b)>>
         /\ \A b \in 0..Width[n] - 1 : At(n, b) \in Bits
<1>1. \A b \in 0..Width[n] - 1 : BitOf[n][b] = <<Home(n), At(n, b)>>
  BY DEF BitOf, At
<1>2. Span(n) = {At(n, b) : b \in 0..Width[n] - 1}
  <2>1. CASE Width[n] = Word
    BY <2>1 DEF Span, At, Bits
  <2>2. CASE Width[n] # Word
    BY <2>2 DEF Span, At
  <2> QED BY <2>1, <2>2
<1>3. \A b \in 0..Width[n] - 1 : At(n, b) \in Span(n)
  BY <1>2
<1> QED BY <1>1, <1>2, <1>3, FieldFacts

LEMMA InsertPlaces ==
  ASSUME NEW n \in Fields, NEW r \in SUBSET Bits, NEW v \in SUBSET Bits
  PROVE  Insert(n, r, v) = (r \ Span(n)) \cup {At(n, b) : b \in v \cap (0..Width[n] - 1)}
<1>1. CASE Width[n] = Word
  <2>1. Width[n] \notin Narrow
    BY <1>1, WordAssumption
  <2> QED BY <1>1, <2>1 DEF Insert, Span, At, Bits
<1>2. CASE Width[n] \in Narrow
  <2>1. Width[n] # Word
    BY <1>2, WordAssumption
  <2> QED BY <1>2, <2>1 DEF Insert, At
<1> QED BY <1>1, <1>2, FieldFacts

-----------------------------------------------------------------------------
(* The fields, and what a step leaves of them.                             *)
Held == [f \in Fields |-> FieldOf(f, reg[Home(f)])]
Live == [f \in Fields |-> board[RegMap[f].ip] = "open"]
Nothing == [op |-> "none", name |-> "none", value |-> {}]

RegType == reg \in [Cells -> SUBSET Bits]
HomesKept == \A n \in Fields : reg'[Home(n)] = reg[Home(n)]

(* A step that writes no register of a field.                              *)
LEMMA FieldsKept ==
  ASSUME HomesKept
  PROVE  Ones' = Ones /\ Held' = Held
<1>1. \A h \in {Home(f) : f \in Fields} : reg'[h] = reg[h]
  BY DEF HomesKept
<1> QED BY <1>1 DEF HomesKept, Held, Ones

(* writeReg to a register of the list.                                     *)
LEMMA StoredKeeps ==
  ASSUME IoTypeOK, NEW m \in Scalars, NEW v \in SUBSET Bits, reg' = Stored(m, v)
  PROVE  /\ RegType'
         /\ m \notin Fields => HomesKept
         /\ \A n \in (Fields \cap Octets) \ {m} : Held'[n] = Held[n]
<1>1. m \in AllNames /\ m \notin IntArrays
  BY DEF Scalars, Numbers, Octets, IntArrays
<1>2. Cell(m) = Home(m)
  BY <1>1 DEF Cell, Home, IoTypeOK
<1> DEFINE w == IF RegMap[m].kind = "pulse" THEN {} ELSE Insert(m, ip_rd(Cell(m)), v)
<1>3. ip_rd(Cell(m)) \in SUBSET Bits
  BY DEF ip_rd, Reachable, IOCTL_R, IoTypeOK, Bits
<1>4. w \in SUBSET Bits
  BY <1>1, <1>3, InsertType
<1>5. reg' = IF Reachable(Home(m)) THEN [reg EXCEPT ![Home(m)] = w] ELSE reg
  BY <1>2 DEF Stored, ip_wr, IOCTL_W
<1> HIDE DEF w
<1>6. RegType'
  BY <1>4, <1>5 DEF RegType, IoTypeOK
<1>7. ASSUME m \notin Fields, NEW n \in Fields PROVE reg'[Home(n)] = reg[Home(n)]
  <2>1. Home(n) # Home(m)
    BY <1>7, ListAssumption
  <2> QED BY <1>5, <2>1, FieldFacts DEF IoTypeOK
<1>8. ASSUME NEW n \in (Fields \cap Octets) \ {m} PROVE Held'[n] = Held[n]
  <2>1. CASE Home(n) # Home(m) \/ ~Reachable(Home(m))
    BY <1>5, <2>1, FieldFacts DEF Held, IoTypeOK
  <2>2. CASE Home(n) = Home(m) /\ Reachable(Home(m))
    <3>1. m \in Fields /\ RegMap[m].kind # "pulse"
      BY <2>2, OthersKept, FieldFacts
    <3>2. w = Insert(m, ip_rd(Cell(m)), v)
      BY <3>1 DEF w
    <3>3. reg'[Home(n)] = Insert(m, ip_rd(Cell(m)), v)
      BY <1>5, <2>2, <3>2, FieldFacts DEF IoTypeOK
    <3>4. ip_rd(Cell(m)) = reg[Home(n)]
      BY <1>2, <2>2 DEF ip_rd, IOCTL_R
    <3>5. FieldOf(n, Insert(m, reg[Home(n)], v)) = FieldOf(n, reg[Home(n)])
      BY <2>2, OthersKept
    <3> QED BY <3>3, <3>4, <3>5 DEF Held
  <2> QED BY <2>1, <2>2
<1> QED BY <1>6, <1>7, <1>8 DEF HomesKept

(* writeReg: the application's parameters reach no field.                  *)
LEMMA WriteKeeps ==
  ASSUME IoTypeOK, NEW m \in Numbers \cup Octets, NEW v \in SUBSET Bits, writeReg(m, v)
  PROVE  /\ RegType'
         /\ m \notin Fields => HomesKept
         /\ \A n \in (Fields \cap Octets) \ {m} : Held'[n] = Held[n]
<1>1. CASE RegMap[m].acc = "raw"
  <2>1. m \in Scalars /\ reg' = Stored(m, v)
    BY <1>1 DEF writeReg, Scalars
  <2> QED BY <2>1, StoredKeeps
<1>2. CASE RegMap[m].acc = "app"
  <2>1. writeAppData(address[m], v)
    BY <1>2 DEF writeReg
  <2>2. CASE reg' = reg
    BY <2>2 DEF RegType, IoTypeOK, Held, HomesKept
  <2>3. CASE set_evCodeList
    <3>1. RegType'
      BY <2>3, CodeAssumption DEF set_evCodeList, evCodeList, RegType, IoTypeOK
    <3>2. HomesKept
      <4>1. \A e \in Codes : InRam(RamCell(e))
        <5>1. \A e \in Codes : e \in 0..2047 /\ (EvrRam + e) - EvrRam = e
          BY CodeAssumption DEF EvrRam
        <5>2. \A e \in Codes : RamCell(e).ip = "evr1" /\ RamCell(e).addr = EvrRam + e
          BY DEF RamCell
        <5> QED BY <5>1, <5>2 DEF InRam
      <4>2. \A n \in Fields : \A e \in Codes : Home(n) # RamCell(e)
        BY <4>1, FieldFacts
      <4> QED BY <2>3, <4>2, FieldFacts DEF set_evCodeList, HomesKept
    <3> QED BY <3>1, <3>2, FieldsKept
  <2> QED BY <2>1, <2>2, <2>3 DEF writeAppData
<1>3. CASE RegMap[m].acc = "cfg" /\ reg' = reg
  BY <1>3 DEF RegType, IoTypeOK, Held, HomesKept
<1> QED BY <1>1, <1>2, <1>3 DEF writeReg

(* A put of an array writes at or above the table's address, and leaves    *)
(* the fields of its IP, which are all below it.                           *)
LEMMA ArrayKeeps ==
  ASSUME IoTypeOK, NEW m \in IntArrays, NEW s \in Seq(SUBSET Bits), PutArray(m, s)
  PROVE  /\ RegType' /\ HomesKept
         /\ \A n \in AllNames \ {m} : address'[n] = address[n]
         /\ address' \in [AllNames -> Nat] /\ address'[m] >= RegMap[m].addr
<1>1. m \in AllNames /\ address[m] \in Nat /\ RegMap[m].addr \in Nat
      /\ address[m] >= RegMap[m].addr
  BY ListAssumption DEF IntArrays, IoTypeOK
<1>2. CASE UNCHANGED <<reg, address>>
  BY <1>1, <1>2 DEF RegType, IoTypeOK, HomesKept
<1>3. CASE board[RegMap[m].ip] # "none"
  <2>1. address' = [address EXCEPT ![m] = address[m] + Len(s)]
    BY <1>3 DEF PutArray
  <2>2. Len(s) \in Nat /\ \A k \in 1..Len(s) : s[k] \in SUBSET Bits
    OBVIOUS
  <2>3. reg' = [c \in Cells |->
          IF board[c.ip] = "open" /\ c.ip = RegMap[m].ip
             /\ c.addr - address[m] \in 0..Len(s) - 1
          THEN Insert(m, reg[c], s[c.addr - address[m] + 1]) ELSE reg[c]]
    BY <1>3 DEF PutArray
  <2>4. ASSUME NEW c \in Cells PROVE reg'[c] \in SUBSET Bits
    <3>1. reg[c] \in SUBSET Bits
      BY DEF IoTypeOK
    <3>2. CASE /\ board[c.ip] = "open" /\ c.ip = RegMap[m].ip
               /\ c.addr - address[m] \in 0..Len(s) - 1
      <4> DEFINE k == c.addr - address[m] + 1
      <4>1. k \in 1..Len(s)
        <5> DEFINE d == c.addr - address[m]
        <5>1. d \in 0..Len(s) - 1
          BY <3>2
        <5> HIDE DEF d
        <5>2. d + 1 \in 1..Len(s)
          BY <2>2, <5>1
        <5> QED BY <5>2 DEF d
      <4>2. reg'[c] = Insert(m, reg[c], s[k])
        BY <2>3, <3>2
      <4>3. s[k] \in SUBSET Bits
        BY <2>2, <4>1
      <4> QED BY <1>1, <3>1, <4>2, <4>3, InsertType
    <3> QED BY <2>3, <3>1, <3>2
  <2>5. RegType'
    BY <2>3, <2>4 DEF RegType
  <2>6. ASSUME NEW n \in Fields PROVE reg'[Home(n)] = reg[Home(n)]
    <3>1. Home(n) \in Cells
      BY FieldFacts
    <3>2. ~(/\ Home(n).ip = RegMap[m].ip
            /\ Home(n).addr - address[m] \in 0..Len(s) - 1)
      <4>1. Home(n).ip = RegMap[n].ip /\ Home(n).addr = RegMap[n].addr
        BY DEF Home
      <4>2. RegMap[n].addr \in Nat
        BY FieldFacts, ListAssumption
      <4>3. RegMap[m].ip = RegMap[n].ip => RegMap[m].addr > RegMap[n].addr
        BY ListAssumption
      <4> QED BY <1>1, <4>1, <4>2, <4>3
    <3> QED BY <2>3, <3>1, <3>2
  <2>7. HomesKept
    BY <2>6 DEF HomesKept
  <2>8. address' \in [AllNames -> Nat] /\ address'[m] >= RegMap[m].addr
        /\ \A n \in AllNames \ {m} : address'[n] = address[n]
    BY <1>1, <2>1, <2>2 DEF IoTypeOK
  <2> QED BY <2>5, <2>7, <2>8
<1> QED BY <1>2, <1>3 DEF PutArray

(* What a restore puts: registers, however many the file's rows ask for.   *)
LEMMA ArrayIsSeq ==
  ASSUME NEW f \in Files, NEW s \in Array(f)
  PROVE  s \in Seq(SUBSET Bits)
<1> DEFINE Row == [index : Nat, value : SUBSET Bits, full : BOOLEAN]
           e == IF Beyond(f) = {} THEN Len(f) ELSE Min(Beyond(f))
<1>1. f \in Seq(Row)
  BY ValueAssumption, Zenon
<1> HIDE DEF Row
<1>2. Len(f) \in Nat /\ DOMAIN f = 1..Len(f) /\ \A k \in 1..Len(f) : f[k] \in Row
  BY <1>1
<1>3. f # <<>> => e \in 1..Len(f)
  <2>1. CASE Beyond(f) = {}
    BY <1>1, <1>2, <2>1
  <2>2. CASE Beyond(f) # {}
    <3>1. Beyond(f) \subseteq 1..Len(f)
      BY <1>2 DEF Beyond
    <3>2. Min(Beyond(f)) \in Beyond(f)
      BY <1>2, <2>2, <3>1, MinIsIn
    <3> QED BY <2>2, <3>1, <3>2
  <2> QED BY <2>1, <2>2
<1> HIDE DEF e
<1>4. Read(f) = SubSeq(f, 1, e)
  BY DEF Read, e
<1>5. f # <<>> => Len(Read(f)) = e /\ Read(f)[e] = f[e] /\ DOMAIN Read(f) = 1..e
  BY <1>1, <1>2, <1>3, <1>4
<1>6. Nord(f) \in Nat
  <2>1. CASE f = <<>>
    BY <2>1 DEF Nord
  <2>2. CASE f # <<>>
    BY <1>2, <1>3, <1>5, <2>2 DEF Nord, Row
  <2> QED BY <2>1, <2>2
<1>7. ASSUME NEW i PROVE Element(f, i) \in SUBSET Bits
  <2>1. CASE RowsOf(f, i) = {}
    BY <2>1 DEF Element
  <2>2. CASE RowsOf(f, i) # {}
    <3>1. RowsOf(f, i) \subseteq 1..Len(f)
      <4>1. CASE f = <<>>
        <5>1. Beyond(f) = {}
          BY <4>1, <1>2 DEF Beyond
        <5>2. Read(f) = <<>>
          BY <4>1, <5>1, <1>1, <1>4 DEF e
        <5> QED BY <5>2, <2>2 DEF RowsOf
      <4>2. CASE f # <<>>
        BY <1>2, <1>3, <1>5, <4>2 DEF RowsOf
      <4> QED BY <4>1, <4>2
    <3>2. Max(RowsOf(f, i)) \in 1..Len(f)
      BY <1>2, <2>2, <3>1, MaxIsIn
    <3> QED BY <1>2, <2>2, <3>2 DEF Element, Row
  <2> QED BY <2>1, <2>2
<1>8. s \in [1..Nord(f) -> SUBSET Bits]
  <2>1. s \in [1..Nord(f) -> PutValues \cup {Element(f, i) : i \in 0..Size - 1}]
    BY DEF Array
  <2>2. PutValues \cup {Element(f, i) : i \in 0..Size - 1} \subseteq SUBSET Bits
    BY <1>7, ValueAssumption
  <2> QED BY <2>1, <2>2
<1> QED BY <1>6, <1>8

-----------------------------------------------------------------------------
(* The steps of FieldStore.                                                *)
LEMMA IsOther ==
  ASSUME HomesKept, UNCHANGED <<mode, board>>, Said' = Nothing
  PROVE  Store!Other
<1>1. Ones' = Ones
  BY FieldsKept
<1>2. Live' = Live /\ Takes' = Takes
  BY DEF Live, Takes, class
<1> QED BY <1>1, <1>2 DEF Store!Other, Store!Nothing, Nothing, Live

(* A write of a field is a put.                                            *)
LEMMA OnesWritten ==
  ASSUME NEW n \in Fields, NEW v \in SUBSET Bits, RegType,
         reg' = [reg EXCEPT ![Home(n)] = Insert(n, reg[Home(n)], v)]
  PROVE  Ones' = (Ones \ Store!Own(n))
                   \cup {BitOf[n][b] : b \in Store!Cut(n, v)}
<1> DEFINE Homes == {Home(f) : f \in Fields}
           new == {At(n, b) : b \in v \cap (0..Width[n] - 1)}
<1>1. Home(n) \in Cells /\ Home(n) \in Homes /\ reg[Home(n)] \in SUBSET Bits
  BY FieldFacts DEF RegType
<1>2. /\ reg'[Home(n)] = (reg[Home(n)] \ Span(n)) \cup new
      /\ \A h \in Homes \ {Home(n)} : reg'[h] = reg[h]
  <2>1. \A h \in Homes : h \in Cells
    BY FieldFacts
  <2>2. reg'[Home(n)] = Insert(n, reg[Home(n)], v)
    BY <1>1 DEF RegType
  <2>3. \A h \in Homes \ {Home(n)} : reg'[h] = reg[h]
    BY <2>1 DEF RegType
  <2> QED BY <1>1, <2>2, <2>3, InsertPlaces
<1>3. Store!Own(n) = {<<Home(n), x>> : x \in Span(n)}
  <2>1. Store!Own(n) = {<<Home(n), At(n, b)>> : b \in 0..Width[n] - 1}
    BY Places DEF Store!Own
  <2> QED BY <2>1, Places
<1>4. {BitOf[n][b] : b \in Store!Cut(n, v)} = {<<Home(n), x>> : x \in new}
  BY Places, SMTT(30) DEF Store!Cut
<1>5. new \subseteq Bits
  BY Places
<1> HIDE DEF Homes, new
<1>6. Ones = {x \in Homes \X Bits : x[2] \in reg[x[1]]}
      /\ Ones' = {x \in Homes \X Bits : x[2] \in reg'[x[1]]}
  BY DEF Ones, Homes
<1>7. ASSUME NEW h \in Homes, NEW x \in Bits
      PROVE  <<h, x>> \in Ones' <=>
               \/ <<h, x>> \in Ones /\ ~(h = Home(n) /\ x \in Span(n))
               \/ h = Home(n) /\ x \in new
  <2>1. /\ <<h, x>> \in Ones <=> x \in reg[h]
        /\ <<h, x>> \in Ones' <=> x \in reg'[h]
    BY <1>6
  <2>2. CASE h = Home(n)
    BY <1>2, <2>1, <2>2
  <2>3. CASE h # Home(n)
    BY <1>2, <2>1, <2>3
  <2> QED BY <2>2, <2>3
<1>8. ASSUME NEW p PROVE p \in Ones' <=> p \in (Ones \ Store!Own(n)) \cup {<<Home(n), x>> : x \in new}
  <2>1. CASE p \in Homes \X Bits
    <3>1. PICK h \in Homes, x \in Bits : p = <<h, x>>
      BY <2>1
    <3>2. p \in Store!Own(n) <=> h = Home(n) /\ x \in Span(n)
      BY <1>3, <3>1
    <3>3. p \in {<<Home(n), y>> : y \in new} <=> h = Home(n) /\ x \in new
      BY <3>1
    <3> QED BY <1>7, <3>1, <3>2, <3>3
  <2>2. CASE p \notin Homes \X Bits
    <3>1. p \notin Ones /\ p \notin Ones'
      BY <1>6, <2>2
    <3>2. p \notin {<<Home(n), x>> : x \in new}
      BY <1>1, <1>5, <2>2
    <3> QED BY <3>1, <3>2
  <2> QED BY <2>1, <2>2
<1> QED BY <1>4, <1>8

LEMMA IsPut ==
  ASSUME NEW n \in Fields, NEW v \in SUBSET Bits, RegType, UNCHANGED <<mode, board>>,
         Done("put", n, v),
         reg' = IF Takes[n] THEN [reg EXCEPT ![Home(n)] = Insert(n, reg[Home(n)], v)] ELSE reg
  PROVE  Store!Put(n)
<1>1. Said' = [op |-> "put", name |-> n, value |-> v]
  BY DEF Said, Done
<1>2. Said' \in [op : {"put"}, name : {n}, value : SUBSET (0..Word - 1)] /\ Said'.value = v
  BY <1>1 DEF Bits
<1>3. Live' = Live /\ Takes' = Takes
  BY DEF Live, Takes, class
<1>4. Ones' = IF Takes[n] THEN (Ones \ Store!Own(n)) \cup {BitOf[n][b] : b \in Store!Cut(n, v)}
              ELSE Ones
  <2>1. CASE Takes[n]
    BY <2>1, OnesWritten
  <2>2. CASE ~Takes[n]
    BY <2>2, FieldsKept DEF HomesKept
  <2> QED BY <2>1, <2>2
<1> QED BY <1>2, <1>3, <1>4 DEF Store!Put, Live

LEMMA IsGet ==
  ASSUME IoTypeOK, NEW n \in Fields \ Octets, UNCHANGED <<mode, board, reg>>,
         Said' = [op |-> "get", name |-> n, value |-> readReg(n)]
  PROVE  Store!Get(n)
<1>1. /\ RegMap[n].acc = "raw" /\ Width[n] \in Narrow \cup {Word}
      /\ board[RegMap[n].ip] \in {"open", "shut", "none"}
      /\ Cell(n) = Home(n) /\ Home(n) \in Cells /\ Home(n).ip = RegMap[n].ip
  BY FieldFacts DEF IoTypeOK, Cell, Home
<1>2. Ones' = Ones /\ Live' = Live /\ Takes' = Takes
  BY FieldsKept DEF HomesKept, Live, Takes, class
<1>3. CASE board[RegMap[n].ip] = "open"
  <2>1. readReg(n) = FieldOf(n, reg[Home(n)])
    BY <1>1, <1>3 DEF readReg, ip_rd, Reachable, IOCTL_R
  <2>2. reg[Home(n)] \in SUBSET Bits
    BY <1>1 DEF IoTypeOK
  <2>3. FieldOf(n, reg[Home(n)]) = {b \in 0..Width[n] - 1 : At(n, b) \in reg[Home(n)]}
    BY <2>2 DEF FieldOf, At, Bits
  <2>4. ASSUME NEW b \in 0..Width[n] - 1
        PROVE  BitOf[n][b] \in Ones <=> At(n, b) \in reg[Home(n)]
    <3>1. BitOf[n][b] = <<Home(n), At(n, b)>> /\ At(n, b) \in Bits
      BY Places
    <3>2. Home(n) \in {Home(f) : f \in Fields}
      OBVIOUS
    <3> QED BY <3>1, <3>2 DEF Ones
  <2>5. Store!Value(n) = readReg(n)
    BY <2>1, <2>3, <2>4 DEF Store!Value
  <2> QED BY <1>2, <1>3, <2>5 DEF Store!Get, Live
<1>4. CASE board[RegMap[n].ip] = "shut"
  <2>1. readReg(n) = 0..Width[n] - 1
    BY <1>1, <1>4, FieldOfOnes DEF readReg, ip_rd, Reachable
  <2> QED BY <1>2, <1>4, <2>1 DEF Store!Get, Live
<1>5. CASE board[RegMap[n].ip] = "none"
  <2>1. readReg(n) = 0..Word - 1
    BY <1>1, <1>5 DEF readReg, Bits
  <2> QED BY <1>2, <1>5, <2>1 DEF Store!Get, Live
<1> QED BY <1>1, <1>3, <1>4, <1>5

(* A put of a number or a text, whatever parameter it is of.               *)
LEMMA PutStep ==
  ASSUME IoTypeOK, NEW m \in Numbers \cup Octets, NEW v \in SUBSET Bits,
         IF m \in Octets /\ class # "evx" THEN reg' = reg ELSE writeReg(m, v),
         Done("put", m, v), UNCHANGED <<mode, board, address>>
  PROVE  IoTypeOK' /\ [Store!StoreNext]_(Store!storeVars)
<1>1. RegType' /\ (m \notin Fields => HomesKept)
  BY WriteKeeps DEF RegType, IoTypeOK, HomesKept
<1>2. IoTypeOK'
  BY <1>1 DEF RegType, IoTypeOK
<1>3. CASE m \in Fields
  <2>1. /\ RegMap[m].acc = "raw" /\ RegMap[m].kind # "pulse"
        /\ m \in AllNames /\ m \notin IntArrays /\ Home(m) \in Cells
    BY <1>3, FieldFacts
  <2>2. Cell(m) = Home(m) /\ (Reachable(Home(m)) <=> board[RegMap[m].ip] = "open")
    BY <2>1 DEF Cell, Home, IoTypeOK, Reachable
  <2>3. Takes[m] <=> Reachable(Home(m)) /\ ~(m \in Octets /\ class # "evx")
    BY <1>3, <2>2 DEF Takes
  <2>4. reg' = IF Takes[m] THEN [reg EXCEPT ![Home(m)] = Insert(m, reg[Home(m)], v)] ELSE reg
    <3>1. CASE m \in Octets /\ class # "evx"
      BY <2>3, <3>1
    <3>2. CASE ~(m \in Octets /\ class # "evx")
      <4>1. reg' = Stored(m, v)
        BY <2>1, <3>2 DEF writeReg
      <4> QED BY <2>1, <2>2, <2>3, <3>2, <4>1 DEF Stored, ip_wr, ip_rd, IOCTL_R, IOCTL_W
    <3> QED BY <3>1, <3>2
  <2>5. Store!Put(m)
    BY <1>3, <2>4, IsPut DEF RegType, IoTypeOK
  <2> QED BY <1>2, <1>3, <2>5 DEF Store!StoreNext
<1>4. CASE m \notin Fields
  <2>1. Said' = Nothing
    BY <1>4 DEF Said, Done, Nothing
  <2>2. Store!Other
    BY <1>1, <1>4, <2>1, IsOther
  <2> QED BY <1>2, <2>2 DEF Store!StoreNext
<1> QED BY <1>3, <1>4

(* A put or a restore of a table.                                          *)
LEMMA ArrayStep ==
  ASSUME IoTypeOK, NEW m \in IntArrays, NEW s \in Seq(SUBSET Bits), PutArray(m, s),
         UNCHANGED <<mode, board>>, Said' = Nothing
  PROVE  IoTypeOK' /\ [Store!StoreNext]_(Store!storeVars)
<1>1. /\ RegType' /\ HomesKept
      /\ \A n \in AllNames \ {m} : address'[n] = address[n]
      /\ address' \in [AllNames -> Nat] /\ address'[m] >= RegMap[m].addr
  BY ArrayKeeps
<1>2. IoTypeOK'
  BY <1>1 DEF RegType, IoTypeOK
<1> QED BY <1>1, <1>2, IsOther DEF Store!StoreNext

(* A step that touches no register and no address of the list.             *)
LEMMA QuietStep ==
  ASSUME IoTypeOK, UNCHANGED <<mode, board, reg, address>>, Said' = Nothing
  PROVE  IoTypeOK' /\ [Store!StoreNext]_(Store!storeVars)
<1>1. IoTypeOK' /\ HomesKept
  BY DEF IoTypeOK, HomesKept
<1> QED BY <1>1, IsOther DEF Store!StoreNext

LEMMA ArrayNames ==
  ASSUME NEW n \in IntArrays \cup Waves \cup Octets
  PROVE  n \notin Fields \ Octets
  BY DEF Fields, Scalars, Numbers, Octets, IntArrays, Waves

LEMMA InitStore == Init => IoTypeOK /\ Store!StoreInit
<1> SUFFICES ASSUME Init PROVE IoTypeOK /\ Store!StoreInit
  OBVIOUS
<1>1. reg \in [Cells -> SUBSET Bits]
  BY StartAssumption DEF Init
<1>2. board \in [IPs -> {"open", "shut", "none"}]
  <2>1. PICK b \in Boards :
          board = [p \in IPs |-> IF p \in Served[class] THEN b[p] ELSE "none"]
    BY DEF Init
  <2>2. b \in [IPs -> {"open", "shut", "none"}]
    BY StartAssumption
  <2> QED BY <2>1, <2>2
<1>3. IoTypeOK
  BY <1>1, <1>2, ListAssumption DEF Init, IoTypeOK, Addresses
<1>4. Live \in [Fields -> BOOLEAN] /\ Takes \in [Fields -> BOOLEAN] /\ Said = Nothing
  BY DEF Live, Takes, Said, Nothing, Init, NoOp
<1> QED BY <1>3, <1>4 DEF Store!StoreInit, Store!Nothing, Live, Nothing

LEMMA NextStore == IoTypeOK /\ [Next]_vars => IoTypeOK' /\ [Store!StoreNext]_(Store!storeVars)
<1> SUFFICES ASSUME IoTypeOK, [Next]_vars
             PROVE  IoTypeOK' /\ [Store!StoreNext]_(Store!storeVars)
  OBVIOUS
<1>1. ASSUME NEW n \in Numbers, readInt32(n)
      PROVE  IoTypeOK' /\ [Store!StoreNext]_(Store!storeVars)
  <2>1. UNCHANGED <<mode, board, reg, address>>
    BY <1>1 DEF readInt32, unread
  <2>2. \/ last' = [op |-> "get", name |-> n, value |-> readReg(n), words |-> "none"]
        \/ RegMap[n].acc = "cfg" /\ Told(n, "driver")
    BY <1>1 DEF readInt32, Done
  <2>3. CASE n \in Fields
    <3>1. n \in Fields \ Octets /\ RegMap[n].acc = "raw"
      BY <2>3, FieldFacts DEF Numbers, Octets
    <3>2. Said' = [op |-> "get", name |-> n, value |-> readReg(n)]
      BY <2>2, <3>1 DEF Said
    <3>3. IoTypeOK'
      BY <2>1 DEF IoTypeOK
    <3> QED BY <2>1, <3>1, <3>2, <3>3, IsGet DEF Store!StoreNext
  <2>4. CASE n \notin Fields
    <3>1. last'.op = "get" /\ last'.name = n
      BY <2>2 DEF Told
    <3> QED BY <2>1, <2>4, <3>1, QuietStep DEF Said, Nothing
  <2> QED BY <2>3, <2>4
<1>2. ASSUME NEW n \in Numbers, writeInt32(n)
      PROVE  IoTypeOK' /\ [Store!StoreNext]_(Store!storeVars)
  <2>1. PICK v \in PutValues : writeReg(n, v) /\ Done("put", n, v)
    BY <1>2 DEF writeInt32
  <2>2. v \in SUBSET Bits
    BY ValueAssumption, Zenon
  <2>3. n \notin Octets
    BY DEF Numbers, Octets
  <2> QED BY <1>2, <2>1, <2>2, <2>3, PutStep DEF writeInt32
<1>3. ASSUME NEW n \in Octets, writeOctet(n)
      PROVE  IoTypeOK' /\ [Store!StoreNext]_(Store!storeVars)
  <2>1. PICK x \in Texts : /\ writeString(n, x)
                          /\ Done("put", n, NumberOf(RegMap[n].kind, x))
    BY <1>3 DEF writeOctet
  <2>2. NumberOf(RegMap[n].kind, x) \in SUBSET Bits
    BY ValueAssumption DEF NumberOf
  <2>3. IF n \in Octets /\ class # "evx" THEN reg' = reg
        ELSE writeReg(n, NumberOf(RegMap[n].kind, x))
    BY <2>1 DEF writeString
  <2> QED BY <1>3, <2>1, <2>2, <2>3, PutStep DEF writeOctet
<1>4. ASSUME NEW n \in IntArrays, writeInt32Array(n)
      PROVE  IoTypeOK' /\ [Store!StoreNext]_(Store!storeVars)
  <2>1. PICK s \in Arrays : PutArray(n, s)
    BY <1>4 DEF writeInt32Array
  <2>2. s \in Seq(SUBSET Bits)
    BY ValueAssumption, Zenon
  <2>3. Said' = Nothing
    BY <1>4 DEF writeInt32Array, Done, Said, Nothing, Fields, Scalars, Numbers, Octets, IntArrays
  <2> QED BY <1>4, <2>1, <2>2, <2>3, ArrayStep DEF writeInt32Array
<1>5. ASSUME NEW n \in IntArrays, waveformInitFromFile(n)
      PROVE  IoTypeOK' /\ [Store!StoreNext]_(Store!storeVars)
  <2>1. CASE \E f \in Files : \E s \in Array(f) : PutArray(n, s) /\ Done("restore", n, {})
    <3>1. PICK f \in Files : \E s \in Array(f) : PutArray(n, s)
      BY <2>1
    <3>2. PICK s \in Array(f) : PutArray(n, s)
      BY <3>1
    <3>3. s \in Seq(SUBSET Bits)
      BY ArrayIsSeq
    <3>4. Said' = Nothing
      BY <2>1 DEF Done, Said, Nothing
    <3> QED BY <1>5, <3>2, <3>3, <3>4, ArrayStep DEF waveformInitFromFile
  <2>2. CASE UNCHANGED <<reg, address>> /\ Told(n, "no file")
    <3>1. Said' = Nothing
      BY <2>2, ArrayNames DEF Told, Said, Nothing
    <3> QED BY <1>5, <2>2, <3>1, QuietStep DEF waveformInitFromFile
  <2> QED BY <1>5, <2>1, <2>2 DEF waveformInitFromFile
<1>6. ASSUME NEW n \in IntArrays \cup Waves \cup Octets, NEW w, Told(n, w), UNCHANGED unread
      PROVE  IoTypeOK' /\ [Store!StoreNext]_(Store!storeVars)
  <2>1. Said' = Nothing
    BY <1>6, ArrayNames DEF Told, Said, Nothing
  <2> QED BY <1>6, <2>1, QuietStep DEF unread
<1>7. CASE Restart
  <2>1. RegType'
    BY <1>7 DEF Restart, RegType, IoTypeOK
  <2>2. IoTypeOK'
    BY <1>7, <2>1, ListAssumption DEF Restart, RegType, IoTypeOK, Addresses
  <2>3. HomesKept
    BY <1>7, FieldFacts DEF Restart, HomesKept
  <2>4. Said' = Nothing
    BY <1>7 DEF Restart, Said, Nothing, NoOp
  <2> QED BY <1>7, <2>2, <2>3, <2>4, IsOther DEF Store!StoreNext, Restart
<1>8. CASE UNCHANGED vars
  <2>1. IoTypeOK' /\ HomesKept
    BY <1>8 DEF vars, IoTypeOK, HomesKept
  <2>2. Live' = Live /\ Takes' = Takes /\ Said' = Said
    BY <1>8 DEF vars, Live, Takes, Said, class
  <2>3. Ones' = Ones
    BY <2>1, FieldsKept
  <2> QED BY <2>1, <2>2, <2>3 DEF Store!storeVars, Live
<1>9. CASE Next
  <2>1. ASSUME NEW n \in Octets, readOctet(n)
        PROVE  IoTypeOK' /\ [Store!StoreNext]_(Store!storeVars)
    BY <1>6, <2>1 DEF readOctet
  <2>2. ASSUME NEW n \in IntArrays, readInt32Array(n)
        PROVE  IoTypeOK' /\ [Store!StoreNext]_(Store!storeVars)
    BY <1>6, <2>2 DEF readInt32Array
  <2>3. ASSUME NEW n \in Waves, readFloat32Array(n) \/ writeFloat32Array(n)
        PROVE  IoTypeOK' /\ [Store!StoreNext]_(Store!storeVars)
    BY <1>6, <2>3 DEF readFloat32Array, writeFloat32Array
  <2> QED BY <1>1, <1>2, <1>3, <1>4, <1>5, <1>7, <1>9, <2>1, <2>2, <2>3 DEF Next
<1> QED BY <1>8, <1>9

(* Every reachable state is well typed: a register never holds more than   *)
(* its bits, and only a table's address moves, upwards.                    *)
THEOREM TypeCorrect == Spec => []IoTypeOK
<1> QED BY InitStore, NextStore, PTL DEF Spec

(* For any list whose fields' registers hold nothing but fields, however   *)
(* these overlap, the handlers are FieldStore: a put gives the bits of its *)
(* parameter the value that was put, cut to the width, no put, table,      *)
(* pulse, port or restart changes any other bit of a parameter, and a get  *)
(* answers what the bits are.                                              *)
THEOREM OwnFields == Spec => FieldsAreTheirOwn
<1> QED BY InitStore, NextStore, PTL DEF Spec, FieldsAreTheirOwn, Store!StoreSpec
-----------------------------------------------------------------------------
(* A text is in force.                                                     *)
TextType == text \in [Octets -> Texts \cup {"none"}]

(* What a field that was written holds.                                    *)
LEMMA FieldWritten ==
  ASSUME NEW n \in Fields, NEW r, NEW v \in SUBSET Bits
  PROVE  FieldOf(n, Insert(n, r, v)) = v \cap (0..Width[n] - 1)
<1>1. CASE Width[n] \in Narrow
  <2>1. Width[n] # Word
    BY <1>1, WordAssumption
  <2>2. \A b \in 0..Width[n] - 1 : b + RegMap[n].offset \in Span(n)
    BY <2>1 DEF Span
  <2>3. ASSUME NEW b \in 0..Width[n] - 1
        PROVE  b + RegMap[n].offset \in {d + RegMap[n].offset : d \in v \cap (0..Width[n] - 1)}
                 <=> b \in v
    BY FieldFacts
  <2>4. \A b \in 0..Width[n] - 1 :
          b + RegMap[n].offset \in Insert(n, r, v) <=> b \in v
    BY <1>1, <2>2, <2>3 DEF Insert
  <2> QED BY <2>1, <2>4 DEF FieldOf
<1>2. CASE Width[n] \notin Narrow
  BY <1>2, FieldFacts, WordAssumption DEF FieldOf, Insert, Bits
<1> QED BY <1>1, <1>2

LEMMA TextInit == Init => TextType /\ TextInForce
  BY DEF Init, NoText, TextType, TextInForce

LEMMA TextNext ==
  IoTypeOK /\ TextType /\ TextInForce /\ [Next]_vars => TextType' /\ TextInForce'
<1> SUFFICES ASSUME IoTypeOK, TextType, TextInForce, [Next]_vars
             PROVE  TextType' /\ TextInForce'
  OBVIOUS
<1>1. ASSUME UNCHANGED <<mode, board, text>>,
             \A n \in Fields \cap Octets : Held'[n] = Held[n]
      PROVE  TextType' /\ TextInForce'
  <2>1. \A n \in Fields \cap Octets : FieldOf(n, reg'[Home(n)]) = FieldOf(n, reg[Home(n)])
    BY <1>1 DEF Held
  <2>2. class' = class
    BY <1>1 DEF class
  <2> QED BY <1>1, <2>1, <2>2 DEF TextType, TextInForce
<1>2. ASSUME NEW m \in Numbers, writeInt32(m)
      PROVE  TextType' /\ TextInForce'
  <2>1. PICK v \in PutValues : writeReg(m, v)
    BY <1>2 DEF writeInt32
  <2>2. v \in SUBSET Bits
    BY ValueAssumption, Zenon
  <2>3. \A n \in Fields \cap Octets : n # m
    BY DEF Numbers, Octets
  <2>4. \A n \in Fields \cap Octets : Held'[n] = Held[n]
    BY <2>1, <2>2, <2>3, WriteKeeps
  <2> QED BY <1>1, <1>2, <2>4 DEF writeInt32
<1>3. ASSUME NEW m \in Octets, writeOctet(m)
      PROVE  TextType' /\ TextInForce'
  <2>1. PICK x \in Texts : text' = [text EXCEPT ![m] = x] /\ writeString(m, x)
    BY <1>3 DEF writeOctet
  <2>2. UNCHANGED <<mode, board>> /\ class' = class
    BY <1>3 DEF writeOctet, class
  <2>3. TextType'
    BY <2>1 DEF TextType
  <2>4. SUFFICES ASSUME class = "evx", NEW n \in Fields \cap Octets,
                        board[RegMap[n].ip] = "open", text'[n] # "none"
                 PROVE  FieldOf(n, reg'[Home(n)])
                          = NumberOf(RegMap[n].kind, text'[n]) \cap (0..Width[n] - 1)
    BY <2>2, <2>3 DEF TextInForce
  <2> DEFINE v == NumberOf(RegMap[m].kind, x)
  <2>5. v \in SUBSET Bits
    BY ValueAssumption DEF NumberOf
  <2>6. writeReg(m, v)
    BY <2>1, <2>4 DEF writeString
  <2> HIDE DEF v
  <2>7. CASE n # m
    <3>1. text'[n] = text[n]
      BY <2>1, <2>7 DEF TextType
    <3>2. FieldOf(n, reg'[Home(n)]) = FieldOf(n, reg[Home(n)])
      BY <2>5, <2>6, <2>7, WriteKeeps DEF Held
    <3> QED BY <2>4, <3>1, <3>2 DEF TextInForce
  <2>8. CASE n = m
    <3>1. /\ RegMap[n].acc = "raw" /\ RegMap[n].kind # "pulse" /\ Home(n) \in Cells
          /\ n \in AllNames /\ n \notin IntArrays
      BY FieldFacts
    <3>2. Cell(n) = Home(n) /\ Reachable(Home(n))
      BY <2>4, <3>1 DEF Cell, Home, IoTypeOK, Reachable
    <3>3. reg' = [reg EXCEPT ![Home(n)] = Insert(n, ip_rd(Home(n)), v)]
      BY <2>6, <2>8, <3>1, <3>2 DEF writeReg, Stored, ip_wr, IOCTL_W
    <3>4. reg'[Home(n)] = Insert(n, ip_rd(Home(n)), v)
      BY <3>1, <3>3 DEF IoTypeOK
    <3>5. text'[n] = x
      BY <2>1, <2>8 DEF TextType
    <3> QED BY <2>5, <2>8, <3>4, <3>5, FieldWritten DEF v
  <2> QED BY <2>7, <2>8
<1>4. ASSUME NEW m \in IntArrays, writeInt32Array(m) \/ waveformInitFromFile(m)
      PROVE  TextType' /\ TextInForce'
  <2>1. (\E s \in Seq(SUBSET Bits) : PutArray(m, s)) \/ UNCHANGED <<reg, address>>
    <3>1. CASE writeInt32Array(m)
      <4>1. PICK s \in Arrays : PutArray(m, s)
        BY <3>1 DEF writeInt32Array
      <4>2. s \in Seq(SUBSET Bits)
        BY ValueAssumption, Zenon
      <4> QED BY <4>1, <4>2
    <3>2. CASE \E f \in Files : \E s \in Array(f) : PutArray(m, s)
      BY <3>2, ArrayIsSeq
    <3> QED BY <1>4, <3>1, <3>2 DEF waveformInitFromFile
  <2>2. Held' = Held
    BY <2>1, ArrayKeeps, FieldsKept DEF HomesKept
  <2> QED BY <1>1, <1>4, <2>2 DEF writeInt32Array, waveformInitFromFile
<1>5. CASE Restart
  BY <1>5 DEF Restart, NoText, TextType, TextInForce
<1>6. CASE UNCHANGED unread
  BY <1>1, <1>6 DEF unread, Held
<1> QED BY <1>2, <1>3, <1>4, <1>5, <1>6 DEF Next, vars, unread, readInt32, readOctet,
         readInt32Array, readFloat32Array, writeFloat32Array

(* A record whose text was put to a register of an EVX shows the number    *)
(* that is in force, whatever was put to its neighbours in the register.   *)
THEOREM TextsInForce == Spec => []TextInForce
<1> QED BY InitStore, NextStore, TextInit, TextNext, PTL DEF Spec
-----------------------------------------------------------------------------
(* What is staged for a port is the text of one of its records.            *)
Staged(p) == \E n \in PortRecords(p) : pfreqVal[p] = NumberOf(RegMap[n].kind, text[n])
PortInv ==
  /\ pfreqVal \in [Ports -> SUBSET Bits]
  /\ TextType
  /\ class = "evx" => \A p \in Ports : Staged(p)

LEMMA PortNumbers ==
  /\ Ports \subseteq Int /\ PortBase = 4160 /\ SetPorts = 4192
  /\ \A p \in Ports : PortBase + p # SetPorts /\ (PortBase + p) - PortBase = p
  /\ SetPorts - PortBase \notin Ports
  BY PortAssumption DEF PortBase, SetPorts

LEMMA OnlyTexts ==
  ASSUME NEW n \in AllNames, class = "evx", RegMap[n].acc = "app",
         RegMap[n].addr - PortBase \in Ports \/ RegMap[n].addr = SetPorts
  PROVE  n \in Octets
  BY PortAssumption

LEMMA PortInit == Init => PortInv /\ PortsFollowRecords
<1> SUFFICES ASSUME Init PROVE PortInv /\ PortsFollowRecords
  OBVIOUS
<1>1. pfreqVal \in [Ports -> SUBSET Bits] /\ TextType
  BY DEF Init, NoPfreq, NoText, TextType
<1>2. ASSUME class = "evx", NEW p \in Ports PROVE Staged(p)
  <2>1. PICK n \in Octets :
          RegMap[n].acc = "app" /\ RegMap[n].addr = PortBase + p
    BY PortAssumption
  <2>2. n \in PortRecords(p)
    BY <1>2, <2>1 DEF PortRecords
  <2>3. text[n] = "none" /\ pfreqVal[p] = {}
    BY <2>1 DEF Init, NoText, NoPfreq
  <2>4. NumberOf(RegMap[n].kind, "none") = {}
    BY PortAssumption DEF NumberOf
  <2> QED BY <2>2, <2>3, <2>4 DEF Staged
<1>3. PortsFollowRecords
  BY DEF Init, NoOp, PortsFollowRecords
<1> QED BY <1>1, <1>2, <1>3 DEF PortInv

(* A step that leaves texts and rates alone and sets no port.              *)
LEMMA PortQuiet ==
  ASSUME PortInv, UNCHANGED <<mode, text, pfreqVal>>,
         ~(/\ class = "evx" /\ last'.op = "put"
           /\ RegMap[last'.name].acc = "app" /\ RegMap[last'.name].addr = SetPorts)
  PROVE  PortInv' /\ PortsFollowRecords'
<1>1. class' = class /\ \A p \in Ports : PortRecords(p)' = PortRecords(p)
  BY DEF class, PortRecords
<1>2. \A p \in Ports : Staged(p) => Staged(p)'
  BY <1>1 DEF Staged
<1> QED BY <1>1, <1>2 DEF PortInv, TextType, PortsFollowRecords

LEMMA PortOctet ==
  ASSUME IoTypeOK, PortInv, NEW m \in Octets, writeOctet(m)
  PROVE  PortInv' /\ PortsFollowRecords'
<1>1. PICK x \in Texts : text' = [text EXCEPT ![m] = x] /\ writeString(m, x)
  BY DEF writeOctet
<1>2. /\ UNCHANGED <<mode, board>> /\ class' = class
      /\ \A p \in Ports : PortRecords(p)' = PortRecords(p)
      /\ last'.op = "put" /\ last'.name = m
  BY DEF writeOctet, Done, class, PortRecords
<1>3. m \in Octets /\ m \in AllNames /\ m \notin IntArrays /\ address[m] = RegMap[m].addr
  BY DEF Octets, IntArrays, IoTypeOK
<1>4. TextType' /\ text'[m] = x /\ \A n \in Octets \ {m} : text'[n] = text[n]
  BY <1>1, <1>3 DEF PortInv, TextType
<1> DEFINE v == NumberOf(RegMap[m].kind, x)
<1>5. v \in SUBSET Bits
  BY ValueAssumption DEF NumberOf
<1>6. CASE class # "evx"
  <2>1. pfreqVal' = pfreqVal
    BY <1>1, <1>6 DEF writeString
  <2> QED BY <1>2, <1>4, <1>6, <2>1 DEF PortInv, PortsFollowRecords
<1>7. CASE class = "evx" /\ RegMap[m].acc = "app" /\ RegMap[m].addr - PortBase \in Ports
  <2> DEFINE q == RegMap[m].addr - PortBase
  <2>1. m \in AllNames
    BY <1>3
  <2>2. v \in DOMAIN Pattern
    BY <1>3, <1>7, <2>1, PortAssumption
  <2>3. RegMap[m].addr \in Nat
    BY <1>3, ListAssumption
  <2>4. RegMap[m].addr = PortBase + q /\ RegMap[m].addr # SetPorts /\ q \in Ports
    BY <1>7, <2>3, PortNumbers
  <2>5. cfg_portFreq(q, v)
    BY <1>1, <1>3, <1>7, <2>4 DEF writeString, writeReg, writeAppData
  <2> HIDE DEF v, q
  <2>6. pfreqVal' = [pfreqVal EXCEPT ![q] = v]
    BY <2>2, <2>5 DEF cfg_portFreq
  <2>7. pfreqVal' \in [Ports -> SUBSET Bits]
    BY <1>5, <2>6 DEF PortInv
  <2>8. ASSUME NEW p \in Ports PROVE Staged(p)'
    <3>1. CASE p = q
      <4>1. m \in PortRecords(p)'
        BY <1>2, <1>7, <2>4, <3>1 DEF PortRecords
      <4>2. pfreqVal'[p] = NumberOf(RegMap[m].kind, text'[m])
        BY <1>4, <2>6, <3>1 DEF PortInv, v
      <4> QED BY <4>1, <4>2 DEF Staged
    <3>2. CASE p # q
      <4>1. PICK n \in PortRecords(p) : pfreqVal[p] = NumberOf(RegMap[n].kind, text[n])
        BY <1>7 DEF PortInv, Staged
      <4>2. n \in Octets /\ n # m
        BY <2>4, <3>2, <4>1, PortNumbers DEF PortRecords
      <4>3. pfreqVal'[p] = NumberOf(RegMap[n].kind, text'[n])
        BY <1>4, <2>6, <3>2, <4>1, <4>2 DEF PortInv
      <4> QED BY <1>2, <4>1, <4>3 DEF Staged
    <3> QED BY <3>1, <3>2
  <2>9. PortsFollowRecords'
    BY <1>2, <2>4 DEF PortsFollowRecords
  <2> QED BY <1>4, <2>7, <2>8, <2>9 DEF PortInv
<1>8. CASE class = "evx" /\ ~(RegMap[m].acc = "app" /\ RegMap[m].addr - PortBase \in Ports)
  <2>1. pfreqVal' = pfreqVal
    BY <1>1, <1>3, <1>8 DEF writeString, writeReg, writeAppData
  <2>2. ASSUME NEW p \in Ports, NEW n \in PortRecords(p) PROVE n \in Octets /\ n # m
    BY <1>8, <2>2, PortNumbers DEF PortRecords
  <2>3. \A p \in Ports : Staged(p)'
    BY <1>2, <1>4, <1>8, <2>1, <2>2 DEF PortInv, Staged
  <2>4. ASSUME board'["evr1"] = "open", RegMap[m].acc = "app", RegMap[m].addr = SetPorts,
               NEW p \in Ports
        PROVE  \E n \in PortRecords(p) : \A c \in Codes :
                 p \in reg'[RamCell(c)] <=> c \in Pattern[NumberOf(RegMap[n].kind, text'[n])]
    <3>1. set_evCodeList /\ board["evr1"] = "open"
      BY <1>1, <1>2, <1>3, <1>8, <2>4, PortNumbers DEF writeString, writeReg, writeAppData
    <3>2. PICK n \in PortRecords(p) : pfreqVal[p] = NumberOf(RegMap[n].kind, text'[n])
      BY <1>2, <2>1, <2>3 DEF Staged
    <3>3. ASSUME NEW c \in Codes
          PROVE  p \in reg'[RamCell(c)] <=> c \in Pattern[pfreqVal[p]]
      <4>1. RamCell(c) \in Cells
        BY PortAssumption
      <4>2. RamCell(c).addr - EvrRam = c
        BY CodeAssumption DEF RamCell, EvrRam
      <4>3. reg'[RamCell(c)] = evCodeList(RamCell(c).addr - EvrRam)
        BY <3>1, <4>1 DEF set_evCodeList
      <4> QED BY <4>2, <4>3 DEF evCodeList
    <3> QED BY <3>2, <3>3
  <2>5. PortsFollowRecords'
    BY <1>2, <2>4 DEF PortsFollowRecords
  <2> QED BY <1>4, <2>1, <2>3, <2>5 DEF PortInv
<1> QED BY <1>6, <1>7, <1>8

LEMMA PortNext ==
  IoTypeOK /\ PortInv /\ PortsFollowRecords /\ [Next]_vars => PortInv' /\ PortsFollowRecords'
<1> SUFFICES ASSUME IoTypeOK, PortInv, PortsFollowRecords, [Next]_vars
             PROVE  PortInv' /\ PortsFollowRecords'
  OBVIOUS
<1>1. ASSUME NEW m \in Numbers, writeInt32(m)
      PROVE  PortInv' /\ PortsFollowRecords'
  <2>1. PICK v \in PutValues : writeReg(m, v)
    BY <1>1 DEF writeInt32
  <2>2. m \in AllNames /\ m \notin Octets /\ address[m] = RegMap[m].addr
    BY DEF Numbers, Octets, IntArrays, IoTypeOK
  <2>3. ~(/\ class = "evx" /\ RegMap[m].acc = "app"
          /\ RegMap[m].addr - PortBase \in Ports \/ RegMap[m].addr = SetPorts)
    BY <2>2, OnlyTexts
  <2>4. pfreqVal' = pfreqVal
    BY <2>1, <2>2, <2>3 DEF writeReg, writeAppData
  <2>5. last'.name = m /\ UNCHANGED <<mode, text>>
    BY <1>1 DEF writeInt32, Done
  <2> QED BY <2>3, <2>4, <2>5, PortQuiet
<1>2. ASSUME NEW m \in IntArrays, writeInt32Array(m)
      PROVE  PortInv' /\ PortsFollowRecords'
  <2>1. m \in AllNames /\ m \notin Octets
    BY DEF Octets, IntArrays
  <2>2. last'.name = m /\ UNCHANGED <<mode, text, pfreqVal>>
    BY <1>2 DEF writeInt32Array, Done
  <2> QED BY <2>1, <2>2, OnlyTexts, PortQuiet
<1>3. ASSUME NEW m, waveformInitFromFile(m)
      PROVE  PortInv' /\ PortsFollowRecords'
  <2>1. last'.op # "put"
    <3>1. CASE \E f \in Files : Done("restore", m, {})
      BY <3>1 DEF Done
    <3>2. CASE Told(m, "no file")
      BY <3>2 DEF Told
    <3> QED BY <1>3, <3>1, <3>2 DEF waveformInitFromFile
  <2>2. UNCHANGED <<mode, text, pfreqVal>>
    BY <1>3 DEF waveformInitFromFile
  <2> QED BY <2>1, <2>2, PortQuiet
<1>4. CASE Restart
  <2>1. last'.op # "put" /\ class' = class
    BY <1>4 DEF Restart, NoOp, class
  <2>2. pfreqVal' = NoPfreq /\ text' = NoText
    BY <1>4 DEF Restart
  <2>3. ASSUME class = "evx", NEW p \in Ports PROVE Staged(p)'
    <3>1. PICK n \in Octets :
            RegMap[n].acc = "app" /\ RegMap[n].addr = PortBase + p
      BY PortAssumption
    <3>2. n \in PortRecords(p)'
      BY <2>1, <2>3, <3>1 DEF PortRecords
    <3>3. text'[n] = "none" /\ pfreqVal'[p] = {}
      BY <2>2, <3>1 DEF NoText, NoPfreq
    <3>4. NumberOf(RegMap[n].kind, "none") = {}
      BY PortAssumption DEF NumberOf
    <3> QED BY <3>2, <3>3, <3>4 DEF Staged
  <2> QED BY <2>1, <2>2, <2>3 DEF PortInv, PortsFollowRecords, TextType, NoText, NoPfreq
<1>5. ASSUME UNCHANGED unread, last'.op = "get"
      PROVE  PortInv' /\ PortsFollowRecords'
  BY <1>5, PortQuiet DEF unread
<1>6. CASE UNCHANGED vars
  <2>1. class' = class /\ \A p \in Ports : PortRecords(p)' = PortRecords(p)
    BY <1>6 DEF vars, class, PortRecords
  <2> QED BY <1>6, <2>1 DEF vars, PortInv, Staged, TextType, PortsFollowRecords
<1>7. CASE Next
  <2>1. ASSUME NEW m, \/ readInt32(m) \/ readOctet(m) \/ readInt32Array(m)
                     \/ readFloat32Array(m) \/ writeFloat32Array(m)
        PROVE  PortInv' /\ PortsFollowRecords'
    BY <1>5, <2>1 DEF readInt32, readOctet, readInt32Array, readFloat32Array,
         writeFloat32Array, Done, Told
  <2> QED BY <1>1, <1>2, <1>3, <1>4, <1>7, <2>1, PortOctet DEF Next
<1> QED BY <1>6, <1>7

(* After SET_PORT_FREQ, evrMain fires each port as the text of one of its  *)
(* records says, for any ports, rates and event codes.                     *)
THEOREM PortsFollow == Spec => []PortsFollowRecords
<1> QED BY InitStore, NextStore, PortInit, PortNext, PTL DEF Spec
-----------------------------------------------------------------------------
(* The tables of the sequencers.  An open table's address has moved by     *)
(* what it was given, and nothing else writes its registers.               *)
TableCell(t, i) == [ip |-> RegMap[t].ip, addr |-> RegMap[t].addr + i]
AllWithin == \A u \in Range(Tables) : Len(given[u]) <= Size
TableInv ==
  /\ given \in [IntArrays -> Seq(SUBSET Bits)]
  /\ \A t \in Range(Tables) : board[RegMap[t].ip] = "open" =>
       /\ address[t] = RegMap[t].addr + Len(given[t])
       /\ AllWithin => \A k \in 1..Len(given[t]) : reg[TableCell(t, k - 1)] = given[t][k]
RestoredTables ==
  last.op = "restore" => \A t \in Range(Tables) :
    /\ board[RegMap[t].ip] = "open" /\ last.name = t
    /\ Ascending(file) /\ Len(given[t]) <= Nord(file)
    => \A k \in DOMAIN file : reg[TableCell(t, file[k].index)] = file[k].value

LEMMA TableFacts ==
  ASSUME NEW t \in Range(Tables)
  PROVE  /\ t \in IntArrays /\ t \in AllNames /\ RegMap[t].ip \in IPs
         /\ RegMap[t].addr \in Nat /\ Size \in Nat \ {0}
         /\ Width[t] \notin Narrow
         /\ \A i \in 0..Size - 1 : TableCell(t, i) \in Cells /\ ~InRam(TableCell(t, i))
<1>1. t \in IntArrays /\ RegMap[t].addr \in Nat /\ Width[t] = Word /\ Size \in Nat \ {0}
  BY TableAssumption
<1>2. t \in AllNames /\ RegMap[t].ip \in IPs
  BY <1>1 DEF IntArrays, IPs
<1>3. \A i \in 0..Size - 1 : TableCell(t, i) \in Cells /\ ~InRam(TableCell(t, i))
  BY TableAssumption DEF TableCell
<1> QED BY <1>1, <1>2, <1>3, WordAssumption

LEMMA TablesHeld == TableInv /\ RestoredTables => TablesHold
<1> SUFFICES ASSUME TableInv, RestoredTables, NEW t \in Range(Tables),
                    board[RegMap[t].ip] = "open"
             PROVE  /\ AllWithin => \A k \in DOMAIN given[t] : Holds(t, k - 1, given[t][k])
                    /\ last.op = "restore" /\ last.name = t /\ Ascending(file)
                       /\ Len(given[t]) <= Nord(file) =>
                         \A k \in DOMAIN file : Holds(t, file[k].index, file[k].value)
  BY DEF TablesHold, AllWithin
<1>1. given[t] \in Seq(SUBSET Bits)
  BY TableFacts DEF TableInv
<1>2. DOMAIN given[t] = 1..Len(given[t])
  BY <1>1
<1>3. \A i, v : Holds(t, i, v) <=> reg[TableCell(t, i)] = v
  BY DEF Holds, TableCell
<1> QED BY <1>2, <1>3 DEF TableInv, RestoredTables

(* A step that gives a table nothing and writes none of its registers.     *)
LEMMA TableQuiet ==
  ASSUME TableInv, UNCHANGED <<board, address, given>>, last'.op # "restore",
         \A t \in Range(Tables) : \A i \in 0..Size - 1 :
           reg'[TableCell(t, i)] = reg[TableCell(t, i)]
  PROVE  TableInv' /\ RestoredTables'
<1>1. ASSUME NEW t \in Range(Tables), board[RegMap[t].ip] = "open", AllWithin,
             NEW k \in 1..Len(given[t])
      PROVE  reg'[TableCell(t, k - 1)] = given[t][k]
  <2>1. given[t] \in Seq(SUBSET Bits)
    BY TableFacts DEF TableInv
  <2>2. Len(given[t]) \in Nat /\ Len(given[t]) <= Size /\ Size \in Nat
    BY <1>1, <2>1, TableFacts DEF AllWithin
  <2>3. k - 1 \in 0..Size - 1
    BY <2>2
  <2> QED BY <1>1, <2>3 DEF TableInv
<1>2. AllWithin' = AllWithin
  BY DEF AllWithin
<1> QED BY <1>1, <1>2 DEF TableInv, RestoredTables

(* writeReg writes none of them.                                           *)
LEMMA WriteTables ==
  ASSUME IoTypeOK, NEW m \in Numbers \cup Octets, NEW v, writeReg(m, v) \/ reg' = reg,
         NEW t \in Range(Tables), NEW i \in 0..Size - 1
  PROVE  reg'[TableCell(t, i)] = reg[TableCell(t, i)]
<1>1. TableCell(t, i) \in Cells /\ ~InRam(TableCell(t, i)) /\ RegMap[t].addr \in Nat
  BY TableFacts
<1>2. CASE reg' = reg
  BY <1>2
<1>3. CASE RegMap[m].acc = "raw" /\ writeReg(m, v)
  <2>1. m \in Scalars /\ m \in AllNames /\ m \notin IntArrays
    BY <1>3 DEF Scalars, Numbers, Octets, IntArrays
  <2>2. Cell(m) = Home(m)
    BY <2>1 DEF Cell, Home, IoTypeOK
  <2>3. Home(m) # TableCell(t, i)
    <3>1. RegMap[m].ip = RegMap[t].ip => RegMap[m].addr - RegMap[t].addr \notin 0..Size - 1
      BY <2>1, TableAssumption
    <3>2. Home(m).ip = RegMap[m].ip /\ Home(m).addr = RegMap[m].addr
      BY DEF Home
    <3>3. TableCell(t, i).ip = RegMap[t].ip /\ TableCell(t, i).addr = RegMap[t].addr + i
      BY DEF TableCell
    <3>4. (RegMap[t].addr + i) - RegMap[t].addr = i
      BY <1>1
    <3> QED BY <3>1, <3>2, <3>3, <3>4
  <2>4. reg' = Stored(m, v)
    BY <1>3 DEF writeReg
  <2> QED BY <1>1, <2>2, <2>3, <2>4 DEF Stored, ip_wr, IOCTL_W, IoTypeOK
<1>4. CASE RegMap[m].acc = "app" /\ writeReg(m, v)
  <2>1. writeAppData(address[m], v)
    BY <1>4 DEF writeReg
  <2>2. CASE set_evCodeList
    <3>1. \A e \in Codes : e \in 0..2047 /\ (EvrRam + e) - EvrRam = e
      BY CodeAssumption DEF EvrRam
    <3>2. \A e \in Codes : InRam(RamCell(e))
      BY <3>1 DEF InRam, RamCell
    <3> QED BY <1>1, <2>2, <3>2 DEF set_evCodeList
  <2> QED BY <1>2, <2>1, <2>2 DEF writeAppData
<1> QED BY <1>2, <1>3, <1>4 DEF writeReg

(* An array put to an open table goes behind what the table was given.     *)
LEMMA ArrayWrites ==
  ASSUME TableInv, NEW t \in Range(Tables), board[RegMap[t].ip] = "open",
         NEW s \in Seq(SUBSET Bits), PutArray(t, s), NEW i \in 0..Size - 1
  PROVE  LET d == i - Len(given[t])
         IN  reg'[TableCell(t, i)] = IF d \in 0..Len(s) - 1 THEN s[d + 1]
                                     ELSE reg[TableCell(t, i)]
<1>1. given[t] \in Seq(SUBSET Bits) /\ RegMap[t].addr \in Nat
      /\ address[t] = RegMap[t].addr + Len(given[t])
      /\ TableCell(t, i) \in Cells /\ Width[t] \notin Narrow
  BY TableFacts DEF TableInv
<1>2. Len(given[t]) \in Nat /\ Len(s) \in Nat
  BY <1>1
<1>3. TableCell(t, i).addr - address[t] = i - Len(given[t]) /\ TableCell(t, i).ip = RegMap[t].ip
  BY <1>1, <1>2 DEF TableCell
<1>4. reg' = [c \in Cells |->
        IF board[c.ip] = "open" /\ c.ip = RegMap[t].ip /\ c.addr - address[t] \in 0..Len(s) - 1
        THEN Insert(t, reg[c], s[c.addr - address[t] + 1]) ELSE reg[c]]
  BY DEF PutArray
<1>5. \A r, v : Insert(t, r, v) = v
  BY <1>1 DEF Insert
<1> QED BY <1>1, <1>3, <1>4, <1>5

(* What goes behind len words of one table is not in another.              *)
LEMMA Apart ==
  ASSUME NEW a \in Nat, NEW b \in Nat, NEW size \in Nat, NEW len \in Nat, NEW l \in Nat,
         NEW i \in 0..size - 1, NEW x, x = b + len, len + l <= size,
         a + size <= b \/ b + size <= a
  PROVE  (a + i) - x \notin 0..l - 1
  OBVIOUS

LEMMA TableArray ==
  ASSUME IoTypeOK, TableInv, NEW m \in IntArrays, NEW s \in Seq(SUBSET Bits),
         PutArray(m, s), UNCHANGED board
  PROVE  TableInv'
<1>1. CASE UNCHANGED <<reg, address, given>>
  BY <1>1 DEF TableInv, AllWithin
<1>2. CASE board[RegMap[m].ip] # "none"
  <2>1. /\ address' = [address EXCEPT ![m] = @ + Len(s)]
        /\ given' = [given EXCEPT ![m] = @ \o s]
        /\ reg' = [c \in Cells |->
             IF board[c.ip] = "open" /\ c.ip = RegMap[m].ip
                /\ c.addr - address[m] \in 0..Len(s) - 1
             THEN Insert(m, reg[c], s[c.addr - address[m] + 1]) ELSE reg[c]]
    BY <1>2 DEF PutArray
  <2>2. \A u \in IntArrays : given[u] \in Seq(SUBSET Bits) /\ Len(given[u]) \in Nat
    BY DEF TableInv
  <2>3. Len(s) \in Nat /\ m \in AllNames
    BY DEF IntArrays
  <2>4. given' \in [IntArrays -> Seq(SUBSET Bits)]
    BY <2>1, <2>2 DEF TableInv
  <2>5. /\ given'[m] = given[m] \o s /\ Len(given'[m]) = Len(given[m]) + Len(s)
        /\ \A u \in IntArrays \ {m} : given'[u] = given[u]
    BY <2>1, <2>2 DEF TableInv
  <2>6. AllWithin' => AllWithin
    <3>1. \A u \in Range(Tables) : u \in IntArrays /\ Size \in Nat
      BY TableFacts
    <3>2. \A u \in Range(Tables) : Len(given[u]) <= Len(given'[u])
                                 /\ Len(given[u]) \in Nat /\ Len(given'[u]) \in Nat
      BY <2>2, <2>3, <2>5, <3>1
    <3> QED BY <3>1, <3>2 DEF AllWithin
  <2>7. ASSUME NEW t \in Range(Tables), board[RegMap[t].ip] = "open"
        PROVE  address'[t] = RegMap[t].addr + Len(given'[t])
    <3>1. t \in AllNames /\ t \in IntArrays /\ RegMap[t].addr \in Nat
          /\ address[t] = RegMap[t].addr + Len(given[t]) /\ Len(given[t]) \in Nat
      BY <2>2, <2>7, TableFacts DEF TableInv
    <3>2. CASE t = m
      BY <2>1, <2>3, <2>5, <3>1, <3>2 DEF IoTypeOK
    <3>3. CASE t # m
      BY <2>1, <2>5, <3>1, <3>3 DEF IoTypeOK
    <3> QED BY <3>2, <3>3
  <2>8. ASSUME NEW t \in Range(Tables), board[RegMap[t].ip] = "open", AllWithin',
               NEW k \in 1..Len(given'[t])
        PROVE  reg'[TableCell(t, k - 1)] = given'[t][k]
    <3>1. /\ t \in IntArrays /\ RegMap[t].addr \in Nat /\ Size \in Nat
          /\ Len(given'[t]) <= Size /\ Len(given'[t]) \in Nat
          /\ address[t] = RegMap[t].addr + Len(given[t])
      BY <2>3, <2>4, <2>8, TableFacts DEF AllWithin, TableInv
    <3>2. k - 1 \in 0..Size - 1 /\ k \in Nat
      BY <3>1
    <3>3. TableCell(t, k - 1) \in Cells
      BY <3>2, TableFacts
    <3>4. CASE t = m
      <4> DEFINE L == Len(given[m])
      <4>1. L \in Nat /\ k \in 1..(L + Len(s))
        BY <2>2, <2>3, <2>5, <2>8, <3>4
      <4>2. reg'[TableCell(t, k - 1)] =
              IF k - 1 - L \in 0..Len(s) - 1 THEN s[k - 1 - L + 1]
              ELSE reg[TableCell(t, k - 1)]
        BY <2>8, <3>2, <3>4, ArrayWrites
      <4>3. CASE k <= L
        <5>1. k - 1 - L \notin 0..Len(s) - 1 /\ k \in 1..L
          BY <4>1, <4>3
        <5>2. (given[m] \o s)[k] = given[m][k]
          BY <2>2, <4>1, <5>1
        <5>3. reg[TableCell(t, k - 1)] = given[m][k]
          BY <2>6, <2>8, <3>4, <5>1 DEF TableInv
        <5> QED BY <2>5, <3>4, <4>2, <5>1, <5>2, <5>3
      <4>4. CASE k > L
        <5>1. k - 1 - L \in 0..Len(s) - 1 /\ k - 1 - L + 1 = k - L
          BY <2>3, <4>1, <4>4
        <5>2. (given[m] \o s)[k] = s[k - L]
          BY <2>2, <4>1, <4>4
        <5> QED BY <2>5, <3>4, <4>2, <5>1, <5>2
      <4> QED BY <4>1, <4>3, <4>4
    <3>5. CASE t # m
      <4>1. ~(/\ TableCell(t, k - 1).ip = RegMap[m].ip
              /\ TableCell(t, k - 1).addr - address[m] \in 0..Len(s) - 1)
        <5>1. SUFFICES ASSUME RegMap[t].ip = RegMap[m].ip
                       PROVE  (RegMap[t].addr + (k - 1)) - address[m] \notin 0..Len(s) - 1
          BY DEF TableCell
        <5>2. /\ m \in Range(Tables)
              /\ \/ RegMap[t].addr + Size <= RegMap[m].addr
                 \/ RegMap[m].addr + Size <= RegMap[t].addr
          BY <3>5, <5>1, TableAssumption
        <5>3. /\ address[m] = RegMap[m].addr + Len(given[m]) /\ RegMap[m].addr \in Nat
              /\ Len(given[m]) + Len(s) <= Size /\ Len(given[m]) \in Nat
          BY <2>2, <2>5, <2>8, <5>1, <5>2, TableFacts DEF TableInv, AllWithin
        <5>4. Len(s) \in Nat /\ k - 1 \in 0..Size - 1 /\ RegMap[t].addr \in Nat /\ Size \in Nat
          BY <2>3, <3>1, <3>2
        <5> QED BY <5>2, <5>3, <5>4, Apart
      <4>2. reg'[TableCell(t, k - 1)] = reg[TableCell(t, k - 1)]
        BY <2>1, <3>3, <4>1
      <4> QED BY <2>5, <2>6, <2>8, <3>1, <3>5, <4>2 DEF TableInv
    <3> QED BY <3>4, <3>5
  <2> QED BY <2>4, <2>7, <2>8 DEF TableInv
<1> QED BY <1>1, <1>2 DEF PutArray

(* A file whose indexes ascend within the table is put as a whole.         *)
LEMMA WholeFile ==
  ASSUME NEW f \in Files, Ascending(f), NEW s \in Array(f), NEW k \in DOMAIN f
  PROVE  /\ Len(s) = Nord(f) /\ f[k].index \in 0..Size - 1 /\ f[k].index \in 0..Len(s) - 1
         /\ s[f[k].index + 1] = f[k].value
<1> DEFINE Row == [index : Nat, value : SUBSET Bits, full : BOOLEAN]
<1>1. f \in Seq(Row)
  BY ValueAssumption, Zenon
<1>2. Len(f) \in Nat /\ DOMAIN f = 1..Len(f) /\ \A j \in 1..Len(f) : f[j] \in Row
  <2> HIDE DEF Row
  <2> QED BY <1>1
<1>3. \A j \in 1..Len(f) : f[j].index \in Nat
  BY <1>2
<1> HIDE DEF Row
<1>4. Size \in Nat /\ \A j \in 1..Len(f) : f[j].index < Size /\ f[j].full
  BY <1>2, TableAssumption DEF Ascending
<1>5. Beyond(f) = {}
  BY <1>2, <1>3, <1>4 DEF Beyond
<1>6. Read(f) = f
  BY <1>1, <1>5 DEF Read
<1>7. f # <<>> /\ Nord(f) = f[Len(f)].index + 1
  BY <1>2, <1>6 DEF Nord
<1>8. Len(f) \in 1..Len(f) /\ k \in 1..Len(f)
  BY <1>2
<1>9. f[k].index <= f[Len(f)].index
  BY <1>2, <1>3, <1>8 DEF Ascending
<1>10. Nord(f) \in Nat /\ DOMAIN s = 1..Nord(f) /\ s \in Seq(SUBSET Bits)
  <2>1. Nord(f) \in Nat
    BY <1>3, <1>7, <1>8
  <2>2. DOMAIN s = 1..Nord(f)
    BY DEF Array
  <2> QED BY <2>1, <2>2, ArrayIsSeq
<1>11. Len(s) = Nord(f)
  <2>1. Len(s) \in Nat /\ DOMAIN s = 1..Len(s)
    BY <1>10
  <2> QED BY <1>10, <2>1
<1>12. f[k].index \in 0..Size - 1 /\ f[k].index \in 0..Len(s) - 1 /\ f[k].index + 1 \in DOMAIN s
  BY <1>3, <1>4, <1>7, <1>8, <1>9, <1>10, <1>11, SMTT(30)
<1>13. RowsOf(f, f[k].index) = {k}
  BY <1>2, <1>3, <1>4, <1>6, <1>8 DEF RowsOf, Ascending
<1>14. Max({k}) = k
  BY <1>8 DEF Max
<1>15. s[f[k].index + 1] = Element(f, f[k].index)
  <2>1. f[k].index + 1 <= Size /\ (f[k].index + 1) - 1 = f[k].index
    BY <1>3, <1>4, <1>8
  <2> QED BY <1>12, <2>1 DEF Array
<1> QED BY <1>11, <1>12, <1>13, <1>14, <1>15 DEF Element

LEMMA TableInit == Init => TableInv /\ RestoredTables
<1> SUFFICES ASSUME Init PROVE TableInv /\ RestoredTables
  OBVIOUS
<1>1. given = [n \in IntArrays |-> <<>>] /\ last.op = "start"
  BY DEF Init, NoneGiven, NoOp
<1>2. \A t \in Range(Tables) : given[t] = <<>> /\ Len(given[t]) = 0
                             /\ address[t] = RegMap[t].addr /\ RegMap[t].addr \in Nat
  BY <1>1, TableFacts DEF Init, Addresses
<1> QED BY <1>1, <1>2 DEF TableInv, RestoredTables

LEMMA TableNext ==
  IoTypeOK /\ TableInv /\ RestoredTables /\ [Next]_vars => TableInv' /\ RestoredTables'
<1> SUFFICES ASSUME IoTypeOK, TableInv, RestoredTables, [Next]_vars
             PROVE  TableInv' /\ RestoredTables'
  OBVIOUS
<1>1. ASSUME NEW m \in Numbers, writeInt32(m)
      PROVE  TableInv' /\ RestoredTables'
  <2>1. PICK v \in PutValues : writeReg(m, v)
    BY <1>1 DEF writeInt32
  <2>2. UNCHANGED <<board, address, given>> /\ last'.op # "restore"
    BY <1>1 DEF writeInt32, Done
  <2> QED BY <2>1, <2>2, TableQuiet, WriteTables
<1>2. ASSUME NEW m \in Octets, writeOctet(m)
      PROVE  TableInv' /\ RestoredTables'
  <2>1. \E v : writeReg(m, v) \/ reg' = reg
    BY <1>2 DEF writeOctet, writeString
  <2>2. UNCHANGED <<board, address, given>> /\ last'.op # "restore"
    BY <1>2 DEF writeOctet, Done
  <2> QED BY <2>1, <2>2, TableQuiet, WriteTables
<1>3. ASSUME NEW m \in IntArrays, writeInt32Array(m)
      PROVE  TableInv' /\ RestoredTables'
  <2>1. PICK s \in Arrays : PutArray(m, s)
    BY <1>3 DEF writeInt32Array
  <2>2. s \in Seq(SUBSET Bits)
    BY ValueAssumption, Zenon
  <2>3. UNCHANGED board /\ last'.op # "restore"
    BY <1>3 DEF writeInt32Array, Done
  <2> QED BY <2>1, <2>2, <2>3, TableArray DEF RestoredTables
<1>4. ASSUME NEW m \in IntArrays, waveformInitFromFile(m)
      PROVE  TableInv' /\ RestoredTables'
  <2>1. UNCHANGED board
    BY <1>4 DEF waveformInitFromFile
  <2>2. CASE \E f \in Files : file' = f /\ (\E s \in Array(f) : PutArray(m, s))
                            /\ Done("restore", m, {})
    <3>1. PICK f \in Files : file' = f /\ (\E s \in Array(f) : PutArray(m, s))
                           /\ Done("restore", m, {})
      BY <2>2
    <3>2. PICK s \in Array(f) : PutArray(m, s)
      BY <3>1
    <3>3. s \in Seq(SUBSET Bits)
      BY ArrayIsSeq
    <3>4. TableInv'
      BY <2>1, <3>2, <3>3, TableArray
    <3>5. ASSUME m \in Range(Tables), board[RegMap[m].ip] = "open",
                 Ascending(f), Len(given'[m]) <= Nord(f), NEW k \in DOMAIN f
          PROVE  reg'[TableCell(m, f[k].index)] = f[k].value
      <4>1. /\ Len(s) = Nord(f) /\ f[k].index \in 0..Size - 1
            /\ f[k].index \in 0..Len(s) - 1 /\ s[f[k].index + 1] = f[k].value
        BY <3>5, WholeFile
      <4>2. given' = [given EXCEPT ![m] = @ \o s]
        BY <3>2, <3>5 DEF PutArray
      <4>3. given[m] \in Seq(SUBSET Bits) /\ Len(given[m]) \in Nat /\ Len(s) \in Nat
        BY <3>3 DEF TableInv
      <4>4. given'[m] = given[m] \o s /\ Len(given'[m]) = Len(given[m]) + Len(s)
        BY <3>3, <4>2, <4>3 DEF TableInv
      <4>5. Len(given[m]) = 0
        BY <3>5, <4>1, <4>3, <4>4
      <4>6. f[k].index - Len(given[m]) = f[k].index
        BY <4>1, <4>5
      <4> QED BY <3>2, <3>3, <3>5, <4>1, <4>6, ArrayWrites, ZenonT(30)
    <3>6. last'.name = m /\ file' = f
      BY <3>1 DEF Done
    <3>7. Ascending(file)' = Ascending(f) /\ Nord(file)' = Nord(f)
      BY <3>6
    <3> QED BY <2>1, <3>4, <3>5, <3>6, <3>7 DEF RestoredTables
  <2>3. CASE Told(m, "no file") /\ UNCHANGED <<reg, address, given>>
    <3>1. last'.op # "restore"
      BY <2>3 DEF Told
    <3> QED BY <2>1, <2>3, <3>1, TableQuiet
  <2> QED BY <1>4, <2>2, <2>3 DEF waveformInitFromFile
<1>5. CASE Restart
  <2>1. given' = [n \in IntArrays |-> <<>>] /\ last'.op = "start" /\ address' = Addresses
    BY <1>5 DEF Restart, NoneGiven, NoOp
  <2>2. \A t \in Range(Tables) : given'[t] = <<>> /\ Len(given'[t]) = 0
                               /\ address'[t] = RegMap[t].addr /\ RegMap[t].addr \in Nat
    BY <2>1, TableFacts DEF Addresses
  <2> QED BY <2>1, <2>2 DEF TableInv, RestoredTables
<1>6. ASSUME UNCHANGED unread, last'.op = "get"
      PROVE  TableInv' /\ RestoredTables'
  BY <1>6, TableQuiet DEF unread
<1>7. CASE UNCHANGED vars
  BY <1>7 DEF vars, TableInv, AllWithin, RestoredTables
<1>8. CASE Next
  <2>1. ASSUME NEW m, \/ readInt32(m) \/ readOctet(m) \/ readInt32Array(m)
                     \/ readFloat32Array(m) \/ writeFloat32Array(m)
        PROVE  TableInv' /\ RestoredTables'
    BY <1>6, <2>1 DEF readInt32, readOctet, readInt32Array, readFloat32Array,
         writeFloat32Array, Done, Told
  <2> QED BY <1>1, <1>2, <1>3, <1>4, <1>5, <1>8, <2>1 DEF Next
<1> QED BY <1>7, <1>8

(* As long as no table was given more than its length, each holds what it  *)
(* was given, and a restore of an untouched table the whole file.          *)
THEOREM TablesFollow == Spec => []TablesHold
<1> QED BY InitStore, NextStore, TableInit, TableNext, TablesHeld, PTL DEF Spec
=============================================================================
