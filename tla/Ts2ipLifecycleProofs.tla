------------------------- MODULE Ts2ipLifecycleProofs -------------------------
(* Theorems about Ts2ipLifecycle, for any devices, files and table size.   *)
EXTENDS Ts2ipLifecycle, FiniteSetTheorems, WellFoundedInduction, TLAPS

Present   == module \in {"loading", "live"}
Numbered  == probing.step \in {"publish", "count"}
Entry(d)  == d \in bound \/ probing = [dev |-> d, step |-> "count"]

(* What is where while the driver's devices come and go.                   *)
CountInv ==
  /\ probing # Rest => /\ module = "loading" /\ probing.dev \in tried \ bound
                       /\ probing.step # "none" /\ devCount < Cardinality(tried)
  /\ devCount <= Cardinality(tried)
  /\ bound \subseteq tried
  /\ module = "out" => bound = {}

(* The handlers: each was registered with the entry of its device, and     *)
(* what is bound keeps an entry that no probe takes again.                 *)
IrqInv ==
  /\ \A d \in Devices : irq[d] # None => d \in mem
  /\ \A d \in bound :
       /\ irq[d] # None => dInfo[irq[d]].regs = d /\ (Present => irq[d] < devCount)
       /\ drv[d] # None => irq[d] = drv[d]
  /\ probing # Rest =>
       /\ drv[probing.dev] = devCount /\ dInfo[devCount].regs = probing.dev
       /\ probing.step = "irq" => irq[probing.dev] = None /\ probing.dev \in mem
       /\ probing.step \in {"number", "publish", "count"} => irq[probing.dev] = devCount

(* The numbers: no two entries have one, and each in use is that of an     *)
(* entry that is still there.                                              *)
NumberInv ==
  /\ \A s \in Slots : Present /\ devCount <= s /\ dInfo[s].devt # 0 => s = devCount /\ Numbered
  /\ \A s \in Slots : Present /\ dInfo[s].devt # 0 => dInfo[s].devt \in numbers
  /\ \A s, t \in Slots : dInfo[s].devt = dInfo[t].devt /\ dInfo[s].devt # 0 => s = t
  /\ \A m \in numbers : \/ \E d \in bound : drv[d] # None /\ dInfo[drv[d]].devt = m
                        \/ Numbered /\ dInfo[devCount].devt = m

(* The nodes, and the files that were opened through them.                 *)
NodeInv ==
  \A d \in Devices : node[d] # 0 =>
    Entry(d) /\ drv[d] # None /\ irq[d] = drv[d] /\ dInfo[drv[d]].devt = node[d]

FileInv ==
  \A f \in Files : file[f] # Closed =>
    /\ Present /\ file[f].dev \in Devices /\ file[f].slot \in Slots
    /\ Entry(file[f].dev)
    /\ node[file[f].dev] < CharSize => irq[file[f].dev] = file[f].slot

-----------------------------------------------------------------------------
LEMMA MinIsIn ==
  ASSUME NEW S, S \subseteq Nat, S # {}
  PROVE  Min(S) \in S
<1>1. OpToRel(<, Nat) = {ss \in Nat \X Nat : ss[1] < ss[2]}
  BY DEF OpToRel
<1>2. IsWellFoundedOn({ss \in Nat \X Nat : ss[1] < ss[2]}, Nat)
  BY <1>1, NatLessThanWellFounded
<1>3. PICK x \in S : \A y \in S : ~(<<y, x>> \in {ss \in Nat \X Nat : ss[1] < ss[2]})
  BY <1>2, WFMin, Zenon
<1>4. ASSUME NEW y \in S PROVE x <= y
  <2>1. x \in Nat /\ y \in Nat
    OBVIOUS
  <2>2. ~(y < x)
    BY <1>3, <2>1
  <2> QED BY <2>1, <2>2
<1> QED BY <1>4 DEF Min

(* There is an entry for every device that is probed.                      *)
LEMMA Room ==
  ASSUME TypeOK, CountInv
  PROVE  /\ Cardinality(Devices) \in Nat
         /\ Cardinality(tried) \in Nat /\ Cardinality(tried) <= Cardinality(Devices)
         /\ IsFiniteSet(tried)
         /\ probing # Rest => devCount \in Slots /\ devCount < Cardinality(Devices)
<1>1. IsFiniteSet(tried) /\ Cardinality(tried) <= Cardinality(Devices)
  BY DevicesAssumption, FS_Subset DEF TypeOK
<1>2. Cardinality(Devices) \in Nat /\ Cardinality(tried) \in Nat
  BY <1>1, DevicesAssumption, FS_CardinalityType
<1>3. probing # Rest => devCount \in Slots /\ devCount < Cardinality(Devices)
  BY <1>1, <1>2, IpidMaxAssumption DEF TypeOK, CountInv, Slots
<1> QED BY <1>1, <1>2, <1>3

-----------------------------------------------------------------------------
Inv == TypeOK /\ CountInv /\ IrqInv /\ NumberInv /\ NodeInv /\ FileInv

LEMMA InitInv == Init => Inv
<1> SUFFICES ASSUME Init PROVE Inv
  OBVIOUS
<1>1. TypeOK
  BY IpidMaxAssumption, U32Assumption DEF Init, TypeOK, Rest, Blank, Closed
<1>2. CountInv
  BY FS_EmptySet DEF Init, CountInv
<1>3. IrqInv /\ NodeInv /\ FileInv
  BY DEF Init, IrqInv, NodeInv, FileInv
<1>4. NumberInv
  BY DEF Init, NumberInv, Present, Blank
<1> QED BY <1>1, <1>2, <1>3, <1>4 DEF Inv

(* What is in use while it is probed, and while files are open on it.      *)
LEMMA InUse ==
  ASSUME Inv, NEW d \in Devices, Entry(d), irq[d] # None
  PROVE  /\ d \in mem /\ irq[d] \in Slots /\ dInfo[irq[d]].regs = d
         /\ Present => \/ irq[d] < devCount
                       \/ irq[d] = devCount /\ probing = [dev |-> d, step |-> "count"]
<1>1. d \in mem /\ irq[d] \in Slots
  BY DEF Inv, TypeOK, IrqInv
<1>2. CASE d \in bound
  <2>1. dInfo[irq[d]].regs = d /\ (Present => irq[d] < devCount)
    BY <1>2 DEF Inv, IrqInv
  <2> QED BY <1>1, <2>1
<1>3. CASE probing = [dev |-> d, step |-> "count"]
  <2>1. probing # Rest /\ probing.dev = d /\ probing.step = "count"
    BY <1>3 DEF Rest
  <2> QED BY <1>1, <1>3, <2>1 DEF Inv, IrqInv
<1> QED BY <1>2, <1>3 DEF Entry

(* A device that is offered to _probe finds an entry.                      *)
LEMMA Offered ==
  ASSUME Inv, NEW d \in Devices \ tried, probing = Rest
  PROVE  /\ devCount \in Slots
         /\ Cardinality(tried \cup {d}) = Cardinality(tried) + 1
<1>1. /\ Cardinality(Devices) \in Nat /\ Cardinality(tried) \in Nat
      /\ IsFiniteSet(tried) /\ Cardinality(tried) <= Cardinality(Devices)
  BY Room DEF Inv
<1>2. Cardinality(tried) # Cardinality(Devices)
  <2>1. tried \in SUBSET Devices /\ tried # Devices
    BY DEF Inv, TypeOK
  <2> QED BY <2>1, DevicesAssumption, FS_Subset
<1>3. devCount \in Nat /\ devCount <= Cardinality(tried)
  BY IpidMaxAssumption DEF Inv, TypeOK, CountInv
<1>4. devCount \in Slots
  BY <1>1, <1>2, <1>3, IpidMaxAssumption DEF Slots
<1>5. Cardinality(tried \cup {d}) = Cardinality(tried) + 1
  BY <1>1, FS_AddElement
<1> QED BY <1>4, <1>5

LEMMA TypeNext == Inv /\ [Next]_vars => TypeOK'
<1> SUFFICES ASSUME Inv, [Next]_vars PROVE TypeOK'
  OBVIOUS
<1> USE DEF TypeOK, Inv, devs
<1>1. CASE Load \/ Loaded \/ Rmmod \/ Exit
  BY <1>1, IpidMaxAssumption, U32Assumption DEF Load, Loaded, Rmmod, Exit, Blank
<1>2. ASSUME NEW d \in Devices, Probe(d) PROVE TypeOK'
  <2>1. devCount \in Slots
    BY <1>2, Offered DEF Probe
  <2>2. dInfo' \in [Slots -> [regs : Devices \cup {None}, pCl : {"NULL", "class", "ERR_PTR"},
                          isOpen : 0 .. U32 - 1, devt : Majors \cup {0}]]
    BY <1>2, <2>1 DEF Probe
  <2> QED BY <1>2, <2>1, <2>2 DEF Probe, Goto
<1>3. ASSUME NEW d \in Devices, Region(d) \/ RegionFails(d) \/ IrqFails(d) \/ NumberFails(d) PROVE TypeOK'
  BY <1>3 DEF Region, RegionFails, IrqFails, NumberFails, Goto, ProbeEnds, Rest, Cleanup
<1>4. ASSUME NEW d \in Devices, Step(d, "irq") \/ Step(d, "number") \/ Step(d, "publish") \/ Step(d, "count")
      PROVE  probing # Rest /\ probing.dev = d /\ devCount \in Slots
  BY <1>4, Room DEF Step, Rest
<1>5. ASSUME NEW d \in Devices, Irq(d) PROVE TypeOK'
  BY <1>4, <1>5 DEF Irq, Goto
<1>6. ASSUME NEW d \in Devices, Number(d) PROVE TypeOK'
  <2>1. PICK m \in Majors \ numbers : /\ numbers' = numbers \cup {m}
                                     /\ dInfo' = [dInfo EXCEPT ![devCount].devt = m]
    BY <1>6 DEF Number
  <2>2. dInfo' \in [Slots -> [regs : Devices \cup {None}, pCl : {"NULL", "class", "ERR_PTR"},
                          isOpen : 0 .. U32 - 1, devt : Majors \cup {0}]]
    <3>1. devCount \in Slots
      BY <1>4, <1>6 DEF Number
    <3> QED BY <2>1, <3>1
  <2> QED BY <1>6, <2>1, <2>2 DEF Number, Goto
<1>7. ASSUME NEW d \in Devices, Publish(d) PROVE TypeOK'
  BY <1>4, <1>7 DEF Publish, Goto
<1>8. ASSUME NEW d \in Devices, Count(d) PROVE TypeOK'
  BY <1>4, <1>8, IpidMaxAssumption, SMTT(30) DEF Count, ProbeEnds, Rest, Slots
<1>9. ASSUME NEW d \in Devices, Remove(d) \/ RemoveOops(d) PROVE TypeOK'
  BY <1>9, IpidMaxAssumption DEF Remove, RemoveOops, Cleanup
<1>10. ASSUME NEW f \in Files, NEW d \in Devices, Open(f, d) PROVE TypeOK'
  <2>1. Min(Entries(Char(node[d]))) \in Slots
    <3>1. Entries(Char(node[d])) \subseteq Nat /\ Entries(Char(node[d])) # {}
      BY <1>10 DEF Open, Entries, Slots
    <3> QED BY <3>1, MinIsIn DEF Entries
  <2> QED BY <1>10, <2>1, U32Assumption DEF Open
<1>11. \A n \in Int : Wrap(n) \in 0..U32 - 1
  BY U32Assumption DEF Wrap
<1>12. ASSUME NEW f \in Files, Opened(f) \/ CloseEnd(f) PROVE TypeOK'
  <2>1. file[f].slot \in Slots
    BY <1>12 DEF Opened, CloseEnd, FileInv, Closed
  <2>2. PICK n \in 0..U32 - 1 : dInfo' = [dInfo EXCEPT ![file[f].slot].isOpen = n]
    <3>1. dInfo[file[f].slot].isOpen \in Int /\ file[f].saw \in Int
      BY <2>1, U32Assumption
    <3>2. \A n \in {file[f].saw, dInfo[file[f].slot].isOpen} :
            Wrap(n + 1) \in 0..U32 - 1 /\ Wrap(n - 1) \in 0..U32 - 1
      BY <1>11, <3>1
    <3> HIDE DEF TypeOK, Inv
    <3> QED BY <1>12, <3>2 DEF Opened, CloseEnd
  <2>3. dInfo' \in [Slots -> [regs : Devices \cup {None}, pCl : {"NULL", "class", "ERR_PTR"},
                          isOpen : 0 .. U32 - 1, devt : Majors \cup {0}]]
    BY <2>1, <2>2, SMTT(30)
  <2>4. CASE Opened(f)
    <3>1. file' = [file EXCEPT ![f].at = "open"]
      BY <2>4 DEF Opened
    <3>2. file' \in [Files -> [at : {"closed", "opening", "open", "closing"},
                         dev : Devices \cup {None}, slot : Slots \cup {None},
                         saw : 0 .. U32 - 1]]
      BY <3>1
    <3> QED BY <2>3, <2>4, <3>2 DEF Opened
  <2>5. CASE CloseEnd(f)
    <3>1. file' = [file EXCEPT ![f] = Closed] /\ 0 \in 0..U32 - 1
      BY <2>5, U32Assumption DEF CloseEnd
    <3>2. file' \in [Files -> [at : {"closed", "opening", "open", "closing"},
                         dev : Devices \cup {None}, slot : Slots \cup {None},
                         saw : 0 .. U32 - 1]]
      BY <3>1 DEF Closed
    <3> QED BY <2>3, <2>5, <3>2 DEF CloseEnd
  <2> QED BY <1>12, <2>4, <2>5
<1>13. ASSUME NEW f \in Files, Close(f) PROVE TypeOK'
  <2>1. file[f].slot \in Slots
    BY <1>13 DEF Close, FileInv, Closed
  <2>2. dInfo[file[f].slot].isOpen \in 0..U32 - 1
    BY <2>1
  <2>3. file' \in [Files -> [at : {"closed", "opening", "open", "closing"},
                         dev : Devices \cup {None}, slot : Slots \cup {None},
                         saw : 0 .. U32 - 1]]
    <3> DEFINE n == dInfo[file[f].slot].isOpen
    <3>1. CASE n < 1
      <4>1. file' = [file EXCEPT ![f] = Closed] /\ 0 \in 0..U32 - 1
        BY <1>13, <3>1, U32Assumption DEF Close
      <4> QED BY <4>1 DEF Closed
    <3>2. CASE ~(n < 1)
      <4>1. file' = [file EXCEPT ![f] = [file[f] EXCEPT !.at = "closing", !.saw = n]]
        BY <1>13, <3>2 DEF Close
      <4>2. [file[f] EXCEPT !.at = "closing", !.saw = n] \in
              [at : {"closed", "opening", "open", "closing"}, dev : Devices \cup {None},
               slot : Slots \cup {None}, saw : 0 .. U32 - 1]
        <5>1. /\ file[f] \in [at : {"closed", "opening", "open", "closing"},
                         dev : Devices \cup {None}, slot : Slots \cup {None},
                         saw : 0 .. U32 - 1]
              /\ n \in 0..U32 - 1
          BY <2>2
        <5> HIDE DEF n
        <5> QED BY <5>1
      <4> HIDE DEF n
      <4> QED BY <4>1, <4>2
    <3> QED BY <3>1, <3>2
  <2> QED BY <1>13, <2>3 DEF Close
<1>14. CASE UNCHANGED vars
  BY <1>14 DEF vars
<1> QED BY <1>1, <1>2, <1>3, <1>5, <1>6, <1>7, <1>8, <1>9, <1>10, <1>12, <1>13, <1>14 DEF Next

-----------------------------------------------------------------------------
(* The steps, one lemma each.                                              *)
Rest5 == CountInv /\ IrqInv /\ NumberInv /\ NodeInv /\ FileInv

LEMMA LoadInv == Inv /\ Load => Rest5'
<1> SUFFICES ASSUME Inv, Load PROVE Rest5'
  OBVIOUS
<1>1. /\ bound = {} /\ probing = Rest /\ numbers = {} /\ \A d \in Devices : node[d] = 0
      /\ \A f \in Files : file[f] = Closed
  BY DEF Inv, TypeOK, CountInv, NumberInv, NodeInv, FileInv, Load, Numbered, Rest, Entry, Present
<1>2. CountInv'
  BY <1>1, FS_EmptySet DEF Load, devs, CountInv, Rest
<1>3. IrqInv'
  BY <1>1 DEF Load, devs, Inv, IrqInv, Rest
<1>4. NumberInv'
  BY <1>1, FS_EmptySet DEF Load, devs, NumberInv, Blank, Numbered, Rest
<1>5. NodeInv' /\ FileInv'
  BY <1>1 DEF Load, devs, NodeInv, FileInv
<1> QED BY <1>2, <1>3, <1>4, <1>5 DEF Rest5

LEMMA ModuleInv == Inv /\ (Loaded \/ Rmmod \/ Exit) => Rest5'
<1> SUFFICES ASSUME Inv, Loaded \/ Rmmod \/ Exit PROVE Rest5'
  OBVIOUS
<1>1. CountInv'
  BY DEF Loaded, Rmmod, Exit, devs, Inv, CountInv
<1>2. IrqInv'
  BY DEF Loaded, Rmmod, Exit, devs, Inv, IrqInv, Present
<1>3. NumberInv'
  BY DEF Loaded, Rmmod, Exit, devs, Inv, NumberInv, Present, Numbered
<1>4. NodeInv'
  BY DEF Loaded, Rmmod, Exit, devs, Inv, NodeInv, Entry
<1>5. FileInv'
  BY DEF Loaded, Rmmod, Exit, devs, Inv, FileInv, Entry, Present
<1> QED BY <1>1, <1>2, <1>3, <1>4, <1>5 DEF Rest5

LEMMA ProbeInv ==
  ASSUME Inv, NEW d \in Devices, Probe(d)
  PROVE  Rest5'
<1>1. /\ module = "loading" /\ module' = "loading" /\ probing = Rest /\ d \notin tried
      /\ tried' = tried \cup {d} /\ dInfo' = [dInfo EXCEPT ![devCount].regs = d]
      /\ drv' = [drv EXCEPT ![d] = devCount] /\ probing' = [dev |-> d, step |-> "region"]
      /\ UNCHANGED <<devCount, bound, mem, irq, numbers, node, file>>
  BY DEF Probe, Goto
<1>2. /\ devCount \in Slots /\ Cardinality(tried') = Cardinality(tried) + 1
      /\ Cardinality(tried) \in Nat /\ devCount \in Nat
  BY <1>1, Offered, Room DEF Inv, Slots
<1>3. d \notin bound /\ ~Numbered /\ ~Numbered' /\ Present /\ Present'
  BY <1>1 DEF Inv, CountInv, Numbered, Rest, Present
<1>4. \A s \in Slots : /\ dInfo'[s].devt = dInfo[s].devt
                       /\ dInfo'[s].regs = IF s = devCount THEN d ELSE dInfo[s].regs
  BY <1>1, <1>2 DEF Inv, TypeOK
<1>5. \A e \in bound : irq[e] # None => irq[e] \in Slots /\ irq[e] # devCount
  BY <1>2, <1>3 DEF Inv, TypeOK, IrqInv, Slots
<1>6. \A e \in Devices : Entry(e) => e \in bound
  BY <1>1 DEF Entry, Rest
<1>7. CountInv'
  BY <1>1, <1>2, <1>3 DEF Inv, CountInv, Rest
<1>8. IrqInv'
  <2>1. \A e \in bound : irq[e] # None => dInfo'[irq[e]].regs = e
    BY <1>4, <1>5 DEF Inv, IrqInv
  <2> QED BY <1>1, <1>2, <1>3, <1>4, <2>1 DEF Inv, TypeOK, IrqInv, Present, Rest
<1>9. NumberInv'
  <2>1. \A e \in bound : drv'[e] = drv[e] /\ (drv[e] # None => drv[e] \in Slots)
    BY <1>1, <1>3 DEF Inv, TypeOK
  <2>2. \A e \in bound : drv[e] # None => dInfo'[drv[e]].devt = dInfo[drv[e]].devt
    BY <1>4, <2>1
  <2> QED BY <1>1, <1>3, <1>4, <2>1, <2>2 DEF Inv, NumberInv
<1>10. NodeInv'
  <2>1. \A e \in Devices : node[e] # 0 => e \in bound /\ drv'[e] = drv[e] /\ drv[e] \in Slots
    BY <1>1, <1>3, <1>6 DEF Inv, TypeOK, NodeInv
  <2> QED BY <1>1, <1>4, <2>1 DEF Inv, NodeInv, Entry
<1>11. FileInv'
  BY <1>1, <1>6 DEF Inv, FileInv, Entry, Present
<1> QED BY <1>7, <1>8, <1>9, <1>10, <1>11 DEF Rest5

(* A step of probe that leaves the entry and the number alone.             *)
LEMMA RegionInv ==
  ASSUME Inv, NEW d \in Devices, Region(d) \/ RegionFails(d) \/ Irq(d) \/ IrqFails(d)
  PROVE  Rest5'
<1>1. /\ probing # Rest /\ probing.dev = d /\ module = "loading" /\ d \notin bound /\ d \in tried
      /\ probing.step \in {"region", "irq"} /\ devCount \in Slots
      /\ UNCHANGED <<module, tried, dInfo, devCount, numbers, node, file>>
  BY Room DEF Region, RegionFails, Irq, IrqFails, Step, Rest, Inv, CountInv
<1>2. \/ probing' = Rest
      \/ probing' = [dev |-> d, step |-> "irq"] /\ Region(d)
      \/ probing' = [dev |-> d, step |-> "number"] /\ Irq(d)
  BY DEF Region, RegionFails, Irq, IrqFails, Goto, ProbeEnds
<1>3. ~Numbered /\ ~Numbered' /\ Present /\ Present'
  BY <1>1, <1>2 DEF Numbered, Present, Rest
<1>4. bound \subseteq bound' /\ bound' \subseteq bound \cup {d}
      /\ \A e \in Devices : Entry(e) => e # d /\ e \in bound /\ e \in bound'
  BY <1>1 DEF Region, RegionFails, Irq, IrqFails, Entry, Rest
<1>5. /\ \A e \in Devices \ {d} : /\ drv'[e] = drv[e] /\ irq'[e] = irq[e]
                                  /\ e \in mem' <=> e \in mem
      /\ drv'[d] \in {drv[d], None}
  BY DEF Region, RegionFails, Irq, IrqFails, Inv, TypeOK
<1>6. node[d] = 0
  BY <1>4 DEF Inv, NodeInv
<1>7. CountInv'
  <2>1. probing' # Rest => bound' = bound /\ probing'.dev = d /\ probing'.step # "none"
    BY <1>2 DEF Region, Irq, Rest
  <2> QED BY <1>1, <1>4, <2>1 DEF Inv, CountInv
<1>8. /\ irq'[d] # None => d \in mem'
      /\ d \in bound' => irq'[d] = None /\ drv'[d] = None
      /\ probing' # Rest => /\ drv'[d] = devCount
                            /\ probing'.step = "irq" => irq'[d] = None /\ d \in mem'
                            /\ probing'.step = "number" => irq'[d] = devCount
  <2>1. CASE Region(d)
    <3>1. probing' = [dev |-> d, step |-> "irq"] /\ irq[d] = None
          /\ d \in mem' /\ UNCHANGED <<irq, drv, bound>>
      BY <2>1 DEF Region, Goto, Inv, IrqInv
    <3> QED BY <1>1, <3>1 DEF Inv, IrqInv
  <2>2. CASE RegionFails(d)
    BY <1>1, <2>2 DEF RegionFails, ProbeEnds, Inv, IrqInv
  <2>3. CASE Irq(d)
    <3>1. /\ probing' = [dev |-> d, step |-> "number"] /\ irq'[d] = devCount /\ d \in mem
          /\ UNCHANGED <<drv, bound, mem>>
      BY <1>1, <2>3 DEF Irq, Goto, Step, Inv, TypeOK, IrqInv
    <3> QED BY <1>1, <3>1 DEF Inv, IrqInv
  <2>4. CASE IrqFails(d)
    <3>1. probing.step = "irq"
      BY <2>4 DEF IrqFails, Step
    <3>2. irq'[d] = None /\ drv'[d] = None /\ probing' = Rest
      BY <1>1, <2>4, <3>1 DEF IrqFails, ProbeEnds, Inv, IrqInv, TypeOK
    <3> QED BY <3>2
  <2> QED BY <2>1, <2>2, <2>3, <2>4
<1>9. IrqInv'
  BY <1>1, <1>2, <1>3, <1>4, <1>5, <1>8 DEF Inv, TypeOK, IrqInv, Rest
<1>10. NumberInv'
  BY <1>1, <1>3, <1>4, <1>5 DEF Inv, TypeOK, NumberInv
<1>11. NodeInv'
  BY <1>1, <1>4, <1>5, <1>6 DEF Inv, NodeInv, Entry
<1>12. FileInv'
  BY <1>1, <1>3, <1>4, <1>5 DEF Inv, FileInv, Entry
<1> QED BY <1>7, <1>9, <1>10, <1>11, <1>12 DEF Rest5

LEMMA NumberStep ==
  ASSUME Inv, NEW d \in Devices, Number(d)
  PROVE  Rest5'
<1>0. PICK m \in Majors \ numbers : /\ numbers' = numbers \cup {m}
                                   /\ dInfo' = [dInfo EXCEPT ![devCount].devt = m]
  BY DEF Number
<1>1. /\ probing = [dev |-> d, step |-> "number"] /\ probing # Rest /\ ~Numbered
      /\ probing.dev = d /\ probing.step = "number"
  BY DEF Number, Step, Rest, Numbered
<1>2. /\ module = "loading" /\ d \notin bound /\ d \in tried /\ devCount \in Slots /\ Present
      /\ devCount \in Nat
  BY <1>1, Room DEF Inv, CountInv, Present, Slots
<1>3. m \in Majors \ numbers /\ m # 0
  BY <1>0, MajorsAssumption
<1>4. /\ numbers' = numbers \cup {m}
      /\ dInfo' = [dInfo EXCEPT ![devCount].devt = m]
      /\ probing' = [dev |-> d, step |-> "publish"]
      /\ UNCHANGED <<module, tried, devCount, drv, bound, mem, irq, node, file>>
  BY <1>0 DEF Number, Goto
<1>5. probing' # Rest /\ Numbered' /\ Present' /\ probing'.dev = d /\ probing'.step = "publish"
  BY <1>2, <1>4 DEF Rest, Numbered, Present
<1>6. \A s \in Slots : /\ dInfo'[s].regs = dInfo[s].regs
                       /\ dInfo'[s].devt = IF s = devCount THEN m ELSE dInfo[s].devt
  BY <1>2, <1>4 DEF Inv, TypeOK
<1>7. \A e \in Devices : Entry(e) => e \in bound /\ e # d
  BY <1>1, <1>2 DEF Entry
<1>8. \A e \in bound : /\ irq[e] # None => irq[e] \in Slots /\ irq[e] # devCount
                       /\ drv[e] # None => drv[e] \in Slots /\ drv[e] # devCount
  BY <1>2 DEF Inv, TypeOK, IrqInv, Slots
<1>9. CountInv'
  BY <1>1, <1>2, <1>4, <1>5 DEF Inv, CountInv
<1>10. IrqInv'
  <2>1. \A e \in bound : irq[e] # None => dInfo'[irq[e]].regs = e
    BY <1>6, <1>8 DEF Inv, IrqInv
  <2>2. dInfo'[devCount].regs = d /\ drv[d] = devCount /\ irq[d] = devCount
    BY <1>1, <1>2, <1>6 DEF Inv, IrqInv
  <2> QED BY <1>2, <1>4, <1>5, <2>1, <2>2 DEF Inv, IrqInv
<1>11. NumberInv'
  <2>1. \A e \in bound : drv[e] # None => dInfo'[drv[e]].devt = dInfo[drv[e]].devt
    BY <1>6, <1>8
  <2>2. \A n \in numbers' : \/ \E e \in bound' : drv'[e] # None /\ dInfo'[drv'[e]].devt = n
                            \/ Numbered' /\ dInfo'[devCount'].devt = n
    BY <1>1, <1>2, <1>4, <1>5, <1>6, <2>1 DEF Inv, NumberInv
  <2>4. \A s \in Slots : devCount <= s /\ dInfo'[s].devt # 0 => s = devCount
    BY <1>1, <1>2, <1>6 DEF Inv, NumberInv
  <2>5. \A s \in Slots : dInfo[s].devt # 0 => dInfo[s].devt \in numbers
    BY <1>2 DEF Inv, NumberInv
  <2>6. \A s \in Slots : dInfo'[s].devt # 0 => dInfo'[s].devt \in numbers'
    BY <1>4, <1>6, <2>5
  <2>7. \A s, t \in Slots : dInfo'[s].devt = dInfo'[t].devt /\ dInfo'[s].devt # 0 => s = t
    BY <1>3, <1>6, <2>5 DEF Inv, NumberInv
  <2> QED BY <1>4, <1>5, <2>2, <2>4, <2>6, <2>7 DEF NumberInv
<1>12. NodeInv'
  <2>1. \A e \in Devices : node[e] # 0 => dInfo'[drv[e]].devt = node[e]
    BY <1>6, <1>7, <1>8 DEF Inv, NodeInv
  <2> QED BY <1>4, <1>7, <2>1 DEF Inv, NodeInv, Entry
<1>13. FileInv'
  BY <1>4, <1>5, <1>7 DEF Inv, FileInv, Entry
<1> QED BY <1>9, <1>10, <1>11, <1>12, <1>13 DEF Rest5

LEMMA NumberFailsInv ==
  ASSUME Inv, NEW d \in Devices, NumberFails(d)
  PROVE  Rest5'
<1>1. /\ probing = [dev |-> d, step |-> "number"] /\ probing # Rest /\ ~Numbered
      /\ probing.dev = d /\ probing.step = "number"
  BY DEF NumberFails, Step, Rest, Numbered
<1>2. /\ module = "loading" /\ d \notin bound /\ devCount \in Slots /\ Present /\ devCount \in Nat
  BY <1>1, Room DEF Inv, CountInv, Present, Slots
<1>3. /\ numbers' = numbers \ {dInfo[devCount].devt} /\ node' = [node EXCEPT ![d] = 0]
      /\ drv' = [drv EXCEPT ![d] = None] /\ probing' = Rest
      /\ UNCHANGED <<module, tried, dInfo, devCount, bound, mem, irq, file>>
  BY DEF NumberFails, Cleanup, ProbeEnds
<1>4. dInfo[devCount].devt = 0
  BY <1>1, <1>2 DEF Inv, NumberInv
<1>5. numbers' = numbers
  BY <1>3, <1>4, MajorsAssumption DEF Inv, TypeOK
<1>6. ~Numbered' /\ Present'
  BY <1>2, <1>3 DEF Numbered, Rest, Present
<1>7. \A e \in Devices : Entry(e) => e \in bound /\ e # d
  BY <1>1, <1>2 DEF Entry
<1>8. \A e \in Devices \ {d} : drv'[e] = drv[e] /\ node'[e] = node[e]
  BY <1>3 DEF Inv, TypeOK
<1>9. node'[d] = 0
  BY <1>3 DEF Inv, TypeOK
<1>10. CountInv'
  BY <1>3 DEF Inv, CountInv
<1>11. IrqInv'
  BY <1>2, <1>3, <1>6, <1>8 DEF Inv, TypeOK, IrqInv, Present
<1>12. NumberInv'
  <2>1. \A e \in bound : drv'[e] = drv[e]
    BY <1>2, <1>8 DEF Inv, TypeOK
  <2>2. \A n \in numbers : \E e \in bound : drv[e] # None /\ dInfo[drv[e]].devt = n
    BY <1>1 DEF Inv, NumberInv
  <2>3. \A n \in numbers' : \E e \in bound' : drv'[e] # None /\ dInfo'[drv'[e]].devt = n
    BY <1>3, <1>5, <2>1, <2>2
  <2>4. /\ \A s \in Slots : ~(devCount <= s /\ dInfo[s].devt # 0)
        /\ \A s \in Slots : dInfo[s].devt # 0 => dInfo[s].devt \in numbers
        /\ \A s, t \in Slots : dInfo[s].devt = dInfo[t].devt /\ dInfo[s].devt # 0 => s = t
    BY <1>1, <1>2 DEF Inv, NumberInv
  <2> QED BY <1>3, <1>5, <1>6, <2>3, <2>4 DEF NumberInv
<1>13. NodeInv'
  BY <1>3, <1>7, <1>8, <1>9 DEF Inv, NodeInv, Entry
<1>14. FileInv'
  BY <1>3, <1>6, <1>7 DEF Inv, FileInv, Entry
<1> QED BY <1>10, <1>11, <1>12, <1>13, <1>14 DEF Rest5

LEMMA PublishInv ==
  ASSUME Inv, NEW d \in Devices, Publish(d)
  PROVE  Rest5'
<1>1. /\ probing = [dev |-> d, step |-> "publish"] /\ probing # Rest /\ Numbered
      /\ probing.dev = d /\ probing.step = "publish"
  BY DEF Publish, Step, Rest, Numbered
<1>2. /\ module = "loading" /\ d \notin bound /\ d \in tried /\ devCount \in Slots /\ Present
      /\ irq[d] = devCount /\ drv[d] = devCount /\ devCount # None
  BY <1>1, Room, DevicesAssumption DEF Inv, CountInv, IrqInv, Present
<1>3. PICK class \in {"class", "ERR_PTR"}, made \in BOOLEAN :
        /\ dInfo' = [dInfo EXCEPT ![devCount].pCl = class]
        /\ node' = [node EXCEPT ![d] = IF made /\ class = "class" THEN dInfo[devCount].devt ELSE 0]
  BY DEF Publish
<1>4. /\ probing' = [dev |-> d, step |-> "count"]
      /\ UNCHANGED <<module, tried, devCount, drv, bound, mem, irq, numbers, file>>
  BY DEF Publish, Goto
<1>5. probing' # Rest /\ Numbered' /\ Present' /\ probing'.dev = d /\ probing'.step = "count"
  BY <1>2, <1>4 DEF Rest, Numbered, Present
<1>6. \A s \in Slots : dInfo'[s].regs = dInfo[s].regs /\ dInfo'[s].devt = dInfo[s].devt
  BY <1>2, <1>3 DEF Inv, TypeOK
<1>7. \A e \in Devices : Entry(e) => e \in bound /\ e # d
  BY <1>1, <1>2 DEF Entry
<1>8. \A e \in Devices : /\ irq[e] # None => irq[e] \in Slots
                         /\ drv[e] # None => drv[e] \in Slots
  BY DEF Inv, TypeOK
<1>9. CountInv'
  BY <1>1, <1>4, <1>5 DEF Inv, CountInv
<1>10. IrqInv'
  <2>1. \A e \in bound : irq[e] # None => dInfo'[irq[e]].regs = e
    BY <1>6, <1>8 DEF Inv, TypeOK, IrqInv
  <2>2. dInfo'[devCount].regs = d
    BY <1>1, <1>2, <1>6 DEF Inv, IrqInv
  <2> QED BY <1>2, <1>4, <1>5, <2>1, <2>2 DEF Inv, IrqInv, Present
<1>11. NumberInv'
  <2>1. \A e \in bound : drv[e] # None => dInfo'[drv[e]].devt = dInfo[drv[e]].devt
    BY <1>6, <1>8 DEF Inv, TypeOK
  <2> QED BY <1>1, <1>2, <1>4, <1>5, <1>6, <2>1 DEF Inv, NumberInv
<1>12. NodeInv'
  <2>1. \A e \in Devices \ {d} : node'[e] = node[e]
    BY <1>3 DEF Inv, TypeOK
  <2>2. \A e \in Devices \ {d} : node[e] # 0 =>
          e \in bound /\ drv[e] # None /\ irq[e] = drv[e] /\ dInfo'[drv[e]].devt = node[e]
    BY <1>6, <1>7, <1>8 DEF Inv, NodeInv
  <2>3. node'[d] # 0 => dInfo'[devCount].devt = node'[d]
    BY <1>2, <1>3, <1>6 DEF Inv, TypeOK
  <2> QED BY <1>2, <1>4, <2>1, <2>2, <2>3 DEF NodeInv, Entry
<1>13. FileInv'
  <2>1. \A e \in Devices \ {d} : node'[e] = node[e]
    BY <1>3 DEF Inv, TypeOK
  <2> QED BY <1>4, <1>5, <1>7, <2>1 DEF Inv, FileInv, Entry
<1> QED BY <1>9, <1>10, <1>11, <1>12, <1>13 DEF Rest5

LEMMA CountStep ==
  ASSUME Inv, NEW d \in Devices, Count(d)
  PROVE  Rest5'
<1>1. /\ probing = [dev |-> d, step |-> "count"] /\ probing # Rest /\ Numbered
      /\ probing.dev = d /\ probing.step = "count"
  BY DEF Count, Step, Rest, Numbered
<1>2. /\ module = "loading" /\ d \notin bound /\ d \in tried /\ devCount \in Slots /\ Present
      /\ irq[d] = devCount /\ drv[d] = devCount /\ devCount \in Nat
      /\ dInfo[devCount].regs = d /\ Cardinality(tried) \in Nat
  BY <1>1, Room DEF Inv, CountInv, IrqInv, Present, Slots
<1>3. /\ devCount' = devCount + 1 /\ bound' = bound \cup {d} /\ probing' = Rest
      /\ UNCHANGED <<module, tried, dInfo, drv, mem, irq, numbers, node, file>>
  BY DEF Count, ProbeEnds
<1>4. ~Numbered' /\ Present'
  BY <1>2, <1>3 DEF Rest, Numbered, Present
<1>5. \A e \in Devices : Entry(e) => e \in bound'
  BY <1>1, <1>3 DEF Entry
<1>6. CountInv'
  BY <1>1, <1>2, <1>3 DEF Inv, TypeOK, CountInv
<1>7. IrqInv'
  <2>1. \A e \in bound : irq[e] # None => irq[e] \in Nat /\ irq[e] < devCount
    BY <1>2 DEF Inv, TypeOK, IrqInv, Slots
  <2> QED BY <1>2, <1>3, <2>1 DEF Inv, TypeOK, IrqInv
<1>8. NumberInv'
  <2>1. drv[d] # None
    BY <1>2, DevicesAssumption
  <2>2. \A s \in Slots : s \in Nat
    BY DEF Slots
  <2>3. ASSUME NEW s \in Slots, devCount + 1 <= s, dInfo[s].devt # 0 PROVE FALSE
    <3>0. \A t \in Slots : devCount <= t /\ dInfo[t].devt # 0 => t = devCount
      BY <1>2 DEF Inv, NumberInv
    <3>1. s = devCount
      <4>1. s \in Nat /\ devCount \in Nat
        BY <1>2, <2>2
      <4>2. devCount <= s
        BY <2>3, <4>1
      <4> QED BY <2>3, <3>0, <4>2
    <3>2. devCount + 1 <= devCount
      BY <2>3, <3>1
    <3>3. devCount \in Nat
      BY <1>2
    <3> QED BY ONLY <3>2, <3>3
  <2>4. \A m \in numbers : \E e \in bound' : drv[e] # None /\ dInfo[drv[e]].devt = m
    BY <1>2, <1>3, <2>1 DEF Inv, NumberInv
  <2>5. /\ \A s \in Slots : dInfo[s].devt # 0 => dInfo[s].devt \in numbers
        /\ \A s, t \in Slots : dInfo[s].devt = dInfo[t].devt /\ dInfo[s].devt # 0 => s = t
    BY <1>1, <1>2 DEF Inv, NumberInv
  <2> QED BY <1>3, <1>4, <2>3, <2>4, <2>5 DEF NumberInv
<1>9. NodeInv'
  BY <1>3, <1>5 DEF Inv, NodeInv, Entry
<1>10. FileInv'
  BY <1>3, <1>4, <1>5 DEF Inv, FileInv, Entry
<1> QED BY <1>6, <1>7, <1>8, <1>9, <1>10 DEF Rest5

LEMMA RemoveInv ==
  ASSUME Inv, NEW d \in Devices, Remove(d)
  PROVE  Rest5'
<1> DEFINE s == drv[d]
<1>1. /\ module = "going" /\ d \in bound /\ s # None
      /\ numbers' = numbers \ {dInfo[s].devt} /\ node' = [node EXCEPT ![d] = 0]
      /\ irq' = [irq EXCEPT ![d] = None] /\ mem' = mem \ {d}
      /\ drv' = [drv EXCEPT ![d] = None] /\ bound' = bound \ {d} /\ devCount' = 0
      /\ UNCHANGED <<module, tried, probing, dInfo, file>>
  BY DEF Remove, Cleanup
<1>2. ~Present /\ ~Present' /\ probing = Rest /\ ~Numbered /\ ~Numbered'
  BY <1>1 DEF Inv, CountInv, Present, Numbered, Rest
<1>3. \A e \in Devices \ {d} : drv'[e] = drv[e] /\ irq'[e] = irq[e] /\ node'[e] = node[e]
  BY <1>1 DEF Inv, TypeOK
<1>4. drv'[d] = None /\ irq'[d] = None /\ node'[d] = 0
  BY <1>1 DEF Inv, TypeOK
<1>5. \A e \in bound' : e \in Devices \ {d} /\ e \in bound
  BY <1>1 DEF Inv, TypeOK
<1>6. \A e \in Devices \ {d} : Entry(e) => Entry(e)'
  BY <1>1 DEF Entry
<1> HIDE DEF s
<1>7. CountInv'
  <2>1. Cardinality(tried) \in Nat
    BY Room DEF Inv
  <2> QED BY <1>1, <1>2, <2>1 DEF Inv, CountInv
<1>8. IrqInv'
  <2>1. \A e \in Devices : irq'[e] # None => e \in mem'
    BY <1>1, <1>3, <1>4 DEF Inv, IrqInv
  <2>2. \A e \in bound' : /\ irq'[e] # None => dInfo[irq'[e]].regs = e
                          /\ drv'[e] # None => irq'[e] = drv'[e]
    BY <1>3, <1>5 DEF Inv, IrqInv
  <2> QED BY <1>1, <1>2, <2>1, <2>2 DEF IrqInv
<1>9. NumberInv'
  <2>1. \A m \in numbers : \E e \in bound : drv[e] # None /\ dInfo[drv[e]].devt = m
    BY <1>2 DEF Inv, NumberInv
  <2>2. ASSUME NEW m \in numbers' PROVE \E e \in bound' : drv'[e] # None /\ dInfo[drv'[e]].devt = m
    <3>1. PICK e \in bound : drv[e] # None /\ dInfo[drv[e]].devt = m
      BY <1>1, <2>1
    <3>2. e # d
      BY <1>1, <3>1 DEF s
    <3> QED BY <1>1, <1>3, <1>5, <3>1, <3>2 DEF Inv, TypeOK
  <2> QED BY <1>1, <1>2, <2>2 DEF Inv, NumberInv
<1>10. NodeInv'
  BY <1>1, <1>3, <1>4, <1>6 DEF Inv, NodeInv
<1>11. FileInv'
  BY <1>1, <1>2 DEF Inv, FileInv
<1> QED BY <1>7, <1>8, <1>9, <1>10, <1>11 DEF Rest5

LEMMA RemoveOopsInv ==
  ASSUME Inv, NEW d \in Devices, RemoveOops(d)
  PROVE  Rest5'
<1>1. /\ module = "going" /\ module' = "oops" /\ devCount' = 0
      /\ UNCHANGED <<tried, probing, dInfo, drv, bound, mem, irq, numbers, node, file>>
  BY DEF RemoveOops, devs
<1>2. ~Present /\ ~Present' /\ probing = Rest /\ ~Numbered /\ ~Numbered'
  BY <1>1 DEF Inv, CountInv, Present, Numbered, Rest
<1>3. CountInv'
  <2>1. Cardinality(tried) \in Nat
    BY Room DEF Inv
  <2> QED BY <1>1, <1>2, <2>1 DEF Inv, CountInv
<1>4. IrqInv' /\ NumberInv'
  BY <1>1, <1>2 DEF Inv, IrqInv, NumberInv
<1>5. NodeInv' /\ FileInv'
  BY <1>1, <1>2 DEF Inv, NodeInv, FileInv, Entry
<1> QED BY <1>3, <1>4, <1>5 DEF Rest5

(* No two entries have one number: get_idByMajor finds the device's own,   *)
(* unless the number lost bits on its way there.                           *)
LEMMA OpenInv ==
  ASSUME Inv, NEW f \in Files, NEW d \in Devices, Open(f, d)
  PROVE  Rest5'
<1> DEFINE s == Min(Entries(Char(node[d])))
<1>1. /\ Present /\ node[d] # 0 /\ Entries(Char(node[d])) # {}
      /\ file' = [file EXCEPT ![f] = [at |-> "opening", dev |-> d, slot |-> s, saw |-> 0]]
      /\ UNCHANGED <<module, tried, probing, dInfo, devCount, drv, bound, mem, irq, numbers, node>>
  BY DEF Open, Present, devs
<1>2. s \in Slots /\ dInfo[s].devt = Char(node[d])
  <2>1. Entries(Char(node[d])) \subseteq Nat
    BY DEF Entries, Slots
  <2> QED BY <1>1, <2>1, MinIsIn DEF Entries
<1>3. Entry(d) /\ irq[d] = drv[d] /\ drv[d] \in Slots /\ dInfo[drv[d]].devt = node[d]
  BY <1>1 DEF Inv, TypeOK, NodeInv
<1>4. node[d] < CharSize => irq[d] = s
  <2>1. node[d] \in Nat
    <3>1. node \in [Devices -> Majors \cup {0}]
      BY Zenon DEF Inv, TypeOK
    <3>2. node[d] \in Majors \cup {0}
      BY <3>1, Zenon
    <3>3. Majors \cup {0} \subseteq Nat
      BY MajorsAssumption
    <3> QED BY <3>2, <3>3, Zenon
  <2>2. node[d] < CharSize => Char(node[d]) = node[d]
    BY <2>1, CharAssumption DEF Char
  <2> QED BY <1>1, <1>2, <1>3, <2>2 DEF Inv, NumberInv
<1> HIDE DEF s
<1>5. CountInv' /\ IrqInv' /\ NumberInv' /\ NodeInv'
  <2>1. CountInv' /\ NodeInv'
    BY <1>1 DEF Inv, CountInv, NodeInv, Entry
  <2>2. IrqInv' /\ NumberInv'
    BY <1>1 DEF Inv, IrqInv, NumberInv, Present, Numbered
  <2> QED BY <2>1, <2>2
<1>6. FileInv'
  <2>1. \A e \in Devices : Entry(e)' <=> Entry(e)
    BY <1>1 DEF Entry
  <2>2. /\ file'[f] = [at |-> "opening", dev |-> d, slot |-> s, saw |-> 0]
        /\ \A g \in Files \ {f} : file'[g] = file[g]
    BY <1>1 DEF Inv, TypeOK
  <2>3. Present'
    BY <1>1 DEF Present
  <2> QED BY <1>1, <1>2, <1>3, <1>4, <2>1, <2>2, <2>3 DEF Inv, FileInv
<1> QED BY <1>5, <1>6 DEF Rest5

(* A step of a file that is not closed: of the table, isOpen only changes. *)
LEMMA FileInvStep ==
  ASSUME Inv, NEW f \in Files, Opened(f) \/ Close(f) \/ CloseEnd(f)
  PROVE  Rest5'
<1>1. /\ file[f] # Closed
      /\ UNCHANGED <<module, tried, probing, devCount, drv, bound, mem, irq, numbers, node>>
  BY DEF Opened, Close, CloseEnd, Closed, devs
<1>2. \A s \in Slots : dInfo'[s].regs = dInfo[s].regs /\ dInfo'[s].devt = dInfo[s].devt
  <2>1. file[f].slot \in Slots
    BY <1>1 DEF Inv, FileInv
  <2>2. \/ dInfo' = dInfo
        \/ \E n : dInfo' = [dInfo EXCEPT ![file[f].slot].isOpen = n]
    BY DEF Opened, Close, CloseEnd
  <2>3. ASSUME NEW n, dInfo' = [dInfo EXCEPT ![file[f].slot].isOpen = n], NEW s \in Slots
        PROVE  dInfo'[s].regs = dInfo[s].regs /\ dInfo'[s].devt = dInfo[s].devt
    <3>1. dInfo'[s] = IF s = file[f].slot THEN [dInfo[s] EXCEPT !.isOpen = n] ELSE dInfo[s]
      BY <2>1, <2>3 DEF Inv, TypeOK
    <3>2. dInfo[s] \in [regs : Devices \cup {None}, pCl : {"NULL", "class", "ERR_PTR"},
                       isOpen : 0 .. U32 - 1, devt : Majors \cup {0}]
      BY DEF Inv, TypeOK
    <3> QED BY <3>1, <3>2
  <2> QED BY <2>2, <2>3
<1>3. \A g \in Files : file'[g] # Closed =>
        file[g] # Closed /\ file'[g].dev = file[g].dev /\ file'[g].slot = file[g].slot
  <2>1. \A g \in Files \ {f} : file'[g] = file[g]
    BY DEF Opened, Close, CloseEnd, Inv, TypeOK
  <2>2. file'[f] # Closed => file'[f].dev = file[f].dev /\ file'[f].slot = file[f].slot
    <3>1. file \in [Files -> [at : {"closed", "opening", "open", "closing"},
                             dev : Devices \cup {None}, slot : Slots \cup {None},
                             saw : 0 .. U32 - 1]]
      BY DEF Inv, TypeOK
    <3>2. CASE Opened(f)
      BY <3>1, <3>2 DEF Opened
    <3>3. CASE Close(f)
      <4> DEFINE n == dInfo[file[f].slot].isOpen
      <4>1. file'[f] = IF n < 1 THEN Closed ELSE [file[f] EXCEPT !.at = "closing", !.saw = n]
        BY <3>1, <3>3 DEF Close
      <4> HIDE DEF n
      <4> QED BY <3>1, <4>1
    <3>4. CASE CloseEnd(f)
      BY <3>1, <3>4 DEF CloseEnd
    <3> QED BY <3>2, <3>3, <3>4
  <2> QED BY <1>1, <2>1, <2>2
<1>4. \A e \in Devices : /\ irq[e] # None => irq[e] \in Slots
                         /\ drv[e] # None => drv[e] \in Slots
  BY DEF Inv, TypeOK
<1>5. bound \subseteq Devices
  BY DEF Inv, TypeOK
<1>6. probing # Rest => devCount \in Slots
  BY Room DEF Inv
<1>7. CountInv'
  BY <1>1 DEF Inv, CountInv
<1>8. IrqInv'
  <2>1. \A e \in bound : irq[e] # None => dInfo'[irq[e]].regs = e
    BY <1>2, <1>4, <1>5 DEF Inv, IrqInv
  <2>2. probing # Rest => dInfo'[devCount].regs = probing.dev
    BY <1>2, <1>6 DEF Inv, IrqInv
  <2> QED BY <1>1, <2>1, <2>2 DEF Inv, IrqInv, Present
<1>9. NumberInv'
  <2>1. \A e \in bound : drv[e] # None => dInfo'[drv[e]].devt = dInfo[drv[e]].devt
    BY <1>2, <1>4, <1>5
  <2>2. Numbered => probing # Rest
    BY DEF Numbered, Rest
  <2>3. \A m \in numbers : \/ \E e \in bound : drv[e] # None /\ dInfo'[drv[e]].devt = m
                           \/ Numbered /\ dInfo'[devCount].devt = m
    BY <1>2, <1>6, <2>1, <2>2 DEF Inv, NumberInv
  <2>4. Present' = Present /\ Numbered' = Numbered
    BY <1>1 DEF Present, Numbered
  <2>5. /\ \A s \in Slots : Present /\ devCount <= s /\ dInfo'[s].devt # 0 => s = devCount /\ Numbered
        /\ \A s \in Slots : Present /\ dInfo'[s].devt # 0 => dInfo'[s].devt \in numbers
        /\ \A s, t \in Slots : dInfo'[s].devt = dInfo'[t].devt /\ dInfo'[s].devt # 0 => s = t
    BY <1>2 DEF Inv, NumberInv
  <2> QED BY <1>1, <2>3, <2>4, <2>5 DEF NumberInv
<1>10. NodeInv'
  BY <1>1, <1>2, <1>4 DEF Inv, NodeInv, Entry
<1>11. FileInv'
  BY <1>1, <1>3 DEF Inv, FileInv, Entry, Present
<1> QED BY <1>7, <1>8, <1>9, <1>10, <1>11 DEF Rest5

-----------------------------------------------------------------------------
LEMMA NextInv == Inv /\ [Next]_vars => Inv'
<1> SUFFICES ASSUME Inv, [Next]_vars PROVE Inv'
  OBVIOUS
<1>1. TypeOK'
  BY TypeNext
<1>2. CASE Next
  <2>1. ASSUME Load \/ Loaded \/ Rmmod \/ Exit PROVE Rest5'
    BY <2>1, LoadInv, ModuleInv
  <2>2. ASSUME NEW d \in Devices,
               Probe(d) \/ Region(d) \/ RegionFails(d) \/ Irq(d) \/ IrqFails(d)
        PROVE  Rest5'
    BY <2>2, ProbeInv, RegionInv
  <2>3. ASSUME NEW d \in Devices, Number(d) \/ NumberFails(d) \/ Publish(d) \/ Count(d)
        PROVE  Rest5'
    BY <2>3, NumberStep, NumberFailsInv, PublishInv, CountStep
  <2>4. ASSUME NEW d \in Devices, Remove(d) \/ RemoveOops(d) PROVE Rest5'
    BY <2>4, RemoveInv, RemoveOopsInv
  <2>5. ASSUME NEW f \in Files, NEW d \in Devices, Open(f, d) PROVE Rest5'
    BY <2>5, OpenInv
  <2>6. ASSUME NEW f \in Files, Opened(f) \/ Close(f) \/ CloseEnd(f) PROVE Rest5'
    BY <2>6, FileInvStep
  <2> QED BY <1>1, <1>2, <2>1, <2>2, <2>3, <2>4, <2>5, <2>6 DEF Next, Rest5, Inv
<1>3. CASE UNCHANGED vars
  <2>1. CountInv' /\ NodeInv' /\ FileInv'
    BY <1>3 DEF vars, devs, Inv, CountInv, NodeInv, FileInv, Entry, Present
  <2>2. IrqInv' /\ NumberInv'
    BY <1>3 DEF vars, devs, Inv, IrqInv, NumberInv, Present, Numbered
  <2> QED BY <1>1, <2>1, <2>2 DEF Inv
<1> QED BY <1>2, <1>3

LEMMA AlwaysInv == Spec => []Inv
<1> QED BY InitInv, NextInv, PTL DEF Spec

(* Every variable keeps its type; in particular devCount never leaves the  *)
(* table, as the kernel offers each device once between two loads.         *)
THEOREM TypeCorrect == Spec => []TypeOK
<1>1. Inv => TypeOK
  BY DEF Inv
<1> QED BY <1>1, AlwaysInv, PTL

(* irqHandler of a device that is bound finds the registers of that device *)
(* in the entry it was registered with, whatever _probe of others did.     *)
THEOREM HandlerOwn == Spec => []HandlerIsOwn
<1>1. Inv => HandlerIsOwn
  BY DEF Inv, IrqInv, HandlerIsOwn
<1> QED BY <1>1, AlwaysInv, PTL

(* A file that passed _open's test has the entry, the region and the       *)
(* handler of its node's own device until _close is through with it, if    *)
(* the node's number fits a char, whatever numbers the other devices got.  *)
THEOREM OpenFileSafe == Spec => []OpenFileHasDevice
<1>1. ASSUME Inv PROVE OpenFileHasDevice
  <2>1. SUFFICES ASSUME NEW f \in Files, file[f] # Closed,
                        node[file[f].dev] < CharSize
                 PROVE  /\ file[f].dev \in mem /\ irq[file[f].dev] = file[f].slot
                        /\ dInfo[file[f].slot].regs = file[f].dev
    BY DEF OpenFileHasDevice
  <2>2. /\ file[f].dev \in Devices /\ file[f].slot \in Slots /\ Entry(file[f].dev)
        /\ irq[file[f].dev] = file[f].slot
    BY <1>1, <2>1 DEF Inv, FileInv
  <2>3. irq[file[f].dev] # None
    BY <2>2, DevicesAssumption
  <2> QED BY <1>1, <2>2, <2>3, InUse
<1> QED BY <1>1, AlwaysInv, PTL
-----------------------------------------------------------------------------
(* While opens and closes of one device do not overlap, an entry has one   *)
(* file at most, from the test of its open to the end of its close, and    *)
(* what a file saw of isOpen is what isOpen still is.                      *)
Excl ==
  /\ \A f \in Files : file[f].at = "closed" <=> file[f] = Closed
  /\ \A f, g \in Files :
       file[f] # Closed /\ file[g] # Closed /\ file[f].slot = file[g].slot => f = g
  /\ \A f \in Files : /\ file[f].at = "opening" => file[f].saw = 0
                      /\ file[f].at = "closing" => file[f].saw = 1
  /\ \A s \in Slots :
       /\ dInfo[s].isOpen \in {0, 1}
       /\ dInfo[s].isOpen = 1 <=>
            \E f \in Files : file[f].slot = s /\ file[f].at \in {"open", "closing"}

LEMMA ExclKept ==
  ASSUME Excl, UNCHANGED file, \A s \in Slots : dInfo'[s].isOpen = dInfo[s].isOpen
  PROVE  Excl'
  BY DEF Excl

LEMMA Wraps == Wrap(0 + 1) = 1 /\ Wrap(1 - 1) = 0
<1>1. Cardinality(Files) \in Nat
  BY FilesAssumption, FS_CardinalityType
<1>2. U32 \in Nat /\ U32 > 1
  BY <1>1, U32Assumption
<1> QED BY <1>2 DEF Wrap

LEMMA ExclFile ==
  ASSUME Inv, Excl, Serial', NEW f \in Files,
         (\E d \in Devices : Open(f, d)) \/ Opened(f) \/ Close(f) \/ CloseEnd(f)
  PROVE  Excl'
<1> USE DEF Inv, TypeOK
<1>1. ASSUME NEW g \in Files, file[g] # Closed PROVE file[g].slot \in Slots
  BY <1>1 DEF FileInv
<1>2. None \notin Slots
  BY DevicesAssumption
<1>3. CASE \E d \in Devices : Open(f, d)
  <2>1. PICK d \in Devices : Open(f, d)
    BY <1>3
  <2> DEFINE s == Min(Entries(Char(node[d])))
             F == [at |-> "opening", dev |-> d, slot |-> s, saw |-> 0]
  <2>2. /\ file[f] = Closed /\ dInfo[s].isOpen = 0 /\ file' = [file EXCEPT ![f] = F]
        /\ UNCHANGED dInfo
    BY <2>1 DEF Open
  <2>3. s \in Slots
    <3>1. Entries(Char(node[d])) \subseteq Slots /\ Slots \subseteq Nat /\ Entries(Char(node[d])) # {}
      BY <2>1, IpidMaxAssumption DEF Entries, Slots, Open
    <3> QED BY <3>1, MinIsIn
  <2> HIDE DEF s
  <2>4. file'[f] = F /\ \A g \in Files \ {f} : file'[g] = file[g]
    BY <2>2
  <2>5. \A g \in Files \ {f} : file[g] # Closed => file[g].slot # s
    <3> SUFFICES ASSUME NEW g \in Files \ {f}, file[g] # Closed, file[g].slot = s PROVE FALSE
      OBVIOUS
    <3>1. file[g].at \notin {"open", "closing"}
      BY <2>2, <2>3 DEF Excl
    <3>2. file[g].at = "opening"
      BY <3>1 DEF Excl
    <3> QED BY <2>4, <3>2 DEF Serial
  <2>6. F # Closed
    BY DEF Closed
  <2>7. \A t \in Slots : (\E g \in Files : file'[g].slot = t /\ file'[g].at \in {"open", "closing"})
                     <=> (\E g \in Files : file[g].slot = t /\ file[g].at \in {"open", "closing"})
    <3>1. file[f].at = "closed" /\ file'[f].at = "opening"
      BY <2>2, <2>4 DEF Closed
    <3> QED BY <2>4, <3>1
  <2> QED BY <2>2, <2>4, <2>5, <2>6, <2>7 DEF Excl
<1>4. CASE Opened(f) \/ CloseEnd(f) \/ Close(f)
  <2> DEFINE s == file[f].slot
  <2>1. file[f].at \in {"opening", "open", "closing"} /\ file[f] # Closed /\ s \in Slots
    BY <1>1, <1>4 DEF Opened, Close, CloseEnd, Closed
  <2>2. \A g \in Files \ {f} : file[g] # Closed => file[g].slot # s
    BY <2>1 DEF Excl
  <2>3. \A g \in Files \ {f} : ~(file[g].slot = s /\ file[g].at \in {"open", "closing"})
    BY <2>2 DEF Closed
  <2>4. dInfo[s].isOpen = IF file[f].at = "opening" THEN 0 ELSE 1
    <3>1. dInfo[s].isOpen \in {0, 1} /\ (dInfo[s].isOpen = 1 <=> file[f].at \in {"open", "closing"})
      BY <2>1, <2>3 DEF Excl
    <3> QED BY <2>1, <3>1
  <2>5. CASE Opened(f)
    <3>1. file[f].at = "opening" /\ file' = [file EXCEPT ![f].at = "open"]
      BY <2>5 DEF Opened
    <3>2. dInfo' = [dInfo EXCEPT ![s].isOpen = 1]
      <4>1. file[f].saw = 0
        BY <3>1 DEF Excl
      <4>2. dInfo[s].isOpen = 0
        BY <2>4, <3>1
      <4>3. PICK n \in {file[f].saw, dInfo[s].isOpen} :
              dInfo' = [dInfo EXCEPT ![s].isOpen = Wrap(n + 1)]
        BY <2>5 DEF Opened
      <4>4. n = 0
        BY <4>1, <4>2, <4>3
      <4>5. Wrap(n + 1) = 1
        BY <4>4, Wraps
      <4> QED BY <4>3, <4>5
    <3>3. file'[f].at = "open" /\ file'[f].slot = s /\ \A g \in Files \ {f} : file'[g] = file[g]
      BY <3>1
    <3>4. file'[f] # Closed
      BY <3>3 DEF Closed
    <3>5. \A t \in Slots : dInfo'[t].isOpen = IF t = s THEN 1 ELSE dInfo[t].isOpen
      BY <2>1, <3>2
    <3> QED BY <2>1, <2>2, <3>1, <3>3, <3>4, <3>5 DEF Excl
  <2>6. CASE Close(f)
    <3>1. file[f].at = "open" /\ dInfo[s].isOpen = 1
      BY <2>4, <2>6 DEF Close
    <3>2. file' = [file EXCEPT ![f] = [file[f] EXCEPT !.at = "closing", !.saw = 1]] /\ UNCHANGED dInfo
      BY <2>6, <3>1 DEF Close
    <3>3. /\ file'[f].at = "closing" /\ file'[f].saw = 1 /\ file'[f].slot = s
          /\ \A g \in Files \ {f} : file'[g] = file[g]
      BY <3>2
    <3>4. file'[f] # Closed
      BY <3>3 DEF Closed
    <3> QED BY <2>1, <2>2, <3>1, <3>2, <3>3, <3>4 DEF Excl
  <2>7. CASE CloseEnd(f)
    <3>1. file[f].at = "closing" /\ file' = [file EXCEPT ![f] = Closed]
      BY <2>7 DEF CloseEnd
    <3>2. dInfo' = [dInfo EXCEPT ![s].isOpen = 0]
      <4>1. file[f].saw = 1
        BY <3>1 DEF Excl
      <4>2. dInfo[s].isOpen = 1
        BY <2>4, <3>1
      <4>3. PICK n \in {file[f].saw, dInfo[s].isOpen} :
              dInfo' = [dInfo EXCEPT ![s].isOpen = Wrap(n - 1)]
        BY <2>7 DEF CloseEnd
      <4>4. n = 1
        BY <4>1, <4>2, <4>3
      <4>5. Wrap(n - 1) = 0
        BY <4>4, Wraps
      <4> QED BY <4>3, <4>5
    <3>3. file'[f] = Closed /\ \A g \in Files \ {f} : file'[g] = file[g]
      BY <3>1
    <3>4. Closed.at = "closed"
      BY DEF Closed
    <3>5. \A t \in Slots : dInfo'[t].isOpen = IF t = s THEN 0 ELSE dInfo[t].isOpen
      BY <2>1, <3>2
    <3>6. \A g \in Files : ~(file'[g].slot = s /\ file'[g].at \in {"open", "closing"})
      BY <2>3, <3>3, <3>4
    <3>7. \A g \in Files :
          /\ file'[g].at = "closed" <=> file'[g] = Closed
          /\ file'[g].at = "opening" => file'[g].saw = 0
          /\ file'[g].at = "closing" => file'[g].saw = 1
      BY <3>3, <3>4 DEF Excl
    <3>8. \A g, h \in Files :
            file'[g] # Closed /\ file'[h] # Closed /\ file'[g].slot = file'[h].slot => g = h
      BY <3>3 DEF Excl
    <3>9. ASSUME NEW t \in Slots
          PROVE  /\ dInfo'[t].isOpen \in {0, 1}
                 /\ dInfo'[t].isOpen = 1 <=>
                      \E g \in Files : file'[g].slot = t /\ file'[g].at \in {"open", "closing"}
      <4>1. CASE t = s
        BY <3>5, <3>6, <4>1
      <4>2. CASE t # s
        <5>1. dInfo'[t].isOpen = dInfo[t].isOpen
          BY <3>5, <4>2
        <5>2. file'[f].at = "closed" /\ file[f].slot # t
          BY <3>3, <3>4, <4>2
        <5>3. (\E g \in Files : file'[g].slot = t /\ file'[g].at \in {"open", "closing"})
                <=> (\E g \in Files : file[g].slot = t /\ file[g].at \in {"open", "closing"})
          BY <3>3, <5>2, SMTT(30)
        <5> QED BY <5>1, <5>3 DEF Excl
      <4> QED BY <4>1, <4>2
    <3> QED BY <3>7, <3>8, <3>9 DEF Excl
  <2> QED BY <1>4, <2>5, <2>6, <2>7
<1> QED BY <1>3, <1>4

LEMMA ExclNext == Inv /\ Excl /\ Serial' /\ [Next]_vars => Excl'
<1> SUFFICES ASSUME Inv, Excl, Serial', [Next]_vars PROVE Excl'
  OBVIOUS
<1> USE DEF devs
<1>1. CASE Load
  <2>1. \A f \in Files : file[f] = Closed /\ file'[f] = Closed
    BY <1>1 DEF Load, Inv, FileInv, Present
  <2>2. \A s \in Slots : dInfo'[s].isOpen = 0
    BY <1>1 DEF Load, Blank
  <2> QED BY <2>1, <2>2 DEF Excl, Closed
<1>2. CASE Loaded \/ Rmmod \/ Exit \/ UNCHANGED vars
  BY <1>2, ExclKept DEF Loaded, Rmmod, Exit, vars
<1>3. ASSUME NEW d \in Devices,
             \/ Region(d) \/ RegionFails(d) \/ Irq(d) \/ IrqFails(d)
             \/ NumberFails(d) \/ Count(d) \/ Remove(d) \/ RemoveOops(d)
      PROVE  Excl'
  BY <1>3, ExclKept DEF Region, RegionFails, Irq, IrqFails, NumberFails, Count, Remove, RemoveOops
<1>4. ASSUME NEW d \in Devices, Probe(d) \/ Number(d) \/ Publish(d) PROVE Excl'
  <2>1. \A s \in Slots : dInfo'[s].isOpen = dInfo[s].isOpen
    BY <1>4 DEF Probe, Number, Publish, Inv, TypeOK
  <2>2. UNCHANGED file
    BY <1>4 DEF Probe, Number, Publish
  <2> QED BY <2>1, <2>2, ExclKept
<1>5. CASE Next
  BY <1>1, <1>2, <1>3, <1>4, <1>5, ExclFile DEF Next
<1> QED BY <1>2, <1>5

(* If opens and closes of one device never overlap, isOpen always counts   *)
(* its open files, of which there is at most one.                          *)
THEOREM SerialExact == Spec => SerialOpens
<1>1. Init => Excl
  BY DEF Init, Excl, Closed, Blank
<1>2. Excl => Counted
  <2> SUFFICES ASSUME Excl, NEW s \in Slots
               PROVE  /\ dInfo[s].isOpen <= 1
                      /\ dInfo[s].isOpen = Cardinality({f \in Files : file[f].slot = s
                                                         /\ file[f].at \in {"open", "closing"}})
    BY DEF Counted
  <2> DEFINE S == {f \in Files : file[f].slot = s /\ file[f].at \in {"open", "closing"}}
  <2>1. \A f, g \in S : f = g
    BY DEF Excl
  <2>2. CASE S = {}
    <3>1. dInfo[s].isOpen = 0
      BY <2>2 DEF Excl
    <3> QED BY <2>2, <3>1, FS_EmptySet
  <2>3. CASE S # {}
    <3>1. PICK f \in S : TRUE
      BY <2>3
    <3>2. S = {f}
      BY <2>1, <3>1
    <3>3. dInfo[s].isOpen = 1
      BY <3>1 DEF Excl
    <3>4. Cardinality(S) = 1
      BY <3>2, FS_Singleton
    <3> QED BY <3>3, <3>4
  <2> QED BY <2>2, <2>3
<1> QED BY <1>1, <1>2, ExclNext, AlwaysInv, PTL DEF Spec, SerialOpens
=============================================================================
