------------------------- MODULE PicoLifecycleProofs -------------------------
(* Theorems about PicoLifecycle, for any number of files and buffers.      *)
EXTENDS PicoLifecycle, FiniteSetTheorems, TLAPS

-----------------------------------------------------------------------------
(* The two orders.  Rank is a step's place in the order of acquisition.    *)
Steps == DOMAIN FailTo

Rank == [kobj |-> 1, enabled |-> 2, regions |-> 3, bar0 |-> 4, bar2 |-> 5,
         mask |-> 6, buf1 |-> 7, buf2 |-> 8, msi |-> 9, irq |-> 10,
         sysfs |-> 11, chrdev |-> 12, cdev |-> 13, device |-> 14, end |-> 0]

LEMMA StepNames ==
  Steps = {"kobj", "enabled", "regions", "bar0", "bar2", "mask", "buf1", "buf2",
           "msi", "irq", "sysfs", "chrdev", "cdev", "device"}
BY DEF Steps, FailTo

LEMMA ResourceNames ==
  Resources = {"kobj", "enabled", "regions", "bar0", "bar2", "buf2",
               "msi", "irq", "sysfs", "chrdev", "cdev", "device"}
<1>1. Len(Acquisitions) = 14
  BY DEF Acquisitions
<1>2. {Acquisitions[i] : i \in 1..14} = Steps
  <2>1. /\ Acquisitions[1] = "kobj" /\ Acquisitions[2] = "enabled"
        /\ Acquisitions[3] = "regions" /\ Acquisitions[4] = "bar0"
        /\ Acquisitions[5] = "bar2" /\ Acquisitions[6] = "mask"
        /\ Acquisitions[7] = "buf1" /\ Acquisitions[8] = "buf2"
        /\ Acquisitions[9] = "msi" /\ Acquisitions[10] = "irq"
        /\ Acquisitions[11] = "sysfs" /\ Acquisitions[12] = "chrdev"
        /\ Acquisitions[13] = "cdev" /\ Acquisitions[14] = "device"
    BY DEF Acquisitions
  <2>2. \A i \in 1..14 : Acquisitions[i] \in Steps
    BY <2>1, StepNames
  <2>3. \A s \in Steps : \E i \in 1..14 : Acquisitions[i] = s
    BY <2>1, StepNames
  <2> QED BY <2>2, <2>3
<1> QED BY <1>1, <1>2, StepNames DEF Resources

(* What follows the i-th member of an order without repetitions.           *)
LEMMA AfterIs ==
  ASSUME NEW order, NEW n \in Nat, Len(order) = n, NEW i \in 1..n,
         \A j \in 1..n : order[j] = order[i] => j = i
  PROVE  After(order, order[i]) = order[i + 1]
<1>1. (CHOOSE j \in 1..n : order[j] = order[i]) = i
  OBVIOUS
<1> QED BY <1>1 DEF After

LEMMA NextAcquired ==
  ASSUME NEW s \in Steps, s # "device"
  PROVE  /\ After(Acquisitions, s) \in Steps
         /\ Rank[After(Acquisitions, s)] = Rank[s] + 1
<1>1. Len(Acquisitions) = 14
  BY DEF Acquisitions
<1>2. \A i, j \in 1..14 : Acquisitions[i] = Acquisitions[j] => i = j
  BY DEF Acquisitions
<1>3. ASSUME NEW i \in 1..14 PROVE After(Acquisitions, Acquisitions[i]) = Acquisitions[i + 1]
  BY <1>1, <1>2, AfterIs
<1>4. \A i \in 1..14 : Rank[Acquisitions[i]] = i /\ Acquisitions[i] \in Steps
  BY StepNames DEF Acquisitions, Rank
<1>5. PICK i \in 1..13 : Acquisitions[i] = s
  BY StepNames DEF Acquisitions
<1> QED BY <1>3, <1>4, <1>5

(* The release after s is of what was acquired last before s.              *)
LEMMA NextReleased ==
  ASSUME NEW s \in Steps, s # "mask"
  PROVE  LET t == After(Releases, s)
         IN  /\ t \in (Steps \ {"mask"}) \cup {"end"} /\ Rank[t] < Rank[s]
             /\ \A r \in Steps \ {"mask"} : Rank[r] < Rank[s] => Rank[r] <= Rank[t]
<1>1. Len(Releases) = 14
  BY DEF Releases
<1>2. \A i, j \in 1..14 : Releases[i] = Releases[j] => i = j
  BY DEF Releases
<1>3. ASSUME NEW i \in 1..14 PROVE After(Releases, Releases[i]) = Releases[i + 1]
  BY <1>1, <1>2, AfterIs
<1>4. PICK i \in 1..13 : Releases[i] = s
  BY StepNames DEF Releases
<1>5. After(Releases, s) = Releases[i + 1]
  BY <1>3, <1>4
<1>6. /\ Releases[i + 1] \in (Steps \ {"mask"}) \cup {"end"} /\ Rank[Releases[i + 1]] < Rank[Releases[i]]
      /\ \A r \in Steps \ {"mask"} :
           Rank[r] < Rank[Releases[i]] => Rank[r] <= Rank[Releases[i + 1]]
  BY StepNames DEF Releases, Rank
<1> QED BY <1>4, <1>5, <1>6

(* The label a failure jumps to.                                           *)
LEMMA LabelIs ==
  ASSUME NEW s \in Steps
  PROVE  LET t == FailTo[s]
         IN  /\ t \in (Steps \ {"mask"}) \cup {"end"}
             /\ Rank[t] <= Rank[s] /\ (t = s => s \in {"buf1", "buf2"})
             /\ \A r \in Steps \ {"mask"} : Rank[r] < Rank[s] => Rank[r] <= Rank[t]
BY StepNames DEF FailTo, Rank

LEMMA RankIs ==
  /\ \A s \in Steps : Rank[s] \in 1..14
  /\ \A s, t \in Steps : Rank[s] = Rank[t] => s = t
  /\ Rank["end"] = 0 /\ Rank["device"] = 14 /\ Rank["buf1"] = 7 /\ Rank["kobj"] = 1
BY StepNames DEF Rank

-----------------------------------------------------------------------------
(* At every step of probe and of a release exactly what was acquired       *)
(* before, and not yet released, is held: the resources up to its place.   *)
Upto(n) == {r \in Resources : Rank[r] <= n /\ ~Skipped(r)}
Labels  == (Steps \ {"mask"}) \cup {"end"}

AtType ==
  /\ at \in [doing : {"unbound", "acquire", "bound", "release"}, what : Steps \cup {"end"}]
  /\ at.doing = "acquire" => at.what \in Steps
  /\ at.doing = "release" => at.what \in Labels
  /\ at.doing \in {"unbound", "bound"} => at.what = "end"
  /\ module = "out" => Unbound

HeldInv ==
  /\ Unbound => held = {}
  /\ at.doing = "acquire" => held = Upto(Rank[at.what] - 1)
  /\ Bound => held = Upto(14)
  /\ at.doing = "release" =>
       /\ Upto(Rank[at.what] - 1) \subseteq held /\ held \subseteq Upto(Rank[at.what])
       /\ at.what \in Resources \ {"buf2"} => at.what \in held \/ Skipped(at.what)

BufsInv ==
  /\ Unbound => bufs = {}
  /\ at.doing = "acquire" =>
       /\ Rank[at.what] < 7 => bufs = {}
       /\ Rank[at.what] = 7 => \E k \in 0..BufCount - 1 : bufs = 1..k
       /\ Rank[at.what] > 7 => bufs = 1..BufCount
  /\ Bound => bufs = 1..BufCount
  /\ at.doing = "release" =>
       /\ Rank[at.what] < 7 => bufs = {}
       /\ Rank[at.what] > 7 => bufs = 1..BufCount

Inv == AtType /\ HeldInv /\ BufsInv

LEMMA UptoNothing == Upto(0) = {}
<1>1. \A r \in Resources : Rank[r] \in 1..14
  BY RankIs, ResourceNames, StepNames
<1> QED BY <1>1 DEF Upto

(* Nothing is acquired between a step and the release it leads to.         *)
LEMMA UptoLabel ==
  ASSUME NEW s \in Steps, NEW t \in Labels, Rank[t] < Rank[s],
         \A r \in Steps \ {"mask"} : Rank[r] < Rank[s] => Rank[r] <= Rank[t]
  PROVE  Upto(Rank[s] - 1) = Upto(Rank[t])
<1>1. Resources \subseteq Steps \ {"mask"}
  BY ResourceNames, StepNames
<1>2. \A r \in Steps \cup {"end"} : Rank[r] \in Nat
  BY RankIs
<1>3. \A r \in Resources : Rank[r] <= Rank[s] - 1 <=> Rank[r] <= Rank[t]
  <2>1. ASSUME NEW r \in Resources PROVE Rank[r] <= Rank[s] - 1 <=> Rank[r] <= Rank[t]
    <3>1. Rank[r] \in Nat /\ Rank[s] \in Nat /\ Rank[t] \in Nat
      BY <1>1, <1>2 DEF Labels
    <3>2. Rank[r] < Rank[s] => Rank[r] <= Rank[t]
      BY <1>1
    <3> QED BY <3>1, <3>2
  <2> QED BY <2>1
<1> QED BY <1>3 DEF Upto

LEMMA UptoNext ==
  ASSUME NEW s \in Resources
  PROVE  /\ ~Skipped(s) => Upto(Rank[s] - 1) \cup {s} = Upto(Rank[s])
         /\ Skipped(s) => Upto(Rank[s] - 1) = Upto(Rank[s])
         /\ Upto(Rank[s]) \ {s} = Upto(Rank[s] - 1)
<1>1. Resources \subseteq Steps
  BY ResourceNames, StepNames
<1>2. \A r \in Resources : Rank[r] \in Nat /\ (Rank[r] = Rank[s] => r = s)
  BY <1>1, RankIs
<1>3. \A r \in Resources : Rank[r] <= Rank[s] <=> (Rank[r] <= Rank[s] - 1 \/ r = s)
  BY <1>2
<1>4. ~(Rank[s] <= Rank[s] - 1)
  BY <1>2
<1> QED BY <1>3, <1>4 DEF Upto

LEMMA InitInv == Init => Inv
BY DEF Init, Inv, AtType, HeldInv, BufsInv, StartOf, Unbound, Bound

(* Where a step of probe or of a release may lead.                         *)
LEMMA Acquire ==
  ASSUME NEW s \in Steps, at' = StartOf("acquire", s), module # "out", UNCHANGED module,
         (held = Upto(Rank[s] - 1))',
         Rank[s] < 7 => bufs' = {},
         Rank[s] = 7 => \E k \in 0..BufCount - 1 : bufs' = 1..k,
         Rank[s] > 7 => bufs' = 1..BufCount
  PROVE  Inv'
<1>1. at'.doing = "acquire" /\ at'.what = s
  BY DEF StartOf
<1>2. AtType'
  BY <1>1 DEF AtType, StartOf, Unbound
<1> QED BY <1>1, <1>2 DEF Inv, HeldInv, BufsInv, Unbound, Bound

LEMMA Release ==
  ASSUME NEW s \in Labels, at' = StartOf("release", s), module # "out", UNCHANGED module,
         (Upto(Rank[s] - 1) \subseteq held /\ held \subseteq Upto(Rank[s]))',
         s \in Resources \ {"buf2"} => s \in held' \/ Skipped(s)',
         Rank[s] < 7 => bufs' = {},
         Rank[s] > 7 => bufs' = 1..BufCount
  PROVE  Inv'
<1>1. at'.doing = "release" /\ at'.what = s
  BY DEF StartOf
<1>2. AtType'
  BY <1>1 DEF AtType, StartOf, Unbound, Labels
<1> QED BY <1>1, <1>2 DEF Inv, HeldInv, BufsInv, Unbound, Bound

LEMMA Unbind_ ==
  ASSUME at' = StartOf("unbound", "end"), held' = {}, bufs' = {}
  PROVE  Inv'
BY DEF Inv, AtType, HeldInv, BufsInv, StartOf, Unbound, Bound

LEMMA TakeInv ==
  ASSUME Inv, NEW s \in Steps, Take(s)
  PROVE  Inv'
<1> USE DEF Take
<1>1. /\ at.doing = "acquire" /\ at.what = s /\ s # "buf1" /\ held = Upto(Rank[s] - 1)
      /\ module # "out" /\ UNCHANGED <<module, irqmode, bufs>>
      /\ Rank[s] \in Nat /\ Rank[s] # 7
  BY RankIs, StepNames DEF Inv, AtType, HeldInv, Acquiring, Unbound
<1>2. held' = Upto(Rank[s])
  <2>1. CASE s = "mask"
    <3>1. Resources \subseteq Steps /\ "mask" \notin Resources
      BY ResourceNames, StepNames
    <3>2. \A r \in Resources : Rank[r] \in Nat /\ Rank[r] # Rank[s]
      BY <2>1, <3>1, RankIs
    <3>3. Upto(Rank[s] - 1) = Upto(Rank[s])
      BY <1>1, <3>2 DEF Upto
    <3> QED BY <1>1, <2>1, <3>3
  <2>2. CASE s # "mask"
    <3>1. s \in Resources
      BY <1>1, <2>2, ResourceNames, StepNames
    <3> QED BY <1>1, <2>2, <3>1, UptoNext
  <2> QED BY <2>1, <2>2
<1>3. \A n \in Nat : Upto(n)' = Upto(n)
  BY <1>1 DEF Upto, Skipped
<1>4. CASE s = "device"
  <2>1. at' = StartOf("bound", "end") /\ Rank[s] = 14
    BY <1>4, RankIs DEF NextAcquisition
  <2>2. at'.doing = "bound" /\ at'.what = "end"
    BY <2>1 DEF StartOf
  <2>3. AtType'
    BY <1>1, <2>1, <2>2 DEF AtType, StartOf, Unbound
  <2>4. held' = Upto(14)' /\ bufs' = 1..BufCount
    BY <1>1, <1>2, <1>3, <2>1 DEF Inv, BufsInv
  <2> QED BY <2>2, <2>3, <2>4 DEF Inv, HeldInv, BufsInv, Unbound, Bound
<1>5. CASE s # "device"
  <2> DEFINE t == After(Acquisitions, s)
  <2>1. at' = StartOf("acquire", t) /\ t \in Steps /\ Rank[t] = Rank[s] + 1
    BY <1>5, NextAcquired DEF NextAcquisition
  <2> HIDE DEF t
  <2>2. held' = Upto(Rank[t] - 1)'
    <3>1. Rank[t] - 1 = Rank[s]
      BY <1>1, <2>1
    <3>2. Upto(Rank[t] - 1) = Upto(Rank[s]) /\ Rank[t] - 1 \in Nat
      BY <1>1, <3>1
    <3>3. Upto(Rank[t] - 1)' = Upto(Rank[t] - 1)
      BY <1>3, <3>2
    <3> QED BY <1>2, <3>2, <3>3
  <2>3. /\ Rank[t] < 7 => bufs' = {}
        /\ Rank[t] > 7 => bufs' = 1..BufCount
        /\ Rank[t] = 7 => bufs' = 1..0
    BY <1>1, <2>1 DEF Inv, BufsInv
  <2>4. Rank[t] = 7 => \E k \in 0..BufCount - 1 : bufs' = 1..k
    <3>1. 0 \in 0..BufCount - 1
      BY BufCountAssumption
    <3> QED BY <2>3, <3>1
  <2> QED BY <1>1, <2>1, <2>2, <2>3, <2>4, Acquire
<1> QED BY <1>4, <1>5

LEMMA TakeBuf1Inv == Inv /\ TakeBuf1 => Inv'
<1> SUFFICES ASSUME Inv, TakeBuf1 PROVE Inv'
  OBVIOUS
<1>1. /\ at = StartOf("acquire", "buf1") /\ held = Upto(6)
      /\ module # "out" /\ UNCHANGED <<module, irqmode, held>>
      /\ Rank["buf1"] = 7
  <2>1. at = StartOf("acquire", "buf1") /\ at.doing = "acquire" /\ at.what = "buf1"
    BY DEF TakeBuf1, Acquiring, StartOf
  <2>2. Rank["buf1"] = 7
    BY RankIs
  <2> QED BY <2>1, <2>2 DEF TakeBuf1, Inv, AtType, HeldInv, Unbound
<1>2. PICK k \in 0..BufCount - 1 : bufs = 1..k
  BY <1>1 DEF Inv, BufsInv, StartOf
<1>3. Cardinality(bufs) = k
  BY <1>2, FS_Interval, BufCountAssumption
<1>4. bufs' = 1..k + 1
  BY <1>2, <1>3, BufCountAssumption DEF TakeBuf1
<1>5. Upto(6)' = Upto(6) /\ Upto(7)' = Upto(7)
  BY <1>1 DEF Upto, Skipped
<1>6. CASE k + 1 # BufCount
  <2>1. at' = StartOf("acquire", "buf1")
    BY <1>1, <1>3, <1>6 DEF TakeBuf1
  <2>2. k + 1 \in 0..BufCount - 1
    BY <1>6, BufCountAssumption
  <2>3. held' = Upto(Rank["buf1"] - 1)'
    BY <1>1, <1>5
  <2> QED BY <1>1, <1>4, <2>1, <2>2, <2>3, StepNames, Acquire
<1>7. CASE k + 1 = BufCount
  <2> DEFINE t == After(Acquisitions, "buf1")
  <2>1. at' = StartOf("acquire", t) /\ t \in Steps /\ Rank[t] = 8
    BY <1>1, <1>3, <1>7, NextAcquired, StepNames DEF TakeBuf1, NextAcquisition
  <2> HIDE DEF t
  <2>2. Upto(7) = Upto(6)
    <3>1. Resources \subseteq Steps /\ "buf1" \notin Resources
      BY ResourceNames, StepNames
    <3>2. \A r \in Resources : Rank[r] \in Nat /\ Rank[r] # 7
      BY <3>1, RankIs, StepNames
    <3> QED BY <3>2 DEF Upto
  <2>3. held' = Upto(Rank[t] - 1)'
    BY <1>1, <1>5, <2>1, <2>2
  <2> QED BY <1>1, <1>4, <1>7, <2>1, <2>3, Acquire
<1> QED BY <1>6, <1>7

LEMMA FailInv ==
  ASSUME Inv, NEW s \in Steps, Fail(s)
  PROVE  Inv'
<1> DEFINE t == FailTo[s]
<1>1. /\ at.doing = "acquire" /\ at.what = s /\ held = Upto(Rank[s] - 1)
      /\ at' = StartOf("release", t)
      /\ module # "out" /\ UNCHANGED <<module, irqmode, held, bufs>>
  BY DEF Fail, FailAt, Acquiring, Inv, AtType, HeldInv, Unbound
<1>2. /\ t \in Labels /\ Rank[t] <= Rank[s] /\ (t = s => s \in {"buf1", "buf2"})
      /\ \A r \in Steps \ {"mask"} : Rank[r] < Rank[s] => Rank[r] <= Rank[t]
  BY LabelIs DEF Labels
<1> HIDE DEF t
<1>3. Rank[s] \in Nat /\ Rank[t] \in Nat
  BY <1>2, RankIs DEF Labels
<1>4. \A n \in Int : Upto(n)' = Upto(n)
  BY <1>1 DEF Upto, Skipped
<1>5. /\ Rank[t] < 7 => bufs = {}
      /\ Rank[t] > 7 => bufs = 1..BufCount
  <2>1. CASE Rank[s] # 7
    <3>1. Rank[t] < 7 => Rank[s] <= 7
      BY <1>2, <1>3, RankIs, StepNames
    <3> QED BY <1>1, <1>2, <1>3, <2>1, <3>1 DEF Inv, BufsInv
  <2>2. CASE Rank[s] = 7
    <3>1. s = "buf1"
      BY <2>2, RankIs, StepNames
    <3>2. t = "buf1"
      BY <3>1 DEF t, FailTo
    <3> QED BY <3>1, <3>2, <2>2
  <2> QED BY <2>1, <2>2
<1>6. CASE t = s
  <2>1. Upto(Rank[s] - 1) \subseteq Upto(Rank[s])
    <3>1. \A r \in Resources : Rank[r] \in Nat
      BY ResourceNames, StepNames, RankIs
    <3> QED BY <1>3, <3>1 DEF Upto
  <2>2. s \notin Resources \ {"buf2"}
    BY <1>2, <1>6, ResourceNames
  <2>3. (Upto(Rank[t] - 1) \subseteq held /\ held \subseteq Upto(Rank[t]))'
    BY <1>1, <1>3, <1>4, <1>6, <2>1
  <2> QED BY <1>1, <1>2, <1>5, <1>6, <2>2, <2>3, Release
<1>7. CASE t # s
  <2>1. Rank[t] < Rank[s]
    <3>1. Rank[t] # Rank[s]
      BY <1>2, <1>7, RankIs DEF Labels
    <3> QED BY <1>2, <1>3, <3>1
  <2>2. held = Upto(Rank[t])
    BY <1>1, <1>2, <2>1, UptoLabel
  <2>3. \A r \in Resources : Rank[r] \in Nat
    BY ResourceNames, StepNames, RankIs
  <2>4. Upto(Rank[t] - 1) \subseteq held
    BY <1>3, <2>2, <2>3 DEF Upto
  <2>5. t \in Resources => t \in held \/ Skipped(t)
    BY <1>3, <2>2 DEF Upto
  <2>6. Skipped(t)' = Skipped(t)
    BY <1>1 DEF Skipped
  <2>7. (Upto(Rank[t] - 1) \subseteq held /\ held \subseteq Upto(Rank[t]))'
    BY <1>1, <1>3, <1>4, <2>2, <2>4
  <2> QED BY <1>1, <1>2, <1>5, <2>5, <2>6, <2>7, Release
<1> QED BY <1>6, <1>7

LEMMA GiveInv ==
  ASSUME Inv, NEW s \in Steps, Give(s)
  PROVE  Inv'
<1> DEFINE t == After(Releases, s)
<1>1. /\ at.doing = "release" /\ at.what = s /\ s \in Labels /\ s # "mask"
      /\ Upto(Rank[s] - 1) \subseteq held /\ held \subseteq Upto(Rank[s])
      /\ held' = held \ {s}
      /\ module # "out" /\ UNCHANGED <<module, irqmode>>
  BY StepNames DEF Give, Releasing, Inv, AtType, HeldInv, Unbound, Labels
<1>2. /\ t \in Labels /\ Rank[t] < Rank[s]
      /\ \A r \in Steps \ {"mask"} : Rank[r] < Rank[s] => Rank[r] <= Rank[t]
      /\ at' = IF t = "end" THEN StartOf("unbound", "end") ELSE StartOf("release", t)
  BY <1>1, NextReleased DEF Labels, Give, NextRelease
<1> HIDE DEF t
<1>3. Rank[s] \in Nat /\ Rank[t] \in Nat
  BY <1>2, RankIs DEF Labels
<1>4. \A n \in Int : Upto(n)' = Upto(n)
  BY <1>1 DEF Upto, Skipped
<1>5. held' = Upto(Rank[t])
  <2>1. Upto(Rank[s] - 1) = Upto(Rank[t])
    BY <1>2, UptoLabel
  <2>2. CASE s \in Resources
    <3>1. Upto(Rank[s]) \ {s} = Upto(Rank[s] - 1)
      BY <2>2, UptoNext
    <3> QED BY <1>1, <2>1, <3>1
  <2>3. CASE s \notin Resources
    <3>1. \A r \in Resources : Rank[r] \in Nat /\ Rank[r] # Rank[s]
      BY <2>3, ResourceNames, StepNames, RankIs
    <3>2. Upto(Rank[s]) = Upto(Rank[s] - 1)
      BY <1>3, <3>1 DEF Upto
    <3>3. s \notin Upto(Rank[s])
      BY <2>3 DEF Upto
    <3> QED BY <1>1, <2>1, <3>2, <3>3
  <2> QED BY <2>2, <2>3
<1>6. /\ Rank[t] < 7 => bufs' = {}
      /\ Rank[t] > 7 => bufs' = 1..BufCount
  <2>1. CASE s = "buf1"
    <3>1. Rank[s] = 7 /\ bufs' = {}
      BY <2>1, RankIs DEF Give
    <3> QED BY <1>2, <1>3, <3>1
  <2>2. CASE s # "buf1"
    <3>1. Rank[s] # 7 /\ bufs' = bufs
      BY <2>2, RankIs, StepNames DEF Give
    <3>2. Rank[s] > 7 => Rank[t] >= 7
      BY <1>2, <1>3, RankIs, StepNames
    <3> QED BY <1>1, <1>2, <1>3, <3>1, <3>2 DEF Inv, BufsInv
  <2> QED BY <2>1, <2>2
<1>7. CASE t = "end"
  <2>1. held' = {} /\ bufs' = {}
    BY <1>5, <1>6, <1>7, UptoNothing, RankIs
  <2> QED BY <1>2, <1>7, <2>1, Unbind_
<1>8. CASE t # "end"
  <2>1. \A r \in Resources : Rank[r] \in Nat
    BY ResourceNames, StepNames, RankIs
  <2>2. Upto(Rank[t] - 1) \subseteq held'
    BY <1>3, <1>5, <2>1 DEF Upto
  <2>3. t \in Resources => t \in held' \/ Skipped(t)
    BY <1>3, <1>5 DEF Upto
  <2>4. Skipped(t)' = Skipped(t)
    BY <1>1 DEF Skipped
  <2>5. (Upto(Rank[t] - 1) \subseteq held /\ held \subseteq Upto(Rank[t]))'
    BY <1>3, <1>4, <1>5, <2>2
  <2> QED BY <1>1, <1>2, <1>6, <1>8, <2>3, <2>4, <2>5, Release
<1> QED BY <1>7, <1>8

LEMMA NextInv == Inv /\ [Next]_vars => Inv'
<1> SUFFICES ASSUME Inv, [Next]_vars PROVE Inv'
  OBVIOUS
<1>1. ASSUME UNCHANGED <<at, held, bufs>>, UNCHANGED irqmode \/ Unbound,
             module' = "out" => Unbound
      PROVE  Inv'
  <2>1. CASE UNCHANGED irqmode
    <3>1. \A n : Upto(n)' = Upto(n)
      BY <2>1 DEF Upto, Skipped
    <3> QED BY <1>1, <2>1, <3>1 DEF Inv, AtType, HeldInv, BufsInv, Unbound, Bound, Skipped
  <2>2. CASE Unbound
    BY <1>1, <2>2 DEF Inv, AtType, HeldInv, BufsInv, Unbound, Bound
  <2> QED BY <1>1, <2>1, <2>2
<1>2. CASE Load \/ Rmmod \/ Exit
  BY <1>1, <1>2 DEF Load, Rmmod, Exit, Inv, AtType
<1>3. CASE Probe
  <2>1. Rank["kobj"] = 1 /\ Rank["kobj"] - 1 = 0 /\ "kobj" \in Steps
    BY RankIs, StepNames
  <2>2. held' = {} /\ bufs' = {}
    BY <1>3 DEF Probe, Inv, HeldInv, BufsInv
  <2>3. (Upto(0) = {})'
    BY UptoNothing, PTL
  <2>4. held' = Upto(Rank["kobj"] - 1)'
    BY <2>1, <2>2, <2>3
  <2> QED BY <1>3, <2>1, <2>2, <2>4, Acquire DEF Probe
<1>4. CASE TakeBuf1
  BY <1>4, TakeBuf1Inv
<1>5. CASE Remove
  <2>1. /\ held = Upto(14) /\ bufs' = 1..BufCount /\ UNCHANGED <<module, irqmode, held>>
        /\ at' = StartOf("release", "device") /\ module # "out"
    BY <1>5 DEF Remove, Inv, AtType, HeldInv, BufsInv, Unbound, Bound
  <2>2. Rank["device"] = 14 /\ "device" \in Labels /\ "device" \in Resources
    BY RankIs, ResourceNames, StepNames DEF Labels
  <2>3. \A r \in Resources : Rank[r] \in 1..14
    BY RankIs, ResourceNames, StepNames
  <2>4. Upto(13) \subseteq Upto(14)
    BY <2>3 DEF Upto
  <2>5. "device" \in Upto(14) \/ Skipped("device")
    BY <2>2 DEF Upto
  <2>6. /\ Upto(Rank["device"] - 1)' = Upto(13)
        /\ Upto(Rank["device"])' = Upto(14)
        /\ Skipped("device")' = Skipped("device")
    BY <2>1, <2>2 DEF Upto, Skipped
  <2>7. (Upto(Rank["device"] - 1) \subseteq held /\ held \subseteq Upto(Rank["device"]))'
    BY <2>1, <2>4, <2>6
  <2> QED BY <2>1, <2>2, <2>5, <2>6, <2>7, Release
<1>6. CASE GiveUp
  <2>1. at.doing = "release" /\ at.what = "end" /\ at' = StartOf("unbound", "end")
    BY <1>6 DEF GiveUp, Releasing
  <2>2. held' = {} /\ bufs' = {}
    BY <1>6, <2>1, UptoNothing, RankIs DEF GiveUp, Inv, HeldInv, BufsInv
  <2> QED BY <2>1, <2>2, Unbind_
<1>7. ASSUME NEW s \in DOMAIN FailTo, Take(s) \/ Fail(s) \/ Give(s)
      PROVE  Inv'
  BY <1>7, TakeInv, FailInv, GiveInv DEF Steps
<1>8. ASSUME NEW f \in Files,
             OpenStart(f) \/ CharOpen(f) \/ CharOpenNoMem(f) \/ CharRelease(f) \/ CloseEnd(f)
      PROVE  Inv'
  BY <1>1, <1>8 DEF OpenStart, CharOpen, CharOpenNoMem, CharRelease, CloseEnd, Inv, AtType
<1>9. CASE UNCHANGED vars
  BY <1>1, <1>9 DEF vars, Inv, AtType
<1> QED BY <1>2, <1>3, <1>4, <1>5, <1>6, <1>7, <1>8, <1>9 DEF Next

LEMMA AlwaysInv == Spec => []Inv
BY InitInv, NextInv, PTL DEF Spec

(* For any number of buffers, wherever probe fails and after remove, all   *)
(* that was acquired is released.                                          *)
THEOREM NoLeak == Spec => []NothingLeaked
<1>1. Inv => NothingLeaked
  BY DEF Inv, HeldInv, BufsInv, NothingLeaked
<1> QED BY AlwaysInv, <1>1, PTL

(* The goto labels and the cleanup functions release nothing that was not  *)
(* acquired.                                                               *)
THEOREM NoDoubleRelease == Spec => []ReleasedOnce
<1>1. Inv => ReleasedOnce
  BY DEF Inv, HeldInv, ReleasedOnce, Releasing
<1> QED BY AlwaysInv, <1>1, PTL

(* amc_isr never runs without its board and BAR0.                          *)
THEOREM HandlerSafe == Spec => []HandlerHasBoard
<1>1. ASSUME Inv, "irq" \in held PROVE {"kobj", "bar0"} \subseteq held
  <2>1. /\ Rank["irq"] = 10 /\ Rank["bar0"] = 4 /\ Rank["kobj"] = 1
        /\ {"irq", "bar0", "kobj"} \subseteq Resources
        /\ ~Skipped("kobj") /\ ~Skipped("bar0")
    BY ResourceNames DEF Rank, Skipped
  <2>2. \A n \in Int : "irq" \in Upto(n) => {"kobj", "bar0"} \subseteq Upto(n - 1)
    BY <2>1 DEF Upto
  <2>3. \A n \in Int : "irq" \in Upto(n) => {"kobj", "bar0"} \subseteq Upto(n)
    BY <2>1 DEF Upto
  <2>4. at.doing \in {"acquire", "release"} => Rank[at.what] \in Int
    BY <1>1, RankIs DEF Inv, AtType, Labels
  <2> QED BY <1>1, <2>2, <2>3, <2>4 DEF Inv, AtType, HeldInv, Unbound, Bound
<1> QED BY AlwaysInv, <1>1, PTL DEF HandlerHasBoard

-----------------------------------------------------------------------------
(* The references of the files: the kernel's, and char_open's.             *)
Used   == {f \in Files : file[f] # "closed"}
Opened == {f \in Files : file[f] = "open"}

RefInv ==
  /\ file \in [Files -> {"closed", "opening", "open", "released"}]
  /\ refs = Cardinality(Used) + Cardinality(Opened)

LEMMA RefTypes ==
  /\ IsFiniteSet(Used) /\ Cardinality(Used) \in Nat
  /\ IsFiniteSet(Opened) /\ Cardinality(Opened) \in Nat
<1>1. Used \subseteq Files /\ Opened \subseteq Files
  BY DEF Used, Opened
<1>2. IsFiniteSet(Used) /\ IsFiniteSet(Opened)
  BY <1>1, FilesAssumption, FS_Subset
<1> QED BY <1>2, FS_CardinalityType

LEMMA InitRef == Init => RefInv
<1> SUFFICES ASSUME Init PROVE RefInv
  OBVIOUS
<1>1. Used = {} /\ Opened = {}
  BY DEF Init, Used, Opened
<1> QED BY <1>1, FS_EmptySet DEF Init, RefInv

LEMMA NextRef == RefInv /\ [Next]_vars => RefInv'
<1> SUFFICES ASSUME RefInv, [Next]_vars PROVE RefInv'
  OBVIOUS
<1>1. CASE UNCHANGED <<file, refs>>
  BY <1>1 DEF RefInv, Used, Opened
<1>2. ASSUME NEW f \in Files, OpenStart(f) PROVE RefInv'
  <2>1. f \notin Used /\ f \notin Opened
    BY <1>2 DEF OpenStart, Used, Opened
  <2>2. Used' = Used \cup {f} /\ Opened' = Opened
    BY <1>2, <2>1 DEF OpenStart, RefInv, Used, Opened
  <2>3. Cardinality(Used \cup {f}) = Cardinality(Used) + 1
    BY <2>1, RefTypes, FS_AddElement
  <2>4. file' \in [Files -> {"closed", "opening", "open", "released"}]
    BY <1>2 DEF OpenStart, RefInv
  <2> QED BY <1>2, <2>2, <2>3, <2>4, RefTypes DEF OpenStart, RefInv
<1>3. ASSUME NEW f \in Files, CharOpen(f) PROVE RefInv'
  <2>1. f \in Used /\ f \notin Opened
    BY <1>3 DEF CharOpen, Used, Opened
  <2>2. Used' = Used /\ Opened' = Opened \cup {f}
    BY <1>3, <2>1 DEF CharOpen, RefInv, Used, Opened
  <2>3. Cardinality(Opened \cup {f}) = Cardinality(Opened) + 1
    BY <2>1, RefTypes, FS_AddElement
  <2>4. file' \in [Files -> {"closed", "opening", "open", "released"}]
    BY <1>3 DEF CharOpen, RefInv
  <2> QED BY <1>3, <2>2, <2>3, <2>4, RefTypes DEF CharOpen, RefInv
<1>4. ASSUME NEW f \in Files, CharOpenNoMem(f) \/ CloseEnd(f) PROVE RefInv'
  <2>1. f \in Used /\ f \notin Opened
    BY <1>4 DEF CharOpenNoMem, CloseEnd, Used, Opened
  <2>2. Used' = Used \ {f} /\ Opened' = Opened
    BY <1>4, <2>1 DEF CharOpenNoMem, CloseEnd, RefInv, Used, Opened
  <2>3. Cardinality(Used \ {f}) = Cardinality(Used) - 1
    BY <2>1, RefTypes, FS_RemoveElement
  <2>4. file' \in [Files -> {"closed", "opening", "open", "released"}]
    BY <1>4 DEF CharOpenNoMem, CloseEnd, RefInv
  <2> QED BY <1>4, <2>2, <2>3, <2>4, RefTypes DEF CharOpenNoMem, CloseEnd, RefInv
<1>5. ASSUME NEW f \in Files, CharRelease(f) PROVE RefInv'
  <2>1. f \in Used /\ f \in Opened
    BY <1>5 DEF CharRelease, Used, Opened
  <2>2. Used' = Used /\ Opened' = Opened \ {f}
    BY <1>5, <2>1 DEF CharRelease, RefInv, Used, Opened
  <2>3. Cardinality(Opened \ {f}) = Cardinality(Opened) - 1
    BY <2>1, RefTypes, FS_RemoveElement
  <2>4. file' \in [Files -> {"closed", "opening", "open", "released"}]
    BY <1>5 DEF CharRelease, RefInv
  <2> QED BY <1>5, <2>2, <2>3, <2>4, RefTypes DEF CharRelease, RefInv
<1>6. CASE UNCHANGED vars
  BY <1>1, <1>6 DEF vars
<1>7. CASE Load \/ Rmmod \/ Exit \/ Probe \/ TakeBuf1 \/ Remove \/ GiveUp
  BY <1>1, <1>7 DEF Load, Rmmod, Exit, Probe, TakeBuf1, Remove, GiveUp
<1>8. ASSUME NEW s, Take(s) \/ Fail(s) \/ Give(s) PROVE RefInv'
  BY <1>1, <1>8 DEF Take, Fail, FailAt, Give
<1> QED BY <1>2, <1>3, <1>4, <1>5, <1>6, <1>7, <1>8 DEF Next

(* The module can be unloaded exactly when no file is open.                *)
THEOREM References == Spec => []RefsBalanced
<1>1. ASSUME RefInv PROVE RefsBalanced
  <2>1. Used \subseteq Files /\ Opened \subseteq Files
    BY DEF Used, Opened
  <2>2. IsFiniteSet(Used) /\ IsFiniteSet(Opened)
    BY <2>1, FilesAssumption, FS_Subset
  <2>3. /\ Cardinality(Used) \in Nat /\ Cardinality(Opened) \in Nat
        /\ Cardinality(Used) = 0 <=> Used = {}
    BY <2>2, FS_CardinalityType, FS_EmptySet
  <2>4. Opened \subseteq Used
    BY DEF Used, Opened
  <2>5. Used = {} => Cardinality(Opened) = 0
    BY <2>2, <2>4, FS_EmptySet
  <2> QED BY <1>1, <2>3, <2>5 DEF RefInv, RefsBalanced, Used
<1> QED BY InitRef, NextRef, <1>1, PTL DEF Spec

(* The lifecycle is well typed, for any files and number of buffers: at    *)
(* most two references are held for a file.                                *)
THEOREM TypeCorrect == Spec => []TypeOK
<1> DEFINE Kept == /\ module \in {"out", "live", "going"}
                   /\ irqmode \in {"poll", "level", "msi"}
                   /\ bufs \subseteq 1..BufCount
<1>1. Init => Kept
  BY DEF Init
<1>2. Inv /\ Kept /\ [Next]_vars => Kept'
  <2> SUFFICES ASSUME Inv, Kept, [Next]_vars PROVE Kept'
    OBVIOUS
  <2>1. CASE TakeBuf1
    <3>1. at'.doing = "acquire"
      BY <2>1 DEF TakeBuf1, Acquiring, NextAcquisition, StartOf
    <3>2. at'.what \in Steps /\ BufsInv'
      BY <3>1, NextInv DEF Inv, AtType
    <3>3. Rank[at'.what] \in Nat
      BY <3>2, RankIs
    <3>4. bufs' = {} \/ (\E k \in 0..BufCount - 1 : bufs' = 1..k) \/ bufs' = 1..BufCount
      BY <3>1, <3>2, <3>3 DEF BufsInv
    <3> QED BY <2>1, <3>4, BufCountAssumption DEF TakeBuf1
  <2>2. CASE ~TakeBuf1
    BY <2>2 DEF Next, Load, Rmmod, Exit, Probe, Take, Fail, FailAt, Remove, Give, GiveUp,
         OpenStart, CharOpen, CharOpenNoMem, CharRelease, CloseEnd, vars
  <2> QED BY <2>1, <2>2
<1>3. ASSUME Kept, Inv, RefInv PROVE TypeOK
  <2>1. at \in [doing : {"unbound", "acquire", "bound", "release"}, what : DOMAIN FailTo \cup {"end"}]
    BY <1>3 DEF Inv, AtType, Steps
  <2>2. held \subseteq Resources
    <3>1. \A n : Upto(n) \subseteq Resources
      BY DEF Upto
    <3> QED BY <1>3, <3>1 DEF Inv, AtType, HeldInv, Unbound, Bound
  <2>3. refs \in 0 .. 2 * Cardinality(Files)
    <3>1. Used \subseteq Files /\ Opened \subseteq Files
      BY DEF Used, Opened
    <3>2. Cardinality(Used) <= Cardinality(Files) /\ Cardinality(Opened) <= Cardinality(Files)
      BY <3>1, FilesAssumption, FS_Subset
    <3>3. Cardinality(Files) \in Nat
      BY FilesAssumption, FS_CardinalityType
    <3> QED BY <1>3, <3>2, <3>3, RefTypes DEF RefInv
  <2> QED BY <1>3, <2>1, <2>2, <2>3 DEF TypeOK, RefInv
<1> QED BY <1>1, <1>2, <1>3, AlwaysInv, InitRef, NextRef, PTL DEF Spec

(* While a file is in use the module is live and the board bound.          *)
UseInv ==
  /\ Used # {} => Bound /\ module = "live"
  /\ Releasing("device") => module = "going"

LEMMA NextUse ==
  ASSUME ~Unbind
  PROVE  Inv /\ RefInv /\ RefsBalanced /\ UseInv /\ [Next]_vars => UseInv'
<1> SUFFICES ASSUME Inv, RefInv, RefsBalanced, UseInv, [Next]_vars PROVE UseInv'
  OBVIOUS
<1> USE DEF UseInv, Releasing
<1>1. CASE UNCHANGED vars
  BY <1>1 DEF vars, Used, Bound
<1>2. CASE Load \/ Exit
  BY <1>2 DEF Load, Exit, Used, Bound, Unbound, Inv, AtType
<1>3. CASE Rmmod
  <2>1. Used = {}
    BY <1>3 DEF Rmmod, RefsBalanced, Used
  <2> QED BY <1>3, <2>1 DEF Rmmod, Used
<1>4. CASE Probe \/ TakeBuf1 \/ GiveUp
  <2>1. Used' = Used /\ ~Bound
    BY <1>4 DEF Probe, TakeBuf1, GiveUp, Used, Bound, Unbound, Acquiring
  <2>2. at'.doing # "release"
    BY <1>4 DEF Probe, TakeBuf1, GiveUp, StartOf, NextAcquisition, Acquiring
  <2> QED BY <2>1, <2>2
<1>5. CASE Remove
  BY <1>5 DEF Remove, Used, StartOf
<1>6. ASSUME NEW s \in Steps, Take(s) PROVE UseInv'
  <2>1. Used' = Used /\ ~Bound
    BY <1>6 DEF Take, Used, Bound, Acquiring
  <2>2. at'.doing # "release"
    BY <1>6 DEF Take, StartOf, NextAcquisition
  <2> QED BY <2>1, <2>2
<1>7. ASSUME NEW s \in Steps, Fail(s) PROVE UseInv'
  <2>1. Used' = Used /\ ~Bound
    BY <1>7 DEF Fail, FailAt, Used, Bound, Acquiring
  <2>2. FailTo[s] # "device"
    BY StepNames DEF FailTo
  <2>3. at'.what # "device"
    BY <1>7, <2>2 DEF Fail, FailAt, StartOf
  <2> QED BY <2>1, <2>3
<1>8. ASSUME NEW s \in Steps, Give(s) PROVE UseInv'
  <2>1. Used' = Used /\ ~Bound
    BY <1>8 DEF Give, Used, Bound
  <2>2. s # "mask"
    BY <1>8, StepNames DEF Give, Inv, AtType, Labels
  <2>3. After(Releases, s) # "device"
    <3>1. Rank[After(Releases, s)] < Rank[s] /\ Rank[s] \in 1..14
      BY <2>2, NextReleased, RankIs
    <3> QED BY <3>1, RankIs
  <2>4. at'.what # "device"
    BY <1>8, <2>3 DEF Give, NextRelease, StartOf
  <2> QED BY <2>1, <2>4
<1>9. ASSUME NEW f \in Files,
             CharOpen(f) \/ CharOpenNoMem(f) \/ CharRelease(f) \/ CloseEnd(f)
      PROVE  UseInv'
  <2>1. f \in Used
    BY <1>9 DEF CharOpen, CharOpenNoMem, CharRelease, CloseEnd, Used
  <2> QED BY <1>9, <2>1 DEF CharOpen, CharOpenNoMem, CharRelease, CloseEnd, Bound
<1>10. ASSUME NEW f \in Files, OpenStart(f) PROVE UseInv'
  <2>1. "device" \in held /\ module = "live" /\ UNCHANGED <<module, at>>
    BY <1>10 DEF OpenStart
  <2>2. Bound
    <3>1. \A n \in Int : "device" \in Upto(n) => n >= 14
      BY RankIs DEF Upto
    <3>2. CASE at.doing = "acquire"
      <4>1. Rank[at.what] \in 1..14
        BY <3>2, RankIs DEF Inv, AtType
      <4> QED BY <2>1, <3>1, <3>2, <4>1 DEF Inv, HeldInv
    <3>3. CASE at.doing = "release"
      <4>1. Rank[at.what] \in 0..14 /\ at.what \in Steps \cup {"end"}
        BY <3>3, RankIs DEF Inv, AtType, Labels
      <4>2. Rank[at.what] >= 14
        BY <2>1, <3>1, <3>3, <4>1 DEF Inv, HeldInv
      <4>3. at.what = "device"
        BY <4>1, <4>2, RankIs, StepNames
      <4>4. at = [doing |-> "release", what |-> "device"]
        BY <3>3, <4>3 DEF Inv, AtType
      <4> QED BY <2>1, <4>4
    <3> QED BY <2>1, <3>2, <3>3 DEF Inv, AtType, HeldInv, Unbound, Bound
  <2> QED BY <2>1, <2>2 DEF Bound
<1> QED BY <1>1, <1>2, <1>3, <1>4, <1>5, <1>6, <1>7, <1>8, <1>9, <1>10 DEF Next, Steps

(* As long as the board is not unbound from a module in use, whoever has   *)
(* the device open has its registers and every DMA buffer.                 *)
THEOREM OpenFileSafe ==
  ASSUME ~Unbind
  PROVE  Spec => []OpenFileHasBoard
<1>1. Init => UseInv
  BY DEF Init, UseInv, Used, Releasing, StartOf
<1>2. Spec => []RefInv
  BY InitRef, NextRef, PTL DEF Spec
<1>3. Spec => []RefsBalanced
  BY References
<1>4. Spec => []UseInv
  BY <1>1, <1>2, <1>3, AlwaysInv, NextUse, PTL DEF Spec
<1>5. ASSUME Inv, UseInv PROVE OpenFileHasBoard
  <2>1. ASSUME NEW r \in {"kobj", "bar0", "bar2", "buf2"} PROVE r \in Upto(14)
    BY ResourceNames DEF Upto, Rank, Skipped
  <2> QED BY <1>5, <2>1 DEF Inv, HeldInv, BufsInv, UseInv, Used, OpenFileHasBoard
<1> QED BY AlwaysInv, <1>4, <1>5, PTL
=============================================================================
