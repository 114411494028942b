--------------------------- MODULE IocConfigProofs ---------------------------
(* Theorems about IocConfig, for any keys, clients, values and bounds.     *)
EXTENDS IocConfig, TLAPS

(* A remainder is its own remainder: a field read back and put again is    *)
(* written as it was.                                                      *)
LEMMA EncodeTwice ==
  ASSUME NEW k \in Fields, NEW v \in Int
  PROVE  /\ Encode(k, v) \in 0 .. FieldSize - 1
         /\ Encode(k, Encode(k, v)) = Encode(k, v)
<1>1. FieldSize \in Nat \ {0}
  BY DeviceAssumption
<1>2. v % FieldSize \in 0 .. FieldSize - 1
  BY <1>1
<1>3. \A w \in 0 .. FieldSize - 1 : w % FieldSize = w
  BY <1>1
<1> QED BY <1>2, <1>3 DEF Encode

(* What is put into the device is a natural number, whatever VAL is.       *)
LEMMA EncodeType ==
  ASSUME NEW k \in Keys, NEW v \in Int
  PROVE  Encode(k, v) \in Nat
BY EncodeTwice, DeviceAssumption DEF Encode, Keys

(* Where the put of a key is, and who has the locks it needs.              *)
Putting(t) == pc[t] \in {"driver", "read", "write"}
Driving(t) == pc[t] \notin {"idle", "driver"}

LockInv ==
  /\ \A t \in Threads : Putting(t) => recLock[key[t]] = t
  /\ \A k \in Keys : recLock[k] # Nobody =>
       recLock[k] \in Threads /\ Putting(recLock[k]) /\ key[recLock[k]] = k
  /\ \A t \in Threads : Driving(t) => port = t
  /\ stage = "devThread" => port = Main /\ pc[Main] = "idle"
  /\ stage \in {"try", "test", "load"} => pc[Main] = "idle"

(* Nobody writes the register between another's read and write of it, and  *)
(* every field holds what fits it.                                         *)
FieldInv ==
  /\ \A t \in Threads, f \in Fields :
       pc[t] = "write" /\ key[t] \in Fields => rdData[f] = dev[f]
  /\ \A f \in Fields : dev[f] = Encode(f, dev[f])

-----------------------------------------------------------------------------
(* The actions, one disjunct each.                                         *)
LEMMA Steps ==
  ASSUME [Next]_vars
  PROVE  \/ IocInit \/ DbpfRun
         \/ \E c \in Clients : \/ ClientPut(c) \/ ClientSends(c) \/ Save(c)
                               \/ SaveKey(c) \/ Truncate(c) \/ StoreKey(c) \/ Saved(c)
         \/ \E t \in Threads : CallDriver(t) \/ ReadReg(t) \/ WriteReg(t)
         \/ Try \/ DevThread \/ TestRun \/ Load
         \/ RestoreKey \/ RestoreFails \/ Apply
         \/ Restart
         \/ UNCHANGED vars
BY DEF Next, Driver, Saving, UserPMain

(* The order names keys, and there is a first of them.                     *)
LEMMA Order ==
  /\ Len(KeyOrder) \in Nat \ {0}
  /\ 1 \in 1..Len(KeyOrder)
  /\ \A n \in 1..Len(KeyOrder) : KeyOrder[n] \in Keys
BY OrderAssumption

(* The file's order has as many keys.                                      *)
LEMMA OrderInFile ==
  \A n \in 1..Len(KeyOrder) : FileOrder[n] \in Keys
BY FileAssumption

(* Every reachable state of the IOC is well typed.                         *)
THEOREM TypeCorrect == Spec => []TypeOK
<1> USE DEF TypeOK
<1>1. Init => TypeOK
  <2> SUFFICES ASSUME Init PROVE TypeOK
    OBVIOUS
  <2>1. /\ Booted(Clear) \in [Keys -> Nat]
        /\ Clear \in [Keys -> Nat] /\ Clear \in [Keys -> Int]
        /\ NoKeys \in [Keys -> Int \cup {Absent}]
    BY DeviceAssumption DEF Booted, Clear, NoKeys
  <2>2. KeyOrder[1] \in Keys /\ 1 \in 1..Len(KeyOrder)
    BY Order
  <2>3. 0 \in 0..Tries - 1 /\ 0 \in 0..MaxCalls /\ 0 \in 0..MaxRestarts
    BY TriesAssumption, BoundsAssumption
  <2> QED BY <2>1, <2>2, <2>3 DEF Init
<1>2. TypeOK /\ [Next]_vars => TypeOK'
  <2> SUFFICES ASSUME TypeOK, [Next]_vars PROVE TypeOK'
    OBVIOUS
  <2> USE DEF disk, records, main, Threads
  <2>1. CASE IocInit
    <3>1. val' = [k \in Keys |-> IF k \in Fields THEN dev[k] ELSE 0]
      BY <2>1 DEF IocInit
    <3>2. val' \in [Keys -> Int] /\ val' \in [Keys -> Nat]
      BY <3>1
    <3>3. dev' = [k \in Keys |-> IF k \in Rates THEN dev[k] ELSE val'[k]]
      BY <2>1 DEF IocInit
    <3>4. dev' \in [Keys -> Nat]
      BY <3>2, <3>3
    <3> QED BY <2>1, <3>2, <3>4 DEF IocInit
  <2>2. CASE DbpfRun
    BY <2>2 DEF DbpfRun
  <2>3. ASSUME NEW c \in Clients, ClientPut(c) PROVE TypeOK'
    <3>1. PICK k \in Keys, v \in Values \cup {Empty} : Put(c, k, v)
      BY <2>3 DEF ClientPut, Texts
    <3>2. c \in Threads /\ v \in Int
      BY ValuesAssumption DEF Empty
    <3>3. /\ recLock' \in [Keys -> Threads \cup {Nobody}] /\ val' \in [Keys -> Int]
          /\ moved' \subseteq Keys
      BY <3>1, <3>2 DEF Put
    <3>4. key' \in [Threads -> Keys]
      BY <3>1, <3>2 DEF Put
    <3>5. pc' = [pc EXCEPT ![c] = "driver"]
      BY <3>1 DEF Put, Goto
    <3>6. calls' \in 0..MaxCalls /\ disturbed' \in BOOLEAN
      BY <2>3, BoundsAssumption DEF ClientPut, ClientCall
    <3> QED
      BY <2>3, <3>1, <3>3, <3>4, <3>5, <3>6 DEF ClientPut, Put
  <2>4. ASSUME NEW c \in Clients, ClientSends(c) PROVE TypeOK'
    <3>1. PICK kind \in {Crosses, Rates} : Send(kind)
      BY <2>4 DEF ClientSends
    <3>2. sent' = [k \in Keys |-> IF k \in kind THEN dev[k] ELSE sent[k]]
      BY <3>1 DEF Send
    <3>3. sent' \in [Keys -> Nat]
      BY <3>2
    <3>4. calls' \in 0..MaxCalls /\ disturbed' \in BOOLEAN
      BY <2>4, BoundsAssumption DEF ClientSends, ClientCall
    <3> QED BY <2>4, <3>3, <3>4 DEF ClientSends
  <2>5. ASSUME NEW c \in Clients, Save(c) PROVE TypeOK'
    BY <2>5, Order, BoundsAssumption DEF Save, ClientCall, Goto
  <2>6. ASSUME NEW c \in Clients, SaveKey(c) PROVE TypeOK'
    <3>1. KeyOrder[spos] \in Keys
      BY Order
    <3>2. spos' \in 1..Len(KeyOrder)
      BY <2>6, Order DEF SaveKey, NextSaved
    <3> QED BY <2>6, <3>1, <3>2 DEF SaveKey, db_get, NextSaved, Goto
  <2>7. ASSUME NEW c \in Clients, Truncate(c) PROVE TypeOK'
    BY <2>7 DEF Truncate, Goto, NoKeys
  <2>8. ASSUME NEW c \in Clients, StoreKey(c) PROVE TypeOK'
    <3>1. FileOrder[spos] \in Keys
      BY OrderInFile
    <3>2. spos' \in 1..Len(KeyOrder)
      BY <2>8, Order DEF StoreKey, NextSaved
    <3> QED BY <2>8, <3>1, <3>2 DEF StoreKey, NextSaved, Goto
  <2>9. ASSUME NEW c \in Clients, Saved(c) PROVE TypeOK'
    BY <2>9 DEF Saved, Goto
  <2>10. ASSUME NEW t \in Threads, CallDriver(t) PROVE TypeOK'
    BY <2>10 DEF CallDriver, Goto
  <2>11. ASSUME NEW t \in Threads, ReadReg(t) PROVE TypeOK'
    BY <2>11 DEF ReadReg, Goto
  <2>12. ASSUME NEW t \in Threads, WriteReg(t) PROVE TypeOK'
    <3>1. Encode(key[t], val[key[t]]) \in Nat
      BY EncodeType
    <3>2. dev' \in [Keys -> Nat]
      BY <2>12, <3>1 DEF WriteReg
    <3> QED BY <2>12, <3>2 DEF WriteReg, Goto, Clear
  <2>13. CASE Try
    BY <2>13 DEF Try
  <2>14. CASE DevThread
    BY <2>14 DEF DevThread
  <2>15. CASE TestRun
    <3>1. tries' \in 0..Tries - 1
      BY <2>15, TriesAssumption DEF TestRun
    <3> QED BY <2>15, <3>1 DEF TestRun
  <2>16. CASE Load
    <3>1. ParseStream(file) \in [Keys -> Int \cup {Absent}]
      BY DEF ParseStream
    <3> QED BY <2>16, <3>1 DEF Load
  <2>17. CASE RestoreKey
    <3>1. KeyOrder[pos] \in Keys /\ pos' \in 1..Len(KeyOrder)
      BY <2>17, Order DEF RestoreKey, NextKey
    <3>2. Restored(KeyOrder[pos], iniFt) \in Int
      BY <3>1 DEF Restored
    <3> QED BY <2>17, <3>1, <3>2 DEF RestoreKey, NextKey, Put, Goto
  <2>18. CASE RestoreFails
    <3>1. pos' \in 1..Len(KeyOrder)
      BY <2>18, Order DEF RestoreFails, NextKey
    <3> QED BY <2>18, <3>1 DEF RestoreFails, NextKey
  <2>19. CASE Apply
    BY <2>19 DEF Apply, Send
  <2>20. CASE Restart
    <3>1. dev' \in [Keys -> Nat]
      <4>1. PICK d \in {dev, Clear} : dev' = Booted(d)
        BY <2>20 DEF Restart
      <4>2. d \in [Keys -> Nat]
        <5>1. Clear \in [Keys -> Nat]
          BY ONLY DEF Clear
        <5>2. dev \in [Keys -> Nat]
          BY Zenon
        <5> QED BY ONLY <5>1, <5>2, d \in {dev, Clear}
      <4>3. ASSUME NEW k \in Keys
            PROVE  (IF k \in Fields THEN d[k]
                    ELSE IF k \in Crosses THEN CpsDefault ELSE 0) \in Nat
        <5>1. d[k] \in Nat /\ CpsDefault \in Nat
          BY <4>2, DeviceAssumption
        <5> QED BY ONLY <5>1
      <4> QED BY ONLY <4>1, <4>3, Zenon DEF Booted
    <3>2. 0 \in 0..Tries - 1 /\ 1 \in 1..Len(KeyOrder)
      BY Order, TriesAssumption
    <3>3. restarts' \in 0..MaxRestarts
      BY <2>20, BoundsAssumption DEF Restart
    <3>5. KeyOrder[1] \in Keys
      BY Order
    <3>4. /\ Clear \in [Keys -> Nat] /\ Clear \in [Keys -> Int]
          /\ NoKeys \in [Keys -> Int \cup {Absent}]
      BY DEF Clear, NoKeys
    <3> QED BY <2>20, <3>1, <3>2, <3>3, <3>4, <3>5 DEF Restart
  <2>21. CASE UNCHANGED vars
    BY <2>21 DEF vars
  <2> QED
    BY Steps, <2>1, <2>2, <2>3, <2>4, <2>5, <2>6, <2>7, <2>8, <2>9, <2>10, <2>11,
       <2>12, <2>13, <2>14, <2>15, <2>16, <2>17, <2>18, <2>19, <2>20, <2>21
<1> QED BY <1>1, <1>2, PTL DEF Spec

-----------------------------------------------------------------------------
(* A put has its record's lock to the end, and the driver has one caller.  *)
THEOREM LocksHeld == Spec => []LockInv
<1>1. Init => LockInv
  BY ThreadsAssumption DEF Init, LockInv, Putting, Driving, Threads
<1>2. TypeOK /\ LockInv /\ [Next]_vars => LockInv'
  <2> SUFFICES ASSUME TypeOK, LockInv, [Next]_vars PROVE LockInv'
    OBVIOUS
  <2> USE ThreadsAssumption DEF TypeOK, LockInv, Putting, Driving, Threads,
          disk, records, main
  <2>1. CASE IocInit
    BY <2>1 DEF IocInit
  <2>2. CASE DbpfRun
    BY <2>2 DEF DbpfRun
  <2>3. ASSUME NEW c \in Clients, ClientPut(c) PROVE LockInv'
    <3>1. PICK k \in Keys, v \in Values \cup {Empty} : Put(c, k, v)
      BY <2>3 DEF ClientPut, Texts
    <3>2. /\ recLock' = [recLock EXCEPT ![k] = c]
          /\ key' = [key EXCEPT ![c] = k]
          /\ pc' = [pc EXCEPT ![c] = "driver"]
          /\ pc[c] = "idle" /\ recLock[k] = Nobody
          /\ UNCHANGED <<port, stage>>
      BY <2>3, <3>1 DEF ClientPut, Put, Goto
    <3>3. c # Main
      OBVIOUS
    <3>4. \A t \in Threads : Putting(t)' => recLock'[key'[t]] = t
      <4> SUFFICES ASSUME NEW t \in Threads, Putting(t)' PROVE recLock'[key'[t]] = t
        OBVIOUS
      <4>1. CASE t = c
        BY <3>2, <4>1
      <4>2. CASE t # c
        <5>1. Putting(t) /\ key'[t] = key[t]
          BY <3>2, <4>2
        <5>2. recLock[key[t]] = t
          BY <5>1
        <5>3. key[t] # k
          <6> SUFFICES ASSUME key[t] = k PROVE t = Nobody
            OBVIOUS
          <6> QED BY <3>2, <5>2
        <5> QED BY <3>2, <5>1, <5>2, <5>3
      <4> QED BY <4>1, <4>2
    <3>5. \A j \in Keys : recLock'[j] # Nobody =>
            recLock'[j] \in Threads /\ Putting(recLock[j])' /\ key'[recLock'[j]] = j
      <4> TAKE j \in Keys
      <4>1. CASE j = k
        BY <3>2, <3>3, <4>1
      <4>2. CASE j # k /\ recLock'[j] # Nobody
        <5>1. recLock'[j] = recLock[j]
          BY <3>2, <4>2
        <5>2. /\ recLock[j] \in Threads /\ Putting(recLock[j])
              /\ key[recLock[j]] = j
          BY <4>2, <5>1
        <5>3. recLock[j] # c
          BY <3>2, <3>3, <5>2
        <5> QED BY <3>2, <3>3, <5>1, <5>2, <5>3
      <4> QED BY <4>1, <4>2
    <3>6. \A t \in Threads : Driving(t)' => port' = t
      BY <3>2, <3>3
    <3> QED BY <3>2, <3>3, <3>4, <3>5, <3>6
  <2>4. ASSUME NEW c \in Clients, ClientSends(c) PROVE LockInv'
    BY <2>4 DEF ClientSends, Send, ClientCall
  <2>5. ASSUME NEW c \in Clients, Save(c) PROVE LockInv'
    BY <2>5 DEF Save, ClientCall, Goto
  <2>6. ASSUME NEW c \in Clients, SaveKey(c) PROVE LockInv'
    BY <2>6 DEF SaveKey, NextSaved, Goto
  <2>7. ASSUME NEW c \in Clients, Truncate(c) PROVE LockInv'
    BY <2>7 DEF Truncate, Goto
  <2>8. ASSUME NEW c \in Clients, StoreKey(c) PROVE LockInv'
    BY <2>8 DEF StoreKey, NextSaved, Goto
  <2>9. ASSUME NEW c \in Clients, Saved(c) PROVE LockInv'
    BY <2>9 DEF Saved, Goto
  <2>10. ASSUME NEW t \in Threads, CallDriver(t) PROVE LockInv'
    BY <2>10 DEF CallDriver, Goto
  <2>11. ASSUME NEW t \in Threads, ReadReg(t) PROVE LockInv'
    BY <2>11 DEF ReadReg, Goto
  <2>12. ASSUME NEW t \in Threads, WriteReg(t) PROVE LockInv'
    <3>1. /\ pc[t] = "write" /\ pc' = [pc EXCEPT ![t] = "idle"]
          /\ recLock' = [recLock EXCEPT ![key[t]] = Nobody]
          /\ port' = Nobody
          /\ UNCHANGED <<key, stage>>
      BY <2>12 DEF WriteReg, Goto
    <3>2. port = t /\ recLock[key[t]] = t /\ key[t] \in Keys
      BY <3>1
    <3>3. ASSUME NEW u \in Threads, Putting(u)' PROVE recLock'[key'[u]] = u
      <4>1. u # t /\ Putting(u)
        BY <3>1, <3>3
      <4>2. recLock[key[u]] = u
        BY <4>1
      <4> QED BY <3>1, <3>2, <4>1, <4>2
    <3>4. ASSUME NEW j \in Keys, recLock'[j] # Nobody
          PROVE  /\ recLock'[j] \in Threads /\ Putting(recLock[j])'
                 /\ key'[recLock'[j]] = j
      <4>1. j # key[t] /\ recLock'[j] = recLock[j]
        BY <3>1, <3>2, <3>4
      <4>2. /\ recLock[j] \in Threads /\ Putting(recLock[j])
            /\ key[recLock[j]] = j
        BY <3>4, <4>1
      <4>3. recLock[j] # t
        BY <4>1, <4>2
      <4> QED BY <3>1, <4>1, <4>2, <4>3
    <3>5. \A u \in Threads : ~Driving(u)'
      BY <3>1, <3>2
    <3>6. /\ stage' # "devThread"
          /\ stage' \in {"try", "test", "load"} => pc'[Main] = "idle"
      BY <3>1, <3>2
    <3> QED BY <3>3, <3>4, <3>5, <3>6
  <2>13. CASE Try
    BY <2>13 DEF Try
  <2>14. CASE DevThread
    BY <2>14 DEF DevThread
  <2>15. CASE TestRun
    BY <2>15 DEF TestRun
  <2>16. CASE Load
    BY <2>16 DEF Load
  <2>17. CASE RestoreKey
    <3>1. KeyOrder[pos] \in Keys
      BY Order
    <3>2. PICK k \in Keys : /\ recLock' = [recLock EXCEPT ![k] = Main]
                            /\ key' = [key EXCEPT ![Main] = k]
                            /\ recLock[k] = Nobody
      BY <2>17, <3>1 DEF RestoreKey, Put
    <3>3. /\ pc[Main] = "idle" /\ pc' = [pc EXCEPT ![Main] = "driver"]
          /\ port' = port /\ stage' \in {"restore", "apply"}
      BY <2>17 DEF RestoreKey, NextKey, Put, Goto
    <3>4. ASSUME NEW t \in Threads, Putting(t)' PROVE recLock'[key'[t]] = t
      <4>1. CASE t = Main
        BY <3>2, <4>1
      <4>2. CASE t # Main
        <5>1. Putting(t) /\ key'[t] = key[t]
          BY <3>2, <3>3, <3>4, <4>2
        <5>2. recLock[key[t]] = t
          BY <5>1
        <5> QED BY <3>2, <5>1, <5>2
      <4> QED BY <4>1, <4>2
    <3>5. \A j \in Keys : recLock'[j] # Nobody =>
            recLock'[j] \in Threads /\ Putting(recLock[j])' /\ key'[recLock'[j]] = j
      <4> TAKE j \in Keys
      <4>1. CASE j = k
        BY <3>2, <3>3, <4>1
      <4>2. CASE j # k /\ recLock'[j] # Nobody
        <5>1. recLock'[j] = recLock[j]
          BY <3>2, <4>2
        <5>2. /\ recLock[j] \in Threads /\ Putting(recLock[j])
              /\ key[recLock[j]] = j
          BY <4>2, <5>1
        <5>3. recLock[j] # Main
          BY <3>2, <3>3, <5>2
        <5> QED BY <3>2, <3>3, <5>1, <5>2, <5>3
      <4> QED BY <4>1, <4>2
    <3>6. \A t \in Threads : Driving(t)' => port' = t
      BY <3>2, <3>3
    <3> QED BY <3>2, <3>3, <3>4, <3>5, <3>6
  <2>18. CASE RestoreFails
    BY <2>18 DEF RestoreFails, NextKey
  <2>19. CASE Apply
    BY <2>19 DEF Apply, Send
  <2>20. CASE Restart
    BY <2>20 DEF Restart
  <2>21. CASE UNCHANGED vars
    BY <2>21 DEF vars
  <2> QED
    BY Steps, <2>1, <2>2, <2>3, <2>4, <2>5, <2>6, <2>7, <2>8, <2>9, <2>10, <2>11,
       <2>12, <2>13, <2>14, <2>15, <2>16, <2>17, <2>18, <2>19, <2>20, <2>21
<1> QED BY <1>1, <1>2, TypeCorrect, PTL DEF Spec

(* RecordShowsField, strengthened to the driver's copy of the register.    *)
FieldsInv == FieldInv /\ RecordShowsField

(* A record that nobody is putting shows its field of the register: the    *)
(* record's lock and the port's lock are enough to keep clients and the    *)
(* restore from undoing each other in a register they share.               *)
THEOREM FieldsKept == Spec => []RecordShowsField
<1>1. Init => FieldsInv
  <2> SUFFICES ASSUME Init PROVE FieldsInv
    OBVIOUS
  <2>1. \A f \in Fields : dev[f] = 0
    BY DEF Init, Booted, Clear, Keys
  <2>2. \A f \in Fields : Encode(f, 0) = 0
    BY DeviceAssumption DEF Encode
  <2> QED BY <2>1, <2>2 DEF Init, FieldsInv, FieldInv, RecordShowsField
<1>2. TypeOK /\ LockInv /\ FieldsInv /\ [Next]_vars => FieldsInv'
  <2> SUFFICES ASSUME TypeOK, LockInv, FieldsInv, [Next]_vars PROVE FieldsInv'
    OBVIOUS
  <2> USE ThreadsAssumption DEF TypeOK, LockInv, Putting, Driving, Threads, Keys,
          FieldsInv, FieldInv, RecordShowsField, disk, records, main
  <2>1. CASE IocInit
    <3>1. \A f \in Fields : dev'[f] = dev[f] /\ val'[f] = dev[f]
      BY <2>1, KeysAssumption DEF IocInit
    <3> QED BY <2>1, <3>1 DEF IocInit
  <2>2. CASE DbpfRun
    BY <2>2 DEF DbpfRun
  <2>3. ASSUME NEW c \in Clients, ClientPut(c) PROVE FieldsInv'
    BY <2>3, SMTT(30) DEF ClientPut, Put, ClientCall, Goto
  <2>4. ASSUME NEW c \in Clients, ClientSends(c) PROVE FieldsInv'
    BY <2>4 DEF ClientSends, Send, ClientCall
  <2>5. ASSUME NEW c \in Clients, Save(c) PROVE FieldsInv'
    BY <2>5 DEF Save, ClientCall, Goto
  <2>6. ASSUME NEW c \in Clients, SaveKey(c) PROVE FieldsInv'
    BY <2>6 DEF SaveKey, NextSaved, Goto
  <2>7. ASSUME NEW c \in Clients, Truncate(c) PROVE FieldsInv'
    BY <2>7 DEF Truncate, Goto
  <2>8. ASSUME NEW c \in Clients, StoreKey(c) PROVE FieldsInv'
    BY <2>8 DEF StoreKey, NextSaved, Goto
  <2>9. ASSUME NEW c \in Clients, Saved(c) PROVE FieldsInv'
    BY <2>9 DEF Saved, Goto
  <2>10. ASSUME NEW t \in Threads, CallDriver(t) PROVE FieldsInv'
    BY <2>10 DEF CallDriver, Goto
  <2>11. ASSUME NEW t \in Threads, ReadReg(t) PROVE FieldsInv'
    BY <2>11 DEF ReadReg, Goto
  <2>12. ASSUME NEW t \in Threads, WriteReg(t) PROVE FieldsInv'
    <3>1. \A f \in Fields :
            dev'[f] = IF f = key[t] THEN Encode(f, val[f]) ELSE dev[f]
      BY <2>12 DEF WriteReg
    <3>2. \A f \in Fields : dev'[f] = Encode(f, dev'[f])
      <4> TAKE f \in Fields
      <4>1. CASE f = key[t]
        <5>1. val[f] \in Int
          OBVIOUS
        <5>2. Encode(f, Encode(f, val[f])) = Encode(f, val[f])
          BY <5>1, EncodeTwice
        <5>3. dev'[f] = Encode(f, val[f])
          BY <3>1, <4>1
        <5> HIDE DEF TypeOK
        <5> QED BY <5>2, <5>3
      <4>2. CASE f # key[t]
        BY <3>1, <4>2
      <4> QED BY <4>1, <4>2
    <3>3. \A u \in Threads : pc'[u] # "write"
      BY <2>12 DEF WriteReg, Goto
    <3>4. \A f \in Fields : ioc' /\ recLock'[f] = Nobody => dev'[f] = Encode(f, val'[f])
      BY <2>12, <3>1 DEF WriteReg
    <3> QED BY <3>2, <3>3, <3>4
  <2>13. CASE Try
    BY <2>13 DEF Try
  <2>14. CASE DevThread
    BY <2>14 DEF DevThread
  <2>15. CASE TestRun
    BY <2>15 DEF TestRun
  <2>16. CASE Load
    BY <2>16 DEF Load
  <2>17. CASE RestoreKey
    <3>1. KeyOrder[pos] \in Keys
      BY Order
    <3> QED BY <2>17, <3>1 DEF RestoreKey, NextKey, Put, Goto
  <2>18. CASE RestoreFails
    BY <2>18 DEF RestoreFails, NextKey
  <2>19. CASE Apply
    BY <2>19 DEF Apply, Send
  <2>20. CASE Restart
    <3>1. \A f \in Fields : dev'[f] = dev[f] \/ dev'[f] = 0
      BY <2>20 DEF Restart, Booted, Clear
    <3>2. \A f \in Fields : Encode(f, 0) = 0
      BY DeviceAssumption DEF Encode
    <3> QED BY <2>20, <3>1, <3>2 DEF Restart
  <2>21. CASE UNCHANGED vars
    BY <2>21 DEF vars
  <2> QED
    BY Steps, <2>1, <2>2, <2>3, <2>4, <2>5, <2>6, <2>7, <2>8, <2>9, <2>10, <2>11,
       <2>12, <2>13, <2>14, <2>15, <2>16, <2>17, <2>18, <2>19, <2>20, <2>21
<1>3. FieldsInv => RecordShowsField
  BY DEF FieldsInv
<1> QED BY <1>1, <1>2, <1>3, TypeCorrect, LocksHeld, PTL DEF Spec
-----------------------------------------------------------------------------
(* How far a save has come: what it has collected or stored of the keys    *)
(* nobody put meanwhile.  Only a save that began in the endless loop says  *)
(* anything, as the restore changes iniFt.                                 *)
Saver(c)  == pc[c] \in {"collect", "truncate", "store", "saved"}
Untouched == Keys \ moved

SaveInv == \A c \in Clients :
  /\ Saver(c) => ioc /\ (moved = Keys \/ stage = "loop")
  /\ pc[c] = "collect" => \A m \in 1..spos - 1 :
       KeyOrder[m] \in Untouched => iniFt[KeyOrder[m]] = val[KeyOrder[m]]
  /\ pc[c] = "truncate" => spos = 1
  /\ pc[c] = "store" => \A m \in 1..spos - 1 :
       FileOrder[m] \in Untouched => file[FileOrder[m]] = iniFt[FileOrder[m]]
  /\ pc[c] \in {"truncate", "store", "saved"} => \A k \in Untouched : iniFt[k] = val[k]
  /\ pc[c] = "saved" => \A k \in Untouched : file[k] = iniFt[k]

(* There is one save at a time, by the holder of the port's lock.          *)
LEMMA OneSaver ==
  ASSUME LockInv, NEW c \in Clients, NEW d \in Clients, Saver(c), Saver(d)
  PROVE  c = d
  BY DEF LockInv, Driving, Saver, Threads

(* A step of another that puts a key, or of none.                          *)
LEMMA SaveKept ==
  ASSUME SaveInv, UNCHANGED <<spos, file, iniFt>>, ioc => ioc',
         stage = "loop" => stage' = "loop",
         moved \subseteq moved', moved' \subseteq Keys,
         \A k \in Keys \ moved' : val'[k] = val[k],
         \A c \in Clients : Saver(c)' => pc'[c] = pc[c]
  PROVE  SaveInv'
  BY DEF SaveInv, Saver, Untouched

LEMMA SaveStep ==
  ASSUME TypeOK, LockInv, SaveInv, NEW c \in Clients,
         SaveKey(c) \/ Truncate(c) \/ StoreKey(c) \/ Saved(c)
  PROVE  SaveInv'
<1> USE DEF TypeOK, disk, records, main
<1>1. Saver(c) /\ \A d \in Clients \ {c} : ~Saver(d)
  <2>1. Saver(c)
    BY DEF Saver, SaveKey, Truncate, StoreKey, Saved
  <2> QED BY <2>1, OneSaver
<1>2. c \in Threads /\ \A d \in Clients \ {c} : ~Saver(d)'
  <2>1. \A d \in Clients \ {c} : pc'[d] = pc[d]
    BY DEF SaveKey, Truncate, StoreKey, Saved, NextSaved, Goto, Threads
  <2> QED BY <1>1, <2>1 DEF Saver, Threads
<1>3. Len(KeyOrder) \in Nat /\ spos \in Nat /\ spos <= Len(KeyOrder)
  BY Order
<1>4. CASE SaveKey(c)
  <2> DEFINE k == KeyOrder[spos]
  <2>1. /\ k \in Keys /\ iniFt' = [iniFt EXCEPT ![k] = val[k]]
        /\ pc[c] = "collect"
        /\ UNCHANGED <<file, val, moved, ioc, stage>>
    BY <1>4, Order DEF SaveKey, db_get
  <2>2. \A m \in 1..spos : KeyOrder[m] \in Untouched => iniFt'[KeyOrder[m]] = val[KeyOrder[m]]
    <3> TAKE m \in 1..spos
    <3>1. KeyOrder[m] \in Keys
      BY <1>3, Order
    <3>2. CASE KeyOrder[m] = k
      BY <2>1, <3>2
    <3>3. CASE KeyOrder[m] # k
      <4>1. m \in 1..spos - 1
        BY <1>3, <3>3
      <4> QED BY <2>1, <3>1, <3>3, <4>1 DEF SaveInv
    <3> QED BY <3>2, <3>3
  <2>3. CASE spos = Len(KeyOrder)
    <3>1. pc'[c] = "truncate" /\ spos' = 1
      BY <1>2, <1>4, <2>3 DEF SaveKey, NextSaved, Goto
    <3>2. ASSUME NEW j \in Untouched PROVE iniFt'[j] = val[j]
      <4>1. PICK n \in 1..Len(KeyOrder) : KeyOrder[n] = j
        BY CoverAssumption DEF Untouched
      <4> QED BY <2>2, <2>3, <4>1
    <3> QED BY <1>1, <1>2, <2>1, <3>1, <3>2 DEF SaveInv, Saver, Untouched
  <2>4. CASE spos # Len(KeyOrder)
    <3>1. pc'[c] = "collect" /\ spos' - 1 = spos
      BY <1>2, <1>3, <1>4, <2>1, <2>4 DEF SaveKey, NextSaved, Goto
    <3> QED BY <1>1, <1>2, <2>1, <2>2, <3>1 DEF SaveInv, Saver, Untouched
  <2> QED BY <2>3, <2>4
<1>5. CASE Truncate(c)
  <2>1. /\ pc[c] = "truncate" /\ pc'[c] = "store" /\ spos' = 1
        /\ UNCHANGED <<iniFt, val, moved, ioc, stage>>
    BY <1>2, <1>5 DEF Truncate, Goto, SaveInv
  <2> QED BY <1>1, <1>2, <2>1, SMTT(30) DEF SaveInv, Saver, Untouched
<1>6. CASE StoreKey(c)
  <2> DEFINE k == FileOrder[spos]
  <2>1. /\ k \in Keys /\ file' = [file EXCEPT ![k] = iniFt[k]]
        /\ pc[c] = "store"
        /\ UNCHANGED <<iniFt, val, moved, ioc, stage>>
    BY <1>6, OrderInFile DEF StoreKey
  <2>2. \A m \in 1..spos : FileOrder[m] \in Untouched => file'[FileOrder[m]] = iniFt[FileOrder[m]]
    <3> TAKE m \in 1..spos
    <3>1. FileOrder[m] \in Keys
      BY <1>3, OrderInFile
    <3>2. CASE FileOrder[m] = k
      BY <2>1, <3>2
    <3>3. CASE FileOrder[m] # k
      <4>1. m \in 1..spos - 1
        BY <1>3, <3>3
      <4> QED BY <2>1, <3>1, <3>3, <4>1 DEF SaveInv
    <3> QED BY <3>2, <3>3
  <2>3. CASE spos = Len(KeyOrder)
    <3>1. pc'[c] = "saved"
      BY <1>2, <1>6, <2>3 DEF StoreKey, NextSaved, Goto
    <3>2. ASSUME NEW j \in Untouched PROVE file'[j] = iniFt[j]
      <4>1. PICK n \in 1..Len(KeyOrder) : FileOrder[n] = j
        BY CoverAssumption DEF Untouched
      <4> QED BY <2>2, <2>3, <4>1
    <3> QED BY <1>1, <1>2, <2>1, <3>1, <3>2 DEF SaveInv, Saver, Untouched
  <2>4. CASE spos # Len(KeyOrder)
    <3>1. pc'[c] = "store" /\ spos' - 1 = spos
      BY <1>2, <1>3, <1>6, <2>1, <2>4 DEF StoreKey, NextSaved, Goto
    <3> QED BY <1>1, <1>2, <2>1, <2>2, <3>1 DEF SaveInv, Saver, Untouched
  <2> QED BY <2>3, <2>4
<1>7. CASE Saved(c)
  <2>1. pc'[c] = "idle"
    BY <1>2, <1>7 DEF Saved, Goto
  <2>2. \A d \in Clients : ~Saver(d)'
    BY <1>2, <2>1 DEF Saver
  <2> QED BY <2>2 DEF SaveInv, Saver
<1> QED BY <1>4, <1>5, <1>6, <1>7

(* A save leaves in the file what the records show, but for the keys that  *)
(* were put while it ran.                                                  *)
THEOREM StoredAsShown == Spec => []SavedAsShown
<1>1. Init => SaveInv
  BY DEF Init, SaveInv, Saver, Threads
<1>2. TypeOK /\ LockInv /\ SaveInv /\ [Next]_vars => SaveInv'
  <2> SUFFICES ASSUME TypeOK, LockInv, SaveInv, [Next]_vars PROVE SaveInv'
    OBVIOUS
  <2> USE DEF TypeOK, disk, records, main
  <2>1. CASE IocInit
    <3>1. \A c \in Clients : ~Saver(c)
      BY <2>1 DEF IocInit, SaveInv
    <3>2. \A c \in Clients : ~Saver(c)'
      BY <2>1, <3>1 DEF IocInit, Saver
    <3> QED BY <3>2 DEF SaveInv, Saver
  <2>2. CASE DbpfRun
    BY <2>2, SaveKept DEF DbpfRun
  <2>3. ASSUME NEW c \in Clients, ClientPut(c) PROVE SaveInv'
    <3>1. PICK k \in Keys, v \in Values \cup {Empty} : Put(c, k, v)
      BY <2>3 DEF ClientPut, Texts
    <3>2. UNCHANGED stage
      BY <2>3 DEF ClientPut
    <3> QED BY <3>1, <3>2, SaveKept DEF Put, Goto, Saver, Threads
  <2>4. ASSUME NEW c \in Clients, ClientSends(c) PROVE SaveInv'
    BY <2>4, SaveKept DEF ClientSends
  <2>5. ASSUME NEW c \in Clients, Save(c) PROVE SaveInv'
    <3>1. ASSUME NEW d \in Clients, Saver(d) PROVE FALSE
      <4>1. port = d
        BY <3>1 DEF LockInv, Driving, Saver, Threads
      <4>2. port = Nobody /\ d \in Threads
        BY <2>5 DEF Save, Threads
      <4> QED BY <4>1, <4>2, ThreadsAssumption
    <3>2. /\ ioc' /\ spos' = 1 /\ (moved' = Keys \/ stage' = "loop")
          /\ \A d \in Clients : IF d = c THEN pc'[d] = "collect" ELSE pc'[d] = pc[d]
      BY <2>5 DEF Save, Goto, Threads
    <3> QED BY <3>1, <3>2 DEF SaveInv, Saver
  <2>6. ASSUME NEW c \in Clients, SaveKey(c) \/ Truncate(c) \/ StoreKey(c) \/ Saved(c)
        PROVE  SaveInv'
    BY <2>6, SaveStep
  <2>7. ASSUME NEW t \in Threads, CallDriver(t) PROVE SaveInv'
    BY <2>7, SaveKept DEF CallDriver, Goto, Saver, Threads
  <2>8. ASSUME NEW t \in Threads, ReadReg(t) PROVE SaveInv'
    BY <2>8, SaveKept DEF ReadReg, Goto, Saver, Threads
  <2>9. ASSUME NEW t \in Threads, WriteReg(t) PROVE SaveInv'
    BY <2>9, SaveKept DEF WriteReg, Goto, Saver, Threads
  <2>10. CASE Try \/ DevThread \/ TestRun \/ RestoreFails \/ Apply
    BY <2>10, SaveKept DEF Try, DevThread, TestRun, RestoreFails, NextKey, Apply, Saver
  <2>11. CASE Load
    <3>1. stage = "load" /\ UNCHANGED <<pc, moved, ioc>>
      BY <2>11 DEF Load
    <3>2. ASSUME NEW c \in Clients, Saver(c) PROVE ioc /\ moved = Keys
      BY <3>1, <3>2 DEF SaveInv
    <3>3. \A c \in Clients : Saver(c)' => ioc' /\ moved' = Keys
      BY <3>1, <3>2 DEF Saver
    <3>4. \A c \in Clients : pc[c] = "truncate" => spos = 1
      BY DEF SaveInv
    <3> QED BY <2>11, <3>1, <3>3, <3>4, SMTT(30) DEF SaveInv, Saver, Untouched, Load
  <2>12. CASE RestoreKey
    <3>1. PICK k \in Keys : Put(Main, k, Restored(KeyOrder[pos], iniFt))
      BY <2>12, Order DEF RestoreKey
    <3>2. stage # "loop"
      BY <2>12 DEF RestoreKey
    <3> QED BY <3>1, <3>2, SaveKept, ThreadsAssumption DEF Put, Goto, Saver, Threads
  <2>13. CASE Restart
    <3>1. \A c \in Clients : ~Saver(c)'
      BY <2>13 DEF Restart, Saver, Threads
    <3> QED BY <3>1 DEF SaveInv, Saver
  <2>14. CASE UNCHANGED vars
    BY <2>14, SaveKept DEF vars, Saver
  <2> QED
    BY Steps, <2>1, <2>2, <2>3, <2>4, <2>5, <2>6, <2>7, <2>8, <2>9, <2>10, <2>11,
       <2>12, <2>13, <2>14
<1>3. SaveInv => SavedAsShown
  BY DEF SaveInv, Saver, Untouched, SavedAsShown
<1> QED BY <1>1, <1>2, <1>3, TypeCorrect, LocksHeld, PTL DEF Spec
-----------------------------------------------------------------------------
(* Before iocInit nobody is putting anything, and no rate is in memory.    *)
BootInv == ~ioc => /\ \A t \in Threads : pc[t] = "idle"
                   /\ \A k \in Rates : dev[k] = 0

(* A text record that nobody is putting shows its entry of cpsOut, or its  *)
(* rate in memory.                                                         *)
TextInv == \A k \in Crosses \cup Rates :
  ioc /\ recLock[k] = Nobody => dev[k] = Encode(k, val[k])

(* A start that no client has disturbed yet: what was read of the file,    *)
(* and how much of it is in the records.                                   *)
StartInv == ~disturbed =>
  /\ \A c \in Clients : pc[c] = "idle"
  /\ stage \in {"try", "devThread", "test", "load"} => iniFt = NoKeys /\ pos = 1
  /\ stage \in {"restore", "apply", "loop"} => iniFt = ParseStream(file)
  /\ stage = "restore" =>
       /\ pos # 1 => ioc
       /\ \A m \in 1..pos - 1 : val[KeyOrder[m]] = Restored(KeyOrder[m], iniFt)
  /\ stage \in {"apply", "loop"} => ioc /\ \A k \in Keys : val[k] = Restored(k, iniFt)
  /\ stage = "loop" => pc[Main] = "idle" /\ \A k \in Crosses : sent[k] = dev[k]

(* Until a client asks for it nothing is written to the event code RAM.    *)
RamInv == ~disturbed => \A k \in Rates : sent[k] = 0

(* Nothing can be read of an empty file.                                   *)
LEMMA ParseNothing == ParseStream(NoKeys) = NoKeys
  BY DEF ParseStream, NoKeys

LEMMA BootNext ==
  TypeOK /\ BootInv /\ [Next]_vars => BootInv'
<1> SUFFICES ASSUME TypeOK, BootInv, [Next]_vars PROVE BootInv'
  OBVIOUS
<1> USE DEF TypeOK, disk, records, main, Keys
<1>1. CASE ioc /\ ~Restart
  <2>1. ioc'
    BY <1>1, Steps DEF IocInit, DbpfRun, ClientPut, Put, ClientSends, Save, SaveKey,
       Truncate, StoreKey, Saved, CallDriver, ReadReg, WriteReg, Try, DevThread,
       TestRun, Load, RestoreKey, RestoreFails, Apply, vars
  <2> QED BY <2>1 DEF BootInv
<1>2. CASE ~ioc /\ ~Restart
  <2>1. \A t \in Threads : pc[t] = "idle"
    BY <1>2 DEF BootInv
  <2>2. /\ \A c \in Clients : /\ ~ClientPut(c) /\ ~ClientSends(c) /\ ~Save(c)
                             /\ ~SaveKey(c) /\ ~Truncate(c) /\ ~StoreKey(c) /\ ~Saved(c)
        /\ \A t \in Threads : ~CallDriver(t) /\ ~ReadReg(t) /\ ~WriteReg(t)
        /\ ~RestoreKey
    BY <1>2, <2>1 DEF ClientPut, Put, ClientSends, Save, SaveKey, Truncate, StoreKey,
       Saved, CallDriver, ReadReg, WriteReg, RestoreKey, Threads
  <2>3. CASE IocInit
    BY <2>3 DEF IocInit, BootInv
  <2>4. CASE \/ DbpfRun \/ Try \/ DevThread \/ TestRun \/ Load \/ RestoreFails
             \/ Apply \/ UNCHANGED vars
    BY <2>4, <1>2 DEF DbpfRun, Try, DevThread, TestRun, Load, RestoreFails, Apply, vars,
       BootInv
  <2> QED BY Steps, <1>2, <2>2, <2>3, <2>4
<1>3. CASE Restart
  <2>1. \A t \in Threads : pc'[t] = "idle"
    BY <1>3 DEF Restart
  <2>2. \A k \in Rates : dev'[k] = 0
    BY <1>3, KeysAssumption DEF Restart, Booted
  <2> QED BY <2>1, <2>2 DEF BootInv
<1> QED BY <1>1, <1>2, <1>3

LEMMA TextNext ==
  TypeOK /\ LockInv /\ BootInv /\ TextInv /\ [Next]_vars => TextInv'
<1> SUFFICES ASSUME TypeOK, LockInv, BootInv, TextInv, [Next]_vars PROVE TextInv'
  OBVIOUS
<1> USE DEF TypeOK, disk, records, main, Keys
<1>1. ASSUME UNCHANGED <<ioc, recLock, dev, val>> PROVE TextInv'
  BY <1>1 DEF TextInv
<1>2. ASSUME NEW t \in Threads, NEW j \in Keys, NEW v, Put(t, j, v) PROVE TextInv'
  <2>1. t # Nobody
    BY ThreadsAssumption
  <2>2. /\ recLock' = [recLock EXCEPT ![j] = t] /\ val' = [val EXCEPT ![j] = v]
        /\ UNCHANGED <<dev, ioc>>
    BY <1>2 DEF Put
  <2>3. ASSUME NEW k \in Crosses \cup Rates, ioc', recLock'[k] = Nobody PROVE dev'[k] = Encode(k, val'[k])
    <3>1. k # j
      BY <2>1, <2>2, <2>3
    <3>2. recLock[k] = Nobody /\ val'[k] = val[k] /\ ioc
      BY <2>2, <2>3, <3>1
    <3> QED BY <2>2, <3>2 DEF TextInv
  <2> QED BY <2>3 DEF TextInv
<1>3. CASE IocInit
  <2>1. \A k \in Crosses \cup Rates : val'[k] = 0 /\ dev'[k] = 0
    BY <1>3, KeysAssumption DEF IocInit, BootInv
  <2>2. \A k \in Crosses \cup Rates : Encode(k, 0) = 0
    BY KeysAssumption DEF Encode
  <2> QED BY <2>1, <2>2 DEF TextInv
<1>4. ASSUME NEW c \in Clients, ClientPut(c) PROVE TextInv'
  BY <1>2, <1>4 DEF ClientPut, Threads
<1>5. ASSUME NEW t \in Threads, WriteReg(t) PROVE TextInv'
  <2>1. \A k \in Crosses \cup Rates : dev'[k] = IF k = key[t] THEN Encode(k, val[k]) ELSE dev[k]
    BY <1>5, KeysAssumption DEF WriteReg
  <2>2. \A k \in Crosses \cup Rates : k # key[t] => recLock'[k] = recLock[k]
    BY <1>5 DEF WriteReg
  <2>3. UNCHANGED <<ioc, val>>
    BY <1>5 DEF WriteReg
  <2> QED BY <2>1, <2>2, <2>3 DEF TextInv
<1>6. CASE RestoreKey
  BY <1>2, <1>6, Order DEF RestoreKey, Threads
<1>7. CASE Restart
  BY <1>7 DEF Restart, TextInv
<1>8. ASSUME NEW c \in Clients, \/ ClientSends(c) \/ Save(c)
                               \/ SaveKey(c) \/ Truncate(c) \/ StoreKey(c) \/ Saved(c)
      PROVE  TextInv'
  BY <1>1, <1>8 DEF ClientSends, Save, SaveKey, Truncate, StoreKey, Saved
<1>9. ASSUME NEW t \in Threads, CallDriver(t) \/ ReadReg(t) PROVE TextInv'
  BY <1>1, <1>9 DEF CallDriver, ReadReg
<1>10. CASE \/ DbpfRun \/ Try \/ DevThread \/ TestRun \/ Load \/ RestoreFails \/ Apply
           \/ UNCHANGED vars
  BY <1>1, <1>10 DEF DbpfRun, Try, DevThread, TestRun, Load, RestoreFails, Apply, vars
<1> QED BY Steps, <1>3, <1>4, <1>5, <1>6, <1>7, <1>8, <1>9, <1>10

LEMMA StartNext ==
  TypeOK /\ LockInv /\ StartInv /\ [Next]_vars => StartInv'
<1> SUFFICES ASSUME TypeOK, LockInv, StartInv, [Next]_vars PROVE StartInv'
  OBVIOUS
<1> USE DEF TypeOK, disk, records, main
<1>1. ASSUME UNCHANGED <<disturbed, iniFt, pos, file, val, stage, sent>>, ioc => ioc',
             \A c \in Clients : pc[c] = "idle" => pc'[c] = "idle",
             stage = "loop" /\ pc[Main] = "idle" => pc'[Main] = "idle" /\ dev' = dev
      PROVE  StartInv'
  BY <1>1 DEF StartInv
<1>2. ASSUME disturbed' PROVE StartInv'
  BY <1>2 DEF StartInv
<1>3. CASE IocInit
  <2>1. /\ ~ioc /\ ioc'
        /\ UNCHANGED <<disturbed, iniFt, pos, file, stage, sent, pc>>
    BY <1>3 DEF IocInit
  <2>2. ~disturbed => (stage = "restore" => pos = 1) /\ stage \notin {"apply", "loop"}
    BY <2>1 DEF StartInv
  <2> QED BY <2>1, <2>2 DEF StartInv
<1>4. CASE DbpfRun
  BY <1>1, <1>4 DEF DbpfRun
<1>5. ASSUME NEW c \in Clients, ClientPut(c) \/ ClientSends(c) \/ Save(c)
      PROVE  StartInv'
  BY <1>2, <1>5 DEF ClientPut, ClientSends, Save, ClientCall
<1>6. ASSUME NEW c \in Clients, SaveKey(c) \/ Truncate(c) \/ StoreKey(c) \/ Saved(c)
      PROVE  StartInv'
  BY <1>6 DEF StartInv, SaveKey, Truncate, StoreKey, Saved
<1>7. ASSUME NEW t \in Threads, CallDriver(t) \/ ReadReg(t) \/ WriteReg(t)
      PROVE  StartInv'
  <2>1. UNCHANGED <<disturbed, iniFt, pos, file, val, stage, sent, ioc>>
    BY <1>7 DEF CallDriver, ReadReg, WriteReg
  <2>2. pc[t] # "idle" /\ \A u \in Threads \ {t} : pc'[u] = pc[u]
    BY <1>7 DEF CallDriver, ReadReg, WriteReg, Goto
  <2>3. CASE disturbed
    BY <1>2, <2>1, <2>3
  <2>4. CASE ~disturbed
    <3>1. t = Main
      BY <2>2, <2>4 DEF StartInv, Threads
    <3> QED BY <1>1, <2>1, <2>2, <3>1, ThreadsAssumption DEF Threads
  <2> QED BY <2>3, <2>4
<1>8. CASE Try \/ DevThread \/ TestRun
  <2>1. /\ stage \in {"try", "devThread", "test"}
        /\ stage' \in {"try", "devThread", "test", "load"}
        /\ UNCHANGED <<disturbed, iniFt, pos, pc>>
    BY <1>8 DEF Try, DevThread, TestRun
  <2> QED BY <2>1 DEF StartInv
<1>9. CASE Load
  <2>1. /\ stage = "load" /\ stage' = "restore"
        /\ UNCHANGED <<disturbed, file, pos, pc>>
    BY <1>9 DEF Load
  <2>2. ~disturbed => pos = 1 /\ iniFt = NoKeys
    BY <2>1 DEF StartInv
  <2>3. ~disturbed => iniFt' = ParseStream(file)
    BY <1>9, <2>2, ParseNothing DEF Load
  <2> QED BY <2>1, <2>2, <2>3 DEF StartInv
<1>10. CASE RestoreKey
  <2> DEFINE k == KeyOrder[pos]
  <2>1. /\ stage = "restore" /\ ioc /\ k \in Keys
        /\ val' = [val EXCEPT ![k] = Restored(k, iniFt)]
        /\ UNCHANGED <<disturbed, iniFt, file, ioc>>
    BY <1>10, Order DEF RestoreKey, Put
  <2>2. \A c \in Clients : pc'[c] = pc[c]
    BY <1>10, ThreadsAssumption DEF RestoreKey, Put, Goto, Threads
  <2>3. /\ pos' = IF pos = Len(KeyOrder) THEN 1 ELSE pos + 1
        /\ stage' = IF pos = Len(KeyOrder) THEN "apply" ELSE "restore"
    BY <1>10 DEF RestoreKey, NextKey
  <2>4. pos \in Nat /\ pos \in 1..Len(KeyOrder) /\ Len(KeyOrder) \in Nat
    BY Order
  <2>5. ASSUME ~disturbed, NEW m \in 1..pos
        PROVE  val'[KeyOrder[m]] = Restored(KeyOrder[m], iniFt)
    <3>1. KeyOrder[m] \in Keys
      BY <2>4, Order
    <3>2. CASE KeyOrder[m] = k
      BY <2>1, <3>2
    <3>3. CASE KeyOrder[m] # k
      <4>1. m \in 1..pos - 1
        BY <2>4, <3>3
      <4>2. val[KeyOrder[m]] = Restored(KeyOrder[m], iniFt)
        BY <2>1, <2>5, <4>1 DEF StartInv
      <4> QED BY <2>1, <3>1, <3>3, <4>2
    <3> QED BY <3>2, <3>3
  <2> HIDE DEF k
  <2>6. \A j : Restored(j, iniFt)' = Restored(j, iniFt)
    BY <2>1 DEF Restored
  <2>7. CASE pos = Len(KeyOrder)
    <3>1. ASSUME ~disturbed, NEW j \in Keys PROVE val'[j] = Restored(j, iniFt)
      <4>1. PICK n \in 1..Len(KeyOrder) : KeyOrder[n] = j
        BY CoverAssumption
      <4> QED BY <2>5, <2>7, <3>1, <4>1
    <3> QED BY <2>1, <2>2, <2>3, <2>6, <2>7, <3>1 DEF StartInv
  <2>8. CASE pos # Len(KeyOrder)
    <3>1. pos' - 1 = pos /\ stage' = "restore"
      BY <2>3, <2>4, <2>8
    <3>2. ~disturbed => \A m \in 1..pos' - 1 : val'[KeyOrder[m]] = Restored(KeyOrder[m], iniFt)
      BY <2>5, <3>1
    <3> QED BY <2>1, <2>2, <2>6, <3>1, <3>2 DEF StartInv
  <2> QED BY <2>7, <2>8
<1>11. CASE RestoreFails
  BY <1>2, <1>11 DEF RestoreFails
<1>12. CASE Apply
  <2>1. /\ stage = "apply" /\ stage' = "loop" /\ pc[Main] = "idle"
        /\ UNCHANGED <<disturbed, iniFt, file, val, ioc, pc, dev>>
    BY <1>12 DEF Apply
  <2>2. ioc => \A k \in Crosses : sent'[k] = dev[k]
    BY <1>12 DEF Apply, Send, Keys
  <2> QED BY <2>1, <2>2 DEF StartInv
<1>13. CASE Restart
  BY <1>13 DEF Restart, StartInv, Threads
<1>14. CASE UNCHANGED vars
  BY <1>1, <1>14 DEF vars
<1> QED
  BY Steps, <1>3, <1>4, <1>5, <1>6, <1>7, <1>8, <1>9, <1>10, <1>11, <1>12, <1>13, <1>14

LEMMA RamNext ==
  TypeOK /\ RamInv /\ [Next]_vars => RamInv'
<1> SUFFICES ASSUME TypeOK, RamInv, [Next]_vars PROVE RamInv'
  OBVIOUS
<1> USE DEF TypeOK, disk, records, main, Keys
<1>1. ASSUME UNCHANGED <<sent, disturbed>> PROVE RamInv'
  BY <1>1 DEF RamInv
<1>2. ASSUME disturbed' PROVE RamInv'
  BY <1>2 DEF RamInv
<1>3. ASSUME NEW c \in Clients, ClientPut(c) \/ ClientSends(c) \/ Save(c)
      PROVE  RamInv'
  BY <1>2, <1>3 DEF ClientPut, ClientSends, Save, ClientCall
<1>4. ASSUME NEW c \in Clients, SaveKey(c) \/ Truncate(c) \/ StoreKey(c) \/ Saved(c)
      PROVE  RamInv'
  BY <1>1, <1>4 DEF SaveKey, Truncate, StoreKey, Saved
<1>5. ASSUME NEW t \in Threads, CallDriver(t) \/ ReadReg(t) \/ WriteReg(t)
      PROVE  RamInv'
  BY <1>1, <1>5 DEF CallDriver, ReadReg, WriteReg
<1>6. CASE IocInit \/ DbpfRun \/ Try \/ DevThread \/ TestRun \/ Load \/ UNCHANGED vars
  BY <1>1, <1>6 DEF IocInit, DbpfRun, Try, DevThread, TestRun, Load, vars
<1>7. CASE RestoreKey
  BY <1>1, <1>7 DEF RestoreKey, Put
<1>8. CASE RestoreFails
  BY <1>2, <1>8 DEF RestoreFails
<1>9. CASE Apply
  <2>1. \A k \in Rates : sent'[k] = sent[k]
    BY <1>9, KeysAssumption DEF Apply, Send
  <2>2. UNCHANGED disturbed
    BY <1>9 DEF Apply
  <2> QED BY <2>1, <2>2 DEF RamInv
<1>10. CASE Restart
  <2>1. \A k \in Rates : sent'[k] = 0
    BY <1>10, KeysAssumption DEF Restart, Booted
  <2> QED BY <2>1 DEF RamInv
<1> QED BY Steps, <1>3, <1>4, <1>5, <1>6, <1>7, <1>8, <1>9, <1>10

(* After a start no client disturbed every record shows what can be read   *)
(* of the file, registers, cpsOut and the rates in memory follow them, and *)
(* the crosspoint switch was told so; the event code RAM was not and is    *)
(* empty.                                                                  *)
THEOREM BackFromFile == Spec => []RestoredFromFile
<1>1. Init => BootInv /\ TextInv /\ StartInv /\ RamInv
  <2> SUFFICES ASSUME Init PROVE BootInv /\ TextInv /\ StartInv /\ RamInv
    OBVIOUS
  <2>1. \A k \in Rates : dev[k] = 0 /\ sent[k] = 0
    BY KeysAssumption DEF Init, Booted, Keys
  <2> QED BY <2>1 DEF Init, BootInv, TextInv, StartInv, RamInv, Threads
<1>2. TypeOK /\ LockInv /\ RecordShowsField /\ TextInv /\ StartInv /\ RamInv
        => RestoredFromFile
  <2> SUFFICES ASSUME TypeOK, LockInv, RecordShowsField, TextInv, StartInv, RamInv,
                      stage = "loop", ~disturbed, NEW k \in Keys
               PROVE  /\ val[k] = Restored(k, ParseStream(file))
                      /\ dev[k] = Encode(k, val[k])
                      /\ k \in Crosses => sent[k] = dev[k]
                      /\ k \in Rates => sent[k] = 0
    BY DEF RestoredFromFile
  <2>1. \A t \in Threads : pc[t] = "idle"
    BY DEF StartInv, Threads
  <2>2. recLock[k] = Nobody
    BY <2>1 DEF LockInv, Putting
  <2>3. dev[k] = Encode(k, val[k])
    BY <2>2 DEF StartInv, TextInv, RecordShowsField, Keys
  <2> QED BY <2>3 DEF StartInv, RamInv
<1> QED
  BY <1>1, <1>2, BootNext, TextNext, StartNext, RamNext, TypeCorrect, LocksHeld,
     FieldsKept, PTL DEF Spec
=============================================================================
