------------------------------- MODULE IoParams -------------------------------
(***************************************************************************)
(* The parameters of the IOC: the register list tspv.reg, the handlers of  *)
(* timingAsynEpics that read and write a parameter, the devices' readReg,  *)
(* writeReg, readString, writeString, writeAppData and readRegArray        *)
(* (tsDev_evx.cpp, tsDev_zq9r.cpp), the access to one IP (ts2ipDrv,        *)
(* drMpsPico), the ports' frequencies (ts2ipEvr.cpp) and the tables of the *)
(* sequencers that waveformInitFromFile restores.                          *)
(*                                                                         *)
(* asyn runs one handler at a time, under the port's lock, and no other    *)
(* thread of the program writes a register of the list after the start but *)
(* A_setReg, whose pulses are in EvCommand and EvRound: a handler is one   *)
(* step.  A register or a value is the set of its bits that are 1, an      *)
(* address counts words.  The crosspoint's parameters are in EvSystem, the *)
(* configuration that is saved and restored in IocConfig.                  *)
(***************************************************************************)
EXTENDS Integers, Sequences, FiniteSetsExt

CONSTANTS
  Modes,          (* of the unit                                           *)
  Word, Narrow,   (* widths of a register (32) and of its fields           *)
  List,           (* the rows of tspv.reg                                  *)
  Served,         (* the IPs each class of device has in its switches      *)
  Cells,          (* the registers of the list, [ip, addr]                 *)
  Number,         (* writeString's tables: kind -> text -> value           *)
  Texts,          (* texts that are put                                    *)
  Pattern,        (* pfreqList: value -> the event codes of its rate       *)
  Codes, Ports,   (* 1..16 and 0..31                                       *)
  Tables, Size,   (* the restored tables and their length (2048)           *)
  Files,          (* contents of their .init files                         *)
  Boards, PowerOn, (* bound: the boards, and the registers before the start *)
  PutValues, Arrays, (* bound: values and arrays that are put              *)
  MaxOps          (* bound: puts, restores and restarts                    *)

Classes == {"evx", "zq9r"}
Bits == 0..Word - 1
EvrRam == 6144    (* MemA_EVR_0 / 4                                        *)
PortBase == 4160  (* 0x1040, the port frequencies of writeAppData          *)
SetPorts == 4192  (* 0x1060                                                *)

-----------------------------------------------------------------------------
(* registerParamListFromFile: an incomplete row is skipped, a row of a     *)
(* name that is there already replaces it.                                 *)
Complete(n) == {k \in DOMAIN List : List[k].name = n /\ List[k].complete}
AllNames == {List[k].name : k \in {j \in DOMAIN List : List[j].complete}}
Line(n) == List[Max(Complete(n))]
RegMap == [n \in AllNames |-> Line(n)]

Numbers  == {n \in AllNames : RegMap[n].type \in {"Int32", "Float64"}}
Octets   == {n \in AllNames : RegMap[n].type = "Octet"}
IntArrays == {n \in AllNames : RegMap[n].type = "Int32Array"}
Waves    == {n \in AllNames : RegMap[n].type = "Float32Array"}

(* The access type: "raw" for a register, "app" for the application, and   *)
(* "cfg" for a function of the mps_pico driver: a version, a sampling      *)
(* rate, an abort.                                                         *)
Scalars  == {n \in Numbers \cup Octets : RegMap[n].acc = "raw"}
Width == [n \in AllNames |-> RegMap[n].width]
Fields == {n \in Scalars : RegMap[n].kind # "pulse" /\ Width[n] \in Narrow \cup {Word}}
IPs == {RegMap[n].ip : n \in AllNames}

(* The bits of the register a field is.                                    *)
Span(n) == IF Width[n] = Word THEN Bits
           ELSE {b + RegMap[n].offset : b \in 0..Width[n] - 1}
Home(n) == [ip |-> RegMap[n].ip, addr |-> RegMap[n].addr]
InRam(c) == c.ip \in {"evr0", "evr1"} /\ c.addr - EvrRam \in 0..2047
RamCell(c) == [ip |-> "evr1", addr |-> EvrRam + c]

(* What the list has to be: nothing but fields in a field's register.  The *)
(* fields may overlap, as ZQ_MPS_ALL does with ZQ_MPS_1 to 5 and the three *)
(* states, but not those that are put as texts.                            *)
ASSUME WordAssumption == Word \in Nat \ {0} /\ Narrow \subseteq 1..Word - 1
ASSUME ListAssumption ==
  /\ \A n \in Fields :
       /\ Home(n) \in Cells
       /\ RegMap[n].offset \in Nat /\ Span(n) \subseteq Bits
       /\ ~InRam(Home(n))
       /\ \A m \in Scalars \ {n} : Home(m) = Home(n) =>
            /\ m \in Fields
            /\ n \in Octets => Span(m) \cap Span(n) = {}
       /\ \A m \in IntArrays :
            RegMap[m].ip = RegMap[n].ip => RegMap[m].addr > RegMap[n].addr
  /\ \A n \in AllNames :
       RegMap[n].addr \in Nat /\ (Width[n] \in Narrow => Span(n) \subseteq Bits)
  /\ \A n \in IntArrays : RegMap[n].acc = "raw"
ASSUME CodeAssumption == Codes \subseteq 0..2047 /\ Ports \subseteq Bits
ASSUME ValueAssumption ==
  /\ PutValues \subseteq SUBSET Bits
  /\ Arrays \subseteq Seq(SUBSET Bits)
  /\ Files \subseteq Seq([index : Nat, value : SUBSET Bits, full : BOOLEAN])
  /\ \A k \in DOMAIN Number : \A x \in DOMAIN Number[k] : Number[k][x] \subseteq Bits
ASSUME StartAssumption ==
  /\ Boards \subseteq [IPs -> {"open", "shut", "none"}]
  /\ DOMAIN Served = Classes
  /\ PowerOn \subseteq [Cells -> SUBSET Bits]

VARIABLES
  mode,     (* of the unit                                                 *)
  board,    (* an IP: open, without a device file, or no object at all, or *)
            (* none that the class serves                                  *)
  reg,      (* the registers                                               *)
  address,  (* regmaptable[].address                                       *)
  text,     (* the cached string of an Octet parameter                     *)
  pfreqVal, (* ts2ipEvr: the frequency of each port, until it is set       *)
  todo,     (* the tables userP_main has yet to restore                    *)
  file,     (* the .init file that was read last                           *)
  given,    (* all a table was given since the start, in order             *)
  last,     (* what the last handler did, and the value it read            *)
  ops

unread == <<mode, board, reg, address, text, pfreqVal, todo, file, given, ops>>
vars == <<mode, board, reg, address, text, pfreqVal, todo, file, given, last, ops>>

Addresses == [n \in AllNames |-> RegMap[n].addr]
NoText    == [n \in Octets |-> "none"]
NoPfreq   == [p \in Ports |-> {}]
NoneGiven == [n \in IntArrays |-> <<>>]
NoOp      == [op |-> "start", name |-> "none", value |-> {}, words |-> "none"]

class == IF mode = "ZQ9R" THEN "zq9r" ELSE "evx"
ToRestore == IF mode \in {"EVG", "EVS", "EVRUP"} THEN Tables ELSE <<>>

Init ==
  /\ mode \in Modes
  /\ \E b \in Boards :
       board = [p \in IPs |-> IF p \in Served[class] THEN b[p] ELSE "none"]
  /\ \E r \in PowerOn : reg = [c \in Cells |-> IF InRam(c) THEN {} ELSE r[c]]
  /\ address = Addresses /\ text = NoText /\ pfreqVal = NoPfreq
  /\ given = NoneGiven /\ last = NoOp
  /\ file = <<>>
  /\ todo = ToRestore
  /\ ops = 0

Step == ops < MaxOps /\ ops' = ops + 1
Done(op, n, v) == last' = [op |-> op, name |-> n, value |-> v, words |-> "none"]
Told(n, w) == last' = [op |-> "get", name |-> n, value |-> {}, words |-> w]

-----------------------------------------------------------------------------
(* The bits of a register that are field n's, as its value, and the        *)
(* register with v, masked to the width, in their place.  A width that is  *)
(* none of the five is written as a whole register.                        *)
FieldOf(n, r) == IF Width[n] = Word THEN r
                 ELSE {b \in 0..Width[n] - 1 : b + RegMap[n].offset \in r}

(* Mutant: the value is not masked.                                        *)
Insert_Unmasked(n, r, v) ==
  IF Width[n] \in Narrow
  THEN (r \ Span(n)) \cup ({b + RegMap[n].offset : b \in v} \cap Bits)
  ELSE v
Insert(n, r, v) ==
  IF Width[n] \in Narrow
  THEN (r \ Span(n)) \cup {b + RegMap[n].offset : b \in v \cap (0..Width[n] - 1)}
  ELSE v

(* The driver's _ioctl, and ip_rd and ip_wr, which do nothing when there   *)
(* is no file: a read leaves the all ones its caller put there.            *)
IOCTL_R(c)    == reg[c]
IOCTL_W(c, v) == [reg EXCEPT ![c] = v]
Reachable(c)  == board[c.ip] = "open" /\ c \in Cells
ip_rd(c)      == IF Reachable(c) THEN IOCTL_R(c) ELSE Bits
ip_wr(c, v)   == IF Reachable(c) THEN IOCTL_W(c, v) ELSE reg

Cell(n) == [ip |-> RegMap[n].ip, addr |-> address[n]]

(* readReg; its errors do not reach the record, the value does.            *)
readReg(n) ==
  CASE RegMap[n].acc = "app" -> {}
    [] RegMap[n].acc # "app" /\ board[RegMap[n].ip] = "none" -> Bits
    [] OTHER -> IF Width[n] \in Narrow \cup {Word} THEN FieldOf(n, ip_rd(Cell(n)))
                ELSE Bits

(* writeReg to a register; a pulse is a write of the value and one of 0.   *)
Stored(n, v) ==
  ip_wr(Cell(n), IF RegMap[n].kind = "pulse" THEN {}
                 ELSE Insert(n, ip_rd(Cell(n)), v))

(* cfg_portFreq stages a rate of the list, and refuses any other value.    *)
(* Mutant: it refuses the last one.                                        *)
cfg_portFreq_Less(p, v) ==
  pfreqVal' = IF v \in DOMAIN Pattern /\ Pattern[v] # Codes
              THEN [pfreqVal EXCEPT ![p] = v] ELSE pfreqVal
cfg_portFreq(p, v) ==
  pfreqVal' = IF v \in DOMAIN Pattern THEN [pfreqVal EXCEPT ![p] = v] ELSE pfreqVal

(* set_evCodeList: which ports each event code fires.                      *)
evCodeList(c) == {p \in Ports : c \in Pattern[pfreqVal[p]]}
set_evCodeList ==
  reg' = IF board["evr1"] = "open"
         THEN [c \in Cells |-> IF \E e \in Codes : c = RamCell(e)
                               THEN evCodeList(c.addr - EvrRam) ELSE reg[c]]
         ELSE reg

(* writeAppData: an EVX's ports are those of evrMain, whichever EVR the    *)
(* parameter names.  A ZQ9R has none of them.                              *)
writeAppData(a, v) ==
  \/ /\ class = "evx" /\ a - PortBase \in Ports
     /\ cfg_portFreq(a - PortBase, v)
     /\ UNCHANGED reg
  \/ /\ class = "evx" /\ a = SetPorts
     /\ set_evCodeList
     /\ UNCHANGED pfreqVal
  \/ /\ class = "evx" => a - PortBase \notin Ports /\ a # SetPorts
     /\ UNCHANGED <<reg, pfreqVal>>

(* IOCTL_W2, the driver's functions: what they write is not in the list.   *)
writeReg(n, v) ==
  \/ RegMap[n].acc = "app" /\ writeAppData(address[n], v)
  \/ RegMap[n].acc = "raw" /\ reg' = Stored(n, v) /\ UNCHANGED pfreqVal
  \/ RegMap[n].acc = "cfg" /\ UNCHANGED <<reg, pfreqVal>>

-----------------------------------------------------------------------------
(* The handlers.  readInt32 and readFloat64 drop the cached value and show *)
(* what readReg makes of the register, writeInt32 and writeFloat64 write.  *)
(* Of a function of the driver the answer is its own.                      *)
readInt32(n) ==
  /\ IF RegMap[n].acc = "cfg" /\ board[RegMap[n].ip] = "open"
       THEN Told(n, "driver") ELSE Done("get", n, readReg(n))
  /\ UNCHANGED unread

writeInt32(n) ==
  /\ Step
  /\ \E v \in PutValues : writeReg(n, v) /\ Done("put", n, v)
  /\ UNCHANGED <<mode, board, address, text, todo, file, given>>

(* readString makes up the texts of the application: a unit's name, times, *)
(* versions and links and the monitor's voltages, and those of a timing    *)
(* unit's boards and fans.  Another address is an "ERROR".  It has no text *)
(* for a register, which shows the string that was last put.               *)
readString_zq9r == {0, 1} \cup 4..8 \cup 16..20 \cup 256..264
readString_evx  == readString_zq9r \cup {512, 560} \cup 528..532 \cup 544..553

readString(n) ==
  CASE RegMap[n].acc # "app" -> text[n]
    [] RegMap[n].acc = "app" /\ class = "evx" ->
         IF address[n] \in readString_evx THEN "status" ELSE "ERROR"
    [] OTHER -> IF address[n] \in readString_zq9r THEN "status" ELSE "ERROR"

readOctet(n) ==
  /\ Told(n, readString(n))
  /\ UNCHANGED unread

(* writeOctet caches the text; an EVX then writes the number the text has  *)
(* in its table, 0 when it is in none.  A ZQ9R has no writeString.         *)
NumberOf(kind, x) ==
  IF kind \in DOMAIN Number /\ x \in DOMAIN Number[kind] THEN Number[kind][x] ELSE {}

(* Mutant: a text that is in no table is not written.                      *)
writeString_Known(n, x) ==
  IF /\ class = "evx" /\ RegMap[n].kind \in DOMAIN Number
     /\ x \in DOMAIN Number[RegMap[n].kind]
  THEN writeReg(n, NumberOf(RegMap[n].kind, x))
  ELSE UNCHANGED <<reg, pfreqVal>>

writeString(n, x) ==
  IF class = "evx" THEN writeReg(n, NumberOf(RegMap[n].kind, x))
  ELSE UNCHANGED <<reg, pfreqVal>>

writeOctet(n) ==
  /\ Step
  /\ \E x \in Texts :
       /\ text' = [text EXCEPT ![n] = x]
       /\ writeString(n, x)
       /\ Done("put", n, NumberOf(RegMap[n].kind, x))
  /\ UNCHANGED <<mode, board, address, todo, file, given>>

(* writeInt32Array: writeReg for each element, at an address that moves on *)
(* with each and is never put back.                                        *)
PutArray_AddressFirst(n, s) ==
  /\ address' = [address EXCEPT ![n] = @ + Len(s)]
  /\ reg' = [c \in Cells |->
       IF board[c.ip] = "open" /\ c.ip = RegMap[n].ip /\ c.addr - address[n] \in 1..Len(s)
       THEN Insert(n, reg[c], s[c.addr - address[n]]) ELSE reg[c]]
  /\ given' = [given EXCEPT ![n] = @ \o s]
PutArray(n, s) ==
  IF board[RegMap[n].ip] = "none" THEN UNCHANGED <<reg, address, given>>
  ELSE
  /\ address' = [address EXCEPT ![n] = @ + Len(s)]
  /\ reg' = [c \in Cells |->
       IF board[c.ip] = "open" /\ c.ip = RegMap[n].ip /\ c.addr - address[n] \in 0..Len(s) - 1
       THEN Insert(n, reg[c], s[c.addr - address[n] + 1]) ELSE reg[c]]
  /\ given' = [given EXCEPT ![n] = @ \o s]

writeInt32Array(n) ==
  /\ Step
  /\ \E s \in Arrays : PutArray(n, s)
  /\ Done("put", n, {})
  /\ UNCHANGED <<mode, board, text, pfreqVal, todo, file>>

(* readRegArray: the samples of a mps_pico board once bit 1 of 0x29C says  *)
(* they are there.  bar2_rd maps the second BAR; when it cannot, the array *)
(* stays as it was and nobody is told.                                     *)
bar2_rd == {"samples", "old"}

readRegArray(n) ==
  IF board[RegMap[n].ip] # "none" /\ 1 \in ip_rd([ip |-> RegMap[n].ip, addr |-> 167])
  THEN bar2_rd ELSE {"error"}

readFloat32Array(n) ==
  /\ \E w \in readRegArray(n) : Told(n, w)
  /\ UNCHANGED unread

(* A table cannot be read back and a wave not be written: these handlers   *)
(* look the parameter up, and that is all.  They report success.           *)
readInt32Array(n) ==
  /\ Told(n, "nothing")
  /\ UNCHANGED unread

writeFloat32Array(n) ==
  /\ Told(n, "nothing")
  /\ UNCHANGED unread

-----------------------------------------------------------------------------
(* waveformInitFromFile: the rows up to the first with an index beyond the *)
(* record's array go into the array; the array is put with the length the  *)
(* last index gives, the one beyond it included.  A row without a value    *)
(* counts for the length.                                                  *)
Beyond(f) == {k \in DOMAIN f : f[k].index >= Size}
Read(f) == SubSeq(f, 1, IF Beyond(f) = {} THEN Len(f) ELSE Min(Beyond(f)))
Nord(f) == IF f = <<>> THEN 1 ELSE Read(f)[Len(Read(f))].index + 1
RowsOf(f, i) == {k \in DOMAIN Read(f) : f[k].index = i /\ f[k].full}
Element(f, i) == IF RowsOf(f, i) = {} THEN {} ELSE f[Max(RowsOf(f, i))].value

(* What is beyond the record's array is whatever the heap has there.       *)
Array(f) ==
  {s \in [1..Nord(f) -> PutValues \cup {Element(f, i) : i \in 0..Size - 1}] :
     \A k \in DOMAIN s : k <= Size => s[k] = Element(f, k - 1)}

waveformInitFromFile(n) ==
  /\ Step
  /\ todo # <<>> /\ n = Head(todo)
  /\ todo' = Tail(todo)
  /\ \/ \E f \in Files :
          /\ file' = f
          /\ \E s \in Array(f) : PutArray(n, s)
          /\ Done("restore", n, {})
     \/ /\ Told(n, "no file")
        /\ UNCHANGED <<reg, address, file, given>>
  /\ UNCHANGED <<mode, board, text, pfreqVal>>

(* The program ends and is started again; the FPGA keeps its registers but *)
(* for the event codes' RAM, which the receivers' constructors clear.      *)
Restart ==
  /\ Step
  /\ reg' = [c \in Cells |-> IF board[c.ip] = "open" /\ InRam(c) THEN {} ELSE reg[c]]
  /\ address' = Addresses /\ text' = NoText /\ pfreqVal' = NoPfreq
  /\ given' = NoneGiven /\ last' = NoOp
  /\ todo' = ToRestore
  /\ file' = <<>>
  /\ UNCHANGED <<mode, board>>

-----------------------------------------------------------------------------
(* What more the list has to be for ports and tables: each port of an EVX  *)
(* has a text record, and only those reach it; all their texts are rates.  *)
ASSUME PortAssumption ==
  /\ Ports \subseteq 0..SetPorts - PortBase - 1
  /\ \A e \in Codes : RamCell(e) \in Cells
  /\ \A p \in Ports : \E n \in Octets :
       RegMap[n].acc = "app" /\ RegMap[n].addr = PortBase + p
  /\ \A n \in AllNames :
       /\ RegMap[n].acc = "app" /\ (RegMap[n].addr - PortBase \in Ports \/ RegMap[n].addr = SetPorts)
            => n \in Octets
       /\ RegMap[n].acc = "app" /\ RegMap[n].addr - PortBase \in Ports =>
            \A x \in Texts : NumberOf(RegMap[n].kind, x) \in DOMAIN Pattern
  /\ \A k \in DOMAIN Number : "none" \notin DOMAIN Number[k]

(* The tables are whole registers, Size of them, and nothing else of the   *)
(* list is among them.                                                     *)
ASSUME TableAssumption ==
  /\ Size \in Nat \ {0}
  /\ Range(Tables) \subseteq IntArrays
  /\ \A t \in Range(Tables) :
       /\ RegMap[t].addr \in Nat /\ Width[t] = Word
       /\ \A i \in 0..Size - 1 :
            LET c == [ip |-> RegMap[t].ip, addr |-> RegMap[t].addr + i]
            IN  c \in Cells /\ ~InRam(c)
       /\ \A n \in Scalars : RegMap[n].ip = RegMap[t].ip =>
            RegMap[n].addr - RegMap[t].addr \notin 0..Size - 1
       /\ \A u \in IntArrays \ {t} : RegMap[u].ip = RegMap[t].ip =>
            /\ u \in Range(Tables)
            /\ \/ RegMap[t].addr + Size <= RegMap[u].addr
               \/ RegMap[u].addr + Size <= RegMap[t].addr

-----------------------------------------------------------------------------
Next ==
  \/ \E n \in Numbers : readInt32(n) \/ writeInt32(n)
  \/ \E n \in Octets : readOctet(n) \/ writeOctet(n)
  \/ \E n \in IntArrays : readInt32Array(n) \/ writeInt32Array(n)
  \/ \E n \in Waves : readFloat32Array(n) \/ writeFloat32Array(n)
  \/ \E n \in IntArrays : waveformInitFromFile(n)
  \/ Restart

Spec == Init /\ [][Next]_vars

-----------------------------------------------------------------------------
(* Type correctness. The registers hold words, and only a table's address  *)
(* moves, and only up.                                                     *)
IoTypeOK ==
  /\ mode \in Modes
  /\ board \in [IPs -> {"open", "shut", "none"}]
  /\ reg \in [Cells -> SUBSET Bits]
  /\ address \in [AllNames -> Nat]
  /\ \A n \in AllNames : IF n \in IntArrays
       THEN address[n] >= RegMap[n].addr ELSE address[n] = RegMap[n].addr

(* The promise of FieldStore: whatever is put to the other parameters,     *)
(* tables, pulses and ports among them, in this run or before it, a        *)
(* parameter is shown as it was last put, cut to its width, where no put   *)
(* to one that shares its bits came after.                                 *)
BitOf == [f \in Fields |-> [b \in 0..Width[f] - 1 |->
            <<Home(f), IF Width[f] = Word THEN b ELSE b + RegMap[f].offset>>]]
Ones == {x \in {Home(f) : f \in Fields} \X Bits : x[2] \in reg[x[1]]}
Takes == [f \in Fields |-> /\ board[RegMap[f].ip] = "open"
                           /\ f \in Octets => class = "evx"]
Said == IF \/ last.op = "put" /\ last.name \in Fields
           \/ last.op = "get" /\ last.name \in Fields \ Octets
        THEN [op |-> last.op, name |-> last.name, value |-> last.value]
        ELSE [op |-> "none", name |-> "none", value |-> {}]
Store == INSTANCE FieldStore WITH
  Place <- BitOf, bits <- Ones,
  live  <- [f \in Fields |-> board[RegMap[f].ip] = "open"],
  taken <- Takes, said <- Said
FieldsAreTheirOwn == Store!StoreSpec

(* The text an EVX's record shows is the one in force: the hardware has    *)
(* its number, or 0 for a text writeString does not know.                  *)
TextInForce ==
  class = "evx" => \A n \in Fields \cap Octets :
    board[RegMap[n].ip] = "open" /\ text[n] # "none" =>
      FieldOf(n, reg[Home(n)]) = NumberOf(RegMap[n].kind, text[n]) \cap (0..Width[n] - 1)

(* After SET_PORT_FREQ evrMain fires each port as the text of one of its   *)
(* records says, however the records were put before.                      *)
PortRecords(p) == {n \in Octets : RegMap[n].acc = "app"
                                            /\ RegMap[n].addr = PortBase + p}
PortsFollowRecords ==
  /\ class = "evx" /\ board["evr1"] = "open"
  /\ last.op = "put" /\ RegMap[last.name].acc = "app" /\ RegMap[last.name].addr = SetPorts
  => \A p \in Ports : \E n \in PortRecords(p) : \A c \in Codes :
       p \in reg[RamCell(c)] <=> c \in Pattern[NumberOf(RegMap[n].kind, text[n])]

(* As long as no sequencer's table was given more than its length since    *)
(* the start, each holds what it was given, in order: no put is lost, and  *)
(* none reaches into another table.  A restore whose file's indexes ascend *)
(* within the table gives the whole file.                                  *)
Ascending(f) == /\ \A j, k \in DOMAIN f : j < k => f[j].index < f[k].index
                /\ \A k \in DOMAIN f : f[k].index < Size /\ f[k].full
Holds(t, i, v) == reg[[ip |-> RegMap[t].ip, addr |-> RegMap[t].addr + i]] = v
TablesHold ==
  \A t \in Range(Tables) : board[RegMap[t].ip] = "open" =>
    /\ (\A u \in Range(Tables) : Len(given[u]) <= Size) =>
         \A k \in DOMAIN given[t] : Holds(t, k - 1, given[t][k])
    /\ last.op = "restore" /\ last.name = t /\ Ascending(file)
       /\ Len(given[t]) <= Nord(file) =>
         \A k \in DOMAIN file : Holds(t, file[k].index, file[k].value)
=============================================================================
