----------------------------- MODULE MCIoParams -----------------------------
EXTENDS IoParams, TLC

Row(name, type, ip, acc, addr, kind, width, offset) ==
  [name |-> name, type |-> type, ip |-> ip, acc |-> acc, addr |-> addr,
   kind |-> kind, width |-> width, offset |-> offset, complete |-> TRUE]

(* Three fields of one register, one of them put as a text; a register of  *)
(* which a field is the whole and two others are bits; a function of the   *)
(* driver at the address of a register; a pulse, two tables of a sequencer *)
(* one after the other, and the two receivers' records of one port.  A row *)
(* of CNT is repeated, one is incomplete.                                  *)
MCList == <<
    Row("CNT", "Int32", "evg1", "raw", 9, "value", 4, 0),
    Row("MODE", "Int32", "evg1", "raw", 10, "value", 2, 0),
    Row("ON", "Int32", "evg1", "raw", 10, "value", 1, 2),
    Row("TRG", "Octet", "evg1", "raw", 10, "trg", 1, 3),
    Row("CNT", "Int32", "ev1", "raw", 9, "value", 4, 0),
    [Row("MODE", "Int32", "evg1", "raw", 11, "value", 4, 0) EXCEPT !.complete = FALSE],
    Row("RST", "Int32", "evg1", "raw", 12, "pulse", 1, 1),
    Row("SEQA", "Int32Array", "evg1", "raw", 16, "value", 4, 0),
    Row("SEQB", "Int32Array", "evg1", "raw", 18, "value", 4, 0),
    Row("PORT0", "Octet", "evr0", "app", PortBase, "freq", 4, 0),
    Row("PORT1", "Octet", "evr1", "app", PortBase, "freq", 4, 0),
    Row("SET", "Octet", "evr1", "app", SetPorts, "none", 4, 0),
    Row("GATE", "Octet", "evr1", "raw", 1, "trg", 2, 0),
    Row("TEMP", "Octet", "sys", "app", 264, "none", 4, 0),
    Row("MPS_1", "Int32", "zq0", "raw", 20, "value", 1, 0),
    Row("MPS_2", "Int32", "zq0", "raw", 20, "value", 1, 1),
    Row("MPS_ALL", "Int32", "zq0", "raw", 20, "value", 4, 0),
    Row("VERSION", "Int32", "mp0", "cfg", 0, "value", 4, 0),
    Row("RANGE", "Float64", "mp0", "raw", 0, "value", 1, 0),
    Row("WAVE", "Float32Array", "mp0", "raw", 8192, "wave", 4, 0),
    Row("WAVE1", "Float32Array", "mp1", "raw", 8192, "wave", 4, 0)>>

MCServed == [evx |-> {"ev1", "evr0", "evr1", "evg1"},
             zq9r |-> {"zq0", "evr0", "evr1", "mp0", "mp1"}]
MCCells == {[ip |-> "evg1", addr |-> a] : a \in {10, 12} \cup 16..20}
           \cup {[ip |-> "ev1", addr |-> 9]}
           \cup {[ip |-> "evr1", addr |-> EvrRam + c] : c \in {1, 2}}
           \cup {[ip |-> "evr1", addr |-> 1], [ip |-> "zq0", addr |-> 20],
                 [ip |-> "mp0", addr |-> 0], [ip |-> "mp0", addr |-> 167]}
MCBoards == {[p \in IPs |-> IF p \in {"ev1", "mp1"} THEN "none" ELSE
                            IF p \in shut THEN "shut" ELSE "open"] :
               shut \in {{}, {"evg1", "evr1", "zq0"}}}
MCPowerOn == {[c \in MCCells |-> IF c.ip = "mp0" THEN {1} ELSE {0, 3}]}
MCNumber == [trg |-> ("MXC" :> {0, 1}), freq |-> ("MXC" :> {0}) @@ ("120 Hz" :> {1})]
MCPattern == ({} :> {}) @@ ({0} :> {2}) @@ ({1} :> {1, 2})
MCTables == <<"SEQA", "SEQB">>
MCPut == {{}, {0, 1, 2}}
MCArrays == {<<{1}>>, <<{1}, {2}>>}
R(i, v) == [index |-> i, value |-> v, full |-> TRUE]
MCFiles == {<<R(0, {1}), R(1, {3})>>, <<R(1, {3}), R(2, {0})>>}
=============================================================================
