---------------------------- MODULE MCIocConfig ----------------------------
(* Model-checking instance of IocConfig: two fields of a register, as      *)
(* EVR1_EXOUTINVERT_2 and _10, the rate of a port and an entry of cpsOut.  *)
EXTENDS IocConfig

Order  == <<"invert2", "invert10", "freq", "sl">>
Sorted == <<"invert10", "invert2", "freq", "sl">>
=============================================================================
