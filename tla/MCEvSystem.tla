----------------------------- MODULE MCEvSystem -----------------------------
EXTENDS EvSystem

(* Both bytes of the slave board's map and one of the main board's.        *)
MCEdits == {[bus |-> "sl", byte |-> 1], [bus |-> "sl", byte |-> 2],
            [bus |-> "ob", byte |-> 1]}
=============================================================================
