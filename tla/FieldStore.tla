------------------------------ MODULE FieldStore ------------------------------
(***************************************************************************)
(* What the parameters of tspv.reg promise the records that use them.  A   *)
(* parameter stands for some bits of the device, its own or, as            *)
(* ZQ_MPS_ALL and ZQ_MPS_1 do, some that another stands for too.  A put    *)
(* gives those bits the value that was put, cut to their number, and       *)
(* changes no others; a get answers what they are, and all ones, in the    *)
(* parameter's width or in the word's, where no device answers.  IoParams  *)
(* shows the handlers keep the promise although they write whole           *)
(* registers.                                                              *)
(***************************************************************************)
EXTENDS Integers

CONSTANTS
  Fields,
  Width,     (* their number of bits                                       *)
  Word,      (* and that of a register                                     *)
  Place      (* where the device has each bit of a field                   *)

VARIABLES
  bits,      (* the places that are 1                                      *)
  live,      (* the device of the field answers                            *)
  taken,     (* and it takes the field's puts                              *)
  said       (* the last put or get: of which field, and the value         *)

Nothing == [op |-> "none", name |-> "none", value |-> {}]

storeVars == <<bits, live, taken, said>>

Own(f)   == {Place[f][b] : b \in 0..Width[f] - 1}
Value(f) == {b \in 0..Width[f] - 1 : Place[f][b] \in bits}
Cut(f, v) == v \cap (0..Width[f] - 1)

StoreInit ==
  /\ live \in [Fields -> BOOLEAN] /\ taken \in [Fields -> BOOLEAN]
  /\ said = Nothing

(* Whoever puts chooses the value.                                         *)
Put(f) ==
  /\ said' \in [op : {"put"}, name : {f}, value : SUBSET (0..Word - 1)]
  /\ bits' = IF taken[f]
               THEN (bits \ Own(f)) \cup {Place[f][b] : b \in Cut(f, said'.value)}
               ELSE bits
  /\ UNCHANGED <<live, taken>>

Get(f) ==
  /\ \/ /\ live[f]
        /\ said' = [op |-> "get", name |-> f, value |-> Value(f)]
     \/ /\ ~live[f]
        /\ \E w \in {Width[f], Word} :
             said' = [op |-> "get", name |-> f, value |-> 0..w - 1]
  /\ UNCHANGED <<bits, live, taken>>

(* Anything that is not about a field.                                     *)
Other ==
  /\ said' = Nothing
  /\ UNCHANGED <<bits, live, taken>>

StoreNext == Other \/ \E f \in Fields : Put(f) \/ Get(f)

StoreSpec == StoreInit /\ [][StoreNext]_storeVars
=============================================================================
