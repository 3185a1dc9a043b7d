------------------------------ MODULE MC_Pins ------------------------------
(* Instances of PinTransactions for TLC. *)
EXTENDS PinTransactions

CONSTANTS t1, t2, t3   \* transaction identifiers

SameRoom == [t \in Tx |-> "a"]
TwoRooms == [t \in Tx |-> IF t = t3 THEN "b" ELSE "a"]
=============================================================================
