--------------------------- MODULE MC_Membership ---------------------------
(* Instances of Membership for TLC. *)
EXTENDS Membership

Base == [p \in Peer |-> {5000}]
OwnName == [p \in Peer |-> {CASE p = 5000 -> "ann" [] p = 5001 -> "bob" [] OTHER -> "cho"}]
AnyName == [p \in Peer |-> User]
OneRoom == [p \in Peer |-> 1]
OneRoomEach == [p \in Peer |-> IF p \in Established \ {5001} THEN 0 ELSE 1]
=============================================================================
