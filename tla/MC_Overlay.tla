---------------------------- MODULE MC_Overlay ----------------------------
(* An instance of Overlay for TLC. *)
EXTENDS Overlay

LastTwice == [p \in Port |-> IF p = 2 THEN 2 ELSE 1]
Last == [p \in Port |-> IF p = 2 THEN 1 ELSE 0]
\* The last finds only the middle one, which finds whom it likes.
LastToMiddle == [p \in Port |-> IF p = 2 THEN {1} ELSE Port]
=============================================================================
