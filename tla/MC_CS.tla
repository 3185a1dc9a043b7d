------------------------------- MODULE MC_CS -------------------------------
(* Instances of CriticalSection for TLC: who knows whom, who asks how often. *)
EXTENDS CriticalSection

Mesh == [p \in Peer |-> Peer \ {p}]
Once == [p \in Peer |-> 1]
OneTwice == [p \in Peer |-> IF p = 5000 THEN 2 ELSE 1]
TwoOnce == [p \in Peer |-> IF p = 5002 THEN 0 ELSE 1]
=============================================================================
