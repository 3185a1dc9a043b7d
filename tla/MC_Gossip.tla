----------------------------- MODULE MC_Gossip -----------------------------
(* An instance of Gossip for TLC. *)
EXTENDS Gossip

Line == [p \in Peer |-> {p - 1, p + 1} \intersect Peer]
OneSwitches == [p \in Peer |-> IF p = 5002 THEN {"a", "b"} ELSE {"a"}]
OneElsewhere == [p \in Peer |-> IF p = 5002 THEN "b" ELSE "a"]
Typed == [p \in Peer |-> {"chat"} \union CASE p = 5000 -> {"flood"} [] p = 5001 -> {"topic"}
                                          [] OTHER -> {}]
OneTick == [p \in Peer |-> 1]
=============================================================================
