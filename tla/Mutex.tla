------------------------------- MODULE Mutex -------------------------------
(***************************************************************************)
(* What the critical section of peers.py promises its callers: a peer asks *)
(* for the section, is let in only when no other running peer is inside,   *)
(* leaves it, and may exit at any point of that cycle.  How the peers      *)
(* agree on who is next is left to CriticalSection, which implements this  *)
(* specification.                                                          *)
(***************************************************************************)

CONSTANT Peer

VARIABLE phase   \* what each peer is doing

Phases == {"idle", "requesting", "in_cs", "gone"}

TypeOK == phase \in [Peer -> Phases]

Init == phase = [p \in Peer |-> "idle"]

Move(p, from, to) ==
  /\ phase[p] \in from
  /\ phase' = [phase EXCEPT ![p] = to]

Request(p) == Move(p, {"idle"}, "requesting")

Enter(p) ==
  /\ \A q \in Peer \ {p} : phase[q] # "in_cs"
  /\ Move(p, {"requesting"}, "in_cs")

Release(p) == Move(p, {"in_cs"}, "idle")

Exit(p) == Move(p, {"idle", "requesting", "in_cs"}, "gone")

Next == \E p \in Peer : Request(p) \/ Enter(p) \/ Release(p) \/ Exit(p)

Spec == Init /\ [][Next]_phase
=============================================================================
