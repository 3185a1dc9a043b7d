---------------------------- MODULE AtomicCommit ----------------------------
(***************************************************************************)
(* What a pin transaction promises its users: it is decided once, every    *)
(* peer that hears of it hears what was decided, nobody unlearns it, and   *)
(* no peer shows a pin before somebody has decided to commit it.           *)
(***************************************************************************)
EXTENDS Naturals

CONSTANTS
  Peer,    \* the peers
  Room,    \* the rooms
  Tx,      \* the transactions
  RoomOf,  \* RoomOf[t]: the room that t pins
  NoTx     \* no transaction

VARIABLES
  decision,  \* what has been decided about each transaction
  outcome,   \* outcome[p][t]: what p has heard of t
  shown      \* shown[p][r]: the transaction whose pin p shows in r

vars == <<decision, outcome, shown>>

Init ==
  /\ decision = [t \in Tx |-> "open"]
  /\ outcome = [p \in Peer |-> [t \in Tx |-> "open"]]
  /\ shown = [p \in Peer |-> [r \in Room |-> NoTx]]

\* p hears that d was decided about t; a pin is shown from then on.
Hear(p, t, d) ==
  /\ outcome' = [outcome EXCEPT ![p][t] = d]
  /\ shown' = IF d = "committed" THEN [shown EXCEPT ![p][RoomOf[t]] = t] ELSE shown

\* p decides, which nobody has done before.
Decide(p, t, d) ==
  /\ decision[t] = "open" /\ d # "open"
  /\ decision' = [decision EXCEPT ![t] = d]
  /\ Hear(p, t, d)

\* p learns what has been decided.
Learn(p, t) ==
  /\ decision[t] # "open"
  /\ Hear(p, t, decision[t])
  /\ UNCHANGED decision

\* p is told of pins: those of transactions that are decided to be committed.
Sync(p) ==
  /\ UNCHANGED <<decision, outcome>>
  /\ shown' \in [Peer -> [Room -> Tx \union {NoTx}]]
  /\ \A q \in Peer, r \in Room :
       shown'[q][r] # shown[q][r] =>
         /\ q = p /\ shown'[q][r] # NoTx
         /\ RoomOf[shown'[q][r]] = r /\ decision[shown'[q][r]] = "committed"

Next ==
  \E p \in Peer :
    \/ Sync(p)
    \/ \E t \in Tx : Learn(p, t) \/ \E d \in {"committed", "aborted"} : Decide(p, t, d)

Spec == Init /\ [][Next]_vars
=============================================================================
