------------------------------ MODULE RoomLog ------------------------------
(***************************************************************************)
(* What the chat of the XML-RPC design promises its clients: all lines are *)
(* in one order, and a client that listens to a topic is shown what        *)
(* matches it in that order, from some line on, with nothing skipped and   *)
(* nothing twice.  How server and broker bring that about is left to       *)
(* OldRooms, which implements this specification.                          *)
(***************************************************************************)
EXTENDS Naturals, Sequences

CONSTANTS
  Client, Topic, Line,
  Wanted(_, _, _)   \* Wanted(c, t, l): c shows line l while it listens to t

VARIABLES
  log,     \* the lines in their order
  topic,   \* topic[c]: what c listens to
  next,    \* next[c]: the next line c will look at, 0 while it does not listen
  shown    \* shown[c]: the lines it has displayed

vars == <<log, topic, next, shown>>

Init ==
  /\ log = <<>> /\ topic \in [Client -> Topic]
  /\ next = [c \in Client |-> 0] /\ shown = [c \in Client |-> <<>>]

Say(l) == log' = Append(log, l) /\ UNCHANGED <<topic, next, shown>>

\* The topic of a client that does not listen means nothing.
Listen(c) ==
  /\ next[c] = 0
  /\ \E k \in 1 .. Len(log) + 1 : next' = [next EXCEPT ![c] = k]
  /\ UNCHANGED <<log, topic, shown>>

Choose(c) ==
  /\ next[c] = 0
  /\ \E t \in Topic : topic' = [topic EXCEPT ![c] = t]
  /\ UNCHANGED <<log, next, shown>>

Look(c) ==
  /\ next[c] \in 1 .. Len(log)
  /\ next' = [next EXCEPT ![c] = @ + 1]
  /\ shown' = IF Wanted(c, topic[c], log[next[c]])
              THEN [shown EXCEPT ![c] = Append(@, log[next[c]])] ELSE shown
  /\ UNCHANGED <<log, topic>>

Leave(c) ==
  /\ next' = [next EXCEPT ![c] = 0] /\ shown' = [shown EXCEPT ![c] = <<>>]
  /\ UNCHANGED <<log, topic>>

Next == \/ \E l \in Line : Say(l)
        \/ \E c \in Client : Choose(c) \/ Listen(c) \/ Look(c) \/ Leave(c)

Spec == Init /\ [][Next]_vars
=============================================================================
