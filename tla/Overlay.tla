------------------------------ MODULE Overlay ------------------------------
(***************************************************************************)
(* How peers.py builds its overlay.  A process listens on the first free   *)
(* port; unless that is BASE_PORT, threads of its own try every other port *)
(* until one answers, and repeat that until a pong comes.  A ping is       *)
(* answered and passed on, and who handles a message takes its originator  *)
(* for a neighbour.  Processes may exit, and new ones take their ports.  A *)
(* message is in msgs from the moment it is sent until its handler thread  *)
(* ends.  What processes at their prompts send each other is left out.     *)
(***************************************************************************)
EXTENDS Naturals, FiniteSets

CONSTANTS
  Port,       \* the ports of listener
  TTL,        \* the time to live of a ping
  Contacts,   \* bound: Contacts[p] are the ports those on p scan
  MaxStarts,  \* bound: MaxStarts[p] is how many processes come to listen on p
  MaxScans,   \* bound: the processes that start on p scan MaxScans[p] times in all
  MaxExits    \* bound: the first MaxExits[p] processes on p may exit, during as many scans

ASSUME OverlayAssumption ==
  /\ Port \subseteq Nat /\ TTL \in Nat \ {0}
  /\ MaxScans \in [Port -> Nat] /\ MaxStarts \in [Port -> Nat]
  /\ MaxExits \in [Port -> Nat] /\ Contacts \in [Port -> SUBSET Port]

VARIABLES
  main,       \* where the main thread is
  looking,    \* looking[n]: the ports whose bootstrap threads have yet to look at peer_found
  trying,     \* trying[n]: those whose threads have found it clear, and connect
  found,      \* peer_found
  shaken,     \* handshake_done
  neighbors,  \* neighbors
  seen,       \* seen, the pings in it
  starts, scans,  \* counters, for the bounds
  msgs,       \* messages in flight and in handler threads
  calm        \* whether processes have only started and exited when all was quiet, and
              \* none on BASE_PORT while others ran (a history variable)

counters == <<starts, scans>>
boot == <<main, looking, trying, found, shaken>>
vars == <<boot, neighbors, seen, counters, msgs, calm>>

\* The msg_id of a ping: from whom, first to whom, and in which scan.
Id == [src : Port, to : Port, no : Nat]
Msg == [kind : {"ping", "pong"}, id : Id, from : Port, dst : Port, ttl : 0 .. TTL,
        pc : {"in_flight", "pass"}]

TypeOK ==
  /\ main \in [Port -> {"off", "boot", "scan", "wait", "on"}]
  /\ looking \in [Port -> SUBSET Port] /\ trying \in [Port -> SUBSET Port]
  /\ found \in [Port -> BOOLEAN] /\ shaken \in [Port -> BOOLEAN]
  /\ neighbors \in [Port -> SUBSET Port]
  /\ seen \in [Port -> SUBSET Id]
  /\ starts \in [Port -> Nat] /\ scans \in [Port -> Nat]
  /\ msgs \subseteq Msg
  /\ calm \in BOOLEAN

Init ==
  /\ main = [p \in Port |-> "off"]
  /\ looking = [p \in Port |-> {}] /\ trying = [p \in Port |-> {}]
  /\ found = [p \in Port |-> FALSE] /\ shaken = [p \in Port |-> FALSE]
  /\ neighbors = [p \in Port |-> {}] /\ seen = [p \in Port |-> {}]
  /\ starts = [p \in Port |-> 0] /\ scans = [p \in Port |-> 0]
  /\ msgs = {} /\ calm = TRUE

-----------------------------------------------------------------------------
Runs(n) == main[n] # "off"
Off == {n \in Port : ~Runs(n)}
Joining(n) == main[n] \in {"boot", "scan", "wait"}

\* BASE_PORT
IsBase(n) == \A p \in Port : n <= p

\* Every message has been handled and every process is at its prompt.
Quiet == msgs = {} /\ \A n \in Port : ~Joining(n)

\* send_msg to each of the addresses: who does not answer is no neighbour any more
Copies(m, to) == {[m EXCEPT !.dst = d] : d \in to \ Off}
Answering(ns, to) == ns \ (to \intersect Off)

-----------------------------------------------------------------------------
(* The main thread. *)

\* listener: the first free port; the process on BASE_PORT does not look for others
Start(n) ==
  /\ ~Runs(n) /\ starts[n] < MaxStarts[n]
  /\ \A p \in Port : p < n => Runs(p)
  /\ main' = [main EXCEPT ![n] = IF IsBase(n) THEN "on" ELSE "boot"]
  /\ found' = [found EXCEPT ![n] = FALSE] /\ shaken' = [shaken EXCEPT ![n] = FALSE]
  /\ neighbors' = [neighbors EXCEPT ![n] = {}] /\ seen' = [seen EXCEPT ![n] = {}]
  /\ starts' = [starts EXCEPT ![n] = @ + 1]
  /\ calm' = (calm /\ Quiet /\ (IsBase(n) => Off = Port))
  /\ UNCHANGED <<looking, trying, scans, msgs>>

\* bootstrap: one thread for every other port
Scan(n) ==
  /\ main[n] = "boot" /\ ~shaken[n] /\ scans[n] < MaxScans[n]
  /\ main' = [main EXCEPT ![n] = "scan"]
  /\ found' = [found EXCEPT ![n] = FALSE]
  /\ looking' = [looking EXCEPT ![n] = Contacts[n] \ {n}]
  /\ scans' = [scans EXCEPT ![n] = @ + 1]
  /\ UNCHANGED <<trying, shaken, neighbors, seen, starts, msgs, calm>>

\* network: a port is only tried while peer_found is not set
Look(n, x) ==
  /\ x \in looking[n] /\ ~found[n]
  /\ looking' = [looking EXCEPT ![n] = @ \ {x}]
  /\ trying' = [trying EXCEPT ![n] = @ \union {x}]
  /\ UNCHANGED <<main, found, shaken, neighbors, seen, counters, msgs, calm>>

PingTo(n, x) == [kind |-> "ping", id |-> [src |-> n, to |-> x, no |-> scans[n]],
                 from |-> n, dst |-> x, ttl |-> TTL, pc |-> "in_flight"]

\* network: the connection, then the ping on one of its own.  (That the peer exits
\* between the two is left to Exit, which loses the ping.)
Connect(n, x) ==
  /\ x \in trying[n]
  /\ trying' = [trying EXCEPT ![n] = @ \ {x}]
  /\ IF Runs(x)
     THEN /\ found' = [found EXCEPT ![n] = TRUE]
          /\ msgs' = msgs \union {PingTo(n, x)}
     ELSE UNCHANGED <<found, msgs>>
  /\ UNCHANGED <<main, looking, shaken, neighbors, seen, counters, calm>>

\* bootstrap has joined its threads: those that had yet to look have found peer_found
\* set and returned.  When none found a peer the loop sleeps and starts again.
Joined(n) ==
  /\ main[n] = "scan" /\ trying[n] = {} /\ (looking[n] = {} \/ found[n])
  /\ looking' = [looking EXCEPT ![n] = {}]
  /\ main' = [main EXCEPT ![n] = IF found[n] THEN "wait" ELSE "boot"]
  /\ UNCHANGED <<trying, found, shaken, neighbors, seen, counters, msgs, calm>>

\* The wait for the handshake times out.
TimeOut(n) ==
  /\ main[n] = "wait" /\ ~shaken[n] /\ scans[n] < MaxScans[n]
  /\ main' = [main EXCEPT ![n] = "boot"]
  /\ UNCHANGED <<looking, trying, found, shaken, neighbors, seen, counters, msgs, calm>>

\* A slip: only a pong that comes in time counts.
HandshakeInTime(n) ==
  /\ main[n] = "wait" /\ shaken[n]
  /\ main' = [main EXCEPT ![n] = "on"]
  /\ UNCHANGED <<looking, trying, found, shaken, neighbors, seen, counters, msgs, calm>>

\* A pong that comes after its time counts as well.
Handshake(n) ==
  /\ main[n] \in {"boot", "wait"} /\ shaken[n]
  /\ main' = [main EXCEPT ![n] = "on"]
  /\ UNCHANGED <<looking, trying, found, shaken, neighbors, seen, counters, msgs, calm>>

\* The process ends, its threads with it; nobody forgets its port yet.
Exit(n) ==
  /\ Runs(n) /\ starts[n] <= MaxExits[n] /\ scans[n] <= MaxExits[n]
  /\ main' = [main EXCEPT ![n] = "off"]
  /\ looking' = [looking EXCEPT ![n] = {}] /\ trying' = [trying EXCEPT ![n] = {}]
  /\ msgs' = {m \in msgs : m.dst # n}
  /\ calm' = (calm /\ Quiet)
  /\ UNCHANGED <<found, shaken, neighbors, seen, counters>>

Boots(n) ==
  \/ Scan(n) \/ Joined(n) \/ Handshake(n)
  \/ \E x \in Port : Look(n, x) \/ Connect(n, x)

-----------------------------------------------------------------------------
(* The handler threads. *)

Learnt(n, m) == neighbors[n] \union ({m.from} \ {n})

\* The first copy of a message goes on, a later one is dropped.
First(n, m) ==
  /\ m.pc = "in_flight" /\ m.id \notin seen[n]
  /\ seen' = [seen EXCEPT ![n] = @ \union {m.id}]
GoesOn(m) == (msgs \ {m}) \union {[m EXCEPT !.pc = "pass"]}

Duplicate(n, m) ==
  /\ m.kind # "pong" /\ m.pc = "in_flight" /\ m.id \in seen[n]
  /\ msgs' = msgs \ {m}
  /\ neighbors' = [neighbors EXCEPT ![n] = Learnt(n, m)]
  /\ UNCHANGED <<boot, seen, counters, calm>>

\* A slip: only a ping that came directly is answered.
HandlePingDirect(n, m) ==
  /\ m.kind = "ping" /\ First(n, m)
  /\ msgs' = GoesOn(m) \union
       Copies([kind |-> "pong", id |-> m.id, from |-> n, dst |-> m.from, ttl |-> 0,
               pc |-> "in_flight"], IF m.id.to = n THEN {m.from} ELSE {})
  /\ neighbors' = [neighbors EXCEPT ![n] = Learnt(n, m)]
  /\ UNCHANGED <<boot, counters, calm>>

\* ping: its originator gets a pong
HandlePing(n, m) ==
  /\ m.kind = "ping" /\ First(n, m)
  /\ msgs' = GoesOn(m) \union
       Copies([kind |-> "pong", id |-> m.id, from |-> n, dst |-> m.from, ttl |-> 0,
               pc |-> "in_flight"], {m.from})
  /\ neighbors' = [neighbors EXCEPT ![n] = Answering(Learnt(n, m), {m.from})]
  /\ UNCHANGED <<boot, counters, calm>>

\* forward: to every neighbour but the originator, with one less to live
Forward(n, m, to) ==
  /\ m.pc = "pass"
  /\ msgs' = (msgs \ {m}) \union Copies([m EXCEPT !.ttl = @ - 1, !.pc = "in_flight"], to)
  /\ neighbors' = [neighbors EXCEPT ![n] = Answering(@, to)]
  /\ UNCHANGED <<boot, seen, counters, calm>>

\* Two slips: the time to live is not looked at, or after it has gone down.
PassAlways(n, m) == Forward(n, m, neighbors[n] \ {m.from})
PassLess(n, m) == Forward(n, m, IF m.ttl <= 1 THEN {} ELSE neighbors[n] \ {m.from})

\* forward, while the time to live lasts
Pass(n, m) == Forward(n, m, IF m.ttl = 0 THEN {} ELSE neighbors[n] \ {m.from})

\* pong: handshake_done
HandlePong(n, m) ==
  /\ m.kind = "pong"
  /\ shaken' = [shaken EXCEPT ![n] = TRUE]
  /\ msgs' = msgs \ {m}
  /\ neighbors' = [neighbors EXCEPT ![n] = Learnt(n, m)]
  /\ UNCHANGED <<main, looking, trying, found, seen, counters, calm>>

Handles(n, m) ==
  /\ m \in msgs /\ m.dst = n
  /\ \/ Duplicate(n, m) \/ HandlePing(n, m) \/ Pass(n, m) \/ HandlePong(n, m)

Next ==
  \E n \in Port :
    \/ Start(n) \/ Boots(n) \/ TimeOut(n) \/ Exit(n)
    \/ \E m \in msgs : Handles(n, m)

Spec == Init /\ [][Next]_vars

\* Some thread that can run does; users and timeouts come as they like.
ThreadStep == \E n \in Port : Boots(n) \/ \E m \in msgs : Handles(n, m)
Fairness == WF_vars(ThreadStep)
FairSpec == Spec /\ Fairness

-----------------------------------------------------------------------------
(* Properties. *)

\* When each process starts or exits once what happened before it has settled, all who run
\* know all: the ping goes on from the one peer it reached to all the others.
FullMesh ==
  \A p, q \in Port : Runs(p) /\ Runs(q) /\ p # q => q \in neighbors[p]
MeshWhenCalm == calm /\ Quiet => FullMesh

\* However starts overlap, nobody is known to a peer it does not know itself, if nobody
\* exits: the first copy of a ping is answered wherever it comes.
Stayed == \A p \in Port : starts[p] = (IF Runs(p) THEN 1 ELSE 0)
KnownBack ==
  Quiet /\ Stayed =>
    \A p, q \in Port : q \in neighbors[p] => p \in neighbors[q]

\* Every process that has started comes to its prompt, whoever starts with it and however
\* late the pong is: again and again none is on its way there, if nobody exits (each port
\* starts one then).  Also when the wait has timed out, the ports are scanned again, and
\* the pong to the first ping comes during that scan or after it.
BootEnds == []<>((\A p \in Port : ~Joining(p)) \/ ~Stayed)
=============================================================================
