--------------------------- MODULE OverlayProofs ---------------------------
(***************************************************************************)
(* Proofs about Overlay: types, that peers know each other both ways when  *)
(* nobody exits, and that all know all when processes start and exit one   *)
(* after the other.                                                        *)
(***************************************************************************)
EXTENDS Overlay, TLAPS

-----------------------------------------------------------------------------
(* Types. *)

\* The copies of a message differ from it in where they go.
LEMMA CopiesOf ==
  ASSUME NEW m \in Msg, NEW to \in SUBSET Port, NEW c \in Copies(m, to)
  PROVE  /\ c \in Msg /\ c.dst \in to /\ Runs(c.dst)
         /\ c.kind = m.kind /\ c.id = m.id /\ c.from = m.from /\ c.ttl = m.ttl
         /\ c.pc = m.pc
<1>1. PICK d \in to \ Off : c = [m EXCEPT !.dst = d]
  BY DEF Copies
<1>2. d \in Port /\ Runs(d)
  BY <1>1 DEF Off
<1> QED
  BY <1>1, <1>2 DEF Msg

\* Each who runs gets one.
LEMMA CopyFor ==
  ASSUME NEW m \in Msg, NEW to \in SUBSET Port, NEW d \in to, Runs(d)
  PROVE  [m EXCEPT !.dst = d] \in Copies(m, to)
  BY DEF Copies, Off

PongOf(n, m) == [kind |-> "pong", id |-> m.id, from |-> n, dst |-> m.from, ttl |-> 0,
                 pc |-> "in_flight"]
Passed(m) == [m EXCEPT !.ttl = @ - 1, !.pc = "in_flight"]

LEMMA PongType ==
  ASSUME NEW n \in Port, NEW m \in Msg
  PROVE  PongOf(n, m) \in Msg
  BY OverlayAssumption DEF PongOf, Msg

LEMMA PassedType ==
  ASSUME NEW m \in Msg, m.ttl # 0
  PROVE  /\ Passed(m) \in Msg
         /\ Passed(m).kind = m.kind /\ Passed(m).id = m.id /\ Passed(m).from = m.from
         /\ Passed(m).pc = "in_flight"
<1>1. m.ttl - 1 \in 0 .. TTL
  BY OverlayAssumption DEF Msg
<1> QED
  BY <1>1 DEF Msg, Passed

\* A message that a handler goes on with is otherwise the same.
LEMMA GoesOnWith ==
  ASSUME NEW m \in Msg
  PROVE  /\ [m EXCEPT !.pc = "pass"] \in Msg
         /\ \A x \in GoesOn(m) : x \in msgs \ {m} \/ x = [m EXCEPT !.pc = "pass"]
  BY DEF GoesOn, Msg

LEMMA TypeInit == Init => TypeOK
  BY DEF Init, TypeOK

LEMMA TypeStep == TypeOK /\ [Next]_vars => TypeOK'
<1> SUFFICES ASSUME TypeOK, [Next]_vars PROVE TypeOK'
  OBVIOUS
<1>1. ASSUME NEW n \in Port, Start(n) PROVE TypeOK'
  BY <1>1 DEF TypeOK, Start, boot, counters
<1>2. ASSUME NEW n \in Port, Scan(n) PROVE TypeOK'
  <2>1. Contacts[n] \ {n} \subseteq Port
    BY OverlayAssumption
  <2> QED
    BY <1>2, <2>1 DEF TypeOK, Scan
<1>3. ASSUME NEW n \in Port, NEW x \in Port, Look(n, x) PROVE TypeOK'
  BY <1>3 DEF TypeOK, Look, counters
<1>4. ASSUME NEW n \in Port, NEW x \in Port, Connect(n, x) PROVE TypeOK'
  <2>1. PingTo(n, x) \in Msg
    BY OverlayAssumption DEF PingTo, Msg, Id, TypeOK
  <2>2. msgs' \subseteq Msg
    BY <1>4, <2>1 DEF TypeOK, Connect
  <2> QED
    BY <1>4, <2>2 DEF TypeOK, Connect, counters
<1>5. ASSUME NEW n \in Port, Joined(n) PROVE TypeOK'
  BY <1>5 DEF TypeOK, Joined, counters
<1>6. ASSUME NEW n \in Port, TimeOut(n) PROVE TypeOK'
  BY <1>6 DEF TypeOK, TimeOut, counters
<1>7. ASSUME NEW n \in Port, Handshake(n) PROVE TypeOK'
  BY <1>7 DEF TypeOK, Handshake, counters
<1>8. ASSUME NEW n \in Port, Exit(n) PROVE TypeOK'
  BY <1>8 DEF TypeOK, Exit, counters
<1>9. ASSUME NEW n \in Port, NEW m \in msgs, Handles(n, m) PROVE TypeOK'
  <2> m \in Msg /\ m.from \in Port /\ m.id \in Id
    BY DEF TypeOK, Msg
  <2> Learnt(n, m) \in SUBSET Port
    BY DEF Learnt, TypeOK
  <2>1. CASE Duplicate(n, m)
    BY <2>1 DEF TypeOK, Duplicate, boot, counters
  <2>2. CASE HandlePing(n, m)
    <3>1. \A c \in Copies(PongOf(n, m), {m.from}) : c \in Msg
      BY PongType, CopiesOf
    <3>2. msgs' \subseteq Msg
      BY <2>2, <3>1, GoesOnWith DEF HandlePing, PongOf, TypeOK
    <3> QED
      BY <2>2, <3>2 DEF TypeOK, HandlePing, First, Answering, boot, counters
  <2>3. CASE Pass(n, m)
    <3> DEFINE to == IF m.ttl = 0 THEN {} ELSE neighbors[n] \ {m.from}
    <3>1. to \in SUBSET Port
      BY DEF TypeOK
    <3>2. \A c \in Copies(Passed(m), to) : c \in Msg
      <4>1. CASE m.ttl = 0
        BY <4>1 DEF Copies
      <4> QED
        BY <4>1, <3>1, PassedType, CopiesOf
    <3>3. msgs' \subseteq Msg
      BY <2>3, <3>2 DEF Pass, Forward, Passed, TypeOK
    <3> QED
      BY <2>3, <3>3 DEF TypeOK, Pass, Forward, Answering, boot, counters
  <2>4. CASE HandlePong(n, m)
    BY <2>4 DEF TypeOK, HandlePong, counters
  <2> QED
    BY <1>9, <2>1, <2>2, <2>3, <2>4 DEF Handles
<1>10. CASE UNCHANGED vars
  BY <1>10 DEF TypeOK, vars, boot, counters
<1> QED
  BY <1>1, <1>2, <1>3, <1>4, <1>5, <1>6, <1>7, <1>8, <1>9, <1>10 DEF Next, Boots

\* Whoever starts and exits when, every message and every list of neighbours is of the
\* kinds the handlers expect, and no copy of a ping has a time to live below zero.
THEOREM TypeCorrect == Spec => []TypeOK
  BY TypeInit, TypeStep, PTL DEF Spec

-----------------------------------------------------------------------------
(* The invariant. *)

\* o has handled a ping of j.
Met(j, o) == \E i \in seen[o] : i.src = j

\* Every process that runs has started; only bootstrap has threads, none of them for the
\* process's own port; who is at the prompt has had a pong.
ThreadInv ==
  \A p \in Port :
    /\ Runs(p) => starts[p] >= 1
    /\ looking[p] # {} \/ trying[p] # {} => main[p] = "scan"
    /\ p \notin looking[p] /\ p \notin trying[p]
    /\ main[p] = "on" /\ ~IsBase(p) => shaken[p]

\* A message is between two processes that run.  A ping is its originator's; a pong goes
\* back to it from one who has handled the ping.  A ping in flight has been handled where
\* it went first, unless it is on its way there.
MsgsRight ==
  \A m \in msgs :
    /\ Runs(m.dst) /\ Runs(m.from) /\ m.dst # m.from
    /\ m.kind = "ping" => m.id.src = m.from
    /\ m.kind = "pong" => m.pc = "in_flight" /\ m.id.src = m.dst /\ m.id \in seen[m.from]
    /\ m.kind = "ping" /\ m.pc = "in_flight" =>
         m.id \in seen[m.id.to] \/ (m.dst = m.id.to /\ m.ttl = TTL)
    /\ m.pc = "pass" => m.id \in seen[m.dst]

PongTo(s, o) == \E m \in msgs : m.kind = "pong" /\ m.from = o /\ m.dst = s

\* Who has handled a ping knows its originator, who knows it or will when its pong comes.
SeenRight ==
  \A o \in Port : \A i \in seen[o] :
    /\ Runs(o) /\ Runs(i.src) /\ i.src # o
    /\ i \in seen[i.to]
    /\ i.src \in neighbors[o]
    /\ o \in neighbors[i.src] \/ PongTo(i.src, o)

\* Of two neighbours one has handled a ping of the other.
NeighborsRight ==
  \A p \in Port : \A q \in neighbors[p] :
    /\ Runs(p) /\ Runs(q) /\ q # p
    /\ Met(q, p) \/ Met(p, q)

\* A pong came from someone who had handled a ping.
ShakenRight == \A p \in Port : shaken[p] => \E o \in Port : Met(p, o)

KnownInv == Stayed => MsgsRight /\ SeenRight /\ NeighborsRight /\ ShakenRight

LEMMA InvInit == Init => ThreadInv /\ KnownInv
<1> SUFFICES ASSUME Init PROVE ThreadInv /\ KnownInv
  OBVIOUS
<1> USE DEF Init, Runs
<1>1. ThreadInv
  BY DEF ThreadInv
<1>2. MsgsRight /\ SeenRight /\ NeighborsRight /\ ShakenRight
  BY DEF MsgsRight, SeenRight, NeighborsRight, ShakenRight
<1> QED
  BY <1>1, <1>2 DEF KnownInv

\* The main thread and bootstrap's, apart from the connections.
Inside(n) ==
  \/ Scan(n) \/ Joined(n) \/ TimeOut(n) \/ Handshake(n)
  \/ \E x \in Port : Look(n, x)

\* They leave alone what others see.
LEMMA InsideOnly ==
  ASSUME TypeOK, ThreadInv, NEW n \in Port, Inside(n)
  PROVE  /\ \A p \in Port : Runs(p)' = Runs(p)
         /\ \A p \in Port : main[p] = "on" => main'[p] = "on"
         /\ UNCHANGED <<neighbors, seen, shaken, starts, msgs, calm>>
<1>1. CASE Scan(n)
  BY <1>1 DEF Scan, TypeOK, Runs
<1>2. CASE Joined(n)
  BY <1>2 DEF Joined, TypeOK, Runs, counters
<1>3. CASE TimeOut(n)
  BY <1>3 DEF TimeOut, TypeOK, Runs, counters
<1>4. CASE Handshake(n)
  BY <1>4 DEF Handshake, TypeOK, Runs, counters
<1>5. ASSUME NEW x \in Port, Look(n, x)
      PROVE  /\ \A p \in Port : Runs(p)' = Runs(p)
             /\ \A p \in Port : main[p] = "on" => main'[p] = "on"
             /\ UNCHANGED <<neighbors, seen, shaken, starts, msgs, calm>>
  BY <1>5 DEF Look, TypeOK, Runs, counters
<1> QED
  BY <1>1, <1>2, <1>3, <1>4, <1>5 DEF Inside

LEMMA ConnectOnly ==
  ASSUME TypeOK, ThreadInv, NEW n \in Port, NEW x \in Port, Connect(n, x)
  PROVE  /\ \A p \in Port : Runs(p)' = Runs(p)
         /\ Runs(n) /\ x # n
         /\ msgs' = msgs \/ (Runs(x) /\ msgs' = msgs \union {PingTo(n, x)})
         /\ UNCHANGED <<main, neighbors, seen, shaken, starts, calm>>
  BY DEF Connect, ThreadInv, TypeOK, Runs, counters

LEMMA HandlesOnly ==
  ASSUME TypeOK, NEW n \in Port, NEW m \in msgs, Handles(n, m)
  PROVE  /\ \A p \in Port : Runs(p)' = Runs(p)
         /\ \A p \in Port : shaken[p] => shaken'[p]
         /\ \A p \in Port : seen[p] \subseteq seen'[p]
         /\ UNCHANGED <<main, looking, trying, starts, calm>>
<1>1. CASE Duplicate(n, m)
  BY <1>1 DEF Duplicate, TypeOK, Runs, boot, counters
<1>2. CASE HandlePing(n, m)
  BY <1>2 DEF HandlePing, First, TypeOK, Runs, boot, counters
<1>3. CASE Pass(n, m)
  BY <1>3 DEF Pass, Forward, TypeOK, Runs, boot, counters
<1>4. CASE HandlePong(n, m)
  BY <1>4 DEF HandlePong, TypeOK, Runs, counters
<1> QED
  BY <1>1, <1>2, <1>3, <1>4 DEF Handles

LEMMA ThreadStepInv == TypeOK /\ ThreadInv /\ [Next]_vars => ThreadInv'
<1> SUFFICES ASSUME TypeOK, ThreadInv, [Next]_vars PROVE ThreadInv'
  OBVIOUS
<1>1. ASSUME NEW n \in Port, Start(n) PROVE ThreadInv'
  BY <1>1 DEF TypeOK, ThreadInv, Start, Runs, IsBase
<1>2. ASSUME NEW n \in Port, Scan(n) PROVE ThreadInv'
  BY <1>2 DEF TypeOK, ThreadInv, Scan, Runs, IsBase
<1>3. ASSUME NEW n \in Port, NEW x \in Port, Look(n, x) PROVE ThreadInv'
  BY <1>3 DEF TypeOK, ThreadInv, Look, Runs, IsBase, counters
<1>4. ASSUME NEW n \in Port, NEW x \in Port, Connect(n, x) PROVE ThreadInv'
  BY <1>4 DEF TypeOK, ThreadInv, Connect, Runs, IsBase, counters
<1>5. ASSUME NEW n \in Port, Joined(n) PROVE ThreadInv'
  BY <1>5 DEF TypeOK, ThreadInv, Joined, Runs, IsBase, counters
<1>6. ASSUME NEW n \in Port, TimeOut(n) PROVE ThreadInv'
  BY <1>6 DEF TypeOK, ThreadInv, TimeOut, Runs, IsBase, counters
<1>7. ASSUME NEW n \in Port, Handshake(n) PROVE ThreadInv'
  BY <1>7 DEF TypeOK, ThreadInv, Handshake, Runs, IsBase, counters
<1>8. ASSUME NEW n \in Port, Exit(n) PROVE ThreadInv'
  BY <1>8 DEF TypeOK, ThreadInv, Exit, Runs, IsBase, counters
<1>9. ASSUME NEW n \in Port, NEW m \in msgs, Handles(n, m) PROVE ThreadInv'
  BY <1>9, HandlesOnly DEF ThreadInv, Runs, IsBase
<1>10. CASE UNCHANGED vars
  BY <1>10 DEF ThreadInv, vars, Runs, IsBase, boot, counters
<1> QED
  BY <1>1, <1>2, <1>3, <1>4, <1>5, <1>6, <1>7, <1>8, <1>9, <1>10 DEF Next, Boots

\* The steps, for the proofs below.
LEMMA NextCases ==
  ASSUME Next
  PROVE  \/ \E n \in Port : Start(n)
         \/ \E n \in Port : Inside(n)
         \/ \E n, x \in Port : Connect(n, x)
         \/ \E n \in Port : Exit(n)
         \/ \E n \in Port : \E m \in msgs : Handles(n, m)
  BY DEF Next, Boots, Inside

-----------------------------------------------------------------------------
(* Peers know each other both ways. *)

KnownParts == MsgsRight /\ SeenRight /\ NeighborsRight /\ ShakenRight

\* If nobody has exited after a step, nobody had before it, and it is not an exit.
LEMMA StayedBefore ==
  ASSUME TypeOK, ThreadInv, Next, Stayed'
  PROVE  Stayed /\ ~\E n \in Port : Exit(n)
<1>1. ASSUME NEW n \in Port, Exit(n) PROVE FALSE
  <2>1. main'[n] = "off" /\ starts'[n] >= 1 /\ starts[n] \in Nat
    BY <1>1 DEF Exit, TypeOK, ThreadInv, Runs, counters
  <2> QED
    BY <2>1 DEF Stayed, Runs
<1>2. ASSUME NEW n \in Port, Start(n) PROVE Stayed
  <2>1. /\ starts' = [starts EXCEPT ![n] = @ + 1] /\ starts[n] \in Nat /\ ~Runs(n)
        /\ \A p \in Port : p # n => Runs(p)' = Runs(p)
    BY <1>2 DEF Start, TypeOK, Runs
  <2>2. starts[n] = 0
    BY <2>1 DEF Stayed, Runs, TypeOK
  <2> QED
    BY <2>1, <2>2 DEF Stayed, TypeOK
<1>3. ASSUME UNCHANGED starts, \A p \in Port : Runs(p)' = Runs(p) PROVE Stayed
  BY <1>3 DEF Stayed
<1>4. ASSUME NEW n \in Port, Inside(n) PROVE Stayed
  BY <1>3, <1>4, InsideOnly
<1>5. ASSUME NEW n \in Port, NEW x \in Port, Connect(n, x) PROVE Stayed
  BY <1>3, <1>5, ConnectOnly
<1>6. ASSUME NEW n \in Port, NEW m \in msgs, Handles(n, m) PROVE Stayed
  BY <1>3, <1>6, HandlesOnly
<1> QED
  BY <1>1, <1>2, <1>4, <1>5, <1>6, NextCases

LEMMA KnownStart ==
  ASSUME TypeOK, ThreadInv, KnownParts, Stayed, NEW n \in Port, Start(n)
  PROVE  KnownParts'
<1>1. /\ ~Runs(n) /\ Runs(n)' /\ \A p \in Port : p # n => Runs(p)' = Runs(p)
      /\ shaken' = [shaken EXCEPT ![n] = FALSE] /\ msgs' = msgs
      /\ neighbors' = [neighbors EXCEPT ![n] = {}] /\ seen' = [seen EXCEPT ![n] = {}]
  BY DEF Start, TypeOK, Runs
<1>2. seen[n] = {} /\ neighbors[n] = {}
  BY <1>1 DEF KnownParts, SeenRight, NeighborsRight
<1>3. seen' = seen /\ neighbors' = neighbors
  BY <1>1, <1>2 DEF TypeOK
<1>4. \A p \in Port : (Runs(p) => Runs(p)') /\ (shaken'[p] => shaken[p])
  BY <1>1 DEF TypeOK
<1>5. \A m \in msgs : m.dst \in Port /\ m.from \in Port
  BY DEF TypeOK, Msg
<1>6. \A o \in Port : \A i \in seen[o] : i.src \in Port
  BY DEF TypeOK, Id
<1>7. MsgsRight'
  BY <1>1, <1>3, <1>4, <1>5 DEF KnownParts, MsgsRight
<1>8. SeenRight'
  BY <1>1, <1>3, <1>4, <1>6 DEF KnownParts, SeenRight, PongTo
<1>9. NeighborsRight'
  BY <1>3, <1>4 DEF KnownParts, NeighborsRight, Met, TypeOK
<1>10. ShakenRight'
  BY <1>3, <1>4 DEF KnownParts, ShakenRight, Met
<1> QED
  BY <1>7, <1>8, <1>9, <1>10 DEF KnownParts

LEMMA KnownConnect ==
  ASSUME TypeOK, ThreadInv, KnownParts, NEW n \in Port, NEW x \in Port, Connect(n, x)
  PROVE  KnownParts'
<1>1. /\ \A p \in Port : Runs(p)' = Runs(p)
      /\ Runs(n) /\ x # n
      /\ msgs' = msgs \/ (Runs(x) /\ msgs' = msgs \union {PingTo(n, x)})
      /\ UNCHANGED <<main, neighbors, seen, shaken, starts, calm>>
  BY ConnectOnly
<1>2. \A m \in msgs : m.dst \in Port /\ m.from \in Port
  BY DEF TypeOK, Msg
<1>3. MsgsRight'
  BY <1>1, <1>2 DEF KnownParts, MsgsRight, PingTo
<1>4. SeenRight'
  <2>1. \A s, o \in Port : PongTo(s, o) => PongTo(s, o)'
    BY <1>1 DEF PongTo
  <2>2. \A o \in Port : \A i \in seen[o] : i.src \in Port
    BY DEF TypeOK, Id
  <2> QED
    BY <1>1, <2>1, <2>2 DEF KnownParts, SeenRight
<1>5. NeighborsRight' /\ ShakenRight'
  BY <1>1 DEF KnownParts, NeighborsRight, ShakenRight, Met, TypeOK
<1> QED
  BY <1>3, <1>4, <1>5 DEF KnownParts

\* While nobody exits every neighbour answers.
LEMMA AllAnswer ==
  ASSUME NEW ns \in SUBSET Port, \A p \in ns : Runs(p), NEW to
  PROVE  Answering(ns, to) = ns
  BY DEF Answering, Off

\* What it takes for the neighbours to stay right when n handles a message from another.
LEMMA LearntRight ==
  ASSUME TypeOK, KnownParts, NEW n \in Port, NEW m \in msgs, m.dst = n,
         \A p \in Port : Runs(p)' = Runs(p),
         \A p \in Port : seen[p] \subseteq seen'[p],
         neighbors' = [neighbors EXCEPT ![n] = Learnt(n, m)],
         Met(m.from, n)' \/ Met(n, m.from)'
  PROVE  NeighborsRight' /\ \A p \in Port : neighbors[p] \subseteq neighbors'[p]
<1>1. m.from \in Port /\ m.from # n /\ Runs(m.from) /\ Runs(n)
  BY DEF TypeOK, Msg, KnownParts, MsgsRight
<1>2. \A p \in Port :
        neighbors'[p] = IF p = n THEN neighbors[n] \union {m.from} ELSE neighbors[p]
  BY <1>1 DEF Learnt, TypeOK
<1>3. \A p, q \in Port : Met(p, q) => Met(p, q)'
  BY DEF Met
<1>4. ASSUME NEW p \in Port, NEW q \in neighbors'[p]
      PROVE  Runs(p)' /\ Runs(q)' /\ q # p /\ (Met(q, p)' \/ Met(p, q)')
  <2>1. CASE q \in neighbors[p]
    <3>1. q \in Port
      BY <2>1 DEF TypeOK
    <3> QED
      BY <2>1, <3>1, <1>3 DEF KnownParts, NeighborsRight
  <2>2. CASE p = n /\ q = m.from
    BY <2>2, <1>1
  <2> QED
    BY <1>2, <1>4, <2>1, <2>2
<1> QED
  BY <1>2, <1>4 DEF NeighborsRight

LEMMA KnownDuplicate ==
  ASSUME TypeOK, KnownParts, NEW n \in Port, NEW m \in msgs, m.dst = n, Duplicate(n, m)
  PROVE  KnownParts'
<1>1. /\ msgs' = msgs \ {m} /\ neighbors' = [neighbors EXCEPT ![n] = Learnt(n, m)]
      /\ UNCHANGED <<main, seen, shaken>>
      /\ m.kind = "ping" /\ m.id \in seen[n]
  BY DEF Duplicate, boot, TypeOK, Msg
<1>2. \A p \in Port : Runs(p)' = Runs(p)
  BY <1>1 DEF Runs
<1>3. Met(m.from, n)'
  BY <1>1 DEF KnownParts, MsgsRight, Met
<1>4. NeighborsRight' /\ \A p \in Port : neighbors[p] \subseteq neighbors'[p]
  BY <1>1, <1>2, <1>3, LearntRight
<1>5. MsgsRight'
  <2>1. \A k \in msgs : k.dst \in Port /\ k.from \in Port
    BY DEF TypeOK, Msg
  <2> QED
    BY <1>1, <1>2, <2>1 DEF KnownParts, MsgsRight
<1>6. SeenRight'
  <2>1. \A s, o \in Port : PongTo(s, o) => PongTo(s, o)'
    BY <1>1 DEF PongTo
  <2>2. \A o \in Port : \A i \in seen[o] : i.src \in Port
    BY DEF TypeOK, Id
  <2> QED
    BY <1>1, <1>2, <1>4, <2>1, <2>2 DEF KnownParts, SeenRight
<1>7. ShakenRight'
  BY <1>1 DEF KnownParts, ShakenRight, Met
<1> QED
  BY <1>4, <1>5, <1>6, <1>7 DEF KnownParts

\* What HandlePing does while nobody exits.
LEMMA PingHandled ==
  ASSUME TypeOK, KnownParts, NEW n \in Port, NEW m \in msgs, m.dst = n, HandlePing(n, m)
  PROVE  /\ m.kind = "ping" /\ m.pc = "in_flight" /\ m.id \notin seen[n]
         /\ m.id.src = m.from /\ m.from \in Port /\ m.from # n
         /\ \A p \in Port : seen'[p] = IF p = n THEN seen[p] \union {m.id} ELSE seen[p]
         /\ msgs' = (msgs \ {m}) \union {[m EXCEPT !.pc = "pass"], PongOf(n, m)}
         /\ neighbors' = [neighbors EXCEPT ![n] = Learnt(n, m)]
         /\ UNCHANGED <<main, shaken>>
<1>1. /\ m.kind = "ping" /\ m.pc = "in_flight" /\ m.id \notin seen[n]
      /\ m.id.src = m.from /\ m.from \in Port /\ m.from # n /\ Runs(m.from)
  BY DEF HandlePing, First, TypeOK, Msg, KnownParts, MsgsRight
<1>2. \A p \in Port : seen'[p] = IF p = n THEN seen[p] \union {m.id} ELSE seen[p]
  BY DEF HandlePing, First, TypeOK
<1>3. Copies(PongOf(n, m), {m.from}) = {PongOf(n, m)}
  <2>1. {m.from} \ Off = {m.from}
    BY <1>1 DEF Off
  <2>2. [PongOf(n, m) EXCEPT !.dst = m.from] = PongOf(n, m)
    BY DEF PongOf
  <2> QED
    BY <2>1, <2>2 DEF Copies
<1>4. msgs' = (msgs \ {m}) \union {[m EXCEPT !.pc = "pass"], PongOf(n, m)}
  <2>1. msgs' = GoesOn(m) \union Copies(PongOf(n, m), {m.from})
    BY DEF HandlePing, PongOf
  <2> QED
    BY <2>1, <1>3 DEF GoesOn
<1>5. Learnt(n, m) \in SUBSET Port /\ \A p \in Learnt(n, m) : Runs(p)
  BY <1>1 DEF Learnt, TypeOK, KnownParts, NeighborsRight
<1>6. Answering(Learnt(n, m), {m.from}) = Learnt(n, m)
  BY <1>5, AllAnswer
<1> QED
  BY <1>1, <1>2, <1>4, <1>6 DEF HandlePing, boot

LEMMA KnownPing ==
  ASSUME TypeOK, KnownParts, NEW n \in Port, NEW m \in msgs, m.dst = n, HandlePing(n, m)
  PROVE  KnownParts'
<1> DEFINE mp == [m EXCEPT !.pc = "pass"]
           po == PongOf(n, m)
<1>1. /\ m.kind = "ping" /\ m.pc = "in_flight" /\ m.id \notin seen[n]
      /\ m.id.src = m.from /\ m.from \in Port /\ m.from # n
      /\ \A p \in Port : seen'[p] = IF p = n THEN seen[p] \union {m.id} ELSE seen[p]
      /\ msgs' = (msgs \ {m}) \union {mp, po}
      /\ neighbors' = [neighbors EXCEPT ![n] = Learnt(n, m)]
      /\ UNCHANGED <<main, shaken>>
  BY PingHandled
<1>2. \A p \in Port : Runs(p)' = Runs(p)
  BY <1>1 DEF Runs
<1>3. \A p \in Port : seen[p] \subseteq seen'[p]
  BY <1>1
<1>4. Met(m.from, n)'
  BY <1>1 DEF Met
<1>5. NeighborsRight' /\ \A p \in Port : neighbors[p] \subseteq neighbors'[p]
  BY <1>1, <1>2, <1>3, <1>4, LearntRight
<1>6. /\ mp.kind = "ping" /\ mp.pc = "pass" /\ mp.id = m.id /\ mp.from = m.from
      /\ mp.dst = n
      /\ po.kind = "pong" /\ po.pc = "in_flight" /\ po.id = m.id /\ po.from = n
      /\ po.dst = m.from
  BY <1>1 DEF PongOf, TypeOK, Msg
<1>7. Runs(n) /\ Runs(m.from)
  BY <1>1 DEF KnownParts, MsgsRight
<1>8. m.id \in Id /\ m.id.to \in Port
  BY DEF TypeOK, Msg, Id
<1>9. MsgsRight'
  <2>1. ASSUME NEW k \in msgs
        PROVE  /\ Runs(k.dst)' /\ Runs(k.from)' /\ k.dst # k.from
               /\ k.kind = "ping" => k.id.src = k.from
               /\ k.kind = "pong" =>
                    k.pc = "in_flight" /\ k.id.src = k.dst /\ k.id \in seen'[k.from]
               /\ k.kind = "ping" /\ k.pc = "in_flight" =>
                    k.id \in seen'[k.id.to] \/ (k.dst = k.id.to /\ k.ttl = TTL)
               /\ k.pc = "pass" => k.id \in seen'[k.dst]
    <3>1. k.dst \in Port /\ k.from \in Port /\ k.id.to \in Port
      BY DEF TypeOK, Msg, Id
    <3> QED
      BY <3>1, <1>2, <1>3 DEF KnownParts, MsgsRight
  <2>2. m.id \in seen'[n]
    BY <1>1
  <2>3. msgs' \subseteq msgs \union {mp, po}
    BY <1>1
  <2>4. Runs(n)' /\ Runs(m.from)' /\ n # m.from /\ m.id.src = m.from
    BY <1>1, <1>2, <1>7, <2>1
  <2> QED
    BY <2>1, <2>2, <2>3, <2>4, <1>6 DEF MsgsRight
<1>10. SeenRight'
  <2>1. \A s, o \in Port : PongTo(s, o) => PongTo(s, o)'
    BY <1>1 DEF PongTo
  <2>2. PongTo(m.from, n)'
    BY <1>1, <1>6 DEF PongTo
  <2>3. m.id \in seen'[m.id.to]
    <3>1. m.id \in seen[m.id.to] \/ n = m.id.to
      BY <1>1 DEF KnownParts, MsgsRight
    <3> QED
      BY <3>1, <1>1, <1>8
  <2>4. m.from \in neighbors'[n]
    BY <1>1 DEF Learnt, TypeOK
  <2>5. \A o \in Port : \A i \in seen[o] : i.src \in Port /\ i.to \in Port
    BY DEF TypeOK, Id
  <2>6. ASSUME NEW o \in Port, NEW i \in seen[o]
        PROVE  /\ Runs(o)' /\ Runs(i.src)' /\ i.src # o
               /\ i \in seen'[i.to]
               /\ i.src \in neighbors'[o]
               /\ o \in neighbors'[i.src] \/ PongTo(i.src, o)'
    BY <2>1, <2>5, <1>2, <1>3, <1>5 DEF KnownParts, SeenRight
  <2>7. /\ Runs(n)' /\ Runs(m.id.src)' /\ m.id.src # n
        /\ m.id.src \in neighbors'[n] /\ PongTo(m.id.src, n)'
    BY <1>1, <1>2, <1>7, <2>2, <2>4
  <2>8. \A o \in Port : \A i \in seen'[o] : i \in seen[o] \/ (o = n /\ i = m.id)
    BY <1>1
  <2>9. ASSUME NEW o \in Port, NEW i \in seen'[o]
        PROVE  /\ Runs(o)' /\ Runs(i.src)' /\ i.src # o
               /\ i \in seen'[i.to]
               /\ i.src \in neighbors'[o]
               /\ o \in neighbors'[i.src] \/ PongTo(i.src, o)'
    <3>1. CASE i \in seen[o]
      BY <3>1, <2>6
    <3>2. CASE o = n /\ i = m.id
      BY <3>2, <2>3, <2>7
    <3> QED
      BY <2>8, <3>1, <3>2
  <2> QED
    BY <2>9 DEF SeenRight
<1>11. ShakenRight'
  BY <1>1, <1>3 DEF KnownParts, ShakenRight, Met
<1> QED
  BY <1>5, <1>9, <1>10, <1>11 DEF KnownParts

\* What Pass does while nobody exits.
LEMMA PassDone ==
  ASSUME TypeOK, KnownParts, NEW n \in Port, NEW m \in msgs, m.dst = n, Pass(n, m)
  PROVE  /\ m.pc = "pass" /\ m.kind = "ping" /\ m.id \in seen[n]
         /\ m.id.src = m.from
         /\ UNCHANGED <<main, shaken, seen, neighbors>>
         /\ m.ttl = 0 => msgs' = msgs \ {m}
         /\ m.ttl # 0 =>
              msgs' = (msgs \ {m}) \union Copies(Passed(m), neighbors[n] \ {m.from})
<1> DEFINE to == IF m.ttl = 0 THEN {} ELSE neighbors[n] \ {m.from}
<1>1. /\ m.pc = "pass" /\ m.kind = "ping" /\ m.id \in seen[n] /\ m.id.src = m.from
  BY DEF Pass, Forward, TypeOK, Msg, KnownParts, MsgsRight
<1>2. Answering(neighbors[n], to) = neighbors[n]
  <2>1. neighbors[n] \in SUBSET Port /\ \A p \in neighbors[n] : Runs(p)
    BY DEF TypeOK, KnownParts, NeighborsRight
  <2> QED
    BY <2>1, AllAnswer
<1>3. neighbors' = neighbors
  BY <1>2 DEF Pass, Forward, TypeOK
<1>4. msgs' = (msgs \ {m}) \union Copies(Passed(m), to)
  BY DEF Pass, Forward, Passed
<1>5. m.ttl = 0 => msgs' = msgs \ {m}
  BY <1>4 DEF Copies
<1> QED
  BY <1>1, <1>3, <1>4, <1>5 DEF Pass, Forward, boot

LEMMA KnownPass ==
  ASSUME TypeOK, KnownParts, NEW n \in Port, NEW m \in msgs, m.dst = n, Pass(n, m)
  PROVE  KnownParts'
<1>1. /\ m.pc = "pass" /\ m.kind = "ping" /\ m.id \in seen[n]
      /\ m.id.src = m.from
      /\ UNCHANGED <<main, shaken, seen, neighbors>>
      /\ m.ttl = 0 => msgs' = msgs \ {m}
      /\ m.ttl # 0 =>
           msgs' = (msgs \ {m}) \union Copies(Passed(m), neighbors[n] \ {m.from})
  BY PassDone
<1>2. \A p \in Port : Runs(p)' = Runs(p)
  BY <1>1 DEF Runs
<1>3. ASSUME NEW k \in msgs'
      PROVE  \/ k \in msgs
             \/ /\ k.kind = "ping" /\ k.pc = "in_flight" /\ k.id = m.id
                /\ k.from = m.from /\ k.dst # m.from /\ Runs(k.dst)
  <2>1. CASE m.ttl = 0
    BY <2>1, <1>1, <1>3
  <2>2. CASE m.ttl # 0
    <3>1. ASSUME k \in Copies(Passed(m), neighbors[n] \ {m.from})
          PROVE  /\ k.kind = "ping" /\ k.pc = "in_flight" /\ k.id = m.id
                 /\ k.from = m.from /\ k.dst # m.from /\ Runs(k.dst)
      <4>1. m \in Msg /\ neighbors[n] \ {m.from} \in SUBSET Port
        BY DEF TypeOK
      <4>2. /\ Passed(m) \in Msg
            /\ Passed(m).kind = m.kind /\ Passed(m).id = m.id /\ Passed(m).from = m.from
            /\ Passed(m).pc = "in_flight"
        BY <4>1, <2>2, PassedType
      <4>3. /\ k.dst \in neighbors[n] \ {m.from} /\ Runs(k.dst)
            /\ k.kind = Passed(m).kind /\ k.id = Passed(m).id /\ k.from = Passed(m).from
            /\ k.pc = Passed(m).pc
        BY <3>1, <4>1, <4>2, CopiesOf
      <4> QED
        BY <4>2, <4>3, <1>1
    <3> QED
      BY <2>2, <3>1, <1>1, <1>3
  <2> QED
    BY <2>1, <2>2
<1>4. msgs \ {m} \subseteq msgs'
  BY <1>1
<1>5. MsgsRight'
  <2>1. \A k \in msgs : k.dst \in Port /\ k.from \in Port
    BY DEF TypeOK, Msg
  <2>2. Runs(m.from) /\ m.id \in seen[m.id.to]
    <3>1. Runs(m.from) /\ m.id \in seen[m.dst]
      BY <1>1 DEF KnownParts, MsgsRight
    <3> QED
      BY <3>1, <1>1 DEF KnownParts, SeenRight
  <2>3. m.from \in Port
    BY <2>1
  <2>4. ASSUME NEW k \in msgs'
        PROVE  /\ Runs(k.dst)' /\ Runs(k.from)' /\ k.dst # k.from
               /\ k.kind = "ping" => k.id.src = k.from
               /\ k.kind = "pong" =>
                    k.pc = "in_flight" /\ k.id.src = k.dst /\ k.id \in seen[k.from]
               /\ k.kind = "ping" /\ k.pc = "in_flight" =>
                    k.id \in seen[k.id.to] \/ (k.dst = k.id.to /\ k.ttl = TTL)
               /\ k.pc = "pass" => k.id \in seen[k.dst]
    <3>1. CASE k \in msgs
      BY <3>1, <2>1, <1>2 DEF KnownParts, MsgsRight
    <3>2. CASE k \notin msgs
      <4>1. /\ k.kind = "ping" /\ k.pc = "in_flight" /\ k.id = m.id
            /\ k.from = m.from /\ k.dst # m.from /\ Runs(k.dst)
        BY <3>2, <1>3
      <4>2. Runs(k.dst)'
        BY <4>1, <1>1 DEF Runs
      <4> QED
        BY <4>1, <4>2, <2>2, <2>3, <1>1, <1>2
    <3> QED
      BY <3>1, <3>2
  <2> QED
    BY <2>4, <1>1 DEF MsgsRight
<1>6. SeenRight'
  <2>1. \A s, o \in Port : PongTo(s, o) => PongTo(s, o)'
    BY <1>1, <1>4 DEF PongTo
  <2>2. \A o \in Port : \A i \in seen[o] : i.src \in Port
    BY DEF TypeOK, Id
  <2> QED
    BY <1>1, <1>2, <2>1, <2>2 DEF KnownParts, SeenRight
<1>7. NeighborsRight' /\ ShakenRight'
  BY <1>1, <1>2 DEF KnownParts, NeighborsRight, ShakenRight, Met, TypeOK
<1> QED
  BY <1>5, <1>6, <1>7 DEF KnownParts

LEMMA KnownPong ==
  ASSUME TypeOK, KnownParts, NEW n \in Port, NEW m \in msgs, m.dst = n, HandlePong(n, m)
  PROVE  KnownParts'
<1>1. /\ msgs' = msgs \ {m} /\ neighbors' = [neighbors EXCEPT ![n] = Learnt(n, m)]
      /\ UNCHANGED <<main, seen>> /\ shaken' = [shaken EXCEPT ![n] = TRUE]
      /\ m.kind = "pong" /\ m.id.src = n /\ m.id \in seen[m.from] /\ m.from \in Port
  BY DEF HandlePong, TypeOK, Msg, KnownParts, MsgsRight
<1>2. \A p \in Port : Runs(p)' = Runs(p)
  BY <1>1 DEF Runs
<1>3. Met(n, m.from) /\ Met(n, m.from)'
  BY <1>1 DEF Met
<1>4. NeighborsRight' /\ \A p \in Port : neighbors[p] \subseteq neighbors'[p]
  BY <1>1, <1>2, <1>3, LearntRight
<1>5. MsgsRight'
  <2>1. \A k \in msgs : k.dst \in Port /\ k.from \in Port
    BY DEF TypeOK, Msg
  <2> QED
    BY <1>1, <1>2, <2>1 DEF KnownParts, MsgsRight
<1>6. SeenRight'
  <2>1. m.from # n
    BY DEF KnownParts, MsgsRight
  <2>2. m.from \in neighbors'[n]
    BY <1>1, <2>1 DEF Learnt, TypeOK
  <2>3. \A s, o \in Port : PongTo(s, o) => PongTo(s, o)' \/ (s = n /\ o = m.from)
    BY <1>1 DEF PongTo
  <2>4. \A o \in Port : \A i \in seen[o] : i.src \in Port
    BY DEF TypeOK, Id
  <2>5. ASSUME NEW o \in Port, NEW i \in seen[o]
        PROVE  /\ Runs(o)' /\ Runs(i.src)' /\ i.src # o
               /\ i \in seen[i.to]
               /\ i.src \in neighbors'[o]
               /\ o \in neighbors'[i.src] \/ PongTo(i.src, o)'
    BY <2>2, <2>3, <2>4, <1>2, <1>4 DEF KnownParts, SeenRight
  <2> QED
    BY <2>5, <1>1 DEF SeenRight
<1>7. ShakenRight'
  BY <1>1, <1>3 DEF KnownParts, ShakenRight, Met, TypeOK
<1> QED
  BY <1>4, <1>5, <1>6, <1>7 DEF KnownParts

LEMMA KnownStep == TypeOK /\ ThreadInv /\ KnownInv /\ [Next]_vars => KnownInv'
<1> SUFFICES ASSUME TypeOK, ThreadInv, KnownInv, [Next]_vars, Stayed' PROVE KnownParts'
  BY DEF KnownInv, KnownParts
<1>1. ASSUME UNCHANGED <<neighbors, seen, shaken, msgs>>, \A p \in Port : Runs(p)' = Runs(p),
             KnownParts
      PROVE  KnownParts'
  <2>1. \A m \in msgs : m.dst \in Port /\ m.from \in Port
    BY DEF TypeOK, Msg
  <2>2. \A o \in Port : \A i \in seen[o] : i.src \in Port
    BY DEF TypeOK, Id
  <2>3. MsgsRight'
    BY <1>1, <2>1 DEF KnownParts, MsgsRight
  <2>4. SeenRight'
    BY <1>1, <2>2 DEF KnownParts, SeenRight, PongTo
  <2>5. NeighborsRight' /\ ShakenRight'
    BY <1>1 DEF KnownParts, NeighborsRight, ShakenRight, Met, TypeOK
  <2> QED
    BY <2>3, <2>4, <2>5 DEF KnownParts
<1>2. CASE UNCHANGED vars
  <2>1. Stayed
    BY <1>2 DEF vars, counters, boot, Stayed, Runs
  <2> QED
    BY <1>1, <1>2, <2>1 DEF vars, boot, Runs, KnownInv, KnownParts
<1>3. CASE Next
  <2>1. Stayed /\ KnownParts /\ ~\E n \in Port : Exit(n)
    BY <1>3, StayedBefore DEF KnownInv, KnownParts
  <2>2. ASSUME NEW n \in Port, Start(n) PROVE KnownParts'
    BY <2>1, <2>2, KnownStart
  <2>3. ASSUME NEW n \in Port, Inside(n) PROVE KnownParts'
    <3>1. /\ \A p \in Port : Runs(p)' = Runs(p)
          /\ UNCHANGED <<neighbors, seen, shaken, msgs>>
      BY <2>3, InsideOnly
    <3> QED
      BY <1>1, <2>1, <3>1
  <2>4. ASSUME NEW n \in Port, NEW x \in Port, Connect(n, x) PROVE KnownParts'
    BY <2>1, <2>4, KnownConnect
  <2>5. ASSUME NEW n \in Port, NEW m \in msgs, Handles(n, m) PROVE KnownParts'
    BY <2>1, <2>5, KnownDuplicate, KnownPing, KnownPass, KnownPong DEF Handles
  <2> QED
    BY <1>3, <2>1, <2>2, <2>3, <2>4, <2>5, NextCases
<1> QED
  BY <1>2, <1>3

LEMMA KnownImplied == TypeOK /\ KnownInv => KnownBack
<1> SUFFICES ASSUME TypeOK, KnownParts, Quiet,
                    NEW p \in Port, NEW q \in Port, q \in neighbors[p]
             PROVE  p \in neighbors[q]
  BY DEF KnownInv, KnownParts, KnownBack
<1>1. ASSUME NEW s \in Port, NEW o \in Port, Met(s, o)
      PROVE  s \in neighbors[o] /\ o \in neighbors[s]
  BY <1>1 DEF KnownParts, SeenRight, Met, PongTo, Quiet
<1> QED
  BY <1>1 DEF KnownParts, NeighborsRight

\* However the starts overlap, whoever finds whom and however messages and timeouts
\* interleave: when all is quiet and nobody has exited, peers know each other both ways.
THEOREM KnownBothWays == Spec => []KnownBack
<1>1. Init => TypeOK /\ ThreadInv /\ KnownInv
  BY TypeInit, InvInit
<1>2. TypeOK /\ ThreadInv /\ KnownInv /\ [Next]_vars => (TypeOK /\ ThreadInv /\ KnownInv)'
  BY TypeStep, ThreadStepInv, KnownStep
<1>3. TypeOK /\ KnownInv => KnownBack
  BY KnownImplied
<1> QED
  BY <1>1, <1>2, <1>3, PTL DEF Spec
-----------------------------------------------------------------------------
(* All know all.  In a calm overlay s is the port of the process that      *)
(* started last, and k the scans that had been made on s until then: only  *)
(* pings of s with a number above k are about it.                          *)

Old(s, p) == Runs(p) /\ p # s
Cur(s, k, i) == i.src = s /\ i.no > k
MetNew(s, k, p) == \E i \in seen[p] : Cur(s, k, i)

\* The numbers of pings are never used again.
FreshInv ==
  /\ \A p \in Port : \A i \in seen[p] : i.no <= scans[i.src]
  /\ \A m \in msgs : m.id.no <= scans[m.id.src]

\* All but the newest are at their prompts and know each other; who is on BASE_PORT and the
\* newest is alone; a scan of the newest has a new number.
OldKnit(s, k) ==
  /\ \A p \in Port : Old(s, p) => main[p] = "on"
  /\ \A p, q \in Port : Old(s, p) /\ Old(s, q) /\ p # q => q \in neighbors[p]
  /\ IsBase(s) /\ Runs(s) => \A p \in Port : ~Old(s, p)
  /\ scans[s] >= k /\ (main[s] = "scan" => scans[s] > k)

\* Messages are between processes that run, and about a ping of the newest.  A ping in
\* flight has been handled where it went first, unless it is on its way there.
MsgsNew(s, k) ==
  \A m \in msgs :
    /\ Runs(m.dst) /\ Runs(m.from) /\ m.dst # m.from /\ Cur(s, k, m.id)
    /\ m.kind = "ping" => m.from = s
    /\ m.kind = "pong" => m.pc = "in_flight" /\ m.dst = s /\ m.id \in seen[m.from]
    /\ m.kind = "ping" /\ m.pc = "in_flight" =>
         m.id \in seen[m.id.to] \/ (m.dst = m.id.to /\ m.ttl = TTL)
    /\ m.pc = "pass" => m.id \in seen[m.dst]

\* Who has handled a ping of the newest knows it, and is known to it or will be when its
\* pong comes.
HeardNew(s, k) ==
  \A o \in Port : \A i \in seen[o] : Cur(s, k, i) =>
    /\ o # s /\ i \in seen[i.to]
    /\ Runs(o) => s \in neighbors[o] /\ (o \in neighbors[s] \/ PongTo(s, o))

PingOn(s, p) ==
  \E m \in msgs : m.kind = "ping" /\ m.pc = "in_flight" /\ m.dst = p /\ m.id.src = s
PassOf(i) ==
  \E m \in msgs : m.pc = "pass" /\ m.dst = i.to /\ m.id = i /\ m.ttl = TTL

\* A ping of the newest that has been handled where it went first has reached each of the
\* others, is on its way there or about to be.
Reaches(s, k, i, p) == MetNew(s, k, p) \/ PingOn(s, p) \/ PassOf(i)
SpreadsNew(s, k) ==
  \A o \in Port : \A i \in seen[o] : Cur(s, k, i) =>
    \A p \in Port : Old(s, p) => Reaches(s, k, i, p)

\* The newest has a pong only from one who has handled a ping of it.
ShakenNew(s, k) == Runs(s) /\ shaken[s] => \E o \in Port : MetNew(s, k, o)

NewInv(s, k) ==
  OldKnit(s, k) /\ MsgsNew(s, k) /\ HeardNew(s, k) /\ SpreadsNew(s, k) /\ ShakenNew(s, k)

CalmInv == calm => Port = {} \/ \E s \in Port, k \in Nat : NewInv(s, k)

LEMMA CalmInit == Init => FreshInv /\ CalmInv
<1> SUFFICES ASSUME Init PROVE FreshInv /\ CalmInv
  OBVIOUS
<1> USE DEF Init, Runs
<1>1. FreshInv
  BY DEF FreshInv
<1>2. ASSUME NEW s \in Port PROVE NewInv(s, 0)
  <2>1. OldKnit(s, 0)
    BY DEF OldKnit, Old
  <2>2. MsgsNew(s, 0) /\ HeardNew(s, 0) /\ SpreadsNew(s, 0) /\ ShakenNew(s, 0)
    BY DEF MsgsNew, HeardNew, SpreadsNew, ShakenNew
  <2> QED
    BY <2>1, <2>2 DEF NewInv
<1> QED
  BY <1>1, <1>2 DEF CalmInv

LEMMA FreshStep == TypeOK /\ FreshInv /\ [Next]_vars => FreshInv'
<1> SUFFICES ASSUME TypeOK, FreshInv, [Next]_vars PROVE FreshInv'
  OBVIOUS
<1> USE DEF FreshInv
<1>0. /\ \A p \in Port : \A i \in seen[p] : i.src \in Port /\ i.no \in Nat
      /\ \A m \in msgs : m \in Msg /\ m.id.src \in Port /\ m.id.no \in Nat /\ m.dst \in Port
  BY DEF TypeOK, Msg, Id
\* No step makes a number of its own but Connect.
<1>1. ASSUME \A p \in Port : scans'[p] \in Nat /\ scans'[p] >= scans[p],
             \A p \in Port : \A i \in seen'[p] : i \in seen[p] \/ \E m \in msgs : i = m.id,
             \A m \in msgs' : \E l \in msgs : m.id = l.id
      PROVE  FreshInv'
  <2>1. \A p \in Port : scans[p] \in Nat
    BY DEF TypeOK
  <2> QED
    BY <1>0, <1>1, <2>1
<1>2. ASSUME NEW n \in Port, Start(n) PROVE FreshInv'
  BY <1>0, <1>1, <1>2 DEF Start, TypeOK
<1>3. ASSUME NEW n \in Port, Exit(n) PROVE FreshInv'
  BY <1>0, <1>1, <1>3 DEF Exit, TypeOK, counters
<1>4. ASSUME NEW n \in Port, Inside(n) PROVE FreshInv'
  <2>1. UNCHANGED <<seen, msgs>>
    BY <1>4 DEF Inside, Scan, Joined, TimeOut, Handshake, Look
  <2>2. \A p \in Port : scans'[p] \in Nat /\ scans'[p] >= scans[p]
    BY <1>4 DEF Inside, Scan, Joined, TimeOut, Handshake, Look, counters, TypeOK
  <2> QED
    BY <1>1, <2>1, <2>2
<1>5. ASSUME NEW n \in Port, NEW x \in Port, Connect(n, x) PROVE FreshInv'
  <2>1. PingTo(n, x).id.no = scans[n] /\ PingTo(n, x).id.src = n /\ scans[n] \in Nat
    BY DEF PingTo, TypeOK
  <2> QED
    BY <1>5, <2>1 DEF Connect, counters
<1>6. ASSUME NEW n \in Port, NEW m \in msgs, Handles(n, m) PROVE FreshInv'
  <2>0. UNCHANGED scans /\ m \in Msg
    BY <1>0, <1>6 DEF Handles, Duplicate, HandlePing, Pass, Forward, HandlePong, counters
  <2>1. \A p \in Port : \A i \in seen'[p] : i \in seen[p] \/ i = m.id
    BY <1>6 DEF Handles, Duplicate, HandlePing, First, Pass, Forward, HandlePong, TypeOK
  <2>2. \A l \in msgs' : l \in msgs \/ l.id = m.id
    <3>1. CASE Duplicate(n, m) \/ HandlePong(n, m)
      BY <3>1 DEF Duplicate, HandlePong
    <3>2. CASE HandlePing(n, m)
      <4>1. msgs' = GoesOn(m) \union Copies(PongOf(n, m), {m.from})
        BY <3>2 DEF HandlePing, PongOf
      <4>2. [m EXCEPT !.pc = "pass"].id = m.id
        BY <2>0 DEF Msg
      <4>3. \A l \in Copies(PongOf(n, m), {m.from}) : l.id = m.id
        BY DEF Copies, PongOf
      <4> QED
        BY <4>1, <4>2, <4>3 DEF GoesOn
    <3>3. CASE Pass(n, m)
      <4>1. \A to : \A l \in Copies(Passed(m), to) : l.id = m.id
        BY <2>0 DEF Copies, Passed, Msg
      <4> QED
        BY <3>3, <4>1 DEF Pass, Forward, Passed
    <3> QED
      BY <1>6, <3>1, <3>2, <3>3 DEF Handles
  <2> QED
    BY <1>0, <1>1, <2>0, <2>1, <2>2 DEF TypeOK
<1>7. CASE UNCHANGED vars
  BY <1>7 DEF vars, counters
<1> QED
  BY <1>2, <1>3, <1>4, <1>5, <1>6, <1>7, NextCases

\* Once all is quiet everybody knows the newest and is known to it.
LEMMA MeshAtQuiet ==
  ASSUME TypeOK, ThreadInv, NEW s \in Port, NEW k \in Nat, NewInv(s, k), Quiet
  PROVE  FullMesh
<1>1. ASSUME NEW p \in Port, Old(s, p), Runs(s)
      PROVE  s \in neighbors[p] /\ p \in neighbors[s]
  <2>1. main[s] = "on" /\ ~IsBase(s)
    BY <1>1 DEF NewInv, OldKnit, Quiet, Joining, Runs, TypeOK
  <2>2. PICK o \in Port : MetNew(s, k, o)
    BY <2>1, <1>1 DEF ThreadInv, NewInv, ShakenNew
  <2>3. PICK i \in seen[o] : Cur(s, k, i)
    BY <2>2 DEF MetNew
  <2>4. MetNew(s, k, p)
    BY <2>3, <1>1 DEF NewInv, SpreadsNew, Reaches, PingOn, PassOf, Quiet
  <2> QED
    BY <2>4, <1>1 DEF MetNew, NewInv, HeardNew, Old, PongTo, Quiet
<1> QED
  BY <1>1 DEF FullMesh, NewInv, OldKnit, Old

\* A process that starts when all is quiet is the newest from then on.
LEMMA NewStart ==
  ASSUME TypeOK, FreshInv, Quiet, FullMesh, NEW n \in Port, Start(n),
         IsBase(n) => Off = Port, NEW k \in Nat, k = scans[n]
  PROVE  NewInv(n, k)'
<1>1. /\ \A p \in Port : Runs(p)' = (Runs(p) \/ p = n)
      /\ \A p \in Port : p # n => main'[p] = main[p] /\ neighbors'[p] = neighbors[p]
      /\ main'[n] \in {"on", "boot"} /\ shaken'[n] = FALSE
      /\ \A p \in Port : seen'[p] \subseteq seen[p]
      /\ scans' = scans /\ msgs' = {}
  BY DEF Start, TypeOK, Runs, Quiet
<1>2. \A p \in Port : Old(n, p)' => Runs(p) /\ main[p] = "on" /\ p # n
  BY <1>1 DEF Old, Quiet, Joining, Runs, TypeOK
<1>3. OldKnit(n, k)'
  <2>1. IsBase(n) => \A p \in Port : ~Old(n, p)'
    BY <1>1 DEF Old, Off
  <2>2. \A p, q \in Port : Old(n, p)' /\ Old(n, q)' /\ p # q => q \in neighbors'[p]
    BY <1>1, <1>2 DEF FullMesh
  <2>3. IsBase(n) <=> IsBase(n)'
    BY <1>1 DEF IsBase
  <2> QED
    BY <1>1, <1>2, <2>1, <2>2, <2>3 DEF OldKnit
<1>4. \A o \in Port : \A i \in seen'[o] : ~Cur(n, k, i)
  BY <1>1 DEF FreshInv, Cur, TypeOK, Id
<1>5. MsgsNew(n, k)' /\ HeardNew(n, k)' /\ SpreadsNew(n, k)' /\ ShakenNew(n, k)'
  BY <1>1, <1>4 DEF MsgsNew, HeardNew, SpreadsNew, ShakenNew, Cur
<1> QED
  BY <1>3, <1>5 DEF NewInv

\* Who exits when all is quiet is missed by nobody.
LEMMA NewExit ==
  ASSUME TypeOK, NEW s \in Port, NEW k \in Nat, NewInv(s, k), Quiet, NEW n \in Port, Exit(n)
  PROVE  NewInv(s, k)'
<1>1. /\ \A p \in Port : Runs(p)' = (Runs(p) /\ p # n)
      /\ \A p \in Port : p # n => main'[p] = main[p]
      /\ main'[n] = "off" /\ msgs' = {} /\ msgs = {}
      /\ UNCHANGED <<shaken, neighbors, seen, scans>>
  BY DEF Exit, TypeOK, Runs, Quiet, counters
<1>2. \A p \in Port : (Old(s, p)' => Old(s, p) /\ p # n) /\ MetNew(s, k, p)' = MetNew(s, k, p)
  BY <1>1 DEF Old, MetNew, Cur
<1>3. OldKnit(s, k)'
  BY <1>1, <1>2 DEF NewInv, OldKnit, IsBase
<1>4. MsgsNew(s, k)' /\ HeardNew(s, k)' /\ ShakenNew(s, k)'
  BY <1>1, <1>2 DEF NewInv, MsgsNew, HeardNew, ShakenNew, Cur, PongTo
<1>5. SpreadsNew(s, k)'
  BY <1>1, <1>2 DEF NewInv, SpreadsNew, Reaches, PingOn, PassOf, Cur
<1> QED
  BY <1>3, <1>4, <1>5 DEF NewInv

\* The main thread and bootstrap's, apart from the connections.
LEMMA NewInside ==
  ASSUME TypeOK, ThreadInv, NEW s \in Port, NEW k \in Nat, NewInv(s, k),
         NEW n \in Port, Inside(n)
  PROVE  NewInv(s, k)'
<1>1. /\ \A p \in Port : Runs(p)' = Runs(p)
      /\ \A p \in Port : main[p] = "on" => main'[p] = "on"
      /\ UNCHANGED <<neighbors, seen, shaken, starts, msgs, calm>>
  BY InsideOnly
<1>2. \A p \in Port : Old(s, p)' = Old(s, p) /\ MetNew(s, k, p)' = MetNew(s, k, p)
  BY <1>1 DEF Old, MetNew, Cur
<1>3. scans'[s] >= k /\ (main'[s] = "scan" => scans'[s] > k)
  BY DEF NewInv, OldKnit, Inside, Scan, Joined, TimeOut, Handshake, Look, counters, TypeOK
<1>4. OldKnit(s, k)'
  BY <1>1, <1>2, <1>3 DEF NewInv, OldKnit, IsBase
<1>5. \A m \in msgs : m.dst \in Port /\ m.from \in Port
  BY DEF TypeOK, Msg
<1>6. MsgsNew(s, k)' /\ HeardNew(s, k)' /\ ShakenNew(s, k)'
  BY <1>1, <1>2, <1>5 DEF NewInv, MsgsNew, HeardNew, ShakenNew, Cur, PongTo
<1>7. SpreadsNew(s, k)'
  BY <1>1, <1>2 DEF NewInv, SpreadsNew, Reaches, PingOn, PassOf, Cur
<1> QED
  BY <1>4, <1>6, <1>7 DEF NewInv

LEMMA NewConnect ==
  ASSUME TypeOK, ThreadInv, NEW s \in Port, NEW k \in Nat, NewInv(s, k),
         NEW n \in Port, NEW x \in Port, Connect(n, x)
  PROVE  NewInv(s, k)'
<1>1. /\ \A p \in Port : Runs(p)' = Runs(p)
      /\ Runs(n) /\ x # n
      /\ msgs' = msgs \/ (Runs(x) /\ msgs' = msgs \union {PingTo(n, x)})
      /\ UNCHANGED <<main, neighbors, seen, shaken, scans>>
  BY ConnectOnly DEF Connect, counters
<1>2. n = s /\ scans[n] > k
  <2>1. main[n] = "scan"
    BY DEF Connect, ThreadInv
  <2> QED
    BY <1>1, <2>1 DEF NewInv, OldKnit, Old
<1>3. \A p \in Port : Old(s, p)' = Old(s, p) /\ MetNew(s, k, p)' = MetNew(s, k, p)
  BY <1>1 DEF Old, MetNew, Cur
<1>4. OldKnit(s, k)'
  BY <1>1, <1>3 DEF NewInv, OldKnit, IsBase
<1>5. MsgsNew(s, k)'
  <2>1. /\ PingTo(n, x).kind = "ping" /\ PingTo(n, x).pc = "in_flight"
        /\ PingTo(n, x).from = s /\ PingTo(n, x).dst = x /\ PingTo(n, x).ttl = TTL
        /\ PingTo(n, x).id.to = x /\ Cur(s, k, PingTo(n, x).id)
    BY <1>2 DEF PingTo, Cur
  <2>2. \A m \in msgs : m.dst \in Port /\ m.from \in Port
    BY DEF TypeOK, Msg
  <2> QED
    BY <1>1, <1>2, <2>1, <2>2 DEF NewInv, MsgsNew, Cur
<1>6. HeardNew(s, k)' /\ ShakenNew(s, k)'
  BY <1>1, <1>3 DEF NewInv, HeardNew, ShakenNew, Cur, PongTo
<1>7. SpreadsNew(s, k)'
  BY <1>1, <1>3 DEF NewInv, SpreadsNew, Reaches, PingOn, PassOf, Cur
<1> QED
  BY <1>4, <1>5, <1>6, <1>7 DEF NewInv

\* What handling a message leaves: nobody forgets who runs, and what a message went to
\* handle is about the newest.
LEMMA HandledNew ==
  ASSUME TypeOK, NEW s \in Port, NEW k \in Nat, NewInv(s, k), NEW n \in Port, NEW m \in msgs,
         Handles(n, m)
  PROVE  /\ m.dst = n /\ Runs(n) /\ Runs(m.from) /\ m.from # n /\ m.from \in Port
         /\ m \in Msg /\ Cur(s, k, m.id) /\ m.id \in Id
         /\ \A p, q \in Port : q \in neighbors[p] /\ Runs(q) => q \in neighbors'[p]
         /\ ~Pass(n, m) => m.from \in neighbors'[n]
<1>1. /\ m.dst = n /\ Runs(n) /\ Runs(m.from) /\ m.from # n /\ m.from \in Port
      /\ m \in Msg /\ Cur(s, k, m.id) /\ m.id \in Id
  BY DEF Handles, NewInv, MsgsNew, TypeOK, Msg
<1>2. CASE Duplicate(n, m) \/ HandlePong(n, m)
  BY <1>1, <1>2 DEF Duplicate, HandlePong, Learnt, TypeOK
<1>3. CASE HandlePing(n, m)
  BY <1>1, <1>3 DEF HandlePing, Learnt, Answering, Off, TypeOK
<1>4. CASE Pass(n, m)
  BY <1>1, <1>4 DEF Pass, Forward, Answering, Off, TypeOK
<1> QED
  BY <1>1, <1>2, <1>3, <1>4 DEF Handles

\* The parts that handlers keep whatever they do with the messages.
LEMMA HandledKept ==
  ASSUME TypeOK, NEW s \in Port, NEW k \in Nat, NewInv(s, k), NEW n \in Port, NEW m \in msgs,
         Handles(n, m)
  PROVE  /\ \A p \in Port : Runs(p)' = Runs(p) /\ Old(s, p)' = Old(s, p)
         /\ \A p \in Port : MetNew(s, k, p) => MetNew(s, k, p)'
         /\ OldKnit(s, k)'
         /\ (~HandlePong(n, m) => ShakenNew(s, k)')
<1>1. /\ \A p \in Port : Runs(p)' = Runs(p) /\ seen[p] \subseteq seen'[p]
      /\ UNCHANGED <<main, scans>>
  <2>1. UNCHANGED scans
    BY DEF Handles, Duplicate, HandlePing, Pass, Forward, HandlePong, counters
  <2> QED
    BY <2>1, HandlesOnly
<1>2. \A p \in Port : Old(s, p)' = Old(s, p) /\ (MetNew(s, k, p) => MetNew(s, k, p)')
  BY <1>1 DEF Old, MetNew, Cur
<1>3. OldKnit(s, k)'
  <2>1. \A p, q \in Port : q \in neighbors[p] /\ Runs(q) => q \in neighbors'[p]
    BY HandledNew
  <2> QED
    BY <1>1, <1>2, <2>1 DEF NewInv, OldKnit, IsBase, Old
<1>4. ~HandlePong(n, m) => shaken' = shaken
  BY DEF Handles, Duplicate, HandlePing, Pass, Forward, boot
<1> QED
  BY <1>1, <1>2, <1>3, <1>4 DEF NewInv, ShakenNew

\* Those who had handled a ping of the newest still know it and are known to it.
LEMMA HeardStays ==
  ASSUME TypeOK, NEW s \in Port, NEW k \in Nat, NewInv(s, k), NEW n \in Port, NEW m \in msgs,
         Handles(n, m),
         \A o \in Port : PongTo(s, o) => PongTo(s, o)' \/ o \in neighbors'[s],
         NEW o \in Port, NEW i \in seen[o], Cur(s, k, i)
  PROVE  /\ o # s /\ i \in seen'[i.to]
         /\ Runs(o)' => s \in neighbors'[o] /\ (o \in neighbors'[s] \/ PongTo(s, o)')
<1>1. i.to \in Port /\ i \in seen[i.to] /\ o # s
  BY DEF NewInv, HeardNew, TypeOK, Id
<1>2. /\ \A p \in Port : Runs(p)' = Runs(p) /\ seen[p] \subseteq seen'[p]
      /\ \A p, q \in Port : q \in neighbors[p] /\ Runs(q) => q \in neighbors'[p]
  BY HandlesOnly, HandledNew
<1>3. Runs(s)
  BY HandledNew DEF NewInv, MsgsNew, Handles, TypeOK, Msg
<1> QED
  BY <1>1, <1>2, <1>3 DEF NewInv, HeardNew

LEMMA NewDuplicate ==
  ASSUME TypeOK, NEW s \in Port, NEW k \in Nat, NewInv(s, k), NEW n \in Port, NEW m \in msgs,
         Handles(n, m), Duplicate(n, m)
  PROVE  NewInv(s, k)'
<1>1. /\ msgs' = msgs \ {m} /\ UNCHANGED seen
      /\ m.kind = "ping" /\ m.pc = "in_flight" /\ m.id \in seen[n]
  BY DEF Duplicate, TypeOK, Msg
<1>2. /\ m.dst = n /\ Cur(s, k, m.id)
      /\ \A p \in Port : Runs(p)' = Runs(p) /\ Old(s, p)' = Old(s, p)
      /\ \A p \in Port : MetNew(s, k, p) => MetNew(s, k, p)'
      /\ OldKnit(s, k)' /\ (~HandlePong(n, m) => ShakenNew(s, k)')
  BY HandledNew, HandledKept
<1>3. MsgsNew(s, k)'
  BY <1>1, <1>2 DEF NewInv, MsgsNew, Cur, TypeOK, Msg
<1>4. HeardNew(s, k)'
  <2>1. \A o \in Port : PongTo(s, o) => PongTo(s, o)'
    BY <1>1 DEF PongTo
  <2> QED
    BY <1>1, <2>1, HeardStays DEF HeardNew, Cur
<1>5. SpreadsNew(s, k)'
  <2>1. \A p \in Port : PingOn(s, p) => PingOn(s, p)' \/ MetNew(s, k, p)'
    BY <1>1, <1>2 DEF PingOn, MetNew, Cur
  <2>2. \A i : PassOf(i) => PassOf(i)'
    BY <1>1 DEF PassOf
  <2> QED
    BY <1>1, <1>2, <2>1, <2>2 DEF NewInv, SpreadsNew, Reaches, Cur
<1>6. ~HandlePong(n, m)
  BY <1>1 DEF HandlePong
<1> QED
  BY <1>2, <1>3, <1>4, <1>5, <1>6 DEF NewInv

LEMMA NewPong ==
  ASSUME TypeOK, NEW s \in Port, NEW k \in Nat, NewInv(s, k), NEW n \in Port, NEW m \in msgs,
         Handles(n, m), HandlePong(n, m)
  PROVE  NewInv(s, k)'
<1>1. /\ msgs' = msgs \ {m} /\ UNCHANGED seen
      /\ m.kind = "pong" /\ m.pc = "in_flight" /\ n = s /\ m.id \in seen[m.from]
  BY DEF Handles, HandlePong, NewInv, MsgsNew
<1>2. /\ m.dst = n /\ Cur(s, k, m.id) /\ m.from \in Port
      /\ \A p \in Port : Runs(p)' = Runs(p) /\ Old(s, p)' = Old(s, p)
      /\ \A p \in Port : MetNew(s, k, p) => MetNew(s, k, p)'
      /\ OldKnit(s, k)'
  BY HandledNew, HandledKept
<1>3. MsgsNew(s, k)'
  BY <1>1, <1>2 DEF NewInv, MsgsNew, Cur, TypeOK, Msg
<1>4. HeardNew(s, k)'
  <2>1. m.from \in neighbors'[n]
    <3>1. ~Pass(n, m)
      BY <1>1 DEF Pass, Forward
    <3> QED
      BY <3>1, HandledNew
  <2>2. \A o \in Port : PongTo(s, o) => PongTo(s, o)' \/ o = m.from
    BY <1>1 DEF PongTo
  <2> QED
    BY <1>1, <2>1, <2>2, HeardStays DEF HeardNew, Cur
<1>5. SpreadsNew(s, k)'
  <2>1. \A p \in Port : PingOn(s, p) => PingOn(s, p)'
    BY <1>1 DEF PingOn
  <2>2. \A i : PassOf(i) => PassOf(i)'
    BY <1>1 DEF PassOf
  <2> QED
    BY <1>1, <1>2, <2>1, <2>2 DEF NewInv, SpreadsNew, Reaches, Cur
<1>6. ShakenNew(s, k)'
  BY <1>1, <1>2 DEF ShakenNew, MetNew
<1> QED
  BY <1>2, <1>3, <1>4, <1>5, <1>6 DEF NewInv

LEMMA NewPing ==
  ASSUME TypeOK, NEW s \in Port, NEW k \in Nat, NewInv(s, k), NEW n \in Port, NEW m \in msgs,
         Handles(n, m), HandlePing(n, m)
  PROVE  NewInv(s, k)'
<1> DEFINE mp == [m EXCEPT !.pc = "pass"]
           po == PongOf(n, m)
<1>0. /\ m.dst = n /\ Cur(s, k, m.id) /\ m.from \in Port /\ Runs(m.from) /\ Runs(n)
      /\ m.from # n /\ m \in Msg /\ m.id \in Id
      /\ \A p \in Port : Runs(p)' = Runs(p) /\ Old(s, p)' = Old(s, p)
      /\ \A p \in Port : MetNew(s, k, p) => MetNew(s, k, p)'
      /\ OldKnit(s, k)' /\ (~HandlePong(n, m) => ShakenNew(s, k)')
  BY HandledNew, HandledKept
<1>1. /\ m.kind = "ping" /\ m.pc = "in_flight" /\ m.from = s
      /\ m.id \in seen[m.id.to] \/ (n = m.id.to /\ m.ttl = TTL)
      /\ \A p \in Port : seen'[p] = IF p = n THEN seen[p] \union {m.id} ELSE seen[p]
      /\ msgs' = (msgs \ {m}) \union {mp, po}
  <2>1. /\ m.kind = "ping" /\ m.pc = "in_flight" /\ m.from = s
        /\ m.id \in seen[m.id.to] \/ (n = m.id.to /\ m.ttl = TTL)
        /\ \A p \in Port : seen'[p] = IF p = n THEN seen[p] \union {m.id} ELSE seen[p]
    BY <1>0 DEF HandlePing, First, NewInv, MsgsNew, TypeOK
  <2>2. Copies(po, {m.from}) = {po}
    <3>1. {m.from} \ Off = {m.from} /\ [po EXCEPT !.dst = m.from] = po
      BY <1>0 DEF Off, PongOf
    <3> QED
      BY <3>1 DEF Copies
  <2>3. msgs' = GoesOn(m) \union Copies(po, {m.from})
    BY DEF HandlePing, PongOf
  <2> QED
    BY <2>1, <2>2, <2>3 DEF GoesOn
<1>2. /\ mp.kind = "ping" /\ mp.pc = "pass" /\ mp.id = m.id /\ mp.dst = n
      /\ mp.ttl = m.ttl /\ mp.from = s
  BY <1>0, <1>1 DEF Msg
<1>3. po.kind = "pong" /\ po.pc = "in_flight" /\ po.id = m.id /\ po.dst = s /\ po.from = n
  BY <1>1 DEF PongOf
<1> HIDE DEF mp, po
<1>4. \A i \in seen[m.id.to] \union seen[n] : m.id.to \in Port
  BY <1>0 DEF Id
<1>5. m.id \in seen'[n] /\ m.id \in seen'[m.id.to] /\ m.id.to \in Port
  BY <1>0, <1>1 DEF Id
<1>6. MsgsNew(s, k)'
  <2> SUFFICES ASSUME NEW l \in msgs'
               PROVE  /\ Runs(l.dst)' /\ Runs(l.from)' /\ l.dst # l.from /\ Cur(s, k, l.id)
                      /\ l.kind = "ping" => l.from = s
                      /\ l.kind = "pong" =>
                           l.pc = "in_flight" /\ l.dst = s /\ l.id \in seen'[l.from]
                      /\ l.kind = "ping" /\ l.pc = "in_flight" =>
                           l.id \in seen'[l.id.to] \/ (l.dst = l.id.to /\ l.ttl = TTL)
                      /\ l.pc = "pass" => l.id \in seen'[l.dst]
    BY DEF MsgsNew, Cur
  <2>1. CASE l = mp \/ l = po
    BY <2>1, <1>0, <1>1, <1>2, <1>3, <1>5
  <2>2. CASE l \in msgs
    <3>1. l.dst \in Port /\ l.from \in Port /\ l.id.to \in Port
      BY <2>2 DEF TypeOK, Msg, Id
    <3> QED
      BY <2>2, <3>1, <1>0, <1>1 DEF NewInv, MsgsNew
  <2> QED
    BY <2>1, <2>2, <1>1
<1>7. HeardNew(s, k)'
  <2>1. \A o \in Port : PongTo(s, o) => PongTo(s, o)'
    BY <1>1 DEF PongTo
  <2>2. PongTo(s, n)'
    BY <1>1, <1>3 DEF PongTo
  <2>3. s \in neighbors'[n]
    <3>1. ~Pass(n, m)
      BY <1>1 DEF Pass, Forward
    <3> QED
      BY <3>1, <1>1, HandledNew
  <2> SUFFICES ASSUME NEW o \in Port, NEW i \in seen'[o], Cur(s, k, i)
               PROVE  /\ o # s /\ i \in seen'[i.to]
                      /\ Runs(o)' => s \in neighbors'[o] /\ (o \in neighbors'[s] \/ PongTo(s, o)')
    BY DEF HeardNew, Cur
  <2>4. CASE i \in seen[o]
    BY <2>1, <2>4, HeardStays
  <2>5. CASE i \notin seen[o]
    <3>1. o = n /\ i = m.id
      BY <2>5, <1>1
    <3> QED
      BY <3>1, <2>2, <2>3, <1>0, <1>1, <1>5
  <2> QED
    BY <2>4, <2>5
<1>8. SpreadsNew(s, k)'
  <2>1. \A p \in Port : PingOn(s, p) => PingOn(s, p)' \/ MetNew(s, k, p)'
    <3> SUFFICES ASSUME NEW p \in Port, NEW l \in msgs, l.kind = "ping", l.pc = "in_flight",
                        l.dst = p, l.id.src = s
                 PROVE  PingOn(s, p)' \/ MetNew(s, k, p)'
      BY DEF PingOn
    <3>1. CASE l = m
      BY <3>1, <1>0, <1>5 DEF MetNew, Cur
    <3>2. CASE l # m
      BY <3>2, <1>1 DEF PingOn
    <3> QED
      BY <3>1, <3>2
  <2>2. \A i : PassOf(i) => PassOf(i)'
    BY <1>1 DEF PassOf
  <2> SUFFICES ASSUME NEW o \in Port, NEW i \in seen'[o], Cur(s, k, i),
                      NEW p \in Port, Old(s, p)
               PROVE  Reaches(s, k, i, p)'
    BY <1>0 DEF SpreadsNew, Cur
  <2>3. ASSUME NEW w \in Port, i \in seen[w] PROVE Reaches(s, k, i, p)'
    <3>1. Reaches(s, k, i, p)
      BY <2>3 DEF NewInv, SpreadsNew
    <3> QED
      BY <3>1, <2>1, <2>2, <1>0 DEF Reaches
  <2>4. CASE i = m.id /\ n = m.id.to /\ m.ttl = TTL
    <3>1. PassOf(i)'
      BY <2>4, <1>1, <1>2 DEF PassOf
    <3> QED
      BY <3>1 DEF Reaches
  <2> QED
    BY <2>3, <2>4, <1>1, <1>5
<1>9. ~HandlePong(n, m)
  BY <1>1 DEF HandlePong
<1> QED
  BY <1>0, <1>6, <1>7, <1>8, <1>9 DEF NewInv

\* The process that the ping reached first passes it on to all the others.
LEMMA NewPass ==
  ASSUME TypeOK, NEW s \in Port, NEW k \in Nat, NewInv(s, k), NEW n \in Port, NEW m \in msgs,
         Handles(n, m), Pass(n, m)
  PROVE  NewInv(s, k)'
<1> DEFINE to == IF m.ttl = 0 THEN {} ELSE neighbors[n] \ {m.from}
<1>0. /\ m.dst = n /\ Cur(s, k, m.id) /\ m.from \in Port /\ Runs(m.from) /\ Runs(n)
      /\ m.from # n /\ m \in Msg /\ m.id \in Id
      /\ \A p \in Port : Runs(p)' = Runs(p) /\ Old(s, p)' = Old(s, p)
      /\ \A p \in Port : MetNew(s, k, p) => MetNew(s, k, p)'
      /\ OldKnit(s, k)' /\ (~HandlePong(n, m) => ShakenNew(s, k)')
  BY HandledNew, HandledKept
<1>1. /\ m.pc = "pass" /\ m.kind = "ping" /\ m.from = s /\ m.id \in seen[n]
      /\ seen' = seen /\ msgs' = (msgs \ {m}) \union Copies(Passed(m), to)
  BY <1>0 DEF Pass, Forward, Passed, NewInv, MsgsNew, Msg
<1>2. to \in SUBSET Port
  BY DEF TypeOK
<1> HIDE DEF to
<1>3. m.id \in seen[m.id.to]
  BY <1>0, <1>1 DEF NewInv, HeardNew
<1>4. \A l \in Copies(Passed(m), to) :
        /\ l.kind = "ping" /\ l.pc = "in_flight" /\ l.id = m.id /\ l.from = s
        /\ l.dst \in to /\ Runs(l.dst) /\ l.dst # s
  <2>1. CASE m.ttl = 0
    BY <2>1 DEF Copies, to
  <2>2. CASE m.ttl # 0
    <3>1. /\ Passed(m) \in Msg
          /\ Passed(m).kind = m.kind /\ Passed(m).id = m.id /\ Passed(m).from = m.from
          /\ Passed(m).pc = "in_flight"
      BY <2>2, <1>0, PassedType
    <3>2. \A l \in Copies(Passed(m), to) :
            /\ l.dst \in to /\ Runs(l.dst)
            /\ l.kind = Passed(m).kind /\ l.id = Passed(m).id /\ l.from = Passed(m).from
            /\ l.pc = Passed(m).pc
      BY <3>1, <1>2, CopiesOf
    <3>3. s \notin to
      BY <1>1 DEF to
    <3> QED
      BY <3>1, <3>2, <3>3, <1>1
  <2> QED
    BY <2>1, <2>2
<1>5. MsgsNew(s, k)'
  <2> SUFFICES ASSUME NEW l \in msgs'
               PROVE  /\ Runs(l.dst)' /\ Runs(l.from)' /\ l.dst # l.from /\ Cur(s, k, l.id)
                      /\ l.kind = "ping" => l.from = s
                      /\ l.kind = "pong" =>
                           l.pc = "in_flight" /\ l.dst = s /\ l.id \in seen'[l.from]
                      /\ l.kind = "ping" /\ l.pc = "in_flight" =>
                           l.id \in seen'[l.id.to] \/ (l.dst = l.id.to /\ l.ttl = TTL)
                      /\ l.pc = "pass" => l.id \in seen'[l.dst]
    BY DEF MsgsNew, Cur
  <2>1. CASE l \in Copies(Passed(m), to)
    BY <2>1, <1>0, <1>1, <1>2, <1>3, <1>4
  <2>2. CASE l \in msgs
    BY <2>2, <1>0, <1>1 DEF NewInv, MsgsNew, TypeOK, Msg
  <2> QED
    BY <2>1, <2>2, <1>1
<1>6. HeardNew(s, k)'
  <2>1. \A o \in Port : PongTo(s, o) => PongTo(s, o)'
    BY <1>1 DEF PongTo
  <2> QED
    BY <1>1, <2>1, HeardStays DEF HeardNew, Cur
<1>7. ASSUME m.ttl = TTL, NEW p \in Port, p \in neighbors[n], Runs(p), p # s
      PROVE  PingOn(s, p)'
  <2>1. m.ttl # 0 /\ p \in to
    BY <1>1, <1>7, OverlayAssumption DEF to
  <2>2. /\ Passed(m) \in Msg
        /\ Passed(m).kind = m.kind /\ Passed(m).id = m.id /\ Passed(m).from = m.from
        /\ Passed(m).pc = "in_flight"
    BY <1>0, <2>1, PassedType
  <2> DEFINE l == [Passed(m) EXCEPT !.dst = p]
  <2>3. l \in Copies(Passed(m), to)
    BY <1>2, <1>7, <2>1, <2>2, CopyFor
  <2>4. l.dst = p /\ l.id = m.id /\ l.kind = "ping" /\ l.pc = "in_flight"
    BY <2>2, <1>1 DEF Msg
  <2> QED
    BY <2>3, <2>4, <1>0, <1>1 DEF PingOn, Cur
<1>8. SpreadsNew(s, k)'
  <2> SUFFICES ASSUME NEW o \in Port, NEW i \in seen[o], Cur(s, k, i),
                      NEW p \in Port, Old(s, p)
               PROVE  Reaches(s, k, i, p)'
    BY <1>0, <1>1 DEF SpreadsNew, Cur
  <2>1. PingOn(s, p) => PingOn(s, p)'
    BY <1>1 DEF PingOn
  <2>2. ASSUME PassOf(i) PROVE Reaches(s, k, i, p)'
    <3>1. PICK l \in msgs : l.pc = "pass" /\ l.dst = i.to /\ l.id = i /\ l.ttl = TTL
      BY <2>2 DEF PassOf
    <3>2. CASE l # m
      BY <3>1, <3>2, <1>1 DEF PassOf, Reaches
    <3>3. CASE l = m /\ p = n
      BY <3>3, <1>0, <1>1 DEF MetNew, Reaches, Cur
    <3>4. CASE l = m /\ p # n
      <4>1. Old(s, n) /\ p \in neighbors[n]
        BY <3>4, <1>0, <1>1 DEF Old, NewInv, OldKnit
      <4> QED
        BY <3>1, <3>4, <4>1, <1>7 DEF Old, Reaches
    <3> QED
      BY <3>2, <3>3, <3>4
  <2>3. Reaches(s, k, i, p)
    BY DEF NewInv, SpreadsNew
  <2> QED
    BY <2>1, <2>2, <2>3, <1>0 DEF Reaches
<1>9. ~HandlePong(n, m)
  BY <1>1 DEF HandlePong
<1> QED
  BY <1>0, <1>5, <1>6, <1>8, <1>9 DEF NewInv

LEMMA CalmStep == TypeOK /\ ThreadInv /\ FreshInv /\ CalmInv /\ [Next]_vars => CalmInv'
<1> SUFFICES ASSUME TypeOK, ThreadInv, FreshInv, CalmInv, [Next]_vars, calm', Port # {}
             PROVE  \E s \in Port, k \in Nat : NewInv(s, k)'
  BY DEF CalmInv
<1>1. ASSUME calm PROVE \E s \in Port, k \in Nat : NewInv(s, k)
  BY <1>1 DEF CalmInv
<1>2. ASSUME NEW n \in Port, Start(n) PROVE \E s \in Port, k \in Nat : NewInv(s, k)'
  <2>1. calm /\ Quiet /\ (IsBase(n) => Off = Port)
    BY <1>2 DEF Start
  <2>2. PICK k \in Nat : k = scans[n]
    BY DEF TypeOK
  <2>3. FullMesh
    BY <1>1, <2>1, MeshAtQuiet
  <2> QED
    BY <1>2, <2>1, <2>2, <2>3, NewStart
<1>3. ASSUME NEW n \in Port, Exit(n) PROVE \E s \in Port, k \in Nat : NewInv(s, k)'
  <2>1. calm /\ Quiet
    BY <1>3 DEF Exit
  <2> QED
    BY <1>1, <1>3, <2>1, NewExit
<1>4. ASSUME NEW n \in Port, Inside(n) PROVE \E s \in Port, k \in Nat : NewInv(s, k)'
  BY <1>1, <1>4, InsideOnly, NewInside
<1>5. ASSUME NEW n \in Port, NEW x \in Port, Connect(n, x)
      PROVE  \E s \in Port, k \in Nat : NewInv(s, k)'
  BY <1>1, <1>5, ConnectOnly, NewConnect
<1>6. ASSUME NEW n \in Port, NEW m \in msgs, Handles(n, m)
      PROVE  \E s \in Port, k \in Nat : NewInv(s, k)'
  <2>1. calm
    BY <1>6, HandlesOnly
  <2> QED
    BY <1>1, <1>6, <2>1, NewDuplicate, NewPing, NewPass, NewPong DEF Handles
<1>7. CASE UNCHANGED vars
  <2>1. PICK s \in Port, k \in Nat : NewInv(s, k)
    BY <1>1, <1>7 DEF vars
  <2>2. NewInv(s, k)'
    BY <1>7, <2>1 DEF vars, boot, counters, NewInv, OldKnit, MsgsNew, HeardNew, SpreadsNew,
       ShakenNew, Reaches, MetNew, PingOn, PassOf, PongTo, Cur, Old, Runs, IsBase
  <2> QED
    BY <2>2
<1> QED
  BY <1>2, <1>3, <1>4, <1>5, <1>6, <1>7, NextCases

\* When processes start and exit one after the other, each once all before it have settled,
\* and none starts on BASE_PORT while others run, all who run know all others: for any number
\* of processes and restarts, in any order of their ports, and whichever of the others
\* answers the new one first.
THEOREM AllKnowAll == Spec => []MeshWhenCalm
<1>1. Init => TypeOK /\ ThreadInv /\ FreshInv /\ CalmInv
  BY TypeInit, InvInit, CalmInit
<1>2. TypeOK /\ ThreadInv /\ FreshInv /\ CalmInv /\ [Next]_vars
        => (TypeOK /\ ThreadInv /\ FreshInv /\ CalmInv)'
  BY TypeStep, ThreadStepInv, FreshStep, CalmStep
<1>3. TypeOK /\ ThreadInv /\ CalmInv => MeshWhenCalm
  BY MeshAtQuiet DEF MeshWhenCalm, CalmInv, FullMesh
<1> QED
  BY <1>1, <1>2, <1>3, PTL DEF Spec
=============================================================================
