---------------------------- MODULE GossipProofs ----------------------------
(* Theorems about Gossip, for every overlay and time to live: histories are *)
(* causal, hold every message once while no identifier is dropped, and a    *)
(* focus message is heeded.                                                 *)
EXTENDS Gossip, FiniteSetTheorems, TLAPS

\* Forwarding copies the message and changes nothing that causality reads.
LEMMA ForwardedCopies ==
  ASSUME NEW n \in Peer, NEW m \in Copy, NEW to \in SUBSET Peer,
         NEW c \in Forwarded(n, m, to)
  PROVE  /\ c \in Copy /\ c.past = m.past /\ c.lamport = m.lamport /\ c.src = m.src
         /\ c.pc = "in_flight" /\ c.dst \in to
<1>1. m.ttl # 0 /\ m.ttl \in Nat
  BY DEF Forwarded, Copy
<1>2. PICK a \in to : c = [m EXCEPT !.ttl = @ - 1, !.via = n, !.dst = a, !.mine = FALSE,
                                      !.pc = "in_flight"]
  BY <1>1 DEF Forwarded
<1>3. m.ttl - 1 \in Nat
  BY <1>1
<1>4. c = [src |-> m.src, lamport |-> m.lamport, kind |-> m.kind, rooms |-> m.rooms,
           past |-> m.past, ttl |-> m.ttl - 1, via |-> n, dst |-> a, mine |-> FALSE,
           pc |-> "in_flight"]
  BY <1>2 DEF Copy
<1>5. /\ m.src \in Peer /\ m.lamport \in Nat /\ m.kind \in Kinds
      /\ m.rooms \in SUBSET Rooms /\ m.past \in SUBSET Ids
  BY DEF Copy
<1> QED
  BY <1>3, <1>4, <1>5 DEF Copy

\* A handler's message keeps its contents while the handler goes on.
LEMMA GoOnCopies ==
  ASSUME NEW m \in Copy, NEW pc, NEW c \in GoOn(m, pc)
  PROVE  \/ c \in msgs \ {m}
         \/ /\ c.src = m.src /\ c.lamport = m.lamport /\ c.past = m.past
            /\ c.dst = m.dst /\ c.pc = pc
            /\ c.kind = m.kind /\ c.rooms = m.rooms /\ c.mine = m.mine
<1>1. CASE c = [m EXCEPT !.pc = pc]
  <2>1. c = [src |-> m.src, lamport |-> m.lamport, kind |-> m.kind, rooms |-> m.rooms,
             past |-> m.past, ttl |-> m.ttl, via |-> m.via, dst |-> m.dst,
             mine |-> m.mine, pc |-> pc]
    BY <1>1 DEF Copy
  <2> QED
    BY <2>1
<1> QED
  BY <1>1 DEF GoOn

\* What a handler makes of a message when it starts
LEMMA ReceivedCopy ==
  ASSUME NEW n \in Peer, NEW m \in Copy,
         NEW r, r = [m EXCEPT !.pc = "relay", !.mine = Mine(n, m)]
  PROVE  /\ r \in Copy /\ r.src = m.src /\ r.lamport = m.lamport /\ r.past = m.past
         /\ r.dst = m.dst /\ r.pc = "relay" /\ r.kind = m.kind
         /\ r.rooms = m.rooms /\ r.mine = Mine(n, m)
<1>1. Mine(n, m) \in BOOLEAN
  <2>1. CASE m.kind = "topic"
    BY <2>1 DEF Mine
  <2>2. CASE m.kind # "topic"
    BY <2>2 DEF Mine
  <2> QED
    BY <2>1, <2>2
<1> DEFINE b == Mine(n, m)
<1>2. b \in BOOLEAN /\ r = [m EXCEPT !.pc = "relay", !.mine = b]
  BY <1>1
<1> HIDE DEF b
<1>3. r = [src |-> m.src, lamport |-> m.lamport, kind |-> m.kind, rooms |-> m.rooms,
           past |-> m.past, ttl |-> m.ttl, via |-> m.via, dst |-> m.dst,
           mine |-> b, pc |-> "relay"]
  BY <1>2 DEF Copy
<1>4. r.mine = Mine(n, m)
  BY <1>3 DEF b
<1> QED
  BY <1>2, <1>3, <1>4 DEF Copy

\* What a user sends: the copies, and what is known and said afterwards
LEMMA SendsFacts ==
  ASSUME TypeOK, GossipAssumption, NEW n \in Peer, NEW kind \in Kinds,
         NEW rooms \in SUBSET Rooms, Sends(n, kind, rooms)
  PROVE  /\ clock' = [clock EXCEPT ![n] = @ + 1]
         /\ known' = [known EXCEPT ![n] = @ \union {<<n, clock[n] + 1>>}]
         /\ clock' \in [Peer -> Nat] /\ known' \in [Peer -> SUBSET Ids]
         /\ <<n, clock[n] + 1>> \in Ids
         /\ said' \subseteq Said /\ msgs' \subseteq Copy /\ msgs \subseteq msgs'
         /\ \A c \in msgs' : \/ c \in msgs
                              \/ /\ c.src = n /\ c.lamport = clock[n] + 1
                                 /\ c.past = known[n] /\ c.pc = "in_flight"
                                 /\ c.dst \in neighbors[n]
<1> DEFINE m == [src |-> n, lamport |-> clock[n] + 1, kind |-> kind, rooms |-> rooms,
                 past |-> known[n], ttl |-> TTL, via |-> n, dst |-> n, mine |-> FALSE,
                 pc |-> "in_flight"]
<1>1. m \in Copy
  BY DEF Copy, GossipAssumption, TypeOK
<1>2. Id(m) = <<n, clock[n] + 1>> /\ Id(m) \in Ids
  BY DEF Id, Ids, TypeOK
<1>3. /\ msgs' = msgs \union Forwarded(n, m, neighbors[n])
      /\ known' = [known EXCEPT ![n] = @ \union {Id(m)}]
      /\ said' = said \union {[id |-> Id(m), kind |-> kind, rooms |-> rooms]}
      /\ clock' = [clock EXCEPT ![n] = @ + 1]
  BY DEF Sends
<1>4. m.src = n /\ m.lamport = clock[n] + 1 /\ m.past = known[n]
  OBVIOUS
<1> HIDE DEF m
<1>5. \A c \in Forwarded(n, m, neighbors[n]) :
        /\ c \in Copy /\ c.past = m.past /\ c.lamport = m.lamport /\ c.src = m.src
        /\ c.pc = "in_flight" /\ c.dst \in neighbors[n]
  BY <1>1, ForwardedCopies DEF TypeOK
<1>6. [id |-> Id(m), kind |-> kind, rooms |-> rooms] \in Said
  BY <1>2 DEF Said
<1>7. clock' \in [Peer -> Nat] /\ known' \in [Peer -> SUBSET Ids]
  BY <1>2, <1>3 DEF TypeOK
<1> QED
  BY <1>2, <1>3, <1>4, <1>5, <1>6, <1>7 DEF TypeOK

\* Whoever types, types a message of a known kind.
LEMMA SaySends ==
  ASSUME TypeOK, GossipAssumption, NEW n \in Peer, NEW kind, Say(n, kind)
  PROVE  \E k \in Kinds, rooms \in SUBSET Rooms : Sends(n, k, rooms)
<1>1. PICK rooms \in Audiences(n, kind) : Sends(n, kind, rooms)
  BY DEF Say
<1>2. kind \in {"chat", "flood", "topic"}
  BY DEF Say, GossipAssumption
<1>3. rooms \in SUBSET Rooms
  <2>1. CASE kind = "chat"
    BY <1>1, <2>1 DEF Audiences, TypeOK
  <2>2. CASE kind = "flood"
    BY <1>1, <2>2 DEF Audiences
  <2>3. CASE kind = "topic"
    BY <1>1, <2>3 DEF Audiences, GossipAssumption
  <2> QED
    BY <1>2, <2>1, <2>2, <2>3
<1> QED
  BY <1>1, <1>2, <1>3 DEF Kinds

\* The set of remembered identifiers stays finite.
LEMMA RememberTypes ==
  ASSUME TypeOK, NEW n \in Peer, NEW id \in Ids, Remember(n, id)
  PROVE  seen' \in [Peer -> SUBSET Ids] /\ \A p \in Peer : IsFiniteSet(seen'[p])
<1> DEFINE S == seen[n] \union {id}
<1>1. S \subseteq Ids /\ IsFiniteSet(S)
  BY FS_AddElement DEF TypeOK
<1>2. PICK T \in SUBSET S : seen' = [seen EXCEPT ![n] = T]
  BY DEF Remember
<1>3. IsFiniteSet(T)
  BY <1>1, FS_Subset
<1> QED
  BY <1>1, <1>2, <1>3 DEF TypeOK

LEMMA TypeStep == TypeOK /\ GossipAssumption /\ Next => TypeOK'
<1> SUFFICES ASSUME TypeOK, Next, GossipAssumption PROVE TypeOK'
  OBVIOUS
<1> USE DEF TypeOK
<1>1. ASSUME NEW n \in Peer, NEW kind \in Types[n], Say(n, kind) PROVE TypeOK'
  <2>1. PICK k \in Kinds, rooms \in SUBSET Rooms : Sends(n, k, rooms)
    BY <1>1, SaySends
  <2>2. /\ clock' \in [Peer -> Nat] /\ known' \in [Peer -> SUBSET Ids]
        /\ said' \subseteq Said /\ msgs' \subseteq Copy
    BY <2>1, SendsFacts
  <2> QED
    BY <1>1, <2>2 DEF Say
<1>6. ASSUME NEW n \in Peer, FocusEnter(n) PROVE TypeOK'
  <2>1. /\ Sends(n, "focus_enter", {current[n]}) /\ "focus_enter" \in Kinds
        /\ {current[n]} \in SUBSET Rooms
    BY <1>6 DEF FocusEnter, Kinds
  <2>2. /\ clock' \in [Peer -> Nat] /\ known' \in [Peer -> SUBSET Ids]
        /\ said' \subseteq Said /\ msgs' \subseteq Copy /\ <<n, clock[n] + 1>> \in Ids
    BY <2>1, SendsFacts
  <2>3. /\ announced' \in [Peer -> BOOLEAN] /\ entered' \in [Peer -> SUBSET Ids]
    BY <1>6, <2>2 DEF FocusEnter
  <2> QED
    BY <1>6, <2>2, <2>3 DEF FocusEnter
<1>7. ASSUME NEW n \in Peer, NEW r \in Joined[n], Switch(n, r) PROVE TypeOK'
  BY <1>7 DEF Switch, Rooms, screen
<1>2. ASSUME NEW n \in Peer, OtherSend(n) PROVE TypeOK'
  BY <1>2 DEF OtherSend, screen, user
<1>3. ASSUME NEW n \in Peer, NEW m \in msgs, Receive(n, m) PROVE TypeOK'
  <2>1. m \in Copy /\ Id(m) \in Ids
    BY DEF Copy, Id, Ids
  <2> DEFINE r == [m EXCEPT !.pc = "relay", !.mine = Mine(n, m)]
  <2>2. r \in Copy
    BY <2>1, ReceivedCopy
  <2>3. msgs' \subseteq Copy
    <3>1. msgs' = msgs \ {m} \/ msgs' = (msgs \ {m}) \union {r}
      BY <1>3 DEF Receive
    <3> HIDE DEF r
    <3> QED
      BY <2>2, <3>1
  <2>4. seen' \in [Peer -> SUBSET Ids] /\ \A p \in Peer : IsFiniteSet(seen'[p])
    BY <1>3, <2>1, RememberTypes DEF Receive
  <2>5. clock' \in [Peer -> Nat]
    BY <1>3, <2>1 DEF Receive, Merged, Copy
  <2>6. neighbors' \in [Peer -> SUBSET Peer]
    BY <1>3, <2>1 DEF Receive, Copy
  <2> QED
    BY <1>3, <2>3, <2>4, <2>5, <2>6 DEF Receive, screen, user
<1>4. ASSUME NEW n \in Peer, NEW m \in msgs, Relay(n, m) PROVE TypeOK'
  <2>1. m \in Copy
    OBVIOUS
  <2>2. GoOn(m, "show") \subseteq Copy
    BY <2>1 DEF GoOn, Copy
  <2>3. Forwarded(n, m, neighbors[n] \ {m.src}) \subseteq Copy
    BY <2>1, ForwardedCopies DEF Copy
  <2> QED
    BY <1>4, <2>2, <2>3 DEF Relay, screen, user
<1>5. ASSUME NEW n \in Peer, NEW m \in msgs, Show(n, m) PROVE TypeOK'
  <2>1. m \in Copy /\ Id(m) \in Ids
    BY DEF Copy, Id, Ids
  <2>2. shown' \in [Peer -> SUBSET Ids] /\ known' \in [Peer -> SUBSET Ids]
    <3>1. m.past \subseteq Ids
      BY <2>1 DEF Copy
    <3> QED
      BY <1>5, <2>1, <3>1 DEF Show
  <2>3. history' \in [Peer -> SUBSET Entry] /\ \A p \in Peer : IsFiniteSet(history'[p])
    <3> DEFINE e == [src |-> m.src, lamport |-> m.lamport, past |-> m.past,
                     at |-> Cardinality(history[n])]
    <3>1. e \in Entry
      BY <2>1, FS_CardinalityType DEF Copy, Entry
    <3>2. IsFiniteSet(history[n] \union {e})
      BY FS_AddElement
    <3>3. history' = [history EXCEPT ![n] = @ \union {e}] \/ history' = history
      BY <1>5 DEF Show
    <3> HIDE DEF e
    <3>4. CASE history' = [history EXCEPT ![n] = @ \union {e}]
      BY <3>1, <3>2, <3>4
    <3> QED
      BY <3>3, <3>4
  <2> QED
    BY <1>5, <2>2, <2>3 DEF Show, user
<1> QED
  BY <1>1, <1>2, <1>3, <1>4, <1>5, <1>6, <1>7 DEF Next, HandlerStep

\* A message is later than what its author knew, and clocks never go back.
LEMMA CausalStep ==
  TypeOK /\ TypeOK' /\ CausalInv /\ GossipAssumption /\ Next => CausalInv'
<1> SUFFICES ASSUME TypeOK, TypeOK', CausalInv, GossipAssumption, Next PROVE CausalInv'
  OBVIOUS
<1>0. /\ clock \in [Peer -> Nat] /\ neighbors \in [Peer -> SUBSET Peer]
      /\ history \in [Peer -> SUBSET Entry] /\ known \in [Peer -> SUBSET Ids]
      /\ \A m \in msgs : m \in Copy /\ m.dst \in Peer /\ m.lamport \in Nat
                      /\ m.past \subseteq Ids
  BY DEF TypeOK, Copy
<1>a. ASSUME NEW n \in Peer, NEW k \in Kinds, NEW rooms \in SUBSET Rooms,
             Sends(n, k, rooms), history' = history
      PROVE  CausalInv'
  <2>1. /\ clock' = [clock EXCEPT ![n] = @ + 1]
        /\ known' = [known EXCEPT ![n] = @ \union {<<n, clock[n] + 1>>}]
        /\ \A c \in msgs' : \/ c \in msgs
                             \/ /\ c.lamport = clock[n] + 1 /\ c.past = known[n]
                                /\ c.pc = "in_flight"
    BY <1>a, SendsFacts
  <2>2. \A p \in Peer : \A x \in known[p] : x[2] \in Nat /\ x[2] <= clock[p]
    BY <1>0 DEF CausalInv, Ids
  <2>3. \A p \in Peer : clock[p] \in Nat /\ clock[p] <= clock'[p]
    BY <1>0, <2>1
  <2>4. \A p \in Peer : \A x \in known'[p] : x[2] <= clock'[p]
    BY <1>0, <2>1, <2>2
  <2>5. ASSUME NEW c \in msgs'
        PROVE  /\ \A x \in c.past : x[2] < c.lamport
               /\ c.pc # "in_flight" => c.lamport <= clock'[c.dst]
    <3>1. CASE c \in msgs
      <4>1. /\ \A x \in c.past : x[2] < c.lamport
            /\ c.pc # "in_flight" => c.lamport <= clock[c.dst]
        BY <3>1 DEF CausalInv
      <4>2. c.dst \in Peer /\ c.lamport \in Nat /\ clock'[c.dst] \in Nat
        BY <1>0, <2>1, <3>1
      <4> QED
        BY <2>3, <4>1, <4>2
    <3>2. CASE c \notin msgs
      BY <2>1, <2>2, <2>3, <3>2
    <3> QED
      BY <3>1, <3>2
  <2> QED
    BY <1>a, <2>4, <2>5 DEF CausalInv
<1>1. ASSUME NEW n \in Peer, NEW kind \in Types[n], Say(n, kind) PROVE CausalInv'
  BY <1>1, <1>a, SaySends DEF Say
<1>6. ASSUME NEW n \in Peer, FocusEnter(n) PROVE CausalInv'
  <2>1. {current[n]} \in SUBSET Rooms /\ "focus_enter" \in Kinds
    BY DEF TypeOK, Kinds
  <2> QED
    BY <1>6, <1>a, <2>1 DEF FocusEnter
<1>b. ASSUME NEW n \in Peer, clock' = [clock EXCEPT ![n] = @ + 1],
             UNCHANGED <<known, msgs, history>>
      PROVE  CausalInv'
  <2>2. \A p \in Peer : \A x \in known[p] : x[2] \in Nat /\ x[2] <= clock[p]
    BY <1>0 DEF CausalInv, Ids
  <2>3. \A p \in Peer : clock[p] \in Nat /\ clock'[p] \in Nat /\ clock[p] <= clock'[p]
    BY <1>0, <1>b
  <2> QED
    BY <1>0, <1>b, <2>2, <2>3 DEF CausalInv
<1>7. ASSUME NEW n \in Peer, NEW r \in Joined[n], Switch(n, r) PROVE CausalInv'
  BY <1>7, <1>b DEF Switch, screen
<1>2. ASSUME NEW n \in Peer, OtherSend(n) PROVE CausalInv'
  BY <1>2, <1>b DEF OtherSend, screen
<1>3. ASSUME NEW n \in Peer, NEW m \in msgs, Receive(n, m) PROVE CausalInv'
  <2>1. /\ clock' = [clock EXCEPT ![n] = Merged(@, m.lamport)]
        /\ UNCHANGED <<known, history>>
        /\ m.dst = n
    BY <1>3 DEF Receive, At, screen
  <2>2. \A p \in Peer : clock[p] \in Nat /\ clock'[p] \in Nat /\ clock[p] <= clock'[p]
    BY <1>0, <2>1 DEF Merged
  <2>3. m.lamport <= clock'[n]
    BY <1>0, <2>1 DEF Merged
  <2>4. \A p \in Peer : \A x \in known[p] : x[2] \in Nat /\ x[2] <= clock[p]
    BY <1>0 DEF CausalInv, Ids
  <2>5. \A c \in msgs' : c \in msgs
          \/ (c.past = m.past /\ c.lamport = m.lamport /\ c.dst = n)
    <3> DEFINE r == [m EXCEPT !.pc = "relay", !.mine = Mine(n, m)]
    <3>1. r.past = m.past /\ r.lamport = m.lamport /\ r.dst = m.dst
      BY <1>0 DEF Copy
    <3>2. msgs' = msgs \ {m} \/ msgs' = (msgs \ {m}) \union {r}
      BY <1>3 DEF Receive
    <3> HIDE DEF r
    <3> QED
      BY <2>1, <3>1, <3>2
  <2>6. \A c \in msgs : /\ \A x \in c.past : x[2] < c.lamport
                        /\ c.pc # "in_flight" => c.lamport <= clock[c.dst]
    BY DEF CausalInv
  <2>7. \A c \in msgs' : /\ \A x \in c.past : x[2] < c.lamport
                         /\ c.pc # "in_flight" => c.lamport <= clock'[c.dst]
    BY <1>0, <2>2, <2>3, <2>5, <2>6
  <2>8. \A p \in Peer : \A x \in known'[p] : x[2] <= clock'[p]
    BY <2>1, <2>2, <2>4
  <2> QED
    BY <2>1, <2>7, <2>8 DEF CausalInv
<1>4. ASSUME NEW n \in Peer, NEW m \in msgs, Relay(n, m) PROVE CausalInv'
  <2>1. /\ msgs' = GoOn(m, "show") \union Forwarded(n, m, neighbors[n] \ {m.src})
        /\ UNCHANGED <<clock, known, history>>
        /\ m.dst = n /\ m.pc = "relay"
    BY <1>4 DEF Relay, At, screen
  <2>2. \A c \in GoOn(m, "show") : c \in msgs
          \/ (c.past = m.past /\ c.lamport = m.lamport /\ c.dst = n)
    BY <1>0, <2>1, GoOnCopies
  <2>3. \A c \in Forwarded(n, m, neighbors[n] \ {m.src}) :
          c.past = m.past /\ c.lamport = m.lamport /\ c.pc = "in_flight"
    BY <1>0, ForwardedCopies
  <2>4. \A c \in msgs : /\ \A x \in c.past : x[2] < c.lamport
                        /\ c.pc # "in_flight" => c.lamport <= clock[c.dst]
    BY DEF CausalInv
  <2>5. m.lamport <= clock[n]
    BY <2>1, <2>4
  <2>6. \A c \in msgs' : /\ \A x \in c.past : x[2] < c.lamport
                         /\ c.pc # "in_flight" => c.lamport <= clock[c.dst]
    BY <2>1, <2>2, <2>3, <2>4, <2>5
  <2> QED
    BY <2>1, <2>6 DEF CausalInv
<1>5. ASSUME NEW n \in Peer, NEW m \in msgs, Show(n, m) PROVE CausalInv'
  <2>1. m.dst = n /\ m.pc = "show" /\ msgs' \subseteq msgs /\ clock' = clock
    BY <1>5 DEF Show, At
  <2>2. m.lamport <= clock[n] /\ \A x \in m.past : x[2] \in Nat /\ x[2] < m.lamport
    BY <1>0, <2>1 DEF CausalInv, Ids
  <2>3. \A p \in Peer : \A x \in known'[p] : x \in known[p] \/ (p = n /\ (x \in m.past \/ x = Id(m)))
    BY <1>0, <1>5 DEF Show
  <2>4. \A p \in Peer : \A e \in history'[p] :
          e \in history[p] \/ (e.past = m.past /\ e.lamport = m.lamport)
    <3> DEFINE f == [src |-> m.src, lamport |-> m.lamport, past |-> m.past,
                     at |-> Cardinality(history[n])]
    <3>1. history' = [history EXCEPT ![n] = @ \union {f}] \/ history' = history
      BY <1>5 DEF Show
    <3>2. f.past = m.past /\ f.lamport = m.lamport
      OBVIOUS
    <3> HIDE DEF f
    <3> QED
      BY <1>0, <3>1, <3>2
  <2>5. \A p \in Peer : \A x \in known'[p] : x[2] <= clock'[p]
    <3> SUFFICES ASSUME NEW p \in Peer, NEW x \in known'[p] PROVE x[2] <= clock[p]
      BY <2>1
    <3>1. CASE x \in known[p]
      BY <3>1 DEF CausalInv
    <3>2. CASE p = n /\ x \in m.past
      BY <1>0, <2>2, <3>2
    <3>3. CASE p = n /\ x = Id(m)
      BY <2>2, <3>3 DEF Id
    <3> QED
      BY <2>3, <3>1, <3>2, <3>3
  <2>6. \A p \in Peer : \A e \in history'[p] : \A x \in e.past : x[2] < e.lamport
    BY <2>2, <2>4 DEF CausalInv
  <2> QED
    BY <2>1, <2>5, <2>6 DEF CausalInv
<1> QED
  BY <1>1, <1>2, <1>3, <1>4, <1>5, <1>6, <1>7 DEF Next, HandlerStep

LEMMA InitTypes == Init /\ GossipAssumption => TypeOK
<1> SUFFICES ASSUME Init, GossipAssumption PROVE TypeOK
  OBVIOUS
<1>1. \A p \in Peer : InRoom[p] \in Rooms
  BY DEF GossipAssumption, Rooms
<1> QED
  BY <1>1, FS_EmptySet DEF Init, TypeOK, GossipAssumption

LEMMA StutterTypes == TypeOK /\ UNCHANGED vars => TypeOK'
BY DEF TypeOK, vars

\* Type correctness of the chat state, histories and remembered identifiers finite.
THEOREM TypeCorrect == Spec => []TypeOK
<1>1. Init => TypeOK
  BY InitTypes, GossipAssumption
<1>2. TypeOK /\ [Next]_vars => TypeOK'
  BY TypeStep, StutterTypes, GossipAssumption
<1> QED
  BY <1>1, <1>2, PTL DEF Spec

\* The clock that handle_msg merges before it does anything else is past all its user
\* knows, and every message is later than all its author knew.
THEOREM ClocksAreCausal == Spec => []CausalInv
<1>1. Init => CausalInv
  BY DEF Init, CausalInv
<1>2. TypeOK /\ TypeOK' /\ CausalInv /\ [Next]_vars => CausalInv'
  <2>1. CausalInv /\ UNCHANGED vars => CausalInv'
    BY DEF CausalInv, vars
  <2> QED
    BY <2>1, CausalStep, GossipAssumption
<1> QED
  BY <1>1, <1>2, TypeCorrect, PTL DEF Spec

\* However copies overtake each other, no history lists a message before one that
\* its author had read: the timestamps of peers.py order histories causally.
THEOREM HistoriesAreCausal == Spec => []CausalHistory
<1>1. TypeOK /\ CausalInv => CausalHistory
  <2> SUFFICES ASSUME TypeOK, CausalInv, NEW p \in Peer, NEW e \in history[p],
                      NEW f \in history[p], Listed(e, f), Id(f) \in e.past
               PROVE  FALSE
    BY DEF CausalHistory
  <2>1. e.lamport \in Nat /\ f.lamport \in Nat
    BY DEF TypeOK, Entry
  <2>2. f.lamport < e.lamport
    BY DEF CausalInv, Id
  <2> QED
    BY <2>1, <2>2 DEF Listed
<1> QED
  BY <1>1, TypeCorrect, ClocksAreCausal, PTL

\* A message that was handled before d/Switch cannot have the focus message in its past.
LEMMA HeedStep ==
  TypeOK /\ TypeOK' /\ HeedInv /\ GossipAssumption /\ Next => HeedInv'
<1> SUFFICES ASSUME TypeOK, TypeOK', HeedInv, GossipAssumption, Next PROVE HeedInv'
  OBVIOUS
<1>0. /\ clock \in [Peer -> Nat] /\ clock' \in [Peer -> Nat]
      /\ known \in [Peer -> SUBSET Ids] /\ current \in [Peer -> Rooms]
      /\ entered \in [Peer -> SUBSET Ids]
      /\ \A m \in msgs : /\ m \in Copy /\ m.dst \in Peer /\ m.src \in Peer
                         /\ m.lamport \in Nat /\ m.past \subseteq Ids
      /\ \A x \in Ids : x[1] \in Peer /\ x[2] \in Nat
  BY DEF TypeOK, Copy, Ids
<1>a. ASSUME \A p \in Peer : clock[p] <= clock'[p]
      PROVE  /\ \A p \in Peer : \A x \in known[p] : x[2] <= clock'[x[1]]
             /\ \A m \in msgs : /\ m.lamport <= clock'[m.src]
                                /\ \A x \in m.past : x[2] <= clock'[x[1]]
  <2>1. ASSUME NEW x \in Ids, x[2] <= clock[x[1]] PROVE x[2] <= clock'[x[1]]
    BY <1>0, <1>a, <2>1
  <2>2. \A p \in Peer : \A x \in known[p] : x[2] <= clock'[x[1]]
    BY <1>0, <2>1 DEF HeedInv
  <2>3. ASSUME NEW m \in msgs
        PROVE  m.lamport <= clock'[m.src] /\ \A x \in m.past : x[2] <= clock'[x[1]]
    <3>1. \A x \in m.past : x[2] <= clock'[x[1]]
      BY <1>0, <2>1 DEF HeedInv
    <3>2. m.lamport <= clock[m.src]
      BY DEF HeedInv
    <3> QED
      BY <1>0, <1>a, <3>1, <3>2
  <2> QED
    BY <2>2, <2>3
\* A message is sent.
<1>b. ASSUME NEW n \in Peer, NEW k \in Kinds, NEW rooms \in SUBSET Rooms,
             Sends(n, k, rooms), current' = current,
             entered' = entered \/ entered' = [entered EXCEPT ![n] = {<<n, clock[n] + 1>>}]
      PROVE  HeedInv'
  <2>1. /\ clock' = [clock EXCEPT ![n] = @ + 1]
        /\ known' = [known EXCEPT ![n] = @ \union {<<n, clock[n] + 1>>}]
        /\ \A c \in msgs' : \/ c \in msgs
                             \/ /\ c.src = n /\ c.lamport = clock[n] + 1
                                /\ c.past = known[n] /\ c.pc = "in_flight"
    BY <1>b, SendsFacts
  <2>2. \A p \in Peer : clock[p] <= clock'[p]
    BY <1>0, <2>1
  <2>3. clock'[n] = clock[n] + 1
    BY <1>0, <2>1
  <2>4. \A p \in Peer : \A x \in known'[p] : x[2] <= clock'[x[1]]
    BY <1>0, <1>a, <2>1, <2>2, <2>3
  <2>5. \A c \in msgs' : c.lamport <= clock'[c.src] /\ \A x \in c.past : x[2] <= clock'[x[1]]
    BY <1>0, <1>a, <2>1, <2>2, <2>3
  <2>6. FocusHeeded'
    <3> SUFFICES ASSUME NEW c \in msgs', c.pc # "in_flight", current[c.dst] \in c.rooms,
                        entered'[c.dst] # {}, entered'[c.dst] \subseteq c.past
                 PROVE  c.mine
      BY <1>b DEF FocusHeeded
    <3>1. c \in msgs /\ c.dst \in Peer
      BY <1>0, <2>1
    <3>2. <<n, clock[n] + 1>> \notin c.past
      <4>1. \A x \in c.past : x[2] <= clock[x[1]]
        BY <3>1 DEF HeedInv
      <4> QED
        BY <1>0, <4>1
    <3>3. entered'[c.dst] = entered[c.dst]
      BY <1>0, <1>b, <3>1, <3>2
    <3> QED
      BY <3>1, <3>3 DEF HeedInv, FocusHeeded
  <2> QED
    BY <1>b, <2>4, <2>5, <2>6 DEF HeedInv
<1>1. ASSUME NEW n \in Peer, NEW kind \in Types[n], Say(n, kind) PROVE HeedInv'
  BY <1>1, <1>b, SaySends DEF Say
<1>2. ASSUME NEW n \in Peer, FocusEnter(n) PROVE HeedInv'
  <2>1. {current[n]} \in SUBSET Rooms /\ "focus_enter" \in Kinds
    BY DEF TypeOK, Kinds
  <2> QED
    BY <1>2, <1>b, <2>1 DEF FocusEnter
<1>3. ASSUME NEW n \in Peer, NEW r \in Joined[n], Switch(n, r) PROVE HeedInv'
  <2>1. /\ clock' = [clock EXCEPT ![n] = @ + 1] /\ UNCHANGED <<known, msgs>>
        /\ current' = [current EXCEPT ![n] = r] /\ entered' = [entered EXCEPT ![n] = {}]
    BY <1>3 DEF Switch, screen
  <2>2. \A p \in Peer : clock[p] <= clock'[p]
    BY <1>0, <2>1
  <2>3. FocusHeeded'
    <3> SUFFICES ASSUME NEW c \in msgs, c.pc # "in_flight", current'[c.dst] \in c.rooms,
                        entered'[c.dst] # {}, entered'[c.dst] \subseteq c.past
                 PROVE  c.mine
      BY <2>1 DEF FocusHeeded
    <3>1. c.dst \in Peer /\ c.dst # n
      BY <1>0, <2>1
    <3>2. entered'[c.dst] = entered[c.dst] /\ current'[c.dst] = current[c.dst]
      BY <1>0, <2>1, <3>1
    <3> QED
      BY <3>2 DEF HeedInv, FocusHeeded
  <2>4. \A p \in Peer : current'[p] \in Joined[p]
    BY <1>0, <2>1 DEF HeedInv
  <2> QED
    BY <1>a, <2>1, <2>2, <2>3, <2>4 DEF HeedInv
<1>4. ASSUME NEW n \in Peer, OtherSend(n) PROVE HeedInv'
  <2>1. /\ clock' = [clock EXCEPT ![n] = @ + 1]
        /\ UNCHANGED <<known, msgs, current, entered>>
    BY <1>4 DEF OtherSend, screen, user
  <2>2. \A p \in Peer : clock[p] <= clock'[p]
    BY <1>0, <2>1
  <2> QED
    BY <1>a, <2>1, <2>2 DEF HeedInv, FocusHeeded
<1>5. ASSUME NEW n \in Peer, NEW m \in msgs, Receive(n, m) PROVE HeedInv'
  <2> DEFINE r == [m EXCEPT !.pc = "relay", !.mine = Mine(n, m)]
  <2>1. /\ clock' = [clock EXCEPT ![n] = Merged(@, m.lamport)] /\ m.dst = n
        /\ UNCHANGED <<known, current, entered>>
        /\ msgs' = msgs \ {m} \/ msgs' = (msgs \ {m}) \union {r}
    BY <1>5 DEF Receive, At, screen, user
  <2>2. \A p \in Peer : clock[p] <= clock'[p]
    BY <1>0, <2>1 DEF Merged
  <2>3. /\ r.src = m.src /\ r.lamport = m.lamport /\ r.past = m.past /\ r.dst = n
        /\ r.rooms = m.rooms /\ r.mine = Mine(n, m)
    BY <1>0, <2>1 DEF Copy
  <2>4. current[n] \in m.rooms => Mine(n, m)
    <3>1. current[n] \in Joined[n]
      BY DEF HeedInv
    <3>2. CASE m.kind = "topic"
      BY <3>1, <3>2 DEF Mine
    <3>3. CASE m.kind # "topic"
      BY <3>3 DEF Mine
    <3> QED
      BY <3>2, <3>3
  <2> HIDE DEF r
  <2>5. \A c \in msgs' : c \in msgs \/ c = r
    BY <2>1
  <2>6. FocusHeeded'
    BY <2>1, <2>3, <2>4, <2>5 DEF HeedInv, FocusHeeded
  <2>7. \A c \in msgs' : c.lamport <= clock'[c.src] /\ \A x \in c.past : x[2] <= clock'[x[1]]
    BY <1>a, <2>2, <2>3, <2>5
  <2>8. \A p \in Peer : current'[p] \in Joined[p] /\ \A x \in known'[p] : x[2] <= clock'[x[1]]
    BY <1>a, <2>1, <2>2 DEF HeedInv
  <2> QED
    BY <2>6, <2>7, <2>8 DEF HeedInv
<1>6. ASSUME NEW n \in Peer, NEW m \in msgs, Relay(n, m) PROVE HeedInv'
  <2>1. /\ msgs' = GoOn(m, "show") \union Forwarded(n, m, neighbors[n] \ {m.src})
        /\ UNCHANGED <<clock, known, current, entered>> /\ m.pc = "relay"
    BY <1>6 DEF Relay, At, screen, user
  <2>2. \A c \in msgs' : \/ c \in msgs
                         \/ c.src = m.src /\ c.lamport = m.lamport /\ c.past = m.past
    BY <1>0, <2>1, GoOnCopies, ForwardedCopies DEF TypeOK
  <2>3. \A c \in msgs' : \/ c \in msgs \/ c.pc = "in_flight"
                         \/ /\ c.past = m.past /\ c.dst = m.dst
                            /\ c.rooms = m.rooms /\ c.mine = m.mine
    BY <1>0, <2>1, GoOnCopies, ForwardedCopies DEF TypeOK
  <2>4. FocusHeeded'
    BY <2>1, <2>3 DEF HeedInv, FocusHeeded
  <2>5. \A c \in msgs' : c.lamport <= clock[c.src] /\ \A x \in c.past : x[2] <= clock[x[1]]
    BY <2>2 DEF HeedInv
  <2> QED
    BY <2>1, <2>4, <2>5 DEF HeedInv
<1>7. ASSUME NEW n \in Peer, NEW m \in msgs, Show(n, m) PROVE HeedInv'
  <2>1. msgs' = msgs \ {m} /\ UNCHANGED <<clock, current, entered>>
    BY <1>7 DEF Show, user
  <2>2. \A p \in Peer : \A x \in known'[p] : x \in known[p] \/ x \in m.past \/ x = Id(m)
    BY <1>0, <1>7 DEF Show
  <2>3. m.lamport <= clock[m.src] /\ \A x \in m.past : x[2] <= clock[x[1]]
    BY DEF HeedInv
  <2>4. \A p \in Peer : \A x \in known'[p] : x[2] <= clock[x[1]]
    BY <2>2, <2>3 DEF HeedInv, Id
  <2> QED
    BY <2>1, <2>4 DEF HeedInv, FocusHeeded
<1> QED
  BY <1>1, <1>2, <1>3, <1>4, <1>5, <1>6, <1>7 DEF Next, HandlerStep

\* Whoever has read that a user is active in a room, and writes to it, is read by that
\* user: d/Switch sets current_chatroom before it tells anybody, and no handler that
\* copied current_chatroom earlier can be working on such a message.
THEOREM FocusIsHeeded == Spec => []FocusHeeded
<1>1. Init => HeedInv
  BY GossipAssumption DEF Init, HeedInv, FocusHeeded, GossipAssumption
<1>2. TypeOK /\ TypeOK' /\ HeedInv /\ [Next]_vars => HeedInv'
  <2>1. HeedInv /\ UNCHANGED vars => HeedInv'
    BY DEF HeedInv, FocusHeeded, vars
  <2> QED
    BY <2>1, HeedStep, GossipAssumption
<1>3. HeedInv => FocusHeeded
  BY DEF HeedInv
<1> QED
  BY <1>1, <1>2, <1>3, TypeCorrect, PTL DEF Spec

\* With room for it, an identifier is added and none is dropped.
LEMMA RememberAdds ==
  ASSUME TypeOK, NeverFull, GossipAssumption, NEW n \in Peer, NEW id \in Ids,
         Remember(n, id)
  PROVE  seen' = [seen EXCEPT ![n] = @ \union {id}]
<1>1. IsFiniteSet(seen[n]) /\ Cardinality(seen[n]) \in Nat
  BY FS_CardinalityType DEF TypeOK
<1>2. Cardinality(seen[n] \union {id}) =
        IF id \in seen[n] THEN Cardinality(seen[n]) ELSE Cardinality(seen[n]) + 1
  BY <1>1, FS_AddElement, Zenon
<1>3. Cardinality(seen[n] \union {id}) <= SeenMax
  BY <1>1, <1>2 DEF NeverFull, GossipAssumption
<1> QED
  BY <1>3 DEF Remember

\* While no identifier is dropped, one handler at a time works on a message.
LEMMA KeptStep ==
  TypeOK /\ KeptInv /\ NeverFull /\ GossipAssumption /\ Next => KeptInv'
<1> SUFFICES ASSUME TypeOK, KeptInv, NeverFull, GossipAssumption, Next PROVE KeptInv'
  OBVIOUS
<1>0. /\ neighbors \in [Peer -> SUBSET Peer]
      /\ seen \in [Peer -> SUBSET Ids]
      /\ history \in [Peer -> SUBSET Entry]
      /\ \A m \in msgs : m \in Copy /\ m.dst \in Peer /\ m.src \in Peer /\ Id(m) \in Ids
  BY DEF TypeOK, Copy, Id, Ids
\* Steps that only add copies in flight keep what is said of handlers.
<1>a. ASSUME seen' = seen, history' = history, neighbors' = neighbors,
             \A c \in msgs' : \/ c \in msgs
                              \/ c.pc = "in_flight" /\ c.src # c.dst
      PROVE  KeptInv'
  BY <1>a DEF KeptInv, KeptOnce, Handled
<1>b. ASSUME NEW n \in Peer, NEW k \in Kinds, NEW rooms \in SUBSET Rooms,
             Sends(n, k, rooms), UNCHANGED <<seen, history, neighbors>>
      PROVE  KeptInv'
  <2>1. \A c \in msgs' : \/ c \in msgs
                         \/ c.src = n /\ c.pc = "in_flight" /\ c.dst \in neighbors[n]
    BY <1>b, SendsFacts
  <2>2. n \notin neighbors[n]
    BY DEF KeptInv
  <2> QED
    BY <1>a, <1>b, <2>1, <2>2
<1>1. ASSUME NEW n \in Peer, NEW kind \in Types[n], Say(n, kind) PROVE KeptInv'
  BY <1>1, <1>b, SaySends DEF Say
<1>6. ASSUME NEW n \in Peer, FocusEnter(n) PROVE KeptInv'
  <2>1. {current[n]} \in SUBSET Rooms /\ "focus_enter" \in Kinds
    BY DEF TypeOK, Kinds
  <2> QED
    BY <1>6, <1>b, <2>1 DEF FocusEnter
<1>7. ASSUME NEW n \in Peer, NEW r \in Joined[n], Switch(n, r) PROVE KeptInv'
  BY <1>7, <1>a DEF Switch, screen
<1>2. ASSUME NEW n \in Peer, OtherSend(n) PROVE KeptInv'
  BY <1>2, <1>a DEF OtherSend, screen
<1>3. ASSUME NEW n \in Peer, NEW m \in msgs, Receive(n, m) PROVE KeptInv'
  <2>1. /\ m \in Copy /\ m.dst = n /\ m.pc = "in_flight" /\ history' = history
        /\ neighbors' = [neighbors EXCEPT ![n] = @ \union ({m.src} \ {n})]
    BY <1>0, <1>3 DEF Receive, At, screen
  <2>2. \A p \in Peer : p \notin neighbors'[p]
    BY <1>0, <2>1 DEF KeptInv
  <2>3. CASE Id(m) \in seen[n]
    <3>1. msgs' = msgs \ {m} /\ seen' = seen
      BY <1>3, <2>3 DEF Receive
    <3> QED
      BY <2>1, <2>2, <3>1 DEF KeptInv, KeptOnce, Handled
  <2>4. CASE Id(m) \notin seen[n]
    <3> DEFINE r == [m EXCEPT !.pc = "relay", !.mine = Mine(n, m)]
    <3>1. msgs' = (msgs \ {m}) \union {r} /\ Remember(n, Id(m))
      BY <1>3, <2>4 DEF Receive
    <3>2. seen' = [seen EXCEPT ![n] = @ \union {Id(m)}]
      BY <1>0, <3>1, RememberAdds
    <3>3. msgs' = (msgs \ {m}) \union {r}
      BY <3>1
    <3>4. r.src = m.src /\ r.dst = n /\ r.pc = "relay" /\ Id(r) = Id(m)
      <4>1. r.src = m.src /\ r.dst = m.dst /\ r.pc = "relay" /\ r.lamport = m.lamport
        BY <2>1 DEF Copy
      <4> QED
        BY <2>1, <4>1 DEF Id
    <3>5. m.src # n /\ \A e \in history[n] : Id(e) # Id(m)
      BY <2>1, <2>4 DEF KeptInv
    <3>6. \A k \in msgs : Handled(k) /\ k.dst = n => Id(k) # Id(m)
      BY <2>4 DEF KeptInv
    <3>7. \A p \in Peer : seen[p] \subseteq seen'[p]
      BY <1>0, <3>2
    <3>8. Id(m) \in seen'[n]
      BY <1>0, <3>2
    <3> HIDE DEF r
    <3>9. \A k \in msgs' : k.src # k.dst
      BY <3>3, <3>4, <3>5 DEF KeptInv
    <3>10. ASSUME NEW k \in msgs', k.pc # "in_flight"
           PROVE  /\ Id(k) \in seen'[k.dst]
                  /\ \A e \in history'[k.dst] : Id(e) # Id(k)
                  /\ \A l \in msgs' : l.pc # "in_flight" /\ l.dst = k.dst /\ Id(l) = Id(k)
                                        => l = k
      <4>1. CASE k = r
        BY <2>1, <3>3, <3>4, <3>5, <3>6, <3>8, <4>1 DEF Handled
      <4>2. CASE k # r
        BY <1>0, <2>1, <3>3, <3>4, <3>6, <3>7, <3>10, <4>2 DEF KeptInv, Handled
      <4> QED
        BY <4>1, <4>2
    <3>11. \A p \in Peer : \A e \in history'[p] : Id(e) \in seen'[p]
      BY <2>1, <3>7 DEF KeptInv
    <3> QED
      BY <2>1, <2>2, <3>9, <3>10, <3>11 DEF KeptInv, KeptOnce, Handled
  <2> QED
    BY <2>3, <2>4
<1>4. ASSUME NEW n \in Peer, NEW m \in msgs, Relay(n, m) PROVE KeptInv'
  <2> DEFINE F == Forwarded(n, m, neighbors[n] \ {m.src})
             r == [m EXCEPT !.pc = "show"]
  <2>1. /\ m \in Copy /\ m.dst = n /\ m.pc = "relay"
        /\ msgs' = ((msgs \ {m}) \union {r}) \union F
        /\ history' = history /\ neighbors' = neighbors /\ seen' = seen
    BY <1>0, <1>4 DEF Relay, At, GoOn, screen
  <2>2. \A c \in F : c.pc = "in_flight" /\ c.src = m.src /\ c.dst # m.src
    BY <1>0, <2>1, ForwardedCopies
  <2>3. r.src = m.src /\ r.dst = n /\ r.pc = "show" /\ Id(r) = Id(m)
    BY <2>1 DEF Copy, Id
  <2> HIDE DEF F, r
  <2>4. \A k \in msgs' : k.src # k.dst
    BY <2>1, <2>2, <2>3 DEF KeptInv
  <2>5. ASSUME NEW k \in msgs', k.pc # "in_flight"
        PROVE  /\ Id(k) \in seen[k.dst]
               /\ \A e \in history[k.dst] : Id(e) # Id(k)
               /\ \A l \in msgs' : l.pc # "in_flight" /\ l.dst = k.dst /\ Id(l) = Id(k)
                                     => l = k
    <3>1. /\ Id(m) \in seen[n]
          /\ \A e \in history[n] : Id(e) # Id(m)
          /\ \A l \in msgs : l.pc # "in_flight" /\ l.dst = n /\ Id(l) = Id(m) => l = m
      BY <2>1 DEF KeptInv, Handled
    <3>2. CASE k = r
      BY <2>1, <2>2, <2>3, <3>1, <3>2
    <3>3. CASE k # r
      <4>1. k \in msgs /\ k # m
        BY <2>1, <2>2, <2>5, <3>3
      <4>2. /\ Id(k) \in seen[k.dst]
            /\ \A e \in history[k.dst] : Id(e) # Id(k)
            /\ \A l \in msgs : l.pc # "in_flight" /\ l.dst = k.dst /\ Id(l) = Id(k) => l = k
        BY <2>5, <4>1 DEF KeptInv, Handled
      <4> QED
        BY <2>1, <2>2, <2>3, <4>1, <4>2
    <3> QED
      BY <3>2, <3>3
  <2> QED
    BY <2>1, <2>4, <2>5 DEF KeptInv, KeptOnce, Handled
<1>5. ASSUME NEW n \in Peer, NEW m \in msgs, Show(n, m) PROVE KeptInv'
  <2>1. /\ m.dst = n /\ m.pc = "show" /\ m.src # n /\ msgs' = msgs \ {m}
        /\ seen' = seen /\ neighbors' = neighbors
    BY <1>5 DEF Show, At, KeptInv
  <2>2. /\ Id(m) \in seen[n]
        /\ \A e \in history[n] : Id(e) # Id(m)
        /\ \A l \in msgs : l.pc # "in_flight" /\ l.dst = n /\ Id(l) = Id(m) => l = m
    BY <2>1 DEF KeptInv, Handled
  <2>3. PICK e : /\ e.src = m.src /\ Id(e) = Id(m)
                 /\ \/ history' = [history EXCEPT ![n] = @ \union {e}]
                    \/ history' = history
    <3> DEFINE x == [src |-> m.src, lamport |-> m.lamport, past |-> m.past,
                     at |-> Cardinality(history[n])]
    <3>1. x.src = m.src /\ Id(x) = Id(m)
      BY DEF Id
    <3>2. \/ history' = [history EXCEPT ![n] = @ \union {x}]
          \/ history' = history
      BY <1>5 DEF Show
    <3> HIDE DEF x
    <3> QED
      BY <3>1, <3>2
  <2>4. \A p \in Peer : \A f \in history'[p] : f \in history[p] \/ (p = n /\ f = e)
    BY <1>0, <2>3
  <2>5. \A p \in Peer : \A f \in history'[p] : Id(f) \in seen[p] /\ f.src # p
    BY <2>1, <2>2, <2>3, <2>4 DEF KeptInv, KeptOnce
  <2>6. \A p \in Peer : \A f, g \in history'[p] : Id(f) = Id(g) => f = g
    BY <2>2, <2>3, <2>4 DEF KeptInv, KeptOnce
  <2>7. \A k \in msgs' : k.pc # "in_flight" => \A f \in history'[k.dst] : Id(f) # Id(k)
    <3> SUFFICES ASSUME NEW k \in msgs', k.pc # "in_flight", NEW f \in history'[k.dst]
                 PROVE  Id(f) # Id(k)
      OBVIOUS
    <3>1. k \in msgs /\ k # m /\ k.dst \in Peer
      BY <1>0, <2>1
    <3>2. CASE f \in history[k.dst]
      BY <3>1, <3>2 DEF KeptInv, Handled
    <3>3. CASE k.dst = n /\ f = e
      BY <2>2, <2>3, <3>1, <3>3
    <3> QED
      BY <2>4, <3>1, <3>2, <3>3
  <2> QED
    BY <2>1, <2>5, <2>6, <2>7 DEF KeptInv, KeptOnce, Handled
<1> QED
  BY <1>1, <1>2, <1>3, <1>4, <1>5, <1>6, <1>7 DEF Next, HandlerStep

\* While the memory for identifiers has room for one more, a handler that has passed the
\* duplicate check owns its message: no other handler of the peer works on it.
THEOREM HandlersOwnTheirs == Spec /\ []NeverFull => []KeptInv
<1>1. Init => KeptInv
  BY GossipAssumption DEF Init, KeptInv, KeptOnce, GossipAssumption
<1>2. TypeOK /\ NeverFull /\ KeptInv /\ [Next]_vars => KeptInv'
  <2>1. KeptInv /\ UNCHANGED vars => KeptInv'
    BY DEF KeptInv, KeptOnce, Handled, vars
  <2> QED
    BY <2>1, KeptStep, GossipAssumption
<1> QED
  BY <1>1, <1>2, TypeCorrect, PTL DEF Spec

\* While the memory has room, every history holds a message once, in however many copies
\* it arrived, and nobody's own messages.
THEOREM MessagesKeptOnce == Spec /\ []NeverFull => []KeptOnce
<1>1. KeptInv => KeptOnce
  BY DEF KeptInv
<1> QED
  BY <1>1, HandlersOwnTheirs, PTL
=============================================================================
