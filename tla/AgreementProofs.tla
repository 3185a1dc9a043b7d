-------------------------- MODULE AgreementProofs --------------------------
(***************************************************************************)
(* Why member lists agree once all is quiet (MembersAgree), when one peer  *)
(* starts, users have different names and nobody leaves: an entry that a   *)
(* peer lacks is always on some way to it.                                 *)
(***************************************************************************)
EXTENDS MembershipProofs

\* Hypothesis: one peer starts, the others have.
OneStarts == \A p, q \in Peer \ Established : p = q

Stay == \A p \in Peer : main[p] \notin {"leaving", "gone"}

Starter(p) == p \in Peer \ Established

\* What is true of a peer by itself.
PeerInv ==
  \A p \in Peer :
    /\ p \notin neighbors[p]
    /\ ~Starter(p) => main[p] # "boot" /\ Established \ {p} \subseteq neighbors[p]
    /\ Starter(p) /\ shaken[p] => Established \intersect neighbors[p] # {}
    /\ Starter(p) /\ main[p] # "boot" => shaken[p]
    /\ shaken[p] => pinged[p] # {}
    /\ main[p] # "tell" => todo[p] = {}
    /\ main[p] \in {"boot", "name"} => joined[p] = {}
    /\ InRooms(p) \subseteq members[p]
    /\ todo[p] \subseteq joined[p]

\* Every entry is about a user in a room.
Entered(x) == \E q \in Peer : x \in InRooms(q)
EntriesTrue ==
  /\ \A p \in Peer : \A x \in members[p] : Entered(x)
  /\ \A m \in msgs : \A x \in m.body.users : Entered(x)

\* Messages go to somebody else; pings come from a starting peer, and whoever has
\* seen one knows whom it is from.
MsgsRight ==
  /\ \A m \in msgs :
       /\ m.body.src # m.dst /\ m.body.kind # "leave"
       /\ m.body.kind = "ping" => Starter(m.body.src) /\ pinged[m.body.src] # {}
       /\ m.body.kind = "pong" => pinged[m.dst] # {}
       /\ m.pc = "handle" => m.body \in seen[m.dst]
  /\ \A p \in Peer : \A b \in seen[p] :
       /\ b.kind \in {"ping", "join"}
       /\ b.kind = "ping" => b.src \in neighbors[p] /\ pinged[b.src] # {}

\* A join that has been seen is in the list or about to be; one yet to be sent is new.
JoinBy(q, x) == Says("join", q, <<q, q>>, {x})
JoinsSeen ==
  /\ \A p \in Peer : \A b \in seen[p] : b.kind = "join" =>
       b.users \subseteq members[p] \/ \E m \in msgs : m.dst = p /\ m.pc = "handle" /\ m.body = b
  /\ \A q \in Peer : \A x \in InRooms(q) : x[1] \in todo[q] =>
       /\ \A p \in Peer : JoinBy(q, x) \notin seen[p]
       /\ \A m \in msgs : m.body # JoinBy(q, x)

\* A ping of p is being answered at q; or it is or will be.
Answering(q, p) ==
  \E m \in msgs : m.dst = q /\ m.body.kind = "ping" /\ m.body.src = p /\ m.pc = "handle"
PingFor(q, p) ==
  \E m \in msgs : /\ m.dst = q /\ m.body.kind = "ping" /\ m.body.src = p
                  /\ m.pc = "handle" \/ m.body \notin seen[q]
\* q will hear of p by a ping, to itself or passed on by an established peer
PingOn(q, p) ==
  \/ main[p] = "boot" /\ pinged[p] = {}
  \/ PingFor(q, p)
  \/ \E e \in Established \ {q} : PingFor(e, p)

\* An entry x is in the list of p, or in a message to it.
Has(p, x) ==
  \/ x \in members[p]
  \/ \E m \in msgs : m.dst = p /\ m.body.kind \in {"join", "sync"} /\ x \in m.body.users
\* q will tell p, whom it knows
Tell(p, q, x) == x[1] \in todo[q] /\ p \in neighbors[q]
\* an established peer is or will be told, and passes it on to the established p
Over(p, q, x) ==
  /\ Starter(q) /\ ~Starter(p)
  /\ \/ x[1] \in todo[q] /\ Established \intersect neighbors[q] # {}
     \/ \E m \in msgs : /\ m.dst \in Established /\ m.pc = "in_flight"
                        /\ m.body = JoinBy(q, x) /\ m.body \notin seen[m.dst]

\* Every entry of q reaches p; q gets to know a starting p; and what q answers to the
\* ping of p holds what q had entered by then.
ListReaches(p, q) ==
  \A x \in InRooms(q) : \/ Has(p, x) \/ Tell(p, q, x) \/ Over(p, q, x)
                        \/ Starter(p) /\ PingOn(q, p)
PingReaches(p, q) == Starter(p) => p \in neighbors[q] \/ PingOn(q, p)
AnswerReaches(p, q) ==
  Starter(p) => \A b \in seen[q] : b.kind = "ping" /\ b.src = p =>
    \A x \in InRooms(q) : Has(p, x) \/ Tell(p, q, x) \/ Answering(q, p)
Reaches ==
  \A p, q \in Peer : p # q => ListReaches(p, q) /\ PingReaches(p, q) /\ AnswerReaches(p, q)

AgreeParts == PeerInv /\ EntriesTrue /\ MsgsRight /\ JoinsSeen /\ Reaches
AgreeInv == Stay => AgreeParts

-----------------------------------------------------------------------------
(* Steps while everybody stays. *)

Hypotheses == MembershipAssumption /\ OneStarts /\ DistinctCalls

LEMMA NoneGone ==
  ASSUME Stay
  PROVE  Gone = {} /\ \A p \in Peer : Runs(p)
BY DEF Stay, Gone, Runs

\* Nobody comes back.
LEMMA StayedBefore == TypeInv /\ Next /\ Stay' => Stay
<1> SUFFICES ASSUME TypeInv, Next, Stay', NEW p \in Peer, main[p] \in {"leaving", "gone"}
             PROVE  FALSE
  BY DEF Stay
<1>1. main'[p] \notin {"leaving", "gone"}
  BY DEF Stay
<1>2. main \in [Peer -> {"boot", "name", "room", "tell", "prompt", "leaving", "gone"}]
  BY DEF TypeInv, TypeOK
<1>3. \A n \in Peer, m \in msgs : HandlerStep(n, m) => main' = main
  BY DEF HandlerStep, Duplicate, Pong, Answer, Shake, MemberSync, Relay, HandleJoin,
         HandleLeave
<1>4. \A n \in Peer : MainStep(n) => main'[p] \in {"leaving", "gone"}
  <2> SUFFICES ASSUME NEW n \in Peer, MainStep(n) PROVE main'[p] \in {"leaving", "gone"}
    OBVIOUS
  <2>1. ASSUME NEW x \in Peer, Ping(n, x) PROVE main' = main
    BY <2>1 DEF Ping
  <2>2. ASSUME NEW u \in User, Name(n, u) PROVE main'[p] \in {"leaving", "gone"}
    BY <2>2, <1>2 DEF Name
  <2>3. ASSUME NEW r \in Room, Join(n, r) PROVE main'[p] \in {"leaving", "gone"}
    BY <2>3, <1>2 DEF Join, EntersRoom
  <2>4. ASSUME NEW r \in Room, LeaveRoom(n, r) PROVE main' = main
    BY <2>4 DEF LeaveRoom
  <2>5. ASSUME Handshake(n) \/ TellJoin(n) PROVE main'[p] \in {"leaving", "gone"}
    BY <2>5, <1>2 DEF Handshake, TellJoin
  <2>6. ASSUME Leave(n) \/ Stop(n) PROVE main'[p] \in {"leaving", "gone"}
    BY <2>6, <1>2 DEF Leave, Stop
  <2> QED
    BY <2>1, <2>2, <2>3, <2>4, <2>5, <2>6 DEF MainStep
<1> QED
  BY <1>1, <1>3, <1>4 DEF Next

\* What a handler of m at n leaves alone.
Frame(n, m) ==
  /\ UNCHANGED <<main, name, joined, pinged, todo>>
  /\ \A p \in Peer : /\ members[p] \subseteq members'[p]
                     /\ neighbors[p] \subseteq neighbors'[p]
                     /\ seen[p] \subseteq seen'[p]
                     /\ p # n => members'[p] = members[p] /\ neighbors'[p] = neighbors[p]
                                 /\ shaken'[p] = shaken[p]
  /\ neighbors'[n] \subseteq neighbors[n] \union ({m.body.src} \ {n})
  /\ \A p \in Peer : \A b \in seen'[p] : b \in seen[p] \/ (p = n /\ b = m.body)
  /\ \A k \in msgs : k = m \/ k \in msgs'
  /\ m \in msgs /\ m.dst = n

LEMMA HandlerFrames ==
  ASSUME TypeInv, Stay, MsgsRight, NEW n \in Peer, NEW m \in msgs, HandlerStep(n, m)
  PROVE  Frame(n, m)
<1>1. Gone = {}
  BY NoneGone
<1>2. /\ neighbors \in [Peer -> SUBSET Peer] /\ seen \in [Peer -> SUBSET Body]
      /\ members \in [Peer -> SUBSET (Room \X User)] /\ shaken \in [Peer -> BOOLEAN]
  BY DEF TypeInv, TypeOK
<1>3. CASE Duplicate(n, m)
  BY <1>2, <1>3 DEF Duplicate, At, Others, Learnt, Frame
<1>4. CASE Pong(n, m)
  BY <1>1, <1>2, <1>4 DEF Pong, First, At, GoOn, Others, Learnt, Frame
<1>5. CASE Answer(n, m)
  BY <1>1, <1>2, <1>5 DEF Answer, At, Others, Frame
<1>6. CASE Shake(n, m)
  BY <1>2, <1>6 DEF Shake, At, Others, Learnt, Frame
<1>7. CASE MemberSync(n, m)
  BY <1>2, <1>7 DEF MemberSync, At, Others, Learnt, Frame
<1>8. CASE Relay(n, m)
  BY <1>1, <1>2, <1>8 DEF Relay, First, At, GoOn, Others, Learnt, Frame
<1>9. CASE HandleJoin(n, m)
  BY <1>2, <1>9 DEF HandleJoin, At, Others, Frame
<1>10. CASE HandleLeave(n, m)
  BY <1>10 DEF HandleLeave, At, MsgsRight
<1> QED
  BY <1>3, <1>4, <1>5, <1>6, <1>7, <1>8, <1>9, <1>10 DEF HandlerStep

\* Only Shake touches handshake_done.
LEMMA OnlyShake ==
  ASSUME NEW n \in Peer, NEW m \in msgs, HandlerStep(n, m)
  PROVE  shaken' = shaken \/ Shake(n, m)
BY DEF HandlerStep, Duplicate, Pong, Answer, MemberSync, Relay, HandleJoin, HandleLeave

LEMMA PeerHandles ==
  ASSUME TypeInv, Hypotheses, Stay, PeerInv, MsgsRight,
         NEW n \in Peer, NEW m \in msgs, HandlerStep(n, m)
  PROVE  PeerInv'
<1>1. Frame(n, m)
  BY HandlerFrames
<1>2. m.body.src \in Peer
  BY MsgTypes DEF TypeInv, TypeOK
<1>3. \A p \in Peer : InRooms(p)' = InRooms(p)
  BY <1>1 DEF Frame, InRooms
<1>4. \A p \in Peer : shaken'[p] =>
        pinged'[p] # {} /\ (Starter(p) => Established \intersect neighbors'[p] # {})
  <2>1. CASE shaken' = shaken
    BY <2>1, <1>1 DEF PeerInv, Frame
  <2>2. CASE Shake(n, m)
    <3>1. pinged[n] # {} /\ m.body.src # n /\ m.body.src \in neighbors'[n]
      BY <2>2, <1>2 DEF Shake, At, MsgsRight, Learnt, TypeInv, TypeOK
    <3>2. Starter(n) => m.body.src \in Established
      BY <3>1, <1>2 DEF Hypotheses, OneStarts, Starter
    <3> QED
      BY <3>1, <3>2, <1>1 DEF PeerInv, Frame
  <2> QED
    BY <2>1, <2>2, OnlyShake
<1>5. \A p \in Peer : shaken[p] => shaken'[p]
  BY OnlyShake DEF Shake, TypeInv, TypeOK
<1> SUFFICES ASSUME NEW p \in Peer
             PROVE  /\ p \notin neighbors'[p]
                    /\ ~Starter(p) => main'[p] # "boot" /\ Established \ {p} \subseteq neighbors'[p]
                    /\ Starter(p) /\ main'[p] # "boot" => shaken'[p]
                    /\ main'[p] # "tell" => todo'[p] = {}
                    /\ main'[p] \in {"boot", "name"} => joined'[p] = {}
                    /\ InRooms(p) \subseteq members'[p]
                    /\ todo'[p] \subseteq joined'[p]
  BY <1>3, <1>4 DEF PeerInv, Starter
<1>6. p \notin neighbors'[p]
  BY <1>1 DEF PeerInv, Frame
<1>7. ~Starter(p) => main'[p] # "boot" /\ Established \ {p} \subseteq neighbors'[p]
  BY <1>1 DEF PeerInv, Frame
<1>8. Starter(p) /\ main'[p] # "boot" => shaken'[p]
  BY <1>1, <1>5 DEF PeerInv, Frame
<1>9. InRooms(p) \subseteq members'[p]
  BY <1>1 DEF PeerInv, Frame
<1>10. /\ main'[p] # "tell" => todo'[p] = {}
       /\ main'[p] \in {"boot", "name"} => joined'[p] = {}
       /\ todo'[p] \subseteq joined'[p]
  BY <1>1 DEF PeerInv, Frame
<1> QED
  BY <1>6, <1>7, <1>8, <1>9, <1>10

\* An entry of somebody's is there under one name only.
LEMMA EnteredOwn ==
  ASSUME TypeInv, Hypotheses, PeerInv, NEW n \in Peer, main[n] \notin {"boot", "name"},
         NEW r \in Room, Entered(<<r, name[n]>>)
  PROVE  r \in joined[n]
<1>1. PICK q \in Peer : <<r, name[n]>> \in InRooms(q)
  BY DEF Entered
<1>2. r \in joined[q] /\ name[q] = name[n]
  BY <1>1 DEF InRooms
<1>3. main[q] \notin {"boot", "name"}
  BY <1>2 DEF PeerInv
<1>4. name[n] \in Calls[n] /\ name[q] \in Calls[q]
  BY <1>3 DEF TypeInv, Named
<1>5. q = n
  BY <1>2, <1>4 DEF Hypotheses, DistinctCalls
<1> QED
  BY <1>2, <1>5

\* What the main thread does while its user stays.
Stays(n) ==
  \/ \E x \in Peer : Ping(n, x)
  \/ \E u \in User : Name(n, u)
  \/ \E r \in Room : Join(n, r)
  \/ Handshake(n) \/ TellJoin(n)

LEMMA MainStays ==
  ASSUME TypeInv, Stay, Stay', NEW n \in Peer, MainStep(n)
  PROVE  Stays(n)
<1>1. ~Leave(n)
  BY DEF Leave, Stay, TypeInv, TypeOK
<1>2. ~Stop(n) /\ \A r \in Room : ~LeaveRoom(n, r)
  BY DEF Stop, LeaveRoom, Stay
<1> QED
  BY <1>1, <1>2 DEF MainStep, Stays

\* While everybody stays, sends reach all.
LEMMA TellsAll ==
  ASSUME TypeInv, Stay, NEW n \in Peer, TellJoin(n)
  PROVE  /\ UNCHANGED <<neighbors, seen, members, name, joined, shaken, pinged>>
         /\ main' = [main EXCEPT ![n] = "prompt"] /\ main[n] = "tell"
         /\ todo' = [todo EXCEPT ![n] = {}]
         /\ msgs' = msgs \union Copies(Tells("join", n, todo[n]), neighbors[n])
<1>1. neighbors' = neighbors
  <2>1. neighbors \in [Peer -> SUBSET Peer] /\ Gone = {}
    BY NoneGone DEF TypeInv, TypeOK
  <2>2. neighbors' = neighbors \/
        neighbors' = [neighbors EXCEPT ![n] = neighbors[n] \ (neighbors[n] \intersect Gone)]
    BY DEF TellJoin, Sends
  <2>3. neighbors[n] \ (neighbors[n] \intersect Gone) = neighbors[n]
    BY <2>1
  <2> QED
    BY <2>1, <2>2, <2>3
<1>2. todo[n] = {} => Copies(Tells("join", n, todo[n]), neighbors[n]) = {}
  BY DEF Copies, Tells
<1> QED
  BY <1>1, <1>2 DEF TellJoin, Sends

LEMMA PeerMains ==
  ASSUME TypeInv, Hypotheses, Stay, PeerInv, EntriesTrue, NEW n \in Peer, Stays(n)
  PROVE  PeerInv'
<1>0. /\ main \in [Peer -> {"boot", "name", "room", "tell", "prompt", "leaving", "gone"}]
      /\ members \in [Peer -> SUBSET (Room \X User)]
      /\ joined \in [Peer -> SUBSET Room] /\ name \in [Peer -> User \union {""}]
      /\ pinged \in [Peer -> SUBSET Peer] /\ todo \in [Peer -> SUBSET Room]
  BY DEF TypeInv, TypeOK
<1>1. ASSUME NEW x \in Peer, Ping(n, x) PROVE PeerInv'
  <2>1. \A p \in Peer : pinged[p] # {} => pinged'[p] # {}
    BY <1>0, <1>1 DEF Ping
  <2> QED
    BY <1>1, <2>1 DEF Ping, PeerInv, InRooms
<1>2. ASSUME NEW u \in User, Name(n, u) PROVE PeerInv'
  <2>1. joined[n] = {}
    BY <1>2 DEF Name, PeerInv
  <2>2. \A p \in Peer : InRooms(p)' = InRooms(p)
    BY <1>0, <1>2, <2>1 DEF Name, InRooms
  <2>3. \A p \in Peer : /\ main[p] # "boot" <=> main'[p] # "boot"
                        /\ main'[p] # "tell" => main[p] # "tell"
                        /\ main'[p] \in {"boot", "name"} => main[p] \in {"boot", "name"}
    BY <1>0, <1>2 DEF Name
  <2> QED
    BY <1>2, <2>2, <2>3 DEF Name, PeerInv
<1>3. ASSUME NEW r \in Room, Join(n, r) PROVE PeerInv'
  <2>1. main[n] \in {"room", "prompt"} /\ todo[n] = {}
    BY <1>3 DEF Join, EntersRoom, PeerInv
  <2>2. /\ \A p \in Peer : InRooms(p)' \subseteq members'[p]
        /\ \A p \in Peer : todo'[p] \subseteq joined'[p]
    <3>1. /\ members' = [members EXCEPT ![n] = @ \union {<<r, name[n]>>}]
          /\ joined' = [joined EXCEPT ![n] = @ \union {r}] /\ name' = name
      BY <1>3 DEF Join
    <3>2. \A p \in Peer : InRooms(p)' = InRooms(p) \union (IF p = n THEN {<<r, name[n]>>} ELSE {})
      BY <1>0, <3>1 DEF InRooms
    <3>3. PICK rs \in {{}, {r}} : todo' = [todo EXCEPT ![n] = rs]
      BY <1>3 DEF Join
    <3>4. \A p \in Peer : todo'[p] \subseteq joined'[p]
      BY <1>0, <3>1, <3>3 DEF PeerInv
    <3>5. \A p \in Peer : InRooms(p)' \subseteq members'[p]
      <4>1. \A p \in Peer : members'[p] = members[p] \union (IF p = n THEN {<<r, name[n]>>} ELSE {})
        BY <1>0, <3>1
      <4> QED
        BY <4>1, <3>2 DEF PeerInv
    <3> QED
      BY <3>4, <3>5
  <2>3. \A p \in Peer : /\ main[p] # "boot" <=> main'[p] # "boot"
                        /\ main'[p] # "tell" => main[p] # "tell" /\ p # n
                        /\ p # n => joined'[p] = joined[p] /\ todo'[p] = todo[p]
                                    /\ main'[p] = main[p]
                        /\ main'[n] = "tell"
    BY <1>0, <1>3, <2>1 DEF Join
  <2>4. \A p \in Peer : /\ main'[p] # "tell" => todo'[p] = {}
                        /\ main'[p] \in {"boot", "name"} => joined'[p] = {}
    BY <2>3 DEF PeerInv
  <2>5. UNCHANGED <<neighbors, shaken, pinged>>
    BY <1>3 DEF Join
  <2> QED
    BY <2>2, <2>3, <2>4, <2>5 DEF PeerInv
<1>4. ASSUME Handshake(n) PROVE PeerInv'
  <2>1. joined[n] = {} /\ shaken[n]
    BY <1>4 DEF Handshake, PeerInv
  <2>2. \A p \in Peer : /\ main'[p] # "boot" => main[p] # "boot" \/ p = n
                        /\ main[p] # "boot" => main'[p] # "boot"
                        /\ main'[p] # "tell" => main[p] # "tell"
                        /\ main'[p] \in {"boot", "name"} => main[p] \in {"boot", "name"}
    BY <1>0, <1>4 DEF Handshake
  <2>3. UNCHANGED <<neighbors, members, name, joined, shaken, pinged, todo>>
    BY <1>4 DEF Handshake
  <2> QED
    BY <2>1, <2>2, <2>3 DEF PeerInv, InRooms
<1>5. ASSUME TellJoin(n) PROVE PeerInv'
  <2>1. \A p \in Peer : /\ main[p] # "boot" <=> main'[p] # "boot"
                        /\ main'[p] # "tell" => todo'[p] = {}
                        /\ main'[p] \in {"boot", "name"} => main[p] \in {"boot", "name"}
                        /\ todo'[p] \subseteq joined[p]
    <3>1. main' = [main EXCEPT ![n] = "prompt"] /\ main[n] = "tell"
          /\ todo' = [todo EXCEPT ![n] = {}]
      BY <1>5, TellsAll
    <3> QED
      BY <1>0, <3>1 DEF PeerInv
  <2>2. UNCHANGED <<neighbors, members, name, joined, shaken, pinged>>
    BY <1>5, TellsAll
  <2> QED
    BY <2>1, <2>2 DEF PeerInv, InRooms
<1> QED
  BY <1>1, <1>2, <1>3, <1>4, <1>5 DEF Stays

\* What a handler of m at n may add to the messages.
Sent(n, m, c) ==
  \/ c.body = m.body /\ c.dst = n /\ c.pc = "handle" /\ m.body \in seen'[n]
  \/ c.body = m.body /\ c.dst # m.body.src /\ c.pc = "in_flight"
  \/ /\ c.dst = m.body.src /\ c.pc = "in_flight" /\ m.body.kind = "ping"
     /\ \/ c.body = Says("pong", n, m.body.tag, {})
        \/ c.body = Says("sync", n, m.body.tag, members[n])

LEMMA CopyIs ==
  ASSUME NEW bodies, NEW to, NEW c \in Copies(bodies, to)
  PROVE  c.body \in bodies /\ c.dst \in to /\ c.pc = "in_flight"
BY DEF Copies

LEMMA HandlerSends ==
  ASSUME TypeInv, Stay, MsgsRight, NEW n \in Peer, NEW m \in msgs, HandlerStep(n, m),
         NEW c \in msgs', c \notin msgs
  PROVE  Sent(n, m, c)
<1>0. m.body \in Body /\ m \in Msg
  BY MsgTypes DEF TypeInv, TypeOK
<1>1. ASSUME First(n, m, Kinds), NEW bodies, NEW to,
             c \in GoOn(m, "handle") \union Copies(bodies, to)
      PROVE  \/ c.body = m.body /\ c.dst = n /\ c.pc = "handle" /\ m.body \in seen'[n]
             \/ c.body \in bodies /\ c.dst \in to /\ c.pc = "in_flight"
  <2>1. c = [m EXCEPT !.pc = "handle"] \/ c \in Copies(bodies, to)
    BY <1>1 DEF GoOn, Others
  <2>2. m.dst = n /\ m.body \in seen'[n]
    BY <1>1 DEF First, At, TypeInv, TypeOK
  <2> QED
    BY <1>0, <2>1, <2>2, CopyIs DEF Msg
<1>2. CASE Duplicate(n, m) \/ Shake(n, m) \/ MemberSync(n, m) \/ HandleJoin(n, m) \/ HandleLeave(n, m)
  BY <1>2 DEF Duplicate, Shake, MemberSync, HandleJoin, HandleLeave, Others
<1>3. CASE Pong(n, m)
  <2>1. First(n, m, Kinds) /\ m.body.kind = "ping"
    BY <1>3 DEF Pong, First, At, Kinds
  <2>2. c \in GoOn(m, "handle") \union Copies({Says("pong", n, m.body.tag, {})}, {m.body.src})
    BY <1>3 DEF Pong
  <2> QED
    BY <1>1, <2>1, <2>2 DEF Sent
<1>4. CASE Answer(n, m)
  <2>1. m.body.kind = "ping"
    BY <1>4 DEF Answer, At
  <2>2. \/ c \in Copies(MembersSent(n, m.body), {m.body.src})
        \/ c \in Copies({m.body}, neighbors[n] \ {m.body.src})
    BY <1>4 DEF Answer, Others
  <2>3. MembersSent(n, m.body) \subseteq {Says("sync", n, m.body.tag, members[n])}
    BY DEF MembersSent
  <2> QED
    BY <2>1, <2>2, <2>3, CopyIs DEF Sent
<1>5. CASE Relay(n, m)
  <2>1. First(n, m, Kinds)
    BY <1>5 DEF Relay, First, At, Kinds
  <2>2. c \in GoOn(m, "handle") \union Copies({m.body}, Learnt(n, m.body) \ {m.body.src})
    BY <1>5 DEF Relay
  <2> QED
    BY <1>1, <2>1, <2>2 DEF Sent
<1> QED
  BY <1>2, <1>3, <1>4, <1>5 DEF HandlerStep

LEMMA EntriesHandles ==
  ASSUME TypeInv, Stay, EntriesTrue, MsgsRight,
         NEW n \in Peer, NEW m \in msgs, HandlerStep(n, m)
  PROVE  EntriesTrue'
<1>1. Frame(n, m)
  BY HandlerFrames
<1>2. \A x : Entered(x)' <=> Entered(x)
  BY <1>1 DEF Frame, Entered, InRooms
<1>3. \A c \in msgs' : \A x \in c.body.users : Entered(x)
  <2> SUFFICES ASSUME NEW c \in msgs', c \notin msgs, NEW x \in c.body.users
               PROVE  Entered(x)
    BY DEF EntriesTrue
  <2>1. Sent(n, m, c)
    BY HandlerSends
  <2>2. x \in m.body.users \/ x \in members[n]
    BY <2>1 DEF Sent, Says
  <2> QED
    BY <2>2 DEF EntriesTrue
<1>4. \A p \in Peer : \A x \in members'[p] : Entered(x)
  <2>1. \A p \in Peer : members'[p] \subseteq members[p] \union m.body.users
    <3>1. CASE members' = members
      BY <3>1
    <3>2. CASE members' = [members EXCEPT ![n] = @ \union m.body.users]
      BY <3>2 DEF TypeInv, TypeOK
    <3>3. CASE HandleLeave(n, m)
      BY <3>3 DEF HandleLeave, At, MsgsRight
    <3> QED
      BY <3>1, <3>2, <3>3 DEF HandlerStep, Duplicate, Pong, Answer, Shake, MemberSync,
         Relay, HandleJoin
  <2> QED
    BY <2>1 DEF EntriesTrue
<1> QED
  BY <1>2, <1>3, <1>4 DEF EntriesTrue

\* What the main thread may add to the messages.
LEMMA MainSends ==
  ASSUME TypeInv, Stay, PeerInv, NEW n \in Peer, Stays(n), NEW c \in msgs', c \notin msgs
  PROVE  /\ c.dst # n /\ c.pc = "in_flight"
         /\ \/ \E x \in Peer : Ping(n, x) /\ c.body = Says("ping", n, <<n, x>>, {})
            \/ TellJoin(n) /\ \E r \in todo[n] : c.body = JoinBy(n, <<r, name[n]>>)
<1>1. ASSUME NEW x \in Peer, Ping(n, x)
      PROVE  c.dst # n /\ c.pc = "in_flight" /\ c.body = Says("ping", n, <<n, x>>, {})
  <2>1. c \in Copies({Says("ping", n, <<n, x>>, {})}, {x}) /\ x # n
    BY <1>1 DEF Ping
  <2> QED
    BY <2>1, CopyIs
<1>2. ASSUME TellJoin(n)
      PROVE  /\ c.dst # n /\ c.pc = "in_flight"
             /\ \E r \in todo[n] : c.body = JoinBy(n, <<r, name[n]>>)
  <2>1. c \in Copies(Tells("join", n, todo[n]), neighbors[n])
    BY <1>2, TellsAll
  <2>2. c.body \in Tells("join", n, todo[n]) /\ c.dst \in neighbors[n] /\ c.pc = "in_flight"
    BY <2>1, CopyIs
  <2> QED
    BY <2>2 DEF Tells, JoinBy, PeerInv
<1>3. ASSUME NEW u \in User, Name(n, u) PROVE FALSE
  BY <1>3 DEF Name
<1>4. ASSUME NEW r \in Room, Join(n, r) PROVE FALSE
  BY <1>4 DEF Join
<1>5. ~Handshake(n)
  BY DEF Handshake
<1> QED
  BY <1>1, <1>2, <1>3, <1>4, <1>5 DEF Stays

\* Entries and what is seen grow, and pings are counted.
LEMMA MainGrows ==
  ASSUME TypeInv, Stay, PeerInv, NEW n \in Peer, Stays(n)
  PROVE  /\ UNCHANGED <<seen, neighbors, shaken>> /\ msgs \subseteq msgs'
         /\ \A p \in Peer : /\ pinged[p] # {} => pinged'[p] # {}
                            /\ members[p] \subseteq members'[p]
                            /\ InRooms(p) \subseteq InRooms(p)'
<1>0. /\ members \in [Peer -> SUBSET (Room \X User)]
      /\ joined \in [Peer -> SUBSET Room] /\ name \in [Peer -> User \union {""}]
      /\ pinged \in [Peer -> SUBSET Peer]
  BY DEF TypeInv, TypeOK
<1>1. UNCHANGED <<seen, neighbors, shaken>> /\ msgs \subseteq msgs'
  <2>1. TellJoin(n) => UNCHANGED <<seen, neighbors, shaken>> /\ msgs \subseteq msgs'
    BY TellsAll
  <2> QED
    BY <2>1 DEF Stays, Ping, Name, Join, Handshake
<1>2. \A p \in Peer : pinged[p] # {} => pinged'[p] # {}
  <2>1. pinged' = pinged \/ \E x \in Peer : pinged' = [pinged EXCEPT ![n] = @ \union {x}]
    BY DEF Stays, Ping, Name, Join, Handshake, TellJoin
  <2> QED
    BY <1>0, <2>1
<1>3. \A p \in Peer : members[p] \subseteq members'[p]
  <2>1. \/ members' = members
        \/ \E r \in Room : members' = [members EXCEPT ![n] = @ \union {<<r, name[n]>>}]
    BY DEF Stays, Ping, Name, Join, Handshake, TellJoin
  <2> QED
    BY <1>0, <2>1
<1>4. \A p \in Peer : InRooms(p) \subseteq InRooms(p)'
  <2>1. ASSUME NEW u \in User, Name(n, u) PROVE \A p \in Peer : InRooms(p) \subseteq InRooms(p)'
    <3>1. joined[n] = {} /\ joined' = joined /\ name' = [name EXCEPT ![n] = u]
      BY <2>1 DEF Name, PeerInv
    <3> QED
      BY <1>0, <3>1 DEF InRooms
  <2>2. ASSUME NEW r \in Room, Join(n, r) PROVE \A p \in Peer : InRooms(p) \subseteq InRooms(p)'
    <3>1. joined' = [joined EXCEPT ![n] = @ \union {r}] /\ name' = name
      BY <2>2 DEF Join
    <3> QED
      BY <1>0, <3>1 DEF InRooms
  <2>3. (\E x \in Peer : Ping(n, x)) \/ Handshake(n) \/ TellJoin(n)
          => joined' = joined /\ name' = name
    BY DEF Ping, Handshake, TellJoin
  <2> QED
    BY <2>1, <2>2, <2>3 DEF InRooms, Stays
<1> QED
  BY <1>1, <1>2, <1>3, <1>4

LEMMA EntriesMains ==
  ASSUME TypeInv, Stay, PeerInv, EntriesTrue, NEW n \in Peer, Stays(n)
  PROVE  EntriesTrue'
<1>0. /\ members \in [Peer -> SUBSET (Room \X User)] /\ joined \in [Peer -> SUBSET Room]
  BY DEF TypeInv, TypeOK
<1>1. \A x : Entered(x) => Entered(x)'
  BY MainGrows DEF Entered
<1>2. \A c \in msgs' : \A x \in c.body.users : Entered(x)'
  <2> SUFFICES ASSUME NEW c \in msgs', c \notin msgs, NEW x \in c.body.users
               PROVE  Entered(x)
    BY <1>1 DEF EntriesTrue
  <2>1. PICK r \in todo[n] : c.body = JoinBy(n, <<r, name[n]>>)
    <3>1. \A y \in Peer : c.body # Says("ping", n, <<n, y>>, {})
      BY DEF Says
    <3> QED
      BY <3>1, MainSends
  <2>2. x = <<r, name[n]>> /\ r \in joined[n]
    BY <2>1 DEF JoinBy, Says, PeerInv
  <2> QED
    BY <2>2 DEF Entered, InRooms
<1>3. \A p \in Peer : \A x \in members'[p] : Entered(x)'
  <2>1. CASE members' = members
    BY <1>1, <2>1 DEF EntriesTrue
  <2>2. ASSUME NEW r \in Room, Join(n, r) PROVE <1>3
    <3>1. <<r, name[n]>> \in InRooms(n)'
      BY <1>0, <2>2 DEF Join, InRooms
    <3>2. \A p \in Peer : members'[p] \subseteq members[p] \union {<<r, name[n]>>}
      BY <1>0, <2>2 DEF Join
    <3> QED
      <4> SUFFICES ASSUME NEW p \in Peer, NEW x \in members'[p] PROVE Entered(x)'
        OBVIOUS
      <4>1. CASE x \in members[p]
        BY <4>1, <1>1 DEF EntriesTrue
      <4>2. CASE x = <<r, name[n]>>
        BY <4>2, <3>1 DEF Entered
      <4> QED
        BY <4>1, <4>2, <3>2
  <2>3. (\A r \in Room : ~Join(n, r)) => members' = members
    BY DEF Stays, Ping, Name, Handshake, TellJoin
  <2> QED
    BY <2>1, <2>2, <2>3
<1> QED
  BY <1>2, <1>3 DEF EntriesTrue

\* Who sees a flooded message handles it; a ping tells of its originator.
LEMMA NewlySeen ==
  ASSUME TypeInv, Stay, MsgsRight, NEW n \in Peer, NEW m \in msgs, HandlerStep(n, m),
         NEW p \in Peer, NEW b \in seen'[p], b \notin seen[p]
  PROVE  /\ p = n /\ b = m.body /\ m.dst = n /\ m.pc = "in_flight"
         /\ \/ b.kind = "ping" /\ b.src \in neighbors'[n] /\ Pong(n, m)
            \/ b.kind = "join" /\ Relay(n, m)
<1>1. p = n /\ b = m.body
  BY HandlerFrames DEF Frame
<1>2. Pong(n, m) \/ Relay(n, m)
  BY DEF HandlerStep, Duplicate, Answer, Shake, MemberSync, HandleJoin, HandleLeave
<1>3. CASE Pong(n, m)
  <2>1. m.dst = n /\ m.body.src # n /\ m.body.kind = "ping" /\ m.pc = "in_flight"
    BY <1>3 DEF Pong, First, At, MsgsRight
  <2>2. m.body.src \in neighbors'[n]
    BY <1>3, <2>1, NoneGone DEF Pong, Learnt, TypeInv, TypeOK
  <2> QED
    BY <1>1, <1>3, <2>1, <2>2
<1>4. CASE Relay(n, m)
  BY <1>1, <1>4 DEF Relay, First, At, MsgsRight
<1> QED
  BY <1>2, <1>3, <1>4

LEMMA MsgsHandles ==
  ASSUME TypeInv, Stay, MsgsRight, NEW n \in Peer, NEW m \in msgs, HandlerStep(n, m)
  PROVE  MsgsRight'
<1>1. Frame(n, m)
  BY HandlerFrames
<1>2. ASSUME NEW c \in msgs'
      PROVE  /\ c.body.src # c.dst /\ c.body.kind # "leave"
             /\ c.body.kind = "ping" => Starter(c.body.src) /\ pinged[c.body.src] # {}
             /\ c.body.kind = "pong" => pinged[c.dst] # {}
             /\ c.pc = "handle" => c.body \in seen'[c.dst]
  <2>1. CASE c \in msgs
    <3>1. c.dst \in Peer
      BY <2>1, MsgTypes DEF TypeInv, TypeOK
    <3> QED
      BY <1>1, <2>1, <3>1 DEF MsgsRight, Frame
  <2>2. CASE c \notin msgs
    <3>1. Sent(n, m, c)
      BY <2>2, HandlerSends
    <3>2. m.dst = n /\ m.body.src # n
      BY <1>1 DEF Frame, MsgsRight
    <3>3. CASE c.body = m.body /\ c.dst = n /\ c.pc = "handle" /\ m.body \in seen'[n]
      <4>1. c.body.kind # "pong"
        <5>1. m.body \in seen[n] \/ m.body.kind \in {"ping", "join"}
          BY <3>3, NewlySeen
        <5> QED
          BY <5>1, <3>3 DEF MsgsRight
      <4> QED
        BY <3>2, <3>3, <4>1 DEF MsgsRight
    <3>4. CASE c.body = m.body /\ c.dst # m.body.src /\ c.pc = "in_flight"
      <4>1. c.body.kind # "pong"
        <5>1. ASSUME m.body.kind = "pong" PROVE FALSE
          <6>1. msgs' = msgs \ {m} \/ Answer(n, m) \/ Pong(n, m) \/ Relay(n, m)
            BY DEF HandlerStep, Duplicate, Shake, MemberSync, HandleJoin, HandleLeave, Others
          <6>2. ~(Answer(n, m) \/ Pong(n, m) \/ Relay(n, m))
            BY <5>1 DEF Answer, Pong, Relay, First, At
          <6> QED
            BY <6>1, <6>2, <2>2
        <5> QED
          BY <5>1, <3>4
      <4> QED
        BY <3>4, <4>1 DEF MsgsRight
    <3>5. CASE /\ c.dst = m.body.src /\ c.pc = "in_flight" /\ m.body.kind = "ping"
               /\ \/ c.body = Says("pong", n, m.body.tag, {})
                  \/ c.body = Says("sync", n, m.body.tag, members[n])
      <4>1. c.body.src = n /\ c.body.kind \in {"pong", "sync"}
        BY <3>5 DEF Says
      <4>2. pinged[c.dst] # {}
        BY <3>5 DEF MsgsRight
      <4> QED
        BY <3>2, <3>5, <4>1, <4>2
    <3> QED
      BY <3>1, <3>3, <3>4, <3>5 DEF Sent
  <2> QED
    BY <2>1, <2>2
<1>3. ASSUME NEW p \in Peer, NEW b \in seen'[p]
      PROVE  /\ b.kind \in {"ping", "join"}
             /\ b.kind = "ping" => b.src \in neighbors'[p] /\ pinged[b.src] # {}
  <2>1. CASE b \in seen[p]
    BY <1>1, <2>1 DEF MsgsRight, Frame
  <2>2. CASE b \notin seen[p]
    BY <2>2, NewlySeen DEF MsgsRight
  <2> QED
    BY <2>1, <2>2
<1>4. pinged' = pinged
  BY <1>1 DEF Frame
<1> QED
  BY <1>2, <1>3, <1>4 DEF MsgsRight, Starter

LEMMA MsgsMains ==
  ASSUME TypeInv, Stay, PeerInv, EntriesTrue, MsgsRight, NEW n \in Peer, Stays(n)
  PROVE  MsgsRight'
<1>1. /\ UNCHANGED <<seen, neighbors>> /\ msgs \subseteq msgs'
      /\ \A p \in Peer : pinged[p] # {} => pinged'[p] # {}
  BY MainGrows
<1>2. ASSUME NEW c \in msgs'
      PROVE  /\ c.body.src # c.dst /\ c.body.kind # "leave"
             /\ c.body.kind = "ping" => Starter(c.body.src) /\ pinged'[c.body.src] # {}
             /\ c.body.kind = "pong" => pinged'[c.dst] # {}
             /\ c.pc = "handle" => c.body \in seen'[c.dst]
  <2>1. CASE c \in msgs
    <3>1. c.dst \in Peer /\ c.body.src \in Peer
      BY <2>1, MsgTypes DEF TypeInv, TypeOK
    <3> QED
      BY <1>1, <2>1, <3>1 DEF MsgsRight
  <2>2. CASE c \notin msgs
    <3>1. ASSUME NEW x \in Peer, Ping(n, x), c.body = Says("ping", n, <<n, x>>, {})
          PROVE  c.body.kind = "ping" /\ c.body.src = n /\ Starter(n) /\ pinged'[n] # {}
      <4>1. c.body.kind = "ping" /\ c.body.src = n
        BY <3>1 DEF Says
      <4>2. Starter(n) /\ pinged'[n] # {}
        BY <3>1 DEF Ping, PeerInv, Starter, TypeInv, TypeOK
      <4> QED
        BY <4>1, <4>2
    <3>2. ASSUME NEW r \in todo[n], c.body = JoinBy(n, <<r, name[n]>>)
          PROVE  c.body.kind = "join" /\ c.body.src = n
      BY <3>2 DEF JoinBy, Says
    <3> QED
      BY <2>2, <3>1, <3>2, MainSends
  <2> QED
    BY <2>1, <2>2
<1>3. \A p \in Peer : \A b \in seen[p] :
        b.kind = "ping" => b.src \in Peer /\ pinged'[b.src] # {}
  <2>1. \A p \in Peer : \A b \in seen[p] : b.src \in Peer
    <3>1. seen \in [Peer -> SUBSET Body]
      BY DEF TypeInv, TypeOK
    <3>2. \A b \in Body : b.src \in Peer
      BY DEF Body
    <3> QED
      BY <3>1, <3>2
  <2> QED
    BY <1>1, <2>1 DEF MsgsRight
<1> QED
  BY <1>1, <1>2, <1>3 DEF MsgsRight, Starter

LEMMA JoinsHandles ==
  ASSUME TypeInv, Stay, MsgsRight, JoinsSeen,
         NEW n \in Peer, NEW m \in msgs, HandlerStep(n, m)
  PROVE  JoinsSeen'
<1>1. Frame(n, m)
  BY HandlerFrames
<1>2. ASSUME NEW p \in Peer, NEW b \in seen'[p], b.kind = "join"
      PROVE  \/ b.users \subseteq members'[p]
             \/ \E c \in msgs' : c.dst = p /\ c.pc = "handle" /\ c.body = b
  <2>1. CASE b \in seen[p] /\ b.users \subseteq members[p]
    BY <1>1, <2>1 DEF Frame
  <2>2. ASSUME NEW c \in msgs, c.dst = p, c.pc = "handle", c.body = b
        PROVE  \/ b.users \subseteq members'[p]
               \/ \E k \in msgs' : k.dst = p /\ k.pc = "handle" /\ k.body = b
    <3>1. CASE c \in msgs'
      BY <2>2, <3>1
    <3>2. CASE c = m
      <4>1. p = n
        BY <2>2, <3>2, <1>1 DEF Frame
      <4>2. HandleJoin(n, m)
        BY <1>2, <2>2, <3>2 DEF HandlerStep, Duplicate, Pong, Answer, Shake, MemberSync,
           Relay, HandleLeave, First, At
      <4>3. b.users \subseteq members'[n]
        BY <2>2, <3>2, <4>2 DEF HandleJoin, TypeInv, TypeOK
      <4> QED
        BY <4>1, <4>3
    <3> QED
      BY <1>1, <3>1, <3>2 DEF Frame
  <2>3. CASE b \notin seen[p]
    <3>1. p = n /\ b = m.body /\ m.dst = n /\ Relay(n, m)
      BY <1>2, <2>3, NewlySeen
    <3>2. [m EXCEPT !.pc = "handle"] \in msgs'
      BY <3>1 DEF Relay, GoOn
    <3>3. m \in Msg
      BY DEF TypeInv, TypeOK
    <3> QED
      BY <3>1, <3>2, <3>3 DEF Msg
  <2> QED
    BY <1>2, <2>1, <2>2, <2>3 DEF JoinsSeen
<1>3. ASSUME NEW q \in Peer, NEW x \in InRooms(q), x[1] \in todo[q]
      PROVE  /\ \A p \in Peer : JoinBy(q, x) \notin seen'[p]
             /\ \A c \in msgs' : c.body # JoinBy(q, x)
  <2>1. \A c \in msgs : c.body # JoinBy(q, x)
    BY <1>3 DEF JoinsSeen
  <2>2. \A p \in Peer : JoinBy(q, x) \notin seen'[p]
    BY <1>1, <1>3, <2>1 DEF JoinsSeen, Frame
  <2>3. ASSUME NEW c \in msgs', c \notin msgs, c.body = JoinBy(q, x) PROVE FALSE
    <3>1. c.body.kind = "join"
      BY <2>3 DEF JoinBy, Says
    <3>2. Sent(n, m, c)
      BY <2>3, HandlerSends
    <3> QED
      BY <2>1, <2>3, <3>1, <3>2 DEF Sent, Says
  <2> QED
    BY <2>1, <2>2, <2>3
<1>4. \A q \in Peer : InRooms(q)' = InRooms(q) /\ todo'[q] = todo[q]
  BY <1>1 DEF Frame, InRooms
<1> QED
  BY <1>2, <1>3, <1>4 DEF JoinsSeen, JoinBy

\* Steps of the main thread but Join.
LEMMA OnlyJoin ==
  ASSUME TypeInv, Stay, PeerInv, NEW n \in Peer, Stays(n), \A r \in Room : ~Join(n, r),
         NEW q \in Peer
  PROVE  /\ InRooms(q)' = InRooms(q) /\ members' = members /\ todo'[q] \subseteq todo[q]
         /\ q # n \/ ~TellJoin(n) => todo'[q] = todo[q]
         /\ q = n /\ TellJoin(n) => todo'[q] = {}
<1>0. /\ joined \in [Peer -> SUBSET Room] /\ name \in [Peer -> User \union {""}]
      /\ todo \in [Peer -> SUBSET Room]
  BY DEF TypeInv, TypeOK
<1>1. members' = members /\ joined' = joined
  BY DEF Stays, Ping, Name, Handshake, TellJoin
<1>2. ASSUME NEW u \in User, Name(n, u) PROVE InRooms(q)' = InRooms(q)
  <2>1. joined[n] = {} /\ name' = [name EXCEPT ![n] = u]
    BY <1>2 DEF Name, PeerInv
  <2> QED
    BY <1>0, <1>1, <2>1 DEF InRooms
<1>3. (\A u \in User : ~Name(n, u)) => name' = name
  BY DEF Stays, Ping, Handshake, TellJoin
<1>4. TellJoin(n) => todo' = [todo EXCEPT ![n] = {}]
  BY DEF TellJoin
<1>5. ~TellJoin(n) => todo' = todo
  BY DEF Stays, Ping, Handshake, Name
<1> QED
  BY <1>0, <1>1, <1>2, <1>3, <1>4, <1>5 DEF InRooms

\* An entry that is new to its own user is in nobody's list and in no message.
LEMMA EntryNew ==
  ASSUME TypeInv, Hypotheses, PeerInv, EntriesTrue, JoinsSeen, MsgsRight,
         NEW n \in Peer, main[n] \notin {"boot", "name"}, NEW r \in Room,
         <<r, name[n]>> \notin members[n]
  PROVE  /\ r \notin joined[n]
         /\ \A p \in Peer : JoinBy(n, <<r, name[n]>>) \notin seen[p]
         /\ \A m \in msgs : m.body # JoinBy(n, <<r, name[n]>>)
<1> DEFINE x == <<r, name[n]>>
<1>1. r \notin joined[n]
  BY DEF PeerInv, InRooms
<1>2. ~Entered(x)
  BY <1>1, EnteredOwn
<1>3. JoinBy(n, x).kind = "join" /\ x \in JoinBy(n, x).users
  BY DEF JoinBy, Says
<1>4. \A m \in msgs : m.body # JoinBy(n, x)
  BY <1>2, <1>3 DEF EntriesTrue
<1>5. \A p \in Peer : JoinBy(n, x) \notin seen[p]
  BY <1>2, <1>3, <1>4 DEF EntriesTrue, JoinsSeen
<1> QED
  BY <1>1, <1>4, <1>5

LEMMA JoinsMains ==
  ASSUME TypeInv, Hypotheses, Stay, PeerInv, EntriesTrue, MsgsRight, JoinsSeen,
         NEW n \in Peer, Stays(n)
  PROVE  JoinsSeen'
<1>0. joined \in [Peer -> SUBSET Room] /\ todo \in [Peer -> SUBSET Room]
  BY DEF TypeInv, TypeOK
<1>1. /\ seen' = seen /\ msgs \subseteq msgs'
      /\ \A p \in Peer : members[p] \subseteq members'[p]
  BY MainGrows
<1>2. \A p \in Peer : \A b \in seen'[p] : b.kind = "join" =>
        \/ b.users \subseteq members'[p]
        \/ \E c \in msgs' : c.dst = p /\ c.pc = "handle" /\ c.body = b
  BY <1>1 DEF JoinsSeen
<1> SUFFICES ASSUME NEW q \in Peer, NEW x \in InRooms(q)', x[1] \in todo'[q]
             PROVE  /\ \A p \in Peer : JoinBy(q, x) \notin seen[p]
                    /\ \A c \in msgs' : c.body # JoinBy(q, x)
  BY <1>1, <1>2 DEF JoinsSeen, JoinBy
<1>3. ASSUME \A r \in Room : ~Join(n, r)
      PROVE  /\ \A p \in Peer : JoinBy(q, x) \notin seen[p]
             /\ \A c \in msgs' : c.body # JoinBy(q, x)
  <2>1. x \in InRooms(q) /\ x[1] \in todo[q] /\ ~(q = n /\ TellJoin(n))
    BY <1>3, OnlyJoin
  <2>2. ASSUME NEW c \in msgs', c \notin msgs, c.body = JoinBy(q, x) PROVE FALSE
    <3>1. c.body.kind = "join" /\ c.body.src = q
      BY <2>2 DEF JoinBy, Says
    <3>2. \A y \in Peer : c.body # Says("ping", n, <<n, y>>, {})
      BY <3>1 DEF Says
    <3>3. TellJoin(n) /\ \E r \in todo[n] : c.body = JoinBy(n, <<r, name[n]>>)
      BY <2>2, <3>2, MainSends
    <3>4. c.body.src = n
      BY <3>3 DEF JoinBy, Says
    <3> QED
      BY <2>1, <3>1, <3>3, <3>4
  <2> QED
    BY <2>1, <2>2 DEF JoinsSeen
<1>4. ASSUME NEW r \in Room, Join(n, r)
      PROVE  /\ \A p \in Peer : JoinBy(q, x) \notin seen[p]
             /\ \A c \in msgs' : c.body # JoinBy(q, x)
  <2>1. /\ joined' = [joined EXCEPT ![n] = @ \union {r}] /\ name' = name /\ msgs' = msgs
        /\ todo' = [todo EXCEPT ![n] = IF <<r, name[n]>> \in members[n] THEN {} ELSE {r}]
        /\ main[n] \notin {"boot", "name"}
    BY <1>4 DEF Join, EntersRoom
  <2>2. CASE q # n
    <3>1. x \in InRooms(q) /\ x[1] \in todo[q]
      BY <1>0, <2>1, <2>2 DEF InRooms
    <3> QED
      BY <2>1, <3>1 DEF JoinsSeen
  <2>3. CASE q = n
    <3>1. x[1] = r /\ <<r, name[n]>> \notin members[n]
      BY <1>0, <2>1, <2>3
    <3>2. x = <<r, name[n]>>
      BY <2>1, <2>3, <3>1 DEF InRooms
    <3> QED
      BY <2>1, <2>3, <3>1, <3>2, EntryNew
  <2> QED
    BY <2>2, <2>3
<1> QED
  BY <1>3, <1>4
-----------------------------------------------------------------------------
(* What is on its way arrives: the handlers. *)

\* The entries of a message get into the list.
LEMMA EntryArrives ==
  ASSUME TypeInv, Stay, MsgsRight, JoinsSeen,
         NEW n \in Peer, NEW m \in msgs, HandlerStep(n, m),
         m.body.kind \in {"join", "sync"}, NEW x \in m.body.users
  PROVE  Has(n, x)'
<1>0. m \in Msg /\ Frame(n, m)
  BY HandlerFrames DEF TypeInv, TypeOK
<1>1. CASE Duplicate(n, m)
  <2>1. m.dst = n /\ m.pc = "in_flight" /\ m.body \in seen[n] /\ m.body.kind = "join"
    BY <1>1 DEF Duplicate, At, MsgsRight
  <2>2. \/ m.body.users \subseteq members[n]
        \/ \E c \in msgs : c.dst = n /\ c.pc = "handle" /\ c.body = m.body
    BY <2>1 DEF JoinsSeen
  <2>3. ASSUME NEW c \in msgs, c.dst = n, c.pc = "handle", c.body = m.body
        PROVE  c \in msgs'
    BY <2>1, <2>3, <1>0 DEF Frame
  <2> QED
    BY <2>1, <2>2, <2>3, <1>0 DEF Has, Frame
<1>2. CASE Relay(n, m)
  <2>1. [m EXCEPT !.pc = "handle"] \in msgs' /\ m.dst = n
    BY <1>2 DEF Relay, First, At, GoOn
  <2> QED
    BY <2>1, <1>0 DEF Has, Msg
<1>3. CASE MemberSync(n, m) \/ HandleJoin(n, m)
  <2>1. members' = [members EXCEPT ![n] = @ \union m.body.users]
    BY <1>3 DEF MemberSync, HandleJoin
  <2>2. members'[n] = members[n] \union m.body.users
    BY <2>1 DEF TypeInv, TypeOK
  <2> QED
    BY <2>2 DEF Has
<1>4. ~(Pong(n, m) \/ Answer(n, m) \/ Shake(n, m) \/ HandleLeave(n, m))
  BY DEF Pong, Answer, Shake, HandleLeave, First, At
<1> QED
  BY <1>1, <1>2, <1>3, <1>4 DEF HandlerStep

LEMMA HasOn ==
  ASSUME TypeInv, Stay, MsgsRight, JoinsSeen,
         NEW n \in Peer, NEW m \in msgs, HandlerStep(n, m),
         NEW p \in Peer, NEW x, Has(p, x)
  PROVE  Has(p, x)'
<1>1. Frame(n, m)
  BY HandlerFrames
<1>2. CASE x \in members[p]
  BY <1>1, <1>2 DEF Frame, Has
<1>3. ASSUME NEW k \in msgs, k.dst = p, k.body.kind \in {"join", "sync"}, x \in k.body.users
      PROVE  Has(p, x)'
  <2>1. CASE k = m
    BY <1>1, <1>3, <2>1, EntryArrives DEF Frame
  <2>2. CASE k # m
    BY <1>1, <1>3, <2>2 DEF Frame, Has
  <2> QED
    BY <2>1, <2>2
<1> QED
  BY <1>2, <1>3 DEF Has

LEMMA TellOn ==
  ASSUME NEW n \in Peer, NEW m \in msgs, Frame(n, m),
         NEW p \in Peer, NEW q \in Peer, NEW x, Tell(p, q, x)
  PROVE  Tell(p, q, x)'
BY DEF Tell, Frame

\* An established peer passes the join on to all the others.
LEMMA PassedOn ==
  ASSUME TypeInv, Hypotheses, Stay, PeerInv, NEW n \in Established, NEW m \in msgs, HandlerStep(n, m),
         m.body.kind = "join", m.body \notin seen[n], m.pc = "in_flight",
         NEW p \in Established, p # n, p # m.body.src, NEW x \in m.body.users
  PROVE  Has(p, x)'
<1>1. Relay(n, m)
  BY DEF HandlerStep, Duplicate, Pong, Answer, Shake, MemberSync, HandleJoin, HandleLeave,
     First, At
<1>2. p \in Peer /\ n \in Peer
  BY DEF Hypotheses, MembershipAssumption
<1>3. p \in neighbors[n]
  BY <1>2 DEF PeerInv, Starter
<1>4. [body |-> m.body, dst |-> p, pc |-> "in_flight"] \in msgs'
  BY <1>1, <1>3, <1>2, NoneGone DEF Relay, Copies, Learnt
<1> QED
  BY <1>4 DEF Has

LEMMA OverOn ==
  ASSUME TypeInv, Hypotheses, Stay, PeerInv, MsgsRight, JoinsSeen,
         NEW n \in Peer, NEW m \in msgs, HandlerStep(n, m),
         NEW p \in Peer, NEW q \in Peer, p # q, NEW x, Over(p, q, x)
  PROVE  Over(p, q, x)' \/ Has(p, x)'
<1>1. Frame(n, m)
  BY HandlerFrames
<1>2. CASE x[1] \in todo[q] /\ Established \intersect neighbors[q] # {}
  BY <1>1, <1>2 DEF Over, Frame, Starter
<1>3. ASSUME NEW k \in msgs, k.dst \in Established, k.pc = "in_flight",
             k.body = JoinBy(q, x), k.body \notin seen[k.dst]
      PROVE  Over(p, q, x)' \/ Has(p, x)'
  <2>1. k.dst \in Peer /\ k.body.kind = "join" /\ k.body.src = q /\ x \in k.body.users
    <3>1. k.dst \in Peer
      BY <1>3 DEF Hypotheses, MembershipAssumption
    <3> QED
      BY <1>3, <3>1 DEF JoinBy, Says
  <2>2. CASE k.dst = n /\ k.body = m.body
    <3>1. m.dst = n /\ m.pc = "in_flight"
      <4>1. m \in Msg
        BY DEF TypeInv, TypeOK
      <4>2. m.dst = n /\ m.body \notin seen[n]
        BY <1>1, <1>3, <2>2 DEF Frame
      <4> QED
        BY <4>1, <4>2 DEF MsgsRight, Msg
    <3>2. CASE p = n
      BY <2>1, <2>2, <3>2, EntryArrives
    <3>3. CASE p # n
      <4>1. p \in Established /\ n \in Established
        BY <1>3, <2>2 DEF Over, Starter
      <4> QED
        BY <1>3, <2>1, <2>2, <3>1, <3>3, <4>1, PassedOn
    <3> QED
      BY <3>2, <3>3
  <2>3. CASE ~(k.dst = n /\ k.body = m.body)
    <3>1. k \in msgs'
      BY <1>1, <2>3 DEF Frame
    <3>2. k.body \notin seen'[k.dst]
      BY <1>1, <1>3, <2>1, <2>3 DEF Frame
    <3>3. Starter(q) /\ ~Starter(p)
      BY DEF Over
    <3> QED
      BY <1>3, <3>1, <3>2, <3>3 DEF Over, Starter
  <2> QED
    BY <2>2, <2>3
<1> QED
  BY <1>2, <1>3 DEF Over

\* A ping stays on its way until it is answered.
LEMMA AnsweringOn ==
  ASSUME TypeInv, Stay, MsgsRight, NEW n \in Peer, NEW m \in msgs, HandlerStep(n, m),
         NEW p \in Peer, NEW q \in Peer, ~Answer(n, m) \/ q # n \/ p # m.body.src,
         Answering(q, p)
  PROVE  Answering(q, p)'
<1>1. Frame(n, m)
  BY HandlerFrames
<1>2. PICK k \in msgs : k.dst = q /\ k.body.kind = "ping" /\ k.body.src = p /\ k.pc = "handle"
  BY DEF Answering
<1>3. k # m
  <2>1. SUFFICES ASSUME k = m PROVE FALSE
    OBVIOUS
  <2>2. Answer(n, m)
    BY <1>2, <2>1 DEF HandlerStep, Duplicate, Pong, Shake, MemberSync, Relay, HandleJoin,
       HandleLeave, First, At
  <2> QED
    BY <1>1, <1>2, <2>1, <2>2 DEF Frame
<1> QED
  BY <1>1, <1>2, <1>3 DEF Frame, Answering

LEMMA PingForOn ==
  ASSUME TypeInv, Stay, MsgsRight, NEW n \in Peer, NEW m \in msgs, HandlerStep(n, m),
         NEW p \in Peer, NEW q \in Peer, ~Answer(n, m) \/ q # n \/ p # m.body.src,
         PingFor(q, p)
  PROVE  PingFor(q, p)'
<1>1. Frame(n, m) /\ m \in Msg
  BY HandlerFrames DEF TypeInv, TypeOK
<1>2. PICK k \in msgs : /\ k.dst = q /\ k.body.kind = "ping" /\ k.body.src = p
                        /\ k.pc = "handle" \/ k.body \notin seen[q]
  BY DEF PingFor
<1>3. CASE k.pc = "handle"
  <2>1. Answering(q, p)
    BY <1>2, <1>3 DEF Answering
  <2> QED
    BY <2>1, AnsweringOn DEF Answering, PingFor
<1>4. CASE k.pc # "handle" /\ k.dst = n /\ k.body = m.body
  <2>1. m.dst = n /\ m.body \notin seen[n] /\ m.body.kind = "ping" /\ m.pc # "handle"
    BY <1>1, <1>2, <1>4 DEF Frame, MsgsRight
  <2>2. Pong(n, m)
    BY <2>1 DEF HandlerStep, Duplicate, Answer, Shake, MemberSync, Relay, HandleJoin,
       HandleLeave, First, At
  <2>3. [m EXCEPT !.pc = "handle"] \in msgs'
    BY <2>2 DEF Pong, GoOn
  <2> QED
    BY <1>1, <1>2, <1>4, <2>1, <2>3 DEF PingFor, Msg
<1>5. CASE k.pc # "handle" /\ ~(k.dst = n /\ k.body = m.body)
  <2>1. k \in msgs' /\ k.body \notin seen'[q]
    BY <1>1, <1>2, <1>5 DEF Frame
  <2> QED
    BY <1>2, <2>1 DEF PingFor
<1> QED
  BY <1>3, <1>4, <1>5

\* The answer: what the handler has in its list, and the ping for the others.
LEMMA Answered ==
  ASSUME TypeInv, Hypotheses, Stay, PeerInv, MsgsRight,
         NEW n \in Peer, NEW m \in msgs, Answer(n, m)
  PROVE  /\ Starter(m.body.src) /\ m.body.src # n /\ m.body.src \in neighbors[n]
         /\ \A x \in InRooms(n) : Has(m.body.src, x)'
         /\ \A q \in Peer \ {n, m.body.src} :
              \E c \in msgs' : c.dst = q /\ c.pc = "in_flight" /\ c.body = m.body
<1>1. m.dst = n /\ m.pc = "handle" /\ m.body.kind = "ping"
  BY DEF Answer, At
<1>2. Starter(m.body.src) /\ m.body.src # n /\ m.body.src \in neighbors[n]
  BY <1>1 DEF MsgsRight
<1>3. Gone = {}
  BY NoneGone
<1>4. ASSUME NEW x \in InRooms(n) PROVE Has(m.body.src, x)'
  <2>1. x \in members[n]
    BY <1>4 DEF PeerInv
  <2> DEFINE c == [body |-> Says("sync", n, m.body.tag, members[n]), dst |-> m.body.src,
                   pc |-> "in_flight"]
  <2>2. c \in msgs'
    <3>1. Says("sync", n, m.body.tag, members[n]) \in MembersSent(n, m.body)
      BY <2>1 DEF MembersSent
    <3>2. c \in Copies(MembersSent(n, m.body), {m.body.src})
      BY <3>1, <1>3 DEF Copies
    <3> QED
      BY <3>2 DEF Answer
  <2>3. c.dst = m.body.src /\ c.body.kind = "sync" /\ x \in c.body.users
    BY <2>1 DEF Says
  <2> QED
    BY <2>2, <2>3 DEF Has
<1>5. ASSUME NEW q \in Peer \ {n, m.body.src}
      PROVE  \E c \in msgs' : c.dst = q /\ c.pc = "in_flight" /\ c.body = m.body
  <2>1. n \in Established /\ q \in Established
    BY <1>2, <1>5 DEF Starter, Hypotheses, OneStarts
  <2>2. q \in neighbors[n] \ {m.body.src}
    BY <1>5, <2>1 DEF PeerInv, Starter
  <2>3. [body |-> m.body, dst |-> q, pc |-> "in_flight"] \in msgs'
    BY <1>3, <2>2 DEF Answer, Copies
  <2> QED
    BY <2>3
<1> QED
  BY <1>2, <1>4, <1>5

LEMMA ReachesHandles ==
  ASSUME TypeInv, Hypotheses, Stay, AgreeParts,
         NEW n \in Peer, NEW m \in msgs, HandlerStep(n, m)
  PROVE  Reaches'
<1> USE DEF AgreeParts
<1>1. Frame(n, m)
  BY HandlerFrames
<1>2. \A q \in Peer : InRooms(q)' = InRooms(q) /\ neighbors[q] \subseteq neighbors'[q]
  BY <1>1 DEF Frame, InRooms
<1> SUFFICES ASSUME NEW p \in Peer, NEW q \in Peer, p # q
             PROVE  ListReaches(p, q)' /\ PingReaches(p, q)' /\ AnswerReaches(p, q)'
  BY DEF Reaches
<1>3. ListReaches(p, q) /\ PingReaches(p, q) /\ AnswerReaches(p, q)
  BY DEF Reaches
\* What is not lost.
<1>4. ASSUME NEW x PROVE /\ Has(p, x) => Has(p, x)'
                         /\ Tell(p, q, x) => Tell(p, q, x)'
                         /\ Over(p, q, x) => Over(p, q, x)' \/ Has(p, x)'
  BY <1>1, HasOn, TellOn, OverOn
<1> DEFINE Mine == Answer(n, m) /\ p = m.body.src
<1>5. Answering(q, p) => Answering(q, p)' \/ (Mine /\ q = n)
  BY AnsweringOn
<1>6. \A b \in seen'[q] : b \in seen[q] \/ (b = m.body /\ q = n /\ ~Answer(n, m))
  <2>1. Answer(n, m) => seen' = seen
    BY DEF Answer
  <2> QED
    BY <1>1, <2>1 DEF Frame
\* q still is to get the ping, or has answered, or has just been passed it.
<1>7. ASSUME Starter(p), PingOn(q, p)
      PROVE  \/ PingOn(q, p)'
             \/ Mine /\ q = n
             \/ Mine /\ q # n /\ m.body \in seen[q]
  <2>1. CASE main[p] = "boot" /\ pinged[p] = {}
    BY <1>1, <2>1 DEF Frame, PingOn
  <2>2. CASE PingFor(q, p)
    <3>1. PingFor(q, p)' \/ (Mine /\ q = n)
      BY <2>2, PingForOn
    <3> QED
      BY <3>1 DEF PingOn
  <2>3. ASSUME NEW e \in Established \ {q}, PingFor(e, p)
        PROVE  PingOn(q, p)' \/ (Mine /\ q = n) \/ (Mine /\ q # n /\ m.body \in seen[q])
    <3>1. e \in Peer
      BY DEF Hypotheses, MembershipAssumption
    <3>2. CASE PingFor(e, p)'
      BY <3>2 DEF PingOn
    <3>3. CASE Mine /\ e = n /\ m.body \notin seen[q]
      <4>1. PICK c \in msgs' : c.dst = q /\ c.pc = "in_flight" /\ c.body = m.body
        BY <3>3, Answered
      <4>2. m.body.kind = "ping" /\ m.body \notin seen'[q]
        BY <1>6, <3>3 DEF Answer, At
      <4>3. PingFor(q, p)'
        BY <3>3, <4>1, <4>2 DEF PingFor
      <4> QED
        BY <4>3 DEF PingOn
    <3>4. PingFor(e, p)' \/ (Mine /\ e = n)
      BY <2>3, <3>1, PingForOn
    <3> QED
      BY <3>2, <3>3, <3>4
  <2> QED
    BY <1>7, <2>1, <2>2, <2>3 DEF PingOn
<1>8. ASSUME Mine, q # n, m.body \in seen[q], Starter(p)
      PROVE  /\ p \in neighbors[q]
             /\ \A x \in InRooms(q) : Has(p, x) \/ Tell(p, q, x) \/ Answering(q, p)
  <2>1. m.body.kind = "ping"
    BY <1>8 DEF Answer, At
  <2> QED
    BY <1>3, <1>8, <2>1 DEF AnswerReaches, MsgsRight
<1>9. ASSUME Mine PROVE Starter(p) /\ p # n /\ p \in neighbors[n] /\ \A x \in InRooms(n) : Has(p, x)'
  BY <1>9, Answered
<1>10. Answering(q, p)' => PingOn(q, p)'
  BY DEF Answering, PingFor, PingOn
<1>11. ListReaches(p, q)'
  <2> SUFFICES ASSUME NEW x \in InRooms(q)
               PROVE  \/ Has(p, x)' \/ Tell(p, q, x)' \/ Over(p, q, x)'
                      \/ Starter(p) /\ PingOn(q, p)'
    BY <1>2 DEF ListReaches, Starter
  <2>1. CASE Has(p, x) \/ Tell(p, q, x) \/ Over(p, q, x)
    BY <1>4, <2>1
  <2>2. CASE Starter(p) /\ PingOn(q, p)
    <3>1. CASE Mine /\ q = n
      BY <1>9, <3>1
    <3>2. CASE Mine /\ q # n /\ m.body \in seen[q]
      BY <1>4, <1>5, <1>8, <1>10, <2>2, <3>2
    <3> QED
      BY <1>7, <2>2, <3>1, <3>2
  <2> QED
    BY <1>3, <2>1, <2>2 DEF ListReaches
<1>12. PingReaches(p, q)'
  <2>1. ASSUME Starter(p) PROVE p \in neighbors'[q] \/ PingOn(q, p)'
    BY <1>2, <1>3, <1>7, <1>8, <1>9, <2>1 DEF PingReaches
  <2> QED
    BY <2>1 DEF PingReaches, Starter
<1>13. AnswerReaches(p, q)'
  <2> SUFFICES ASSUME Starter(p), NEW b \in seen'[q], b.kind = "ping", b.src = p,
                      NEW x \in InRooms(q)
               PROVE  Has(p, x)' \/ Tell(p, q, x)' \/ Answering(q, p)'
    BY <1>2 DEF AnswerReaches, Starter
  <2>1. CASE b \in seen[q]
    <3>1. Has(p, x) \/ Tell(p, q, x) \/ Answering(q, p)
      BY <1>3, <2>1 DEF AnswerReaches
    <3>2. CASE Mine /\ q = n
      BY <1>9, <3>2
    <3> QED
      BY <1>4, <1>5, <3>1, <3>2
  <2>2. CASE b \notin seen[q]
    <3>1. b = m.body /\ q = n /\ Pong(n, m) /\ m.dst = n
      <4>1. b.kind # "join"
        OBVIOUS
      <4> HIDE DEF Mine
      <4>2. /\ q = n /\ b = m.body /\ m.dst = n
            /\ (b.kind = "ping" /\ Pong(n, m)) \/ b.kind = "join"
        BY <2>2, NewlySeen, Zenon
      <4> QED
        BY <4>1, <4>2
    <3>2. [m EXCEPT !.pc = "handle"] \in msgs'
      BY <3>1 DEF Pong, GoOn
    <3>3. m \in Msg
      BY DEF TypeInv, TypeOK
    <3>4. Answering(q, p)'
      BY <3>1, <3>2, <3>3 DEF Answering, Msg
    <3> QED
      BY <3>4
  <2> QED
    BY <2>1, <2>2
<1> QED
  BY <1>11, <1>12, <1>13
-----------------------------------------------------------------------------
(* What is on its way arrives: the main threads. *)

LEMMA PingSent ==
  ASSUME TypeInv, Hypotheses, Stay, PeerInv, MsgsRight,
         NEW n \in Peer, NEW x \in Peer, Ping(n, x), pinged[n] = {}
  PROVE  x \in Established /\ PingFor(x, n)'
<1> DEFINE b == Says("ping", n, <<n, x>>, {})
           c == [body |-> b, dst |-> x, pc |-> "in_flight"]
<1>1. x \in Established
  <2>1. Starter(n) /\ x # n
    BY DEF Ping, PeerInv
  <2> QED
    BY <2>1 DEF Starter, Hypotheses, OneStarts
<1>2. b.kind = "ping" /\ b.src = n
  BY DEF Says
<1>3. b \notin seen'[x]
  <2>1. b \notin seen[x]
    BY <1>2 DEF MsgsRight
  <2> QED
    BY <2>1 DEF Ping
<1>4. c \in msgs'
  BY NoneGone DEF Ping, Copies
<1> HIDE DEF b
<1> QED
  BY <1>1, <1>2, <1>3, <1>4 DEF PingFor

LEMMA PingOnMains ==
  ASSUME TypeInv, Hypotheses, Stay, PeerInv, MsgsRight, NEW n \in Peer, Stays(n),
         NEW p \in Peer, NEW q \in Peer, p # q, Starter(p)
  PROVE  /\ PingOn(q, p) => PingOn(q, p)'
         /\ Answering(q, p) => Answering(q, p)'
<1>1. seen' = seen /\ msgs \subseteq msgs'
  BY MainGrows
<1>2. \A e \in Peer : PingFor(e, p) => PingFor(e, p)'
  BY <1>1 DEF PingFor
<1>3. Answering(q, p) => Answering(q, p)'
  BY <1>1 DEF Answering
<1>4. ASSUME main[p] = "boot", pinged[p] = {} PROVE PingOn(q, p)'
  <2>1. ASSUME NEW x \in Peer, Ping(n, x) PROVE PingOn(q, p)'
    <3>1. CASE n = p
      <4>1. x \in Established /\ PingFor(x, p)'
        BY <1>4, <2>1, <3>1, PingSent
      <4> QED
        BY <4>1 DEF PingOn
    <3>2. CASE n # p
      BY <1>4, <2>1, <3>2 DEF Ping, PingOn
    <3> QED
      BY <3>1, <3>2
  <2>2. ASSUME \A x \in Peer : ~Ping(n, x) PROVE PingOn(q, p)'
    <3>1. pinged' = pinged
      BY <2>2 DEF Stays, Name, Join, Handshake, TellJoin
    <3>2. n # p
      <4> SUFFICES ASSUME n = p PROVE FALSE
        OBVIOUS
      <4>1. ~Handshake(n)
        BY <1>4 DEF Handshake, PeerInv
      <4> QED
        BY <1>4, <2>2, <4>1 DEF Stays, Name, Join, EntersRoom, TellJoin
    <3>3. main'[p] = main[p]
      BY <2>2, <3>2 DEF Stays, Name, Join, Handshake, TellJoin, TypeInv, TypeOK
    <3> QED
      BY <1>4, <3>1, <3>3 DEF PingOn
  <2> QED
    BY <2>1, <2>2
<1>5. Established \subseteq Peer
  BY DEF Hypotheses, MembershipAssumption
<1> QED
  BY <1>2, <1>3, <1>4, <1>5 DEF PingOn

\* An entry the main thread is about to tell of is told.
LEMMA TellMains ==
  ASSUME TypeInv, Hypotheses, Stay, PeerInv, JoinsSeen, NEW n \in Peer, TellJoin(n),
         NEW x \in InRooms(n), x[1] \in todo[n], NEW d \in neighbors[n]
  PROVE  \E c \in msgs' : c.dst = d /\ c.pc = "in_flight" /\ c.body = JoinBy(n, x)
<1>1. x = <<x[1], name[n]>>
  BY DEF InRooms
<1>2. JoinBy(n, x) \in Tells("join", n, todo[n])
  BY <1>1 DEF Tells, JoinBy
<1>3. [body |-> JoinBy(n, x), dst |-> d, pc |-> "in_flight"] \in msgs'
  BY <1>2, NoneGone, TellsAll DEF Copies
<1> QED
  BY <1>3

LEMMA KeptMains ==
  ASSUME TypeInv, Hypotheses, Stay, PeerInv, JoinsSeen, NEW n \in Peer, Stays(n),
         NEW p \in Peer, NEW q \in Peer, NEW x \in InRooms(q)
  PROVE  /\ Has(p, x) => Has(p, x)'
         /\ Tell(p, q, x) => Tell(p, q, x)' \/ Has(p, x)'
         /\ Over(p, q, x) => Over(p, q, x)'
<1>1. /\ seen' = seen /\ neighbors' = neighbors /\ msgs \subseteq msgs'
      /\ members[p] \subseteq members'[p]
  BY MainGrows
<1>2. Has(p, x) => Has(p, x)'
  BY <1>1 DEF Has
<1>3. x[1] \in todo[q] => x[1] \in todo'[q] \/ (q = n /\ TellJoin(n))
  <2>1. CASE \A r \in Room : ~Join(n, r)
    BY <2>1, OnlyJoin
  <2>2. ASSUME NEW r \in Room, Join(n, r) PROVE x[1] \in todo[q] => x[1] \in todo'[q]
    <3>1. todo[n] = {}
      BY <2>2 DEF Join, EntersRoom, PeerInv
    <3>2. q # n => todo'[q] = todo[q]
      BY <2>2 DEF Join, TypeInv, TypeOK
    <3> QED
      BY <3>1, <3>2
  <2> QED
    BY <2>1, <2>2
<1>4. JoinBy(q, x).kind = "join" /\ x \in JoinBy(q, x).users
  BY DEF JoinBy, Says
<1>5. ASSUME Tell(p, q, x) PROVE Tell(p, q, x)' \/ Has(p, x)'
  <2>1. CASE x[1] \in todo'[q]
    BY <1>1, <1>5, <2>1 DEF Tell
  <2>2. CASE q = n /\ TellJoin(n)
    <3>1. PICK c \in msgs' : c.dst = p /\ c.pc = "in_flight" /\ c.body = JoinBy(n, x)
      BY <1>5, <2>2, TellMains DEF Tell
    <3> QED
      BY <1>4, <2>2, <3>1 DEF Has
  <2> QED
    BY <1>3, <1>5, <2>1, <2>2 DEF Tell
<1>6. ASSUME Over(p, q, x) PROVE Over(p, q, x)'
  <2>0. Starter(q) /\ ~Starter(p)
    BY <1>6 DEF Over
  <2>1. CASE x[1] \in todo'[q] /\ Established \intersect neighbors[q] # {}
    BY <1>1, <2>0, <2>1 DEF Over, Starter
  <2>2. ASSUME q = n, TellJoin(n), x[1] \in todo[q], NEW d \in Established \intersect neighbors[q]
        PROVE  Over(p, q, x)'
    <3>1. PICK c \in msgs' : c.dst = d /\ c.pc = "in_flight" /\ c.body = JoinBy(n, x)
      BY <2>2, TellMains
    <3>2. d \in Peer /\ JoinBy(q, x) \notin seen[d]
      BY <2>2 DEF JoinsSeen, Hypotheses, MembershipAssumption
    <3> QED
      BY <1>1, <2>0, <2>2, <3>1, <3>2 DEF Over, Starter
  <2>3. ASSUME NEW k \in msgs, k.dst \in Established, k.pc = "in_flight",
               k.body = JoinBy(q, x), k.body \notin seen[k.dst]
        PROVE  Over(p, q, x)'
    BY <1>1, <2>0, <2>3 DEF Over, Starter
  <2> QED
    BY <1>3, <1>6, <2>1, <2>2, <2>3 DEF Over
<1> QED
  BY <1>2, <1>5, <1>6

\* Somebody who enters a room has a way to everybody.
LEMMA NewEntryReaches ==
  ASSUME TypeInv, Hypotheses, Stay, AgreeParts, NEW n \in Peer, NEW r \in Room, Join(n, r),
         NEW p \in Peer, p # n, NEW x \in InRooms(n)', x \notin InRooms(n)
  PROVE  /\ Tell(p, n, x)' \/ Over(p, n, x)' \/ (Starter(p) /\ PingOn(n, p)')
         /\ p \in neighbors[n] => Tell(p, n, x)'
<1> USE DEF AgreeParts
<1>1. /\ joined' = [joined EXCEPT ![n] = @ \union {r}]
      /\ todo' = [todo EXCEPT ![n] = IF <<r, name[n]>> \in members[n] THEN {} ELSE {r}]
      /\ UNCHANGED <<neighbors, seen, name, shaken, pinged, msgs>>
      /\ main[n] \notin {"boot", "name"} /\ main[n] \in {"room", "prompt"}
  BY DEF Join, EntersRoom
<1>2. x = <<r, name[n]>> /\ r \notin joined[n]
  BY <1>1 DEF InRooms, TypeInv, TypeOK
<1>3. <<r, name[n]>> \notin members[n]
  BY <1>1, <1>2, EnteredOwn DEF EntriesTrue
<1>4. x[1] \in todo'[n]
  BY <1>1, <1>2, <1>3 DEF TypeInv, TypeOK
<1>5. p \in neighbors[n] => Tell(p, n, x)'
  BY <1>1, <1>4 DEF Tell
<1>6. CASE p \in neighbors[n]
  BY <1>5, <1>6
<1>7. CASE Starter(p) /\ p \notin neighbors[n]
  <2>1. PingOn(n, p)
    BY <1>7 DEF Reaches, PingReaches
  <2>2. Stays(n)
    BY DEF Stays
  <2> QED
    BY <1>5, <1>7, <2>1, <2>2, PingOnMains
<1>8. CASE ~Starter(p) /\ p \notin neighbors[n]
  <2>1. Starter(n)
    BY <1>8 DEF PeerInv, Starter
  <2>2. Established \intersect neighbors[n] # {}
    BY <1>1, <2>1 DEF PeerInv
  <2>3. Over(p, n, x)'
    BY <1>1, <1>4, <1>8, <2>1, <2>2 DEF Over, Starter
  <2> QED
    BY <1>5, <2>3
<1> QED
  BY <1>6, <1>7, <1>8

LEMMA ReachesMains ==
  ASSUME TypeInv, Hypotheses, Stay, AgreeParts, NEW n \in Peer, Stays(n)
  PROVE  Reaches'
<1> USE DEF AgreeParts
<1> SUFFICES ASSUME NEW p \in Peer, NEW q \in Peer, p # q
             PROVE  ListReaches(p, q)' /\ PingReaches(p, q)' /\ AnswerReaches(p, q)'
  BY DEF Reaches
<1>1. ListReaches(p, q) /\ PingReaches(p, q) /\ AnswerReaches(p, q)
  BY DEF Reaches
<1>2. seen' = seen /\ neighbors' = neighbors
  BY MainGrows
<1>3. ASSUME NEW x \in InRooms(q)', x \notin InRooms(q)
      PROVE  /\ Tell(p, q, x)' \/ Over(p, q, x)' \/ (Starter(p) /\ PingOn(q, p)')
             /\ p \in neighbors[q] => Tell(p, q, x)'
  <2>1. PICK r \in Room : Join(n, r)
    BY <1>3, OnlyJoin
  <2>2. q = n
    BY <1>3, <2>1 DEF Join, InRooms, TypeInv, TypeOK
  <2> QED
    BY <1>3, <2>1, <2>2, NewEntryReaches
<1>4. Starter(p) => /\ PingOn(q, p) => PingOn(q, p)'
                    /\ Answering(q, p) => Answering(q, p)'
  BY PingOnMains
<1>5. ListReaches(p, q)'
  <2> SUFFICES ASSUME NEW x \in InRooms(q)'
               PROVE  \/ Has(p, x)' \/ Tell(p, q, x)' \/ Over(p, q, x)'
                      \/ Starter(p) /\ PingOn(q, p)'
    BY DEF ListReaches, Starter
  <2>1. CASE x \in InRooms(q)
    <3>1. Has(p, x) \/ Tell(p, q, x) \/ Over(p, q, x) \/ (Starter(p) /\ PingOn(q, p))
      BY <1>1, <2>1 DEF ListReaches
    <3> QED
      BY <1>4, <2>1, <3>1, KeptMains
  <2>2. CASE x \notin InRooms(q)
    BY <1>3, <2>2
  <2> QED
    BY <2>1, <2>2
<1>6. PingReaches(p, q)'
  <2>1. ASSUME Starter(p) PROVE p \in neighbors'[q] \/ PingOn(q, p)'
    BY <1>1, <1>2, <1>4, <2>1 DEF PingReaches
  <2> QED
    BY <2>1 DEF PingReaches, Starter
<1>7. AnswerReaches(p, q)'
  <2> SUFFICES ASSUME Starter(p), NEW b \in seen[q], b.kind = "ping", b.src = p,
                      NEW x \in InRooms(q)'
               PROVE  Has(p, x)' \/ Tell(p, q, x)' \/ Answering(q, p)'
    BY <1>2 DEF AnswerReaches, Starter
  <2>1. CASE x \in InRooms(q)
    <3>1. Has(p, x) \/ Tell(p, q, x) \/ Answering(q, p)
      BY <1>1, <2>1 DEF AnswerReaches
    <3> QED
      BY <1>4, <2>1, <3>1, KeptMains
  <2>2. CASE x \notin InRooms(q)
    BY <1>3, <2>2 DEF MsgsRight
  <2> QED
    BY <2>1, <2>2
<1> QED
  BY <1>5, <1>6, <1>7
-----------------------------------------------------------------------------
(* The theorem. *)

LEMMA AgreeInit == Hypotheses /\ Init => AgreeInv
<1> SUFFICES ASSUME Hypotheses, Init PROVE AgreeParts
  BY DEF AgreeInv
<1>1. \A p \in Peer : /\ members[p] = {} /\ seen[p] = {} /\ joined[p] = {} /\ todo[p] = {}
                      /\ pinged[p] = {} /\ ~shaken[p] /\ InRooms(p) = {}
                      /\ main[p] = IF p \in Established THEN "room" ELSE "boot"
                      /\ neighbors[p] = IF p \in Established THEN Established \ {p} ELSE {}
  BY DEF Init, InRooms
<1>2. msgs = {}
  BY DEF Init
<1>3. PeerInv
  BY <1>1 DEF PeerInv, Starter
<1>4. EntriesTrue /\ MsgsRight /\ JoinsSeen
  BY <1>1, <1>2 DEF EntriesTrue, MsgsRight, JoinsSeen
<1>5. Reaches
  BY <1>1 DEF Reaches, ListReaches, PingReaches, AnswerReaches, PingOn, Starter
<1> QED
  BY <1>3, <1>4, <1>5 DEF AgreeParts

LEMMA AgreeStep == Hypotheses /\ TypeInv /\ AgreeInv /\ [Next]_vars => AgreeInv'
<1> SUFFICES ASSUME Hypotheses, TypeInv, AgreeInv, [Next]_vars, Stay'
             PROVE  AgreeParts'
  BY DEF AgreeInv
<1>1. CASE UNCHANGED vars
  <2>1. AgreeParts
    BY <1>1 DEF AgreeInv, Stay, vars
  <2>2. /\ UNCHANGED <<main, neighbors, seen, members, name>>
        /\ UNCHANGED <<joined, shaken, pinged, todo, msgs>>
    BY <1>1 DEF vars
  <2>3. \A q \in Peer : InRooms(q)' = InRooms(q)
    BY <2>2 DEF InRooms
  <2>4. PeerInv'
    BY <2>1, <2>2, <2>3 DEF AgreeParts, PeerInv, Starter
  <2>5. EntriesTrue' /\ MsgsRight' /\ JoinsSeen'
    BY <2>1, <2>2, <2>3 DEF AgreeParts, EntriesTrue, MsgsRight, JoinsSeen, Entered, JoinBy,
       Starter
  <2>6. \A p, q \in Peer : /\ Answering(q, p)' <=> Answering(q, p)
                           /\ PingOn(q, p)' <=> PingOn(q, p)
    BY <2>2 DEF Answering, PingOn, PingFor
  <2>7. \A p, q \in Peer : \A x : /\ Has(p, x)' <=> Has(p, x)
                                  /\ Tell(p, q, x)' <=> Tell(p, q, x)
                                  /\ Over(p, q, x)' <=> Over(p, q, x)
    BY <2>2 DEF Has, Tell, Over, Starter, JoinBy
  <2>8. Reaches'
    BY <2>1, <2>2, <2>3, <2>6, <2>7 DEF AgreeParts, Reaches, ListReaches, PingReaches,
       AnswerReaches, Starter
  <2> QED
    BY <2>4, <2>5, <2>8 DEF AgreeParts
<1>2. CASE Next
  <2>1. Stay /\ AgreeParts
    BY <1>2, StayedBefore DEF AgreeInv
  <2> USE DEF AgreeParts
  <2>2. ASSUME NEW n \in Peer, NEW m \in msgs, HandlerStep(n, m) PROVE AgreeParts'
    BY <2>1, <2>2, PeerHandles, EntriesHandles, MsgsHandles, JoinsHandles, ReachesHandles
  <2>3. ASSUME NEW n \in Peer, MainStep(n) PROVE AgreeParts'
    <3>1. Stays(n)
      BY <2>1, <2>3, MainStays
    <3> QED
      BY <2>1, <3>1, PeerMains, EntriesMains, MsgsMains, JoinsMains, ReachesMains
  <2> QED
    BY <1>2, <2>2, <2>3 DEF Next
<1> QED
  BY <1>1, <1>2

LEMMA AgreeQuiet == Hypotheses /\ AgreeInv => MembersAgree
<1> SUFFICES ASSUME Hypotheses, AgreeInv, Quiet, Gone = {}, NEW p \in Peer, NEW q \in Peer,
                    NEW x \in InRooms(q)
             PROVE  x \in members[p]
  BY DEF MembersAgree
<1>1. Stay
  <2>1. \A k \in Peer : Runs(k)
    BY DEF Gone
  <2> QED
    BY <2>1 DEF Quiet, Stay, Runs
<1>2. msgs = {} /\ AgreeParts
  BY <1>1 DEF Quiet, AgreeInv
<1>3. todo[q] = {}
  BY <1>2 DEF Quiet, AgreeParts, PeerInv
<1>4. ~PingOn(q, p) /\ ~Over(p, q, x) /\ ~Tell(p, q, x)
  BY <1>2, <1>3 DEF Quiet, PingOn, PingFor, Over, Tell
<1>5. CASE p = q
  BY <1>2, <1>5 DEF AgreeParts, PeerInv
<1>6. CASE p # q
  BY <1>2, <1>4, <1>6 DEF AgreeParts, Reaches, ListReaches, Has
<1> QED
  BY <1>5, <1>6

\* Once every message has been handled, everybody is on every member list, whatever the
\* number of peers and rooms and however the ping, its answers and the joins of those who
\* enter meanwhile overtake each other: one peer starts, nobody has left (handle_msg,
\* join_chatroom, relay_flood).
THEOREM MembersCatchUp ==
  OneStarts /\ DistinctCalls /\ Spec => []MembersAgree
<1> SUFFICES ASSUME OneStarts, DistinctCalls PROVE Spec => []MembersAgree
  OBVIOUS
<1>1. Hypotheses
  BY MembershipAssumption DEF Hypotheses
<1>2. Init => TypeInv /\ AgreeInv
  BY <1>1, InitTypes, AgreeInit, MembershipAssumption
<1>3. TypeInv /\ AgreeInv /\ [Next]_vars => (TypeInv /\ AgreeInv)'
  BY <1>1, AgreeStep, TypeStep, StutterTypes, MembershipAssumption
<1>4. AgreeInv => MembersAgree
  BY <1>1, AgreeQuiet
<1> QED
  BY <1>2, <1>3, <1>4, PTL DEF Spec
=============================================================================
