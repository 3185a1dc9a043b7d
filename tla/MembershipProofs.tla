-------------------------- MODULE MembershipProofs --------------------------
(* Theorems about Membership, for any peers, rooms, names and contacts.     *)
EXTENDS Membership, TLAPS

\* Messages made of well-formed bodies are well formed.
LEMMA CopiesTypes ==
  ASSUME NEW bodies \in SUBSET Body, NEW to \in SUBSET Peer
  PROVE  Copies(bodies, to) \subseteq Msg
BY DEF Copies, Msg

LEMMA SaysType ==
  ASSUME NEW kind \in Kinds, NEW n \in Peer, NEW tag \in Peer \X Peer,
         NEW users \in SUBSET (Room \X User)
  PROVE  Says(kind, n, tag, users) \in Body
BY DEF Says, Body

LEMMA GoOnTypes ==
  ASSUME msgs \subseteq Msg, NEW m \in msgs
  PROVE  GoOn(m, "handle") \subseteq Msg /\ Others(m) \subseteq Msg
BY DEF GoOn, Others, Msg

\* A copy says what it is a copy of.
LEMMA CopiesBodies ==
  ASSUME NEW bodies, NEW to, NEW c \in Copies(bodies, to)
  PROVE  c.body \in bodies
<1>1. PICK b \in bodies, d \in to \ Gone : c = [body |-> b, dst |-> d, pc |-> "in_flight"]
  BY DEF Copies
<1> QED
  BY <1>1

\* What is known of a message whose handler takes a step.
LEMMA MsgTypes ==
  ASSUME msgs \subseteq Msg, NEW m \in msgs
  PROVE  /\ m.body \in Body /\ m.dst \in Peer /\ m.body.src \in Peer
         /\ m.body.tag \in Peer \X Peer /\ m.body.users \subseteq Room \X User
BY DEF Msg, Body

\* The messages by which a named user enters and leaves rooms.
LEMMA TellsTypes ==
  ASSUME NEW n \in Peer, name[n] \in User, NEW rs \in SUBSET Room,
         NEW kind \in {"join", "leave"}
  PROVE  Tells(kind, n, rs) \subseteq Body
<1> SUFFICES ASSUME NEW r \in rs PROVE Says(kind, n, <<n, n>>, {<<r, name[n]>>}) \in Body
  BY DEF Tells
<1> QED
  BY SaysType DEF Kinds

LEMMA CountsOn ==
  ASSUME NEW S, NEW f \in [S -> Nat], NEW n \in S
  PROVE  [f EXCEPT ![n] = @ + 1] \in [S -> Nat]
OBVIOUS

TypeInv == TypeOK /\ Named

LEMMA InitTypes == Init /\ MembershipAssumption => TypeInv
<1> SUFFICES ASSUME Init, MembershipAssumption PROVE TypeInv
  OBVIOUS
<1>1. main \in [Peer -> {"boot", "name", "room", "tell", "prompt", "leaving", "gone"}]
      /\ neighbors \in [Peer -> SUBSET Peer]
  BY DEF Init, MembershipAssumption
<1>2. seen \in [Peer -> SUBSET Body] /\ members \in [Peer -> SUBSET (Room \X User)]
  BY DEF Init
<1>3. joined \in [Peer -> SUBSET Room] /\ name \in [Peer -> User \union {""}]
      /\ shaken \in [Peer -> BOOLEAN]
  BY DEF Init
<1>4. pinged \in [Peer -> SUBSET Peer] /\ joins \in [Peer -> Nat]
      /\ todo \in [Peer -> SUBSET Room] /\ msgs \subseteq Msg
  BY DEF Init
<1>5. Named
  BY DEF Init, Named
<1> QED
  BY <1>1, <1>2, <1>3, <1>4, <1>5 DEF TypeInv, TypeOK

LEMMA StutterTypes == TypeInv /\ UNCHANGED vars => TypeInv'
BY DEF TypeInv, TypeOK, Named, vars

LEMMA TypeStep == TypeInv /\ MembershipAssumption /\ Next => TypeInv'
<1> SUFFICES ASSUME TypeInv, MembershipAssumption, Next PROVE TypeInv'
  OBVIOUS
<1> USE DEF TypeInv, TypeOK, Named
<1>0. /\ \A p \in Peer : Calls[p] \subseteq User
      /\ \A p \in Peer : main[p] \notin {"boot", "name"} => name[p] \in User
      /\ msgs \subseteq Msg
  BY DEF MembershipAssumption
<1>1. ASSUME NEW n \in Peer, NEW x \in Peer, Ping(n, x) PROVE TypeInv'
  <2>1. Says("ping", n, <<n, x>>, {}) \in Body
    BY SaysType DEF Kinds
  <2>2. msgs' \subseteq Msg
    BY <1>1, <2>1, CopiesTypes DEF Ping
  <2> QED
    BY <1>1, <2>2 DEF Ping
<1>2. ASSUME NEW n \in Peer, NEW u \in User, Name(n, u) PROVE TypeInv'
  BY <1>2 DEF Name
<1>3. ASSUME NEW n \in Peer, Handshake(n) PROVE TypeInv'
  BY <1>3 DEF Handshake
<1>4. ASSUME NEW n \in Peer, NEW r \in Room, Join(n, r) PROVE TypeInv'
  <2>1. name[n] \in User /\ name[n] \in Calls[n]
    BY <1>0, <1>4 DEF Join, EntersRoom
  <2>2. members' \in [Peer -> SUBSET (Room \X User)]
    <3>1. <<r, name[n]>> \in Room \X User
      BY <2>1
    <3>2. members' = [members EXCEPT ![n] = @ \union {<<r, name[n]>>}]
      BY <1>4 DEF Join
    <3> QED
      BY <3>1, <3>2
  <2>3. todo' \in [Peer -> SUBSET Room] /\ joined' \in [Peer -> SUBSET Room]
        /\ joins' \in [Peer -> Nat]
    <3>1. joins' = [joins EXCEPT ![n] = @ + 1]
          /\ joined' = [joined EXCEPT ![n] = @ \union {r}]
      BY <1>4 DEF Join
    <3>2. PICK rs \in {{}, {r}} : todo' = [todo EXCEPT ![n] = rs]
      BY <1>4 DEF Join
    <3>3. {r} \in SUBSET Room /\ {} \in SUBSET Room
      OBVIOUS
    <3>4. todo' \in [Peer -> SUBSET Room]
      BY <3>2, <3>3
    <3>5. joined' \in [Peer -> SUBSET Room]
      BY <3>1
    <3>6. joins' \in [Peer -> Nat]
      BY <3>1, CountsOn
    <3> QED
      BY <3>4, <3>5, <3>6
  <2>4. main' = [main EXCEPT ![n] = "tell"]
        /\ UNCHANGED <<neighbors, seen, name, shaken, pinged, msgs>>
    BY <1>4 DEF Join
  <2> QED
    BY <2>1, <2>2, <2>3, <2>4
<1>5. ASSUME NEW n \in Peer, TellJoin(n) PROVE TypeInv'
  <2>1. name[n] \in User /\ Tells("join", n, todo[n]) \subseteq Body
    BY <1>0, <1>5, TellsTypes DEF TellJoin
  <2>2. Copies(Tells("join", n, todo[n]), neighbors[n]) \subseteq Msg
    BY <2>1, CopiesTypes
  <2>3. msgs' \subseteq Msg /\ neighbors' \in [Peer -> SUBSET Peer]
    <3>1. CASE todo[n] = {}
      BY <1>5, <3>1 DEF TellJoin
    <3>2. CASE todo[n] # {}
      <4>1. msgs' = msgs \union Copies(Tells("join", n, todo[n]), neighbors[n])
            /\ neighbors' = [neighbors EXCEPT ![n] = @ \ (neighbors[n] \intersect Gone)]
        BY <1>5, <3>2 DEF TellJoin, Sends
      <4> QED
        BY <2>2, <4>1
    <3> QED
      BY <3>1, <3>2
  <2> QED
    BY <1>5, <2>3 DEF TellJoin
<1>6. ASSUME NEW n \in Peer, Leave(n) PROVE TypeInv'
  <2>1. PICK rs \in {joined[n]} \union {{r} : r \in joined[n]} :
          todo' = [todo EXCEPT ![n] = rs]
    BY <1>6, Zenon DEF Leave
  <2>3. rs \subseteq Room
    <3>1. rs = joined[n] \/ \E r \in joined[n] : rs = {r}
      OBVIOUS
    <3>2. joined[n] \subseteq Room
      OBVIOUS
    <3> QED
      BY <3>1, <3>2
  <2>2. name[n] \in Calls[n] /\ main' = [main EXCEPT ![n] = "leaving"]
    BY <1>6 DEF Leave
  <2> QED
    <3>1. todo' \in [Peer -> SUBSET Room]
      BY <2>1, <2>3
    <3> QED
      <4>1. UNCHANGED <<neighbors, seen, members, name, joined, shaken, pinged, joins, msgs>>
        BY <1>6 DEF Leave
      <4> QED
        BY <2>2, <3>1, <4>1
<1>7. ASSUME NEW n \in Peer, NEW r \in Room, LeaveRoom(n, r) PROVE TypeInv'
  <2>1. name[n] \in User /\ Tells("leave", n, {r}) \subseteq Body
    BY <1>0, <1>7, TellsTypes DEF LeaveRoom
  <2>2. msgs' \subseteq Msg /\ neighbors' \in [Peer -> SUBSET Peer]
    BY <1>7, <2>1, CopiesTypes DEF LeaveRoom, Sends
  <2> QED
    BY <1>7, <2>2 DEF LeaveRoom
<1>8. ASSUME NEW n \in Peer, Stop(n) PROVE TypeInv'
  BY <1>8 DEF Stop
<1>9. ASSUME NEW n \in Peer, NEW m \in msgs, HandlerStep(n, m) PROVE TypeInv'
  <2>0. /\ m.body \in Body /\ m.body.src \in Peer /\ m.body.tag \in Peer \X Peer
        /\ m.body.users \subseteq Room \X User
        /\ GoOn(m, "handle") \subseteq Msg /\ Others(m) \subseteq Msg
        /\ Learnt(n, m.body) \subseteq Peer
    BY <1>0, MsgTypes, GoOnTypes DEF Learnt
  <2>1. CASE Duplicate(n, m)
    BY <2>0, <2>1 DEF Duplicate
  <2>2. CASE Pong(n, m)
    <3>1. Says("pong", n, m.body.tag, {}) \in Body
      BY <2>0, SaysType DEF Kinds
    <3>2. msgs' \subseteq Msg
      BY <2>0, <2>2, <3>1, CopiesTypes DEF Pong
    <3> QED
      BY <2>0, <2>2, <3>2 DEF Pong, First
  <2>3. CASE Answer(n, m)
    <3>1. MembersSent(n, m.body) \subseteq Body
      <4>1. Says("sync", n, m.body.tag, members[n]) \in Body
        BY <2>0, SaysType DEF Kinds
      <4> QED
        BY <4>1 DEF MembersSent
    <3>2. msgs' \subseteq Msg
      BY <2>0, <2>3, <3>1, CopiesTypes DEF Answer
    <3> QED
      BY <2>3, <3>2 DEF Answer
  <2>4. CASE Shake(n, m)
    BY <2>0, <2>4 DEF Shake
  <2>5. CASE MemberSync(n, m)
    BY <2>0, <2>5 DEF MemberSync
  <2>6. CASE Relay(n, m)
    <3>1. msgs' \subseteq Msg
      BY <2>0, <2>6, CopiesTypes DEF Relay
    <3> QED
      BY <2>0, <2>6, <3>1 DEF Relay, First
  <2>7. CASE HandleJoin(n, m)
    BY <2>0, <2>7 DEF HandleJoin
  <2>8. CASE HandleLeave(n, m)
    BY <2>0, <2>8 DEF HandleLeave
  <2> QED
    BY <1>9, <2>1, <2>2, <2>3, <2>4, <2>5, <2>6, <2>7, <2>8 DEF HandlerStep
<1> QED
  BY <1>1, <1>2, <1>3, <1>4, <1>5, <1>6, <1>7, <1>8, <1>9 DEF Next, MainStep

\* Type correctness of the member lists and their messages; every name on a list is
\* one that a user has typed.
THEOREM TypeCorrect == Spec => []TypeOK
<1>1. Init => TypeInv
  BY InitTypes, MembershipAssumption
<1>2. TypeInv /\ [Next]_vars => TypeInv'
  BY TypeStep, StutterTypes, MembershipAssumption
<1>3. TypeInv => TypeOK
  BY DEF TypeInv
<1> QED
  BY <1>1, <1>2, <1>3, PTL DEF Spec

\* Leaves are about users who are leaving.
LEMMA LeavesStep ==
  TypeInv /\ LeavesOwn /\ MembershipAssumption /\ Next => LeavesOwn'
<1> SUFFICES ASSUME TypeInv, LeavesOwn, MembershipAssumption, Next PROVE LeavesOwn'
  OBVIOUS
<1>0. /\ main \in [Peer -> {"boot", "name", "room", "tell", "prompt", "leaving", "gone"}]
      /\ name \in [Peer -> User \union {""}] /\ msgs \subseteq Msg
      /\ \A m \in msgs : m.body.src \in Peer
  BY MsgTypes DEF TypeInv, TypeOK
\* Who is leaving stays so and keeps the name, and other messages are no leaves.
<1>a. ASSUME \A p \in Peer : main[p] \in {"leaving", "gone"} =>
                main'[p] \in {"leaving", "gone"} /\ name'[p] = name[p],
             \A m \in msgs' : \/ m.body.kind # "leave"
                              \/ \E k \in msgs : m.body = k.body
      PROVE  LeavesOwn'
  <2> SUFFICES ASSUME NEW m \in msgs', m.body.kind = "leave"
               PROVE  /\ main'[m.body.src] \in {"leaving", "gone"}
                      /\ \A x \in m.body.users : x[2] = name'[m.body.src]
    BY DEF LeavesOwn
  <2>1. PICK k \in msgs : m.body = k.body
    BY <1>a
  <2>2. /\ k.body.src \in Peer
        /\ main[k.body.src] \in {"leaving", "gone"}
        /\ \A x \in k.body.users : x[2] = name[k.body.src]
    BY <1>0, <2>1 DEF LeavesOwn
  <2> QED
    BY <1>a, <2>1, <2>2
<1>b. ASSUME NEW bodies, NEW to, NEW kind \in Kinds \ {"leave"},
             \A b \in bodies : b.kind = kind
      PROVE  \A m \in Copies(bodies, to) : m.body.kind # "leave"
  BY <1>b, CopiesBodies
<1>c. ASSUME NEW m \in msgs
      PROVE  /\ \A k \in GoOn(m, "handle") : \E l \in msgs : k.body = l.body
             /\ Others(m) \subseteq msgs
  BY <1>0, <1>c DEF GoOn, Others, Msg
<1>1. ASSUME NEW n \in Peer, NEW x \in Peer, Ping(n, x) PROVE LeavesOwn'
  <2>1. Says("ping", n, <<n, x>>, {}).kind = "ping"
    BY DEF Says
  <2>2. \A m \in msgs' : m \in msgs \/ m.body.kind # "leave"
    BY <1>1, <1>b, <2>1 DEF Ping, Kinds
  <2> QED
    BY <1>1, <1>a, <2>2 DEF Ping
<1>2. ASSUME NEW n \in Peer, NEW u \in User, Name(n, u) PROVE LeavesOwn'
  BY <1>0, <1>2, <1>a DEF Name
<1>3. ASSUME NEW n \in Peer, Handshake(n) PROVE LeavesOwn'
  BY <1>0, <1>3, <1>a DEF Handshake
<1>4. ASSUME NEW n \in Peer, NEW r \in Room, Join(n, r) PROVE LeavesOwn'
  <2>1. main[n] \in {"room", "prompt"} /\ main' = [main EXCEPT ![n] = "tell"]
        /\ name' = name /\ msgs' = msgs
    BY <1>4 DEF Join, EntersRoom
  <2> QED
    BY <1>0, <1>a, <2>1
<1>5. ASSUME NEW n \in Peer, TellJoin(n) PROVE LeavesOwn'
  <2>1. main[n] = "tell" /\ main' = [main EXCEPT ![n] = "prompt"] /\ name' = name
        /\ msgs' \subseteq msgs \union Copies(Tells("join", n, todo[n]), neighbors[n])
    BY <1>5 DEF TellJoin, Sends
  <2>2. \A b \in Tells("join", n, todo[n]) : b.kind = "join"
    <3> TAKE b \in Tells("join", n, todo[n])
    <3>1. PICK s \in todo[n] : b = Says("join", n, <<n, n>>, {<<s, name[n]>>})
      BY DEF Tells
    <3> QED
      BY <3>1 DEF Says
  <2>3. \A m \in msgs' : m \in msgs \/ m.body.kind # "leave"
    BY <1>b, <2>1, <2>2 DEF Kinds
  <2> QED
    BY <1>0, <1>a, <2>1, <2>3
<1>6. ASSUME NEW n \in Peer, Leave(n) PROVE LeavesOwn'
  <2>1. main[n] = "prompt" /\ main' = [main EXCEPT ![n] = "leaving"]
        /\ name' = name /\ msgs' = msgs
    BY <1>6 DEF Leave
  <2> QED
    BY <1>0, <1>a, <2>1
<1>7. ASSUME NEW n \in Peer, NEW r \in Room, LeaveRoom(n, r) PROVE LeavesOwn'
  <2>1. main[n] = "leaving" /\ main' = main /\ name' = name
        /\ msgs' = msgs \union Copies(Tells("leave", n, {r}), neighbors[n])
    BY <1>7 DEF LeaveRoom, Sends
  <2>2. \A b \in Tells("leave", n, {r}) :
          b.src = n /\ \A x \in b.users : x[2] = name[n]
    <3> TAKE b \in Tells("leave", n, {r})
    <3>1. b = Says("leave", n, <<n, n>>, {<<r, name[n]>>})
      BY DEF Tells
    <3>2. b.src = n /\ b.users = {<<r, name[n]>>}
      BY <3>1 DEF Says
    <3>3. <<r, name[n]>>[2] = name[n]
      OBVIOUS
    <3> QED
      BY <3>2, <3>3
  <2>3. \A m \in Copies(Tells("leave", n, {r}), neighbors[n]) :
          m.body.src = n /\ \A x \in m.body.users : x[2] = name[n]
    BY <2>2, CopiesBodies
  <2> QED
    BY <1>0, <2>1, <2>3 DEF LeavesOwn
<1>8. ASSUME NEW n \in Peer, Stop(n) PROVE LeavesOwn'
  <2>1. main[n] = "leaving" /\ main' = [main EXCEPT ![n] = "gone"]
        /\ name' = name /\ msgs' \subseteq msgs
    BY <1>8 DEF Stop
  <2> QED
    BY <1>0, <1>a, <2>1
<1>9. ASSUME NEW n \in Peer, NEW m \in msgs, HandlerStep(n, m) PROVE LeavesOwn'
  <2>1. main' = main /\ name' = name
    BY <1>9 DEF HandlerStep, Duplicate, Pong, Answer, Shake, MemberSync, Relay,
                HandleJoin, HandleLeave
  <2>2. \A k \in msgs' : k.body.kind # "leave" \/ \E l \in msgs : k.body = l.body
    <3>1. CASE msgs' = Others(m)
      BY <1>c, <3>1
    <3>2. CASE Pong(n, m)
      <4>1. \A k \in Copies({Says("pong", n, m.body.tag, {})}, {m.body.src}) :
              k.body.kind # "leave"
        <5>1. Says("pong", n, m.body.tag, {}).kind = "pong"
          BY DEF Says
        <5> QED
          BY <1>b, <5>1 DEF Kinds
      <4> QED
        BY <1>c, <3>2, <4>1 DEF Pong
    <3>3. CASE Answer(n, m)
      <4>1. \A k \in Copies(MembersSent(n, m.body), {m.body.src}) : k.body.kind # "leave"
        <5>1. \A b \in MembersSent(n, m.body) : b.kind = "sync"
          <6>1. Says("sync", n, m.body.tag, members[n]).kind = "sync"
            BY DEF Says
          <6> QED
            BY <6>1 DEF MembersSent
        <5> QED
          BY <1>b, <5>1 DEF Kinds
      <4>2. \A k \in Copies({m.body}, neighbors[n] \ {m.body.src}) : k.body = m.body
        BY CopiesBodies
      <4> QED
        BY <1>c, <3>3, <4>1, <4>2 DEF Answer
    <3>4. CASE Relay(n, m)
      <4>1. \A k \in Copies({m.body}, Learnt(n, m.body) \ {m.body.src}) : k.body = m.body
        BY CopiesBodies
      <4> QED
        BY <1>c, <3>4, <4>1 DEF Relay
    <3> QED
      BY <1>9, <3>1, <3>2, <3>3, <3>4
         DEF HandlerStep, Duplicate, Shake, MemberSync, HandleJoin, HandleLeave
  <2> QED
    BY <1>a, <2>1, <2>2
<1> QED
  BY <1>1, <1>2, <1>3, <1>4, <1>5, <1>6, <1>7, <1>8, <1>9 DEF Next, MainStep

\* Only a leave takes names off a list, and only those it carries.
LEMMA OnlyLeaves ==
  ASSUME TypeInv, MembershipAssumption, Next, NEW p \in Peer, NEW x \in members[p],
         x \notin members'[p]
  PROVE  \E m \in msgs : m.body.kind = "leave" /\ x \in m.body.users
<1>0. members \in [Peer -> SUBSET (Room \X User)]
  BY DEF TypeInv, TypeOK
<1>1. ASSUME NEW n \in Peer, MainStep(n) PROVE FALSE
  <2>1. CASE \E r \in Room : Join(n, r)
    <3>1. PICK y : members' = [members EXCEPT ![n] = @ \union {y}]
      BY <2>1 DEF Join
    <3> QED
      BY <1>0, <3>1
  <2>2. CASE members' = members
    BY <2>2
  <2> QED
    BY <1>1, <2>1, <2>2
       DEF MainStep, Ping, Name, Handshake, TellJoin, Leave, LeaveRoom, Stop
<1>2. ASSUME NEW n \in Peer, NEW m \in msgs, HandlerStep(n, m)
      PROVE  m.body.kind = "leave" /\ x \in m.body.users
  <2>1. CASE HandleLeave(n, m)
    BY <1>0, <2>1 DEF HandleLeave, At
  <2>2. CASE MemberSync(n, m) \/ HandleJoin(n, m)
    BY <1>0, <2>2 DEF MemberSync, HandleJoin
  <2>3. CASE Duplicate(n, m) \/ Pong(n, m) \/ Answer(n, m) \/ Shake(n, m) \/ Relay(n, m)
    BY <2>3 DEF Duplicate, Pong, Answer, Shake, Relay
  <2> QED
    BY <1>2, <2>1, <2>2, <2>3 DEF HandlerStep
<1> QED
  BY <1>1, <1>2 DEF Next

\* As long as users type different names, nobody who stays in a room is ever taken off
\* a list, whatever overtakes what, and whoever else leaves or crashes out.
THEOREM StayersAreKept == DistinctCalls /\ Spec => StayersKept
<1> SUFFICES ASSUME DistinctCalls PROVE Spec => StayersKept
  OBVIOUS
<1>1. Init => TypeInv /\ LeavesOwn
  BY InitTypes, MembershipAssumption DEF Init, LeavesOwn
<1>2. TypeInv /\ LeavesOwn /\ [Next]_vars => (TypeInv /\ LeavesOwn)'
  <2>1. LeavesOwn /\ UNCHANGED vars => LeavesOwn'
    BY DEF LeavesOwn, vars
  <2> QED
    BY <2>1, TypeStep, StutterTypes, LeavesStep, MembershipAssumption
<1>3. TypeInv /\ LeavesOwn /\ [Next]_vars =>
        [\A p, q \in Peer : main[q] \in {"tell", "prompt"} =>
           InRooms(q) \intersect members[p] \subseteq members'[p]]_vars
  <2> SUFFICES ASSUME TypeInv, LeavesOwn, Next, NEW p \in Peer, NEW q \in Peer,
                      main[q] \in {"tell", "prompt"},
                      NEW x \in InRooms(q), x \in members[p], x \notin members'[p]
               PROVE  FALSE
    OBVIOUS
  <2>1. PICK m \in msgs : m.body.kind = "leave" /\ x \in m.body.users
    BY OnlyLeaves, MembershipAssumption
  <2>2. main[m.body.src] \in {"leaving", "gone"} /\ x[2] = name[m.body.src]
    BY <2>1 DEF LeavesOwn
  <2>3. m.body.src \in Peer
    BY MsgTypes DEF TypeInv, TypeOK
  <2>4. x[2] = name[q]
    BY DEF InRooms
  <2>5. name[q] \in Calls[q] /\ name[m.body.src] \in Calls[m.body.src] /\ m.body.src # q
    BY <2>2, <2>3 DEF TypeInv, Named
  <2> QED
    BY <2>2, <2>3, <2>4, <2>5 DEF DistinctCalls
<1> QED
  BY <1>1, <1>2, <1>3, PTL DEF Spec, StayersKept
=============================================================================
