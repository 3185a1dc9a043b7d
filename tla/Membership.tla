---------------------------- MODULE Membership ----------------------------
(***************************************************************************)
(* Who is in which room, in peers.py.  Every peer keeps a replica of the   *)
(* member lists; one that starts gets them in answer to its ping, later    *)
(* changes are flooded as join and leave.  A message is a member of msgs   *)
(* from the moment it is sent until its handler thread ends, so messages   *)
(* overtake each other.  The list of rooms and its messages are left out.  *)
(***************************************************************************)
EXTENDS Naturals, FiniteSets

CONSTANTS
  Peer,         \* the ports of the peers
  Established,  \* those that have bootstrapped and know each other
  Room,         \* the rooms a user may enter
  User,         \* user names
  Calls,        \* Calls[p]: the names the user of p may type
  Contacts,     \* bound: Contacts[p] are the ports the bootstrap of p may ping
  MaxJoins,     \* bound: MaxJoins[p] is how often the user of p enters a room
  Leavers       \* bound: the peers whose users leave

ASSUME MembershipAssumption ==
  /\ Established \subseteq Peer /\ Leavers \subseteq Peer
  /\ MaxJoins \in [Peer -> Nat]
  /\ Calls \in [Peer -> SUBSET User] /\ Contacts \in [Peer -> SUBSET Peer]
  /\ "" \notin User

VARIABLES
  main,       \* where the main thread is
  neighbors,  \* neighbors
  seen,       \* seen, the flooded messages in it
  members,    \* members, as the set of pairs of a room and a user in it
  name,       \* username
  joined,     \* current_chatrooms
  shaken,     \* handshake_done
  pinged,     \* the ports pinged so far, each once
  joins,      \* rooms entered so far, for the bound
  todo,       \* the rooms an exit still has to take leave of
  msgs        \* messages in flight and in handler threads

vars == <<main, neighbors, seen, members, name, joined, shaken,
          pinged, joins, todo, msgs>>

Kinds == {"ping", "pong", "sync", "join", "leave"}

\* What a message says.  tag stands for the msg_id: the originator and the target of
\* the ping that the message is or answers.
Body == [kind : Kinds, src : Peer, tag : Peer \X Peer, users : SUBSET (Room \X User)]
Msg == [body : Body, dst : Peer, pc : {"in_flight", "handle"}]

TypeOK ==
  /\ main \in [Peer -> {"boot", "name", "room", "tell", "prompt", "leaving", "gone"}]
  /\ neighbors \in [Peer -> SUBSET Peer]
  /\ seen \in [Peer -> SUBSET Body]
  /\ members \in [Peer -> SUBSET (Room \X User)]
  /\ joined \in [Peer -> SUBSET Room]
  /\ name \in [Peer -> User \union {""}]
  /\ shaken \in [Peer -> BOOLEAN]
  /\ pinged \in [Peer -> SUBSET Peer]
  /\ joins \in [Peer -> Nat]
  /\ todo \in [Peer -> SUBSET Room]
  /\ msgs \subseteq Msg

Init ==
  /\ main = [p \in Peer |-> IF p \in Established THEN "room" ELSE "boot"]
  /\ neighbors = [p \in Peer |-> IF p \in Established THEN Established \ {p} ELSE {}]
  /\ seen = [p \in Peer |-> {}]
  /\ members = [p \in Peer |-> {}]
  /\ joined = [p \in Peer |-> {}]
  /\ name \in [Peer -> User \union {""}]
  /\ \A p \in Peer : IF p \in Established THEN name[p] \in Calls[p] ELSE name[p] = ""
  /\ shaken = [p \in Peer |-> FALSE]
  /\ pinged = [p \in Peer |-> {}]
  /\ joins = [p \in Peer |-> 0]
  /\ todo = [p \in Peer |-> {}]
  /\ msgs = {}

-----------------------------------------------------------------------------
Runs(p) == main[p] # "gone"
Gone == {p \in Peer : ~Runs(p)}

Says(kind, n, tag, users) == [kind |-> kind, src |-> n, tag |-> tag, users |-> users]
Copies(bodies, to) ==
  {[body |-> b, dst |-> d, pc |-> "in_flight"] : b \in bodies, d \in to \ Gone}

\* send_msg to each of the addresses: who does not answer is no neighbour any more
Sends(n, others, bodies, to) ==
  /\ msgs' = others \union Copies(bodies, to)
  /\ neighbors' = [neighbors EXCEPT ![n] = @ \ (to \intersect Gone)]

-----------------------------------------------------------------------------
(* The main thread. *)

\* network: a port that takes the connection is sent a ping.  Several of the
\* bootstrap threads may find one before peer_found stops the others.
Ping(n, x) ==
  LET b == Says("ping", n, <<n, x>>, {})
  IN  /\ main[n] = "boot" /\ x \in Contacts[n] \ {n} /\ Runs(x)
      /\ x \notin pinged[n]
      /\ pinged' = [pinged EXCEPT ![n] = @ \union {x}]
      /\ msgs' = msgs \union Copies({b}, {x})
      /\ UNCHANGED <<main, neighbors, seen, members, name, joined, shaken, joins,
                     todo>>

\* the bootstrap threads have ended and a pong has come
Handshake(n) ==
  /\ main[n] = "boot" /\ shaken[n]
  /\ main' = [main EXCEPT ![n] = "name"]
  /\ UNCHANGED <<neighbors, seen, members, name, joined, shaken, pinged, joins,
                 todo, msgs>>

\* username_check
UsernameCheck(n, u) == \E r \in Room : <<r, u>> \in members[n]

\* A slip: username is not declared global.
NameLocal(n, u) ==
  /\ main[n] = "name" /\ u \in Calls[n] /\ ~UsernameCheck(n, u)
  /\ main' = [main EXCEPT ![n] = "room"]
  /\ UNCHANGED <<neighbors, seen, members, name, joined, shaken, pinged, joins,
                 todo, msgs>>

\* The user keeps typing names until one is not taken.
Name(n, u) ==
  /\ main[n] = "name" /\ u \in Calls[n] /\ ~UsernameCheck(n, u)
  /\ name' = [name EXCEPT ![n] = u]
  /\ main' = [main EXCEPT ![n] = "room"]
  /\ UNCHANGED <<neighbors, seen, members, joined, shaken, pinged, joins, todo,
                 msgs>>

\* The user names the first room, or another one with d/Join.
EntersRoom(n) == main[n] \in {"room", "prompt"} /\ joins[n] < MaxJoins[n]

\* join_chatroom, the member list: who is listed already will not tell the others
Join(n, r) ==
  /\ EntersRoom(n)
  /\ joins' = [joins EXCEPT ![n] = @ + 1]
  /\ members' = [members EXCEPT ![n] = @ \union {<<r, name[n]>>}]
  /\ todo' = [todo EXCEPT ![n] = IF <<r, name[n]>> \in members[n] THEN {} ELSE {r}]
  /\ joined' = [joined EXCEPT ![n] = @ \union {r}]
  /\ main' = [main EXCEPT ![n] = "tell"]
  /\ UNCHANGED <<neighbors, seen, name, shaken, pinged, msgs>>

\* a message about the user and the rooms it enters or leaves
Tells(kind, n, rs) == {Says(kind, n, <<n, n>>, {<<r, name[n]>>}) : r \in rs}

\* join_chatroom, the message (the focus message that follows changes no list)
TellJoin(n) ==
  /\ main[n] = "tell"
  /\ IF todo[n] = {} THEN UNCHANGED <<msgs, neighbors>>
     ELSE Sends(n, msgs, Tells("join", n, todo[n]), neighbors[n])
  /\ todo' = [todo EXCEPT ![n] = {}]
  /\ main' = [main EXCEPT ![n] = "prompt"]
  /\ UNCHANGED <<seen, members, name, joined, shaken, pinged, joins>>

\* exit takes leave of every room, Ctrl-C only of the active one, which d/Switch may
\* have made any of them
Leave(n) ==
  /\ main[n] = "prompt" /\ n \in Leavers
  /\ \E rs \in {joined[n]} \union {{r} : r \in joined[n]} : todo' = [todo EXCEPT ![n] = rs]
  /\ main' = [main EXCEPT ![n] = "leaving"]
  /\ UNCHANGED <<neighbors, seen, members, name, joined, shaken, pinged, joins,
                 msgs>>

LeaveRoom(n, r) ==
  /\ main[n] = "leaving" /\ r \in todo[n]
  /\ Sends(n, msgs, Tells("leave", n, {r}), neighbors[n])
  /\ todo' = [todo EXCEPT ![n] = @ \ {r}]
  /\ UNCHANGED <<main, seen, members, name, joined, shaken, pinged, joins>>

\* The process ends, its handler threads with it.
Stop(n) ==
  /\ main[n] = "leaving" /\ todo[n] = {}
  /\ main' = [main EXCEPT ![n] = "gone"]
  /\ msgs' = {m \in msgs : m.dst # n}
  /\ UNCHANGED <<neighbors, seen, members, name, joined, shaken, pinged, joins,
                 todo>>

MainStep(n) ==
  \/ \E x \in Peer : Ping(n, x)
  \/ \E u \in User : Name(n, u)
  \/ \E r \in Room : Join(n, r) \/ LeaveRoom(n, r)
  \/ Handshake(n) \/ TellJoin(n)
  \/ Leave(n) \/ Stop(n)

-----------------------------------------------------------------------------
(* The handler threads. *)

At(n, m, pc, kinds) ==
  m \in msgs /\ m.dst = n /\ Runs(n) /\ m.pc = pc /\ m.body.kind \in kinds
Others(m) == msgs \ {m}
GoOn(m, pc) == Others(m) \union {[m EXCEPT !.pc = pc]}
LearntNot(n, b) == neighbors[n]  \* a slip
Learnt(n, b) == neighbors[n] \union ({b.src} \ {n})

\* handle_msg drops duplicates after it has learnt the originator.
Duplicate(n, m) ==
  /\ At(n, m, "in_flight", Kinds) /\ m.body \in seen[n]
  /\ msgs' = Others(m)
  /\ neighbors' = [neighbors EXCEPT ![n] = Learnt(n, m.body)]
  /\ UNCHANGED <<main, seen, members, name, joined, shaken, pinged, joins, todo>>

\* The first copy of a message that may be passed on.  (The other messages arrive
\* once, and what seen holds of them is left out.)
First(n, m, kinds) ==
  /\ At(n, m, "in_flight", kinds) /\ m.body \notin seen[n]
  /\ seen' = [seen EXCEPT ![n] = @ \union {m.body}]

\* ping: a pong, and the rest of the answer later
Pong(n, m) ==
  /\ First(n, m, {"ping"})
  /\ neighbors' = [neighbors EXCEPT ![n] = Learnt(n, m.body) \ (Gone \intersect {m.body.src})]
  /\ msgs' = GoOn(m, "handle") \union
             Copies({Says("pong", n, m.body.tag, {})}, {m.body.src})
  /\ UNCHANGED <<main, members, name, joined, shaken, pinged, joins, todo>>

\* ping: the members, when there are any
MembersSent(n, b) ==
  IF members[n] = {} THEN {} ELSE {Says("sync", n, b.tag, members[n])}

\* ping: the members are sent and the ping is passed on
Answer(n, m) ==
  LET b == m.body
  IN  /\ At(n, m, "handle", {"ping"})
      /\ msgs' = Others(m) \union Copies(MembersSent(n, b), {b.src})
                          \union Copies({b}, neighbors[n] \ {b.src})
      /\ neighbors' = [neighbors EXCEPT ![n] = @ \ Gone]
      /\ UNCHANGED <<main, seen, members, name, joined, shaken, pinged, joins,
                     todo>>

\* pong: the bootstrap is over
Shake(n, m) ==
  /\ At(n, m, "in_flight", {"pong"})
  /\ shaken' = [shaken EXCEPT ![n] = TRUE]
  /\ msgs' = Others(m)
  /\ neighbors' = [neighbors EXCEPT ![n] = Learnt(n, m.body)]
  /\ UNCHANGED <<main, seen, members, name, joined, pinged, joins, todo>>

MemberSync(n, m) ==
  /\ At(n, m, "in_flight", {"sync"})
  /\ members' = [members EXCEPT ![n] = @ \union m.body.users]
  /\ msgs' = Others(m)
  /\ neighbors' = [neighbors EXCEPT ![n] = Learnt(n, m.body)]
  /\ UNCHANGED <<main, seen, name, joined, shaken, pinged, joins, todo>>

\* Joins and leaves are passed on before anything else.
Relay(n, m) ==
  /\ First(n, m, {"join", "leave"})
  /\ LET to == Learnt(n, m.body) \ {m.body.src}
     IN  /\ msgs' = GoOn(m, "handle") \union Copies({m.body}, to)
         /\ neighbors' = [neighbors EXCEPT ![n] = Learnt(n, m.body) \ (to \intersect Gone)]
  /\ UNCHANGED <<main, members, name, joined, shaken, pinged, joins, todo>>

\* A join by somebody who is listed is ignored.
HandleJoin(n, m) ==
  /\ At(n, m, "handle", {"join"})
  /\ members' = [members EXCEPT ![n] = @ \union m.body.users]
  /\ msgs' = Others(m)
  /\ UNCHANGED <<main, neighbors, seen, name, joined, shaken, pinged, joins,
                 todo>>

\* A slip: the room goes with the user.
HandleLeaveRoom(n, m) ==
  /\ At(n, m, "handle", {"leave"})
  /\ members' = [members EXCEPT ![n] = {x \in @ : \A y \in m.body.users : x[1] # y[1]}]
  /\ msgs' = Others(m)
  /\ UNCHANGED <<main, neighbors, seen, name, joined, shaken, pinged, joins,
                 todo>>

HandleLeave(n, m) ==
  /\ At(n, m, "handle", {"leave"})
  /\ members' = [members EXCEPT ![n] = @ \ m.body.users]
  /\ msgs' = Others(m)
  /\ UNCHANGED <<main, neighbors, seen, name, joined, shaken, pinged, joins,
                 todo>>

HandlerStep(n, m) ==
  \/ Duplicate(n, m) \/ Pong(n, m) \/ Answer(n, m) \/ Shake(n, m) \/ MemberSync(n, m)
  \/ Relay(n, m) \/ HandleJoin(n, m) \/ HandleLeave(n, m)

Next == \E n \in Peer : MainStep(n) \/ \E m \in msgs : HandlerStep(n, m)

Spec == Init /\ [][Next]_vars

-----------------------------------------------------------------------------
(* Properties. *)

\* Nobody has anything left to do but what a user starts.
Quiet ==
  msgs = {} /\ \A p \in Peer : main[p] \in {"name", "room", "prompt", "gone"}

InRooms(p) == {<<r, name[p]>> : r \in joined[p]}

\* Once every message has been handled, everybody is on every member list, whether
\* the others were told by a join or found it in an answer to their ping.  (Once
\* somebody has left this may fail: a starting peer that heard from nobody else tells
\* nobody of the room it enters.)
MembersAgree ==
  Quiet /\ Gone = {} => \A p, q \in Peer : InRooms(q) \subseteq members[p]

\* Nobody who stays is taken off a list: a leave that is handled late, in whatever
\* order with joins and answers to pings, hits only whom it is from.
StayersKept ==
  [][\A p, q \in Peer : main[q] \in {"tell", "prompt"} =>
       InRooms(q) \intersect members[p] \subseteq members'[p]]_vars

\* "When a user name is already taken, makes sure the user doesnt continute without
\* pickign a new": two users who are in rooms have different names.
NamesDiffer ==
  \A p, q \in Peer :
    p # q /\ Runs(p) /\ Runs(q) /\ joined[p] # {} /\ joined[q] # {} => name[p] # name[q]

\* "leave means they will be removed from the memeber list": once every message has
\* been handled, who has left is on no list.
LeaversRemoved ==
  Quiet => \A p, q \in Peer : Runs(p) /\ ~Runs(q) =>
                              InRooms(q) \intersect members[p] = {}

-----------------------------------------------------------------------------
(* Why nobody who stays is struck off, as an inductive invariant. *)

\* Whoever has passed username_check has one of the names its user types, and a leave
\* is about a user who is leaving.
Named == \A p \in Peer : main[p] \notin {"boot", "name"} => name[p] \in Calls[p]
LeavesOwn ==
  \A m \in msgs : m.body.kind = "leave" =>
    /\ main[m.body.src] \in {"leaving", "gone"}
    /\ \A x \in m.body.users : x[2] = name[m.body.src]

\* Hypothesis of a theorem: no two users type the same name.
DistinctCalls == \A p, q \in Peer : p # q => Calls[p] \intersect Calls[q] = {}
=============================================================================
