------------------------------- MODULE Gossip -------------------------------
(***************************************************************************)
(* What users of peers.py write to each other: chat in a room, d/Flood,    *)
(* d/discoverTopic and the focus message of d/Switch.  A message is        *)
(* flooded over the overlay; every peer relays it once and displays it     *)
(* when it is for the room, or one of the rooms, its user is in; a chat    *)
(* message enters a history ordered by Lamport time.  A copy is a member   *)
(* of msgs from the moment it is sent until its handler thread ends;       *)
(* copies overtake each other.  All peers run; joining a room is in        *)
(* Membership.                                                             *)
(***************************************************************************)
EXTENDS Naturals, FiniteSets

CONSTANTS
  Peer,      \* the ports of the peers
  Links,     \* Links[p]: the neighbours p has when the run starts
  Joined,    \* Joined[p]: current_chatrooms of p
  InRoom,    \* InRoom[p]: the one of them p is active in at first
  TTL,       \* the time to live a message starts with: 5
  SeenMax,   \* how many message identifiers a peer remembers: 100000
  Topics,    \* bound: the sets of rooms the topics typed match
  Types,     \* bound: Types[p] are the kinds of message the user of p types
  MaxSaid,   \* bound: how many messages users type, focus messages included
  MaxTick    \* bound: up to which value of its clock p sends anything else

Rooms == UNION {Joined[p] : p \in Peer}

ASSUME GossipAssumption ==
  /\ Links \in [Peer -> SUBSET Peer] /\ \A p \in Peer : p \notin Links[p]
  /\ \A p \in Peer : InRoom[p] \in Joined[p]
  /\ Topics \subseteq SUBSET Rooms
  /\ TTL \in Nat /\ SeenMax \in Nat
  /\ MaxSaid \in Nat /\ MaxTick \in [Peer -> Nat]
  /\ Types \in [Peer -> SUBSET {"chat", "flood", "topic"}]

VARIABLES
  clock,      \* timestamp
  neighbors,  \* neighbors
  seen,       \* seen
  current,    \* current_chatroom
  announced,  \* whether d/Switch has told the others of current
  history,    \* chat_history, an entry with its place in the order of arrival
  shown,      \* what each user has had displayed
  known,      \* that, what the user has written, and what the authors of it knew
  entered,    \* the focus message about current, if there is one, as a set
  said,       \* what the users have written, and for whom
  msgs        \* copies in flight and in handler threads

vars == <<clock, neighbors, seen, current, announced, history, shown, known, entered,
          said, msgs>>
\* The state handler threads leave alone, and that of the histories they may change
user == <<current, announced, entered, said>>
screen == <<history, shown, known>>

\* A message is named by its sender and Lamport time, which are as unique as the
\* msg_id the sender draws.
Id(m) == <<m.src, m.lamport>>
Ids == Peer \X Nat
Kinds == {"chat", "flood", "topic", "focus_enter"}
Copy == [src : Peer, lamport : Nat, kind : Kinds, rooms : SUBSET Rooms,
         past : SUBSET Ids, ttl : Nat, via : Peer, dst : Peer, mine : BOOLEAN,
         pc : {"in_flight", "relay", "show"}]
Said == [id : Ids, kind : Kinds, rooms : SUBSET Rooms]
Entry == [src : Peer, lamport : Nat, past : SUBSET Ids, at : Nat]

TypeOK ==
  /\ clock \in [Peer -> Nat]
  /\ neighbors \in [Peer -> SUBSET Peer]
  /\ seen \in [Peer -> SUBSET Ids] /\ \A p \in Peer : IsFiniteSet(seen[p])
  /\ history \in [Peer -> SUBSET Entry] /\ \A p \in Peer : IsFiniteSet(history[p])
  /\ current \in [Peer -> Rooms] /\ announced \in [Peer -> BOOLEAN]
  /\ shown \in [Peer -> SUBSET Ids] /\ known \in [Peer -> SUBSET Ids]
  /\ entered \in [Peer -> SUBSET Ids] /\ said \subseteq Said
  /\ msgs \subseteq Copy

Init ==
  /\ clock = [p \in Peer |-> 0]
  /\ neighbors = Links
  /\ seen = [p \in Peer |-> {}]
  /\ history = [p \in Peer |-> {}]
  /\ current = [p \in Peer |-> InRoom[p]] /\ announced = [p \in Peer |-> TRUE]
  /\ shown = [p \in Peer |-> {}] /\ known = [p \in Peer |-> {}]
  /\ entered = [p \in Peer |-> {}] /\ said = {}
  /\ msgs = {}

-----------------------------------------------------------------------------
\* Slips the mutants put in the place of a definition below.
MergedIgnored(mine, received) == mine + 1
InOrderArrived(e, f) == e.at < f.at
ForwardedEarlyStop(n, m, to) ==
  IF m.ttl <= 1 THEN {}
  ELSE {[m EXCEPT !.ttl = @ - 1, !.via = n, !.dst = a, !.mine = FALSE,
                    !.pc = "in_flight"] : a \in to}
RememberNothing(n, id) == UNCHANGED seen
ForwardedNoLimit(n, m, to) ==
  {[m EXCEPT !.ttl = @ - 1, !.via = n, !.dst = a, !.mine = FALSE,
                    !.pc = "in_flight"] : a \in to}

-----------------------------------------------------------------------------
\* updating_lamport_time
Merged(mine, received) == (IF mine < received THEN received ELSE mine) + 1

\* forward: nothing once the time to live is used up
Forwarded(n, m, to) ==
  IF m.ttl = 0 THEN {}
  ELSE {[m EXCEPT !.ttl = @ - 1, !.via = n, !.dst = a, !.mine = FALSE,
                    !.pc = "in_flight"] : a \in to}

\* seen.add; one identifier too many and an arbitrary one is dropped
Remember(n, id) ==
  LET S == seen[n] \union {id} IN
  IF Cardinality(S) <= SeenMax THEN seen' = [seen EXCEPT ![n] = S]
  ELSE \E x \in S : seen' = [seen EXCEPT ![n] = S \ {x}]

Bounded == Cardinality(said) + Cardinality({p \in Peer : ~announced[p]}) < MaxSaid

\* The user's message: with the next clock value, to every neighbour.  It is neither
\* displayed here nor kept in the sender's own history.
Sends(n, kind, rooms) ==
  LET m == [src |-> n, lamport |-> clock[n] + 1, kind |-> kind, rooms |-> rooms,
            past |-> known[n], ttl |-> TTL, via |-> n, dst |-> n, mine |-> FALSE,
            pc |-> "in_flight"]
  IN  /\ clock' = [clock EXCEPT ![n] = @ + 1]
      /\ msgs' = msgs \union Forwarded(n, m, neighbors[n])
      /\ known' = [known EXCEPT ![n] = @ \union {Id(m)}]
      /\ said' = said \union {[id |-> Id(m), kind |-> kind, rooms |-> rooms]}

\* Whom a message is for: the active room, everybody, or the rooms a topic matches
Audiences(n, kind) ==
  CASE kind = "chat" -> {{current[n]}} [] kind = "flood" -> {Rooms} [] OTHER -> Topics

\* A chat message, d/Flood or d/discoverTopic
Say(n, kind) ==
  /\ Bounded /\ announced[n] /\ kind \in Types[n]
  /\ \E rooms \in Audiences(n, kind) : Sends(n, kind, rooms)
  /\ UNCHANGED <<neighbors, seen, current, announced, history, shown, entered>>

\* d/Switch to a room the user has joined; the focus_leave that goes out first is only
\* displayed, and counts as an OtherSend here
Switch(n, r) ==
  /\ Bounded /\ announced[n] /\ r \in Joined[n] \ {current[n]}
  /\ current' = [current EXCEPT ![n] = r]
  /\ announced' = [announced EXCEPT ![n] = FALSE]
  /\ entered' = [entered EXCEPT ![n] = {}]
  /\ clock' = [clock EXCEPT ![n] = @ + 1]
  /\ UNCHANGED <<neighbors, seen, screen, said, msgs>>

\* d/Switch: the others are told that the user is now active in the room.
FocusEnter(n) ==
  /\ ~announced[n] /\ Sends(n, "focus_enter", {current[n]})
  /\ announced' = [announced EXCEPT ![n] = TRUE]
  /\ entered' = [entered EXCEPT ![n] = {<<n, clock[n] + 1>>}]
  /\ UNCHANGED <<neighbors, seen, current, history, shown>>

\* any other message the peer sends: increment_timestamp
OtherSend(n) ==
  /\ clock[n] < MaxTick[n]
  /\ clock' = [clock EXCEPT ![n] = @ + 1]
  /\ UNCHANGED <<neighbors, seen, screen, user, msgs>>

At(n, m, pc) == m \in msgs /\ m.dst = n /\ m.pc = pc
GoOn(m, pc) == (msgs \ {m}) \union {[m EXCEPT !.pc = pc]}

\* Whether a message is for the user: a topic goes by the rooms joined, the other kinds
\* by the active one.
MineAtFirst(n, m) == InRoom[n] \in m.rooms  \* a slip
Mine(n, m) ==
  IF m.kind = "topic" THEN Joined[n] \intersect m.rooms # {} ELSE current[n] \in m.rooms

\* A slip: the originator is not left out.
RelayToAll(n, m) ==
  /\ At(n, m, "relay")
  /\ msgs' = GoOn(m, "show") \union Forwarded(n, m, neighbors[n])
  /\ UNCHANGED <<clock, neighbors, seen, screen, user>>

\* handle_msg: merge the clock, copy the rooms the user is in (what becomes of the
\* message is decided by that copy), learn the originator, drop duplicates: four lock
\* sections in a row, taken as one step
Receive(n, m) ==
  /\ At(n, m, "in_flight")
  /\ clock' = [clock EXCEPT ![n] = Merged(@, m.lamport)]
  /\ neighbors' = [neighbors EXCEPT ![n] = @ \union ({m.src} \ {n})]
  /\ IF Id(m) \in seen[n]
     THEN msgs' = msgs \ {m} /\ UNCHANGED seen
     ELSE /\ msgs' = (msgs \ {m}) \union {[m EXCEPT !.pc = "relay", !.mine = Mine(n, m)]}
          /\ Remember(n, Id(m))
  /\ UNCHANGED <<screen, user>>

\* handle_msg: forward to everybody but the originator
Relay(n, m) ==
  /\ At(n, m, "relay")
  /\ msgs' = GoOn(m, "show") \union Forwarded(n, m, neighbors[n] \ {m.src})
  /\ UNCHANGED <<clock, neighbors, seen, screen, user>>

\* handle_msg: a message for another room goes no further; the others are displayed,
\* and a chat message enters the history
Show(n, m) ==
  /\ At(n, m, "show")
  /\ IF m.mine
     THEN /\ shown' = [shown EXCEPT ![n] = @ \union {Id(m)}]
          /\ known' = [known EXCEPT ![n] = @ \union m.past \union {Id(m)}]
     ELSE UNCHANGED <<shown, known>>
  /\ IF m.mine /\ m.kind = "chat"
     THEN history' = [history EXCEPT ![n] = @ \union
            {[src |-> m.src, lamport |-> m.lamport, past |-> m.past,
              at |-> Cardinality(@)]}]
     ELSE UNCHANGED history
  /\ msgs' = msgs \ {m}
  /\ UNCHANGED <<clock, neighbors, seen, user>>

\* chat_history.sort(key = Lamport time), which is stable: how d/History lists
\* two entries
Listed(e, f) == e.lamport < f.lamport \/ (e.lamport = f.lamport /\ e.at < f.at)

HandlerStep(n, m) == Receive(n, m) \/ Relay(n, m) \/ Show(n, m)

Next ==
  \E n \in Peer : \/ \E kind \in Types[n] : Say(n, kind)
                  \/ \E r \in Joined[n] : Switch(n, r)
                  \/ FocusEnter(n) \/ OtherSend(n)
                  \/ \E m \in msgs : HandlerStep(n, m)

Spec == Init /\ [][Next]_vars

\* Copies arrive and handler threads run.
Fairness == \A n \in Peer : WF_vars(\E m \in msgs : HandlerStep(n, m))

FairSpec == Spec /\ Fairness

-----------------------------------------------------------------------------
(* Properties. *)

\* "making sure lamport timestamps are good and ordering is correct": no history
\* lists a message before one its author had read or written, in whatever order
\* and over however many peers the two arrived.
CausalHistory ==
  \A p \in Peer : \A e, f \in history[p] : Listed(e, f) => Id(f) \notin e.past

\* A message is kept once however many copies arrive, and never by its sender.
KeptOnce ==
  \A p \in Peer : \A e \in history[p] :
    /\ e.src # p
    /\ \A f \in history[p] : Id(e) = Id(f) => e = f

\* Whenever the users pause, what they typed has been displayed to everybody it is for
\* wherever they switched to, as long
\* as no way through the overlay is longer than the time to live.  That the shortest
\* way is short enough does not do: a copy that used its time up on a roundabout way
\* may come first, and the next one is dropped as a duplicate.
Reaches(x, n) ==
  IF x.kind = "topic" THEN Joined[n] \intersect x.rooms # {} ELSE Joined[n] \subseteq x.rooms
MessagesArrive ==
  []<>(\A x \in said, n \in Peer : x.id[1] # n /\ Reaches(x, n) => x.id \in shown[n])

\* "is now active here": who has read that a user is active in a room and writes to it
\* is read by that user, unless the user goes elsewhere first; no handler that works
\* on such a message has looked at the room the user was in before.
FocusHeeded ==
  \A m \in msgs :
    /\ m.pc # "in_flight" /\ current[m.dst] \in m.rooms
    /\ entered[m.dst] # {} /\ entered[m.dst] \subseteq m.past
    => m.mine

-----------------------------------------------------------------------------
(* Why histories are causal, as an inductive invariant. *)

\* The clock of a peer is past whatever its user knows, and past a message from
\* the moment its handler runs; a message is later than all its author knew.
CausalInv ==
  /\ \A p \in Peer : \A x \in known[p] : x[2] <= clock[p]
  /\ \A m \in msgs : /\ \A x \in m.past : x[2] < m.lamport
                     /\ m.pc # "in_flight" => m.lamport <= clock[m.dst]
  /\ \A p \in Peer : \A e \in history[p] : \A x \in e.past : x[2] < e.lamport

(* Why a focus message is heeded.  A user is active in a room joined, and a message
   known, or handled anywhere, is not from the future of its author; so no message
   can have the focus message in its past that was received before d/Switch. *)
HeedInv ==
  /\ \A p \in Peer : /\ current[p] \in Joined[p]
                     /\ \A x \in known[p] : x[2] <= clock[x[1]]
  /\ \A m \in msgs : /\ m.lamport <= clock[m.src]
                     /\ \A x \in m.past : x[2] <= clock[x[1]]
  /\ FocusHeeded

(* Why a message is kept once, as long as no identifier is dropped. *)

\* What a handler works on is remembered, is not in the history yet, and has no
\* other handler; what is in the history is remembered; nobody is a neighbour of
\* itself, and nobody is sent its own message.
Handled(m) == m \in msgs /\ m.pc # "in_flight"
KeptInv ==
  /\ \A p \in Peer : p \notin neighbors[p]
  /\ \A m \in msgs : m.src # m.dst
  /\ \A m \in msgs : Handled(m) =>
       /\ Id(m) \in seen[m.dst]
       /\ \A e \in history[m.dst] : Id(e) # Id(m)
       /\ \A k \in msgs : Handled(k) /\ k.dst = m.dst /\ Id(k) = Id(m) => k = m
  /\ \A p \in Peer : \A e \in history[p] : Id(e) \in seen[p]
  /\ KeptOnce

\* Room for one more identifier.
NeverFull == \A p \in Peer : Cardinality(seen[p]) < SeenMax
=============================================================================
