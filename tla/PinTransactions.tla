-------------------------- MODULE PinTransactions --------------------------
(***************************************************************************)
(* Pinned messages of peers.py: d/Pin runs a one-operation transaction     *)
(* that validates, applies and broadcasts inside the critical section, and *)
(* a peer that joins is told the pins in answer to its ping.  The section  *)
(* itself is the abstract Mutex, which CriticalSection implements.         *)
(* tx_commit, cs_reply and pin_sync travel on connections of their own, so *)
(* any message may overtake any other.                                     *)
(***************************************************************************)
EXTENDS Naturals, FiniteSets

CONSTANTS
  Peer,      \* the ports of the peers
  Starters,  \* the peers that run and know each other from the start
  Room,      \* the rooms
  Tx,        \* transaction identifiers, drawn from new_id
  RoomOf,    \* RoomOf[t]: the room the pin operation of t names
  NoTx,      \* None, and a room without a pin
  Pinners,   \* bound: the peers whose users type d/Pin
  MaxExits   \* bound: peers that exit or crash

ASSUME PinAssumption ==
  /\ Starters \subseteq Peer /\ RoomOf \in [Tx -> Room]
  /\ NoTx \notin Tx /\ Pinners \subseteq Peer /\ MaxExits \in Nat

VARIABLES
  up,         \* peers whose process runs
  phase,      \* what each peer is doing in the critical section
  neighbors,  \* neighbors
  main,       \* where the main thread is
  current,    \* current_transaction_id
  status,     \* transactions: the status of each identifier, "none" when absent
  pins,       \* pinned_messages: the transaction that pinned each room
  todo,       \* peers the broadcast has still to send to
  pinged,     \* seen: the pings a peer has handled, by sender and msg_id
  msgs        \* messages in flight

vars == <<up, phase, neighbors, main, current, status, pins, todo, pinged, msgs>>

Section == INSTANCE Mutex

MainPC == {"off", "boot", "prompt", "wait", "validate", "apply", "mark", "copy",
           "spread"}
Pins == [Room -> Tx \union {NoTx}]
NoPins == [r \in Room |-> NoTx]
Message ==
  [type : {"pong"}, src : Peer, dst : Peer]
    \union [type : {"ping"}, src : Peer, dst : Peer, id : Peer]
    \union [type : {"pin_sync"}, src : Peer, dst : Peer, pins : Pins]
    \union [type : {"tx_commit", "tx_abort"}, src : Peer, dst : Peer, tx : Tx]

TypeOK ==
  /\ up \subseteq Peer /\ Section!TypeOK
  /\ neighbors \in [Peer -> SUBSET Peer]
  /\ main \in [Peer -> MainPC]
  /\ current \in [Peer -> Tx \union {NoTx}]
  /\ status \in [Peer -> [Tx -> {"none", "active", "committed", "aborted"}]]
  /\ pins \in [Peer -> Pins]
  /\ todo \in [Peer -> SUBSET Peer]
  /\ pinged \in [Peer -> SUBSET (Peer \X Peer)]
  /\ msgs \subseteq Message

Init ==
  /\ up = Starters /\ Section!Init
  /\ neighbors = [p \in Peer |-> IF p \in Starters THEN Starters \ {p} ELSE {}]
  /\ main = [p \in Peer |-> IF p \in Starters THEN "prompt" ELSE "off"]
  /\ current = [p \in Peer |-> NoTx]
  /\ status = [p \in Peer |-> [t \in Tx |-> "none"]]
  /\ pins = [p \in Peer |-> NoPins]
  /\ todo = [p \in Peer |-> {}] /\ pinged = [p \in Peer |-> {}]
  /\ msgs = {}

At(n, pc) == n \in up /\ main[n] = pc
Goto(n, pc) == main' = [main EXCEPT ![n] = pc]

\* Slips the mutants put in the place of a definition below.
ApplyOwnOnly(n, t) ==
  IF current[n] = t THEN pins' = [pins EXCEPT ![n][RoomOf[t]] = t] ELSE UNCHANGED pins
StartCommitAtOnce(n) ==
  /\ At(n, "wait") /\ Goto(n, "validate")
  /\ UNCHANGED <<up, phase, neighbors, current, status, pins, todo, pinged, msgs>>
OutcomeCommit(n) == "tx_commit"
OutcomeStatus(n) == status[n][current[n]]
AnswersNoPins(n, j) == {[type |-> "pong", src |-> n, dst |-> j]}

SetStatus(n, t, s) == status' = [status EXCEPT ![n][t] = s]

\* validate_transaction for a pin: the room has no pin, or this transaction's
Valid(n, t) == pins[n][RoomOf[t]] \in {NoTx, t}

\* apply_transaction for a pin: whatever was pinned is replaced
Apply(n, t) == pins' = [pins EXCEPT ![n][RoomOf[t]] = t]

-----------------------------------------------------------------------------
(* The main thread: d/Pin, d/CS and d/Done. *)

\* begin_transaction and add_pin_op: a transaction has a new identifier
Begin(n, t) ==
  /\ \A p \in Peer : status[p][t] = "none"
  /\ current' = [current EXCEPT ![n] = t]
  /\ SetStatus(n, t, "active")

\* d/Pin: a transaction begins, and commit_transaction gets to the wait in
\* with_global_cs.  A d/CS that is outstanding or granted is used as it is.
Pin(n, t) ==
  /\ n \in Pinners /\ At(n, "prompt")
  /\ Begin(n, t)
  /\ IF phase[n] = "idle" THEN Section!Request(n) ELSE UNCHANGED phase
  /\ Goto(n, "wait")
  /\ UNCHANGED <<up, neighbors, pins, todo, pinged, msgs>>

RequestCS(n) ==
  /\ At(n, "prompt") /\ Section!Request(n)
  /\ UNCHANGED <<up, neighbors, main, current, status, pins, todo, pinged, msgs>>

Done(n) ==
  /\ At(n, "prompt") /\ Section!Release(n)
  /\ UNCHANGED <<up, neighbors, main, current, status, pins, todo, pinged, msgs>>

\* the last vote arrives, in whichever thread
EnterCS(n) ==
  /\ n \in up /\ Section!Enter(n)
  /\ UNCHANGED <<up, neighbors, main, current, status, pins, todo, pinged, msgs>>

\* with_global_cs calls do_commit
StartCommit(n) ==
  /\ At(n, "wait") /\ phase[n] = "in_cs"
  /\ Goto(n, "validate")
  /\ UNCHANGED <<up, phase, neighbors, current, status, pins, todo, pinged, msgs>>

\* A slip: the pin is set before a conflict is looked for, and stays.
ValidateLate(n) ==
  /\ At(n, "validate")
  /\ Apply(n, current[n])
  /\ IF Valid(n, current[n])
     THEN Goto(n, "apply") /\ UNCHANGED status
     ELSE Goto(n, "copy") /\ SetStatus(n, current[n], "aborted")
  /\ UNCHANGED <<up, phase, neighbors, current, todo, pinged, msgs>>

\* do_commit takes transaction_lock and validates; a conflict aborts
Validate(n) ==
  /\ At(n, "validate")
  /\ IF Valid(n, current[n])
     THEN Goto(n, "apply") /\ UNCHANGED status
     ELSE Goto(n, "copy") /\ SetStatus(n, current[n], "aborted")
  /\ UNCHANGED <<up, phase, neighbors, current, pins, todo, pinged, msgs>>

\* apply_transaction.  The lock is still held, but the handler of a ping does not take
\* it: it may pass the pin on before the next step, and the peer exit before it.
ApplyLocally(n) ==
  /\ At(n, "apply")
  /\ Apply(n, current[n])
  /\ Goto(n, "mark")
  /\ UNCHANGED <<up, phase, neighbors, current, status, todo, pinged, msgs>>

\* the status is set and transaction_lock released
MarkCommitted(n) ==
  /\ At(n, "mark")
  /\ SetStatus(n, current[n], "committed")
  /\ Goto(n, "copy")
  /\ UNCHANGED <<up, phase, neighbors, current, pins, todo, pinged, msgs>>

\* broadcast_tx_commit, or broadcast_tx_abort with the lock held: forward
\* copies the neighbours
Broadcast(n) ==
  /\ At(n, "copy")
  /\ todo' = [todo EXCEPT ![n] = neighbors[n]]
  /\ Goto(n, "spread")
  /\ UNCHANGED <<up, phase, neighbors, current, status, pins, pinged, msgs>>

Outcome(n) == IF status[n][current[n]] = "committed" THEN "tx_commit" ELSE "tx_abort"

\* send_msg: a peer that is gone is forgotten
SendOutcome(n) ==
  /\ At(n, "spread")
  /\ \E a \in todo[n] :
       /\ todo' = [todo EXCEPT ![n] = @ \ {a}]
       /\ IF a \in up
          THEN /\ msgs' = msgs \union
                    {[type |-> Outcome(n), src |-> n, dst |-> a, tx |-> current[n]]}
               /\ UNCHANGED neighbors
          ELSE /\ neighbors' = [neighbors EXCEPT ![n] = @ \ {a}]
               /\ UNCHANGED msgs
  /\ UNCHANGED <<up, phase, main, current, status, pins, pinged>>

\* do_commit returns: release_cs, and the transaction is no longer current
Finish(n) ==
  /\ At(n, "spread") /\ todo[n] = {}
  /\ Section!Release(n)
  /\ current' = [current EXCEPT ![n] = NoTx]
  /\ Goto(n, "prompt")
  /\ UNCHANGED <<up, neighbors, status, pins, todo, pinged, msgs>>

-----------------------------------------------------------------------------
(* Peers that join, exit and crash. *)

\* each ping has a msg_id of its own, named here for the peer it was first sent to
Ping(n, a, id) == [type |-> "ping", src |-> n, dst |-> a, id |-> id]

\* A process starts: bootstrap runs a thread per port.  One that reaches a peer
\* sets peer_found, which is checked before connecting, so several may ping.
Join(n) ==
  /\ n \notin up /\ main[n] = "off"
  /\ up' = up \union {n}
  /\ Goto(n, "boot")
  /\ \E found \in (SUBSET up) \ {{}} :
       msgs' = msgs \union {Ping(n, a, a) : a \in found}
  /\ UNCHANGED <<phase, neighbors, current, status, pins, todo, pinged>>

Exit(n) ==
  /\ n \in up /\ Cardinality({p \in Peer : phase[p] = "gone"}) < MaxExits
  /\ up' = up \ {n} /\ Section!Exit(n)
  /\ msgs' = {m \in msgs : m.dst # n}
  /\ UNCHANGED <<neighbors, main, current, status, pins, todo, pinged>>

-----------------------------------------------------------------------------
(* The handlers. *)

\* the main thread holds transaction_lock
LockHeld(n) ==
  \/ main[n] \in {"apply", "mark"}
  \/ main[n] \in {"copy", "spread"} /\ Outcome(n) = "tx_abort"

\* what handle_msg does for every message: the sender becomes a neighbour
Takes(n, m) ==
  /\ n \in up /\ m \in msgs /\ m.dst = n
  /\ neighbors' = [neighbors EXCEPT ![n] = @ \union {m.src}]

HandleCommit(n, m) ==
  /\ Takes(n, m) /\ m.type = "tx_commit" /\ ~ LockHeld(n)
  /\ SetStatus(n, m.tx, "committed")
  /\ Apply(n, m.tx)
  /\ msgs' = msgs \ {m}
  /\ UNCHANGED <<up, phase, main, current, todo, pinged>>

HandleAbort(n, m) ==
  /\ Takes(n, m) /\ m.type = "tx_abort" /\ ~ LockHeld(n)
  /\ SetStatus(n, m.tx, "aborted")
  /\ msgs' = msgs \ {m}
  /\ UNCHANGED <<up, phase, main, current, pins, todo, pinged>>

\* pong and, when there are pins, pin_sync to the peer that joined
Answers(n, j) ==
  {[type |-> "pong", src |-> n, dst |-> j]}
    \union IF pins[n] = NoPins THEN {}
           ELSE {[type |-> "pin_sync", src |-> n, dst |-> j, pins |-> pins[n]]}

\* A ping is answered and passed on once; a copy of it is dropped.
HandlePing(n, m) ==
  /\ n \in up /\ m \in msgs /\ m.dst = n /\ m.type = "ping"
  /\ IF <<m.src, m.id>> \in pinged[n]
     THEN /\ msgs' = msgs \ {m}
          /\ neighbors' = [neighbors EXCEPT ![n] = @ \union {m.src}]
          /\ UNCHANGED pinged
     ELSE /\ pinged' = [pinged EXCEPT ![n] = @ \union {<<m.src, m.id>>}]
          /\ neighbors' = [neighbors EXCEPT ![n] = (@ \union {m.src}) \intersect up]
          /\ LET rest == neighbors[n] \ {m.src}
                 out == (IF m.src \in up THEN Answers(n, m.src) ELSE {})
                          \union {Ping(m.src, a, m.id) : a \in rest \intersect up}
             IN  msgs' = (msgs \ {m}) \union out
  /\ UNCHANGED <<up, phase, main, current, status, pins, todo>>

\* handshake_done: the user gets a prompt
HandlePong(n, m) ==
  /\ Takes(n, m) /\ m.type = "pong"
  /\ IF main[n] = "boot" THEN Goto(n, "prompt") ELSE UNCHANGED main
  /\ msgs' = msgs \ {m}
  /\ UNCHANGED <<up, phase, current, status, pins, todo, pinged>>

\* the pins received replace the ones here; no lock is taken
HandlePinSync(n, m) ==
  /\ Takes(n, m) /\ m.type = "pin_sync"
  /\ pins' = [pins EXCEPT ![n] =
               [r \in Room |-> IF m.pins[r] = NoTx THEN @[r] ELSE m.pins[r]]]
  /\ msgs' = msgs \ {m}
  /\ UNCHANGED <<up, phase, main, current, status, todo, pinged>>

-----------------------------------------------------------------------------

MainStep(n) ==
  \/ StartCommit(n) \/ Validate(n) \/ ApplyLocally(n) \/ MarkCommitted(n)
  \/ Broadcast(n) \/ SendOutcome(n) \/ Finish(n)

UserStep(n) == RequestCS(n) \/ Done(n) \/ \E t \in Tx : Pin(n, t)

HandlerStep(n, m) ==
  \/ HandleCommit(n, m) \/ HandleAbort(n, m)
  \/ HandlePing(n, m) \/ HandlePong(n, m) \/ HandlePinSync(n, m)

Next ==
  \E n \in Peer : \/ MainStep(n) \/ UserStep(n) \/ EnterCS(n) \/ Join(n) \/ Exit(n)
                  \/ \E m \in msgs : HandlerStep(n, m)

Spec == Init /\ [][Next]_vars

\* As long as there are threads that can run, some of them do, and messages to running
\* peers arrive; it need not be everyone's turn, as what the threads do comes to an end.
Fairness == WF_vars(\E n \in Peer : MainStep(n) \/ \E m \in msgs : HandlerStep(n, m))

FairSpec == Spec /\ Fairness

-----------------------------------------------------------------------------
(* Properties. *)

\* "This runs inside the distributed critical section": from validation to the
\* last tx_commit or tx_abort of its broadcast a peer is alone in do_commit.
Committing(p) == main[p] \in {"validate", "apply", "mark", "copy", "spread"}
OneCommitter == \A p, q \in up : Committing(p) /\ Committing(q) => p = q

\* "for atomicity": no transaction is committed at one peer and aborted at
\* another, whoever exits in the middle of a broadcast.
NoMixedOutcome ==
  \A p, q \in Peer, t \in Tx : ~ (status[p][t] = "committed" /\ status[q][t] = "aborted")

\* A pin that one running peer has and another lacks is on its way to it: in a
\* message, in a broadcast that has still to reach it, or due in answer to its ping
\* by a peer that has the pin and has not seen the ping yet (holds until a peer exits,
\* if the peer that joins does not pin itself).
Gone == {p \in Peer : phase[p] = "gone"}
Carries(m, r) ==
  \/ m.type = "tx_commit" /\ RoomOf[m.tx] = r
  \/ m.type = "pin_sync" /\ m.pins[r] # NoTx
OnWay(n, r) == \E m \in msgs : m.dst = n /\ Carries(m, r)
ToSend(o, n, r) ==
  /\ current[o] # NoTx /\ RoomOf[current[o]] = r
  /\ \/ main[o] = "mark" /\ n \in neighbors[o]
     \/ /\ status[o][current[o]] = "committed"
        /\ \/ main[o] = "copy" /\ n \in neighbors[o]
           \/ main[o] = "spread" /\ n \in todo[o]
PingComes(n, o) ==
  \E m \in msgs : m.type = "ping" /\ m.src = n /\ <<n, m.id>> \notin pinged[o]
NoPinLost ==
  \A q, n \in up, r \in Room :
    Gone = {} /\ pins[q][r] # NoTx /\ pins[n][r] = NoTx
      => \/ OnWay(n, r)
         \/ \E o \in up : ToSend(o, n, r)
         \/ \E o \in up : pins[o][r] # NoTx /\ PingComes(n, o)

\* "so all peers apply the transaction": when a room is pinned at some peer, every
\* other one gets a pin for it eventually, if no peer exits.
PinnedAt(r) == {q \in up : pins[q][r] # NoTx}
PinsSpread ==
  \A r \in Room : PinnedAt(r) # {} ~> up = PinnedAt(r) \/ Gone # {}

\* "using the global CS for atomicity": once every message has arrived and no
\* broadcast is under way, the peers agree on the pin of each room.
Quiet == msgs = {} /\ \A p \in up : ~ Committing(p)
PinsAgree ==
  Quiet => \A p, q \in up, r \in Room : pins[p][r] = pins[q][r]

\* The transactions implement the abstract commitment: what one peer decides all others
\* hear and none unlearns, whatever is lost, late or overtaken, and no pin is shown, nor
\* passed on to who joins, before its owner has validated it in the section and decided.
\* To commit is decided by the pin the owner sets; that the status comes after shows: who
\* joins may be told a pin whose owner exits before any peer has it as "committed".
Marking(p, t) == main[p] = "mark" /\ current[p] = t
Known(p, t) ==
  CASE status[p][t] = "committed" \/ Marking(p, t) -> "committed"
    [] status[p][t] = "aborted" -> "aborted"
    [] OTHER -> "open"
Decided(t) ==
  CASE \E p \in Peer : Known(p, t) = "committed" -> "committed"
    [] \E p \in Peer : Known(p, t) = "aborted" -> "aborted"
    [] OTHER -> "open"
Decisions == [t \in Tx |-> Decided(t)]
Outcomes == [p \in Peer |-> [t \in Tx |-> Known(p, t)]]
Commit == INSTANCE AtomicCommit WITH
  decision <- Decisions, outcome <- Outcomes, shown <- pins
ImplementsCommit == Commit!Spec

-----------------------------------------------------------------------------
(* The inductive invariant behind OneCommitter and NoMixedOutcome.         *)

\* Whoever is in do_commit holds the section, and one peer does.
SectionInv ==
  /\ \A p \in up : Committing(p) => phase[p] = "in_cs"
  /\ \A p, q \in Peer : phase[p] = "in_cs" /\ phase[q] = "in_cs" => p = q

\* A transaction is at work in one peer; nobody knows its outcome before that
\* peer has validated, and the peer knows it when it broadcasts.
Undecided(t) == \A q \in Peer : status[q][t] \in {"none", "active"}
CurrentInv ==
  /\ \A p \in Peer : main[p] = "wait" \/ Committing(p) => current[p] \in Tx
  /\ \A p, q \in Peer : current[p] = current[q] /\ current[p] # NoTx => p = q
  /\ \A p \in Peer : current[p] \in Tx =>
       /\ status[p][current[p]] # "none"
       /\ main[p] \in {"wait", "validate", "apply", "mark"} => Undecided(current[p])
       /\ main[p] \in {"copy", "spread"}
            => status[p][current[p]] \in {"committed", "aborted"}

\* What a message announces has happened somewhere, and its opposite nowhere.
OutcomeInv ==
  /\ NoMixedOutcome
  /\ \A m \in msgs :
       /\ m.type = "tx_commit" => \E q \in Peer : status[q][m.tx] = "committed"
       /\ m.type = "tx_abort" => \E q \in Peer : status[q][m.tx] = "aborted"

PinInv == TypeOK /\ SectionInv /\ CurrentInv /\ OutcomeInv

\* A peer shows in a room, and passes on, only what has been decided for that room.
Justified(r, t) ==
  t # NoTx => RoomOf[t] = r /\ \E q \in Peer : Known(q, t) = "committed"
ShownInv ==
  /\ \A p \in Peer, r \in Room : Justified(r, pins[p][r])
  /\ \A m \in msgs, r \in Room : m.type = "pin_sync" => Justified(r, m.pins[r])
=============================================================================
