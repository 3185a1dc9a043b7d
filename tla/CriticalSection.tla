-------------------------- MODULE CriticalSection --------------------------
(***************************************************************************)
(* The distributed critical section of peers.py: requests stamped with a   *)
(* Lamport clock, replies given at once or deferred, votes of unreachable  *)
(* peers struck off.  Every peer runs a main thread (the command prompt)   *)
(* and one handler thread per received message; the threads share the      *)
(* globals of the process and interleave wherever the code holds no lock.  *)
(* A message is a member of msgs from the moment it is written to the      *)
(* socket until its handler thread ends, and messages overtake each other, *)
(* since each one has a TCP connection and a thread of its own.            *)
(***************************************************************************)
EXTENDS Naturals, FiniteSets

CONSTANTS
  Peer,            \* the ports of the peers; ports break ties between timestamps
  Knows,           \* Knows[p]: the neighbours p has discovered when the run starts
  StartClocks,     \* the Lamport clocks that earlier traffic may have left behind
  Commands,        \* the commands users type: a subset of {"d/CS", "d/Pin"}
  FalseSuspicion,  \* may a connect to a running peer fail (timeout, no free port)?
  MaxRequests,     \* bound: MaxRequests[p] is how many commands the user of p types
  MaxExits,        \* bound: peers that exit or crash
  MaxTick,         \* bound: up to which clock value unrelated sends are counted
  Talkers          \* bound: the peers whose unrelated sends may fail

ASSUME PeerAssumption == Peer \subseteq Nat
ASSUME KnowsAssumption ==
  Knows \in [Peer -> SUBSET Peer] /\ \A p \in Peer : p \notin Knows[p]
ASSUME BoundsAssumption ==
  /\ StartClocks \subseteq Nat
  /\ Commands \subseteq {"d/CS", "d/Pin"}
  /\ FalseSuspicion \in BOOLEAN
  /\ MaxRequests \in [Peer -> Nat] /\ MaxExits \in Nat /\ MaxTick \in Nat
  /\ Talkers \subseteq Peer

VARIABLES
  up,         \* peers whose process runs
  clock,      \* timestamp
  neighbors,  \* neighbors
  state,      \* critical_section_state
  reqTs,      \* critical_section_request_ts, 0 for None
  pending,    \* critical_section_pending
  deferred,   \* critical_section_deferred
  stuck,      \* peers whose critical_section_lock a blocked thread holds for ever
  main,       \* where the main thread is
  pinning,    \* the command being run is d/Pin, so main goes through with_global_cs
  todo,       \* addresses the main thread has still to send to in its loop
  msgs,       \* messages in flight and in handler threads
  requests    \* commands typed so far, for the bound

local == <<neighbors, state, reqTs, pending, deferred>>
thread == <<main, pinning, todo, requests>>
vars == <<up, clock, local, stuck, thread, msgs>>

NoTs == 0
MainPC == {"prompt", "check", "send", "wait", "in_fn", "reply"}
MsgPC == {"in_flight", "dispatch", "compare", "grant", "defer"}
Message == [type : {"cs_request", "cs_reply"}, src : Peer, dst : Peer,
            lamport : Nat, pc : MsgPC]

\* The type invariant; a peer has a request timestamp exactly while it requests
\* or holds the section (request_cs sets both together, release_cs resets both).
TypeOK ==
  /\ up \subseteq Peer /\ stuck \subseteq Peer
  /\ clock \in [Peer -> Nat] /\ reqTs \in [Peer -> Nat]
  /\ state \in [Peer -> {"idle", "requesting", "in_cs"}]
  /\ neighbors \in [Peer -> SUBSET Peer]
  /\ pending \in [Peer -> SUBSET Peer]
  /\ deferred \in [Peer -> SUBSET Peer]
  /\ main \in [Peer -> MainPC]
  /\ pinning \in [Peer -> BOOLEAN]
  /\ todo \in [Peer -> SUBSET Peer]
  /\ requests \in [Peer -> Nat]
  /\ msgs \subseteq Message
  /\ \A p \in Peer : reqTs[p] = NoTs <=> state[p] = "idle"

Init ==
  /\ up = Peer /\ stuck = {}
  /\ clock \in [Peer -> StartClocks]
  /\ neighbors = Knows
  /\ state = [p \in Peer |-> "idle"]
  /\ reqTs = [p \in Peer |-> NoTs]
  /\ pending = [p \in Peer |-> {}]
  /\ deferred = [p \in Peer |-> {}]
  /\ main = [p \in Peer |-> "prompt"]
  /\ pinning = [p \in Peer |-> FALSE]
  /\ todo = [p \in Peer |-> {}]
  /\ requests = [p \in Peer |-> 0]
  /\ msgs = {}

-----------------------------------------------------------------------------
(* Slips of the kind this code invites; the mutants replace a definition   *)
(* below by one of these and must break a property.                        *)

MergedNoMax(mine, received) == mine + 1
TheirsFirstNoTie(n, ts, src) == reqTs[n] = NoTs \/ ts <= reqTs[n]
VotesInEarly(n, a) == "in_cs"
VotesInLate(n, a) == IF pending[n] = {} THEN "in_cs" ELSE state[n]
ClearRequestKeepsTs(n) ==
  state' = [state EXCEPT ![n] = "idle"] /\ UNCHANGED reqTs
TakeDeferredAfterClear(n) ==
  /\ todo' = [todo EXCEPT ![n] = {}]
  /\ deferred' = [deferred EXCEPT ![n] = {}]
TakeDeferredNoClear(n) ==
  todo' = [todo EXCEPT ![n] = deferred[n]] /\ UNCHANGED deferred

-----------------------------------------------------------------------------
(* Lamport clocks and priorities. *)

\* updating_lamport_time
Merged(mine, received) == (IF mine < received THEN received ELSE mine) + 1

\* Python's order on the pairs (timestamp, (MY_HOST, port))
Before(ts1, p1, ts2, p2) == ts1 < ts2 \/ (ts1 = ts2 /\ p1 < p2)

\* the request of src, stamped ts, precedes the request n is making: no request
\* of n's own counts as (infinity, my_id)
TheirsFirst(n, ts, src) ==
  reqTs[n] = NoTs \/ Before(ts, src, reqTs[n], n)

\* any other message the peer sends of its own (chat, focus, join...): increment_timestamp
OtherSend(n) ==
  /\ n \in up /\ clock[n] < MaxTick
  /\ clock' = [clock EXCEPT ![n] = @ + 1]
  /\ UNCHANGED <<up, local, stuck, thread, msgs>>

-----------------------------------------------------------------------------
(* send_msg: a TCP connection per message.  The connection is refused when *)
(* the process is gone; the except clause then strikes the peer off.       *)

Request(n, a) == [type |-> "cs_request", src |-> n, dst |-> a,
                  lamport |-> reqTs[n], pc |-> "in_flight"]
Reply(n, a) == [type |-> "cs_reply", src |-> n, dst |-> a,
                lamport |-> clock[n] + 1, pc |-> "in_flight"]

MayFail(a) == a \notin up \/ FalseSuspicion

\* critical_section_state once a's vote is out of critical_section_pending
VotesIn(n, a) == IF pending[n] \subseteq {a} THEN "in_cs" ELSE state[n]

\* the except clause; it takes critical_section_lock, so the thread blocks
\* here for ever when that lock is stuck (having dropped the neighbour, which is
\* left out)
StrikeOff(n, a) ==
  /\ n \notin stuck
  /\ neighbors' = [neighbors EXCEPT ![n] = @ \ {a}]
  /\ IF state[n] = "requesting" /\ a \in pending[n]
     THEN /\ pending' = [pending EXCEPT ![n] = @ \ {a}]
          /\ state' = [state EXCEPT ![n] = VotesIn(n, a)]
     ELSE UNCHANGED <<pending, state>>

\* Any other message, the peer's own or one it passes on, to a neighbour that is gone; the
\* thread that sends it may be any.
OtherSendFails(n) ==
  /\ n \in up \intersect Talkers
  /\ \E a \in neighbors[n] : MayFail(a) /\ StrikeOff(n, a)
  /\ UNCHANGED <<up, clock, reqTs, deferred, stuck, thread, msgs>>

\* msgs becomes rest, plus m when it could be delivered
SendMsg(n, a, m, rest) ==
  \/ /\ a \in up
     /\ msgs' = rest \union {m}
     /\ UNCHANGED <<neighbors, pending, state>>
  \/ /\ MayFail(a)
     /\ StrikeOff(n, a)
     /\ msgs' = rest

SendCsReply(n, a, rest) ==
  /\ clock' = [clock EXCEPT ![n] = @ + 1]
  /\ SendMsg(n, a, Reply(n, a), rest)

-----------------------------------------------------------------------------
(* The main thread: d/CS, d/Pin and d/Done typed at the prompt. *)

Count(n) == /\ requests[n] < MaxRequests[n]
            /\ requests' = [requests EXCEPT ![n] = @ + 1]

\* request_cs, the section under critical_section_lock
RequestCS(n) ==
  /\ n \in up \ stuck /\ main[n] = "prompt" /\ state[n] = "idle"
  /\ Count(n)
  /\ \E c \in Commands : pinning' = [pinning EXCEPT ![n] = (c = "d/Pin")]
  /\ state' = [state EXCEPT ![n] = "requesting"]
  /\ clock' = [clock EXCEPT ![n] = @ + 1]
  /\ reqTs' = [reqTs EXCEPT ![n] = clock[n] + 1]
  /\ pending' = [pending EXCEPT ![n] = neighbors[n]]
  /\ main' = [main EXCEPT ![n] = "check"]
  /\ UNCHANGED <<up, neighbors, deferred, stuck, todo, msgs>>

\* d/Pin while an earlier d/CS is granted or outstanding: request_cs only
\* prints, with_global_cs goes on to its loop
PinOverCS(n) ==
  /\ n \in up \ stuck /\ main[n] = "prompt" /\ state[n] # "idle"
  /\ "d/Pin" \in Commands /\ Count(n)
  /\ main' = [main EXCEPT ![n] = "wait"]
  /\ UNCHANGED <<up, clock, local, stuck, pinning, todo, msgs>>

\* where request_cs returns to
AfterRequest(n) == IF pinning[n] THEN "wait" ELSE "prompt"

\* request_cs, after the lock is released: nobody to ask, or forward copies
\* the neighbours
CheckPending(n) ==
  /\ n \in up /\ main[n] = "check"
  /\ IF pending[n] = {}
     THEN /\ n \notin stuck
          /\ state' = [state EXCEPT ![n] = "in_cs"]
          /\ main' = [main EXCEPT ![n] = AfterRequest(n)]
          /\ UNCHANGED todo
     ELSE /\ todo' = [todo EXCEPT ![n] = neighbors[n]]
          /\ main' = [main EXCEPT ![n] = "send"]
          /\ UNCHANGED state
  /\ UNCHANGED <<up, clock, neighbors, reqTs, pending, deferred, stuck,
                 pinning, requests, msgs>>

\* forward(msg): one send_msg per copied neighbour
SendRequest(n) ==
  /\ n \in up /\ main[n] = "send"
  /\ \E a \in todo[n] :
       /\ SendMsg(n, a, Request(n, a), msgs)
       /\ todo' = [todo EXCEPT ![n] = @ \ {a}]
  /\ UNCHANGED <<up, clock, reqTs, deferred, stuck, main, pinning, requests>>

RequestsSent(n) ==
  /\ n \in up /\ main[n] = "send" /\ todo[n] = {}
  /\ main' = [main EXCEPT ![n] = AfterRequest(n)]
  /\ UNCHANGED <<up, clock, local, stuck, pinning, todo, requests, msgs>>

\* with_global_cs: the busy-wait probes the pending peers with a bare connect.
\* A probe that connects changes nothing here or at the peer; one that fails
\* strikes the peer off like send_msg does.
ProbeFails(n) ==
  /\ n \in up \ stuck /\ main[n] = "wait" /\ state[n] # "in_cs"
  /\ \E a \in pending[n] :
       /\ MayFail(a)
       /\ neighbors' = [neighbors EXCEPT ![n] = @ \ {a}]
       /\ pending' = [pending EXCEPT ![n] = @ \ {a}]
       /\ state' = [state EXCEPT ![n] = VotesIn(n, a)]
  /\ UNCHANGED <<up, clock, reqTs, deferred, stuck, thread, msgs>>

\* with_global_cs: out of the busy-wait and into fn
EnterFn(n) ==
  /\ n \in up \ stuck /\ main[n] = "wait" /\ state[n] = "in_cs"
  /\ main' = [main EXCEPT ![n] = "in_fn"]
  /\ UNCHANGED <<up, clock, local, stuck, pinning, todo, requests, msgs>>

\* the request is over
ClearRequest(n) ==
  /\ state' = [state EXCEPT ![n] = "idle"]
  /\ reqTs' = [reqTs EXCEPT ![n] = NoTs]

\* to_reply takes over critical_section_deferred
TakeDeferred(n) ==
  /\ todo' = [todo EXCEPT ![n] = deferred[n]]
  /\ deferred' = [deferred EXCEPT ![n] = {}]

\* release_cs, the section under critical_section_lock
ReleaseLocked(n) ==
  /\ n \in up \ stuck /\ state[n] = "in_cs"
  /\ ClearRequest(n)
  /\ TakeDeferred(n)
  /\ main' = [main EXCEPT ![n] = "reply"]
  /\ UNCHANGED <<up, clock, neighbors, pending, stuck, pinning, requests, msgs>>

\* d/Done, typed by the user
Done(n) == main[n] = "prompt" /\ ReleaseLocked(n)

\* the finally clause of with_global_cs
FnReturns(n) == main[n] = "in_fn" /\ ReleaseLocked(n)

\* release_cs: a reply to every deferred peer
SendDeferredReply(n) ==
  /\ n \in up /\ main[n] = "reply"
  /\ \E a \in todo[n] :
       /\ SendCsReply(n, a, msgs)
       /\ todo' = [todo EXCEPT ![n] = @ \ {a}]
  /\ UNCHANGED <<up, reqTs, deferred, stuck, main, pinning, requests>>

Released(n) ==
  /\ n \in up /\ main[n] = "reply" /\ todo[n] = {}
  /\ main' = [main EXCEPT ![n] = "prompt"]
  /\ UNCHANGED <<up, clock, local, stuck, pinning, todo, requests, msgs>>

-----------------------------------------------------------------------------
(* The handler thread of a message m. *)

AtPC(m, pc) == msgs' = (msgs \ {m}) \union {[m EXCEPT !.pc = pc]}

\* handle_msg up to the dispatch on the type: merge the clock, learn the sender
Receive(n, m) ==
  /\ n \in up /\ m.dst = n /\ m.pc = "in_flight"
  /\ clock' = [clock EXCEPT ![n] = Merged(@, m.lamport)]
  /\ neighbors' = [neighbors EXCEPT ![n] = @ \union {m.src}]
  /\ AtPC(m, "dispatch")
  /\ UNCHANGED <<up, state, reqTs, pending, deferred, stuck, thread>>

\* handle_cs_request, under critical_section_lock.  The reply of the idle
\* branch is sent with the lock held: when its connect fails, send_msg waits
\* for the lock its own thread holds.
HandleRequest(n, m) ==
  /\ n \in up \ stuck /\ m.dst = n /\ m.pc = "dispatch" /\ m.type = "cs_request"
  /\ \/ /\ state[n] = "idle"
        /\ clock' = [clock EXCEPT ![n] = @ + 1]
        /\ \/ /\ m.src \in up
              /\ msgs' = (msgs \ {m}) \union {Reply(n, m.src)}
              /\ UNCHANGED <<neighbors, stuck>>
           \/ /\ MayFail(m.src)
              /\ neighbors' = [neighbors EXCEPT ![n] = @ \ {m.src}]
              /\ stuck' = stuck \union {n}
              /\ msgs' = msgs \ {m}
        /\ UNCHANGED deferred
     \/ /\ state[n] = "in_cs"
        /\ deferred' = [deferred EXCEPT ![n] = @ \union {m.src}]
        /\ msgs' = msgs \ {m}
        /\ UNCHANGED <<clock, neighbors, stuck>>
     \/ /\ state[n] = "requesting"
        /\ AtPC(m, "compare")
        /\ UNCHANGED <<clock, neighbors, deferred, stuck>>
  /\ UNCHANGED <<up, state, reqTs, pending, thread>>

\* handle_cs_request, after the lock is released: read my_ts and compare
Compare(n, m) ==
  /\ n \in up /\ m.dst = n /\ m.pc = "compare"
  /\ AtPC(m, IF TheirsFirst(n, m.lamport, m.src) THEN "grant" ELSE "defer")
  /\ UNCHANGED <<up, clock, local, stuck, thread>>

GrantRequest(n, m) ==
  /\ n \in up /\ m.dst = n /\ m.pc = "grant"
  /\ SendCsReply(n, m.src, msgs \ {m})
  /\ UNCHANGED <<up, reqTs, deferred, stuck, thread>>

DeferRequest(n, m) ==
  /\ n \in up /\ m.dst = n /\ m.pc = "defer"
  /\ deferred' = [deferred EXCEPT ![n] = @ \union {m.src}]
  /\ msgs' = msgs \ {m}
  /\ UNCHANGED <<up, clock, neighbors, state, reqTs, pending, stuck, thread>>

\* handle_cs_reply, under critical_section_lock
HandleReply(n, m) ==
  /\ n \in up \ stuck /\ m.dst = n /\ m.pc = "dispatch" /\ m.type = "cs_reply"
  /\ IF state[n] = "requesting"
     THEN /\ pending' = [pending EXCEPT ![n] = @ \ {m.src}]
          /\ state' = [state EXCEPT ![n] = VotesIn(n, m.src)]
     ELSE UNCHANGED <<pending, state>>
  /\ msgs' = msgs \ {m}
  /\ UNCHANGED <<up, clock, neighbors, reqTs, deferred, stuck, thread>>

\* exit, Ctrl-C or a crash: the process and its threads are gone, the bytes
\* it has sent are not
Exit(n) ==
  /\ n \in up /\ Cardinality(Peer \ up) < MaxExits
  /\ up' = up \ {n}
  /\ msgs' = {m \in msgs : m.dst # n}
  /\ UNCHANGED <<clock, local, stuck, thread>>

-----------------------------------------------------------------------------

MainStep(n) ==
  \/ CheckPending(n) \/ SendRequest(n) \/ RequestsSent(n)
  \/ ProbeFails(n) \/ EnterFn(n) \/ FnReturns(n)
  \/ SendDeferredReply(n) \/ Released(n)

UserStep(n) ==
  RequestCS(n) \/ PinOverCS(n) \/ Done(n) \/ OtherSend(n) \/ OtherSendFails(n)

HandlerStep(n, m) ==
  \/ Receive(n, m) \/ HandleRequest(n, m) \/ Compare(n, m)
  \/ GrantRequest(n, m) \/ DeferRequest(n, m) \/ HandleReply(n, m)

Next ==
  \E n \in Peer : MainStep(n) \/ UserStep(n) \/ Exit(n)
                  \/ \E m \in msgs : HandlerStep(n, m)

Spec == Init /\ [][Next]_vars

\* As long as there are threads that can run, some of them do, and messages to running
\* peers arrive; it need not be everyone's turn, as what the threads do comes to an end.
\* Users type when they like.
Fairness == WF_vars(\E n \in Peer : MainStep(n) \/ \E m \in msgs : HandlerStep(n, m))

FairSpec == Spec /\ Fairness

-----------------------------------------------------------------------------
(* Properties. *)

\* At most one running peer is in the section: what commit_transaction counts
\* on when it validates and applies inside with_global_cs.
MutualExclusion ==
  \A p, q \in up : state[p] = "in_cs" /\ state[q] = "in_cs" => p = q

\* Where the vote of v for the request of r can be while r waits for it.
Unsent(r, v) == main[r] = "check" \/ (main[r] = "send" /\ v \in todo[r])
Carries(m, r, v) == \/ m.type = "cs_request" /\ m.src = r /\ m.dst = v
                    \/ m.type = "cs_reply" /\ m.src = v /\ m.dst = r
Travelling(r, v) == \E m \in msgs : Carries(m, r, v)
Owed(r, v) == r \in deferred[v] \/ (main[v] = "reply" /\ r \in todo[v])

\* A vote a peer waits for is never lost while both run: the request is still
\* to be sent, a message or a handler thread has it, or the voter remembers it.
NoVoteLost ==
  \A r, v \in up :
    r # v /\ state[r] = "requesting" /\ v \in pending[r]
      => Unsent(r, v) \/ Travelling(r, v) \/ Owed(r, v)

\* cs_reply carries no request identifier, so a reply that outlived its request
\* would be counted for the next one: a vote on its way is always for the
\* request its receiver is making now, and it is on its way only once.
NoStaleVote ==
  \A r, v \in up :
    r # v /\ (Travelling(r, v) \/ Owed(r, v))
      => /\ state[r] = "requesting" /\ v \in pending[r]
         /\ \A m1, m2 \in msgs : Carries(m1, r, v) /\ Carries(m2, r, v) => m1 = m2
         /\ ~ (Travelling(r, v) /\ Owed(r, v))

\* A peer never enters past a running peer whose outstanding request precedes
\* its own in the order of the Lamport clocks.
EntersInOrder ==
  [][\A p, q \in up :
       /\ p # q /\ state[p] # "in_cs" /\ state'[p] = "in_cs"
       /\ state[q] = "requesting"
       => Before(reqTs[p], p, reqTs[q], q)]_vars

\* v keeps r waiting for a reason the comment of handle_cs_request gives: v is
\* in the section, or v is requesting too and precedes r.
HasReason(v, r) ==
  \/ state[v] = "in_cs"
  \/ state[v] = "requesting" /\ ~ Before(reqTs[r], r, reqTs[v], v)

\* "reply immediately if in idle, defer if in_cs; if both requesting, compare
\* priority": nobody is kept waiting by a peer that is idle or comes later.
JustDeferral ==
  \A v, r \in up : r \in deferred[v] => HasReason(v, r)

\* A peer that waits in with_global_cs is let in eventually, whoever exits,
\* unless a user keeps a d/CS, or a thread that compared priorities was overtaken
\* by release_cs, so that some peer keeps another waiting for no reason, or some
\* critical_section_lock is blocked for ever.
KeptByUser == \E v \in up : main[v] = "prompt" /\ state[v] # "idle"
PinsServed ==
  \A n \in Peer :
    n \in up /\ main[n] = "wait"
      ~> state[n] = "in_cs" \/ n \notin up \/ up \cap stuck # {} \/ KeptByUser
         \/ \E v, r \in up : r \in deferred[v] /\ ~ HasReason(v, r)

\* All threads wait for one another: no message is left, and who is in with_global_cs has
\* neither the votes nor a voter to strike off.
Still ==
  /\ msgs = {} /\ up \cap stuck = {}
  /\ \A p \in up :
       main[p] = "prompt" \/ (main[p] = "wait" /\ state[p] # "in_cs" /\ pending[p] \subseteq up)

\* The peers never wait for each other in a circle: when all is still and somebody has asked,
\* a user keeps the section, or a d/CS waits for a voter that has exited and to which nothing
\* has been sent since, or a deferral was overtaken by release_cs.
NoDeadlock ==
  Still /\ (\E r \in up : state[r] = "requesting")
    => \/ \E v \in up : main[v] = "prompt" /\ state[v] = "in_cs"
       \/ \E r \in up : /\ main[r] = "prompt" /\ state[r] = "requesting"
                        /\ ~ (pending[r] \subseteq up)
       \/ \E v, r \in up : r \in deferred[v] /\ ~ HasReason(v, r)

\* "removed from being able to vote": a request that waits for dead peers only
\* does not wait for ever, even if nothing else is sent to them.
DeadVotersStruckOff ==
  \A n \in Peer :
    n \in up /\ state[n] = "requesting" /\ pending[n] \cap up = {}
      ~> n \notin up \/ state[n] # "requesting"

\* The except clause of send_msg always gets the lock it waits for.
NoSelfDeadlock == stuck = {}

\* The peers implement the abstract section.
Section == INSTANCE Mutex WITH
  phase <- [p \in Peer |-> IF p \in up THEN state[p] ELSE "gone"]
ImplementsMutex == Section!Spec

-----------------------------------------------------------------------------
(* Why mutual exclusion holds, as an inductive invariant (for a full mesh  *)
(* and a failure detector that is right, the hypotheses of the theorems).  *)

\* Every running peer knows every other one.
MeshInv == \A r, v \in up : r # v => v \in neighbors[r]

\* Where main is agrees with the state; a holder has all votes.
MainInv ==
  \A p \in Peer :
    /\ main[p] \in {"check", "send", "wait"} => state[p] # "idle"
    /\ main[p] = "in_fn" => state[p] = "in_cs"
    /\ main[p] = "reply" => state[p] = "idle"
    /\ state[p] = "in_cs" => pending[p] = {}

\* Who has asked and got no further waits for somebody else; nobody knows itself.
WaitInv ==
  /\ \A p \in Peer : p \notin neighbors[p] /\ p \notin pending[p]
  /\ \A p \in Peer : state[p] = "requesting" /\ main[p] # "check" => pending[p] # {}
  /\ \A m \in msgs : m.src # m.dst
  /\ \A p \in Peer : p \notin todo[p] /\ p \notin deferred[p]

\* Only requests are compared, granted or deferred.
HandlerInv ==
  \A m \in msgs : m.pc \in {"compare", "grant", "defer"} => m.type = "cs_request"

\* A vote is in one place at a time, and only while it is waited for; a request
\* on its way is the one its sender is making.
Awaits(r, v) == state[r] = "requesting" /\ v \in pending[r]

VoteInv ==
  \A r, v \in up : r # v =>
    /\ Unsent(r, v) \/ Owed(r, v) => Awaits(r, v)
    /\ ~ (Unsent(r, v) /\ Owed(r, v))
    /\ ~ (r \in deferred[v] /\ main[v] = "reply" /\ r \in todo[v])
    /\ \A m \in msgs : Carries(m, r, v) =>
         /\ Awaits(r, v) /\ ~ Unsent(r, v) /\ ~ Owed(r, v)
         /\ m.type = "cs_request" => m.lamport = reqTs[r]
         /\ \A m2 \in msgs : Carries(m2, r, v) => m2 = m

\* v has seen the request of r.
Seen(r, v) ==
  \/ v \notin pending[r] \/ Owed(r, v)
  \/ \E m \in msgs : Carries(m, r, v) /\ (m.type = "cs_reply" \/ m.pc # "in_flight")

\* v has given, or is about to give, its vote to r.
Granted(r, v) ==
  \/ v \notin pending[r] \/ (main[v] = "reply" /\ r \in todo[v])
  \/ \E m \in msgs : Carries(m, r, v) /\ (m.type = "cs_reply" \/ m.pc = "grant")

\* The clock of a peer is past every request it has made or seen, so what it
\* asks for later comes later; whoever has its vote comes first.
ClockInv ==
  /\ \A p \in Peer : reqTs[p] <= clock[p]
  /\ \A r, v \in up :
       r # v /\ state[r] # "idle" /\ Seen(r, v) => reqTs[r] <= clock[v]

GrantInv ==
  \A r, v \in up :
    r # v /\ state[r] # "idle" /\ state[v] # "idle" /\ Granted(r, v)
      => Before(reqTs[r], r, reqTs[v], v)

IInv == TypeOK /\ MainInv /\ HandlerInv /\ MeshInv /\ VoteInv /\ ClockInv /\ GrantInv
=============================================================================
