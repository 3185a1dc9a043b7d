# A TLA+ model of the peer-to-peer chat

This directory specifies the program in `src/`: a chat in which every user runs
one process (`peers.py`), processes find each other by scanning ports 5000-5099,
flood their messages over TCP and agree on one global critical section, inside
which messages are pinned. The client/server design it grew out of (`src/old/`) is
modelled too. The modules model the code as it is, defects included; TLC checks
them on small instances and TLAPS proves the main results for every set of peers.

## The system

Everything live is in `src/peers.py`. `src/old/` holds the earlier client/server
design (XML-RPC rooms and a ZeroMQ broker, which `src/README.md` still
documents), superseded versions of the peer, and demos.

A peer is one Python process with a main thread (the prompt), a listener thread,
one handler thread per accepted connection (one message per connection) and, while
it starts, one bootstrap thread per port. The threads share module globals, each
group of them under a lock of its own (`neighbors_lock`, `seen_lock`,
`members_lock`, `room_state_lock`, `lock_lamport`, `critical_section_lock`,
`transaction_lock`, `rooms_lock`, `console_lock`). Some of them are read without
their lock. A message may overtake any other, even one from the same sender.

| Component | State | Operations | Makes it correct | Hard because |
|---|---|---|---|---|
| Lamport clock | `timestamp` | `increment_timestamp`, `updating_lamport_time` | past everything seen | merged by one thread, used by another |
| Overlay | `neighbors`, `seen`, the three events | `network`, `bootstrap`, `forward`, ping/pong | everybody gets to know everybody | concurrent starts, ports reused, failed connects |
| Critical section | `critical_section_*` | `request_cs`, `release_cs`, `handle_cs_request`, `handle_cs_reply`, `with_global_cs` | one holder, no vote lost, everyone served | lock released between reading and deferring, dead voters, replies without a request id |
| Pin transactions | `transactions`, `current_transaction_id`, `pinned_messages` | `begin_transaction`, `add_pin_op`, `commit_transaction`, `handle_tx_commit`, `handle_tx_abort`, `pin_sync` | all or nobody, same pins everywhere | commits overtaken by votes, crash in a broadcast, joins |
| Chat and flooding | `seen`, `chat_history`, `current_chatroom` | `forward`, `handle_msg`, `send_flood`, chat, d/Flood, d/discoverTopic, d/Switch | at most once, causal order in the history, read by those it is for | duplicates, time to live, reordering, a room copied before it is used |
| Rooms and members | `members`, `all_rooms`, `current_chatroom(s)` | join, leave, switch, `member_sync`, `room_announce`, `room_query`, `username_check` | replicas converge, names unique | stale snapshots, leave before join, check then act |
| Reservations | `reservations` | `times_overlap`, validate, apply, roll back | no double booking | half-open windows, undo among others' bookings; no command creates one |
| XML-RPC rooms and broker (`old/`) | `list_of_chat_rooms`, ZMQ subscriptions | `create_room`, `join_room`, `send_message`, `remove_user` | members are the clients in the room | prefix matching of topics, late subscribers, uncaught faults |

Interactions: `send_msg` is used by everything and, when a connect fails, changes
the overlay (drops the neighbour) and the critical section (drops its vote).
`commit_transaction` runs inside `with_global_cs`. `ping` triggers `member_sync`,
`room_announce` and `pin_sync`. `handle_msg` advances the clock and the neighbour
set for every message before it looks at its type.

## Modules

| Module | Models |
|---|---|
| `Mutex` | abstract: what the section promises (ask, enter alone, leave, exit at any point) |
| `CriticalSection` | the protocol in `peers.py`, one action per lock section or unlocked step |
| `CriticalSectionProofs` | its theorems |
| `AtomicCommit` | abstract: what a pin promises (decided once, heard as decided, shown only once decided) |
| `PinTransactions` | d/Pin, the transactions, joining and exiting peers, over `Mutex` (INSTANCE) |
| `PinTransactionsProofs` | its theorems |
| `Gossip` | chat messages flooded over the overlay, and the histories they enter |
| `GossipProofs` | its theorems |
| `Membership` | the member lists: starting peers, names, joining and leaving rooms |
| `MembershipProofs` | its theorems |
| `AgreementProofs` | that the member lists come to agree |
| `Overlay` | how processes find each other: bootstrap, ping and pong, exits and restarts |
| `OverlayProofs` | its theorems |
| `Reservations` | overlap, validation, commit and roll-back of reservations, with their theorems |
| `RoomLog` | abstract: what the old chat promises, one log that every listener reads in order |
| `OldRooms` | `old/server-xmlrpc.py`, its client and the broker |
| `OldRoomsProofs` | its theorems |
| `MC_CS`, `MC_Pins`, `MC_Gossip`, `MC_Membership`, `MC_Overlay`, `MC_OldRooms` | instances for TLC |

How they fit together: `PinTransactions` is built over `Mutex`, which
`CriticalSection` is proved to implement; the theorems about `CriticalSection` assume a
full mesh, which `Overlay` is proved to produce when processes start and exit one after
the other. `PinTransactions` is proved to implement `AtomicCommit`, and `OldRooms` to
implement `RoomLog`.

**CriticalSection.** `main[n]` is where the main thread stands: at the prompt,
between the lock sections of `request_cs` (`check`), in `forward`'s loop (`send`),
in the busy-wait of `with_global_cs` (`wait`), in its callback (`in_fn`), in
`release_cs`' loop of replies (`reply`). A handler thread is a member of `msgs`
with its own `pc`: `in_flight`, `dispatch` (clock merged, sender learnt),
`compare`, `grant`, `defer` - the last three are the part of `handle_cs_request`
that runs after the lock is released. Each member of `msgs` may step at any time,
so messages overtake each other. `SendMsg` is `send_msg` with its except clause
(`StrikeOff`); `stuck` is the set of peers whose `critical_section_lock` is held for
ever by a thread that waits for it. `Exit` is exit, Ctrl-C or a crash: the threads
vanish, what was written to a socket of another peer does not. `Knows` is the
result of bootstrap, `StartClocks` what earlier traffic did to the clocks,
`OtherSend` the messages of other kinds that advance a clock in between, and
`OtherSendFails` those, own or passed on, whose connect fails: they run the same except
clause, which strikes off the vote and may let a thread of chat enter the section. `with_global_cs`
sleeps after it has got the section; the sleep changes nothing and is left out.

**PinTransactions.** The section is `Mutex`, so its internals do not multiply the
state: `phase` is its variable. A transaction is its identifier; `RoomOf` says
what its one operation pins. `validate`, `apply`, `mark`, `copy`, `spread` are the steps of
`do_commit`. Validation, the pin (`ApplyLocally`) and the status (`MarkCommitted`) happen
under `transaction_lock`, the broadcast of a commit does not. `LockHeld` keeps the handlers
of tx_commit and tx_abort out, but not that of a ping, which reads `pinned_messages` without
the lock: between pin and status it may pass the pin on, and the peer may exit. A peer that
joins pings one or more running peers (several bootstrap threads may pass the
check of `peer_found`), each ping is answered and passed on once, the first pong
opens the prompt. `pinged` is the part of `seen` that matters here. Coarser than the code:
a ping's answers and copies leave in one step; `HandleCommit` sets status and pin in one
step, as the status is only read under the lock, so that the step is where the pin
appears; and a bootstrap that times out and pings again is left out (it repeats what one
ping does). Left out is that a pin set while the handler of a ping goes through
`pinned_messages` (`peers.py:286`) may end that handler with "dictionary changed size during
iteration" (when the room had none before): it would then send no pin_sync and not pass the
ping on, so `NoPinLost` and `PinsSpread` are about executions in which that does not happen.

**Gossip.** A copy of a message is a member of `msgs` from the moment it is sent until
its handler thread ends; `relay` and `show` are where a handler stands after the
duplicate check and after `forward`. A message carries the set of rooms it is for: the
active room of its sender (chat, focus), every room (d/Flood) or those a topic
matches; `mine` is what a handler has found by the copy of `current_chatroom` it made
when it started, and uses after it has forwarded. d/Switch is two steps, since the
room changes before the focus message goes out (`announced` is false in between).
`history[n]` is `chat_history` with the place of each entry in the order of arrival,
and `Listed` is the order the stable sort gives. `known`, `shown`, `said` and `entered`
are history variables: what the user of n has written or read and what the authors of
that knew, what was displayed to him, what all have typed, and the focus message about
his present room. A message carries what its author knew as `past`, so that the
properties can speak of causes. Coarser than the code: the copies of one `forward` leave
in one step (a copy may stay in flight for any time), and the clock, the copy of the
room, the neighbour and the duplicate check of one message are one step. The
focus_leave of d/Switch is only displayed and counts as an `OtherSend`. All peers run
and their sends succeed; an evicted identifier (`seen.pop`) is any of those remembered.

**Membership.** `members[n]` is the replica of peer n, as pairs of a room and a user.
`main[n]` follows the main thread: bootstrap (`boot`), the name, the first room, the
join message still to be sent (`tell`), the prompt, and an exit that sends one leave
after another. A handler thread is a member of `msgs`; a message is identified by
what it says, `tag` standing for the identifier of a ping. An answer to a ping is two
steps, since the pong (which lets the other user go on) leaves before the lists do;
the lists and the ping that is passed on leave together. Coarser than the code or
left out: the copies of one `forward` leave in one step; the time to live (five hops
reach every peer of an instance this small); bootstraps that time out and repeat;
d/Switch, which is the choice of the room a Ctrl-C leaves and otherwise belongs to
`Gossip`; the list of rooms, which no member list depends on. How pings of several
starting processes meet is in `Overlay`. A ping of a peer that starts carries no room,
so no room is compared.

**Overlay.** `main[n]` is where the loop of the bootstrap stands (`boot` before a scan,
`scan` while its threads run, `wait` for the handshake, `on` at the prompt);
`looking[n]` and `trying[n]` are the threads that have yet to look at `peer_found` and those
that found it clear and connect, `found` and `shaken` are the two events. A ping is named
by its sender, the port it went to first and the scan, as each thread of each scan
draws an identifier of its own, also when a scan is repeated because the pong is late; `pass` is where a handler stands between the answer and
`forward`. `Exit` ends a process anywhere and `Start` begins one on the lowest free
port, a port used before included; `calm` remembers whether processes have only started and
exited when all was quiet, and none on `BASE_PORT` while others ran. Coarser than the
code: the connect that
probes a port and the ping that follows on another connection are one step (an exit in
between shows as a lost ping); the copies of one `forward` leave in one step; a sleep is
no step. The lists that go with a pong are in `Membership` and `PinTransactions`.

**OldRooms.** The server handles one call at a time, so a procedure is one step;
`call[c]` is the call client c waits for, and whose call is taken next is open. `main[c]`
follows the client from the choice of a room to its end; `sub[c]` is its subscriber
thread, which reports that it listens before the broker knows (`connecting`). `pushed` and
`inbox[c]` are the sockets between server, broker and clients. A fault (a room that
exists, a name on the list) is caught nowhere and ends the client, as Ctrl-C does:
`Interrupt` may come anywhere, also in the middle of a call, which is then still served.
`Prefix` says which topics are the beginning of which others, since ZeroMQ filters by
prefix. `Wanted` is that filter and the one by name of `client-xmlrpc.py:24`: lines of the
user, and of a namesake, are not displayed. `src/README.md:106` and the expected outcome at
`src/README.md:142` say the opposite, that the author sees its line through its SUB thread;
`ImplementsRoomLog` is about the code's filter, and does not show what the README promises. Left out: `current_members`, which only prints, the list of owners, which nothing
reads, and the limits on what a socket holds.

**Reservations.** `book` is `reservations`: for each station the entries, each with its
transaction and window. The code keeps lists; sets stand for them because validation and
roll-back look at every entry alone, in no order, so nothing here speaks of order or of an
entry that is there twice. `TimesOverlap`, `Valid`, `Apply`, `DoCommit` and `RollBack` are
`times_overlap`, `validate_transaction`, `apply_transaction`, `do_commit` and the branch of
`handle_tx_abort`. No command of the prompt calls `add_reservation_op`, so there is nothing
to run: the module states what the operators guarantee, for every book.

## Runs

Deadlock checking is off everywhere: users stop typing, which is a legal end.

| Run | Instance | Shows |
|---|---|---|
| `CS_exits` | 3 peers, 2 of them run d/Pin once, 1 exit, other sends of one of them fail | `MutualExclusion`, `NoVoteLost`, `NoStaleVote`, and the refinement `ImplementsMutex` |
| `CS_again` | 2 peers, both commands, one peer asks twice, clocks 0 or 1 at the start, clocks advance and other sends fail in between, 1 exit | `TypeOK`, the inductive `IInv`, `NoDeadlock`, `EntersInOrder`, and under fairness `PinsServed` |
| `Pins_join` | 2 peers and a third that joins, one transaction, 1 exit | `NoPinLost`; the refinement `ImplementsCommit`, with pins passed on to who joins; under fairness `PinsSpread` |
| `Pins_exits` | 3 peers, none joins, 3 transactions of 2 of them, 2 rooms, 1 exit | `TypeOK`, `PinInv`, `OneCommitter`, `NoMixedOutcome`, and the refinement `ImplementsCommit` |
| `Gossip_line` | 3 peers in a line, TTL 2; one has joined two rooms and switches, 2 messages of any kind | `TypeOK`, `CausalHistory`, `KeptOnce`, `FocusHeeded`, the inductive `CausalInv` and `KeptInv`, and under fairness `MessagesArrive` |
| `Members_join` | 3 peers, one of them starts; it and another enter the room, the other leaves | `TypeOK`, `MembersAgree`, `StayersKept` |
| `Overlay_start` | 3 processes start one after the other or together, the last finds only the middle one; it may time out and scan again, or exit and another take its port | `TypeOK`, `MeshWhenCalm`, `KnownBack`, and under fairness `BootEnds` |
| `Old_rooms` | 3 clients, two of them namesakes, one exits, one may press Ctrl-C anywhere; two rooms, one's name the beginning of the other's | `TypeOK`, `MembersOnce`, `ListIsRight`, the refinement `ImplementsRoomLog`, and under fairness `CatchesUp` |
| `CS_lost_deferral` | 2 peers, d/CS each, no exit | violates `JustDeferral` |
| `CS_stuck_lock` | 2 peers, 1 exit | violates `NoSelfDeadlock` |
| `Pins_overtaken` | 3 peers, 2 transactions, no exit | violates `PinsAgree` |
| `Members_ghost` | 3 peers, one starts, one enters a room and leaves | violates `LeaversRemoved` |

Why the bounds are enough. The protocol's decisions are pairwise (a vote of v for
r), so two requesters meet in every order with two peers, and a third brings in
the voter that is not competing and the vote that is missing. A second request
brings in what an earlier one may have left behind (votes, deferrals,
timestamps), so one of the two asks again; unequal start clocks and ports bring in
ties and both orders. One
exit at any point reaches every failed connect of the code. Transactions meet in
pairs on a room; the third is in another room. Where a bound hides something, a
theorem covers it.

A causal inversion needs two messages and a third peer that gets them the wrong way
round; in a line of three there are two ways, because a peer whose message has
arrived becomes a neighbour. The same two messages bring in a switch whose focus
message is answered, d/Flood and topics. The time to live equals the length of the
line, so one hop less would cut the end off; `SeenMax` exceeds the number of messages,
as the program's 100000 does for any session. Two limits show when the bounds
change: with `SeenMax = 0` an identifier is dropped and `KeptOnce` fails; and with four
peers in a line and `TTL = 2` `MessagesArrive` fails although every way that matters is
two hops long once peers have learnt of each other, because a copy that took a
roundabout way is accepted first and has no time left. With `TTL = 3` it holds. The program's
five hops are safe for up to six peers.

A member list goes wrong between three: who joins or leaves, who answers a ping, and
who starts. One start, one join by an established peer, one by the new one and one
leave bring in every order of ping, pong, snapshot, join and leave; a fourth peer
would only add ways, and a second room is another copy of the first.

Fairness. `Gossip` assumes weak fairness of the handler threads of each peer:
the interpreter schedules every runnable thread, and TCP over
loopback delivers. In `CriticalSection`, `PinTransactions` and `Overlay` less is enough, one
weak fairness for all threads together (*some* thread that can run does), since what a
command or a start sets off comes to an end. In
`OldRooms` the broker, the server for each waiting client and each subscriber thread are
weakly fair: the server is one thread that takes connections in the order of their
arrival. Nothing is assumed of users, of Ctrl-C, or of timeouts. `Membership` assumes no
fairness; `MembersAgree` and `LeaversRemoved` speak of states in which every message
has been handled, as do `MeshWhenCalm` and `KnownBack`.

In `Overlay`, what can go wrong needs a process that starts, one that answers and one the
ping is passed on to. The last finds only the middle one, so that a ping has to be
passed on. Its exit and restart bring in what the exit leaves behind: neighbours
that nobody is, pongs for a process that is gone, and identifiers in `seen`, when another
scans from its port. `MaxScans` gives the last port two scans in all: one for each of two
processes, or both for one that has not exited, whose wait times out, so that the pong
to its first ping comes before, during or after the second scan (an exit after the second
scan is cut off by `MaxExits`). `TTL = 1` is exactly enough for three. A larger instance in which the
middle one exits and is started again (2 million states, safety only) passes as well.
Where more processes would bring in more orders,
the theorems cover any number, any contacts and any time to live.

In `OldRooms` calls are served one at a time, so what goes wrong is between the calls of one
client and those of another of the same name (two `ann`s), and the third dies at
any point; a room whose name begins another's brings in lines that match without
being the room's. One line per client is enough to be overtaken by a subscription.

### What the violations say

Two more disagreements need no violation: the runs named with them rest on what the code
does. The README's promise about the author's own lines is not kept (`OldRooms`, above), and
the comment at `peers.py:247` ("Ping/Pong does not get forwarded") denies the forwarding at
`299-301` that `MeshWhenCalm` depends on.

* **Lost deferral** (`peers.py:927-937`). A handler that found `requesting` leaves
  the lock, compares and defers without it. If the vote that lets its own peer in
  and `d/Done` happen in between, the requester is put into a set nobody will
  empty: an idle peer keeps it waiting. When that peer asks again, it may wait for the
  one it has deferred, and both wait for ever (27 steps, `NoDeadlock` without its last
  disjunct).
* **Stuck lock** (`peers.py:919-922`, `97`). The idle branch replies with
  `critical_section_lock` held. If the requester is gone, `send_msg`'s except clause
  waits for that same lock in the same thread.
* **Overtaken commit** (`peers.py:1191-1196`). The section is released when the
  tx_commits are written, not when they are applied. The vote of the releasing peer
  reaches the next holder first, which validates against stale pins. The second that
  `with_global_cs` sleeps before it (`995`) makes this rare on a fast network and orders
  nothing.
* **Ghost** (`peers.py:395-407`). A leave removes a name that is there. When the join it
  follows, or a `member_sync` sent before it, is handled later, the name comes back
  and stays. Ctrl-C (`1457-1470`) leaves such a name behind in every room but the
  active one.

More defects and limits show when an instance is changed:

* **Dead voter** (`peers.py:603-605`). Only `with_global_cs` probes the voters. After d/CS a
  voter that takes the request and exits is waited for until something else is sent to it,
  which nothing and nobody has to do: two peers, one `"d/CS"`, one exit, `FairSpec`,
  `DeadVotersStruckOff`.
* **Same name** (`1335`). The first pong ends the bootstrap; the member lists come on
  another connection. `username_check` may look at lists that are still empty and is
  never repeated, so two users in a room have one name, and a leave of one strikes off
  the other: two peers, one starts, `Calls <- AnyName`, `NamesDiffer`.
* **Split** (`1313`). Without `calm` `MeshWhenCalm` fails: two processes that start together
  may find only each other, come to their prompts and know nobody of the older ones. So
  it does after a restart on port 5000, whose process looks for nobody.
* **Early request** (`310`). A process that has its first pong from b may ask for the section
  before it has met a, which is asking too: each asks b only, and b votes for both. Two
  are in the section (`Knows` of the first and the last of three peers is the middle one,
  `MutualExclusion`).
* **Two starters.** `MembersAgree` fails when two peers start together, for the same
  reason: `username_check` aside, nobody passes on the lists of who is not known.
* **False suspicion** (`106`). With `FalseSuspicion = TRUE` (a connect to a running peer
  times out) `MutualExclusion` fails: the peer is taken for dead and its vote not asked.
* **Exits.** With an exit in the middle of a broadcast `PinsSpread` fails; without
  `Gone = {}` `MembersAgree` fails, because a starting peer whose contact exits after its
  pong, before it passes the ping on, knows nobody.
* **Early pin.** With `Pinners = {5002}` in `Pins_join.cfg` the pin of a peer that has just
  joined goes to those that have answered so far, and `NoPinLost` fails.
* **Ctrl-C in the old design** (`old/client-xmlrpc.py:112-114`). Without `Steady`
  `ListIsRight` fails: a call that was waiting is still served, so a client that has ended
  joins; and a namesake who was refused strikes off who is on the list.

## Proofs

`tlapm` proves, for every set of peers, all bounds and all start clocks:

* `CriticalSectionProofs`: `TypeCorrect`; and under `FullMesh` (everybody knows
  everybody at the start) and `RightDetector` (`FalseSuspicion = FALSE`):
  `InvariantHolds` (`IInv`), `Exclusion`, `RepliesAreCurrent`, `EntersInLamportOrder`,
  `VotesAreKept`, `NoCircularWait` (`NoDeadlock`) and `Refinement` (every step is a step of
  `Mutex` or a stutter).
* `PinTransactionsProofs`: `InvariantHolds` (`PinInv`), `TypeCorrect`, `CommitsAlone`,
  `OneOutcome` and `PinsImplementCommit` (every step is a step of `AtomicCommit` or a
  stutter), for every set of peers, rooms, transactions, joins and exits; and
  `PinsReachAll` (`NoPinLost`, which speaks of the time before anybody exits) under
  `OneJoins`: one process joins, which pins nothing itself.
* `GossipProofs`: `TypeCorrect`, `ClocksAreCausal`, `HistoriesAreCausal` and
  `FocusIsHeeded`, for every overlay, time to live and size of `seen`; and
  `HandlersOwnTheirs` and `MessagesKeptOnce`, while `seen` has room for one more
  identifier (`NeverFull`).
* `MembershipProofs`: `TypeCorrect`, for any peers, rooms, contacts and bounds; and
  `StayersAreKept` under `DistinctCalls`.
* `AgreementProofs`: `MembersCatchUp`, under `DistinctCalls` and `OneStarts` (one peer starts,
  the others are established).
* `OverlayProofs`: `TypeCorrect`, `KnownBothWays` and `AllKnowAll`, for any ports, contacts,
  bounds and times to live. `AllKnowAll` is the hypothesis `FullMesh` of the theorems about the
  section, for processes that start and exit one after the other, on ports used before or not.
* `OldRoomsProofs`: `TypeCorrect`, `NamedOnce`, `ListsAreRight` and `PipelineIsLog` (every step
  is a step of `RoomLog` or a stutter), for any clients, rooms, names and prefixes.
* `Reservations`: `OverlapIsShared`, `CommitKeepsApart` and `RollBackUndoes`.

The argument for the section. A holder has all votes, so two holders would have
each other's. `IInv` makes `Granted(r, v)` - v's vote has been given or is on its way
- imply that r's request precedes v's (`GrantInv`); granted both ways gives
`Before` both ways, which is impossible. `GrantInv` is kept because a vote is
decided by comparing timestamps, or by an idle peer, whose later request is later:
its clock is past every request it has seen (`ClockInv`). Both need that a vote is
in one place at a time and belongs to the request being made now (`VoteInv`), which
is also why replies need no request identifier: with TCP and no false suspicion
exactly one reply answers each request, even though the connections race.
`MutualExclusion` alone is not inductive: nothing in it says where votes are.

That nobody waits in a circle (`NoDeadlock`). When all is still, a vote that a request
waits for is neither on its way nor due, so its voter has deferred it (`VoteInv`). Unless
the race has lost that deferral the voter has a reason: it is in the section, or its own
request comes first. Of the requests made by peers that run one comes before all others
(timestamps and ports are well-founded, `FirstRequest`), and that one waits for somebody
(`WaitInv`); a voter with an earlier request there is none, so one is in the section, and
as all is still its user keeps it.

The two hypotheses cannot be dropped: a peer that does not know another does not
ask it, and a false suspicion takes a vote that was not given.

The argument for the pins. Whoever is in `do_commit` is in the section
(`SectionInv`); a transaction is current at one peer, and nobody has an outcome for it
before that peer has validated (`CurrentInv`); a message announces an outcome that
some peer has (`OutcomeInv`). `PinTransactions` uses the abstract `Mutex` also for
peers that join later; that is justified only as far as bootstrap has made them known to
everybody before they ask for the section (Early request, above).

For `PinsImplementCommit` a transaction counts as decided when some peer has its outcome, or
when its owner stands between the pin and the status (`Known`, `Marking`). So what decides to
commit is the pin the owner sets (`ApplyLocally`), and what decides to abort is the status
`Validate` sets when it finds a conflict. The status alone would come too
late: a joiner may be told the pin before it is set and the owner exit, so that no peer ever
has the transaction as committed while the joiner shows its pin. Before the two deciding steps
nobody has an outcome (`CurrentInv`), and they are the only ones that may decide.
`MarkCommitted` is a stutter. Who handles tx_commit or tx_abort learns what has been decided, by
`OutcomeInv`. Who handles a pin_sync is shown what was decided, because pins and pin_sync
messages hold nothing else (`ShownInv`; that what has been decided stays decided is what keeps
it true). All other steps stutter. What the abstract specification does not promise is that all
learn: the overtaken commit also shows that two decided pins of a room may end up in either
order.

That no pin is lost (`SpreadInv`, which holds until somebody exits: `Gone = {} => SpreadInv`
is the invariant). The peers that run from the start know each other
(`PeersInv`), so a broadcast covers all of them; whoever has committed has set the pin before
it broadcasts, and what a message brings somebody has pinned (`PinsInv`). The one that
joins is covered too. A peer that has handled a ping of it has it as a neighbour, so its
next broadcast goes there. To a peer that has not, a ping is still on its way, because
whoever handles one passes it on to all the others (`PingsInv`); the answer will bring the
pin (`CoverInv`). That only those
there from the start pin, and that nobody has exited, are both needed: see "Early pin" and "Exits" above.

The argument for the chat. A clock is past whatever its user knows, hence a message
is later than every message its author knew, and the sort puts it behind them
(`CausalInv`); that the clock is merged before the message is displayed is what this
rests on. A focus message is later than the clock its sender had when the room
changed, and nobody knows a message from the future of its author; so a handler that
looked at the room before the switch cannot hold an answer to the focus message
(`HeedInv`). A handler that has passed the duplicate check owns its identifier: it is in
`seen`, not yet in the history, and no other handler of that peer has it (`KeptInv`).

The argument for the member lists. Only a leave takes names off a list, and only those
it carries (`OnlyLeaves`). A leave, wherever it still is, carries the name of a user
who is leaving or gone and who keeps that name (`LeavesOwn`), and a user who has passed
`username_check` has a name of his own choice (`Named`). So if users choose different
names, a leave never hits who stays. `DistinctCalls` cannot be dropped:
`username_check` does not provide it (Same name, above).

The argument for agreement. Whatever room a user q has entered, every other peer p has
the entry or a message to it has (`Has`), or q knows p and has yet to tell (`Tell`), or an
established peer is told and passes it on (`Over`), or p is the one that starts and a ping
of it has yet to be handled by q, which will answer with its lists (`PingOn`). What q
answers holds what q had entered by then, and what it enters later it tells p, which it
then knows. When nothing is on its way only `Has` is left, and it means the list.

The argument for the overlay. Whoever has handled a ping knows its originator, who knows
him or has his pong on its way (`SeenRight`); of two neighbours one has handled a ping of
the other (`NeighborsRight`). When all is quiet that gives `KnownBack`. When starts are calm,
those before the newest know each other (`OldKnit`), so a ping of the newest that has been
handled where it went first has reached each of the others, or is on its way there, or
about to be (`SpreadsNew`): one hop from the contact is enough. Who the newest is, and from
which scan on its pings are its own and not those of an earlier process on its port, no
variable says: `CalmInv` states that there is such a process and such a number. Nobody has
handled a ping with that number before the newest starts (`FreshInv`), so an identifier left in a
`seen` hides none of its pings, although its port may have been used by others. An
exit when all is quiet leaves the others knowing each other and makes anyone the newest.

The argument for the old rooms. While a client waits for an answer it is where it was
when it asked, unless Ctrl-C has ended it (`Waiting`); so a name is on a list exactly from
the join of a client to the exit of the same client, and `join_room` refuses a second one
in between. For `PipelineIsLog` the log is what the broker has published followed by what
the server has pushed, and the place of a client in it is the number of lines published
less those in its inbox.

The argument for reservations. A commit only adds entries of its own transaction, which
`Valid` has compared with every entry of the others (not with each other: one transaction may
book overlapping windows); one that is refused or over leaves the bookings as they are; and a
roll-back removes by transaction.

Only model-checked: `PinsServed`, `PinsSpread`, `MessagesArrive`, `BootEnds` and `CatchesUp`
(liveness is out of the prover's reach), and every violated property.

## Not modelled

The list of rooms (`all_rooms`, `room_announce`, `room_query`, `room_checker`): what the user is
shown and what a name typed is compared with. No other component depends on it. Two
weaknesses are known from reading: a join of a user who is listed already, since a
`member_sync` overtook it, returns before it adds the room (`peers.py:384-392`), so a room
may have members and not be in the list; and two users who name a room at the same time
in different spelling make two rooms, as `room_checker` looks at the list before either
join is told.

Of the chat: sends that fail and users who enter further rooms meanwhile. Of the
transactions: `abort_transaction`, which nothing calls.

The console (`console_lock` is held while `input()` waits at `peers.py:687`, `1303` and
`1338`, which stalls handlers that print), `recv(4096)`, which cuts longer messages off,
the banner, the help and the printing.

In `src/old/`, the superseded versions of the peer (`new.py`, `peers_old.py`, `stupid.py`) and the
demos of sockets and ZeroMQ (`server.py`, `client.py` and others): no part of the present
program or of the XML-RPC design uses them. `run_peers.ps1` opens terminals.

## Plan

1. Done: `Mutex`, `CriticalSection`, `PinTransactions` with their theorems.
2. Done: `Gossip` and `Membership` with their theorems; d/Flood, topics and d/Switch in
   `Gossip`; agreement of the member lists.
3. Done: `Overlay` with its theorems, which discharge the full mesh for calm starts and exits.
4. Done: `RoomLog` and `OldRooms` with their theorems; `Reservations`.
5. Done: `NoPinLost` as a theorem; `AtomicCommit` and that the transactions implement it;
   `NoDeadlock` as a theorem.
6. Left: the list of rooms, over `Membership`; a weaker hypothesis than `FullMesh` for peers
   that join while others hold the section.
