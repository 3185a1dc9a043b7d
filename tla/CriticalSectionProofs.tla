----------------------- MODULE CriticalSectionProofs -----------------------
(***************************************************************************)
(* Theorems about CriticalSection, for any set of peers, any clocks, any   *)
(* number of requests and exits.  TypeCorrect holds however the peers know *)
(* each other and however wrong they are about who is dead; the others     *)
(* assume a full mesh and that a connect to a running peer succeeds.       *)
(***************************************************************************)
EXTENDS CriticalSection, TLAPS, WellFoundedInduction

\* the type invariant with the part of IInv it needs to be inductive
TypeInv == TypeOK /\ MainInv

USE PeerAssumption, KnowsAssumption, BoundsAssumption
USE DEF local, thread, NoTs

\* A message built by a peer, or moved on by a handler thread, is a message.
LEMMA MessageType ==
  /\ \A n, a \in Peer : TypeOK => Request(n, a) \in Message /\ Reply(n, a) \in Message
  /\ \A m \in Message, pc \in MsgPC : [m EXCEPT !.pc = pc] \in Message
BY DEF Message, MsgPC, Request, Reply, TypeOK

LEMMA TypeInit == Init => TypeInv
<1> SUFFICES ASSUME Init PROVE TypeInv
  OBVIOUS
<1>1. clock \in [Peer -> Nat]
  BY DEF Init
<1>2. neighbors \in [Peer -> SUBSET Peer]
  BY DEF Init
<1>3. state \in [Peer -> {"idle", "requesting", "in_cs"}] /\ main \in [Peer -> MainPC]
  BY DEF Init, MainPC
<1>4. /\ pending \in [Peer -> SUBSET Peer] /\ deferred \in [Peer -> SUBSET Peer]
      /\ todo \in [Peer -> SUBSET Peer]
  BY DEF Init
<1>5. /\ pinning \in [Peer -> BOOLEAN] /\ requests \in [Peer -> Nat]
      /\ reqTs \in [Peer -> Nat]
  BY DEF Init
<1>6. \A p \in Peer : reqTs[p] = NoTs <=> state[p] = "idle"
  BY DEF Init
<1>7. MainInv
  BY DEF Init, MainInv
<1> QED
  BY <1>1, <1>2, <1>3, <1>4, <1>5, <1>6, <1>7 DEF Init, TypeInv, TypeOK

LEMMA MergedType == \A i, j \in Nat : Merged(i, j) \in Nat /\ Merged(i, j) > i /\ Merged(i, j) > j
BY DEF Merged

\* The steps of the main thread and of the user.
LEMMA TypeMain ==
  ASSUME TypeInv, NEW n \in Peer, MainStep(n) \/ UserStep(n)
  PROVE  TypeInv'
<1> USE DEF TypeInv, TypeOK, MainInv, MainPC
<1>1. CASE RequestCS(n)
  BY <1>1 DEF RequestCS, Count
<1>2. CASE PinOverCS(n)
  BY <1>2 DEF PinOverCS, Count
<1>3. CASE Done(n) \/ FnReturns(n)
  <2>1. ReleaseLocked(n)
    BY <1>3 DEF Done, FnReturns
  <2> USE DEF ReleaseLocked, ClearRequest, TakeDeferred
  <2>2. TypeOK'
    BY <2>1
  <2>3. MainInv'
    BY <2>1
  <2> QED
    BY <2>2, <2>3
<1>4. CASE OtherSend(n)
  BY <1>4 DEF OtherSend
<1>12. CASE OtherSendFails(n)
  BY <1>12 DEF OtherSendFails, StrikeOff, VotesIn, thread
<1>5. CASE CheckPending(n)
  BY <1>5 DEF CheckPending, AfterRequest
<1>6. CASE SendRequest(n)
  BY <1>6, MessageType DEF SendRequest, SendMsg, StrikeOff, VotesIn
<1>7. CASE RequestsSent(n)
  BY <1>7 DEF RequestsSent, AfterRequest
<1>8. CASE ProbeFails(n)
  BY <1>8 DEF ProbeFails, VotesIn
<1>9. CASE EnterFn(n)
  BY <1>9 DEF EnterFn
<1>10. CASE SendDeferredReply(n)
  BY <1>10, MessageType DEF SendDeferredReply, SendCsReply, SendMsg, StrikeOff, VotesIn
<1>11. CASE Released(n)
  BY <1>11 DEF Released
<1> QED
  BY <1>1, <1>2, <1>3, <1>4, <1>5, <1>6, <1>7, <1>8, <1>9, <1>10, <1>11, <1>12
  DEF MainStep, UserStep

\* The steps of handler threads, and exits.
LEMMA TypeHandler ==
  ASSUME TypeInv, NEW n \in Peer,
         Exit(n) \/ \E m \in msgs : HandlerStep(n, m)
  PROVE  TypeInv'
<1> USE DEF TypeInv, TypeOK, MainInv
<1>1. CASE Exit(n)
  BY <1>1 DEF Exit
<1>2. ASSUME NEW m \in msgs, HandlerStep(n, m)
      PROVE  TypeInv'
  <2>0. /\ m \in Message /\ m.src \in Peer /\ m.lamport \in Nat
        /\ \A pc \in MsgPC : [m EXCEPT !.pc = pc] \in Message
    BY MessageType DEF Message
  <2>1. CASE Receive(n, m)
    <3>1. Merged(clock[n], m.lamport) \in Nat
      BY <2>0, MergedType
    <3>2. msgs' \subseteq Message
      BY <2>0, <2>1 DEF Receive, AtPC, MsgPC
    <3>3. QED
      BY <2>0, <2>1, <3>1, <3>2 DEF Receive
  <2>2. CASE HandleRequest(n, m)
    <3>1. Reply(n, m.src) \in Message
      BY <2>0, MessageType
    <3>2. msgs' \subseteq Message
      <4>1. [m EXCEPT !.pc = "compare"] \in Message
        BY <2>0 DEF MsgPC
      <4>2. msgs' \subseteq msgs \union {Reply(n, m.src), [m EXCEPT !.pc = "compare"]}
        BY <2>2 DEF HandleRequest, AtPC
      <4> QED
        BY <3>1, <4>1, <4>2
    <3>3. QED
      BY <2>0, <2>2, <3>2 DEF HandleRequest
  <2>3. CASE Compare(n, m)
    BY <2>0, <2>3 DEF Compare, AtPC, MsgPC
  <2>4. CASE GrantRequest(n, m)
    <3>1. Reply(n, m.src) \in Message
      BY <2>0, MessageType
    <3>2. msgs' \subseteq Message
      BY <2>4, <3>1 DEF GrantRequest, SendCsReply, SendMsg
    <3>3. QED
      BY <2>0, <2>4, <3>2 DEF GrantRequest, SendCsReply, SendMsg, StrikeOff, VotesIn
  <2>5. CASE DeferRequest(n, m)
    BY <2>0, <2>5 DEF DeferRequest
  <2>6. CASE HandleReply(n, m)
    BY <2>0, <2>6 DEF HandleReply, VotesIn
  <2> QED
    BY <1>2, <2>1, <2>2, <2>3, <2>4, <2>5, <2>6 DEF HandlerStep
<1> QED
  BY <1>1, <1>2

LEMMA TypeStep == TypeInv /\ [Next]_vars => TypeInv'
<1>1. CASE UNCHANGED vars
  BY <1>1 DEF vars, TypeInv, TypeOK, MainInv
<1> QED
  BY <1>1, TypeMain, TypeHandler DEF Next

\* Types are right and a peer has a request timestamp exactly while it requests
\* or holds the section, for any neighbour sets and with false suspicions.
THEOREM TypeCorrect == Spec => []TypeOK
<1>1. TypeInv => TypeOK
  BY DEF TypeInv
<1> QED
  BY <1>1, TypeInit, TypeStep, PTL DEF Spec

-----------------------------------------------------------------------------
(* The inductive invariant of the full mesh with a right failure detector. *)

\* run_peers.ps1 starts the peers one after the other and each pings the
\* neighbours it learns of: all know all.
FullMesh == \A p \in Peer : Knows[p] = Peer \ {p}

\* a connect to a running peer succeeds
RightDetector == FalseSuspicion = FALSE

Inv == TypeInv /\ HandlerInv /\ MeshInv /\ VoteInv /\ ClockInv /\ GrantInv

LEMMA InvInit == ASSUME FullMesh PROVE Init => Inv
<1> SUFFICES ASSUME Init PROVE HandlerInv /\ MeshInv /\ VoteInv /\ ClockInv /\ GrantInv
  BY TypeInit DEF Inv
<1> USE DEF Init
<1>1. MeshInv
  BY DEF MeshInv, FullMesh
<1>2. VoteInv
  BY DEF VoteInv, Unsent, Owed
<1>3. ClockInv
  BY TypeInit DEF ClockInv, TypeInv, TypeOK
<1>4. GrantInv
  BY DEF GrantInv
<1>5. HandlerInv
  BY DEF HandlerInv
<1> QED
  BY <1>1, <1>2, <1>3, <1>4, <1>5

\* Only Exit changes who runs.
LEMMA UpShrinks == TypeOK /\ [Next]_vars => up' \subseteq up
<1> SUFFICES ASSUME TypeOK, NEW n \in Peer, MainStep(n) \/ UserStep(n) \/ Exit(n)
                      \/ \E m \in msgs : HandlerStep(n, m)
             PROVE  up' \subseteq up
  BY DEF Next, vars
<1>1. MainStep(n) => up' = up
  BY DEF MainStep, CheckPending, SendRequest, RequestsSent, ProbeFails, EnterFn, FnReturns,
     ReleaseLocked, SendDeferredReply, Released
<1>2. UserStep(n) => up' = up
  BY DEF UserStep, RequestCS, PinOverCS, Done, OtherSend, OtherSendFails, ReleaseLocked
<1>3. \A m \in msgs : HandlerStep(n, m) => up' = up
  BY DEF HandlerStep, Receive, HandleRequest, Compare, GrantRequest, DeferRequest, HandleReply
<1> QED
  BY <1>1, <1>2, <1>3 DEF Exit

\* A peer only forgets peers that are gone.
LEMMA MeshStep == ASSUME Inv, RightDetector, [Next]_vars PROVE MeshInv'
<1> USE DEF Inv, TypeInv, TypeOK, MeshInv, RightDetector, MayFail
<1>1. up' \subseteq up
  BY UpShrinks
<1>2. \A r, v \in up : v \in neighbors[r] => v \in neighbors'[r]
  BY DEF Next, vars, MainStep, UserStep, HandlerStep, RequestCS, PinOverCS, Done, OtherSend,
     OtherSendFails, CheckPending, SendRequest, RequestsSent, ProbeFails, EnterFn, FnReturns, ReleaseLocked,
     SendDeferredReply, Released, Receive, HandleRequest, Compare, GrantRequest,
     DeferRequest, HandleReply, Exit, SendCsReply, SendMsg, StrikeOff
<1> QED
  BY <1>1, <1>2

LEMMA RequestCSStep ==
  ASSUME Inv, RightDetector, NEW n \in Peer, RequestCS(n)
  PROVE  VoteInv' /\ ClockInv' /\ GrantInv'
<1> USE DEF Inv, TypeInv, TypeOK, RequestCS
<1>0. n \in up /\ state[n] = "idle" /\ main[n] = "prompt" /\ up' = up /\ msgs' = msgs
  OBVIOUS
<1>1. \A v \in up : v # n => /\ v \in pending'[n]
                             /\ ~ Owed(n, v) /\ \A m \in msgs : ~ Carries(m, n, v)
  BY DEF MeshInv, VoteInv, Awaits
<1>2. VoteInv'
  BY <1>0, <1>1 DEF VoteInv, Unsent, Owed, Awaits, Carries
<1>3. ClockInv'
  BY <1>0, <1>1 DEF ClockInv, Seen, Owed, Carries
<1>4. GrantInv'
  BY <1>0, <1>1 DEF GrantInv, Granted, ClockInv, Seen, Owed, Carries, Before
<1> QED
  BY <1>2, <1>3, <1>4

\* PinOverCS and RequestsSent move main only; so do EnterFn and Released.
LEMMA MainOnlyStep ==
  ASSUME Inv, RightDetector, NEW n \in Peer,
         PinOverCS(n) \/ RequestsSent(n) \/ EnterFn(n) \/ Released(n)
  PROVE  VoteInv' /\ ClockInv' /\ GrantInv'
<1> USE DEF Inv, TypeInv, TypeOK, PinOverCS, RequestsSent, EnterFn, Released, AfterRequest
<1>0. /\ UNCHANGED <<up, clock, neighbors, state, reqTs, pending, deferred, todo, msgs>>
      /\ \A r, v \in up : r # v => (Owed(r, v)' <=> Owed(r, v)) /\ (Unsent(r, v)' => Unsent(r, v))
      /\ \A v \in up : main'[v] = "reply" => main[v] = "reply"
  BY DEF Owed, Unsent, MainInv
<1>2. VoteInv'
  BY <1>0 DEF VoteInv, Awaits, Carries
<1>3. ClockInv'
  BY <1>0 DEF ClockInv, Seen, Carries
<1>4. GrantInv'
  BY <1>0 DEF GrantInv, Granted, Carries, Before
<1> QED
  BY <1>2, <1>3, <1>4

LEMMA CheckPendingStep ==
  ASSUME Inv, RightDetector, NEW n \in Peer, CheckPending(n)
  PROVE  VoteInv' /\ ClockInv' /\ GrantInv'
<1> USE DEF Inv, TypeInv, TypeOK, CheckPending, AfterRequest
<1>0. /\ UNCHANGED <<up, clock, neighbors, reqTs, pending, deferred, msgs>>
      /\ \A r, v \in up : r # v => (Owed(r, v)' <=> Owed(r, v)) /\ (Unsent(r, v)' => Unsent(r, v))
      /\ \A v \in up : main'[v] = "reply" <=> main[v] = "reply"
      /\ \A r, v \in up : r # v /\ Awaits(r, v) => Awaits(r, v)'
      /\ \A v \in up : state'[v] = "idle" <=> state[v] = "idle"
      /\ \A v \in up : main[v] = "reply" => todo'[v] = todo[v]
  BY DEF Owed, Unsent, MainInv, VoteInv, Awaits
<1>2. VoteInv'
  BY <1>0 DEF VoteInv, Carries
<1>3. ClockInv'
  BY <1>0 DEF ClockInv, Seen, Carries
<1>4. GrantInv'
  BY <1>0 DEF GrantInv, Granted, Carries, Before
<1> QED
  BY <1>2, <1>3, <1>4

\* A failed connect strikes off a peer that is gone; no vote of a running
\* peer is touched.
LEMMA StrikeOffEffect ==
  ASSUME Inv, NEW n \in Peer, NEW a \in Peer \ up,
         StrikeOff(n, a) \/ UNCHANGED <<pending, state>>
         \/ /\ state[n] # "idle" /\ a \in pending[n]
            /\ pending' = [pending EXCEPT ![n] = @ \ {a}]
            /\ state' = [state EXCEPT ![n] = VotesIn(n, a)]
  PROVE  /\ \A r, v \in up : v \in pending'[r] <=> v \in pending[r]
         /\ \A r, v \in up : Awaits(r, v)' <=> Awaits(r, v)
         /\ \A r \in Peer : state'[r] = "idle" <=> state[r] = "idle"
BY DEF Inv, TypeInv, TypeOK, StrikeOff, VotesIn, Awaits, MainInv

LEMMA ConnectFailsStep ==
  ASSUME Inv, RightDetector, NEW n \in Peer, ProbeFails(n) \/ OtherSendFails(n)
  PROVE  VoteInv' /\ ClockInv' /\ GrantInv'
<1> USE DEF Inv, TypeInv, TypeOK
<1>0. /\ UNCHANGED <<up, clock, reqTs, deferred, msgs, main, todo>>
      /\ \A r, v \in up : v \in pending'[r] <=> v \in pending[r]
      /\ \A r, v \in up : Awaits(r, v)' <=> Awaits(r, v)
      /\ \A r \in Peer : state'[r] = "idle" <=> state[r] = "idle"
  <2>1. CASE ProbeFails(n)
    BY <2>1, StrikeOffEffect DEF ProbeFails, MayFail, RightDetector, thread, MainInv
  <2>2. CASE OtherSendFails(n)
    BY <2>2, StrikeOffEffect DEF OtherSendFails, MayFail, RightDetector, thread
  <2> QED
    BY <2>1, <2>2
<1>2. VoteInv'
  BY <1>0 DEF VoteInv, Carries, Owed, Unsent
<1>3. ClockInv'
  BY <1>0 DEF ClockInv, Seen, Carries, Owed
<1>4. GrantInv'
  BY <1>0 DEF GrantInv, Granted, Carries, Before
<1> QED
  BY <1>2, <1>3, <1>4

LEMMA ReleaseStep ==
  ASSUME Inv, RightDetector, NEW n \in Peer, ReleaseLocked(n)
  PROVE  VoteInv' /\ ClockInv' /\ GrantInv'
<1> USE DEF Inv, TypeInv, TypeOK, ReleaseLocked, ClearRequest, TakeDeferred
<1>0. /\ UNCHANGED <<up, clock, pending, msgs>>
      /\ \A v \in up : v # n => UNCHANGED <<state[v], reqTs[v], main[v], todo[v], deferred[v]>>
      /\ state[n] = "in_cs" /\ state'[n] = "idle" /\ main'[n] = "reply"
      /\ deferred'[n] = {} /\ todo'[n] = deferred[n]
  OBVIOUS
<1>1. \A v \in up : v # n => ~ Owed(n, v) /\ ~ Unsent(n, v) /\ \A m \in msgs : ~ Carries(m, n, v)
  BY DEF VoteInv, Awaits
<1>2. /\ \A r, v \in up : r # v /\ Owed(r, v)' => Owed(r, v)
      /\ \A r, v \in up : r # v /\ Unsent(r, v)' => Unsent(r, v)
  BY <1>0 DEF Owed, Unsent
<1>3. VoteInv'
  BY <1>0, <1>1, <1>2 DEF VoteInv, Carries, Awaits
<1>4. ClockInv'
  BY <1>0, <1>1, <1>2 DEF ClockInv, Seen, Carries
<1>5. GrantInv'
  BY <1>0, <1>1, <1>2 DEF GrantInv, Granted, Carries, Before
<1> QED
  BY <1>3, <1>4, <1>5

LEMMA OtherSendStep ==
  ASSUME Inv, RightDetector, NEW n \in Peer, OtherSend(n)
  PROVE  VoteInv' /\ ClockInv' /\ GrantInv'
<1> USE DEF Inv, TypeInv, TypeOK, OtherSend
<1>1. VoteInv'
  BY DEF VoteInv, Carries, Awaits, Owed, Unsent
<1>2. ClockInv'
  BY DEF ClockInv, Seen, Carries, Owed
<1>3. GrantInv'
  BY DEF GrantInv, Granted, Carries, Before
<1> QED
  BY <1>1, <1>2, <1>3

LEMMA ExitStep ==
  ASSUME Inv, RightDetector, NEW n \in Peer, Exit(n)
  PROVE  VoteInv' /\ ClockInv' /\ GrantInv'
<1> USE DEF Inv, TypeInv, TypeOK, Exit
<1>1. VoteInv'
  BY DEF VoteInv, Carries, Awaits, Owed, Unsent
<1>2. ClockInv'
  BY DEF ClockInv, Seen, Carries, Owed
<1>3. GrantInv'
  BY DEF GrantInv, Granted, Carries, Before
<1> QED
  BY <1>1, <1>2, <1>3

LEMMA SendRequestStep ==
  ASSUME Inv, RightDetector, NEW n \in Peer, SendRequest(n)
  PROVE  VoteInv' /\ ClockInv' /\ GrantInv'
<1> USE DEF Inv, TypeInv, TypeOK
<1>1. PICK a \in todo[n] : /\ SendMsg(n, a, Request(n, a), msgs)
                           /\ todo' = [todo EXCEPT ![n] = @ \ {a}]
  BY DEF SendRequest
<1>2. /\ a \in Peer /\ n \in up /\ main[n] = "send" /\ main' = main
      /\ UNCHANGED <<up, clock, reqTs, deferred>>
  BY DEF SendRequest
<1>3. CASE a \notin up
  <2>1. /\ StrikeOff(n, a) /\ msgs' = msgs
    BY <1>1, <1>3 DEF SendMsg
  <2>2. /\ \A r, v \in up : v \in pending'[r] <=> v \in pending[r]
        /\ \A r, v \in up : Awaits(r, v)' <=> Awaits(r, v)
        /\ \A r \in Peer : state'[r] = "idle" <=> state[r] = "idle"
    BY <1>2, <1>3, <2>1, StrikeOffEffect
  <2>3. VoteInv'
    BY <1>1, <1>2, <2>1, <2>2 DEF VoteInv, Carries, Owed, Unsent
  <2>4. ClockInv'
    BY <1>1, <1>2, <2>1, <2>2 DEF ClockInv, Seen, Carries, Owed
  <2>5. GrantInv'
    BY <1>1, <1>2, <2>1, <2>2 DEF GrantInv, Granted, Carries, Before
  <2> QED
    BY <2>3, <2>4, <2>5
<1>4. CASE a \in up
  <2> DEFINE new == Request(n, a)
  <2>1. /\ msgs' = msgs \union {new} /\ UNCHANGED <<pending, state>>
    BY <1>1, <1>4 DEF SendMsg, StrikeOff, MayFail, RightDetector
  <2>2. /\ new.type = "cs_request" /\ new.src = n /\ new.dst = a
        /\ new.lamport = reqTs[n] /\ new.pc = "in_flight"
    BY DEF Request
  <2> HIDE DEF new
  <2>3. n # a => Unsent(n, a) /\ ~ Unsent(n, a)'
    BY <1>1, <1>2 DEF Unsent
  <2>4. /\ \A r, v \in up : Owed(r, v)' <=> Owed(r, v)
        /\ \A r, v \in up : Unsent(r, v)' => Unsent(r, v)
        /\ \A v \in up : main'[v] = "reply" => todo'[v] = todo[v]
    BY <1>1, <1>2 DEF Owed, Unsent
  <2>5. VoteInv'
    <3>1. \A r, v : Carries(new, r, v) <=> r = n /\ v = a
      BY <2>2 DEF Carries
    <3>2. ASSUME NEW r \in up, NEW v \in up, r # v
          PROVE  /\ Unsent(r, v)' \/ Owed(r, v)' => Awaits(r, v)'
                 /\ ~ (Unsent(r, v)' /\ Owed(r, v)')
                 /\ ~ (r \in deferred'[v] /\ main'[v] = "reply" /\ r \in todo'[v])
      BY <1>2, <2>1, <2>4, <3>2 DEF VoteInv, Awaits
    <3>3. ASSUME NEW r \in up, NEW v \in up, r # v, NEW m \in msgs', Carries(m, r, v)
          PROVE  /\ Awaits(r, v)' /\ ~ Unsent(r, v)' /\ ~ Owed(r, v)'
                 /\ m.type = "cs_request" => m.lamport = reqTs'[r]
                 /\ \A m2 \in msgs' : Carries(m2, r, v) => m2 = m
      <4>1. CASE r = n /\ v = a
        BY <1>2, <2>1, <2>2, <2>3, <2>4, <3>1, <3>3, <4>1 DEF VoteInv, Awaits
      <4>2. CASE ~ (r = n /\ v = a)
        <5>1. /\ m \in msgs
              /\ \A m2 \in msgs' : Carries(m2, r, v) => m2 \in msgs
          BY <2>1, <3>1, <3>3, <4>2
        <5>2. /\ Awaits(r, v) /\ ~ Unsent(r, v) /\ ~ Owed(r, v)
              /\ m.type = "cs_request" => m.lamport = reqTs[r]
              /\ \A m2 \in msgs : Carries(m2, r, v) => m2 = m
          BY <1>2, <3>3, <5>1 DEF VoteInv
        <5> QED
          BY <1>2, <2>1, <2>4, <3>3, <5>1, <5>2 DEF Awaits
      <4> QED
        BY <4>1, <4>2
    <3> HIDE DEF Inv
    <3> QED
      BY <1>2, <3>2, <3>3 DEF VoteInv, Carries
  <2>6. ClockInv'
    BY <1>2, <2>1, <2>2, <2>4 DEF ClockInv, Seen, Carries
  <2>7. GrantInv'
    BY <1>2, <2>1, <2>2, <2>4 DEF GrantInv, Granted, Carries, Before
  <2> QED
    BY <2>5, <2>6, <2>7
<1> QED
  BY <1>3, <1>4

LEMMA SendDeferredReplyStep ==
  ASSUME Inv, RightDetector, NEW n \in Peer, SendDeferredReply(n)
  PROVE  VoteInv' /\ ClockInv' /\ GrantInv'
<1> USE DEF Inv, TypeInv, TypeOK
<1>1. PICK a \in todo[n] : /\ SendMsg(n, a, Reply(n, a), msgs)
                           /\ todo' = [todo EXCEPT ![n] = @ \ {a}]
                           /\ clock' = [clock EXCEPT ![n] = @ + 1]
  BY DEF SendDeferredReply, SendCsReply
<1>2. /\ a \in Peer /\ n \in up /\ main[n] = "reply" /\ main' = main
      /\ state[n] = "idle" /\ UNCHANGED <<up, reqTs, deferred>>
  BY DEF SendDeferredReply, MainInv
<1>3. CASE a \notin up
  <2>1. /\ StrikeOff(n, a) /\ msgs' = msgs
    BY <1>1, <1>3 DEF SendMsg
  <2>2. /\ \A r, v \in up : v \in pending'[r] <=> v \in pending[r]
        /\ \A r, v \in up : Awaits(r, v)' <=> Awaits(r, v)
        /\ \A r \in Peer : state'[r] = "idle" <=> state[r] = "idle"
    BY <1>2, <1>3, <2>1, StrikeOffEffect
  <2>3. VoteInv'
    BY <1>1, <1>2, <1>3, <2>1, <2>2 DEF VoteInv, Carries, Owed, Unsent
  <2>4. ClockInv'
    BY <1>1, <1>2, <2>1, <2>2 DEF ClockInv, Seen, Carries, Owed
  <2>5. GrantInv'
    BY <1>1, <1>2, <2>1, <2>2 DEF GrantInv, Granted, Carries, Before
  <2> QED
    BY <2>3, <2>4, <2>5
<1>4. CASE a \in up
  <2> DEFINE new == Reply(n, a)
  <2>1. /\ msgs' = msgs \union {new} /\ UNCHANGED <<pending, state>>
    BY <1>1, <1>4 DEF SendMsg, StrikeOff, MayFail, RightDetector
  <2>2. /\ new.type = "cs_reply" /\ new.src = n /\ new.dst = a
    BY DEF Reply
  <2> HIDE DEF new
  <2>3. n # a => /\ Owed(a, n) /\ ~ Owed(a, n)' /\ ~ Unsent(a, n) /\ Awaits(a, n)
                 /\ \A m \in msgs : ~ Carries(m, a, n)
    BY <1>1, <1>2, <1>4 DEF Owed, VoteInv
  <2>4. /\ \A r, v \in up : Owed(r, v)' => Owed(r, v)
        /\ \A r, v \in up : Unsent(r, v)' <=> Unsent(r, v)
        /\ \A v \in up : todo'[v] \subseteq todo[v]
    BY <1>1, <1>2 DEF Owed, Unsent
  <2>5. VoteInv'
    <3>1. \A r, v : Carries(new, r, v) <=> r = a /\ v = n
      BY <2>2 DEF Carries
    <3>2. ASSUME NEW r \in up, NEW v \in up, r # v
          PROVE  /\ Unsent(r, v)' \/ Owed(r, v)' => Awaits(r, v)'
                 /\ ~ (Unsent(r, v)' /\ Owed(r, v)')
                 /\ ~ (r \in deferred'[v] /\ main'[v] = "reply" /\ r \in todo'[v])
      BY <1>2, <2>1, <2>4, <3>2 DEF VoteInv, Awaits
    <3>3. ASSUME NEW r \in up, NEW v \in up, r # v, NEW m \in msgs', Carries(m, r, v)
          PROVE  /\ Awaits(r, v)' /\ ~ Unsent(r, v)' /\ ~ Owed(r, v)'
                 /\ m.type = "cs_request" => m.lamport = reqTs'[r]
                 /\ \A m2 \in msgs' : Carries(m2, r, v) => m2 = m
      <4>1. CASE r = a /\ v = n
        BY <1>2, <2>1, <2>2, <2>3, <2>4, <3>1, <3>3, <4>1 DEF VoteInv, Awaits
      <4>2. CASE ~ (r = a /\ v = n)
        <5>1. /\ m \in msgs
              /\ \A m2 \in msgs' : Carries(m2, r, v) => m2 \in msgs
          BY <2>1, <3>1, <3>3, <4>2
        <5>2. /\ Awaits(r, v) /\ ~ Unsent(r, v) /\ ~ Owed(r, v)
              /\ m.type = "cs_request" => m.lamport = reqTs[r]
              /\ \A m2 \in msgs : Carries(m2, r, v) => m2 = m
          BY <1>2, <3>3, <5>1 DEF VoteInv
        <5> QED
          BY <1>2, <2>1, <2>4, <3>3, <5>1, <5>2 DEF Awaits
      <4> QED
        BY <4>1, <4>2
    <3> HIDE DEF Inv
    <3> QED
      BY <1>2, <3>2, <3>3 DEF VoteInv, Carries
  <2>6. ClockInv'
    BY <1>1, <1>2, <2>1, <2>2, <2>3, <2>4 DEF ClockInv, Seen, Carries
  <2>7. GrantInv'
    BY <1>2, <2>1, <2>2, <2>4 DEF GrantInv, Granted, Carries, Before
  <2> QED
    BY <2>5, <2>6, <2>7
<1> QED
  BY <1>3, <1>4

\* What a handler thread does to the message it works on.
LEMMA AtPCEffect ==
  ASSUME TypeOK, NEW m \in msgs, NEW pc \in MsgPC, AtPC(m, pc)
  PROVE  \E m1 : /\ msgs' = (msgs \ {m}) \union {m1}
                 /\ m1.type = m.type /\ m1.src = m.src /\ m1.dst = m.dst
                 /\ m1.lamport = m.lamport /\ m1.pc = pc
<1> WITNESS [m EXCEPT !.pc = pc]
<1> QED
  BY DEF TypeOK, Message, AtPC

LEMMA HandlerPCStep == ASSUME Inv, [Next]_vars PROVE HandlerInv'
<1> USE DEF Inv, TypeInv, HandlerInv
<1>0. TypeOK
  OBVIOUS
<1>1. ASSUME NEW m \in msgs, NEW pc \in MsgPC, AtPC(m, pc),
             pc \in {"compare", "grant", "defer"} => m.type = "cs_request"
      PROVE  HandlerInv'
  BY <1>0, <1>1, AtPCEffect
<1>2. ASSUME NEW n \in Peer, NEW a \in Peer
      PROVE  Request(n, a).pc = "in_flight" /\ Reply(n, a).pc = "in_flight"
  BY DEF Request, Reply
<1>3. ASSUME NEW n \in Peer, NEW m \in msgs, HandlerStep(n, m)
      PROVE  HandlerInv'
  <2>0. m.src \in Peer
    BY DEF TypeOK, Message
  <2>1. CASE Receive(n, m)
    BY <1>1, <2>1 DEF Receive, MsgPC
  <2>2. CASE HandleRequest(n, m)
    BY <1>1, <1>2, <2>0, <2>2 DEF HandleRequest, MsgPC
  <2>3. CASE Compare(n, m)
    BY <1>1, <2>3 DEF Compare, MsgPC
  <2>4. CASE GrantRequest(n, m)
    BY <1>2, <2>0, <2>4 DEF GrantRequest, SendCsReply, SendMsg
  <2>5. CASE DeferRequest(n, m) \/ HandleReply(n, m)
    BY <2>5 DEF DeferRequest, HandleReply
  <2> QED
    BY <1>3, <2>1, <2>2, <2>3, <2>4, <2>5 DEF HandlerStep
<1>4. ASSUME NEW n \in Peer, MainStep(n) \/ UserStep(n) \/ Exit(n)
      PROVE  HandlerInv'
  <2>1. todo[n] \subseteq Peer
    BY DEF TypeOK
  <2>2. CASE SendRequest(n)
    BY <1>2, <2>1, <2>2 DEF SendRequest, SendMsg
  <2>3. CASE SendDeferredReply(n)
    BY <1>2, <2>1, <2>3 DEF SendDeferredReply, SendCsReply, SendMsg
  <2>4. CASE ~ SendRequest(n) /\ ~ SendDeferredReply(n)
    <3>1. msgs' \subseteq msgs
      BY <1>4, <2>4 DEF MainStep, UserStep, Exit, CheckPending, RequestsSent, ProbeFails,
         EnterFn, FnReturns, Done, ReleaseLocked, Released, RequestCS, PinOverCS, OtherSend,
         OtherSendFails
    <3> QED
      BY <3>1
  <2> QED
    BY <2>2, <2>3, <2>4
<1> QED
  BY <1>3, <1>4 DEF Next, vars

-----------------------------------------------------------------------------
(* What the handlers do to the votes: keep a message at work, turn a       *)
(* request into a reply, turn it into a deferral, or use it up.            *)

Peers == <<up, state, reqTs, pending, main, todo>>

LEMMA VotesKept ==
  ASSUME Inv, NEW m \in msgs, NEW pc \in MsgPC, AtPC(m, pc), UNCHANGED <<Peers, deferred>>
  PROVE  VoteInv'
<1>1. PICK m1 : /\ msgs' = (msgs \ {m}) \union {m1}
                /\ m1.type = m.type /\ m1.src = m.src /\ m1.dst = m.dst
                /\ m1.lamport = m.lamport
  BY AtPCEffect DEF Inv, TypeInv
<1>2. \A r, v : Carries(m1, r, v) <=> Carries(m, r, v)
  BY <1>1 DEF Carries
<1>3. /\ UNCHANGED <<up, state, reqTs, pending, main, todo, deferred>>
      /\ VoteInv
  BY DEF Peers, Inv
<1> HIDE DEF Inv
<1>4. ASSUME NEW r \in up, NEW v \in up, r # v, NEW k \in msgs', Carries(k, r, v)
      PROVE  /\ Awaits(r, v) /\ ~ Unsent(r, v) /\ ~ Owed(r, v)
             /\ k.type = "cs_request" => k.lamport = reqTs[r]
             /\ \A k2 \in msgs' : Carries(k2, r, v) => k2 = k
  <2>1. CASE k = m1
    BY <1>1, <1>2, <1>3, <1>4, <2>1 DEF VoteInv
  <2>2. CASE k \in msgs /\ k # m
    BY <1>1, <1>2, <1>3, <1>4, <2>2 DEF VoteInv
  <2> QED
    BY <1>1, <1>4, <2>1, <2>2
<1> QED
  BY <1>3, <1>4 DEF VoteInv, Carries, Awaits, Owed, Unsent

LEMMA VoteReplied ==
  ASSUME Inv, NEW n \in up, NEW m \in msgs, m.type = "cs_request", m.dst = n, m.src \in up,
         msgs' = (msgs \ {m}) \union {Reply(n, m.src)}, UNCHANGED <<Peers, deferred>>
  PROVE  VoteInv'
<1> DEFINE new == Reply(n, m.src)
<1>1. /\ new.type = "cs_reply" /\ new.src = n /\ new.dst = m.src
      /\ msgs' = (msgs \ {m}) \union {new}
  BY DEF Reply
<1> HIDE DEF new
<1>2. \A r, v : Carries(new, r, v) <=> Carries(m, r, v)
  BY <1>1 DEF Carries
<1>3. /\ UNCHANGED <<up, state, reqTs, pending, main, todo, deferred>>
      /\ VoteInv
  BY DEF Peers, Inv
<1>4. ASSUME NEW r \in up, NEW v \in up, r # v, NEW k \in msgs', Carries(k, r, v)
      PROVE  /\ Awaits(r, v) /\ ~ Unsent(r, v) /\ ~ Owed(r, v)
             /\ k.type = "cs_request" => k.lamport = reqTs[r]
             /\ \A k2 \in msgs' : Carries(k2, r, v) => k2 = k
  <2>1. CASE k = new
    BY <1>1, <1>2, <1>3, <1>4, <2>1 DEF VoteInv
  <2>2. CASE k \in msgs /\ k # m
    BY <1>1, <1>2, <1>3, <1>4, <2>2 DEF VoteInv
  <2> QED
    BY <1>1, <1>4, <2>1, <2>2
<1> QED
  BY <1>3, <1>4 DEF VoteInv, Carries, Awaits, Owed, Unsent

LEMMA VoteDeferred ==
  ASSUME Inv, NEW n \in up, NEW m \in msgs, m.type = "cs_request", m.dst = n,
         msgs' = msgs \ {m}, deferred' = [deferred EXCEPT ![n] = @ \union {m.src}],
         UNCHANGED Peers
  PROVE  VoteInv'
<1>1. /\ UNCHANGED <<up, state, reqTs, pending, main, todo>>
      /\ VoteInv /\ deferred \in [Peer -> SUBSET Peer] /\ up \subseteq Peer
  BY DEF Peers, Inv, TypeInv, TypeOK
<1>2. \A r, v : Carries(m, r, v) <=> r = m.src /\ v = n
  BY DEF Carries
<1>3. /\ \A r, v \in up : ~ (r = m.src /\ v = n) => (Owed(r, v)' <=> Owed(r, v))
      /\ \A v \in up : deferred'[v] \subseteq deferred[v] \union {m.src}
      /\ \A v \in up : v # n => deferred'[v] = deferred[v]
  BY <1>1 DEF Owed
<1>4. ASSUME NEW r \in up, NEW v \in up, r # v
      PROVE  /\ Unsent(r, v) \/ Owed(r, v)' => Awaits(r, v)
             /\ ~ (Unsent(r, v) /\ Owed(r, v)')
             /\ ~ (r \in deferred'[v] /\ main[v] = "reply" /\ r \in todo[v])
  <2>1. CASE r = m.src /\ v = n
    BY <1>1, <1>2, <1>4, <2>1 DEF VoteInv, Owed
  <2>2. CASE ~ (r = m.src /\ v = n)
    BY <1>1, <1>3, <1>4, <2>2 DEF VoteInv
  <2> QED
    BY <2>1, <2>2
<1>5. ASSUME NEW r \in up, NEW v \in up, r # v, NEW k \in msgs', Carries(k, r, v)
      PROVE  /\ Awaits(r, v) /\ ~ Unsent(r, v) /\ ~ Owed(r, v)'
             /\ k.type = "cs_request" => k.lamport = reqTs[r]
             /\ \A k2 \in msgs' : Carries(k2, r, v) => k2 = k
  <2>1. ~ (r = m.src /\ v = n)
    BY <1>1, <1>2, <1>5 DEF VoteInv
  <2> QED
    BY <1>1, <1>3, <1>5, <2>1 DEF VoteInv
<1> QED
  BY <1>1, <1>4, <1>5 DEF VoteInv, Carries, Awaits, Unsent

LEMMA ReceiveStep ==
  ASSUME Inv, NEW n \in Peer, NEW m \in msgs, Receive(n, m)
  PROVE  VoteInv' /\ ClockInv' /\ GrantInv'
<1>0. /\ TypeOK /\ n \in up /\ m.dst = n /\ m.pc = "in_flight" /\ m.lamport \in Nat
      /\ "dispatch" \in MsgPC /\ AtPC(m, "dispatch")
      /\ UNCHANGED <<up, state, reqTs, pending, main, todo, deferred>>
      /\ clock' = [clock EXCEPT ![n] = Merged(@, m.lamport)]
  BY DEF Receive, Inv, TypeInv, TypeOK, Message, MsgPC
<1>1. PICK m1 : /\ msgs' = (msgs \ {m}) \union {m1}
                /\ m1.type = m.type /\ m1.src = m.src /\ m1.dst = m.dst
                /\ m1.lamport = m.lamport /\ m1.pc = "dispatch"
  BY <1>0, AtPCEffect
<1>2. VoteInv'
  BY <1>0, VotesKept DEF Peers
<1>3. /\ clock' \in [Peer -> Nat] /\ clock'[n] > clock[n] /\ clock'[n] > m.lamport
      /\ \A p \in Peer : clock'[p] >= clock[p]
  <2>1. /\ clock \in [Peer -> Nat] /\ clock[n] \in Nat /\ n \in Peer
    BY <1>0 DEF TypeOK
  <2>2. /\ Merged(clock[n], m.lamport) \in Nat
        /\ Merged(clock[n], m.lamport) > clock[n] /\ Merged(clock[n], m.lamport) > m.lamport
    BY <1>0, <2>1, MergedType
  <2> QED
    BY <1>0, <2>1, <2>2
<1>4. ClockInv'
  <2>1. \A p \in Peer : reqTs'[p] <= clock'[p]
    BY <1>0, <1>3 DEF Inv, ClockInv, TypeOK
  <2>2. ASSUME NEW r \in up, NEW v \in up, r # v, state[r] # "idle", Seen(r, v)'
        PROVE  reqTs[r] <= clock'[v]
    <3>1. CASE Seen(r, v)
      BY <1>0, <1>3, <2>2, <3>1 DEF Inv, ClockInv, TypeOK
    <3>2. CASE ~ Seen(r, v)
      <4>1. Carries(m, r, v) /\ m.type = "cs_request"
        BY <1>0, <1>1, <2>2, <3>2 DEF Seen, Carries, Owed
      <4>2. m.lamport = reqTs[r] /\ v = n
        BY <1>0, <2>2, <4>1 DEF Inv, VoteInv, Carries
      <4> QED
        BY <1>0, <1>3, <4>2 DEF TypeOK
    <3> QED
      BY <3>1, <3>2
  <2> QED
    BY <1>0, <2>1, <2>2 DEF ClockInv
<1>5. GrantInv'
  <2>1. \A r, v \in up : Granted(r, v)' => Granted(r, v)
    BY <1>0, <1>1 DEF Granted, Carries
  <2> QED
    BY <1>0, <2>1 DEF Inv, GrantInv, Before
<1> QED
  BY <1>2, <1>4, <1>5

LEMMA CompareStep ==
  ASSUME Inv, NEW n \in Peer, NEW m \in msgs, Compare(n, m)
  PROVE  VoteInv' /\ ClockInv' /\ GrantInv'
<1> DEFINE pc == IF TheirsFirst(n, m.lamport, m.src) THEN "grant" ELSE "defer"
<1>0. /\ TypeOK /\ n \in up /\ m.dst = n /\ m.pc = "compare" /\ m.type = "cs_request"
      /\ pc \in MsgPC /\ AtPC(m, pc)
      /\ UNCHANGED <<up, state, reqTs, pending, main, todo, deferred, clock>>
  BY DEF Compare, Inv, TypeInv, HandlerInv, MsgPC
<1>1. PICK m1 : /\ msgs' = (msgs \ {m}) \union {m1}
                /\ m1.type = m.type /\ m1.src = m.src /\ m1.dst = m.dst
                /\ m1.lamport = m.lamport /\ m1.pc = pc
  BY <1>0, AtPCEffect
<1>2. VoteInv'
  BY <1>0, VotesKept DEF Peers
<1>3. ClockInv'
  <2>1. \A r, v \in up : Seen(r, v)' => Seen(r, v)
    BY <1>0, <1>1 DEF Seen, Carries, Owed
  <2> QED
    BY <1>0, <2>1 DEF Inv, ClockInv
<1>4. GrantInv'
  <2>1. ASSUME NEW r \in up, NEW v \in up, r # v, state[r] # "idle", state[v] # "idle",
               Granted(r, v)', ~ Granted(r, v)
        PROVE  Before(reqTs[r], r, reqTs[v], v)
    <3>1. Carries(m, r, v) /\ pc = "grant"
      BY <1>0, <1>1, <2>1 DEF Granted, Carries
    <3>2. m.lamport = reqTs[r] /\ v = n /\ r = m.src
      BY <1>0, <2>1, <3>1 DEF Inv, VoteInv, Carries
    <3>3. reqTs[v] # NoTs
      BY <1>0, <2>1 DEF TypeOK
    <3> QED
      BY <3>1, <3>2, <3>3 DEF TheirsFirst
  <2> QED
    BY <1>0, <2>1 DEF Inv, GrantInv, Before
<1> QED
  BY <1>2, <1>3, <1>4

\* A reply is sent for a request whose vote is granted: the voter is idle, or
\* has decided that the request comes first.
LEMMA ReplyStep ==
  ASSUME Inv, NEW n \in up, NEW m \in msgs, m.type = "cs_request", m.dst = n, m.src \in up,
         m.pc # "in_flight", state[n] = "idle" \/ m.pc = "grant",
         msgs' = (msgs \ {m}) \union {Reply(n, m.src)},
         clock' = [clock EXCEPT ![n] = @ + 1], UNCHANGED <<Peers, deferred>>
  PROVE  VoteInv' /\ ClockInv' /\ GrantInv'
<1> DEFINE new == Reply(n, m.src)
<1>1. /\ new.type = "cs_reply" /\ new.src = n /\ new.dst = m.src
      /\ msgs' = (msgs \ {m}) \union {new}
  BY DEF Reply
<1> HIDE DEF new
<1>2. /\ TypeOK /\ UNCHANGED <<up, state, reqTs, pending, main, todo, deferred>>
  BY DEF Peers, Inv, TypeInv
<1>3. VoteInv'
  BY VoteReplied
<1>4. ClockInv'
  <2>1. \A r, v \in up : Seen(r, v)' => Seen(r, v)
    BY <1>1, <1>2 DEF Seen, Carries, Owed
  <2> QED
    BY <1>2, <2>1 DEF Inv, ClockInv, TypeOK
<1>5. GrantInv'
  <2>1. \A r, v \in up : Granted(r, v)' => Granted(r, v) \/ state[v] = "idle"
    BY <1>1, <1>2 DEF Granted, Carries
  <2> QED
    BY <1>2, <2>1 DEF Inv, GrantInv, Before
<1> QED
  BY <1>3, <1>4, <1>5

LEMMA DeferStep ==
  ASSUME Inv, NEW n \in up, NEW m \in msgs, m.type = "cs_request", m.dst = n,
         m.pc # "in_flight", msgs' = msgs \ {m},
         deferred' = [deferred EXCEPT ![n] = @ \union {m.src}], UNCHANGED <<Peers, clock>>
  PROVE  VoteInv' /\ ClockInv' /\ GrantInv'
<1>1. /\ TypeOK /\ UNCHANGED <<up, state, reqTs, pending, main, todo, clock>>
  BY DEF Peers, Inv, TypeInv
<1>2. VoteInv'
  BY VoteDeferred
<1>3. ClockInv'
  <2>1. \A r, v \in up : Seen(r, v)' => Seen(r, v)
    BY <1>1 DEF Seen, Carries, Owed, TypeOK
  <2> QED
    BY <1>1, <2>1 DEF Inv, ClockInv
<1>4. GrantInv'
  <2>1. \A r, v \in up : Granted(r, v)' => Granted(r, v)
    BY <1>1 DEF Granted, Carries
  <2> QED
    BY <1>1, <2>1 DEF Inv, GrantInv, Before
<1> QED
  BY <1>2, <1>3, <1>4

\* A reply that cannot be delivered, because the requester is gone, changes
\* nothing for the peers that run.
LEMMA GoneStep ==
  ASSUME Inv, NEW m \in msgs, m.src \in Peer \ up, msgs' = msgs \ {m},
         UNCHANGED <<up, reqTs, deferred, main, todo>>,
         clock' \in [Peer -> Nat], \A p \in Peer : clock'[p] >= clock[p],
         \A r, v \in up : v \in pending'[r] <=> v \in pending[r],
         \A r, v \in up : Awaits(r, v)' <=> Awaits(r, v),
         \A r \in Peer : state'[r] = "idle" <=> state[r] = "idle"
  PROVE  VoteInv' /\ ClockInv' /\ GrantInv'
<1> USE DEF Inv, TypeInv, TypeOK
<1>1. VoteInv'
  BY DEF VoteInv, Carries, Owed, Unsent
<1>2. ClockInv'
  <2>1. \A r, v \in up : Seen(r, v)' => Seen(r, v)
    BY DEF Seen, Carries, Owed
  <2> QED
    BY <2>1 DEF ClockInv
<1>3. GrantInv'
  <2>1. \A r, v \in up : Granted(r, v)' => Granted(r, v)
    BY DEF Granted, Carries
  <2>2. up \subseteq Peer /\ GrantInv
    OBVIOUS
  <2> HIDE DEF Inv
  <2> QED
    BY <2>1, <2>2 DEF GrantInv, Before
<1> QED
  BY <1>1, <1>2, <1>3

LEMMA HandleRequestStep ==
  ASSUME Inv, RightDetector, NEW n \in Peer, NEW m \in msgs, HandleRequest(n, m)
  PROVE  VoteInv' /\ ClockInv' /\ GrantInv'
<1>0. /\ TypeOK /\ n \in up /\ m.dst = n /\ m.pc = "dispatch" /\ m.type = "cs_request"
      /\ UNCHANGED <<up, state, reqTs, pending, main, todo>> /\ m.src \in Peer
  BY DEF HandleRequest, thread, Inv, TypeInv, TypeOK, Message
<1>1. CASE state[n] = "idle"
  <2>1. clock' = [clock EXCEPT ![n] = @ + 1] /\ deferred' = deferred
    BY <1>1 DEF HandleRequest
  <2>2. CASE m.src \in up
    <3>1. msgs' = (msgs \ {m}) \union {Reply(n, m.src)}
      BY <1>1, <2>2 DEF HandleRequest, MayFail, RightDetector
    <3> QED
      BY <1>0, <1>1, <2>1, <2>2, <3>1, ReplyStep DEF Peers
  <2>3. CASE m.src \notin up
    <3>1. msgs' = msgs \ {m}
      BY <1>1, <2>3 DEF HandleRequest
    <3>2. clock' \in [Peer -> Nat] /\ \A p \in Peer : clock'[p] >= clock[p]
      BY <1>0, <2>1 DEF TypeOK
    <3> QED
      BY <1>0, <2>1, <2>3, <3>1, <3>2, GoneStep DEF Awaits
  <2> QED
    BY <2>2, <2>3
<1>2. CASE state[n] = "in_cs"
  <2>1. /\ deferred' = [deferred EXCEPT ![n] = @ \union {m.src}]
        /\ msgs' = msgs \ {m} /\ clock' = clock
    BY <1>2 DEF HandleRequest
  <2> QED
    BY <1>0, <2>1, DeferStep DEF Peers
<1>3. CASE state[n] = "requesting"
  <2>1. AtPC(m, "compare") /\ UNCHANGED <<clock, deferred>> /\ "compare" \in MsgPC
    BY <1>3 DEF HandleRequest, MsgPC
  <2>2. VoteInv'
    BY <1>0, <2>1, VotesKept DEF Peers
  <2>3. PICK m1 : /\ msgs' = (msgs \ {m}) \union {m1}
                  /\ m1.type = m.type /\ m1.src = m.src /\ m1.dst = m.dst
                  /\ m1.lamport = m.lamport /\ m1.pc = "compare"
    BY <1>0, <2>1, AtPCEffect
  <2>4. \A r, v \in up : (Seen(r, v)' => Seen(r, v)) /\ (Granted(r, v)' => Granted(r, v))
    BY <1>0, <2>1, <2>3 DEF Seen, Granted, Carries, Owed
  <2>5. ClockInv' /\ GrantInv'
    BY <1>0, <2>1, <2>4 DEF Inv, ClockInv, GrantInv, Before
  <2> QED
    BY <2>2, <2>5
<1> QED
  BY <1>0, <1>1, <1>2, <1>3 DEF TypeOK

LEMMA GrantRequestStep ==
  ASSUME Inv, RightDetector, NEW n \in Peer, NEW m \in msgs, GrantRequest(n, m)
  PROVE  VoteInv' /\ ClockInv' /\ GrantInv'
<1>0. /\ TypeOK /\ n \in up /\ m.dst = n /\ m.pc = "grant" /\ m.type = "cs_request"
      /\ UNCHANGED <<up, reqTs, main, todo, deferred>> /\ m.src \in Peer
      /\ clock' = [clock EXCEPT ![n] = @ + 1]
      /\ SendMsg(n, m.src, Reply(n, m.src), msgs \ {m})
  BY DEF GrantRequest, SendCsReply, thread, Inv, TypeInv, TypeOK, HandlerInv, Message
<1>1. CASE m.src \in up
  <2>1. msgs' = (msgs \ {m}) \union {Reply(n, m.src)} /\ UNCHANGED <<pending, state>>
    BY <1>0, <1>1 DEF SendMsg, MayFail, RightDetector
  <2> QED
    BY <1>0, <1>1, <2>1, ReplyStep DEF Peers
<1>2. CASE m.src \notin up
  <2>1. StrikeOff(n, m.src) /\ msgs' = msgs \ {m}
    BY <1>0, <1>2 DEF SendMsg
  <2>2. /\ \A r, v \in up : v \in pending'[r] <=> v \in pending[r]
        /\ \A r, v \in up : Awaits(r, v)' <=> Awaits(r, v)
        /\ \A r \in Peer : state'[r] = "idle" <=> state[r] = "idle"
    BY <1>0, <1>2, <2>1, StrikeOffEffect
  <2>3. clock' \in [Peer -> Nat] /\ \A p \in Peer : clock'[p] >= clock[p]
    BY <1>0 DEF TypeOK
  <2> QED
    BY <1>0, <1>2, <2>1, <2>2, <2>3, GoneStep
<1> QED
  BY <1>1, <1>2

LEMMA DeferRequestStep ==
  ASSUME Inv, NEW n \in Peer, NEW m \in msgs, DeferRequest(n, m)
  PROVE  VoteInv' /\ ClockInv' /\ GrantInv'
<1>1. /\ n \in up /\ m.dst = n /\ m.pc = "defer" /\ m.type = "cs_request"
      /\ msgs' = msgs \ {m} /\ deferred' = [deferred EXCEPT ![n] = @ \union {m.src}]
      /\ UNCHANGED <<Peers, clock>>
  BY DEF DeferRequest, thread, Inv, HandlerInv, Peers
<1> QED
  BY <1>1, DeferStep

\* A reply that arrives takes its sender out of the votes awaited.
LEMMA HandleReplyStep ==
  ASSUME Inv, NEW n \in Peer, NEW m \in msgs, HandleReply(n, m)
  PROVE  VoteInv' /\ ClockInv' /\ GrantInv'
<1>0. /\ TypeOK /\ MainInv /\ n \in up /\ m.dst = n /\ m.type = "cs_reply"
      /\ UNCHANGED <<up, clock, reqTs, main, todo, deferred>>
      /\ msgs' = msgs \ {m}
  BY DEF HandleReply, thread, Inv, TypeInv
<1>1. /\ \A r, v \in up : ~ (r = n /\ v = m.src) => (v \in pending'[r] <=> v \in pending[r])
      /\ \A r, v \in up : ~ (r = n /\ v = m.src) => (Awaits(r, v)' <=> Awaits(r, v))
      /\ \A r \in Peer : state'[r] = "idle" <=> state[r] = "idle"
  BY <1>0 DEF HandleReply, VotesIn, Awaits, TypeOK
<1>2. /\ Carries(m, n, m.src)
      /\ n # m.src /\ m.src \in up => /\ ~ Unsent(n, m.src) /\ ~ Owed(n, m.src)
                                      /\ \A k \in msgs : Carries(k, n, m.src) => k = m
  <2>1. Carries(m, n, m.src)
    BY <1>0 DEF Carries
  <2>2. VoteInv
    BY DEF Inv
  <2> QED
    BY <1>0, <2>1, <2>2 DEF VoteInv
<1>3. VoteInv'
  BY <1>0, <1>1, <1>2 DEF Inv, VoteInv, Carries, Owed, Unsent
<1>4. /\ \A r, v \in up : Seen(r, v)' => Seen(r, v)
      /\ \A r, v \in up : Granted(r, v)' => Granted(r, v)
  BY <1>0, <1>1, <1>2 DEF Seen, Granted, Carries, Owed
<1>5. up \subseteq Peer /\ ClockInv /\ GrantInv
  BY DEF Inv, TypeInv, TypeOK
<1>6. ClockInv'
  BY <1>0, <1>1, <1>4, <1>5 DEF ClockInv
<1>7. GrantInv'
  BY <1>0, <1>1, <1>4, <1>5 DEF GrantInv, Before
<1> QED
  BY <1>3, <1>6, <1>7

-----------------------------------------------------------------------------

LEMMA InvStep == ASSUME Inv, RightDetector, [Next]_vars PROVE Inv'
<1>1. TypeInv' /\ HandlerInv' /\ MeshInv'
  BY TypeStep, HandlerPCStep, MeshStep DEF Inv
<1>2. VoteInv' /\ ClockInv' /\ GrantInv'
  <2>1. ASSUME NEW n \in Peer, MainStep(n) \/ UserStep(n) \/ Exit(n)
        PROVE  VoteInv' /\ ClockInv' /\ GrantInv'
    <3>1. CASE PinOverCS(n) \/ RequestsSent(n) \/ EnterFn(n) \/ Released(n)
      BY <3>1, MainOnlyStep
    <3>2. CASE Done(n) \/ FnReturns(n)
      BY <3>2, ReleaseStep DEF Done, FnReturns
    <3> QED
      BY <2>1, <3>1, <3>2, RequestCSStep, OtherSendStep, CheckPendingStep, SendRequestStep,
         ConnectFailsStep, SendDeferredReplyStep, ExitStep DEF MainStep, UserStep
  <2>2. ASSUME NEW n \in Peer, NEW m \in msgs, HandlerStep(n, m)
        PROVE  VoteInv' /\ ClockInv' /\ GrantInv'
    BY <2>2, ReceiveStep, HandleRequestStep, CompareStep, GrantRequestStep,
       DeferRequestStep, HandleReplyStep DEF HandlerStep
  <2>3. CASE UNCHANGED vars
    BY <2>3 DEF vars, local, thread, Inv, VoteInv, ClockInv, GrantInv, Carries, Awaits,
       Owed, Unsent, Seen, Granted, Before
  <2> QED
    BY <2>1, <2>2, <2>3 DEF Next
<1> QED
  BY <1>1, <1>2 DEF Inv

\* IInv, which the runs check, is invariant.
THEOREM InvariantHolds ==
  ASSUME FullMesh, RightDetector
  PROVE  Spec => []IInv
<1>1. Inv => IInv
  BY DEF Inv, TypeInv, IInv
<1>2. Init => Inv
  BY InvInit
<1>3. Inv /\ [Next]_vars => Inv'
  BY InvStep
<1> QED
  BY <1>1, <1>2, <1>3, PTL DEF Spec

\* Two holders would each have the other's vote, and so each precede the other.
LEMMA Excludes == IInv => MutualExclusion
<1> SUFFICES ASSUME IInv, NEW p \in up, NEW q \in up, p # q,
                    state[p] = "in_cs", state[q] = "in_cs"
             PROVE  FALSE
  BY DEF MutualExclusion
<1>1. p \in Peer /\ q \in Peer /\ reqTs[p] \in Nat /\ reqTs[q] \in Nat /\ p \in Nat /\ q \in Nat
  BY DEF IInv, TypeOK
<1>2. Granted(p, q) /\ Granted(q, p)
  BY <1>1 DEF IInv, MainInv, Granted
<1>3. Before(reqTs[p], p, reqTs[q], q) /\ Before(reqTs[q], q, reqTs[p], p)
  BY <1>2 DEF IInv, GrantInv
<1> QED
  BY <1>1, <1>3 DEF Before

\* At most one running peer is in the section, for any number of peers that all
\* know each other, as long as no connect to a running peer fails: whatever
\* order their threads and messages take, and whoever exits when.
THEOREM Exclusion ==
  ASSUME FullMesh, RightDetector
  PROVE  Spec => []MutualExclusion
<1>1. Spec => []IInv
  BY InvariantHolds
<1> QED
  BY <1>1, Excludes, PTL

\* A cs_reply on its way is for the request its receiver is making now and comes
\* once, so handle_cs_reply may count it without a request identifier.
THEOREM RepliesAreCurrent ==
  ASSUME FullMesh, RightDetector
  PROVE  Spec => []NoStaleVote
<1>1. Spec => []IInv
  BY InvariantHolds
<1>2. IInv => NoStaleVote
  BY DEF IInv, VoteInv, NoStaleVote, Travelling, Awaits
<1> QED
  BY <1>1, <1>2, PTL

-----------------------------------------------------------------------------
(* The abstract section.                                                   *)

Changes(p, from, to) ==
  /\ p \in up /\ up' = up /\ state[p] = from /\ state' = [state EXCEPT ![p] = to]

\* A step of the peers moves at most one of them in the abstract cycle.
LEMMA PhaseChange ==
  ASSUME TypeInv, [Next]_vars
  PROVE  \/ UNCHANGED <<up, state>>
         \/ \E p \in Peer : \/ Changes(p, "idle", "requesting")
                            \/ Changes(p, "requesting", "in_cs") /\ reqTs' = reqTs
                            \/ Changes(p, "in_cs", "idle")
                            \/ p \in up /\ up' = up \ {p} /\ state' = state
<1> USE DEF TypeInv, TypeOK, Changes
<1>1. ASSUME NEW n \in Peer, NEW a, n \in up, state[n] = "requesting",
             up' = up, reqTs' = reqTs, state' = [state EXCEPT ![n] = VotesIn(n, a)]
      PROVE  state' = state \/ (Changes(n, "requesting", "in_cs") /\ reqTs' = reqTs)
  BY <1>1 DEF VotesIn
<1>2. ASSUME NEW n \in Peer, MainStep(n) \/ UserStep(n) \/ Exit(n)
      PROVE  \/ UNCHANGED <<up, state>>
             \/ Changes(n, "idle", "requesting")
             \/ Changes(n, "requesting", "in_cs") /\ reqTs' = reqTs
             \/ Changes(n, "in_cs", "idle")
             \/ n \in up /\ up' = up \ {n} /\ state' = state
  <2>1. CASE RequestCS(n)
    BY <2>1 DEF RequestCS
  <2>2. CASE Done(n) \/ FnReturns(n)
    BY <2>2 DEF Done, FnReturns, ReleaseLocked, ClearRequest
  <2>3. CASE CheckPending(n)
    <3>1. CASE pending[n] # {}
      BY <2>3, <3>1 DEF CheckPending
    <3>2. CASE pending[n] = {}
      <4>1. /\ state[n] \in {"requesting", "in_cs"} /\ n \in up
            /\ state' = [state EXCEPT ![n] = "in_cs"] /\ up' = up /\ reqTs' = reqTs
        BY <2>3, <3>2 DEF CheckPending, MainInv
      <4> QED
        BY <4>1
    <3> QED
      BY <3>1, <3>2
  <2>4. CASE SendRequest(n)
    BY <1>1, <2>4 DEF SendRequest, SendMsg, StrikeOff
  <2>5. CASE SendDeferredReply(n)
    BY <1>1, <2>5 DEF SendDeferredReply, SendCsReply, SendMsg, StrikeOff
  <2>6. CASE ProbeFails(n)
    BY <1>1, <2>6 DEF ProbeFails, MainInv
  <2>9. CASE OtherSendFails(n)
    BY <1>1, <2>9 DEF OtherSendFails, StrikeOff
  <2>7. CASE Exit(n)
    BY <2>7 DEF Exit
  <2>8. CASE RequestsSent(n) \/ EnterFn(n) \/ Released(n) \/ PinOverCS(n) \/ OtherSend(n)
    BY <2>8 DEF RequestsSent, EnterFn, Released, PinOverCS, OtherSend, local
  <2> QED
    BY <1>2, <2>1, <2>2, <2>3, <2>4, <2>5, <2>6, <2>7, <2>8, <2>9 DEF MainStep, UserStep
<1>3. ASSUME NEW n \in Peer, NEW m \in msgs, HandlerStep(n, m)
      PROVE  UNCHANGED <<up, state>> \/ (Changes(n, "requesting", "in_cs") /\ reqTs' = reqTs)
  <2>1. CASE GrantRequest(n, m)
    BY <1>1, <2>1 DEF GrantRequest, SendCsReply, SendMsg, StrikeOff
  <2>2. CASE HandleReply(n, m)
    BY <1>1, <2>2 DEF HandleReply
  <2>3. CASE ~ GrantRequest(n, m) /\ ~ HandleReply(n, m)
    BY <1>3, <2>3 DEF HandlerStep, Receive, HandleRequest, Compare, DeferRequest
  <2> QED
    BY <2>1, <2>2, <2>3
<1> QED
  BY <1>2, <1>3 DEF Next, vars

\* The peers implement Mutex: seen from outside, a peer is let in only when no
\* other running peer is inside.
THEOREM Refinement ==
  ASSUME FullMesh, RightDetector
  PROVE  Spec => ImplementsMutex
<1> DEFINE phase == [p \in Peer |-> IF p \in up THEN state[p] ELSE "gone"]
<1>1. Init => Section!Init
  BY DEF Init, Section!Init
<1>2. Inv /\ Inv' /\ [Next]_vars => [Section!Next]_phase
  <2> SUFFICES ASSUME Inv, Inv', [Next]_vars, phase' # phase
               PROVE  Section!Next
    OBVIOUS
  <2>0. TypeInv /\ TypeOK /\ state \in [Peer -> {"idle", "requesting", "in_cs"}]
    BY DEF Inv, TypeInv, TypeOK
  <2>1. ASSUME NEW p \in Peer, NEW from, NEW to, Changes(p, from, to)
        PROVE  phase[p] = from /\ phase' = [phase EXCEPT ![p] = to]
    BY <2>0, <2>1 DEF Changes
  <2>2. PICK p \in Peer : \/ Changes(p, "idle", "requesting")
                          \/ Changes(p, "requesting", "in_cs")
                          \/ Changes(p, "in_cs", "idle")
                          \/ p \in up /\ up' = up \ {p} /\ state' = state
    BY <2>0, PhaseChange
  <2>3. CASE Changes(p, "idle", "requesting")
    <3>1. Section!Request(p)
      BY <2>1, <2>3 DEF Section!Request, Section!Move
    <3> QED
      BY <3>1 DEF Section!Next
  <2>4. CASE Changes(p, "requesting", "in_cs")
    <3>1. MutualExclusion'
      BY Excludes, PTL DEF Inv, TypeInv, IInv
    <3>2. \A q \in Peer \ {p} : phase[q] # "in_cs"
      BY <2>0, <2>4, <3>1 DEF MutualExclusion, Changes
    <3>3. Section!Enter(p)
      BY <2>1, <2>4, <3>2 DEF Section!Enter, Section!Move
    <3> QED
      BY <3>3 DEF Section!Next
  <2>5. CASE Changes(p, "in_cs", "idle")
    <3>1. Section!Release(p)
      BY <2>1, <2>5 DEF Section!Release, Section!Move
    <3> QED
      BY <3>1 DEF Section!Next
  <2>6. CASE p \in up /\ up' = up \ {p} /\ state' = state
    <3>1. phase[p] \in {"idle", "requesting", "in_cs"} /\ phase' = [phase EXCEPT ![p] = "gone"]
      BY <2>0, <2>6
    <3>2. Section!Exit(p)
      BY <3>1 DEF Section!Exit, Section!Move
    <3> QED
      BY <3>2 DEF Section!Next
  <2> QED
    BY <2>2, <2>3, <2>4, <2>5, <2>6
<1>3. Inv /\ RightDetector /\ [Next]_vars => Inv'
  BY InvStep
<1>4. Init => Inv
  BY InvInit
<1> QED
  BY <1>1, <1>2, <1>3, <1>4, PTL DEF Spec, ImplementsMutex, Section!Spec

\* Nobody enters past a running peer whose request precedes its own.
THEOREM EntersInLamportOrder ==
  ASSUME FullMesh, RightDetector
  PROVE  Spec => EntersInOrder
<1>1. Inv /\ Inv' /\ [Next]_vars
        => \A p, q \in up :
             /\ p # q /\ state[p] # "in_cs" /\ state'[p] = "in_cs"
             /\ state[q] = "requesting"
             => Before(reqTs[p], p, reqTs[q], q)
  <2> SUFFICES ASSUME Inv, Inv', [Next]_vars, NEW p \in up, NEW q \in up, p # q,
                      state[p] # "in_cs", state'[p] = "in_cs", state[q] = "requesting"
               PROVE  Before(reqTs[p], p, reqTs[q], q)
    OBVIOUS
  <2>0. TypeInv /\ up \subseteq Peer /\ state \in [Peer -> {"idle", "requesting", "in_cs"}]
    BY DEF Inv, TypeInv, TypeOK
  <2>1. up' = up /\ state'[q] = "requesting" /\ reqTs' = reqTs
    BY <2>0, PhaseChange DEF Changes
  <2>2. q \notin pending'[p]
    BY <2>0, <2>1 DEF Inv, TypeInv, MainInv
  <2> QED
    BY <2>0, <2>1, <2>2 DEF Inv, GrantInv, Granted, Before
<1>2. Inv /\ RightDetector /\ [Next]_vars => Inv'
  BY InvStep
<1>3. Init => Inv
  BY InvInit
<1> QED
  BY <1>1, <1>2, <1>3, PTL DEF Spec, EntersInOrder

-----------------------------------------------------------------------------
(* No vote is lost between peers that run.                                 *)

Placed(r, v) == Unsent(r, v) \/ Travelling(r, v) \/ Owed(r, v)

\* Steps that leave the messages of r and v where they are.
LEMMA VoteStays ==
  ASSUME NEW r, NEW v, Placed(r, v),
         \A m \in msgs : Carries(m, r, v) => m \in msgs',
         Unsent(r, v) => Unsent(r, v)', Owed(r, v) => Owed(r, v)'
  PROVE  Placed(r, v)'
BY DEF Placed, Travelling, Carries

LEMMA VoteKeptByMain ==
  ASSUME Inv, RightDetector, NoVoteLost, NEW n \in Peer, MainStep(n) \/ UserStep(n) \/ Exit(n)
  PROVE  NoVoteLost'
<1> SUFFICES ASSUME NEW r \in up', NEW v \in up', r # v, Awaits(r, v)'
             PROVE  Placed(r, v)'
  BY DEF NoVoteLost, Placed, Awaits, Travelling, Carries
<1>0. /\ TypeOK /\ MainInv /\ MeshInv /\ up' \subseteq up /\ up \subseteq Peer
      /\ Awaits(r, v) => Placed(r, v)
  BY UpShrinks DEF Inv, TypeInv, TypeOK, NoVoteLost, Placed, Awaits, Next
<1>1. CASE RequestCS(n)
  <2>1. CASE r = n
    BY <1>1, <2>1, <1>0 DEF RequestCS, Placed, Unsent, TypeOK
  <2>2. CASE r # n
    BY <1>0, <1>1, <2>2, VoteStays DEF RequestCS, Awaits, Unsent, Owed, TypeOK
  <2> QED
    BY <2>1, <2>2
<1>2. CASE CheckPending(n)
  <2>1. Awaits(r, v) /\ msgs' = msgs /\ (Owed(r, v) => Owed(r, v)')
    BY <1>0, <1>2 DEF CheckPending, Awaits, Owed, TypeOK
  <2>2. Unsent(r, v) => Unsent(r, v)'
    BY <1>0, <1>2, <2>1 DEF CheckPending, Unsent, MeshInv, TypeOK, Awaits
  <2> QED
    BY <1>0, <2>1, <2>2, VoteStays
<1>3. CASE SendRequest(n)
  <2>1. PICK a \in todo[n] : /\ SendMsg(n, a, Request(n, a), msgs)
                             /\ todo' = [todo EXCEPT ![n] = @ \ {a}]
    BY <1>3 DEF SendRequest
  <2>2. /\ main' = main /\ main[n] = "send" /\ deferred' = deferred /\ up' = up
        /\ a \in Peer /\ msgs \subseteq msgs'
    BY <1>0, <1>3, <2>1 DEF SendRequest, SendMsg, TypeOK
  <2>3. Awaits(r, v)
    BY <1>0, <2>1 DEF Awaits, SendMsg, StrikeOff, VotesIn, TypeOK
  <2>4. CASE r = n /\ v = a
    <3>1. /\ Request(n, a) \in msgs'
          /\ Carries(Request(n, a), r, v)
      BY <2>1, <2>2, <2>4 DEF SendMsg, MayFail, RightDetector, Request, Carries
    <3> QED
      BY <3>1 DEF Placed, Travelling, Carries
  <2>5. CASE ~ (r = n /\ v = a)
    BY <1>0, <2>1, <2>2, <2>3, <2>5, VoteStays DEF Unsent, Owed, TypeOK
  <2> QED
    BY <2>4, <2>5
<1>4. CASE SendDeferredReply(n)
  <2>1. PICK a \in todo[n] : /\ SendMsg(n, a, Reply(n, a), msgs)
                             /\ todo' = [todo EXCEPT ![n] = @ \ {a}]
    BY <1>4 DEF SendDeferredReply, SendCsReply
  <2>2. /\ main' = main /\ main[n] = "reply" /\ deferred' = deferred /\ up' = up
        /\ a \in Peer /\ msgs \subseteq msgs'
    BY <1>0, <1>4, <2>1 DEF SendDeferredReply, SendCsReply, SendMsg, TypeOK
  <2>3. Awaits(r, v)
    BY <1>0, <2>1 DEF Awaits, SendMsg, StrikeOff, VotesIn, TypeOK
  <2>4. CASE r = a /\ v = n
    <3>1. /\ Reply(n, a) \in msgs'
          /\ Carries(Reply(n, a), r, v)
      BY <2>1, <2>2, <2>4 DEF SendMsg, MayFail, RightDetector, Reply, Carries
    <3> QED
      BY <3>1 DEF Placed, Travelling, Carries
  <2>5. CASE ~ (r = a /\ v = n)
    BY <1>0, <2>1, <2>2, <2>3, <2>5, VoteStays DEF Unsent, Owed, TypeOK
  <2> QED
    BY <2>4, <2>5
<1>5. CASE Done(n) \/ FnReturns(n)
  <2>1. ReleaseLocked(n) /\ main[n] \in {"prompt", "in_fn"}
    BY <1>5 DEF Done, FnReturns
  <2>2. /\ Awaits(r, v) /\ msgs' = msgs
        /\ (Unsent(r, v) => Unsent(r, v)') /\ (Owed(r, v) => Owed(r, v)')
    BY <1>0, <2>1 DEF ReleaseLocked, ClearRequest, TakeDeferred, Awaits, Unsent, Owed, TypeOK
  <2> QED
    BY <1>0, <2>2, VoteStays
<1>6. CASE ProbeFails(n)
  <2>1. /\ Awaits(r, v) /\ msgs' = msgs
        /\ (Unsent(r, v) => Unsent(r, v)') /\ (Owed(r, v) => Owed(r, v)')
    BY <1>0, <1>6 DEF ProbeFails, VotesIn, thread, Awaits, Unsent, Owed, TypeOK, MainInv
  <2> QED
    BY <1>0, <2>1, VoteStays
<1>9. CASE OtherSendFails(n)
  <2>1. /\ Awaits(r, v) /\ msgs' = msgs
        /\ (Unsent(r, v) => Unsent(r, v)') /\ (Owed(r, v) => Owed(r, v)')
    BY <1>0, <1>9 DEF OtherSendFails, StrikeOff, VotesIn, thread, Awaits, Unsent, Owed, TypeOK
  <2> QED
    BY <1>0, <2>1, VoteStays
<1>7. CASE PinOverCS(n) \/ RequestsSent(n) \/ EnterFn(n) \/ Released(n) \/ OtherSend(n)
  <2>1. /\ Awaits(r, v) /\ msgs' = msgs
        /\ (Unsent(r, v) => Unsent(r, v)') /\ (Owed(r, v) => Owed(r, v)')
    BY <1>0, <1>7 DEF PinOverCS, RequestsSent, EnterFn, Released, OtherSend, local, thread,
       AfterRequest, Awaits, Unsent, Owed, TypeOK, MainInv
  <2> QED
    BY <1>0, <2>1, VoteStays
<1>8. CASE Exit(n)
  <2>1. /\ Awaits(r, v) /\ Unsent(r, v)' = Unsent(r, v) /\ Owed(r, v)' = Owed(r, v)
        /\ r # n /\ v # n
    BY <1>8 DEF Exit, local, thread, Awaits, Unsent, Owed
  <2>2. \A m \in msgs : Carries(m, r, v) => m \in msgs'
    BY <1>8, <2>1 DEF Exit, Carries
  <2> QED
    BY <1>0, <2>1, <2>2, VoteStays
<1> QED
  BY <1>1, <1>2, <1>3, <1>4, <1>5, <1>6, <1>7, <1>8, <1>9 DEF MainStep, UserStep

LEMMA VoteKeptByHandlers ==
  ASSUME Inv, RightDetector, NoVoteLost, NEW n \in Peer, NEW m \in msgs, HandlerStep(n, m)
  PROVE  NoVoteLost'
<1> SUFFICES ASSUME NEW r \in up', NEW v \in up', r # v, Awaits(r, v)'
             PROVE  Placed(r, v)'
  BY DEF NoVoteLost, Placed, Awaits, Travelling, Carries
<1>0. /\ TypeOK /\ HandlerInv /\ up' \subseteq up /\ up \subseteq Peer /\ m.src \in Peer
      /\ Awaits(r, v) => Placed(r, v)
  BY UpShrinks DEF Inv, TypeInv, TypeOK, Message, NoVoteLost, Placed, Awaits, Next
<1>1. /\ main' = main /\ todo' = todo /\ m.dst = n
      /\ \A p \in Peer : deferred[p] \subseteq deferred'[p]
      /\ \A k \in msgs : k # m => k \in msgs'
  BY <1>0 DEF HandlerStep, Receive, HandleRequest, Compare, GrantRequest, DeferRequest,
     HandleReply, SendCsReply, SendMsg, AtPC, thread, TypeOK
<1>2. Awaits(r, v)
  BY <1>0 DEF HandlerStep, Receive, HandleRequest, Compare, GrantRequest, DeferRequest,
     HandleReply, SendCsReply, SendMsg, StrikeOff, VotesIn, Awaits, TypeOK
<1>3. CASE ~ Carries(m, r, v)
  BY <1>0, <1>1, <1>2, <1>3, VoteStays DEF Unsent, Owed
<1>4. CASE Carries(m, r, v)
  <2>1. ASSUME NEW pc \in MsgPC, AtPC(m, pc)
        PROVE  Placed(r, v)'
    BY <1>0, <1>4, <2>1, AtPCEffect DEF Placed, Travelling, Carries
  <2>2. CASE Receive(n, m)
    BY <2>1, <2>2 DEF Receive, MsgPC
  <2>3. CASE Compare(n, m)
    BY <2>1, <2>3 DEF Compare, MsgPC
  <2>4. ASSUME m.type = "cs_request"
        PROVE  /\ m.src = r /\ n = v /\ r \in up
               /\ Carries(Reply(n, m.src), r, v)
    BY <1>0, <1>1, <1>4, <2>4 DEF Carries, Reply
  <2>5. ASSUME m.type = "cs_request", r \in deferred'[v]
        PROVE  Placed(r, v)'
    BY <2>5 DEF Placed, Owed
  <2>6. ASSUME m.type = "cs_request", Reply(n, m.src) \in msgs'
        PROVE  Placed(r, v)'
    BY <2>4, <2>6 DEF Placed, Travelling, Carries
  <2>7. CASE HandleRequest(n, m)
    <3>1. m.type = "cs_request" /\ state[n] \in {"idle", "in_cs", "requesting"}
      BY <2>7 DEF HandleRequest
    <3>2. CASE state[n] = "idle"
      BY <2>4, <2>6, <2>7, <3>1, <3>2 DEF HandleRequest, MayFail, RightDetector
    <3>3. CASE state[n] = "in_cs"
      BY <1>0, <2>4, <2>5, <2>7, <3>1, <3>3 DEF HandleRequest, TypeOK
    <3>4. CASE state[n] = "requesting"
      BY <2>1, <2>7, <3>4 DEF HandleRequest, MsgPC
    <3> QED
      BY <3>1, <3>2, <3>3, <3>4
  <2>8. CASE GrantRequest(n, m)
    <3>1. m.type = "cs_request"
      BY <1>0, <2>8 DEF GrantRequest, HandlerInv
    <3> QED
      BY <2>4, <2>6, <2>8, <3>1 DEF GrantRequest, SendCsReply, SendMsg, MayFail, RightDetector
  <2>9. CASE DeferRequest(n, m)
    <3>1. m.type = "cs_request"
      BY <1>0, <2>9 DEF DeferRequest, HandlerInv
    <3> QED
      BY <1>0, <2>4, <2>5, <2>9, <3>1 DEF DeferRequest, TypeOK
  <2>10. CASE HandleReply(n, m)
    <3>1. r = n /\ v = m.src
      BY <1>1, <1>4, <2>10 DEF HandleReply, Carries
    <3>2. v \notin pending'[r]
      BY <1>0, <1>2, <2>10, <3>1 DEF HandleReply, Awaits, TypeOK
    <3> QED
      BY <3>2 DEF Awaits
  <2> QED
    BY <2>2, <2>3, <2>7, <2>8, <2>9, <2>10 DEF HandlerStep
<1> QED
  BY <1>3, <1>4

\* Between running peers no vote that is waited for gets lost: it is still to be
\* asked for, on its way in a message or a handler thread, or remembered as a
\* deferral (which the race in handle_cs_request may leave unanswered).
THEOREM VotesAreKept ==
  ASSUME FullMesh, RightDetector
  PROVE  Spec => []NoVoteLost
<1>1. Init => Inv /\ NoVoteLost
  BY InvInit DEF Init, NoVoteLost
<1>2. Inv /\ RightDetector /\ NoVoteLost /\ [Next]_vars => Inv' /\ NoVoteLost'
  <2> SUFFICES ASSUME Inv, RightDetector, NoVoteLost, [Next]_vars
               PROVE  Inv' /\ NoVoteLost'
    OBVIOUS
  <2>1. Inv'
    BY InvStep
  <2>2. CASE UNCHANGED vars
    <3>1. UNCHANGED <<up, state, pending, deferred, main, todo, msgs>>
      BY <2>2 DEF vars, local, thread
    <3>2. \A r, v : /\ Unsent(r, v)' <=> Unsent(r, v)
                    /\ Travelling(r, v)' <=> Travelling(r, v)
                    /\ Owed(r, v)' <=> Owed(r, v)
      BY <3>1 DEF Unsent, Travelling, Owed, Carries
    <3> QED
      BY <2>1, <3>1, <3>2 DEF NoVoteLost
  <2>3. CASE Next
    <3>1. PICK n \in Peer : \/ MainStep(n) \/ UserStep(n) \/ Exit(n)
                            \/ \E m \in msgs : HandlerStep(n, m)
      BY <2>3 DEF Next
    <3>2. CASE MainStep(n) \/ UserStep(n) \/ Exit(n)
      BY <2>1, <3>2, VoteKeptByMain
    <3>3. CASE \E m \in msgs : HandlerStep(n, m)
      BY <2>1, <3>3, VoteKeptByHandlers
    <3> QED
      BY <3>1, <3>2, <3>3
  <2> QED
    BY <2>1, <2>2, <2>3
<1> QED
  BY <1>1, <1>2, PTL DEF Spec
-----------------------------------------------------------------------------
(* No circle of peers that wait for each other.                            *)

LEMMA WaitInit == Init => WaitInv
BY DEF Init, WaitInv

LEMMA SentPair ==
  ASSUME NEW n, NEW a
  PROVE  /\ Request(n, a).src = n /\ Request(n, a).dst = a
         /\ Reply(n, a).src = n /\ Reply(n, a).dst = a
BY DEF Request, Reply

LEMMA WaitMain ==
  ASSUME TypeInv, WaitInv, NEW n \in Peer, MainStep(n) \/ UserStep(n) \/ Exit(n)
  PROVE  WaitInv'
<1> USE DEF TypeInv, TypeOK, MainInv
<1>1. CASE RequestCS(n)
  BY <1>1 DEF RequestCS, WaitInv
<1>2. CASE Done(n) \/ FnReturns(n)
  BY <1>2 DEF Done, FnReturns, ReleaseLocked, ClearRequest, TakeDeferred, WaitInv
<1>3. CASE CheckPending(n)
  BY <1>3 DEF CheckPending, AfterRequest, WaitInv
<1>4. CASE SendRequest(n)
  BY <1>4, SentPair DEF SendRequest, SendMsg, StrikeOff, VotesIn, WaitInv
<1>5. CASE SendDeferredReply(n)
  BY <1>5, SentPair DEF SendDeferredReply, SendCsReply, SendMsg, StrikeOff, VotesIn, WaitInv
<1>6. CASE ProbeFails(n)
  BY <1>6 DEF ProbeFails, VotesIn, WaitInv
<1>9. CASE OtherSendFails(n)
  BY <1>9 DEF OtherSendFails, StrikeOff, VotesIn, thread, WaitInv
<1>7. CASE PinOverCS(n) \/ RequestsSent(n) \/ EnterFn(n) \/ Released(n) \/ OtherSend(n)
  BY <1>7 DEF PinOverCS, RequestsSent, EnterFn, Released, OtherSend, AfterRequest, WaitInv
<1>8. CASE Exit(n)
  BY <1>8 DEF Exit, WaitInv
<1> QED
  BY <1>1, <1>2, <1>3, <1>4, <1>5, <1>6, <1>7, <1>8, <1>9 DEF MainStep, UserStep

LEMMA WaitHandlers ==
  ASSUME TypeInv, WaitInv, NEW n \in Peer, NEW m \in msgs, HandlerStep(n, m)
  PROVE  WaitInv'
<1> USE DEF TypeInv, TypeOK
<1>0. m.src \in Peer /\ m.dst = n /\ m.src # n
  BY DEF Message, WaitInv, HandlerStep, Receive, HandleRequest, Compare, GrantRequest,
     DeferRequest, HandleReply
<1>1. ASSUME NEW pc \in MsgPC, AtPC(m, pc)
      PROVE  \A k \in msgs' : k.src # k.dst
  <2>1. ASSUME NEW k \in msgs' PROVE k \in msgs \/ (k.src = m.src /\ k.dst = m.dst)
    BY <1>1, <2>1, AtPCEffect
  <2> QED
    BY <1>0, <2>1 DEF WaitInv
<1>2. CASE Receive(n, m)
  BY <1>0, <1>1, <1>2 DEF Receive, MsgPC, WaitInv
<1>3. CASE HandleRequest(n, m)
  <2>1. \A k \in msgs' : k.src # k.dst
    BY <1>0, <1>1, <1>3, SentPair DEF HandleRequest, MsgPC, WaitInv
  <2> QED
    BY <1>0, <1>3, <2>1 DEF HandleRequest, WaitInv
<1>4. CASE Compare(n, m)
  BY <1>1, <1>4 DEF Compare, MsgPC, WaitInv
<1>5. CASE GrantRequest(n, m)
  BY <1>0, <1>5, SentPair DEF GrantRequest, SendCsReply, SendMsg, StrikeOff, VotesIn, WaitInv
<1>6. CASE DeferRequest(n, m)
  BY <1>0, <1>6 DEF DeferRequest, WaitInv
<1>7. CASE HandleReply(n, m)
  BY <1>0, <1>7 DEF HandleReply, VotesIn, WaitInv
<1> QED
  BY <1>2, <1>3, <1>4, <1>5, <1>6, <1>7 DEF HandlerStep

LEMMA WaitStep == TypeInv /\ WaitInv /\ [Next]_vars => WaitInv'
<1>1. CASE UNCHANGED vars
  BY <1>1 DEF vars, WaitInv
<1> QED
  BY <1>1, WaitMain, WaitHandlers DEF Next

\* Among requests, one comes first: timestamps are natural numbers, and ports break ties.
LEMMA FirstRequest ==
  ASSUME NEW R \in SUBSET Peer, R # {}, reqTs \in [Peer -> Nat]
  PROVE  \E r \in R : \A q \in R : ~ Before(reqTs[q], q, reqTs[r], r)
<1>1. ASSUME NEW T \in SUBSET Nat, T # {}
      PROVE  \E i \in T : \A j \in T : ~ (j < i)
  <2>1. \E i \in T : \A j \in T : <<j, i>> \notin OpToRel(<, Nat)
    BY <1>1, NatLessThanWellFounded, WFMin
  <2> QED
    BY <2>1 DEF OpToRel
<1> DEFINE Stamps == {reqTs[r] : r \in R}
<1>2. PICK ts \in Stamps : \A j \in Stamps : ~ (j < ts)
  <2>1. Stamps \subseteq Nat
    OBVIOUS
  <2>2. PICK q \in R : TRUE
    OBVIOUS
  <2>3. reqTs[q] \in Stamps
    BY <2>2
  <2> QED
    BY <1>1, <2>1, <2>3
<1> DEFINE First == {q \in R : reqTs[q] = ts}
<1>3. PICK r \in First : \A q \in First : ~ (q < r)
  <2>1. First \in SUBSET Nat /\ First # {}
    BY <1>2
  <2> QED
    BY <1>1, <2>1
<1> QED
  BY <1>2, <1>3 DEF Before

\* When all is still, the first of the requesters has no voter left to wait for.
LEMMA FirstIsServed == Inv /\ WaitInv /\ NoVoteLost => NoDeadlock
<1> SUFFICES ASSUME Inv, WaitInv, NoVoteLost, Still,
                    \E r \in up : state[r] = "requesting",
                    \A v \in up : ~ (main[v] = "prompt" /\ state[v] = "in_cs"),
                    \A r \in up : main[r] = "prompt" /\ state[r] = "requesting"
                                    => pending[r] \subseteq up,
                    \A v, r \in up : r \in deferred[v] => HasReason(v, r)
             PROVE  FALSE
  BY DEF NoDeadlock
<1>0. up \subseteq Peer /\ reqTs \in [Peer -> Nat]
  BY DEF Inv, TypeInv, TypeOK
<1>1. PICK r \in {p \in up : state[p] = "requesting"} :
        \A q \in {p \in up : state[p] = "requesting"} : ~ Before(reqTs[q], q, reqTs[r], r)
  BY <1>0, FirstRequest
<1>2. /\ main[r] \in {"prompt", "wait"} /\ pending[r] \subseteq up /\ pending[r] # {}
      /\ r \notin pending[r]
  BY <1>0, <1>1 DEF Still, WaitInv
<1>3. PICK v \in pending[r] : v \in up /\ v # r
  BY <1>2
<1>4. r \in deferred[v]
  <2>1. main[v] \in {"prompt", "wait"} /\ msgs = {}
    BY <1>3 DEF Still
  <2>2. Unsent(r, v) \/ Travelling(r, v) \/ Owed(r, v)
    BY <1>1, <1>3 DEF NoVoteLost
  <2> QED
    BY <1>2, <2>1, <2>2 DEF Unsent, Travelling, Owed
<1>5. state[v] # "in_cs"
  BY <1>3 DEF Still
<1>6. state[v] = "requesting" /\ ~ Before(reqTs[r], r, reqTs[v], v)
  BY <1>1, <1>3, <1>4, <1>5 DEF HasReason
<1>7. Before(reqTs[v], v, reqTs[r], r)
  BY <1>0, <1>1, <1>3, <1>6 DEF Before
<1> QED
  BY <1>1, <1>3, <1>6, <1>7

\* The running peers never wait for each other in a circle: when no message is left and no
\* thread can go on, a user keeps the section, or a d/CS waits for a voter that has exited,
\* or the race in handle_cs_request has lost a deferral.
THEOREM NoCircularWait ==
  ASSUME FullMesh, RightDetector
  PROVE  Spec => []NoDeadlock
<1>1. Init => Inv /\ WaitInv /\ NoVoteLost
  BY InvInit, WaitInit DEF Init, NoVoteLost
<1>2. Inv /\ RightDetector /\ WaitInv /\ [Next]_vars => Inv' /\ WaitInv'
  BY InvStep, WaitStep DEF Inv
<1>3. Spec => []NoVoteLost
  BY VotesAreKept
<1> QED
  BY <1>1, <1>2, <1>3, FirstIsServed, PTL DEF Spec
=============================================================================
