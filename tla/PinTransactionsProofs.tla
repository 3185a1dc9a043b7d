----------------------- MODULE PinTransactionsProofs -----------------------
(***************************************************************************)
(* Theorems about PinTransactions: for any peers, rooms and transactions,  *)
(* whoever joins and exits when, and in whatever order messages arrive.    *)
(***************************************************************************)
EXTENDS PinTransactions, FiniteSetTheorems, TLAPS

USE PinAssumption

\* The main thread's steps with their effect on what PinInv speaks of.
LEMMA PhaseTypes ==
  ASSUME TypeOK, NEW n \in Peer,
         \/ Section!Request(n) \/ Section!Enter(n) \/ Section!Release(n) \/ Section!Exit(n)
  PROVE  /\ Section!TypeOK'
         /\ \A p \in Peer : p # n => phase'[p] = phase[p]
         /\ Section!Request(n) => phase[n] = "idle" /\ phase'[n] = "requesting"
         /\ Section!Release(n) => phase[n] = "in_cs" /\ phase'[n] = "idle"
         /\ Section!Exit(n) => phase'[n] = "gone"
         /\ Section!Enter(n) => /\ phase'[n] = "in_cs"
                                /\ \A p \in Peer : p # n => phase[p] # "in_cs"
BY DEF TypeOK, Section!TypeOK, Section!Phases, Section!Request, Section!Enter,
   Section!Release, Section!Exit, Section!Move

LEMMA PinInit == Init => PinInv
<1> SUFFICES ASSUME Init PROVE PinInv
  OBVIOUS
<1> USE DEF Init
<1>1. TypeOK
  <2>1. Section!TypeOK
    BY DEF Section!Init, Section!TypeOK, Section!Phases
  <2>2. main \in [Peer -> MainPC]
    BY DEF MainPC
  <2>3. neighbors \in [Peer -> SUBSET Peer] /\ pins \in [Peer -> Pins]
    BY DEF Pins, NoPins
  <2>4. status \in [Peer -> [Tx -> {"none", "active", "committed", "aborted"}]]
    OBVIOUS
  <2>5. /\ current \in [Peer -> Tx \union {NoTx}]
        /\ todo \in [Peer -> SUBSET Peer] /\ pinged \in [Peer -> SUBSET (Peer \X Peer)]
    OBVIOUS
  <2> QED
    BY <2>1, <2>2, <2>3, <2>4, <2>5 DEF TypeOK
<1>2. SectionInv
  BY DEF SectionInv, Committing, Section!Init
<1>3. CurrentInv
  BY DEF CurrentInv, Committing
<1>4. OutcomeInv
  BY DEF OutcomeInv, NoMixedOutcome
<1> QED
  BY <1>1, <1>2, <1>3, <1>4 DEF PinInv

LEMMA TypeStep == TypeOK /\ CurrentInv /\ [Next]_vars => TypeOK'
<1> SUFFICES ASSUME TypeOK, CurrentInv, [Next]_vars PROVE TypeOK'
  OBVIOUS
<1> USE DEF TypeOK, MainPC, Goto, At, SetStatus, Section!TypeOK
<1>1. ASSUME NEW n \in Peer, MainStep(n) \/ UserStep(n) \/ EnterCS(n) \/ Join(n) \/ Exit(n)
      PROVE  TypeOK'
  <2>0. main[n] = "wait" \/ Committing(n) => current[n] \in Tx
    BY DEF CurrentInv
  <2>1. ASSUME NEW t \in Tx, Pin(n, t) PROVE TypeOK'
    BY <2>1, PhaseTypes DEF Pin, Begin
  <2>2. CASE RequestCS(n) \/ Done(n) \/ EnterCS(n)
    BY <2>2, PhaseTypes DEF RequestCS, Done, EnterCS
  <2>3. CASE StartCommit(n)
    BY <2>3 DEF StartCommit
  <2>4. CASE Validate(n)
    <3>1. CASE Valid(n, current[n])
      BY <2>4, <3>1 DEF Validate
    <3>2. CASE ~ Valid(n, current[n])
      <4>1. /\ status' = [status EXCEPT ![n][current[n]] = "aborted"] /\ current[n] \in Tx
            /\ main' = [main EXCEPT ![n] = "copy"]
            /\ UNCHANGED <<up, phase, neighbors, current, pins, todo, pinged, msgs>>
        BY <2>0, <2>4, <3>2 DEF Validate, Committing
      <4>2. status' \in [Peer -> [Tx -> {"none", "active", "committed", "aborted"}]]
        BY <4>1
      <4>3. main' \in [Peer -> MainPC]
        BY <4>1
      <4> QED
        BY <4>1, <4>2, <4>3
    <3> QED
      BY <3>1, <3>2
  <2>5. CASE ApplyLocally(n)
    BY <2>0, <2>5 DEF ApplyLocally, Apply, Pins, Committing
  <2>11. CASE MarkCommitted(n)
    BY <2>0, <2>11 DEF MarkCommitted, Committing
  <2>6. CASE Broadcast(n)
    BY <2>6 DEF Broadcast
  <2>7. CASE SendOutcome(n)
    <3>1. current[n] \in Tx /\ Outcome(n) \in {"tx_commit", "tx_abort"}
      BY <2>0, <2>7 DEF SendOutcome, Outcome, Committing
    <3>2. PICK a \in todo[n] :
            /\ todo' = [todo EXCEPT ![n] = @ \ {a}]
            /\ IF a \in up
               THEN /\ msgs' = msgs \union
                         {[type |-> Outcome(n), src |-> n, dst |-> a, tx |-> current[n]]}
                    /\ UNCHANGED neighbors
               ELSE /\ neighbors' = [neighbors EXCEPT ![n] = @ \ {a}]
                    /\ UNCHANGED msgs
      BY <2>7 DEF SendOutcome
    <3>3. [type |-> Outcome(n), src |-> n, dst |-> a, tx |-> current[n]] \in Message
      BY <3>1 DEF Message
    <3>4. msgs' \subseteq Message
      BY <3>2, <3>3
    <3>5. neighbors' \in [Peer -> SUBSET Peer]
      BY <3>2
    <3>6. todo' \in [Peer -> SUBSET Peer]
      BY <3>2
    <3> QED
      BY <2>7, <3>4, <3>5, <3>6 DEF SendOutcome
  <2>8. CASE Finish(n)
    BY <2>8, PhaseTypes DEF Finish
  <2>9. CASE Join(n)
    BY <2>9 DEF Join, Message, Ping
  <2>10. CASE Exit(n)
    BY <2>10, PhaseTypes DEF Exit
  <2> QED
    BY <1>1, <2>1, <2>2, <2>3, <2>4, <2>5, <2>6, <2>7, <2>8, <2>9, <2>10, <2>11
    DEF MainStep, UserStep
<1>2. ASSUME NEW n \in Peer, NEW m \in msgs, HandlerStep(n, m)
      PROVE  TypeOK'
  <2>0. m.src \in Peer /\ m.dst \in Peer
        /\ (m.type \in {"tx_commit", "tx_abort"} => m.tx \in Tx)
        /\ (m.type = "pin_sync" => m.pins \in Pins)
        /\ (m.type = "ping" => m.id \in Peer)
    BY DEF Message
  <2>1. CASE HandleCommit(n, m)
    BY <2>0, <2>1 DEF HandleCommit, Takes, Apply, Pins
  <2>2. CASE HandleAbort(n, m)
    BY <2>0, <2>2 DEF HandleAbort, Takes
  <2>3. CASE HandlePing(n, m)
    <3>0. m.type = "ping"
      BY <2>3 DEF HandlePing
    <3>1. /\ \A a \in Peer : Ping(m.src, a, m.id) \in Message
          /\ Answers(n, m.src) \subseteq Message
      BY <2>0, <3>0 DEF Ping, Answers, Message
    <3>2. msgs' \subseteq Message
      BY <2>0, <2>3, <3>1 DEF HandlePing
    <3>3. neighbors' \in [Peer -> SUBSET Peer] /\ pinged' \in [Peer -> SUBSET (Peer \X Peer)]
      <4>1. CASE <<m.src, m.id>> \in pinged[n]
        <5>1. /\ neighbors' = [neighbors EXCEPT ![n] = @ \union {m.src}]
              /\ pinged' = pinged
          BY <2>3, <4>1 DEF HandlePing
        <5> QED
          BY <2>0, <5>1
      <4>2. CASE <<m.src, m.id>> \notin pinged[n]
        <5>1. /\ neighbors' = [neighbors EXCEPT ![n] = (@ \union {m.src}) \intersect up]
              /\ pinged' = [pinged EXCEPT ![n] = @ \union {<<m.src, m.id>>}]
          BY <2>3, <4>2 DEF HandlePing
        <5>2. <<m.src, m.id>> \in Peer \X Peer
          BY <2>0, <3>0
        <5>3. pinged[n] \union {<<m.src, m.id>>} \in SUBSET (Peer \X Peer)
          BY <5>2
        <5>4. pinged' \in [Peer -> SUBSET (Peer \X Peer)]
          BY <5>1, <5>3
        <5> QED
          BY <2>0, <5>1, <5>4
      <4> QED
        BY <4>1, <4>2
    <3> QED
      BY <2>3, <3>2, <3>3 DEF HandlePing
  <2>4. CASE HandlePong(n, m)
    BY <2>0, <2>4 DEF HandlePong, Takes
  <2>5. CASE HandlePinSync(n, m)
    BY <2>0, <2>5 DEF HandlePinSync, Takes, Pins
  <2> QED
    BY <1>2, <2>1, <2>2, <2>3, <2>4, <2>5 DEF HandlerStep
<1>3. CASE UNCHANGED vars
  BY <1>3 DEF vars, Section!TypeOK
<1> QED
  BY <1>1, <1>2, <1>3 DEF Next

\* The section of a committing peer is taken from it by nobody.
LEMMA SectionStep == TypeOK /\ SectionInv /\ [Next]_vars => SectionInv'
<1> SUFFICES ASSUME TypeOK, SectionInv, [Next]_vars PROVE SectionInv'
  OBVIOUS
<1> USE DEF SectionInv, Committing, Goto, At
<1>0. main \in [Peer -> MainPC] /\ up \subseteq Peer
  BY DEF TypeOK
<1>1. ASSUME NEW n \in Peer, MainStep(n) \/ UserStep(n) \/ EnterCS(n) \/ Join(n) \/ Exit(n)
      PROVE  SectionInv'
  <2>1. ASSUME NEW t \in Tx, Pin(n, t) PROVE SectionInv'
    BY <1>0, <2>1, PhaseTypes DEF Pin, Begin
  <2>2. CASE RequestCS(n) \/ Done(n)
    BY <1>0, <2>2, PhaseTypes DEF RequestCS, Done
  <2>3. CASE EnterCS(n)
    BY <1>0, <2>3, PhaseTypes DEF EnterCS
  <2>4. CASE \/ StartCommit(n) \/ Validate(n) \/ ApplyLocally(n) \/ MarkCommitted(n)
             \/ Broadcast(n) \/ SendOutcome(n)
    BY <1>0, <2>4 DEF StartCommit, Validate, ApplyLocally, MarkCommitted, Broadcast, SendOutcome
  <2>5. CASE Finish(n)
    BY <1>0, <2>5, PhaseTypes DEF Finish
  <2>6. CASE Join(n)
    BY <1>0, <2>6 DEF Join
  <2>7. CASE Exit(n)
    BY <1>0, <2>7, PhaseTypes DEF Exit
  <2> QED
    BY <1>1, <2>1, <2>2, <2>3, <2>4, <2>5, <2>6, <2>7 DEF MainStep, UserStep
<1>2. ASSUME NEW n \in Peer, NEW m \in msgs, HandlerStep(n, m)
      PROVE  SectionInv'
  BY <1>0, <1>2 DEF HandlerStep, HandleCommit, HandleAbort, HandlePing, HandlePong,
     HandlePinSync, Takes
<1>3. CASE UNCHANGED vars
  BY <1>3 DEF vars
<1> QED
  BY <1>1, <1>2, <1>3 DEF Next

\* Setting the status of one transaction at one peer.
LEMMA StatusSet ==
  ASSUME TypeOK, NEW n \in Peer, NEW t \in Tx, NEW s, SetStatus(n, t, s)
  PROVE  /\ status'[n][t] = s
         /\ \A p \in Peer, x \in Tx : p # n \/ x # t => status'[p][x] = status[p][x]
BY DEF TypeOK, SetStatus

\* Recording an outcome that nobody contradicts.
LEMMA OutcomeKept ==
  ASSUME TypeOK, OutcomeInv, NEW n \in Peer, NEW t \in Tx,
         NEW s \in {"active", "committed", "aborted"}, SetStatus(n, t, s),
         msgs' \subseteq msgs, \A p \in Peer : status[p][t] \in {"none", "active", s}
  PROVE  OutcomeInv'
<1>1. /\ status'[n][t] = s
      /\ \A p \in Peer, x \in Tx : p # n \/ x # t => status'[p][x] = status[p][x]
  BY StatusSet
<1>2. \A p \in Peer : status'[p][t] \in {"none", "active", s}
  BY <1>1
<1>3. NoMixedOutcome'
  <2>1. ASSUME NEW p \in Peer, NEW q \in Peer, NEW x \in Tx,
               status'[p][x] = "committed", status'[q][x] = "aborted"
        PROVE  FALSE
    <3>1. CASE x = t
      BY <1>2, <2>1, <3>1
    <3>2. CASE x # t
      BY <1>1, <2>1, <3>2 DEF OutcomeInv, NoMixedOutcome
    <3> QED
      BY <3>1, <3>2
  <2> QED
    BY <2>1 DEF NoMixedOutcome
<1>4. ASSUME NEW m \in msgs, NEW o \in {"committed", "aborted"}, m.tx \in Tx,
             NEW q \in Peer, status[q][m.tx] = o
      PROVE  \E r \in Peer : status'[r][m.tx] = o
  <2>1. CASE m.tx = t
    BY <1>1, <1>4, <2>1
  <2>2. CASE m.tx # t
    BY <1>1, <1>4, <2>2
  <2> QED
    BY <2>1, <2>2
<1>5. \A m \in msgs : m.type \in {"tx_commit", "tx_abort"} => m.tx \in Tx
  BY DEF TypeOK, Message
<1> QED
  BY <1>3, <1>4, <1>5 DEF OutcomeInv

\* Whoever decides a transaction is its owner, and decides it once.
LEMMA OutcomeStep ==
  ASSUME TypeOK, CurrentInv, OutcomeInv, [Next]_vars
  PROVE  CurrentInv' /\ OutcomeInv'
<1> USE DEF At, Goto
<1>0. /\ main \in [Peer -> MainPC] /\ current \in [Peer -> Tx \union {NoTx}]
      /\ status \in [Peer -> [Tx -> {"none", "active", "committed", "aborted"}]]
      /\ \A m \in msgs : m.type \in {"tx_commit", "tx_abort"} => m.tx \in Tx
  BY DEF TypeOK, Message
<1>1. ASSUME NEW n \in Peer, NEW t \in Tx, Pin(n, t)
      PROVE  CurrentInv' /\ OutcomeInv'
  <2>1. /\ \A p \in Peer : status[p][t] = "none" /\ main[n] = "prompt"
        /\ current' = [current EXCEPT ![n] = t] /\ SetStatus(n, t, "active")
        /\ main' = [main EXCEPT ![n] = "wait"] /\ msgs' = msgs
    BY <1>1 DEF Pin, Begin
  <2>2. \A p \in Peer : current[p] # t
    BY <1>0, <2>1 DEF CurrentInv
  <2>3. /\ status'[n][t] = "active"
        /\ \A p \in Peer, x \in Tx : p # n \/ x # t => status'[p][x] = status[p][x]
    BY <2>1, StatusSet
  <2>4. OutcomeInv'
    BY <2>1, OutcomeKept
  <2>5. CurrentInv'
    BY <1>0, <2>1, <2>2, <2>3 DEF CurrentInv, Committing, Undecided
  <2> QED
    BY <2>4, <2>5
<1>2. ASSUME NEW n \in Peer, Validate(n)
      PROVE  CurrentInv' /\ OutcomeInv'
  <2> DEFINE t == current[n]
  <2>1. /\ main[n] = "validate" /\ t \in Tx /\ current' = current /\ msgs' = msgs
        /\ Undecided(t) /\ \A p \in Peer : p # n => current[p] # t
    BY <1>0, <1>2, PinAssumption DEF Validate, CurrentInv, Committing
  <2>2. CASE Valid(n, t)
    <3>1. main' = [main EXCEPT ![n] = "apply"] /\ status' = status
      BY <1>2, <2>2 DEF Validate
    <3> QED
      BY <1>0, <2>1, <3>1 DEF CurrentInv, OutcomeInv, NoMixedOutcome, Undecided, Committing
  <2>3. CASE ~ Valid(n, t)
    <3>1. main' = [main EXCEPT ![n] = "copy"] /\ SetStatus(n, t, "aborted")
      BY <1>2, <2>3 DEF Validate
    <3>2. /\ status'[n][t] = "aborted"
          /\ \A p \in Peer, x \in Tx : p # n \/ x # t => status'[p][x] = status[p][x]
      BY <2>1, <3>1, StatusSet
    <3>3. OutcomeInv'
      BY <2>1, <3>1, OutcomeKept DEF Undecided
    <3>4. CurrentInv'
      BY <1>0, <2>1, <3>1, <3>2 DEF CurrentInv, Undecided, Committing
    <3> QED
      BY <3>3, <3>4
  <2> QED
    BY <2>2, <2>3
<1>3. ASSUME NEW n \in Peer, MarkCommitted(n)
      PROVE  CurrentInv' /\ OutcomeInv'
  <2> DEFINE t == current[n]
  <2>1. /\ main[n] = "mark" /\ t \in Tx /\ current' = current /\ msgs' = msgs
        /\ Undecided(t) /\ \A p \in Peer : p # n => current[p] # t
        /\ main' = [main EXCEPT ![n] = "copy"] /\ SetStatus(n, t, "committed")
    BY <1>0, <1>3, PinAssumption DEF MarkCommitted, CurrentInv, Committing
  <2>2. /\ status'[n][t] = "committed"
        /\ \A p \in Peer, x \in Tx : p # n \/ x # t => status'[p][x] = status[p][x]
    BY <2>1, StatusSet
  <2>3. OutcomeInv'
    BY <2>1, OutcomeKept DEF Undecided
  <2>4. CurrentInv'
    BY <1>0, <2>1, <2>2 DEF CurrentInv, Undecided, Committing
  <2> QED
    BY <2>3, <2>4
<1>4. ASSUME NEW n \in Peer, SendOutcome(n)
      PROVE  CurrentInv' /\ OutcomeInv'
  <2>1. /\ UNCHANGED <<main, current, status>> /\ main[n] = "spread" /\ current[n] \in Tx
    BY <1>4 DEF SendOutcome, CurrentInv, Committing
  <2>2. status[n][current[n]] \in {"committed", "aborted"}
    BY <2>1 DEF CurrentInv
  <2>3. PICK a \in todo[n] : msgs' \subseteq msgs \union
          {[type |-> Outcome(n), src |-> n, dst |-> a, tx |-> current[n]]}
    BY <1>4 DEF SendOutcome
  <2>4. OutcomeInv'
    BY <2>1, <2>2, <2>3 DEF OutcomeInv, NoMixedOutcome, Outcome
  <2>5. CurrentInv'
    BY <2>1 DEF CurrentInv, Undecided, Committing
  <2> QED
    BY <2>4, <2>5
<1>5. ASSUME NEW n \in Peer, Finish(n)
      PROVE  CurrentInv' /\ OutcomeInv'
  <2>1. /\ current' = [current EXCEPT ![n] = NoTx] /\ main' = [main EXCEPT ![n] = "prompt"]
        /\ UNCHANGED <<status, msgs>>
    BY <1>5 DEF Finish
  <2>2. OutcomeInv'
    BY <2>1 DEF OutcomeInv, NoMixedOutcome
  <2>3. CurrentInv'
    BY <1>0, <2>1, PinAssumption DEF CurrentInv, Undecided, Committing
  <2> QED
    BY <2>2, <2>3
<1>6. ASSUME NEW n \in Peer, StartCommit(n) \/ ApplyLocally(n) \/ Broadcast(n)
      PROVE  CurrentInv' /\ OutcomeInv'
  <2>1. UNCHANGED <<current, status, msgs>>
    BY <1>6 DEF StartCommit, ApplyLocally, Broadcast
  <2>2. OutcomeInv'
    BY <2>1 DEF OutcomeInv, NoMixedOutcome
  <2>3. CurrentInv'
    BY <1>0, <1>6, <2>1 DEF StartCommit, ApplyLocally, Broadcast, CurrentInv, Undecided,
       Committing
  <2> QED
    BY <2>2, <2>3
<1>7. ASSUME NEW n \in Peer, RequestCS(n) \/ Done(n) \/ EnterCS(n) \/ Join(n) \/ Exit(n)
      PROVE  CurrentInv' /\ OutcomeInv'
  <2>1. /\ UNCHANGED <<current, status>>
        /\ main' = main \/ main' = [main EXCEPT ![n] = "boot"]
        /\ \A m \in msgs' : m \in msgs \/ m.type = "ping"
    BY <1>7 DEF RequestCS, Done, EnterCS, Join, Exit, Ping
  <2>2. OutcomeInv'
    BY <2>1 DEF OutcomeInv, NoMixedOutcome
  <2>3. CurrentInv'
    BY <1>0, <2>1 DEF CurrentInv, Undecided, Committing
  <2> QED
    BY <2>2, <2>3
<1>8. ASSUME NEW n \in Peer, NEW m \in msgs, HandleCommit(n, m)
      PROVE  CurrentInv' /\ OutcomeInv'
  <2>1. /\ m.type = "tx_commit" /\ m.tx \in Tx /\ UNCHANGED <<main, current>>
        /\ msgs' \subseteq msgs /\ SetStatus(n, m.tx, "committed")
    BY <1>0, <1>8 DEF HandleCommit
  <2>2. PICK q \in Peer : status[q][m.tx] = "committed"
    BY <2>1 DEF OutcomeInv
  <2>3. /\ status'[n][m.tx] = "committed"
        /\ \A p \in Peer, x \in Tx : p # n \/ x # m.tx => status'[p][x] = status[p][x]
    BY <2>1, StatusSet
  <2>4. \A p \in Peer : status[p][m.tx] # "aborted"
    BY <2>1, <2>2 DEF OutcomeInv, NoMixedOutcome
  <2>5. OutcomeInv'
    <3>1. \A p \in Peer : status[p][m.tx] \in {"none", "active", "committed"}
      BY <1>0, <2>1, <2>4
    <3> QED
      BY <2>1, <3>1, OutcomeKept
  <2>6. \A p \in Peer : current[p] = m.tx => main[p] \notin {"wait", "validate", "apply", "mark"}
    BY <2>1, <2>2 DEF CurrentInv, Undecided
  <2>7. CurrentInv'
    BY <1>0, <2>1, <2>3, <2>6 DEF CurrentInv, Undecided, Committing
  <2> QED
    BY <2>5, <2>7
<1>9. ASSUME NEW n \in Peer, NEW m \in msgs, HandleAbort(n, m)
      PROVE  CurrentInv' /\ OutcomeInv'
  <2>1. /\ m.type = "tx_abort" /\ m.tx \in Tx /\ UNCHANGED <<main, current>>
        /\ msgs' \subseteq msgs /\ SetStatus(n, m.tx, "aborted")
    BY <1>0, <1>9 DEF HandleAbort
  <2>2. PICK q \in Peer : status[q][m.tx] = "aborted"
    BY <2>1 DEF OutcomeInv
  <2>3. /\ status'[n][m.tx] = "aborted"
        /\ \A p \in Peer, x \in Tx : p # n \/ x # m.tx => status'[p][x] = status[p][x]
    BY <2>1, StatusSet
  <2>4. \A p \in Peer : status[p][m.tx] # "committed"
    BY <2>1, <2>2 DEF OutcomeInv, NoMixedOutcome
  <2>5. OutcomeInv'
    <3>1. \A p \in Peer : status[p][m.tx] \in {"none", "active", "aborted"}
      BY <1>0, <2>1, <2>4
    <3> QED
      BY <2>1, <3>1, OutcomeKept
  <2>6. \A p \in Peer : current[p] = m.tx => main[p] \notin {"wait", "validate", "apply", "mark"}
    BY <2>1, <2>2 DEF CurrentInv, Undecided
  <2>7. CurrentInv'
    BY <1>0, <2>1, <2>3, <2>6 DEF CurrentInv, Undecided, Committing
  <2> QED
    BY <2>5, <2>7
<1>10. ASSUME NEW n \in Peer, NEW m \in msgs,
              HandlePing(n, m) \/ HandlePong(n, m) \/ HandlePinSync(n, m)
       PROVE  CurrentInv' /\ OutcomeInv'
  <2>1. /\ UNCHANGED <<current, status>>
        /\ main' = main \/ main' = [main EXCEPT ![n] = "prompt"]
        /\ \A k \in msgs' : k \in msgs \/ k.type \in {"ping", "pong", "pin_sync"}
    BY <1>10 DEF HandlePing, HandlePong, HandlePinSync, Ping, Answers
  <2>2. OutcomeInv'
    BY <2>1 DEF OutcomeInv, NoMixedOutcome
  <2>3. CurrentInv'
    BY <1>0, <2>1 DEF CurrentInv, Undecided, Committing
  <2> QED
    BY <2>2, <2>3
<1>11. CASE UNCHANGED vars
  BY <1>11 DEF vars, CurrentInv, OutcomeInv, NoMixedOutcome, Undecided, Committing
<1> QED
  BY <1>1, <1>2, <1>3, <1>4, <1>5, <1>6, <1>7, <1>8, <1>9, <1>10, <1>11
  DEF Next, MainStep, UserStep, HandlerStep

LEMMA PinStep == PinInv /\ [Next]_vars => PinInv'
BY TypeStep, SectionStep, OutcomeStep DEF PinInv

\* The invariant behind the theorems below: who is in do_commit is in the section, a
\* transaction is at work in one peer, and messages announce what has happened.
THEOREM InvariantHolds == Spec => []PinInv
  BY PinInit, PinStep, PTL DEF Spec

\* Data keep their types, whoever joins, pins and exits.
THEOREM TypeCorrect == Spec => []TypeOK
<1>1. PinInv => TypeOK
  BY DEF PinInv
<1> QED
  BY <1>1, PinInit, PinStep, PTL DEF Spec

\* With a section that keeps what Mutex promises, do_commit runs in one peer at
\* a time, from its validation to the end of its broadcast.
THEOREM CommitsAlone == Spec => []OneCommitter
<1>1. PinInv => OneCommitter
  BY DEF PinInv, TypeOK, SectionInv, OneCommitter
<1> QED
  BY <1>1, PinInit, PinStep, PTL DEF Spec

\* No transaction is committed at one peer and aborted at another.
THEOREM OneOutcome == Spec => []NoMixedOutcome
<1>1. PinInv => NoMixedOutcome
  BY DEF PinInv, OutcomeInv
<1> QED
  BY <1>1, PinInit, PinStep, PTL DEF Spec

-----------------------------------------------------------------------------

(***************************************************************************)
(* The transactions implement AtomicCommit.                                *)
(***************************************************************************)

\* Who is in a transaction has a current one.
LEMMA Current ==
  ASSUME PinInv, NEW p \in Peer, main[p] = "wait" \/ Committing(p)
  PROVE  current[p] \in Tx /\ current[p] # NoTx /\ RoomOf[current[p]] \in Room
BY DEF PinInv, CurrentInv

\* What a peer knows of a transaction: its status, or that it has set the pin itself.
LEMMA KnownBy ==
  ASSUME PinInv, NEW p \in Peer, NEW t \in Tx
  PROVE  /\ Known(p, t) \in {"open", "committed", "aborted"}
         /\ Known(p, t) = "committed" <=> status[p][t] = "committed" \/ Marking(p, t)
         /\ Known(p, t) = "aborted" <=> status[p][t] = "aborted"
         /\ Marking(p, t) => Undecided(t)
<1>1. Marking(p, t) => Undecided(t)
  BY DEF PinInv, CurrentInv, Marking
<1>2. Marking(p, t) => status[p][t] # "aborted"
  BY <1>1 DEF Undecided
<1> QED
  BY <1>1, <1>2 DEF Known

LEMMA DecidedBy ==
  ASSUME PinInv, NEW t \in Tx
  PROVE  /\ Decided(t) = "open" <=> \A p \in Peer : Known(p, t) = "open"
         /\ \A s \in {"committed", "aborted"} :
              Decided(t) = s <=> \E p \in Peer : Known(p, t) = s
<1>1. \A p \in Peer : Known(p, t) \in {"open", "committed", "aborted"}
  BY KnownBy
<1>2. \A p, q \in Peer : ~ (Known(p, t) = "committed" /\ Known(q, t) = "aborted")
  BY KnownBy DEF PinInv, OutcomeInv, NoMixedOutcome, Undecided
<1> QED
  BY <1>1, <1>2 DEF Decided

\* When nobody knows more, nothing is decided and nobody hears of anything.
LEMMA KnownKept ==
  ASSUME \A p \in Peer, t \in Tx : Known(p, t)' = Known(p, t)
  PROVE  Decisions' = Decisions /\ Outcomes' = Outcomes
<1>1. \A t \in Tx : Decided(t)' = Decided(t)
  BY DEF Decided
<1> QED
  BY <1>1 DEF Decisions, Outcomes

\* An outcome that nobody contradicts is recorded, and nothing else is.
LEMMA Recorded ==
  ASSUME NEW n \in Peer, NEW t \in Tx, NEW s \in {"committed", "aborted"}, Known(n, t)' = s,
         \A p \in Peer : Known(p, t) \in {"open", s},
         \A p \in Peer, x \in Tx : p # n \/ x # t => Known(p, x)' = Known(p, x)
  PROVE  /\ Decisions' = [Decisions EXCEPT ![t] = s]
         /\ Outcomes' = [Outcomes EXCEPT ![n][t] = s]
<1>1. \A p \in Peer : Known(p, t)' \in {"open", s}
  OBVIOUS
<1>2. Decided(t)' = s
  BY <1>1 DEF Decided
<1>3. ASSUME NEW x \in Tx, x # t PROVE Decided(x)' = Decided(x)
  BY <1>3 DEF Decided
<1> QED
  BY <1>2, <1>3 DEF Decisions, Outcomes

\* Who has set its pin, and has yet to say so in the status, keeps that.
SameMarks ==
  /\ \A p \in Peer : main'[p] = "mark" <=> main[p] = "mark"
  /\ \A p \in Peer : main[p] = "mark" => current'[p] = current[p]

\* A step that decides nothing and changes no pin is none of AtomicCommit.
LEMMA Stutters ==
  ASSUME UNCHANGED <<status, pins>>, SameMarks
  PROVE  UNCHANGED Commit!vars
<1>1. \A p \in Peer, t \in Tx : Known(p, t)' = Known(p, t)
  BY DEF SameMarks, Known, Marking
<1> QED
  BY <1>1, KnownKept DEF Commit!vars

\* Nor is the start of a transaction.
LEMMA PinStutters ==
  ASSUME TypeOK, NEW n \in Peer, NEW t \in Tx, Pin(n, t)
  PROVE  UNCHANGED Commit!vars
<1>1. /\ main[n] = "prompt" /\ main' = [main EXCEPT ![n] = "wait"] /\ pins' = pins
      /\ current' = [current EXCEPT ![n] = t]
      /\ SetStatus(n, t, "active") /\ \A p \in Peer : status[p][t] = "none"
  BY DEF Pin, Begin, At, Goto
<1>2. SameMarks
  BY <1>1 DEF SameMarks, TypeOK
<1>3. /\ status'[n][t] = "active"
      /\ \A p \in Peer, x \in Tx : p # n \/ x # t => status'[p][x] = status[p][x]
  BY <1>1, StatusSet
<1>4. \A p \in Peer, x \in Tx : Known(p, x)' = Known(p, x)
  <2> SUFFICES ASSUME NEW p \in Peer, NEW x \in Tx PROVE Known(p, x)' = Known(p, x)
    OBVIOUS
  <2>1. Marking(p, x)' <=> Marking(p, x)
    BY <1>2 DEF SameMarks, Marking
  <2>2. status'[p][x] = status[p][x] \/ {status'[p][x], status[p][x]} \subseteq {"none", "active"}
    BY <1>1, <1>3
  <2> QED
    BY <2>1, <2>2 DEF Known
<1> QED
  BY <1>1, <1>4, KnownKept DEF Commit!vars

\* The owner decides: when validation fails, or when it sets the pin.
LEMMA OwnerDecides ==
  ASSUME PinInv, NEW n \in Peer, Validate(n) \/ ApplyLocally(n)
  PROVE  \/ UNCHANGED Commit!vars
         \/ \E t \in Tx, d \in {"committed", "aborted"} : Commit!Decide(n, t, d)
<1> USE DEF At, Goto
<1>t. PICK t \in Tx : t = current[n]
  BY Current DEF Validate, ApplyLocally, Committing
<1>0. /\ TypeOK /\ main \in [Peer -> MainPC]
      /\ status \in [Peer -> [Tx -> {"none", "active", "committed", "aborted"}]]
  BY DEF PinInv, TypeOK
<1>1. /\ Undecided(t) /\ main[n] # "mark" /\ \A p \in Peer : p # n => current[p] # t
  BY <1>t, PinAssumption DEF Validate, ApplyLocally, PinInv, CurrentInv, Committing
<1>2. \A p \in Peer : Known(p, t) = "open"
  BY <1>1, KnownBy DEF Undecided, Marking
<1>3. Decisions[t] = "open"
  BY <1>1, <1>2, DecidedBy DEF Decisions
<1>4. CASE Validate(n)
  <2>1. CASE Valid(n, t)
    <3>1. SameMarks /\ UNCHANGED <<status, pins>>
      BY <1>0, <1>4, <1>t, <2>1 DEF Validate, SameMarks
    <3> QED
      BY <3>1, Stutters
  <2>2. CASE ~ Valid(n, t)
    <3>1. SetStatus(n, t, "aborted") /\ pins' = pins /\ SameMarks
      BY <1>0, <1>4, <1>t, <2>2 DEF Validate, SameMarks
    <3>2. /\ status'[n][t] = "aborted" /\ ~ Marking(n, t)'
          /\ \A p \in Peer, x \in Tx : p # n \/ x # t => status'[p][x] = status[p][x]
      BY <1>0, <1>1, <3>1, StatusSet DEF Marking, SameMarks
    <3>3. Known(n, t)' = "aborted"
      BY <3>2 DEF Known
    <3>4. \A p \in Peer, x \in Tx : p # n \/ x # t => Known(p, x)' = Known(p, x)
      BY <3>1, <3>2 DEF Known, Marking, SameMarks
    <3>5. /\ Decisions' = [Decisions EXCEPT ![t] = "aborted"]
          /\ Outcomes' = [Outcomes EXCEPT ![n][t] = "aborted"]
      BY <1>1, <1>2, <3>3, <3>4, Recorded
    <3>6. Commit!Decide(n, t, "aborted")
      BY <1>3, <3>1, <3>5 DEF Commit!Decide, Commit!Hear
    <3> QED
      BY <3>6
  <2> QED
    BY <2>1, <2>2
<1>5. CASE ApplyLocally(n)
  <2>1. /\ UNCHANGED <<status, current>> /\ pins' = [pins EXCEPT ![n][RoomOf[t]] = t]
        /\ main' = [main EXCEPT ![n] = "mark"]
    BY <1>5, <1>t DEF ApplyLocally, Apply
  <2>2. /\ Marking(n, t)'
        /\ \A p \in Peer, x \in Tx : p # n \/ x # t => (Marking(p, x)' <=> Marking(p, x))
    BY <1>0, <1>1, <1>t, <2>1 DEF Marking
  <2>3. Known(n, t)' = "committed"
    BY <1>1, <2>1, <2>2 DEF Known, Undecided
  <2>4. \A p \in Peer, x \in Tx : p # n \/ x # t => Known(p, x)' = Known(p, x)
    BY <2>1, <2>2 DEF Known
  <2>5. /\ Decisions' = [Decisions EXCEPT ![t] = "committed"]
        /\ Outcomes' = [Outcomes EXCEPT ![n][t] = "committed"]
    BY <1>1, <1>2, <2>3, <2>4, Recorded
  <2>6. Commit!Decide(n, t, "committed")
    BY <1>3, <2>1, <2>5 DEF Commit!Decide, Commit!Hear
  <2> QED
    BY <2>6
<1> QED
  BY <1>4, <1>5

\* That the owner says in the status what it has decided is news to nobody.
LEMMA OwnerSays ==
  ASSUME PinInv, NEW n \in Peer, MarkCommitted(n)
  PROVE  UNCHANGED Commit!vars
<1>t. PICK t \in Tx : t = current[n]
  BY Current DEF MarkCommitted, At, Committing
<1>1. /\ main[n] = "mark" /\ main' = [main EXCEPT ![n] = "copy"] /\ UNCHANGED <<current, pins>>
      /\ SetStatus(n, t, "committed")
  BY <1>t DEF MarkCommitted, At, Goto
<1>2. TypeOK /\ main \in [Peer -> MainPC]
  BY DEF PinInv, TypeOK
<1>3. /\ status'[n][t] = "committed"
      /\ \A p \in Peer, x \in Tx : p # n \/ x # t => status'[p][x] = status[p][x]
  BY <1>1, <1>2, StatusSet
<1>4. Marking(n, t) /\ \A p \in Peer, x \in Tx : p # n \/ x # t => (Marking(p, x)' <=> Marking(p, x))
  BY <1>1, <1>2, <1>t DEF Marking
<1>5. ASSUME NEW p \in Peer, NEW x \in Tx PROVE Known(p, x)' = Known(p, x)
  <2>1. CASE p = n /\ x = t
    <3>1. Known(n, t)' = "committed"
      BY <1>3 DEF Known
    <3> QED
      BY <1>4, <2>1, <3>1, KnownBy
  <2>2. CASE p # n \/ x # t
    BY <1>3, <1>4, <2>2 DEF Known
  <2> QED
    BY <2>1, <2>2
<1> QED
  BY <1>1, <1>5, KnownKept DEF Commit!vars

\* What a message announces is what has been decided.
LEMMA OthersLearn ==
  ASSUME PinInv, NEW n \in Peer, NEW m \in msgs, HandleCommit(n, m) \/ HandleAbort(n, m)
  PROVE  \E t \in Tx : Commit!Learn(n, t)
<1> DEFINE t == m.tx
<1>0. TypeOK /\ NoMixedOutcome /\ t \in Tx
  BY DEF PinInv, OutcomeInv, TypeOK, Message, HandleCommit, HandleAbort
<1>1. PICK s \in {"committed", "aborted"} :
        /\ SetStatus(n, t, s) /\ \E q \in Peer : status[q][t] = s
        /\ pins' = IF s = "committed" THEN [pins EXCEPT ![n][RoomOf[t]] = t] ELSE pins
  BY DEF HandleCommit, HandleAbort, Apply, PinInv, OutcomeInv
<1>2. UNCHANGED <<main, current>> /\ main[n] # "mark"
  BY DEF HandleCommit, HandleAbort, LockHeld
<1>3. \E q \in Peer : Known(q, t) = s
  BY <1>0, <1>1, KnownBy
<1>4. Decisions[t] = s
  BY <1>0, <1>3, DecidedBy DEF Decisions
<1>5. \A p \in Peer : Known(p, t) \in {"open", s}
  BY <1>0, <1>1, <1>4, KnownBy, DecidedBy DEF Decisions
<1>6. /\ status'[n][t] = s /\ \A p \in Peer, x \in Tx : Marking(p, x)' <=> Marking(p, x)
      /\ \A p \in Peer, x \in Tx : p # n \/ x # t => status'[p][x] = status[p][x]
  BY <1>0, <1>1, <1>2, StatusSet DEF Marking
<1>7. Known(n, t)' = s
  BY <1>2, <1>6 DEF Known, Marking
<1>8. \A p \in Peer, x \in Tx : p # n \/ x # t => Known(p, x)' = Known(p, x)
  BY <1>6 DEF Known
<1>9. /\ Decisions' = [Decisions EXCEPT ![t] = s]
      /\ Outcomes' = [Outcomes EXCEPT ![n][t] = s]
  BY <1>0, <1>5, <1>7, <1>8, Recorded
<1>10. Decisions' = Decisions
  BY <1>4, <1>9 DEF Decisions
<1>11. Commit!Learn(n, t)
  BY <1>1, <1>4, <1>9, <1>10 DEF Commit!Learn, Commit!Hear
<1> QED
  BY <1>0, <1>11

\* The pins of a pin_sync have been decided.
LEMMA JoinerIsTold ==
  ASSUME PinInv, ShownInv, NEW n \in Peer, NEW m \in msgs, HandlePinSync(n, m)
  PROVE  Commit!Sync(n)
<1>1. /\ m.type = "pin_sync" /\ m.pins \in Pins /\ UNCHANGED <<status, main, current>>
      /\ pins' = [pins EXCEPT ![n] =
                   [r \in Room |-> IF m.pins[r] = NoTx THEN @[r] ELSE m.pins[r]]]
  BY DEF HandlePinSync, PinInv, TypeOK, Message
<1>2. pins \in [Peer -> Pins]
  BY DEF PinInv, TypeOK
<1>3. UNCHANGED <<Decisions, Outcomes>>
  BY <1>1, KnownKept DEF Known, Marking
<1>4. pins' \in [Peer -> Pins]
  BY <1>1, <1>2 DEF Pins
<1>5. ASSUME NEW q \in Peer, NEW r \in Room, pins'[q][r] # pins[q][r]
      PROVE  /\ q = n /\ pins'[q][r] # NoTx
             /\ RoomOf[pins'[q][r]] = r /\ Decisions[pins'[q][r]] = "committed"
  <2>1. q = n /\ pins'[q][r] = m.pins[r] /\ m.pins[r] # NoTx /\ m.pins[r] \in Tx
    BY <1>1, <1>2, <1>5 DEF Pins
  <2>2. RoomOf[m.pins[r]] = r /\ \E p \in Peer : Known(p, m.pins[r]) = "committed"
    BY <1>1, <2>1 DEF ShownInv, Justified
  <2>3. Decisions[m.pins[r]] = "committed"
    BY <2>1, <2>2, DecidedBy DEF Decisions
  <2> QED
    BY <2>1, <2>2, <2>3
<1> QED
  BY <1>3, <1>4, <1>5 DEF Commit!Sync, Pins

LEMMA CommitStep ==
  ASSUME PinInv, ShownInv, [Next]_vars
  PROVE  [Commit!Next]_Commit!vars
<1>0. TypeOK /\ main \in [Peer -> MainPC] /\ current \in [Peer -> Tx \union {NoTx}]
  BY DEF PinInv, TypeOK
<1>1. CASE UNCHANGED vars
  BY <1>1, Stutters DEF vars, SameMarks
<1>2. ASSUME NEW n \in Peer, MainStep(n)
      PROVE  [Commit!Next]_Commit!vars
  <2>1. CASE Validate(n) \/ ApplyLocally(n)
    BY <2>1, OwnerDecides DEF Commit!Next
  <2>2. CASE MarkCommitted(n)
    BY <2>2, OwnerSays
  <2>3. CASE StartCommit(n) \/ Broadcast(n) \/ SendOutcome(n) \/ Finish(n)
    <3>1. /\ UNCHANGED <<status, pins>> /\ main[n] # "mark"
          /\ main' = main \/ \E pc \in MainPC \ {"mark"} : main' = [main EXCEPT ![n] = pc]
          /\ current' = current \/ current' = [current EXCEPT ![n] = NoTx]
      BY <2>3 DEF StartCommit, Broadcast, SendOutcome, Finish, At, Goto, MainPC
    <3>2. \A p \in Peer : p # n => main'[p] = main[p] /\ current'[p] = current[p]
      BY <1>0, <3>1
    <3>3. main'[n] # "mark"
      BY <1>0, <3>1
    <3> QED
      BY <3>1, <3>2, <3>3, Stutters DEF SameMarks
  <2> QED
    BY <1>2, <2>1, <2>2, <2>3 DEF MainStep
<1>3. ASSUME NEW n \in Peer, NEW t \in Tx, Pin(n, t)
      PROVE  UNCHANGED Commit!vars
  BY <1>0, <1>3, PinStutters
<1>4. ASSUME NEW n \in Peer, RequestCS(n) \/ Done(n) \/ EnterCS(n) \/ Join(n) \/ Exit(n)
      PROVE  UNCHANGED Commit!vars
  <2>1. SameMarks /\ UNCHANGED <<status, pins>>
    BY <1>0, <1>4 DEF RequestCS, Done, EnterCS, Join, Exit, Goto, SameMarks
  <2> QED
    BY <2>1, Stutters
<1>5. ASSUME NEW n \in Peer, NEW m \in msgs, HandlerStep(n, m)
      PROVE  [Commit!Next]_Commit!vars
  <2>1. CASE HandleCommit(n, m) \/ HandleAbort(n, m)
    BY <2>1, OthersLearn DEF Commit!Next
  <2>2. CASE HandlePinSync(n, m)
    BY <2>2, JoinerIsTold DEF Commit!Next
  <2>3. CASE HandlePing(n, m) \/ HandlePong(n, m)
    <3>1. SameMarks /\ UNCHANGED <<status, pins>>
      BY <1>0, <2>3 DEF HandlePing, HandlePong, Goto, SameMarks
    <3> QED
      BY <3>1, Stutters
  <2> QED
    BY <1>5, <2>1, <2>2, <2>3 DEF HandlerStep
<1> QED
  BY <1>1, <1>2, <1>3, <1>4, <1>5 DEF Next, UserStep

\* What has been decided stays decided, so what is justified stays so.
LEMMA JustifiedStays ==
  ASSUME PinInv, ShownInv, [Next]_vars, NEW r \in Room, NEW t \in Tx \union {NoTx},
         Justified(r, t)
  PROVE  Justified(r, t)'
<1> SUFFICES ASSUME t # NoTx PROVE Justified(r, t)'
  BY DEF Justified
<1>1. t \in Tx /\ RoomOf[t] = r /\ Decisions[t] = "committed"
  BY DecidedBy DEF Justified, Decisions
<1>2. Decisions'[t] = "committed"
  <2>1. CASE UNCHANGED Commit!vars
    BY <1>1, <2>1 DEF Commit!vars
  <2>2. CASE Commit!Next
    BY <1>1, <2>2 DEF Commit!Next, Commit!Sync, Commit!Learn, Commit!Decide, Decisions
  <2> QED
    BY <2>1, <2>2, CommitStep
<1>3. \E q \in Peer : Known(q, t)' = "committed"
  <2>1. Decided(t)' = "committed"
    BY <1>1, <1>2 DEF Decisions
  <2> QED
    BY <2>1 DEF Decided
<1> QED
  BY <1>1, <1>3 DEF Justified

LEMMA ShownStep ==
  ASSUME PinInv, ShownInv, [Next]_vars
  PROVE  ShownInv'
<1>0. /\ pins \in [Peer -> Pins] /\ TypeOK
      /\ \A m \in msgs : m.type = "pin_sync" => m.pins \in Pins
      /\ \A m \in msgs : m.type = "tx_commit" => m.tx \in Tx
  BY DEF PinInv, TypeOK, Message
<1>1. ASSUME NEW p \in Peer, NEW r \in Room
      PROVE  Justified(r, pins[p][r])'
  <2>0. Justified(r, pins[p][r])
    BY DEF ShownInv
  <2>1. CASE pins'[p][r] = pins[p][r]
    <3>1. PICK t \in Tx \union {NoTx} : t = pins[p][r]
      BY <1>0 DEF Pins
    <3>2. Justified(r, t)'
      BY <2>0, <3>1, JustifiedStays
    <3> QED
      BY <2>1, <3>1, <3>2 DEF Justified
  <2>2. CASE pins'[p][r] # pins[p][r]
    <3>1. ASSUME NEW t \in Tx, Known(p, t)' = "committed", RoomOf[t] = r, pins'[p][r] = t
          PROVE  Justified(r, pins[p][r])'
      BY <3>1 DEF Justified
    <3>2. ASSUME ApplyLocally(p) PROVE Justified(r, pins[p][r])'
      <4>1. current[p] \in Tx
        BY <3>2 DEF ApplyLocally, At, PinInv, CurrentInv, Committing
      <4>2. Known(p, current[p])' = "committed"
        <5>1. main \in [Peer -> MainPC]
          BY <1>0 DEF TypeOK
        <5>2. Marking(p, current[p])'
          BY <3>2, <5>1 DEF ApplyLocally, Marking, Goto
        <5>3. status'[p][current[p]] # "aborted"
          BY <3>2, <4>1 DEF ApplyLocally, At, PinInv, CurrentInv, Undecided
        <5> QED
          BY <3>2, <5>2, <5>3 DEF Known, ApplyLocally
      <4>3. RoomOf[current[p]] = r /\ pins'[p][r] = current[p]
        BY <1>0, <2>2, <3>2, <4>1 DEF ApplyLocally, Apply, Pins
      <4>4. current' = current
        BY <3>2 DEF ApplyLocally
      <4> QED
        BY <3>1, <4>1, <4>2, <4>3, <4>4
    <3>3. ASSUME NEW m \in msgs, HandleCommit(p, m) PROVE Justified(r, pins[p][r])'
      <4>1. m.tx \in Tx
        BY <1>0, <3>3 DEF HandleCommit
      <4>2. Known(p, m.tx)' = "committed"
        BY <1>0, <3>3, <4>1, StatusSet DEF HandleCommit, Known
      <4>3. RoomOf[m.tx] = r /\ pins'[p][r] = m.tx
        BY <1>0, <2>2, <3>3, <4>1 DEF HandleCommit, Apply, Pins
      <4> QED
        BY <3>1, <4>1, <4>2, <4>3
    <3>4. ASSUME NEW m \in msgs, HandlePinSync(p, m) PROVE Justified(r, pins[p][r])'
      <4>1. m.type = "pin_sync" /\ pins'[p][r] = m.pins[r]
        BY <1>0, <2>2, <3>4 DEF HandlePinSync, Pins
      <4>2. PICK t \in Tx \union {NoTx} : t = m.pins[r]
        BY <1>0, <4>1 DEF Pins
      <4>3. Justified(r, t)'
        BY <4>1, <4>2, JustifiedStays DEF ShownInv
      <4> QED
        BY <4>1, <4>2, <4>3 DEF Justified
    <3>5. ASSUME NEW n \in Peer, NEW m \in msgs, HandlerStep(n, m)
          PROVE  HandleCommit(p, m) \/ HandlePinSync(p, m)
      BY <1>0, <2>2, <3>5 DEF HandlerStep, HandleCommit, HandleAbort, HandlePing,
         HandlePong, HandlePinSync, Apply, Pins
    <3>6. ASSUME NEW n \in Peer, MainStep(n) \/ UserStep(n) \/ EnterCS(n) \/ Join(n) \/ Exit(n)
          PROVE  ApplyLocally(p)
      BY <1>0, <2>2, <3>6 DEF MainStep, UserStep, StartCommit, Validate, ApplyLocally, Apply,
         MarkCommitted, Broadcast, SendOutcome, Finish, RequestCS, Done, Pin, EnterCS, Join, Exit, Pins
    <3> QED
      BY <2>2, <3>2, <3>3, <3>4, <3>5, <3>6 DEF Next, vars
  <2> QED
    BY <2>1, <2>2
<1>2. ASSUME NEW k \in msgs', k.type = "pin_sync", NEW r \in Room
      PROVE  Justified(r, k.pins[r])'
  <2>1. \/ k \in msgs
        \/ \E n \in Peer : k.pins = pins[n]
    <3>1. CASE UNCHANGED vars
      BY <3>1 DEF vars
    <3>2. ASSUME NEW n \in Peer, MainStep(n) \/ UserStep(n) \/ EnterCS(n) \/ Join(n) \/ Exit(n)
          PROVE  k \in msgs
      BY <1>2, <3>2 DEF MainStep, UserStep, StartCommit, Validate, ApplyLocally, MarkCommitted,
         Broadcast, SendOutcome, Outcome, Finish, RequestCS, Done, Pin, EnterCS, Join, Ping, Exit
    <3>3. ASSUME NEW n \in Peer, NEW m \in msgs, HandlerStep(n, m)
          PROVE  k \in msgs \/ k.pins = pins[n]
      BY <1>2, <3>3 DEF HandlerStep, HandleCommit, HandleAbort, HandlePing, HandlePong,
         HandlePinSync, Answers, Ping
    <3> QED
      BY <3>1, <3>2, <3>3 DEF Next
  <2>2. Justified(r, k.pins[r]) /\ k.pins[r] \in Tx \union {NoTx}
    BY <1>0, <1>2, <2>1 DEF ShownInv, Pins
  <2>3. PICK t \in Tx \union {NoTx} : t = k.pins[r]
    BY <2>2
  <2>4. Justified(r, t)'
    BY <2>2, <2>3, JustifiedStays
  <2> QED
    BY <2>3, <2>4 DEF Justified
<1> QED
  BY <1>1, <1>2 DEF ShownInv

LEMMA CommitInit == Init => Commit!Init /\ ShownInv
<1> SUFFICES ASSUME Init PROVE Commit!Init /\ ShownInv
  OBVIOUS
<1>1. \A t \in Tx : Decided(t) = "open" /\ \A p \in Peer : Known(p, t) = "open"
  BY DEF Init, Decided, Known, Marking
<1>2. Decisions = [t \in Tx |-> "open"] /\ Outcomes = [p \in Peer |-> [t \in Tx |-> "open"]]
  BY <1>1 DEF Decisions, Outcomes
<1> QED
  BY <1>2 DEF Commit!Init, Init, NoPins, ShownInv, Justified

\* What one peer decides all others hear and none unlearns, whoever exits and however
\* messages overtake each other, and no pin is shown before its owner has decided.
THEOREM PinsImplementCommit == Spec => ImplementsCommit
<1>1. Init => PinInv /\ ShownInv /\ Commit!Init
  BY PinInit, CommitInit
<1>2. PinInv /\ ShownInv /\ [Next]_vars => (PinInv /\ ShownInv)'
  BY PinStep, ShownStep
<1>3. PinInv /\ ShownInv /\ [Next]_vars => [Commit!Next]_Commit!vars
  BY CommitStep
<1> QED
  BY <1>1, <1>2, <1>3, PTL DEF Spec, ImplementsCommit, Commit!Spec

-----------------------------------------------------------------------------

(***************************************************************************)
(* A pin reaches everybody.                                                *)
(***************************************************************************)

\* What NoPinLost is about: one process joins, and it pins nothing itself.
OneJoins == Pinners \subseteq Starters /\ \A p, q \in Peer \ Starters : p = q

\* What a peer has, or will be told without its asking.
Covered(n, r) ==
  pins[n][r] # NoTx \/ OnWay(n, r) \/ \E o \in Starters : ToSend(o, n, r)

Pinned(r) == \E o \in Starters : pins[o][r] # NoTx

\* The starters know each other, and only they commit.
PeersInv ==
  /\ Starters \subseteq up /\ \A p \in Peer : phase[p] # "gone"
  /\ \A p \in Peer : neighbors[p] \subseteq up /\ todo[p] \subseteq up
  /\ \A s \in Starters : Starters \ {s} \subseteq neighbors[s]
  /\ \A p \in Peer : main[p] = "wait" \/ Committing(p) => p \in Pinners

\* A pin, and a message that brings one, is a pin of a starter; whoever is about to tell
\* the others has applied.
Applied(p) ==
  \/ main[p] = "mark"
  \/ main[p] \in {"copy", "spread"} /\ status[p][current[p]] = "committed"
PinsInv ==
  /\ \A p \in Peer, r \in Room : pins[p][r] # NoTx => Pinned(r)
  /\ \A m \in msgs, r \in Room : Carries(m, r) => Pinned(r)
  /\ \A p \in Peer : Applied(p) => pins[p][RoomOf[current[p]]] # NoTx

\* Only the process that joins pings, and it pings starters.  A ping that one has handled
\* has reached each of the others or is on its way there.
PingsInv ==
  /\ \A m \in msgs : /\ m.src \in up /\ m.dst \in up
                     /\ m.type = "ping" => m.src \notin Starters /\ m.dst \in Starters
  /\ \A p, j, i \in Peer : <<j, i>> \in pinged[p] =>
       /\ j \in up \ Starters /\ j \in neighbors[p]
       /\ \A o \in Starters : <<j, i>> \in pinged[o] \/ Ping(j, o, i) \in msgs
  /\ \A j \in up \ Starters, o \in Starters :
       (\E i \in Peer : <<j, i>> \in pinged[o]) \/ PingComes(j, o)

\* A pin comes to every starter, and to the process that joins unless a starter that has it
\* will answer its ping.
Due(n, r) == \E o \in Starters : pins[o][r] # NoTx /\ PingComes(n, o)
CoverInv ==
  \A r \in Room : Pinned(r) =>
    /\ \A n \in Starters : Covered(n, r)
    /\ \A n \in up \ Starters : Covered(n, r) \/ Due(n, r)

SpreadInv == PeersInv /\ PinsInv /\ PingsInv /\ CoverInv

-----------------------------------------------------------------------------

\* As long as nobody is gone, nobody was, and nobody exits.
LEMMA NobodyExits ==
  ASSUME TypeOK, Gone' = {}, NEW n \in Peer
  PROVE  ~ Exit(n)
<1>1. Exit(n) => phase'[n] = "gone"
  BY PhaseTypes DEF Exit
<1> QED
  BY <1>1 DEF Gone

LEMMA NobodyGone ==
  ASSUME TypeOK, [Next]_vars, Gone' = {}
  PROVE  Gone = {}
<1> SUFFICES ASSUME NEW p \in Peer, phase[p] = "gone" PROVE phase'[p] = "gone"
  BY DEF Gone
<1>1. ASSUME NEW n \in Peer,
             \/ Section!Request(n) \/ Section!Enter(n) \/ Section!Release(n) \/ Section!Exit(n)
      PROVE  phase'[p] = "gone"
  <2>1. Section!Enter(n) => phase[n] = "requesting"
    BY DEF Section!Enter, Section!Move
  <2> QED
    BY <1>1, <2>1, PhaseTypes DEF Section!Exit
<1>2. ASSUME NEW n \in Peer, MainStep(n) \/ UserStep(n) \/ EnterCS(n) \/ Join(n) \/ Exit(n)
      PROVE  phase'[p] = "gone"
  BY <1>1, <1>2 DEF MainStep, UserStep, StartCommit, Validate, ApplyLocally, MarkCommitted,
     Broadcast, SendOutcome, Finish, RequestCS, Done, Pin, EnterCS, Join, Exit
<1>3. ASSUME NEW n \in Peer, NEW m \in msgs, HandlerStep(n, m) PROVE phase'[p] = "gone"
  BY <1>3 DEF HandlerStep, HandleCommit, HandleAbort, HandlePing, HandlePong, HandlePinSync
<1> QED
  BY <1>2, <1>3 DEF Next, vars

\* What a message carries, by its type.
LEMMA Fields ==
  ASSUME TypeOK, NEW m \in msgs
  PROVE  /\ m.src \in Peer /\ m.dst \in Peer
         /\ m.type \in {"pong", "ping", "pin_sync", "tx_commit", "tx_abort"}
         /\ m.type \in {"tx_commit", "tx_abort"} => m.tx \in Tx
         /\ m.type = "pin_sync" => m.pins \in Pins
         /\ m.type = "ping" => m.id \in Peer /\ m = Ping(m.src, m.dst, m.id)
BY DEF TypeOK, Message, Ping

-----------------------------------------------------------------------------

\* What only grows.
Kept ==
  /\ up \subseteq up'
  /\ \A p \in Peer : neighbors[p] \subseteq neighbors'[p] /\ pinged[p] \subseteq pinged'[p]
  /\ \A p \in Peer, r \in Room : pins[p][r] # NoTx => pins'[p][r] # NoTx
  /\ \A n \in Peer, r \in Room : OnWay(n, r) => OnWay(n, r)' \/ pins'[n][r] # NoTx
  /\ \A o \in Starters, n \in Peer, r \in Room :
       ToSend(o, n, r) => ToSend(o, n, r)' \/ OnWay(n, r)'

\* No step of a main thread or a user takes any of it away.
LEMMA KeptMain ==
  ASSUME OneJoins, PinInv, SpreadInv, NEW n \in Peer,
         MainStep(n) \/ UserStep(n) \/ EnterCS(n) \/ Join(n)
  PROVE  Kept
<1> USE DEF At, Goto
<1>0. /\ main \in [Peer -> MainPC] /\ current \in [Peer -> Tx \union {NoTx}]
      /\ status \in [Peer -> [Tx -> {"none", "active", "committed", "aborted"}]]
      /\ neighbors \in [Peer -> SUBSET Peer] /\ todo \in [Peer -> SUBSET Peer]
      /\ pins \in [Peer -> [Room -> Tx \union {NoTx}]]
  BY DEF PinInv, TypeOK, Pins
<1>1. ASSUME NEW t \in Tx, Pin(n, t) PROVE Kept
  BY <1>0, <1>1 DEF Pin, Begin, SetStatus, Kept, ToSend, OnWay
<1>2. CASE RequestCS(n) \/ Done(n) \/ EnterCS(n) \/ StartCommit(n)
  BY <1>0, <1>2 DEF RequestCS, Done, EnterCS, StartCommit, Kept, ToSend, OnWay
<1>3. CASE Validate(n)
  <2>1. /\ main[n] = "validate" /\ UNCHANGED <<up, current, pins, msgs, neighbors, todo, pinged>>
        /\ \A p \in Peer : p # n => main'[p] = main[p] /\ status'[p] = status[p]
    BY <1>0, <1>3 DEF Validate, SetStatus
  <2> QED
    BY <1>0, <2>1 DEF Kept, ToSend, OnWay
<1>4. CASE ApplyLocally(n)
  <2>1. current[n] \in Tx /\ RoomOf[current[n]] \in Room
    BY <1>4, Current DEF ApplyLocally, Committing
  <2>2. /\ main[n] = "apply" /\ UNCHANGED <<up, current, msgs, neighbors, todo, pinged>>
        /\ \A p \in Peer : p # n => main'[p] = main[p] /\ status'[p] = status[p]
    BY <1>0, <1>4 DEF ApplyLocally, SetStatus
  <2>3. \A p \in Peer, r \in Room : pins[p][r] # NoTx => pins'[p][r] # NoTx
    BY <1>0, <1>4, <2>1 DEF ApplyLocally, Apply
  <2> QED
    BY <1>0, <2>2, <2>3 DEF Kept, ToSend, OnWay
<1>5. CASE MarkCommitted(n)
  <2>1. current[n] \in Tx
    BY <1>5, Current DEF MarkCommitted, Committing
  <2>2. /\ main[n] = "mark" /\ main'[n] = "copy" /\ status'[n][current[n]] = "committed"
        /\ UNCHANGED <<up, current, pins, msgs, neighbors, todo, pinged>>
        /\ \A p \in Peer : p # n => main'[p] = main[p] /\ status'[p] = status[p]
    BY <1>0, <1>5, <2>1 DEF MarkCommitted, SetStatus
  <2> QED
    BY <1>0, <2>2 DEF Kept, ToSend, OnWay
<1>9. CASE Broadcast(n)
  BY <1>0, <1>9 DEF Broadcast, Kept, ToSend, OnWay
<1>6. CASE SendOutcome(n)
  <2>1. PICK a \in todo[n] :
          /\ todo' = [todo EXCEPT ![n] = @ \ {a}]
          /\ IF a \in up
             THEN /\ msgs' = msgs \union
                       {[type |-> Outcome(n), src |-> n, dst |-> a, tx |-> current[n]]}
                  /\ UNCHANGED neighbors
             ELSE /\ neighbors' = [neighbors EXCEPT ![n] = @ \ {a}]
                  /\ UNCHANGED msgs
    BY <1>6 DEF SendOutcome
  <2>2. a \in up /\ main[n] = "spread"
    BY <1>6 DEF SpreadInv, PeersInv, SendOutcome
  <2>3. UNCHANGED <<up, main, current, status, pins, pinged, neighbors>>
    BY <1>6, <2>1, <2>2 DEF SendOutcome
  <2> DEFINE new == [type |-> Outcome(n), src |-> n, dst |-> a, tx |-> current[n]]
  <2>4. msgs' = msgs \union {new}
    BY <2>1, <2>2
  <2>5. ASSUME NEW o \in Starters, NEW d \in Peer, NEW r \in Room, ToSend(o, d, r)
        PROVE  ToSend(o, d, r)' \/ OnWay(d, r)'
    <3>1. CASE o = n /\ d = a
      <4>1. Outcome(n) = "tx_commit" /\ RoomOf[current[n]] = r
        BY <2>2, <2>5, <3>1 DEF ToSend, Outcome
      <4>2. new.dst = d /\ Carries(new, r)
        BY <3>1, <4>1 DEF Carries
      <4> QED
        BY <2>4, <4>2 DEF OnWay
    <3>2. CASE ~ (o = n /\ d = a)
      BY <1>0, <2>1, <2>3, <2>5, <3>2 DEF ToSend
    <3> QED
      BY <3>1, <3>2
  <2> QED
    BY <2>3, <2>4, <2>5 DEF Kept, OnWay
<1>7. CASE Finish(n)
  <2>1. /\ main[n] = "spread" /\ todo[n] = {}
        /\ UNCHANGED <<up, neighbors, status, pins, todo, pinged, msgs>>
        /\ \A p \in Peer : p # n => main'[p] = main[p] /\ current'[p] = current[p]
    BY <1>0, <1>7 DEF Finish
  <2> QED
    BY <1>0, <2>1 DEF Kept, ToSend, OnWay
<1>8. CASE Join(n)
  <2>1. /\ main[n] = "off" /\ up \subseteq up' /\ msgs \subseteq msgs'
        /\ UNCHANGED <<neighbors, current, status, pins, todo, pinged>>
        /\ \A p \in Peer : p # n => main'[p] = main[p]
    BY <1>0, <1>8 DEF Join
  <2> QED
    BY <1>0, <2>1 DEF Kept, ToSend, OnWay
<1> QED
  BY <1>1, <1>2, <1>3, <1>4, <1>5, <1>6, <1>7, <1>8, <1>9 DEF MainStep, UserStep

\* Nor does a handler.
LEMMA KeptHandler ==
  ASSUME OneJoins, PinInv, SpreadInv, NEW n \in Peer, NEW m \in msgs, HandlerStep(n, m)
  PROVE  Kept
<1>0. /\ main \in [Peer -> MainPC] /\ current \in [Peer -> Tx \union {NoTx}]
      /\ status \in [Peer -> [Tx -> {"none", "active", "committed", "aborted"}]]
      /\ neighbors \in [Peer -> SUBSET Peer] /\ todo \in [Peer -> SUBSET Peer]
      /\ pins \in [Peer -> [Room -> Tx \union {NoTx}]]
      /\ pinged \in [Peer -> SUBSET (Peer \X Peer)]
  BY DEF PinInv, TypeOK, Pins
<1>1. \A p \in Peer : neighbors[p] \subseteq up
  BY DEF SpreadInv, PeersInv
<1>2. /\ m.type \in {"tx_commit", "tx_abort"} => m.tx \in Tx
      /\ m.type = "pin_sync" => m.pins \in [Room -> Tx \union {NoTx}]
      /\ m.src \in up
  BY Fields DEF PinInv, Pins, SpreadInv, PingsInv
\* The parts in turn.
<1>3. /\ up' = up /\ UNCHANGED <<todo, current>> /\ msgs \ {m} \subseteq msgs' /\ m.dst = n
      /\ \A p \in Peer : neighbors[p] \subseteq neighbors'[p] /\ pinged[p] \subseteq pinged'[p]
      /\ \A p \in Peer : main[p] \in {"mark", "copy", "spread"} => main'[p] = main[p]
  <2>1. CASE HandlePing(n, m)
    <3>1. UNCHANGED <<up, main, todo, current>> /\ m.dst = n /\ msgs \ {m} \subseteq msgs'
      BY <2>1 DEF HandlePing
    <3>2. \/ neighbors' = [neighbors EXCEPT ![n] = @ \union {m.src}] /\ UNCHANGED pinged
          \/ /\ neighbors' = [neighbors EXCEPT ![n] = (@ \union {m.src}) \intersect up]
             /\ pinged' = [pinged EXCEPT ![n] = @ \union {<<m.src, m.id>>}]
      BY <2>1 DEF HandlePing
    <3>3. \A p \in Peer : neighbors[p] \subseteq neighbors'[p] /\ pinged[p] \subseteq pinged'[p]
      <4>1. \A p \in Peer : p # n => neighbors'[p] = neighbors[p] /\ pinged'[p] = pinged[p]
        BY <1>0, <3>2
      <4>2. neighbors[n] \subseteq neighbors'[n]
        BY <1>0, <1>1, <3>2
      <4>3. pinged[n] \subseteq pinged'[n]
        <5>1. CASE UNCHANGED pinged
          BY <5>1
        <5>2. CASE pinged' = [pinged EXCEPT ![n] = @ \union {<<m.src, m.id>>}]
          <6>1. pinged'[n] = pinged[n] \union {<<m.src, m.id>>}
            BY <1>0, <5>2, Zenon
          <6> QED
            BY <6>1
        <5> QED
          BY <3>2, <5>1, <5>2
      <4> QED
        BY <4>1, <4>2, <4>3
    <3> QED
      BY <3>1, <3>3
  <2>2. ASSUME Takes(n, m), UNCHANGED <<up, todo, current, pinged>>, msgs' = msgs \ {m},
               main' = main \/ (main' = [main EXCEPT ![n] = "prompt"] /\ main[n] = "boot")
        PROVE  /\ msgs \ {m} \subseteq msgs' /\ m.dst = n
               /\ \A p \in Peer : neighbors[p] \subseteq neighbors'[p] /\ pinged[p] \subseteq pinged'[p]
               /\ \A p \in Peer : main[p] \in {"mark", "copy", "spread"} => main'[p] = main[p]
    BY <1>0, <2>2 DEF Takes
  <2>3. CASE HandleCommit(n, m) \/ HandleAbort(n, m) \/ HandlePong(n, m) \/ HandlePinSync(n, m)
    <3>1. /\ Takes(n, m) /\ UNCHANGED <<up, todo, current, pinged>> /\ msgs' = msgs \ {m}
          /\ main' = main \/ (main' = [main EXCEPT ![n] = "prompt"] /\ main[n] = "boot")
      BY <2>3 DEF HandleCommit, HandleAbort, HandlePong, HandlePinSync, Goto
    <3> QED
      BY <2>2, <3>1
  <2> QED
    BY <1>0, <2>1, <2>3 DEF HandlerStep
<1>4. \A p \in Peer, r \in Room : pins[p][r] # NoTx => pins'[p][r] # NoTx
  <2>1. CASE HandleCommit(n, m)
    BY <1>0, <1>2, <2>1 DEF HandleCommit, Apply
  <2>2. CASE HandlePinSync(n, m)
    BY <1>0, <1>2, <2>2 DEF HandlePinSync
  <2>3. CASE ~ HandleCommit(n, m) /\ ~ HandlePinSync(n, m)
    BY <2>3 DEF HandlerStep, HandleAbort, HandlePong, HandlePing
  <2> QED
    BY <2>1, <2>2, <2>3
<1>5. ASSUME NEW r \in Room, Carries(m, r)
      PROVE  pins'[n][r] # NoTx
  <2>1. CASE HandleCommit(n, m)
    <3>1. RoomOf[m.tx] = r /\ m.tx \in Tx
      BY <1>2, <1>5, <2>1 DEF Carries, HandleCommit
    <3> QED
      BY <1>0, <3>1, <2>1 DEF HandleCommit, Apply
  <2>2. CASE HandlePinSync(n, m)
    BY <1>0, <1>2, <1>5, <2>2 DEF HandlePinSync, Carries
  <2>3. CASE ~ HandleCommit(n, m) /\ ~ HandlePinSync(n, m)
    BY <1>5, <2>3 DEF HandlerStep, HandleAbort, HandlePong, HandlePing, Carries
  <2> QED
    BY <2>1, <2>2, <2>3
<1>6. \A d \in Peer, r \in Room : OnWay(d, r) => OnWay(d, r)' \/ pins'[d][r] # NoTx
  BY <1>3, <1>5 DEF OnWay
<1>7. ASSUME NEW o \in Peer, current[o] \in Tx, status[o][current[o]] = "committed",
             main[o] \in {"copy", "spread"}
      PROVE  status'[o][current[o]] = "committed"
  <2>1. CASE HandleCommit(n, m)
    BY <1>0, <1>2, <1>7, <2>1 DEF HandleCommit, SetStatus
  <2>2. CASE HandleAbort(n, m)
    <3>1. PICK q \in Peer : status[q][m.tx] = "aborted"
      BY <2>2 DEF PinInv, OutcomeInv, HandleAbort
    <3>2. m.tx # current[o] /\ m.tx \in Tx
      BY <1>2, <1>7, <2>2, <3>1 DEF PinInv, OutcomeInv, NoMixedOutcome, HandleAbort
    <3> QED
      BY <1>0, <1>7, <2>2, <3>2 DEF HandleAbort, SetStatus
  <2>3. CASE ~ HandleCommit(n, m) /\ ~ HandleAbort(n, m)
    BY <1>7, <2>3 DEF HandlerStep, HandlePinSync, HandlePong, HandlePing
  <2> QED
    BY <2>1, <2>2, <2>3
<1>8. \A o \in Starters, d \in Peer, r \in Room : ToSend(o, d, r) => ToSend(o, d, r)'
  <2> SUFFICES ASSUME NEW o \in Starters, NEW d \in Peer, NEW r \in Room, ToSend(o, d, r)
               PROVE  ToSend(o, d, r)'
    OBVIOUS
  <2>1. current[o] \in Tx /\ main'[o] = main[o] /\ current'[o] = current[o]
    BY <1>0, <1>3 DEF ToSend
  <2>2. CASE main[o] = "mark"
    BY <1>3, <2>1, <2>2 DEF ToSend
  <2>3. CASE main[o] \in {"copy", "spread"} /\ status[o][current[o]] = "committed"
    <3>1. status'[o][current[o]] = "committed"
      BY <1>7, <2>1, <2>3
    <3> QED
      BY <1>3, <2>1, <2>3, <3>1 DEF ToSend
  <2> QED
    BY <2>2, <2>3 DEF ToSend
<1> QED
  BY <1>3, <1>4, <1>6, <1>8 DEF Kept

LEMMA KeptStep ==
  ASSUME OneJoins, PinInv, SpreadInv, [Next]_vars, Gone' = {}
  PROVE  Kept
<1>1. CASE UNCHANGED vars
  BY <1>1 DEF vars, Kept, ToSend, OnWay
<1> QED
  BY <1>1, KeptMain, KeptHandler, NobodyExits DEF Next, PinInv

-----------------------------------------------------------------------------

\* PeersInv is kept.
LEMMA PeersMain ==
  ASSUME OneJoins, PinInv, SpreadInv, NEW n \in Peer,
         MainStep(n) \/ UserStep(n) \/ EnterCS(n) \/ Join(n)
  PROVE  PeersInv'
<1> USE DEF At, Goto, SpreadInv, PeersInv, Committing
<1>0. /\ main \in [Peer -> MainPC] /\ TypeOK /\ up \subseteq Peer
      /\ neighbors \in [Peer -> SUBSET Peer] /\ todo \in [Peer -> SUBSET Peer]
  BY DEF PinInv, TypeOK
<1>1. ASSUME NEW t \in Tx, Pin(n, t) PROVE PeersInv'
  BY <1>0, <1>1, PhaseTypes DEF Pin, Begin
<1>2. CASE RequestCS(n) \/ Done(n) \/ EnterCS(n)
  BY <1>0, <1>2, PhaseTypes DEF RequestCS, Done, EnterCS
<1>3. CASE StartCommit(n) \/ Validate(n) \/ ApplyLocally(n) \/ MarkCommitted(n) \/ Broadcast(n)
  BY <1>0, <1>3 DEF StartCommit, Validate, ApplyLocally, MarkCommitted, Broadcast
<1>4. CASE SendOutcome(n)
  <2>1. UNCHANGED <<up, phase, main, neighbors>>
    BY <1>4 DEF SendOutcome
  <2>2. \A p \in Peer : todo'[p] \subseteq todo[p]
    BY <1>0, <1>4 DEF SendOutcome
  <2> QED
    BY <2>1, <2>2
<1>5. CASE Finish(n)
  BY <1>0, <1>5, PhaseTypes DEF Finish
<1>6. CASE Join(n)
  BY <1>0, <1>6 DEF Join
<1> QED
  BY <1>1, <1>2, <1>3, <1>4, <1>5, <1>6 DEF MainStep, UserStep

LEMMA PeersHandler ==
  ASSUME OneJoins, PinInv, SpreadInv, NEW n \in Peer, NEW m \in msgs, HandlerStep(n, m)
  PROVE  PeersInv'
<1>0. /\ main \in [Peer -> MainPC] /\ neighbors \in [Peer -> SUBSET Peer]
      /\ m.src \in up
  BY DEF PinInv, TypeOK, SpreadInv, PingsInv
<1>1. UNCHANGED <<up, phase, todo>>
  BY DEF HandlerStep, HandleCommit, HandleAbort, HandlePing, HandlePong, HandlePinSync, Takes
<1>2. main' = main \/ (main' = [main EXCEPT ![n] = "prompt"] /\ main[n] = "boot")
  BY DEF HandlerStep, HandleCommit, HandleAbort, HandlePing, HandlePong, HandlePinSync, Goto
<1>3. \/ neighbors' = [neighbors EXCEPT ![n] = @ \union {m.src}]
      \/ neighbors' = [neighbors EXCEPT ![n] = (@ \union {m.src}) \intersect up]
  BY DEF HandlerStep, HandleCommit, HandleAbort, HandlePing, HandlePong, HandlePinSync, Takes
<1>4. \A p \in Peer : neighbors[p] \subseteq up
  BY DEF SpreadInv, PeersInv
<1>5. \A p \in Peer : neighbors'[p] \subseteq up /\ neighbors[p] \subseteq neighbors'[p]
  BY <1>0, <1>3, <1>4
<1> QED
  BY <1>0, <1>1, <1>2, <1>5 DEF SpreadInv, PeersInv, Committing

-----------------------------------------------------------------------------

\* A room that is pinned stays pinned.
LEMMA PinnedOn ==
  ASSUME Kept, NEW r \in Room, Pinned(r)
  PROVE  Pinned(r)'
BY DEF Kept, Pinned

\* PinsInv is kept.
LEMMA PinsMain ==
  ASSUME OneJoins, PinInv, SpreadInv, NEW n \in Peer,
         MainStep(n) \/ UserStep(n) \/ EnterCS(n) \/ Join(n)
  PROVE  PinsInv'
<1> USE DEF At, Goto
<1>0. /\ main \in [Peer -> MainPC] /\ current \in [Peer -> Tx \union {NoTx}]
      /\ status \in [Peer -> [Tx -> {"none", "active", "committed", "aborted"}]]
      /\ pins \in [Peer -> [Room -> Tx \union {NoTx}]]
  BY DEF PinInv, TypeOK, Pins
<1>1. Kept /\ PinsInv
  BY KeptMain DEF SpreadInv
<1>2. CASE RequestCS(n) \/ Done(n) \/ EnterCS(n) \/ StartCommit(n) \/ Broadcast(n) \/ Join(n)
          \/ Finish(n)
  <2>1. /\ UNCHANGED <<status, pins>>
        /\ \A m \in msgs' : m \in msgs \/ m.type = "ping"
        /\ \A p \in Peer : Applied(p)' => Applied(p) /\ current'[p] = current[p]
    BY <1>0, <1>2 DEF RequestCS, Done, EnterCS, StartCommit, Broadcast, Join, Finish, Ping,
       Applied
  <2> QED
    BY <1>1, <2>1, PinnedOn DEF PinsInv, Carries, Pinned
<1>3. ASSUME NEW t \in Tx, Pin(n, t) PROVE PinsInv'
  <2>1. /\ UNCHANGED <<msgs, pins>>
        /\ \A p \in Peer : Applied(p)' => Applied(p) /\ current'[p] = current[p]
    BY <1>0, <1>3 DEF Pin, Begin, SetStatus, Applied
  <2> QED
    BY <1>1, <2>1 DEF PinsInv, Pinned
<1>4. CASE Validate(n)
  <2>1. current[n] \in Tx
    BY <1>4, Current DEF Validate, Committing
  <2>2. /\ UNCHANGED <<msgs, pins, current>>
        /\ \A p \in Peer : Applied(p)' => Applied(p)
    BY <1>0, <1>4, <2>1 DEF Validate, SetStatus, Applied
  <2> QED
    BY <1>1, <2>2 DEF PinsInv, Pinned
<1>5. CASE ApplyLocally(n)
  <2>1. current[n] \in Tx /\ RoomOf[current[n]] \in Room /\ current[n] # NoTx
    BY <1>5, Current DEF ApplyLocally, Committing
  <2>2. n \in Starters
    BY <1>5 DEF ApplyLocally, SpreadInv, PeersInv, Committing, OneJoins
  <2>3. /\ UNCHANGED <<msgs, current, status>>
        /\ pins' = [pins EXCEPT ![n][RoomOf[current[n]]] = current[n]]
        /\ \A p \in Peer : p # n => main'[p] = main[p]
    BY <1>0, <1>5 DEF ApplyLocally, Apply
  <2>4. /\ pins'[n][RoomOf[current[n]]] # NoTx
        /\ \A p \in Peer, r \in Room : p # n \/ r # RoomOf[current[n]] => pins'[p][r] = pins[p][r]
    BY <1>0, <2>1, <2>3
  <2>5. \A p \in Peer, r \in Room : pins'[p][r] # NoTx => Pinned(r)'
    BY <1>1, <2>2, <2>4, PinnedOn DEF PinsInv, Pinned
  <2>6. \A m \in msgs', r \in Room : Carries(m, r) => Pinned(r)'
    BY <1>1, <2>3, PinnedOn DEF PinsInv
  <2>7. ASSUME NEW p \in Peer, Applied(p)'
        PROVE  pins'[p][RoomOf[current'[p]]] # NoTx
    <3>1. CASE p = n
      BY <2>3, <2>4, <3>1
    <3>2. CASE p # n
      <4>1. Applied(p)
        BY <2>3, <2>7, <3>2 DEF Applied
      <4> QED
        BY <1>1, <2>3, <2>4, <3>2, <4>1 DEF PinsInv, Kept, Applied
    <3> QED
      BY <3>1, <3>2
  <2> QED
    BY <2>5, <2>6, <2>7 DEF PinsInv
<1>7. CASE MarkCommitted(n)
  <2>1. UNCHANGED <<msgs, pins, current>> /\ \A p \in Peer : Applied(p)' => Applied(p)
    BY <1>0, <1>7 DEF MarkCommitted, SetStatus, Applied
  <2> QED
    BY <1>1, <2>1 DEF PinsInv, Pinned
<1>6. CASE SendOutcome(n)
  <2>1. UNCHANGED <<main, current, status, pins>> /\ main[n] = "spread"
    BY <1>6 DEF SendOutcome
  <2>2. PICK a \in todo[n] : msgs' \subseteq msgs \union
          {[type |-> Outcome(n), src |-> n, dst |-> a, tx |-> current[n]]}
    BY <1>6 DEF SendOutcome
  <2> DEFINE new == [type |-> Outcome(n), src |-> n, dst |-> a, tx |-> current[n]]
  <2>3. ASSUME NEW r \in Room, Carries(new, r) PROVE Pinned(r)
    <3>1. Outcome(n) = "tx_commit" /\ RoomOf[current[n]] = r
      BY <2>3 DEF Carries, Outcome
    <3>2. status[n][current[n]] = "committed"
      BY <3>1 DEF Outcome
    <3> QED
      BY <1>1, <2>1, <3>1, <3>2 DEF PinsInv, Applied
  <2> QED
    BY <1>1, <2>1, <2>2, <2>3 DEF PinsInv, Pinned, Applied
<1> QED
  BY <1>2, <1>3, <1>4, <1>5, <1>6, <1>7 DEF MainStep, UserStep

LEMMA PinsHandler ==
  ASSUME OneJoins, PinInv, SpreadInv, NEW n \in Peer, NEW m \in msgs, HandlerStep(n, m)
  PROVE  PinsInv'
<1>0. /\ main \in [Peer -> MainPC] /\ current \in [Peer -> Tx \union {NoTx}]
      /\ status \in [Peer -> [Tx -> {"none", "active", "committed", "aborted"}]]
      /\ pins \in [Peer -> [Room -> Tx \union {NoTx}]]
  BY DEF PinInv, TypeOK, Pins
<1>1. Kept /\ PinsInv
  BY KeptHandler DEF SpreadInv
<1>2. /\ m.type \in {"tx_commit", "tx_abort"} => m.tx \in Tx
      /\ m.type = "pin_sync" => m.pins \in [Room -> Tx \union {NoTx}]
  BY Fields DEF PinInv, Pins
<1>3. CASE HandleCommit(n, m)
  <2>1. /\ m.tx \in Tx /\ RoomOf[m.tx] \in Room /\ Carries(m, RoomOf[m.tx])
        /\ UNCHANGED <<main, current>> /\ msgs' \subseteq msgs
        /\ pins' = [pins EXCEPT ![n][RoomOf[m.tx]] = m.tx]
        /\ status' = [status EXCEPT ![n][m.tx] = "committed"]
    BY <1>2, <1>3 DEF HandleCommit, Apply, SetStatus, Carries
  <2>2. /\ pins'[n][RoomOf[m.tx]] # NoTx
        /\ \A p \in Peer, r \in Room : p # n \/ r # RoomOf[m.tx] => pins'[p][r] = pins[p][r]
    BY <1>0, <2>1
  <2>3. \A p \in Peer, r \in Room : pins'[p][r] # NoTx => Pinned(r)'
    BY <1>1, <2>1, <2>2, PinnedOn DEF PinsInv
  <2>4. \A k \in msgs', r \in Room : Carries(k, r) => Pinned(r)'
    BY <1>1, <2>1, PinnedOn DEF PinsInv
  <2>5. ASSUME NEW p \in Peer, Applied(p)'
        PROVE  pins'[p][RoomOf[current'[p]]] # NoTx
    <3>1. current[p] \in Tx /\ RoomOf[current[p]] \in Room
      BY <2>1, <2>5, Current DEF Committing, Applied
    <3>2. CASE p = n /\ current[p] = m.tx
      BY <2>1, <2>2, <3>2
    <3>3. CASE ~ (p = n /\ current[p] = m.tx)
      <4>1. Applied(p)
        BY <1>0, <2>1, <2>5, <3>1, <3>3 DEF Applied
      <4> QED
        BY <1>1, <2>1, <2>5, <3>1, <4>1 DEF PinsInv, Kept
    <3> QED
      BY <3>2, <3>3
  <2> QED
    BY <2>3, <2>4, <2>5 DEF PinsInv
<1>4. CASE HandlePinSync(n, m)
  <2>1. /\ UNCHANGED <<main, current, status>> /\ msgs' \subseteq msgs
        /\ \A p \in Peer : p # n => pins'[p] = pins[p]
        /\ \A r \in Room : pins'[n][r] = pins[n][r] \/ (Carries(m, r) /\ m.pins[r] # NoTx)
    BY <1>0, <1>2, <1>4 DEF HandlePinSync, Carries
  <2>2. \A p \in Peer, r \in Room : pins'[p][r] # NoTx => Pinned(r)'
    BY <1>1, <2>1, PinnedOn DEF PinsInv
  <2>3. \A k \in msgs', r \in Room : Carries(k, r) => Pinned(r)'
    BY <1>1, <2>1, PinnedOn DEF PinsInv
  <2>4. ASSUME NEW p \in Peer, Applied(p)'
        PROVE  pins'[p][RoomOf[current'[p]]] # NoTx
    <3>1. RoomOf[current[p]] \in Room
      BY <2>1, <2>4, Current DEF Committing, Applied
    <3> QED
      BY <1>1, <2>1, <2>4, <3>1 DEF PinsInv, Kept, Applied
  <2> QED
    BY <2>2, <2>3, <2>4 DEF PinsInv
<1>5. CASE HandleAbort(n, m)
  <2>1. /\ UNCHANGED <<main, current, pins>> /\ msgs' \subseteq msgs /\ m.tx \in Tx
        /\ status' = [status EXCEPT ![n][m.tx] = "aborted"]
    BY <1>2, <1>5 DEF HandleAbort, SetStatus
  <2>2. \A p \in Peer, x \in Tx : status'[p][x] = "committed" => status[p][x] = "committed"
    BY <1>0, <2>1
  <2>3. ASSUME NEW p \in Peer, Applied(p)'
        PROVE  pins'[p][RoomOf[current'[p]]] # NoTx
    <3>1. current[p] \in Tx
      BY <2>1, <2>3, Current DEF Committing, Applied
    <3> QED
      BY <1>1, <2>1, <2>2, <2>3, <3>1 DEF PinsInv, Applied
  <2> QED
    BY <1>1, <2>1, <2>3 DEF PinsInv, Pinned
<1>6. CASE HandlePing(n, m) \/ HandlePong(n, m)
  <2>1. /\ UNCHANGED <<current, pins, status>>
        /\ \A p \in Peer : Applied(p)' => Applied(p)
        /\ \A k \in msgs' : \/ k \in msgs \/ k.type \in {"ping", "pong"}
                            \/ k.type = "pin_sync" /\ k.pins = pins[n]
    BY <1>0, <1>6 DEF HandlePing, HandlePong, Takes, Goto, Answers, Ping,
       Applied
  <2>2. \A k \in msgs', r \in Room : Carries(k, r) => Pinned(r)
    BY <1>1, <2>1 DEF PinsInv, Carries
  <2> QED
    BY <1>1, <2>1, <2>2 DEF PinsInv, Pinned
<1> QED
  BY <1>3, <1>4, <1>5, <1>6 DEF HandlerStep

-----------------------------------------------------------------------------

\* PingsInv is kept.
LEMMA PingsMain ==
  ASSUME OneJoins, PinInv, SpreadInv, NEW n \in Peer,
         MainStep(n) \/ UserStep(n) \/ EnterCS(n) \/ Join(n)
  PROVE  PingsInv'
<1> USE DEF At
<1>0. Kept /\ PingsInv /\ Starters \subseteq up /\ up \subseteq Peer
  BY KeptMain DEF SpreadInv, PeersInv, PinInv, TypeOK
<1>1. CASE Join(n)
  <2>1. n \notin up /\ up' = up \union {n} /\ n \notin Starters /\ UNCHANGED <<neighbors, pinged>>
    BY <1>0, <1>1 DEF Join
  <2>2. PICK found \in (SUBSET up) \ {{}} : msgs' = msgs \union {Ping(n, a, a) : a \in found}
    BY <1>1 DEF Join
  <2>3. found \subseteq Starters
    BY <1>0, <2>1 DEF OneJoins
  <2>4. \A m \in msgs' : /\ m.src \in up' /\ m.dst \in up'
                         /\ m.type = "ping" => m.src \notin Starters /\ m.dst \in Starters
    BY <1>0, <2>1, <2>2, <2>3 DEF PingsInv, Ping
  <2>5. ASSUME NEW j \in up' \ Starters, NEW o \in Starters
        PROVE  (\E i \in Peer : <<j, i>> \in pinged'[o]) \/ PingComes(j, o)'
    <3>1. CASE j \in up
      BY <1>0, <2>1, <2>2, <3>1 DEF PingsInv, PingComes
    <3>2. CASE j = n
      <4>0. found # {}
        OBVIOUS
      <4>1. PICK a \in found : TRUE
        BY <4>0
      <4>2. <<n, a>> \notin pinged[o]
        BY <1>0, <2>1, <4>1 DEF PingsInv
      <4>3. Ping(n, a, a) \in msgs'
        BY <2>2, <4>1
      <4> QED
        BY <2>1, <3>2, <4>2, <4>3 DEF PingComes, Ping
    <3> QED
      BY <2>1, <3>1, <3>2
  <2>6. ASSUME NEW p \in Peer, NEW j \in Peer, NEW i \in Peer, <<j, i>> \in pinged'[p]
        PROVE  /\ j \in up' \ Starters /\ j \in neighbors'[p]
               /\ \A o \in Starters : <<j, i>> \in pinged'[o] \/ Ping(j, o, i) \in msgs'
    BY <1>0, <2>1, <2>2, <2>6 DEF PingsInv
  <2> QED
    BY <2>4, <2>5, <2>6 DEF PingsInv
<1>2. CASE ~ Join(n)
  <2>1. up' = up /\ pinged' = pinged /\ msgs \subseteq msgs'
    BY <1>2 DEF MainStep, UserStep, StartCommit, Validate, ApplyLocally, MarkCommitted, Broadcast,
       SendOutcome, Finish, RequestCS, Done, Pin, EnterCS
  <2>2. \A m \in msgs' : m \in msgs \/ (m.src = n /\ n \in up /\ m.dst \in up /\ m.type # "ping")
    <3>1. CASE SendOutcome(n)
      <4>1. PICK a \in todo[n] : msgs' \subseteq msgs \union
              {[type |-> Outcome(n), src |-> n, dst |-> a, tx |-> current[n]]}
        BY <3>1 DEF SendOutcome
      <4>2. n \in up /\ a \in up
        BY <3>1 DEF SendOutcome, SpreadInv, PeersInv
      <4> QED
        BY <4>1, <4>2 DEF Outcome
    <3>2. CASE ~ SendOutcome(n)
      BY <1>2, <3>2 DEF MainStep, UserStep, StartCommit, Validate, ApplyLocally, MarkCommitted,
         Broadcast, Finish, RequestCS, Done, Pin, EnterCS
    <3> QED
      BY <3>1, <3>2
  <2>3. ASSUME NEW p \in Peer, NEW j \in Peer, NEW i \in Peer, <<j, i>> \in pinged'[p]
        PROVE  /\ j \in up' \ Starters /\ j \in neighbors'[p]
               /\ \A o \in Starters : <<j, i>> \in pinged'[o] \/ Ping(j, o, i) \in msgs'
    BY <1>0, <2>1, <2>3 DEF PingsInv, Kept
  <2>4. ASSUME NEW q \in up' \ Starters, NEW o \in Starters
        PROVE  (\E i \in Peer : <<q, i>> \in pinged'[o]) \/ PingComes(q, o)'
    <3>1. (\E i \in Peer : <<q, i>> \in pinged[o]) \/ PingComes(q, o)
      BY <1>0, <2>1 DEF PingsInv
    <3>2. PingComes(q, o) => PingComes(q, o)'
      BY <2>1 DEF PingComes
    <3> QED
      BY <2>1, <3>1, <3>2
  <2>5. \A m \in msgs' : /\ m.src \in up' /\ m.dst \in up'
                         /\ m.type = "ping" => m.src \notin Starters /\ m.dst \in Starters
    BY <1>0, <2>1, <2>2 DEF PingsInv
  <2> QED
    BY <2>3, <2>4, <2>5 DEF PingsInv
<1> QED
  BY <1>1, <1>2

\* Of the messages a handler sends, and of what becomes of a ping.
LEMMA PingHandled ==
  ASSUME OneJoins, PinInv, SpreadInv, NEW n \in Peer, NEW m \in msgs, HandlePing(n, m)
  PROVE  /\ m.src \in up \ Starters /\ n \in Starters /\ m.id \in Peer
         /\ up' = up /\ msgs \ {m} \subseteq msgs' /\ m = Ping(m.src, n, m.id)
         /\ m.src \in neighbors'[n] /\ <<m.src, m.id>> \in pinged'[n]
         /\ \A p \in Peer : p # n => pinged'[p] = pinged[p]
         /\ \A x \in pinged'[n] : x \in pinged[n] \/ x = <<m.src, m.id>>
         /\ \A o \in Starters : <<m.src, m.id>> \in pinged'[o] \/ Ping(m.src, o, m.id) \in msgs'
         /\ \A k \in msgs' : \/ k \in msgs
                             \/ k.src = n /\ k.dst = m.src /\ k.type # "ping"
                             \/ \E o \in Starters : k = Ping(m.src, o, m.id)
<1> DEFINE x == <<m.src, m.id>>
<1>0. /\ m.type = "ping" /\ m.dst = n /\ m.src \in up \ Starters /\ n \in Starters /\ m.id \in Peer
      /\ m = Ping(m.src, n, m.id) /\ up \subseteq Peer
      /\ neighbors \in [Peer -> SUBSET Peer]
      /\ pinged \in [Peer -> SUBSET (Peer \X Peer)]
  BY Fields DEF HandlePing, SpreadInv, PingsInv, PinInv, TypeOK
<1>1. Kept /\ PingsInv /\ PeersInv
  BY KeptHandler DEF HandlerStep, SpreadInv
<1>2. CASE x \in pinged[n]
  <2>1. /\ msgs' = msgs \ {m} /\ UNCHANGED <<up, pinged>>
        /\ neighbors' = [neighbors EXCEPT ![n] = @ \union {m.src}]
    BY <1>2 DEF HandlePing
  <2>2. m.src \in neighbors'[n]
    BY <1>0, <2>1
  <2>3. \A o \in Starters : x \in pinged[o] \/ Ping(m.src, o, m.id) \in msgs
    BY <1>0, <1>1, <1>2 DEF PingsInv
  <2>4. ASSUME NEW o \in Starters, x \notin pinged[o] PROVE Ping(m.src, o, m.id) \in msgs'
    <3>1. o # n
      BY <1>2, <2>4
    <3>2. Ping(m.src, o, m.id) # m
      BY <1>0, <3>1 DEF Ping
    <3> QED
      BY <2>1, <2>3, <2>4, <3>2
  <2> QED
    BY <1>0, <1>2, <2>1, <2>2, <2>4
<1>3. CASE x \notin pinged[n]
  <2> DEFINE rest == neighbors[n] \ {m.src}
             out == (IF m.src \in up THEN Answers(n, m.src) ELSE {})
                      \union {Ping(m.src, a, m.id) : a \in rest \intersect up}
  <2>1. /\ pinged' = [pinged EXCEPT ![n] = @ \union {x}]
        /\ neighbors' = [neighbors EXCEPT ![n] = (@ \union {m.src}) \intersect up]
        /\ msgs' = (msgs \ {m}) \union out /\ up' = up
    BY <1>3 DEF HandlePing
  <2>2. m.src \in neighbors'[n]
    BY <1>0, <2>1
  <2>3. pinged'[n] = pinged[n] \union {x} /\ \A p \in Peer : p # n => pinged'[p] = pinged[p]
    BY <1>0, <2>1, Zenon
  <2>4. rest \intersect up \subseteq Starters
    BY <1>0 DEF OneJoins
  <2>5. Starters \ {n} \subseteq rest \intersect up
    BY <1>0, <1>1 DEF PeersInv
  <2>6. \A o \in Starters : x \in pinged'[o] \/ Ping(m.src, o, m.id) \in msgs'
    BY <2>1, <2>3, <2>5
  <2>7. \A k \in Answers(n, m.src) : k.src = n /\ k.dst = m.src /\ k.type # "ping"
    BY DEF Answers
  <2>8. \A k \in msgs' : \/ k \in msgs
                         \/ k.src = n /\ k.dst = m.src /\ k.type # "ping"
                         \/ \E o \in Starters : k = Ping(m.src, o, m.id)
    BY <2>1, <2>4, <2>7
  <2> QED
    BY <1>0, <2>1, <2>2, <2>3, <2>6, <2>8
<1> QED
  BY <1>2, <1>3

LEMMA PingsHandler ==
  ASSUME OneJoins, PinInv, SpreadInv, NEW n \in Peer, NEW m \in msgs, HandlerStep(n, m)
  PROVE  PingsInv'
<1>0. Kept /\ PingsInv /\ Starters \subseteq up /\ up \subseteq Peer
  BY KeptHandler DEF SpreadInv, PeersInv, PinInv, TypeOK
<1>1. CASE HandlePing(n, m)
  <2>1. /\ m.src \in up \ Starters /\ n \in Starters /\ m.id \in Peer
        /\ up' = up /\ msgs \ {m} \subseteq msgs'
    BY <1>1, PingHandled
  <2>2. m.src \in neighbors'[n] /\ <<m.src, m.id>> \in pinged'[n]
    BY <1>1, PingHandled
  <2>3. /\ \A p \in Peer : p # n => pinged'[p] = pinged[p]
        /\ \A x \in pinged'[n] : x \in pinged[n] \/ x = <<m.src, m.id>>
    BY <1>1, PingHandled
  <2>4. \A o \in Starters : <<m.src, m.id>> \in pinged'[o] \/ Ping(m.src, o, m.id) \in msgs'
    BY <1>1, PingHandled
  <2>5. ASSUME NEW k \in msgs'
        PROVE  /\ k.src \in up' /\ k.dst \in up'
               /\ k.type = "ping" => k.src \notin Starters /\ k.dst \in Starters
    <3>1. \/ k \in msgs
          \/ k.src = n /\ k.dst = m.src /\ k.type # "ping"
          \/ \E o \in Starters : k = Ping(m.src, o, m.id)
      BY <1>1, PingHandled
    <3>2. CASE k \in msgs
      BY <1>0, <2>1, <3>2 DEF PingsInv
    <3>3. CASE k.src = n /\ k.dst = m.src /\ k.type # "ping"
      BY <1>0, <2>1, <3>3
    <3>4. CASE \E o \in Starters : k = Ping(m.src, o, m.id)
      BY <1>0, <2>1, <3>4 DEF Ping
    <3> QED
      BY <3>1, <3>2, <3>3, <3>4
  <2>6. ASSUME NEW p \in Peer, NEW q \in Peer, NEW i \in Peer, <<q, i>> \in pinged'[p]
        PROVE  /\ q \in up' \ Starters /\ q \in neighbors'[p]
               /\ \A o \in Starters : <<q, i>> \in pinged'[o] \/ Ping(q, o, i) \in msgs'
    <3>1. CASE <<q, i>> \in pinged[p]
      <4>1. /\ q \in up \ Starters /\ q \in neighbors[p]
            /\ \A o \in Starters : <<q, i>> \in pinged[o] \/ Ping(q, o, i) \in msgs
        BY <1>0, <3>1 DEF PingsInv
      <4>2. ASSUME NEW o \in Starters
            PROVE  <<q, i>> \in pinged'[o] \/ Ping(q, o, i) \in msgs'
        <5>1. CASE <<q, i>> \in pinged[o]
          BY <1>0, <5>1 DEF Kept
        <5>2. CASE Ping(q, o, i) \in msgs /\ Ping(q, o, i) # m
          BY <2>1, <5>2
        <5>3. CASE Ping(q, o, i) = m
          <6>1. q = m.src /\ i = m.id
            BY <5>3 DEF Ping
          <6> QED
            BY <2>4, <6>1
        <5> QED
          BY <4>1, <5>1, <5>2, <5>3
      <4> QED
        BY <1>0, <2>1, <4>1, <4>2 DEF Kept
    <3>2. CASE <<q, i>> \notin pinged[p]
      <4>1. p = n /\ <<q, i>> = <<m.src, m.id>>
        BY <2>3, <2>6, <3>2
      <4>2. q = m.src /\ i = m.id
        BY <4>1
      <4> QED
        BY <2>1, <2>2, <2>4, <4>1, <4>2
    <3> QED
      BY <3>1, <3>2
  <2>7. ASSUME NEW q \in up' \ Starters, NEW o \in Starters
        PROVE  (\E i \in Peer : <<q, i>> \in pinged'[o]) \/ PingComes(q, o)'
    <3>1. CASE \E i \in Peer : <<q, i>> \in pinged[o]
      BY <1>0, <3>1 DEF Kept
    <3>2. ASSUME PingComes(q, o)
          PROVE  (\E i \in Peer : <<q, i>> \in pinged'[o]) \/ PingComes(q, o)'
      <4>1. PICK k \in msgs : k.type = "ping" /\ k.src = q /\ <<q, k.id>> \notin pinged[o]
        BY <3>2 DEF PingComes
      <4>2. k.id \in Peer
        BY <4>1, Fields DEF PinInv
      <4>3. CASE k = m
        <5>1. <<q, k.id>> \in pinged'[o] \/ Ping(q, o, k.id) \in msgs'
          BY <2>4, <4>1, <4>3
        <5>2. CASE Ping(q, o, k.id) \in msgs' /\ <<q, k.id>> \notin pinged'[o]
          BY <5>2 DEF PingComes, Ping
        <5> QED
          BY <4>2, <5>1, <5>2
      <4>4. CASE k # m
        <5>1. k \in msgs'
          BY <2>1, <4>4
        <5> QED
          BY <4>1, <4>2, <5>1 DEF PingComes
      <4> QED
        BY <4>3, <4>4
    <3>3. q \in up
      BY <2>1
    <3> QED
      BY <1>0, <3>1, <3>2, <3>3 DEF PingsInv
  <2> QED
    BY <2>5, <2>6, <2>7 DEF PingsInv
<1>2. CASE ~ HandlePing(n, m)
  <2>1. UNCHANGED <<up, pinged>> /\ msgs' = msgs \ {m} /\ m.type # "ping"
    BY <1>2 DEF HandlerStep, HandleCommit, HandleAbort, HandlePong, HandlePinSync, Takes
  <2>2. \A q, o, i \in Peer : Ping(q, o, i) # m
    BY <2>1 DEF Ping
  <2>3. ASSUME NEW p \in Peer, NEW j \in Peer, NEW i \in Peer, <<j, i>> \in pinged'[p]
        PROVE  /\ j \in up' \ Starters /\ j \in neighbors'[p]
               /\ \A o \in Starters : <<j, i>> \in pinged'[o] \/ Ping(j, o, i) \in msgs'
    BY <1>0, <2>1, <2>2, <2>3 DEF PingsInv, Kept
  <2>4. ASSUME NEW q \in up' \ Starters, NEW o \in Starters
        PROVE  (\E i \in Peer : <<q, i>> \in pinged'[o]) \/ PingComes(q, o)'
    <3>1. (\E i \in Peer : <<q, i>> \in pinged[o]) \/ PingComes(q, o)
      BY <1>0, <2>1 DEF PingsInv
    <3>2. PingComes(q, o) => PingComes(q, o)'
      BY <2>1 DEF PingComes
    <3> QED
      BY <2>1, <3>1, <3>2
  <2> QED
    BY <1>0, <2>1, <2>3, <2>4 DEF PingsInv
<1> QED
  BY <1>1, <1>2

-----------------------------------------------------------------------------

\* Who has a pin keeps it.
LEMMA CoveredKept ==
  ASSUME Kept, NEW n \in Peer, NEW r \in Room, Covered(n, r)
  PROVE  Covered(n, r)'
BY DEF Kept, Covered

\* A starter pins a room nobody has pinned before only by applying its own transaction.
LEMMA NewlyPinned ==
  ASSUME OneJoins, PinInv, SpreadInv, [Next]_vars, Gone' = {},
         NEW r \in Room, Pinned(r)', ~ Pinned(r)
  PROVE  \E b \in Starters : ApplyLocally(b) /\ RoomOf[current[b]] = r
<1>0. pins \in [Peer -> [Room -> Tx \union {NoTx}]]
  BY DEF PinInv, TypeOK, Pins
<1>1. PICK o \in Starters : pins'[o][r] # NoTx
  BY DEF Pinned
<1>2. pins[o][r] = NoTx /\ pins' # pins
  BY <1>1 DEF Pinned
<1>3. ASSUME NEW n \in Peer, NEW m \in msgs, HandlerStep(n, m) PROVE FALSE
  <2>1. ~ Carries(m, r)
    BY DEF SpreadInv, PinsInv
  <2>2. /\ m.type \in {"tx_commit", "tx_abort"} => m.tx \in Tx
        /\ m.type = "pin_sync" => m.pins \in [Room -> Tx \union {NoTx}]
    BY Fields DEF PinInv, Pins
  <2>3. CASE HandleCommit(n, m)
    BY <1>0, <1>1, <1>2, <2>1, <2>2, <2>3 DEF HandleCommit, Apply, Carries
  <2>4. CASE HandlePinSync(n, m)
    BY <1>0, <1>1, <1>2, <2>1, <2>2, <2>4 DEF HandlePinSync, Carries
  <2> QED
    BY <1>2, <1>3, <2>3, <2>4 DEF HandlerStep, HandleAbort, HandlePing, HandlePong
<1>4. PICK n \in Peer : MainStep(n) \/ UserStep(n) \/ EnterCS(n) \/ Join(n)
  BY <1>2, <1>3, NobodyExits DEF Next, vars, PinInv
<1>5. ApplyLocally(n)
  BY <1>2, <1>4 DEF MainStep, UserStep, StartCommit, Validate, MarkCommitted, Broadcast,
     SendOutcome, Finish, RequestCS, Done, Pin, EnterCS, Join
<1>6. n \in Starters
  BY <1>5 DEF ApplyLocally, At, SpreadInv, PeersInv, Committing, OneJoins
<1>7. RoomOf[current[n]] = r
  <2>1. current[n] \in Tx /\ RoomOf[current[n]] \in Room
    BY <1>5, Current DEF ApplyLocally, At, Committing
  <2> QED
    BY <1>0, <1>1, <1>2, <1>5, <2>1 DEF ApplyLocally, Apply
<1> QED
  BY <1>5, <1>6, <1>7

\* The answer to a ping brings every pin.
LEMMA DueKept ==
  ASSUME OneJoins, PinInv, SpreadInv, [Next]_vars, Gone' = {},
         NEW n \in Peer, NEW r \in Room, Due(n, r)
  PROVE  Covered(n, r)' \/ Due(n, r)'
<1>0. Kept
  BY KeptStep
<1>1. PICK o \in Starters : pins[o][r] # NoTx /\ PingComes(n, o)
  BY DEF Due
<1>2. PICK k \in msgs : k.type = "ping" /\ k.src = n /\ <<n, k.id>> \notin pinged[o]
  BY <1>1 DEF PingComes
<1>3. pins'[o][r] # NoTx
  BY <1>0, <1>1 DEF Kept
<1>4. ASSUME NEW h \in Peer, NEW m \in msgs, HandlePing(h, m)
      PROVE  Covered(n, r)' \/ Due(n, r)'
  <2>1. CASE h = o /\ m.src = n /\ <<n, m.id>> \notin pinged[o]
    <3>1. /\ msgs' = (msgs \ {m}) \union
               ((IF n \in up THEN Answers(o, n) ELSE {})
                  \union {Ping(n, a, m.id) : a \in (neighbors[o] \ {n}) \intersect up})
          /\ n \in up
      BY <1>4, <2>1, PingHandled DEF HandlePing
    <3>2. pins[o] # NoPins
      BY <1>1 DEF NoPins
    <3> DEFINE sync == [type |-> "pin_sync", src |-> o, dst |-> n, pins |-> pins[o]]
    <3>3. sync \in Answers(o, n)
      BY <3>2 DEF Answers
    <3>4. sync \in msgs' /\ sync.dst = n /\ Carries(sync, r)
      BY <1>1, <3>1, <3>3 DEF Carries
    <3> QED
      BY <3>4 DEF Covered, OnWay
  <2>2. CASE ~ (h = o /\ m.src = n /\ <<n, m.id>> \notin pinged[o])
    <3>0. /\ msgs \ {m} \subseteq msgs'
          /\ \A p \in Peer : p # h => pinged'[p] = pinged[p]
          /\ \A x \in pinged'[h] : x \in pinged[h] \/ x = <<m.src, m.id>>
      BY <1>4, PingHandled
    <3>1. <<n, k.id>> \notin pinged'[o]
      BY <1>2, <2>2, <3>0
    <3>2. CASE k # m
      <4>1. k \in msgs'
        BY <3>0, <3>2
      <4> QED
        BY <1>2, <1>3, <3>1, <4>1 DEF Due, PingComes
    <3>3. CASE k = m
      <4>1. Ping(n, o, k.id) \in msgs'
        BY <1>2, <1>4, <3>1, <3>3, PingHandled
      <4>2. PingComes(n, o)'
        BY <3>1, <4>1 DEF PingComes, Ping
      <4> QED
        BY <1>3, <4>2 DEF Due
    <3> QED
      BY <3>2, <3>3
  <2> QED
    BY <2>1, <2>2
<1>5. CASE \A h \in Peer, m \in msgs : ~ HandlePing(h, m)
  <2>1. pinged' = pinged /\ k \in msgs'
    <3>1. CASE UNCHANGED vars
      BY <3>1 DEF vars
    <3>2. ASSUME NEW h \in Peer, MainStep(h) \/ UserStep(h) \/ EnterCS(h) \/ Join(h)
          PROVE  pinged' = pinged /\ k \in msgs'
      BY <3>2 DEF MainStep, UserStep, StartCommit, Validate, ApplyLocally, MarkCommitted,
         Broadcast, SendOutcome, Finish, RequestCS, Done, Pin, EnterCS, Join
    <3>3. ASSUME NEW h \in Peer, NEW m \in msgs, HandlerStep(h, m)
          PROVE  pinged' = pinged /\ k \in msgs'
      BY <1>2, <1>5, <3>3 DEF HandlerStep, HandleCommit, HandleAbort, HandlePong, HandlePinSync, Takes
    <3> QED
      BY <3>1, <3>2, <3>3, NobodyExits DEF Next, PinInv
  <2> QED
    BY <1>2, <1>3, <2>1 DEF Due, PingComes
<1> QED
  BY <1>4, <1>5

\* CoverInv is kept: by DueKept, CoveredKept and, for a new pin, NewlyPinned.
LEMMA CoverStep ==
  ASSUME OneJoins, PinInv, SpreadInv, [Next]_vars, Gone' = {}, PingsInv', PeersInv'
  PROVE  CoverInv'
<1>0. Kept /\ up \subseteq Peer /\ up' \subseteq Peer
  BY KeptStep, TypeStep DEF PinInv, TypeOK
<1> SUFFICES ASSUME NEW r \in Room, Pinned(r)'
             PROVE  /\ \A n \in Starters : Covered(n, r)'
                    /\ \A n \in up' \ Starters : Covered(n, r)' \/ Due(n, r)'
  BY DEF CoverInv
<1>1. CASE ~ Pinned(r)
  <2>1. PICK b \in Starters : ApplyLocally(b) /\ RoomOf[current[b]] = r
    BY <1>1, NewlyPinned
  <2>2. current[b] \in Tx /\ current[b] # NoTx
    BY <2>1, Current DEF ApplyLocally, At, Committing
  <2>3. /\ main'[b] = "mark" /\ current' = current /\ UNCHANGED <<neighbors, up, msgs, pinged>>
        /\ pins'[b][r] # NoTx
    BY <2>1, <2>2 DEF ApplyLocally, Goto, Apply, PinInv, TypeOK, Pins
  <2>4. \A n \in neighbors[b] : ToSend(b, n, r)'
    BY <2>1, <2>2, <2>3 DEF ToSend
  <2>5. \A n \in Starters : Covered(n, r)'
    BY <2>3, <2>4 DEF Covered, SpreadInv, PeersInv
  <2>6. ASSUME NEW n \in up' \ Starters PROVE Covered(n, r)' \/ Due(n, r)'
    <3>1. CASE n \in neighbors[b]
      BY <2>4, <3>1 DEF Covered
    <3>2. CASE n \notin neighbors[b]
      <4>1. \A i \in Peer : <<n, i>> \notin pinged[b]
        BY <1>0, <3>2 DEF SpreadInv, PingsInv
      <4>2. PingComes(n, b)'
        BY <2>3, <4>1 DEF PingsInv
      <4> QED
        BY <2>3, <4>2 DEF Due
    <3> QED
      BY <3>1, <3>2
  <2> QED
    BY <2>5, <2>6
<1>2. CASE Pinned(r)
  <2>1. \A n \in Starters : Covered(n, r)'
    BY <1>0, <1>2, CoveredKept DEF SpreadInv, CoverInv
  <2>2. ASSUME NEW n \in up \ Starters PROVE Covered(n, r)' \/ Due(n, r)'
    <3>1. Covered(n, r) \/ Due(n, r)
      BY <1>2 DEF SpreadInv, CoverInv
    <3> QED
      BY <1>0, <3>1, CoveredKept, DueKept
  <2>3. ASSUME NEW n \in up' \ Starters, n \notin up PROVE Due(n, r)'
    <3>1. \A o \in Starters, i \in Peer : <<n, i>> \notin pinged[o]
      BY <1>0, <2>3 DEF SpreadInv, PingsInv
    <3>2. UNCHANGED pinged
      <4>1. ASSUME NEW h \in Peer, MainStep(h) \/ UserStep(h) \/ EnterCS(h)
            PROVE  up' = up
        BY <4>1 DEF MainStep, UserStep, StartCommit, Validate, ApplyLocally, MarkCommitted,
           Broadcast, SendOutcome, Finish, RequestCS, Done, Pin, EnterCS
      <4>2. ASSUME NEW h \in Peer, NEW m \in msgs, HandlerStep(h, m) PROVE up' = up
        BY <4>2 DEF HandlerStep, HandleCommit, HandleAbort, HandlePing, HandlePong, HandlePinSync
      <4>3. \E h \in Peer : Join(h)
        BY <2>3, <4>1, <4>2, NobodyExits DEF Next, vars, PinInv
      <4> QED
        BY <4>3 DEF Join
    <3>3. \A o \in Starters : PingComes(n, o)'
      BY <2>3, <3>1, <3>2 DEF PingsInv
    <3>4. PICK o \in Starters : pins'[o][r] # NoTx
      BY DEF Pinned
    <3> QED
      BY <3>3, <3>4 DEF Due
  <2> QED
    BY <2>1, <2>2, <2>3
<1> QED
  BY <1>1, <1>2

-----------------------------------------------------------------------------

LEMMA SpreadInit == Init => SpreadInv
<1> SUFFICES ASSUME Init PROVE SpreadInv
  OBVIOUS
<1> USE DEF Init
<1>1. PeersInv
  BY DEF PeersInv, Committing, Section!Init
<1>2. PinsInv
  BY DEF PinsInv, NoPins, Applied
<1>3. PingsInv
  BY DEF PingsInv
<1>4. CoverInv
  BY DEF CoverInv, Pinned, NoPins
<1> QED
  BY <1>1, <1>2, <1>3, <1>4 DEF SpreadInv

LEMMA SpreadStep ==
  ASSUME OneJoins, PinInv, SpreadInv, [Next]_vars, Gone' = {}
  PROVE  SpreadInv'
<1>1. CASE UNCHANGED vars
  <2>1. PeersInv' /\ PinsInv'
    BY <1>1 DEF vars, SpreadInv, PeersInv, PinsInv, Pinned, Committing, Applied
  <2>2. PingsInv'
    BY <1>1 DEF vars, SpreadInv, PingsInv, PingComes
  <2> QED
    BY <2>1, <2>2, CoverStep DEF SpreadInv
<1>2. CASE Next
  <2>1. PeersInv' /\ PinsInv' /\ PingsInv'
    BY <1>2, NobodyExits, PeersMain, PeersHandler, PinsMain, PinsHandler, PingsMain, PingsHandler
    DEF Next, PinInv
  <2> QED
    BY <2>1, CoverStep DEF SpreadInv
<1> QED
  BY <1>1, <1>2

\* While nobody has exited and if the one process that joins pins nothing itself, a pin that
\* one peer has and another lacks is on its way to it, however messages overtake each other.
THEOREM PinsReachAll == OneJoins /\ Spec => []NoPinLost
<1> SUFFICES ASSUME OneJoins PROVE Spec => []NoPinLost
  OBVIOUS
<1> DEFINE IInv == PinInv /\ (Gone = {} => SpreadInv)
<1>1. Init => IInv
  BY PinInit, SpreadInit
<1>2. IInv /\ [Next]_vars => IInv'
  <2> SUFFICES ASSUME IInv, [Next]_vars PROVE IInv'
    OBVIOUS
  <2>1. ASSUME Gone' = {} PROVE SpreadInv'
    BY <2>1, NobodyGone, SpreadStep DEF PinInv
  <2> QED
    BY <2>1, PinStep
<1>3. IInv => NoPinLost
  <2> SUFFICES ASSUME PinInv, SpreadInv PROVE NoPinLost
    BY DEF NoPinLost
  <2> SUFFICES ASSUME NEW q \in up, NEW n \in up, NEW r \in Room,
                      pins[q][r] # NoTx, pins[n][r] = NoTx
               PROVE  \/ OnWay(n, r)
                      \/ \E o \in up : ToSend(o, n, r)
                      \/ \E o \in up : pins[o][r] # NoTx /\ PingComes(n, o)
    BY DEF NoPinLost
  <2>1. Starters \subseteq up /\ q \in Peer
    BY DEF SpreadInv, PeersInv, PinInv, TypeOK
  <2>2. Pinned(r)
    BY <2>1 DEF SpreadInv, PinsInv
  <2>3. Covered(n, r) \/ Due(n, r)
    BY <2>2 DEF SpreadInv, CoverInv
  <2> QED
    BY <2>1, <2>3 DEF Covered, Due
<1> QED
  BY <1>1, <1>2, <1>3, PTL DEF Spec
=============================================================================
