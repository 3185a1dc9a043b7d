--------------------------- MODULE OldRoomsProofs ---------------------------
(* Theorems about OldRooms, for any clients, names, rooms and lines: the    *)
(* member lists are right, and the pipeline implements RoomLog.             *)
EXTENDS OldRooms, SequenceTheorems, TLAPS

-----------------------------------------------------------------------------
(* Types, and what is known of the room a client is about. *)

InRoom == {"join", "chat", "bye", "over", "quit"}
OnRoom == {"join_room", "send_message", "goodbye", "remove_user"}

\* A client is only ever in a room that exists, and rooms that do not have no members.
Existing ==
  /\ \A c \in Client :
       /\ current[c] \subseteq rooms
       /\ main[c] \in InRoom \/ call[c] \in OnRoom => chatroom[c] \in rooms
       /\ call[c] = "create_room" => chatroom[c] \in Room
  /\ \A r \in Room \ rooms, u \in User : members[r][u] = 0

\* Which call a client may be waiting for.  A process that has ended may have left one
\* behind only if its user pressed Ctrl-C.
CallOf(pc) ==
  CASE pc = "choose" -> {"all_rooms"} [] pc = "pick" -> {"create_room"}
    [] pc = "join" -> {"join_room"} [] pc = "chat" -> {"send_message", "remove_user"}
    [] pc = "bye" -> {"goodbye"} [] pc = "quit" -> {"remove_user"} [] OTHER -> {}
Waiting ==
  \A c \in Client :
    /\ \/ call[c] \in CallOf(main[c]) \union {"none"}
       \/ main[c] = "dead" /\ c \in Quitters
    /\ main[c] = "quit" => c \in Quitters

LEMMA LineType ==
  ASSUME NEW r \in Room, NEW c \in Client, NEW k \in 0 .. MaxLines[c]
  PROVE  [room |-> r, from |-> c, no |-> k] \in Line
BY DEF Line

LEMMA InitInv == OldRoomsAssumption /\ Init => TypeOK /\ Existing /\ Waiting
<1> SUFFICES ASSUME OldRoomsAssumption, Init PROVE TypeOK /\ Existing /\ Waiting
  OBVIOUS
<1>1. TypeOK
  BY EmptySeq DEF Init, TypeOK, OldRoomsAssumption, Places
<1>2. Existing
  BY DEF Init, Existing, InRoom, OnRoom
<1>3. Waiting
  BY DEF Init, Waiting
<1> QED
  BY <1>1, <1>2, <1>3

\* What the death of a process leaves of its sockets.
LEMMA DiesTypes ==
  ASSUME TypeOK, NEW c \in Client, Dies(c)
  PROVE  /\ main' \in [Client -> Places]
         /\ sub' \in [Client -> {"none", "connecting", "on"}]
         /\ inbox' \in [Client -> Seq(Line)] /\ shown' \in [Client -> Seq(Line)]
BY EmptySeq DEF TypeOK, Dies, Places

LEMMA ResumesTypes ==
  ASSUME TypeOK, NEW c \in Client, NEW pc \in Places, Resumes(c, pc)
  PROVE  /\ main' \in [Client -> Places]
         /\ sub' \in [Client -> {"none", "connecting", "on"}]
         /\ inbox' \in [Client -> Seq(Line)] /\ shown' \in [Client -> Seq(Line)]
BY DEF TypeOK, Resumes, socket

LEMMA MainTypes ==
  ASSUME OldRoomsAssumption, TypeOK, Existing, NEW c \in Client,
         MainStep(c) \/ Interrupt(c)
  PROVE  TypeOK'
<1>1. CASE AskRooms(c)
  BY <1>1 DEF AskRooms, Call, server, socket, TypeOK, Procedures
<1>2. ASSUME NEW r \in Typed[c], Create(c, r) PROVE TypeOK'
  <2>1. r \in Room
    BY DEF OldRoomsAssumption
  <2> QED
    BY <1>2, <2>1 DEF Create, Call, server, socket, TypeOK, Procedures
<1>3. ASSUME NEW r \in Typed[c], Pick(c, r) PROVE TypeOK'
  <2>1. r \in Room
    BY DEF OldRoomsAssumption
  <2>2. main' \in [Client -> Places] /\ chatroom' \in [Client -> Room \union {NoRoom}]
    <3>1. CASE r \in current[c]
      <4>1. /\ chatroom' = [chatroom EXCEPT ![c] = r]
            /\ main' = [main EXCEPT ![c] = "join"]
        BY <1>3, <3>1 DEF Pick
      <4> QED
        BY <2>1, <4>1 DEF TypeOK, Places
    <3>2. CASE r \notin current[c]
      BY <1>3, <3>2 DEF Pick, TypeOK, Places
    <3> QED
      BY <3>1, <3>2
  <2> QED
    BY <1>3, <2>2 DEF Pick, server, socket, TypeOK
<1>4. CASE Join(c)
  BY <1>4 DEF Join, Call, server, socket, TypeOK, Procedures
<1>5. CASE Say(c)
  <2>1. lines[c] + 1 \in Nat /\ lines[c] + 1 <= MaxLines[c]
    BY <1>5 DEF Say, TypeOK, OldRoomsAssumption
  <2>2. /\ lines' \in [Client -> Nat]
        /\ \A d \in Client : lines'[d] <= MaxLines[d]
    BY <1>5, <2>1 DEF Say, TypeOK
  <2> QED
    BY <1>5, <2>2 DEF Say, Call, server, socket, TypeOK, Procedures
<1>6. CASE Exit(c)
  BY <1>6 DEF Exit, Call, server, socket, TypeOK, Procedures
<1>7. CASE Goodbye(c)
  BY <1>7 DEF Goodbye, Call, server, socket, TypeOK, Procedures
<1>8. CASE End(c)
  BY <1>8, DiesTypes DEF End, server, TypeOK
<1>9. CASE Interrupt(c)
  <2>1. CASE Dies(c) /\ UNCHANGED call
    BY <1>9, <2>1, DiesTypes DEF Interrupt, server, TypeOK
  <2>2. CASE /\ main' = [main EXCEPT ![c] = "quit"]
             /\ Call(c, "remove_user") /\ UNCHANGED socket
    BY <1>9, <2>2 DEF Interrupt, Call, server, socket, TypeOK, Procedures, Places
  <2> QED
    BY <1>9, <2>1, <2>2 DEF Interrupt
<1> QED
  BY <1>1, <1>2, <1>3, <1>4, <1>5, <1>6, <1>7, <1>8, <1>9 DEF MainStep

LEMMA ServeTypes ==
  ASSUME OldRoomsAssumption, TypeOK, Existing, NEW c \in Client, Serve(c)
  PROVE  TypeOK'
<1>0. /\ call' \in [Client -> Procedures \union {"none"}]
      /\ UNCHANGED <<lines, chatroom, published>>
  BY DEF Serve, all_rooms, create_room, join_room, send_message, remove_user, Serves,
         TypeOK
<1>1. CASE all_rooms(c)
  BY <1>0, <1>1, ResumesTypes DEF all_rooms, server, TypeOK, Places
<1>2. CASE create_room(c)
  <2>1. chatroom[c] \in Room
    BY <1>2 DEF create_room, Serves, Existing
  <2>2. CASE chatroom[c] \in rooms
    BY <1>0, <1>2, <2>2, DiesTypes DEF create_room, Faults, server, TypeOK
  <2>3. CASE chatroom[c] \notin rooms
    <3>1. /\ rooms' = rooms \union {chatroom[c]}
          /\ members' = [members EXCEPT ![chatroom[c]] = [u \in User |-> 0]]
          /\ Resumes(c, "join") /\ UNCHANGED <<current, pushed>>
      BY <1>2, <2>3 DEF create_room
    <3>2. rooms' \subseteq Room /\ members' \in [Room -> [User -> Nat]]
      BY <3>1, <2>1 DEF TypeOK
    <3> QED
      BY <1>0, <3>1, <3>2, ResumesTypes DEF TypeOK, Places
  <2> QED
    BY <2>2, <2>3
<1>3. CASE join_room(c)
  <2> DEFINE r == chatroom[c]
             u == NameOf[c]
  <2>1. r \in Room /\ u \in User
    BY <1>3 DEF join_room, Serves, Existing, OnRoom, TypeOK, OldRoomsAssumption
  <2>2. CASE Listed(r, u)
    BY <1>0, <1>3, <2>2, DiesTypes DEF join_room, Faults, TypeOK
  <2>3. CASE ~Listed(r, u)
    <3>1. /\ members' = [members EXCEPT ![r][u] = @ + 1]
          /\ main' = [main EXCEPT ![c] = IF @ = "dead" THEN @ ELSE "chat"]
          /\ sub' = [sub EXCEPT ![c] = IF main[c] = "dead" THEN @ ELSE "connecting"]
          /\ UNCHANGED <<inbox, shown, rooms, current, pushed>>
      BY <1>3, <2>3 DEF join_room
    <3>2. members' \in [Room -> [User -> Nat]]
      BY <3>1, <2>1 DEF TypeOK
    <3>3. main' \in [Client -> Places] /\ sub' \in [Client -> {"none", "connecting", "on"}]
      BY <3>1 DEF TypeOK, Places
    <3> QED
      BY <1>0, <3>1, <3>2, <3>3 DEF TypeOK
  <2> QED
    BY <2>2, <2>3
<1>4. CASE send_message(c)
  <2> DEFINE k == IF call[c] = "goodbye" THEN 0 ELSE lines[c]
             l == [room |-> chatroom[c], from |-> c, no |-> k]
  <2>1. chatroom[c] \in Room
    BY <1>4 DEF send_message, Serves, Existing, OnRoom, TypeOK
  <2>2. k \in 0 .. MaxLines[c]
    BY DEF TypeOK, OldRoomsAssumption
  <2>3. l \in Line
    BY <2>1, <2>2, LineType
  <2>4. pushed' \in Seq(Line)
    BY <1>4, <2>3, AppendProperties DEF send_message, TypeOK
  <2>5. PICK pc \in Places : Resumes(c, pc)
    BY <1>4 DEF send_message, Places
  <2> QED
    BY <1>0, <1>4, <2>4, <2>5, ResumesTypes DEF send_message, server, TypeOK
<1>5. CASE remove_user(c)
  <2> DEFINE r == chatroom[c]
             u == NameOf[c]
  <2>1. r \in Room /\ u \in User
    BY <1>5 DEF remove_user, Serves, Existing, OnRoom, TypeOK, OldRoomsAssumption
  <2>2. CASE ~Listed(r, u)
    BY <1>0, <1>5, <2>2, DiesTypes DEF remove_user, Faults, TypeOK
  <2>3. CASE Listed(r, u)
    <3>1. /\ members' = [members EXCEPT ![r][u] = @ - 1]
          /\ IF main[c] = "chat" THEN Resumes(c, "bye") ELSE Dies(c)
          /\ UNCHANGED <<rooms, current, pushed>>
      BY <1>5, <2>3 DEF remove_user
    <3>2. members' \in [Room -> [User -> Nat]]
      BY <3>1, <2>1, <2>3 DEF TypeOK, Listed
    <3> QED
      BY <1>0, <3>1, <3>2, DiesTypes, ResumesTypes DEF TypeOK, Places
  <2> QED
    BY <2>2, <2>3
<1> QED
  BY <1>1, <1>2, <1>3, <1>4, <1>5 DEF Serve

LEMMA PublishTypes ==
  ASSUME TypeOK, Publish
  PROVE  TypeOK'
<1>1. Head(pushed) \in Line /\ pushed' \in Seq(Line)
  BY HeadTailProperties DEF Publish, TypeOK
<1>2. published' \in Seq(Line)
  BY <1>1, AppendProperties DEF Publish, TypeOK
<1>3. \A c \in Client : Append(inbox[c], Head(pushed)) \in Seq(Line)
  BY <1>1, AppendProperties DEF TypeOK
<1> QED
  BY <1>1, <1>2, <1>3 DEF Publish, server, TypeOK

LEMMA ListensTypes ==
  ASSUME TypeOK, NEW c \in Client, Listens(c)
  PROVE  TypeOK'
<1>1. CASE Subscribe(c)
  BY <1>1 DEF Subscribe, server, TypeOK
<1>2. CASE Display(c)
  <2>1. Head(inbox[c]) \in Line /\ Tail(inbox[c]) \in Seq(Line)
    BY <1>2, HeadTailProperties DEF Display, TypeOK
  <2>2. Append(shown[c], Head(inbox[c])) \in Seq(Line)
    BY <2>1, AppendProperties DEF TypeOK
  <2>3. inbox' \in [Client -> Seq(Line)] /\ shown' \in [Client -> Seq(Line)]
    BY <1>2, <2>1, <2>2 DEF Display, TypeOK
  <2> QED
    BY <1>2, <2>3 DEF Display, server, TypeOK
<1> QED
  BY <1>1, <1>2 DEF Listens

LEMMA TypeStep ==
  OldRoomsAssumption /\ TypeOK /\ Existing /\ [Next]_vars => TypeOK'
<1>1. TypeOK /\ UNCHANGED vars => TypeOK'
  BY DEF TypeOK, vars
<1> QED
  BY <1>1, MainTypes, ServeTypes, PublishTypes, ListensTypes DEF Next

-----------------------------------------------------------------------------
(* Rooms exist, and calls match places. *)

LEMMA ExistingMain ==
  ASSUME OldRoomsAssumption, TypeOK, Existing, NEW c \in Client,
         MainStep(c) \/ Interrupt(c)
  PROVE  Existing'
<1> USE DEF Existing, InRoom, OnRoom, TypeOK
<1>1. CASE AskRooms(c)
  BY <1>1 DEF AskRooms, At, Call, server, socket
<1>2. ASSUME NEW r \in Typed[c], Create(c, r) PROVE Existing'
  <2>1. r \in Room
    BY DEF OldRoomsAssumption
  <2> QED
    BY <1>2, <2>1 DEF Create, At, Call, server, socket
<1>3. ASSUME NEW r \in Typed[c], Pick(c, r) PROVE Existing'
  <2>1. CASE r \in current[c]
    <3>1. /\ chatroom' = [chatroom EXCEPT ![c] = r]
          /\ main' = [main EXCEPT ![c] = "join"]
          /\ call[c] = "none" /\ UNCHANGED <<rooms, members, current, call>>
      BY <1>3, <2>1 DEF Pick, At, server
    <3> QED
      BY <2>1, <3>1
  <2>2. CASE r \notin current[c]
    BY <1>3, <2>2 DEF Pick, At, server, socket
  <2> QED
    BY <2>1, <2>2
<1>4. CASE Join(c)
  BY <1>4 DEF Join, At, Call, server, socket
<1>5. CASE Say(c)
  BY <1>5 DEF Say, At, Call, server, socket
<1>6. CASE Exit(c)
  BY <1>6 DEF Exit, At, Call, server, socket
<1>7. CASE Goodbye(c)
  BY <1>7 DEF Goodbye, At, Call, server, socket
<1>8. CASE End(c)
  BY <1>8 DEF End, At, Dies, server
<1>9. CASE Interrupt(c)
  <2>1. CASE Dies(c) /\ UNCHANGED call
    BY <1>9, <2>1 DEF Interrupt, Dies, server
  <2>2. CASE ~(Dies(c) /\ UNCHANGED call)
    BY <1>9, <2>2 DEF Interrupt, Call, server, socket
  <2> QED
    BY <2>1, <2>2
<1> QED
  BY <1>1, <1>2, <1>3, <1>4, <1>5, <1>6, <1>7, <1>8, <1>9 DEF MainStep

LEMMA ExistingServe ==
  ASSUME OldRoomsAssumption, TypeOK, Existing, NEW c \in Client, Serve(c)
  PROVE  Existing'
<1> USE DEF Existing, InRoom, OnRoom, TypeOK
<1>1. CASE all_rooms(c)
  BY <1>1 DEF all_rooms, Serves, Resumes, server, socket
<1>2. CASE create_room(c)
  <2>1. CASE chatroom[c] \in rooms
    BY <1>2, <2>1 DEF create_room, Serves, Faults, Dies, server
  <2>2. CASE chatroom[c] \notin rooms
    BY <1>2, <2>2 DEF create_room, Serves, Resumes
  <2> QED
    BY <2>1, <2>2
<1>3. CASE join_room(c)
  <2>1. CASE Listed(chatroom[c], NameOf[c])
    BY <1>3, <2>1 DEF join_room, Serves, Faults, Dies
  <2>2. CASE ~Listed(chatroom[c], NameOf[c])
    <3>1. /\ members' = [members EXCEPT ![chatroom[c]][NameOf[c]] = @ + 1]
          /\ main' = [main EXCEPT ![c] = IF @ = "dead" THEN @ ELSE "chat"]
          /\ call' = [call EXCEPT ![c] = "none"] /\ call[c] = "join_room"
          /\ UNCHANGED <<rooms, chatroom, current>> /\ chatroom[c] \in rooms
      BY <1>3, <2>2 DEF join_room, Serves
    <3> QED
      BY <3>1
  <2> QED
    BY <2>1, <2>2
<1>4. CASE send_message(c)
  BY <1>4 DEF send_message, Serves, Resumes, server, socket
<1>5. CASE remove_user(c)
  <2>1. CASE ~Listed(chatroom[c], NameOf[c])
    BY <1>5, <2>1 DEF remove_user, Serves, Faults, Dies
  <2>2. CASE Listed(chatroom[c], NameOf[c])
    <3>1. /\ members' = [members EXCEPT ![chatroom[c]][NameOf[c]] = @ - 1]
          /\ \E pc \in {"bye", "dead"} :
               main' = [main EXCEPT ![c] = IF @ = "dead" THEN @ ELSE pc]
          /\ call' = [call EXCEPT ![c] = "none"]
          /\ UNCHANGED <<rooms, chatroom, current>> /\ chatroom[c] \in rooms
      BY <1>5, <2>2 DEF remove_user, Serves, Resumes, Dies
    <3> QED
      BY <3>1
  <2> QED
    BY <2>1, <2>2
<1> QED
  BY <1>1, <1>2, <1>3, <1>4, <1>5 DEF Serve

LEMMA ExistingStep ==
  OldRoomsAssumption /\ TypeOK /\ Existing /\ [Next]_vars => Existing'
<1>1. Existing /\ UNCHANGED vars => Existing'
  BY DEF Existing, vars
<1>2. Existing /\ Publish => Existing'
  BY DEF Existing, Publish, server
<1>3. ASSUME Existing, NEW c \in Client, Listens(c) PROVE Existing'
  BY <1>3 DEF Existing, Listens, Subscribe, Display, server
<1> QED
  BY <1>1, <1>2, <1>3, ExistingMain, ExistingServe DEF Next

LEMMA WaitingStep ==
  OldRoomsAssumption /\ TypeOK /\ Waiting /\ [Next]_vars => Waiting'
<1> DEFINE Wait(d) == /\ \/ call[d] \in CallOf(main[d]) \union {"none"}
                         \/ main[d] = "dead" /\ d \in Quitters
                      /\ main[d] = "quit" => d \in Quitters
<1> SUFFICES ASSUME OldRoomsAssumption, TypeOK, Waiting, [Next]_vars, NEW d \in Client
             PROVE  Wait(d)'
  BY DEF Waiting
<1>0. Wait(d)
  BY DEF Waiting
<1> USE <1>0 DEF TypeOK, CallOf, At, Call, Dies, Resumes, Faults
<1>1. CASE UNCHANGED vars
  BY <1>1 DEF vars
<1>2. ASSUME NEW c \in Client, AskRooms(c) \/ Join(c) \/ Say(c) \/ Exit(c) \/ Goodbye(c)
      PROVE  Wait(d)'
  BY <1>2 DEF AskRooms, Join, Say, Exit, Goodbye
<1>3. ASSUME NEW c \in Client, NEW r \in Room, Create(c, r) \/ Pick(c, r)
      PROVE  Wait(d)'
  BY <1>3 DEF Create, Pick
<1>4. ASSUME NEW c \in Client, End(c) \/ Interrupt(c)
      PROVE  Wait(d)'
  BY <1>4 DEF End, Interrupt
<1>5. ASSUME NEW c \in Client, Serve(c)
      PROVE  Wait(d)'
  <2>1. call'[c] = "none" /\ (c # d => call'[d] = call[d] /\ main'[d] = main[d])
    BY <1>5 DEF Serve, all_rooms, create_room, join_room, send_message, remove_user, Serves
  <2>2. main'[c] = "quit" => main[c] = "quit"
    BY <1>5 DEF Serve, all_rooms, create_room, join_room, send_message, remove_user
  <2> QED
    BY <2>1, <2>2
<1>6. CASE Publish \/ \E c \in Client : Listens(c)
  BY <1>6 DEF Publish, Listens, Subscribe, Display
<1> QED
  BY <1>1, <1>2, <1>3, <1>4, <1>5, <1>6 DEF Next, MainStep, OldRoomsAssumption

\* Every variable keeps its type: in particular no member is counted off a list twice.
THEOREM TypeCorrect == Spec => []TypeOK
<1>1. Init => TypeOK /\ Existing
  BY InitInv, OldRoomsAssumption
<1>2. TypeOK /\ Existing /\ [Next]_vars => (TypeOK /\ Existing)'
  BY TypeStep, ExistingStep, OldRoomsAssumption
<1> QED
  BY <1>1, <1>2, PTL DEF Spec

-----------------------------------------------------------------------------
(* The member lists. *)

\* The list of r is right about the name u.
Right(r, u) ==
  /\ Listed(r, u) => Chatters(r, u) # {}
  /\ \A c \in Chatters(r, u) : Listed(r, u)
  /\ \A c, d \in Chatters(r, u) : c = d

\* What a change of one entry does to the entry of r and u.
LEMMA Entry ==
  ASSUME TypeOK, NEW q \in Room, NEW v \in User, NEW k \in Int,
         members' = [members EXCEPT ![q][v] = k],
         NEW r \in Room, NEW u \in User
  PROVE  members'[r][u] = IF q = r /\ v = u THEN k ELSE members[r][u]
<1>1. members[r] \in [User -> Nat]
  BY DEF TypeOK
<1>2. members'[r] = IF q = r THEN [members[r] EXCEPT ![v] = k] ELSE members[r]
  BY DEF TypeOK
<1> QED
  BY <1>1, <1>2

\* It stays right when nobody starts or stops to chat and the entry stays.
LEMMA Unmoved ==
  ASSUME NEW r, NEW u, Right(r, u), members'[r][u] = members[r][u],
         \A d \in Client : (main'[d] = "chat" /\ chatroom'[d] = r)
                            <=> (main[d] = "chat" /\ chatroom[d] = r)
  PROVE  Right(r, u)'
<1>1. Chatters(r, u)' = Chatters(r, u)
  BY DEF Chatters
<1>2. Listed(r, u)' <=> Listed(r, u)
  BY DEF Listed
<1> QED
  BY <1>1, <1>2 DEF Right

LEMMA RightMain ==
  ASSUME TypeOK, NEW r \in Room, NEW u \in User, Right(r, u), Steady(u),
         NEW c \in Client, MainStep(c) \/ Interrupt(c)
  PROVE  Right(r, u)'
<1>1. UNCHANGED members
  BY DEF MainStep, Interrupt, AskRooms, Create, Pick, Join, Say, Exit, Goodbye, End, server
<1>2. CASE NameOf[c] # u
  <2>1. \A d \in Client : d # c => main'[d] = main[d] /\ chatroom'[d] = chatroom[d]
    BY DEF MainStep, Interrupt, AskRooms, Create, Pick, Join, Say, Exit, Goodbye, End,
           Dies, TypeOK
  <2>2. Chatters(r, u)' = Chatters(r, u)
    BY <1>2, <2>1 DEF Chatters
  <2> QED
    BY <1>1, <2>2 DEF Right, Listed
<1>3. CASE NameOf[c] = u
  <2>1. c \notin Quitters
    BY <1>3 DEF Steady
  <2>2. \A d \in Client : (main'[d] = "chat" /\ chatroom'[d] = r)
                           <=> (main[d] = "chat" /\ chatroom[d] = r)
    <3>1. ASSUME NEW q \in Room, Pick(c, q)
          PROVE  /\ main[c] = "pick" /\ main'[c] # "chat"
                 /\ \A d \in Client : d # c =>
                       main'[d] = main[d] /\ chatroom'[d] = chatroom[d]
      <4>1. CASE q \in current[c]
        BY <3>1, <4>1 DEF Pick, At, TypeOK
      <4>2. CASE q \notin current[c]
        BY <3>1, <4>2 DEF Pick, At, TypeOK
      <4> QED
        BY <4>1, <4>2
    <3>2. ASSUME NEW q \in Room, Create(c, q)
          PROVE  /\ main[c] = "pick" /\ main'[c] # "chat"
                 /\ \A d \in Client : d # c =>
                       main'[d] = main[d] /\ chatroom'[d] = chatroom[d]
      BY <3>2 DEF Create, At, TypeOK
    <3>3. CASE End(c)
      BY <3>3 DEF End, At, Dies, TypeOK
    <3>4. CASE AskRooms(c) \/ Join(c) \/ Say(c) \/ Exit(c) \/ Goodbye(c)
      BY <3>4 DEF AskRooms, Join, Say, Exit, Goodbye
    <3>5. ~Interrupt(c)
      BY <2>1 DEF Interrupt
    <3> QED
      BY <3>1, <3>2, <3>3, <3>4, <3>5, OldRoomsAssumption DEF MainStep, OldRoomsAssumption
  <2> QED
    BY <1>1, <2>2, Unmoved
<1> QED
  BY <1>2, <1>3

LEMMA RightServe ==
  ASSUME TypeOK, Existing, Waiting, MembersOnce,
         NEW r \in Room, NEW u \in User, Right(r, u), Steady(u),
         \A q \in Room : Right(q, u),
         NEW c \in Client, Serve(c)
  PROVE  Right(r, u)'
<1> DEFINE q == chatroom[c]
           v == NameOf[c]
<1>0. v \in User
  BY OldRoomsAssumption DEF OldRoomsAssumption
<1>1. /\ \A d \in Client : d # c => main'[d] = main[d]
      /\ UNCHANGED chatroom
  BY DEF Serve, all_rooms, create_room, join_room, send_message, remove_user, Dies,
         Faults, Resumes, TypeOK
<1>2. CASE v # u
  <2>1. Chatters(r, u)' = Chatters(r, u)
    BY <1>1, <1>2 DEF Chatters
  <2>2. members'[r][u] = members[r][u]
    <3>1. CASE create_room(c)
      <4>1. CASE q \in rooms
        BY <3>1, <4>1 DEF create_room, server
      <4>2. CASE q \notin rooms
        <5>1. /\ members' = [members EXCEPT ![q] = [w \in User |-> 0]]
              /\ q \in Room
          BY <3>1, <4>2 DEF create_room, Serves, Existing
        <5>2. members[q][u] = 0
          BY <4>2, <5>1 DEF Existing
        <5> QED
          BY <5>1, <5>2 DEF TypeOK
      <4> QED
        BY <4>1, <4>2
    <3>2. CASE join_room(c)
      <4>1. \/ UNCHANGED members
            \/ members' = [members EXCEPT ![q][v] = members[q][v] + 1]
        BY <3>2 DEF join_room
      <4>2. q \in Room
        BY <3>2 DEF join_room, Serves, Existing, OnRoom, TypeOK
      <4>3. members[q][v] + 1 \in Int
        BY <1>0, <4>2 DEF TypeOK
      <4> HIDE DEF q, v
      <4> QED
        BY <1>0, <1>2, <4>1, <4>2, <4>3, Entry
    <3>3. CASE remove_user(c)
      <4>1. \/ UNCHANGED members
            \/ members' = [members EXCEPT ![q][v] = members[q][v] - 1]
        BY <3>3 DEF remove_user
      <4>2. q \in Room
        BY <3>3 DEF remove_user, Serves, Existing, OnRoom, TypeOK
      <4>3. members[q][v] - 1 \in Int
        BY <1>0, <4>2 DEF TypeOK
      <4> HIDE DEF q, v
      <4> QED
        BY <1>0, <1>2, <4>1, <4>2, <4>3, Entry
    <3>4. CASE all_rooms(c) \/ send_message(c)
      BY <3>4 DEF all_rooms, send_message, server
    <3> QED
      BY <3>1, <3>2, <3>3, <3>4 DEF Serve
  <2> QED
    BY <2>1, <2>2 DEF Right, Listed
<1>3. CASE v = u
  <2>1. call[c] \in CallOf(main[c]) \union {"none"} /\ main[c] # "quit"
    BY <1>3 DEF Steady, Waiting
  <2>2. CASE all_rooms(c) \/ send_message(c)
    <3>1. main[c] = "chat" <=> main'[c] = "chat"
      BY <2>1, <2>2 DEF all_rooms, send_message, Serves, Resumes, CallOf, TypeOK
    <3> QED
      BY <1>1, <2>2, <3>1, Unmoved DEF all_rooms, send_message, server
  <2>3. CASE create_room(c)
    <3>1. main[c] = "pick" /\ main'[c] # "chat"
      BY <2>1, <2>3 DEF create_room, Serves, Resumes, Faults, Dies, CallOf, TypeOK
    <3>2. members'[r][u] = members[r][u]
      <4>1. CASE q \in rooms
        BY <2>3, <4>1 DEF create_room, server
      <4>2. CASE q \notin rooms
        <5>1. /\ members' = [members EXCEPT ![q] = [w \in User |-> 0]]
              /\ q \in Room
          BY <2>3, <4>2 DEF create_room, Serves, Existing
        <5>2. members[q][u] = 0
          BY <4>2, <5>1 DEF Existing
        <5> QED
          BY <5>1, <5>2 DEF TypeOK
      <4> QED
        BY <4>1, <4>2
    <3> QED
      BY <1>1, <3>1, <3>2, Unmoved
  <2>4. CASE join_room(c)
    <3>1. main[c] = "join" /\ q \in Room
      BY <2>1, <2>4 DEF join_room, Serves, CallOf, Existing, OnRoom, TypeOK
    <3>2. CASE Listed(q, v)
      <4>1. main'[c] # "chat"
        BY <2>4, <3>2 DEF join_room, Faults, Dies, TypeOK
      <4> QED
        BY <1>1, <2>4, <3>1, <3>2, <4>1, Unmoved DEF join_room
    <3>3. CASE ~Listed(q, v)
      <4>1. /\ members' = [members EXCEPT ![q][v] = @ + 1]
            /\ main' = [main EXCEPT ![c] = "chat"]
        BY <2>4, <3>1, <3>3 DEF join_room
      <4>2. CASE q # r
        BY <1>1, <3>1, <4>1, <4>2, Unmoved DEF TypeOK
      <4>3. CASE q = r
        <5>1. Chatters(r, u) = {}
          BY <1>3, <3>3, <4>3 DEF Right
        <5>2. Chatters(r, u)' = {c}
          BY <1>1, <1>3, <4>1, <4>3, <5>1 DEF Chatters, TypeOK
        <5>3. members'[r][u] = members[r][u] + 1
          BY <1>3, <4>1, <4>3 DEF TypeOK
        <5>4. Listed(r, u)'
          BY <5>3 DEF Listed, TypeOK
        <5> QED
          BY <5>2, <5>4 DEF Right
      <4> QED
        BY <4>2, <4>3
    <3> QED
      BY <3>2, <3>3
  <2>5. CASE remove_user(c)
    <3>1. main[c] = "chat" /\ q \in Room
      BY <2>1, <2>5 DEF remove_user, Serves, CallOf, Existing, OnRoom, TypeOK
    <3>2. c \in Chatters(q, u)
      BY <1>3, <3>1 DEF Chatters
    <3>3. Listed(q, u) /\ Right(q, u)
      BY <3>1, <3>2 DEF Right
    <3>4. /\ members' = [members EXCEPT ![q][u] = @ - 1]
          /\ main' = [main EXCEPT ![c] = "bye"]
      BY <1>3, <2>5, <3>1, <3>3 DEF remove_user, Resumes
    <3>5. CASE q # r
      BY <1>1, <3>1, <3>4, <3>5, Unmoved DEF TypeOK
    <3>6. CASE q = r
      <4>1. Chatters(r, u) = {c}
        BY <3>2, <3>6 DEF Right
      <4>2. Chatters(r, u)' = {}
        BY <1>1, <3>4, <4>1 DEF Chatters, TypeOK
      <4>3. members'[r][u] = members[r][u] - 1 /\ members[r][u] = 1
        BY <3>3, <3>4, <3>6 DEF TypeOK, MembersOnce, Listed
      <4> QED
        BY <4>2, <4>3 DEF Right, Listed
    <3> QED
      BY <3>5, <3>6
  <2> QED
    BY <2>2, <2>3, <2>4, <2>5 DEF Serve
<1> QED
  BY <1>2, <1>3

LEMMA RightStep ==
  TypeOK /\ Existing /\ Waiting /\ MembersOnce /\ ListIsRight /\ [Next]_vars
    => ListIsRight'
<1> SUFFICES ASSUME TypeOK, Existing, Waiting, MembersOnce, ListIsRight, [Next]_vars,
                    NEW r \in Room, NEW u \in User, Steady(u)
             PROVE  Right(r, u)'
  BY DEF ListIsRight, Right, Steady
<1>1. \A q \in Room : Right(q, u)
  BY DEF ListIsRight, Right
<1>2. CASE UNCHANGED vars
  BY <1>1, <1>2, Unmoved DEF vars
<1>3. CASE Publish \/ \E c \in Client : Listens(c)
  BY <1>1, <1>3, Unmoved DEF Publish, Listens, Subscribe, Display, server
<1> QED
  BY <1>1, <1>2, <1>3, RightMain, RightServe DEF Next

LEMMA OnceStep == TypeOK /\ Existing /\ MembersOnce /\ [Next]_vars => MembersOnce'
<1> SUFFICES ASSUME TypeOK, Existing, MembersOnce, [Next]_vars,
                    NEW r \in Room, NEW u \in User
             PROVE  members'[r][u] <= 1
  BY DEF MembersOnce
<1>0. members[r][u] \in {0, 1}
  BY DEF MembersOnce, TypeOK
<1>1. CASE UNCHANGED members
  BY <1>0, <1>1
<1>2. ASSUME NEW c \in Client, create_room(c) PROVE members'[r][u] <= 1
  <2>1. \/ UNCHANGED members
        \/ members' = [members EXCEPT ![chatroom[c]] = [w \in User |-> 0]]
    BY <1>2 DEF create_room, server
  <2>2. chatroom[c] \in Room
    BY <1>2 DEF create_room, Serves, Existing
  <2>3. CASE r = chatroom[c] /\ ~UNCHANGED members
    BY <2>1, <2>2, <2>3 DEF TypeOK
  <2>4. CASE r # chatroom[c]
    BY <1>0, <2>1, <2>2, <2>4 DEF TypeOK
  <2> QED
    BY <1>0, <2>3, <2>4
<1>3. ASSUME NEW c \in Client, join_room(c) PROVE members'[r][u] <= 1
  <2>1. \/ UNCHANGED members
        \/ /\ members' = [members EXCEPT ![chatroom[c]][NameOf[c]] =
                                        members[chatroom[c]][NameOf[c]] + 1]
           /\ ~Listed(chatroom[c], NameOf[c])
    BY <1>3 DEF join_room
  <2>2. chatroom[c] \in Room /\ NameOf[c] \in User
    BY <1>3, OldRoomsAssumption
       DEF join_room, Serves, Existing, OnRoom, TypeOK, OldRoomsAssumption
  <2>3. CASE UNCHANGED members
    BY <1>0, <2>3
  <2>4. CASE ~UNCHANGED members
    <3> DEFINE k == members[chatroom[c]][NameOf[c]] + 1
    <3>1. k \in Int /\ k <= 1
      BY <2>1, <2>2, <2>4 DEF TypeOK, Listed, MembersOnce
    <3>2. members'[r][u] = IF chatroom[c] = r /\ NameOf[c] = u THEN k ELSE members[r][u]
      BY <2>1, <2>2, <2>4, <3>1, Entry
    <3> QED
      BY <1>0, <3>1, <3>2
  <2> QED
    BY <2>3, <2>4
<1>4. ASSUME NEW c \in Client, remove_user(c) PROVE members'[r][u] <= 1
  <2>1. \/ UNCHANGED members
        \/ members' = [members EXCEPT ![chatroom[c]][NameOf[c]] =
                                     members[chatroom[c]][NameOf[c]] - 1]
    BY <1>4 DEF remove_user
  <2>2. chatroom[c] \in Room /\ NameOf[c] \in User
    BY <1>4, OldRoomsAssumption
       DEF remove_user, Serves, Existing, OnRoom, TypeOK, OldRoomsAssumption
  <2>3. CASE UNCHANGED members
    BY <1>0, <2>3
  <2>4. CASE ~UNCHANGED members
    <3> DEFINE k == members[chatroom[c]][NameOf[c]] - 1
    <3>1. k \in Int /\ k <= 1
      BY <2>1, <2>2, <2>4 DEF TypeOK, Listed, MembersOnce
    <3>2. members'[r][u] = IF chatroom[c] = r /\ NameOf[c] = u THEN k ELSE members[r][u]
      BY <2>1, <2>2, <2>4, <3>1, Entry
    <3> QED
      BY <1>0, <3>1, <3>2
  <2> QED
    BY <2>3, <2>4
<1>5. CASE Publish \/ \E c \in Client :
             MainStep(c) \/ Interrupt(c) \/ Listens(c) \/ all_rooms(c) \/ send_message(c)
  <2>1. UNCHANGED members
    BY <1>5 DEF Publish, Listens, Subscribe, Display, all_rooms, send_message, MainStep,
       Interrupt, AskRooms, Create, Pick, Join, Say, Exit, Goodbye, End, server
  <2> QED
    BY <1>1, <2>1
<1> QED
  BY <1>1, <1>2, <1>3, <1>4, <1>5 DEF Next, Serve, vars

\* join_room looks and appends in one call, so no interleaving of namesakes puts a
\* name on a member list twice.
THEOREM NamedOnce == Spec => []MembersOnce
<1>1. Init => TypeOK /\ Existing /\ MembersOnce
  BY InitInv, OldRoomsAssumption DEF Init, MembersOnce
<1>2. TypeOK /\ Existing /\ MembersOnce /\ [Next]_vars => (TypeOK /\ Existing /\ MembersOnce)'
  BY TypeStep, ExistingStep, OnceStep, OldRoomsAssumption
<1> QED
  BY <1>1, <1>2, PTL DEF Spec

\* The member list of a room holds a name whose users never press Ctrl-C exactly while
\* one of them, and no other, chats there.
THEOREM ListsAreRight == Spec => []ListIsRight
<1> DEFINE Inv == TypeOK /\ Existing /\ Waiting /\ MembersOnce /\ ListIsRight
<1>1. Init => Inv
  <2> SUFFICES ASSUME Init PROVE MembersOnce /\ ListIsRight
    BY InitInv, OldRoomsAssumption
  <2> QED
    BY DEF Init, MembersOnce, ListIsRight, Listed, Chatters
<1>2. Inv /\ [Next]_vars => Inv'
  BY TypeStep, ExistingStep, WaitingStep, OnceStep, RightStep, OldRoomsAssumption
<1> QED
  BY <1>1, <1>2, PTL DEF Spec

-----------------------------------------------------------------------------
(* The pipeline implements RoomLog. *)

\* The sequence b is the end of p.
EndOf(b, p) ==
  /\ Len(b) <= Len(p)
  /\ \A i \in 1 .. Len(b) : b[i] = p[Len(p) - Len(b) + i]

LEMMA EndAppend ==
  ASSUME NEW S, NEW p \in Seq(S), NEW b \in Seq(S), NEW l \in S, EndOf(b, p)
  PROVE  EndOf(Append(b, l), Append(p, l))
<1> DEFINE n == Len(p)
           k == Len(b)
           q == Append(p, l)
           d == Append(b, l)
<1>1. n \in Nat /\ k \in Nat /\ k <= n
  BY LenProperties DEF EndOf
<1>2. Len(q) = n + 1 /\ q[n + 1] = l /\ \A i \in 1 .. n : q[i] = p[i]
  BY AppendProperties
<1>3. Len(d) = k + 1 /\ d[k + 1] = l /\ \A i \in 1 .. k : d[i] = b[i]
  BY AppendProperties
<1>4. \A i \in 1 .. k : b[i] = p[n - k + i]
  BY DEF EndOf
<1> HIDE DEF n, k, q, d
<1>5. ASSUME NEW i \in 1 .. k + 1 PROVE d[i] = q[(n + 1) - (k + 1) + i]
  <2>1. CASE i = k + 1
    <3>1. (n + 1) - (k + 1) + i = n + 1
      BY <1>1, <2>1
    <3> QED
      BY <1>2, <1>3, <2>1, <3>1
  <2>2. CASE i \in 1 .. k
    <3>1. n - k + i \in 1 .. n /\ (n + 1) - (k + 1) + i = n - k + i
      BY <1>1, <2>2
    <3> QED
      BY <1>2, <1>3, <1>4, <2>2, <3>1
  <2> QED
    BY <1>1, <2>1, <2>2
<1>6. /\ Len(d) = k + 1 /\ Len(q) = n + 1 /\ k + 1 <= n + 1
      /\ \A i \in 1 .. k + 1 : d[i] = q[(n + 1) - (k + 1) + i]
  BY <1>1, <1>2, <1>3, <1>5
<1> QED
  BY <1>6 DEF EndOf, d, q

LEMMA EndTail ==
  ASSUME NEW S, NEW p \in Seq(S), NEW b \in Seq(S), b # <<>>, EndOf(b, p)
  PROVE  /\ EndOf(Tail(b), p) /\ Len(Tail(b)) = Len(b) - 1
         /\ Len(b) \in 1 .. Len(p) /\ Head(b) = p[Len(p) - Len(b) + 1]
<1> DEFINE n == Len(p)
           k == Len(b)
           d == Tail(b)
<1>1. n \in Nat /\ k \in Nat \ {0} /\ k <= n
  BY LenProperties, EmptySeq DEF EndOf
<1>2. Len(d) = k - 1 /\ \A i \in 1 .. k - 1 : d[i] = b[i + 1]
  BY HeadTailProperties
<1>3. \A i \in 1 .. k : b[i] = p[n - k + i]
  BY DEF EndOf
<1>4. Head(b) = b[1]
  OBVIOUS
<1> HIDE DEF n, k, d
<1>5. ASSUME NEW i \in 1 .. k - 1 PROVE d[i] = p[n - (k - 1) + i]
  <2>1. i + 1 \in 1 .. k /\ n - k + (i + 1) = n - (k - 1) + i
    BY <1>1
  <2> QED
    BY <1>2, <1>3, <2>1
<1>6. /\ Len(d) = k - 1 /\ k - 1 <= n
      /\ \A i \in 1 .. k - 1 : d[i] = p[n - (k - 1) + i]
  BY <1>1, <1>2, <1>5
<1>7. k \in 1 .. n /\ b[1] = p[n - k + 1]
  BY <1>1, <1>3
<1> QED
  BY <1>2, <1>4, <1>6, <1>7 DEF EndOf, d, n, k

\* What a client has not looked at yet is the end of what was published, and it only
\* listens once it has joined.
Follows(c) ==
  /\ EndOf(inbox[c], published)
  /\ sub[c] # "on" => inbox[c] = <<>>
  /\ sub[c] # "none" => main[c] \in {"chat", "bye", "over", "quit"}
Feeds == \A c \in Client : Follows(c)

\* A client whose sockets stay and that stays in its room goes on following.
LEMMA FollowsOn ==
  ASSUME NEW c, Follows(c), UNCHANGED <<sub[c], inbox[c], published>>,
         main'[c] = main[c] \/ main'[c] \in {"chat", "bye", "over", "quit"}
                            \/ sub[c] = "none"
  PROVE  Follows(c)'
BY DEF Follows

LEMMA FollowsNothing ==
  ASSUME TypeOK, NEW c \in Client, inbox'[c] = <<>>, sub'[c] # "on",
         published' \in Seq(Line),
         sub'[c] # "none" => main'[c] \in {"chat", "bye", "over", "quit"}
  PROVE  Follows(c)'
<1>1. Len(published') \in Nat /\ Len(<<>>) = 0
  BY LenProperties, EmptySeq
<1>2. EndOf(<<>>, published')
  BY <1>1 DEF EndOf
<1> QED
  BY <1>2 DEF Follows

LEMMA FeedsPublish ==
  ASSUME TypeOK, NEW c \in Client, Follows(c), Publish
  PROVE  Follows(c)'
<1>1. published \in Seq(Line) /\ inbox[c] \in Seq(Line) /\ Head(pushed) \in Line
  BY HeadTailProperties DEF Publish, TypeOK
<1>2. published' = Append(published, Head(pushed)) /\ published' \in Seq(Line)
  BY <1>1, AppendProperties DEF Publish
<1>3. UNCHANGED <<main, sub>>
  BY DEF Publish
<1>4. CASE sub[c] = "on"
  <2>1. inbox'[c] = Append(inbox[c], Head(pushed))
    BY <1>4 DEF Publish
  <2>2. EndOf(inbox'[c], published')
    BY <1>1, <1>2, <2>1, EndAppend DEF Follows
  <2> QED
    BY <1>3, <1>4, <2>2 DEF Follows
<1>5. CASE sub[c] # "on"
  BY <1>2, <1>3, <1>5, FollowsNothing DEF Publish, Follows
<1> QED
  BY <1>4, <1>5

LEMMA FeedsDisplay ==
  ASSUME TypeOK, NEW c \in Client, Follows(c), Display(c)
  PROVE  /\ Follows(c)' /\ sub[c] = "on"
         /\ Len(inbox'[c]) = Len(inbox[c]) - 1
         /\ Len(inbox[c]) \in 1 .. Len(published)
         /\ Head(inbox[c]) = published[Len(published) - Len(inbox[c]) + 1]
<1>1. inbox[c] \in Seq(Line) /\ inbox[c] # <<>> /\ published \in Seq(Line)
  BY DEF Display, TypeOK
<1>2. inbox'[c] = Tail(inbox[c]) /\ UNCHANGED <<published, sub, main>>
  BY DEF Display, TypeOK
<1>3. sub[c] = "on"
  BY <1>1 DEF Follows
<1> QED
  BY <1>1, <1>2, <1>3, EndTail DEF Follows

LEMMA FeedsClient ==
  ASSUME TypeOK, Waiting, Feeds, NEW c \in Client, MainStep(c) \/ Interrupt(c) \/ Serve(c)
  PROVE  Feeds'
<1>0. UNCHANGED published
  BY DEF MainStep, Interrupt, Serve, AskRooms, Create, Pick, Join, Say, Exit, Goodbye, End,
         all_rooms, create_room, join_room, send_message, remove_user
<1>1. ASSUME NEW d \in Client, d # c PROVE Follows(d)'
  <2>1. main'[d] = main[d] /\ sub'[d] = sub[d] /\ inbox'[d] = inbox[d]
    BY <1>1 DEF MainStep, Interrupt, Serve, AskRooms, Create, Pick, Join, Say, Exit, Goodbye,
       End, all_rooms, create_room, join_room, send_message, remove_user, Dies, Faults,
       Resumes, socket, TypeOK
  <2> QED
    BY <1>0, <2>1, FollowsOn DEF Feeds
<1>2. Follows(c)'
  <2>0. Follows(c) /\ main[c] \in Places
    BY DEF Feeds, TypeOK
  <2>1. CASE Dies(c)
    BY <1>0, <2>1, FollowsNothing DEF Dies, TypeOK
  <2>2. CASE join_room(c) /\ ~Listed(chatroom[c], NameOf[c])
    <3>1. main[c] \in {"join", "dead"} /\ sub[c] = "none"
      BY <2>0, <2>2 DEF join_room, Serves, Waiting, CallOf, Follows, Places
    <3>2. /\ inbox'[c] = inbox[c]
          /\ \/ main'[c] = "chat" /\ sub'[c] = "connecting"
             \/ main'[c] = main[c] /\ sub'[c] = sub[c]
      BY <2>2 DEF join_room, TypeOK
    <3> QED
      BY <1>0, <2>0, <3>1, <3>2 DEF Follows
  <2>3. CASE UNCHANGED socket /\ ~Dies(c)
    <3>1. \/ main'[c] = main[c]
          \/ main'[c] \in {"chat", "bye", "over", "quit"}
          \/ main[c] \in {"choose", "pick", "join", "dead"}
      <4>1. CASE MainStep(c)
        BY <2>3, <4>1 DEF MainStep, AskRooms, Create, Pick, Join, Say, Exit, Goodbye, End, At
      <4>2. CASE Interrupt(c)
        BY <2>3, <4>2 DEF Interrupt, TypeOK
      <4>3. CASE Serve(c)
        BY <2>3, <4>3 DEF Serve, all_rooms, create_room, join_room, send_message,
           remove_user, Serves, Resumes, Faults, Waiting, CallOf, TypeOK
      <4> QED
        BY <4>1, <4>2, <4>3
    <3>2. main[c] \in {"choose", "pick", "join", "dead"} => sub[c] = "none"
      BY <2>0 DEF Follows
    <3> QED
      BY <1>0, <2>0, <2>3, <3>1, <3>2, FollowsOn DEF socket
  <2> QED
    BY <2>1, <2>2, <2>3
       DEF MainStep, Interrupt, Serve, AskRooms, Create, Pick, Join, Say, Exit, Goodbye, End,
           all_rooms, create_room, join_room, send_message, remove_user, Faults, Resumes,
           socket
<1> QED
  BY <1>1, <1>2 DEF Feeds

LEMMA FeedsStep == TypeOK /\ Waiting /\ Feeds /\ [Next]_vars => Feeds'
<1> SUFFICES ASSUME TypeOK, Waiting, Feeds, [Next]_vars PROVE Feeds'
  OBVIOUS
<1>1. CASE UNCHANGED vars
  BY <1>1 DEF vars, Feeds, Follows
<1>2. CASE Publish
  BY <1>2, FeedsPublish DEF Feeds
<1>3. ASSUME NEW c \in Client, Subscribe(c) PROVE Feeds'
  BY <1>3 DEF Subscribe, Feeds, Follows, TypeOK
<1>4. ASSUME NEW c \in Client, Display(c) PROVE Feeds'
  <2>1. ASSUME NEW d \in Client, d # c PROVE Follows(d)'
    BY <1>4, <2>1, FollowsOn DEF Display, Feeds, TypeOK
  <2> QED
    BY <1>4, <2>1, FeedsDisplay DEF Feeds
<1> QED
  BY <1>1, <1>2, <1>3, <1>4, FeedsClient DEF Next, Listens

\* The variables of RoomLog: its log, and where a client is in it.
TheLog == published \o pushed
NextLine == [c \in Client |->
               IF sub[c] = "on" THEN Len(published) - Len(inbox[c]) + 1 ELSE 0]

LEMMA LogInit == OldRoomsAssumption /\ Init => Log!Init
<1> SUFFICES ASSUME Init PROVE Log!Init
  OBVIOUS
<1>1. published \o pushed = <<>>
  BY EmptySeq, ConcatEmptySeq DEF Init
<1> QED
  BY <1>1 DEF Init, Log!Init

\* A process that ends leaves the log.
LEMMA DiesLeaves ==
  ASSUME TypeOK, NEW c \in Client, Dies(c), UNCHANGED <<published, pushed, chatroom>>
  PROVE  Log!Leave(c)
<1>1. /\ sub' = [sub EXCEPT ![c] = "none"] /\ inbox' = [inbox EXCEPT ![c] = <<>>]
      /\ shown' = [shown EXCEPT ![c] = <<>>]
  BY DEF Dies
<1>2. NextLine' = [NextLine EXCEPT ![c] = 0]
  BY <1>1 DEF NextLine, TypeOK
<1> QED
  BY <1>1, <1>2 DEF Log!Leave, NextLine

\* What changes neither the sockets nor the room of a client changes nothing here.
LEMMA LogStutters ==
  ASSUME UNCHANGED <<published, pushed, chatroom, inbox, shown>>,
         \A c \in Client : sub'[c] = "on" <=> sub[c] = "on"
  PROVE  UNCHANGED Log!vars
<1>1. NextLine' = NextLine
  BY DEF NextLine
<1> QED
  BY <1>1 DEF Log!vars, NextLine

LEMMA LogPublish ==
  ASSUME TypeOK, Feeds, Publish
  PROVE  UNCHANGED Log!vars
<1> DEFINE l == Head(pushed)
<1>1. /\ l \in Line /\ Tail(pushed) \in Seq(Line) /\ published \in Seq(Line)
      /\ pushed \in Seq(Line) /\ pushed # <<>>
  BY HeadTailProperties DEF Publish, TypeOK
<1>2. TheLog' = TheLog
  <2>1. pushed = <<l>> \o Tail(pushed)
    BY <1>1
  <2>2. Append(published, l) = published \o <<l>>
    BY <1>1, AppendIsConcat
  <2>3. <<l>> \in Seq(Line)
    BY <1>1
  <2>4. (published \o <<l>>) \o Tail(pushed) = published \o (<<l>> \o Tail(pushed))
    BY <1>1, <2>3, ConcatAssociative
  <2> QED
    BY <2>1, <2>2, <2>4 DEF Publish, TheLog
<1>3. ASSUME NEW c \in Client, sub[c] = "on"
      PROVE  Len(published') - Len(inbox'[c]) + 1 = Len(published) - Len(inbox[c]) + 1
  <2>1. inbox'[c] = Append(inbox[c], l) /\ published' = Append(published, l)
    BY <1>3 DEF Publish
  <2>2. inbox[c] \in Seq(Line)
    BY DEF TypeOK
  <2>3. Len(inbox'[c]) = Len(inbox[c]) + 1 /\ Len(published') = Len(published) + 1
    BY <1>1, <2>1, <2>2, AppendProperties
  <2>4. Len(inbox[c]) \in Nat /\ Len(published) \in Nat
    BY <1>1, <2>2, LenProperties
  <2> QED
    BY <2>3, <2>4
<1>4. UNCHANGED <<sub, shown, chatroom>>
  BY DEF Publish
<1>5. NextLine' = NextLine
  BY <1>3, <1>4 DEF NextLine
<1> QED
  BY <1>2, <1>4, <1>5 DEF Log!vars, NextLine, TheLog

LEMMA LogSubscribe ==
  ASSUME TypeOK, Feeds, NEW c \in Client, Subscribe(c)
  PROVE  Log!Listen(c)
<1>1. /\ sub[c] = "connecting" /\ sub' = [sub EXCEPT ![c] = "on"]
      /\ UNCHANGED <<published, pushed, inbox, shown, chatroom>>
  BY DEF Subscribe
<1>2. inbox[c] = <<>>
  BY <1>1 DEF Feeds, Follows
<1>3. /\ Len(published) \in Nat /\ Len(pushed) \in Nat
      /\ Len(published \o pushed) = Len(published) + Len(pushed)
  BY LenProperties, ConcatProperties DEF TypeOK
<1> DEFINE k == Len(published) + 1
<1>4. k \in 1 .. Len(published \o pushed) + 1
  BY <1>3
<1>5. Len(published) - Len(inbox[c]) + 1 = k
  BY <1>2, <1>3, EmptySeq
<1>6. NextLine' = [NextLine EXCEPT ![c] = k]
  BY <1>1, <1>5 DEF NextLine, TypeOK
<1>7. NextLine[c] = 0
  BY <1>1 DEF NextLine
<1> QED
  BY <1>1, <1>4, <1>6, <1>7 DEF Log!Listen, NextLine

LEMMA LogDisplay ==
  ASSUME TypeOK, Feeds, NEW c \in Client, Display(c)
  PROVE  Log!Look(c)
<1> DEFINE n == Len(published)
           k == Len(inbox[c])
           l == Head(inbox[c])
<1>1. /\ sub[c] = "on" /\ Len(inbox'[c]) = k - 1 /\ k \in 1 .. n
      /\ l = published[n - k + 1]
  BY FeedsDisplay DEF Feeds
<1>2. UNCHANGED <<published, pushed, sub, chatroom>>
  BY DEF Display
<1>3. n \in Nat /\ Len(pushed) \in Nat /\ Len(TheLog) = n + Len(pushed)
      /\ \A i \in 1 .. n : TheLog[i] = published[i]
  BY LenProperties, ConcatProperties DEF TypeOK, TheLog
<1>4. NextLine[c] = n - k + 1
  BY <1>1 DEF NextLine
<1>5. \A d \in Client : d # c => inbox'[d] = inbox[d]
  BY DEF Display, TypeOK
<1>6. NextLine' = [NextLine EXCEPT ![c] = @ + 1]
  <2>1. Len(published') - Len(inbox'[c]) + 1 = NextLine[c] + 1
    <3> HIDE DEF n, k
    <3>1. n - (k - 1) + 1 = (n - k + 1) + 1
      BY <1>1, <1>3
    <3> QED
      BY <1>1, <1>2, <1>4, <3>1 DEF n
  <2> QED
    BY <1>1, <1>2, <1>5, <2>1 DEF NextLine
<1>7. NextLine[c] \in 1 .. n /\ NextLine[c] \in 1 .. Len(TheLog)
  <2> HIDE DEF n, k
  <2> QED
    BY <1>1, <1>3, <1>4
<1>8. TheLog[NextLine[c]] = l
  BY <1>1, <1>3, <1>4, <1>7
<1>9. shown' = IF Wanted(c, chatroom[c], l)
               THEN [shown EXCEPT ![c] = Append(@, l)] ELSE shown
  BY DEF Display
<1> HIDE DEF n, k, l
<1> QED
  BY <1>2, <1>6, <1>7, <1>8, <1>9 DEF Log!Look, NextLine, TheLog

LEMMA LogSay ==
  ASSUME OldRoomsAssumption, TypeOK, Existing, NEW c \in Client, send_message(c)
  PROVE  Log!Next
<1> DEFINE k == IF call[c] = "goodbye" THEN 0 ELSE lines[c]
           l == [room |-> chatroom[c], from |-> c, no |-> k]
<1>1. chatroom[c] \in Room
  BY DEF send_message, Serves, Existing, OnRoom, TypeOK
<1>2. l \in Line
  <2>1. k \in 0 .. MaxLines[c]
    BY DEF TypeOK, OldRoomsAssumption
  <2> QED
    BY <1>1, <2>1, LineType
<1>3. /\ pushed' = Append(pushed, l)
      /\ UNCHANGED <<published, chatroom, sub, inbox, shown>>
  BY DEF send_message, Resumes, socket
<1>4. TheLog' = Append(TheLog, l)
  <2>1. published \in Seq(Line) /\ pushed \in Seq(Line) /\ <<l>> \in Seq(Line)
    BY <1>2 DEF TypeOK
  <2>2. Append(pushed, l) = pushed \o <<l>>
    BY <1>2, <2>1, AppendIsConcat
  <2>3. published \o pushed \in Seq(Line)
    BY <2>1, ConcatProperties
  <2>4. Append(published \o pushed, l) = (published \o pushed) \o <<l>>
    BY <1>2, <2>3, AppendIsConcat
  <2>5. (published \o pushed) \o <<l>> = published \o (pushed \o <<l>>)
    BY <2>1, ConcatAssociative
  <2> QED
    BY <1>3, <2>2, <2>4, <2>5 DEF TheLog
<1>5. NextLine' = NextLine
  BY <1>3 DEF NextLine
<1>6. Log!Say(l)
  BY <1>3, <1>4, <1>5 DEF Log!Say, TheLog, NextLine
<1> QED
  BY <1>2, <1>6 DEF Log!Next

\* A room is chosen before the client listens.
LEMMA LogChoose ==
  ASSUME TypeOK, Feeds, NEW c \in Client, NEW r \in Room, main[c] = "pick",
         chatroom' = [chatroom EXCEPT ![c] = r],
         UNCHANGED <<published, pushed, sub, inbox, shown>>
  PROVE  Log!Next
<1>1. NextLine[c] = 0
  BY DEF Feeds, Follows, NextLine
<1>2. NextLine' = NextLine
  BY DEF NextLine
<1>3. Log!Choose(c)
  BY <1>1, <1>2 DEF Log!Choose, NextLine
<1> QED
  BY <1>3 DEF Log!Next

LEMMA LogStep ==
  OldRoomsAssumption /\ TypeOK /\ Existing /\ Waiting /\ Feeds /\ [Next]_vars
    => [Log!Next]_(Log!vars)
<1> SUFFICES ASSUME OldRoomsAssumption, TypeOK, Existing, Waiting, Feeds, [Next]_vars
             PROVE  Log!Next \/ UNCHANGED Log!vars
  OBVIOUS
<1>1. CASE UNCHANGED vars
  BY <1>1, LogStutters DEF vars
<1>2. CASE Publish
  BY <1>2, LogPublish
<1>3. ASSUME NEW c \in Client, Listens(c) PROVE Log!Next
  BY <1>3, LogSubscribe, LogDisplay DEF Listens, Log!Next
<1>4. ASSUME NEW c \in Client, Dies(c), UNCHANGED <<published, pushed, chatroom>>
      PROVE  Log!Next
  BY <1>4, DiesLeaves DEF Log!Next
<1>5. ASSUME NEW c \in Client, NEW r \in Room, Create(c, r) \/ Pick(c, r)
      PROVE  Log!Next \/ UNCHANGED Log!vars
  <2>1. main[c] = "pick" /\ UNCHANGED <<published, pushed, sub, inbox, shown>>
    BY <1>5 DEF Create, Pick, At, socket
  <2>2. chatroom' = [chatroom EXCEPT ![c] = r] \/ UNCHANGED chatroom
    BY <1>5 DEF Create, Pick
  <2> QED
    BY <2>1, <2>2, LogChoose, LogStutters
<1>6. ASSUME NEW c \in Client,
             AskRooms(c) \/ Join(c) \/ Say(c) \/ Exit(c) \/ Goodbye(c) \/ all_rooms(c)
      PROVE  UNCHANGED Log!vars
  <2>1. UNCHANGED <<published, pushed, chatroom, sub, inbox, shown>>
    BY <1>6 DEF AskRooms, Join, Say, Exit, Goodbye, all_rooms, Resumes, socket
  <2> QED
    BY <2>1, LogStutters
<1>7. ASSUME NEW c \in Client, End(c) \/ Interrupt(c)
      PROVE  Log!Next \/ UNCHANGED Log!vars
  <2>1. UNCHANGED <<published, pushed, chatroom>>
    BY <1>7 DEF End, Interrupt
  <2>2. Dies(c) \/ UNCHANGED socket
    BY <1>7 DEF End, Interrupt
  <2> QED
    BY <1>4, <2>1, <2>2, LogStutters DEF socket
<1>8. ASSUME NEW c \in Client, create_room(c) \/ join_room(c) \/ remove_user(c)
      PROVE  Log!Next \/ UNCHANGED Log!vars
  <2>1. UNCHANGED <<published, pushed, chatroom>>
    BY <1>8 DEF create_room, join_room, remove_user
  <2>2. \/ Dies(c) \/ UNCHANGED socket
        \/ /\ join_room(c) /\ UNCHANGED <<inbox, shown>>
           /\ sub' = [sub EXCEPT ![c] = IF main[c] = "dead" THEN @ ELSE "connecting"]
    BY <1>8 DEF create_room, join_room, remove_user, Faults, Resumes
  <2>3. CASE /\ join_room(c) /\ UNCHANGED <<inbox, shown>>
             /\ sub' = [sub EXCEPT ![c] = IF main[c] = "dead" THEN @ ELSE "connecting"]
    <3>1. sub[c] # "on"
      BY <2>3 DEF join_room, Serves, Waiting, CallOf, Feeds, Follows, TypeOK, Places
    <3>2. \A d \in Client : sub'[d] = "on" <=> sub[d] = "on"
      BY <2>3, <3>1 DEF TypeOK
    <3> QED
      BY <2>1, <2>3, <3>2, LogStutters
  <2> QED
    BY <1>4, <2>1, <2>2, <2>3, LogStutters DEF socket
<1>9. ASSUME NEW c \in Client, send_message(c) PROVE Log!Next
  BY <1>9, LogSay
<1> QED
  BY <1>1, <1>2, <1>3, <1>5, <1>6, <1>7, <1>8, <1>9
     DEF Next, MainStep, Serve, OldRoomsAssumption

\* Server, broker and subscriber threads together implement one log: whatever the calls
\* of the clients and the deaths among them, every client that listens is shown what its
\* subscription matches in the one order, nothing skipped and nothing twice.
THEOREM PipelineIsLog == Spec => ImplementsRoomLog
<1> DEFINE Inv == TypeOK /\ Existing /\ Waiting /\ Feeds
<1>1. Init => Inv
  <2> SUFFICES ASSUME Init PROVE Feeds
    BY InitInv, OldRoomsAssumption
  <2>1. Len(<<>>) = 0
    BY EmptySeq
  <2> QED
    BY <2>1 DEF Init, Feeds, Follows, EndOf
<1>2. Inv /\ [Next]_vars => Inv'
  BY TypeStep, ExistingStep, WaitingStep, FeedsStep, OldRoomsAssumption
<1>3. Init => Log!Init
  BY LogInit, OldRoomsAssumption
<1>4. Inv /\ [Next]_vars => [Log!Next]_(Log!vars)
  BY LogStep, OldRoomsAssumption
<1> QED
  BY <1>1, <1>2, <1>3, <1>4, PTL DEF Spec, ImplementsRoomLog, Log!Spec
=============================================================================
