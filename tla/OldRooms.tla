------------------------------ MODULE OldRooms ------------------------------
(***************************************************************************)
(* The client/server design in src/old: server-xmlrpc.py keeps the rooms   *)
(* and serves one call at a time, client-xmlrpc.py calls it from its main  *)
(* thread and listens to broker.py in another, which publishes what the    *)
(* server pushes.  A socket is the sequence of messages in it; the server  *)
(* takes the calls of waiting clients in any order.                        *)
(***************************************************************************)
EXTENDS Naturals, Sequences, FiniteSets

CONSTANTS
  Client,     \* client processes
  Room,       \* rooms a user may name
  NoRoom,     \* None
  User,       \* user names
  NameOf,     \* NameOf[c]: what the user of c typed as username
  Prefix,     \* the pairs <<r, s>> such that the name of s begins with that of r
  Typed,      \* bound: Typed[c] is the rooms the user of c may name
  Leavers,    \* bound: the clients whose users may type exit
  Quitters,   \* bound: the clients whose users may press Ctrl-C
  MaxLines    \* bound: MaxLines[c] is how many lines the user of c types

ASSUME OldRoomsAssumption ==
  /\ NameOf \in [Client -> User] /\ NoRoom \notin Room
  /\ \A r \in Room : <<r, r>> \in Prefix
  /\ Typed \in [Client -> SUBSET Room]
  /\ Leavers \subseteq Client /\ Quitters \subseteq Client
  /\ MaxLines \in [Client -> Nat]

VARIABLES
  rooms,      \* the keys of list_of_chat_rooms
  members,    \* members[r][u]: how often u is on the member list of r
  main,       \* where the client is
  chatroom,   \* chatroom of the client, or the room it asks to create
  current,    \* current_rooms
  call,       \* the procedure it waits for, or "none"
  lines,      \* lines typed so far
  pushed,     \* the PUSH socket of the server and the PULL socket of the broker
  published,  \* what the broker has published (a history variable)
  sub,        \* the SUB socket: "none", "connecting" or "on"
  inbox,      \* what is in it
  shown       \* the lines the client has displayed

server == <<rooms, members>>
socket == <<sub, inbox, shown>>
vars == <<rooms, members, main, chatroom, current, call, lines, pushed, published,
          sub, inbox, shown>>

\* A line: its room, the client it is from, its number, 0 for the ThisCordBot's.
Line == UNION {[room : Room, from : {c}, no : 0 .. MaxLines[c]] : c \in Client}

Places == {"choose", "pick", "join", "chat", "bye", "over", "quit", "dead"}
Procedures ==
  {"all_rooms", "create_room", "join_room", "send_message", "goodbye", "remove_user"}

TypeOK ==
  /\ rooms \subseteq Room
  /\ members \in [Room -> [User -> Nat]]
  /\ main \in [Client -> Places]
  /\ chatroom \in [Client -> Room \union {NoRoom}]
  /\ current \in [Client -> SUBSET Room]
  /\ call \in [Client -> Procedures \union {"none"}]
  /\ lines \in [Client -> Nat] /\ \A c \in Client : lines[c] <= MaxLines[c]
  /\ pushed \in Seq(Line) /\ published \in Seq(Line)
  /\ sub \in [Client -> {"none", "connecting", "on"}]
  /\ inbox \in [Client -> Seq(Line)] /\ shown \in [Client -> Seq(Line)]

Init ==
  /\ rooms = {} /\ members = [r \in Room |-> [u \in User |-> 0]]
  /\ main = [c \in Client |-> "choose"]
  /\ chatroom = [c \in Client |-> NoRoom]
  /\ current = [c \in Client |-> {}]
  /\ call = [c \in Client |-> "none"]
  /\ lines = [c \in Client |-> 0]
  /\ pushed = <<>> /\ published = <<>>
  /\ sub = [c \in Client |-> "none"]
  /\ inbox = [c \in Client |-> <<>>] /\ shown = [c \in Client |-> <<>>]

-----------------------------------------------------------------------------
(* The main thread of a client. *)

At(c, pc) == main[c] = pc /\ call[c] = "none"
Call(c, procedure) == call' = [call EXCEPT ![c] = procedure]

\* The process ends, its subscription with it.
Dies(c) ==
  /\ main' = [main EXCEPT ![c] = "dead"]
  /\ sub' = [sub EXCEPT ![c] = "none"]
  /\ inbox' = [inbox EXCEPT ![c] = <<>>] /\ shown' = [shown EXCEPT ![c] = <<>>]

\* A call that returns: the client goes on, if it has not died meanwhile.
Resumes(c, pc) ==
  /\ main' = [main EXCEPT ![c] = IF @ = "dead" THEN @ ELSE pc]
  /\ UNCHANGED socket

AskRooms(c) ==
  /\ At(c, "choose") /\ Call(c, "all_rooms")
  /\ UNCHANGED <<server, main, chatroom, current, lines, pushed, published, socket>>

Create(c, r) ==
  /\ At(c, "pick") /\ Call(c, "create_room")
  /\ chatroom' = [chatroom EXCEPT ![c] = r]
  /\ UNCHANGED <<server, main, current, lines, pushed, published, socket>>

\* A room that was not in the list got before is asked for again.
Pick(c, r) ==
  /\ At(c, "pick")
  /\ IF r \in current[c]
     THEN /\ chatroom' = [chatroom EXCEPT ![c] = r]
          /\ main' = [main EXCEPT ![c] = "join"]
     ELSE /\ main' = [main EXCEPT ![c] = "choose"]
          /\ UNCHANGED chatroom
  /\ UNCHANGED <<server, current, call, lines, pushed, published, socket>>

Join(c) ==
  /\ At(c, "join") /\ Call(c, "join_room")
  /\ UNCHANGED <<server, main, chatroom, current, lines, pushed, published, socket>>

Say(c) ==
  /\ At(c, "chat") /\ lines[c] < MaxLines[c]
  /\ Call(c, "send_message")
  /\ lines' = [lines EXCEPT ![c] = @ + 1]
  /\ UNCHANGED <<server, main, chatroom, current, pushed, published, socket>>

Exit(c) ==
  /\ c \in Leavers /\ At(c, "chat") /\ Call(c, "remove_user")
  /\ UNCHANGED <<server, main, chatroom, current, lines, pushed, published, socket>>

Goodbye(c) ==
  /\ At(c, "bye") /\ Call(c, "goodbye")
  /\ UNCHANGED <<server, main, chatroom, current, lines, pushed, published, socket>>

\* The loop is left and main returns.
End(c) ==
  /\ At(c, "over") /\ Dies(c)
  /\ UNCHANGED <<server, chatroom, current, call, lines, pushed, published>>

\* Ctrl-C.  Without a room remove_user(None, user) cannot be marshalled, and in the
\* middle of a call the connection cannot take another: the process dies, and the
\* call it was waiting for is still served.
Interrupt(c) ==
  /\ c \in Quitters /\ main[c] # "dead"
  /\ IF call[c] = "none" /\ main[c] \in {"join", "chat", "bye", "over"}
     THEN /\ main' = [main EXCEPT ![c] = "quit"]
          /\ Call(c, "remove_user")
          /\ UNCHANGED socket
     ELSE Dies(c) /\ UNCHANGED call
  /\ UNCHANGED <<server, chatroom, current, lines, pushed, published>>

MainStep(c) ==
  \/ AskRooms(c) \/ (\E r \in Typed[c] : Create(c, r) \/ Pick(c, r)) \/ Join(c)
  \/ Say(c) \/ Exit(c) \/ Goodbye(c) \/ End(c)

-----------------------------------------------------------------------------
(* The server: what is done when the call of c is served. *)

Serves(c, procedure) ==
  /\ call[c] = procedure
  /\ call' = [call EXCEPT ![c] = "none"]

\* A fault is caught nowhere in the client.
Faults(c) == Dies(c)

all_rooms(c) ==
  /\ Serves(c, "all_rooms")
  /\ current' = [current EXCEPT ![c] = rooms]
  /\ Resumes(c, "pick")
  /\ UNCHANGED <<server, chatroom, lines, pushed, published>>

\* A slip: a room that exists is made anew.
CreateAnew(c) ==
  /\ Serves(c, "create_room")
  /\ rooms' = rooms \union {chatroom[c]}
  /\ members' = [members EXCEPT ![chatroom[c]] = [u \in User |-> 0]]
  /\ Resumes(c, "join")
  /\ UNCHANGED <<chatroom, current, lines, pushed, published>>

create_room(c) ==
  /\ Serves(c, "create_room")
  /\ IF chatroom[c] \in rooms
     THEN Faults(c) /\ UNCHANGED server
     ELSE /\ rooms' = rooms \union {chatroom[c]}
          /\ members' = [members EXCEPT ![chatroom[c]] = [u \in User |-> 0]]
          /\ Resumes(c, "join")
  /\ UNCHANGED <<chatroom, current, lines, pushed, published>>

ListedNever(r, u) == FALSE  \* a slip

Listed(r, u) == members[r][u] > 0

\* The client starts its subscriber thread when it has joined.
join_room(c) ==
  LET r == chatroom[c]  u == NameOf[c]
  IN  /\ Serves(c, "join_room")
      /\ IF Listed(r, u) THEN Faults(c) /\ UNCHANGED members
         ELSE /\ members' = [members EXCEPT ![r][u] = @ + 1]
              /\ main' = [main EXCEPT ![c] = IF @ = "dead" THEN @ ELSE "chat"]
              /\ sub' = [sub EXCEPT ![c] = IF main[c] = "dead" THEN @ ELSE "connecting"]
              /\ UNCHANGED <<inbox, shown>>
      /\ UNCHANGED <<rooms, chatroom, current, lines, pushed, published>>

\* The line of a user, or of the ThisCordBot about a user who exits
send_message(c) ==
  /\ \/ Serves(c, "send_message") /\ Resumes(c, "chat")
     \/ Serves(c, "goodbye") /\ Resumes(c, "over")
  /\ pushed' = Append(pushed,
       [room |-> chatroom[c], from |-> c,
        no |-> IF call[c] = "goodbye" THEN 0 ELSE lines[c]])
  /\ UNCHANGED <<server, chatroom, current, lines, published>>

\* A slip: nobody looks whether the name is there.
RemoveUnasked(c) ==
  /\ Serves(c, "remove_user")
  /\ members' = [members EXCEPT ![chatroom[c]][NameOf[c]] = @ - 1]
  /\ IF main[c] = "chat" THEN Resumes(c, "bye") ELSE Dies(c)
  /\ UNCHANGED <<rooms, chatroom, current, lines, pushed, published>>

\* The first occurrence of the name is removed from the list.
remove_user(c) ==
  LET r == chatroom[c]  u == NameOf[c]
  IN  /\ Serves(c, "remove_user")
      /\ IF ~Listed(r, u) THEN Faults(c) /\ UNCHANGED members
         ELSE /\ members' = [members EXCEPT ![r][u] = @ - 1]
              /\ IF main[c] = "chat" THEN Resumes(c, "bye") ELSE Dies(c)
      /\ UNCHANGED <<rooms, chatroom, current, lines, pushed, published>>

Serve(c) ==
  \/ all_rooms(c) \/ create_room(c) \/ join_room(c)
  \/ send_message(c) \/ remove_user(c)

-----------------------------------------------------------------------------
(* The broker and the subscriber threads. *)

\* A slip: the newest message first.
PublishLast ==
  LET n == Len(pushed)
  IN  /\ pushed # <<>>
      /\ pushed' = SubSeq(pushed, 1, n - 1) /\ published' = Append(published, pushed[n])
      /\ inbox' = [c \in Client |->
                     IF sub[c] = "on" THEN Append(inbox[c], pushed[n]) ELSE inbox[c]]
      /\ UNCHANGED <<server, main, chatroom, current, call, lines, sub, shown>>

\* broker.py: every subscriber that is connected now gets the message
Publish ==
  /\ pushed # <<>>
  /\ pushed' = Tail(pushed) /\ published' = Append(published, Head(pushed))
  /\ inbox' = [c \in Client |-> IF sub[c] = "on" THEN Append(inbox[c], Head(pushed))
                                                 ELSE inbox[c]]
  /\ UNCHANGED <<server, main, chatroom, current, call, lines, sub, shown>>

\* message_subscriber: the connection and the filter reach the broker
Subscribe(c) ==
  /\ sub[c] = "connecting"
  /\ sub' = [sub EXCEPT ![c] = "on"]
  /\ UNCHANGED <<server, main, chatroom, current, call, lines, pushed, published,
                 inbox, shown>>

\* The topic of a room is the beginning of those of some others.  A user's own lines,
\* told by the name, are not displayed ("don't echo back"): those of a namesake are not
\* either.  (The README of the repository promises the author its own line from the
\* subscriber thread.)
Wanted(c, r, l) ==
  <<r, l.room>> \in Prefix /\ (l.no = 0 \/ NameOf[l.from] # NameOf[c])

\* A slip: a message that is not to be displayed is left where it is.
DisplayWanted(c) ==
  /\ inbox[c] # <<>> /\ Wanted(c, chatroom[c], Head(inbox[c]))
  /\ inbox' = [inbox EXCEPT ![c] = Tail(@)]
  /\ shown' = [shown EXCEPT ![c] = Append(@, Head(inbox[c]))]
  /\ UNCHANGED <<server, main, chatroom, current, call, lines, pushed, published, sub>>

\* message_subscriber takes the next message
Display(c) ==
  /\ inbox[c] # <<>>
  /\ inbox' = [inbox EXCEPT ![c] = Tail(@)]
  /\ shown' = IF Wanted(c, chatroom[c], Head(inbox[c]))
              THEN [shown EXCEPT ![c] = Append(@, Head(inbox[c]))] ELSE shown
  /\ UNCHANGED <<server, main, chatroom, current, call, lines, pushed, published, sub>>

Listens(c) == Subscribe(c) \/ Display(c)

Next ==
  \/ Publish
  \/ \E c \in Client : MainStep(c) \/ Interrupt(c) \/ Serve(c) \/ Listens(c)

Spec == Init /\ [][Next]_vars

\* Server, broker and subscriber threads run; users do what they like.
Fairness ==
  /\ WF_vars(Publish)
  /\ \A c \in Client : WF_vars(Serve(c)) /\ WF_vars(Listens(c))

FairSpec == Spec /\ Fairness

-----------------------------------------------------------------------------
(* Properties. *)

\* A member list holds a name once, however the calls of namesakes interleave: "The
\* user has already joined".
MembersOnce == \A r \in Room, u \in User : members[r][u] <= 1

\* The list of a room holds exactly those who chat there, when nobody of that name
\* presses Ctrl-C: namesakes who are refused, exit or come back in between take nobody
\* off it and leave nobody on it.
Steady(u) == \A c \in Quitters : NameOf[c] # u
Chatters(r, u) == {c \in Client : main[c] = "chat" /\ chatroom[c] = r /\ NameOf[c] = u}
ListIsRight ==
  \A r \in Room, u \in User :
    Steady(u) => /\ Listed(r, u) => Chatters(r, u) # {}
                 /\ \A c \in Chatters(r, u) : Listed(r, u)
                 /\ \A c, d \in Chatters(r, u) : c = d

\* The pipeline of server, broker and subscriber is one log that every client reads in
\* order from some line on, nothing skipped, twice or swapped, and of which it displays
\* what others than its user have said in its room, as the filters of the code have it.
Log == INSTANCE RoomLog WITH
  Topic <- Room \union {NoRoom},
  log <- published \o pushed,
  topic <- chatroom,
  next <- [c \in Client |->
             IF sub[c] = "on" THEN Len(published) - Len(inbox[c]) + 1 ELSE 0]
ImplementsRoomLog == Log!Spec

\* "The background threads ... receive the message via SUB": again and again a client
\* has its answer and has read the log to its end, whatever the others do and wherever
\* they die.
CatchesUp ==
  \A c \in Client :
    []<>(/\ call[c] = "none" /\ sub[c] # "connecting"
         /\ pushed = <<>> /\ inbox[c] = <<>>)
=============================================================================
