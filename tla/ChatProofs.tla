----------------------------- MODULE ChatProofs -----------------------------
(***************************************************************************)
(* Proofs about Chat, for any number of users, conversations, messages,    *)
(* calls and applications, any page limit and any clock: what is sent,     *)
(* answered, broadcast and paged through.                                  *)
(***************************************************************************)
EXTENDS Chat, TLAPS

(* A call that sends has its request, one that opens has its customer.     *)
Sending(r) == req[r].at \in {"lock", "write", "emit", "answered", "failed"}

(* The row of the message that a call names is the one it asked for.       *)
Matches(r) ==
  /\ req[r].message \in Messages
  /\ LET row == messages[req[r].message]
     IN /\ row.sender = req[r].user /\ row.key = req[r].key
        /\ row.conversation = req[r].conversation /\ row.body = req[r].body

SendInv ==
  \A r \in Clients :
    /\ At(r, "insert") => req[r].user \in Customers
    /\ Sending(r) => /\ req[r].user \in Users /\ req[r].conversation \in Conversations
                     /\ req[r].key \in Keys /\ req[r].body \in Bodies
    /\ At(r, "write") => conversations[req[r].conversation].status = "OPEN"
    /\ At(r, "emit") \/ At(r, "answered") => Matches(r)

(* A join that was acknowledged put the socket into the room.              *)
RoomInv ==
  \A a \in Apps :
    /\ socket[a].at = "joining" => socket[a].join \in Conversations
    /\ socket[a].acked # None => a \in rooms[socket[a].acked]

-----------------------------------------------------------------------------
LEMMA MillisType == ASSUME NEW t \in 0..MaxTime PROVE Millis(t) \in 0..MaxTime
BY ChatAssumption DEF Millis

(* The records that calls and readers start from and come back to.         *)
LEMMA IdleType == Idle \in Request
BY ChatAssumption DEF Idle, Request

LEMMA ClosedType == Closed \in Socket
BY DEF Closed, Socket

LEMMA NoRowType == NoRow \in ConversationRow
BY ChatAssumption DEF NoRow, ConversationRow

LEMMA NoHistoryType == NoHistory \in History
BY DEF NoHistory, History, Cursor

LEMMA TypeInit == Init => TypeOK
<1>1. NoMessage \in MessageRow
  BY ChatAssumption DEF NoMessage, MessageRow
<1>. QED
  BY <1>1, NoRowType, IdleType, ClosedType, NoHistoryType, ChatAssumption DEF Init, TypeOK

LEMMA CallTypes ==
  ASSUME TypeOK, SendInv, NEW r \in Clients, Call(r)
  PROVE  TypeOK'
<1>1. CASE FindOpen(r)
  <2>1. \A q \in Request, u \in Customers : [q EXCEPT !.at = "insert", !.user = u] \in Request
    BY DEF Request, Users
  <2>2. PICK u \in Customers : req' = [req EXCEPT ![r] = [Idle EXCEPT !.at = "insert", !.user = u]]
    BY <1>1 DEF FindOpen
  <2>3. [Idle EXCEPT !.at = "insert", !.user = u] \in Request
    BY <2>1, IdleType
  <2>. QED
    BY <1>1, <2>2, <2>3 DEF FindOpen, TypeOK
<1>2. CASE InsertConversation(r)
  <2>1. req' \in [Clients -> Request]
    BY <1>2, IdleType DEF InsertConversation, End, TypeOK
  <2>2. \A row \in ConversationRow, u \in Customers :
          [row EXCEPT !.customer = u, !.status = "OPEN"] \in ConversationRow
    BY DEF ConversationRow
  <2>3. conversations' \in [Conversations -> ConversationRow]
    <3>1. \/ conversations' = conversations
          \/ \E c \in Conversations : conversations' = [conversations EXCEPT
               ![c] = [NoRow EXCEPT !.customer = req[r].user, !.status = "OPEN"]]
      BY <1>2 DEF InsertConversation
    <3>2. req[r].user \in Customers
      BY <1>2 DEF InsertConversation, SendInv
    <3>3. [NoRow EXCEPT !.customer = req[r].user, !.status = "OPEN"] \in ConversationRow
      BY <2>2, <3>2, NoRowType
    <3>. QED
      BY <3>1, <3>3 DEF TypeOK
  <2>. QED
    BY <1>2, <2>1, <2>3 DEF InsertConversation, TypeOK
<1>3. CASE BeginSend(r)
  <2>1. \A t \in {clock, clock + 1} : t <= MaxTime => t \in 0..MaxTime
    BY ChatAssumption DEF TypeOK
  <2>2. \A u \in Users, c \in Conversations, k \in Keys, b \in Bodies, t \in 0..MaxTime :
          [at |-> "lock", user |-> u, conversation |-> c, key |-> k, body |-> b,
           began |-> t, message |-> None] \in Request
    BY DEF Request
  <2>3. clock' \in 0..MaxTime
    BY <1>3, <2>1 DEF BeginSend
  <2>4. \E q \in Request : req' = [req EXCEPT ![r] = q]
    BY <1>3, <2>1, <2>2, Zenon DEF BeginSend
  <2>. QED
    BY <1>3, <2>3, <2>4 DEF BeginSend, TypeOK
<1>4. CASE LockAndCheck(r)
  <2>1. \A q \in Request, m \in Messages : [q EXCEPT !.at = "answered", !.message = m] \in Request
    BY DEF Request
  <2>2. \A q \in Request : [q EXCEPT !.at = "write"] \in Request
    BY DEF Request
  <2>3. \/ \E m \in Messages : req' = [req EXCEPT ![r].at = "answered", ![r].message = m]
        \/ req' = [req EXCEPT ![r] = Idle]
        \/ req' = [req EXCEPT ![r].at = "write"]
    BY <1>4 DEF LockAndCheck, SameKey, Go, End
  <2>4. CASE req' = [req EXCEPT ![r] = Idle] \/ req' = [req EXCEPT ![r].at = "write"]
    BY <1>4, <2>2, <2>4, IdleType DEF LockAndCheck, TypeOK
  <2>5. ASSUME NEW m \in Messages, req' = [req EXCEPT ![r].at = "answered", ![r].message = m]
        PROVE  TypeOK'
    <3>1. [req[r] EXCEPT !.at = "answered", !.message = m] \in Request
      BY <2>1 DEF TypeOK
    <3>. QED
      BY <1>4, <2>5, <3>1 DEF LockAndCheck, TypeOK
  <2>. QED
    BY <2>3, <2>4, <2>5
<1>5. CASE InsertMessage(r)
  <2>1. Millis(req[r].began) \in -1..MaxTime /\ req[r].began \in 0..MaxTime
    BY MillisType DEF TypeOK, Request
  <2>2. [conversation |-> req[r].conversation, sender |-> req[r].user, key |-> req[r].key,
         body |-> req[r].body, read |-> FALSE, createdAt |-> req[r].began] \in MessageRow
    BY <1>5, <2>1 DEF InsertMessage, TypeOK, Request, MessageRow
  <2>4. messages' \in [Messages -> MessageRow]
    BY <1>5, <2>2 DEF InsertMessage, TypeOK
  <2>5. conversations' \in [Conversations -> ConversationRow]
    <3>1. \A row \in ConversationRow, t \in -1..MaxTime :
            [row EXCEPT !.lastMessageAt = t] \in ConversationRow
      BY DEF ConversationRow
    <3>. QED
      BY <1>5, <2>1, <3>1 DEF InsertMessage, TypeOK
  <2>6. req' \in [Clients -> Request]
    <3>1. \A q \in Request, m \in Messages : [q EXCEPT !.at = "emit", !.message = m] \in Request
      BY DEF Request
    <3>2. \A q \in Request : [q EXCEPT !.at = "failed"] \in Request
      BY DEF Request
    <3>3. \/ req' = [req EXCEPT ![r].at = "failed"]
          \/ \E m \in Messages : req' = [req EXCEPT ![r].at = "emit", ![r].message = m]
      BY <1>5 DEF InsertMessage, Go
    <3>4. CASE req' = [req EXCEPT ![r].at = "failed"]
      BY <3>2, <3>4 DEF TypeOK
    <3>5. ASSUME NEW m \in Messages, req' = [req EXCEPT ![r].at = "emit", ![r].message = m]
          PROVE  req' \in [Clients -> Request]
      <4>1. [req[r] EXCEPT !.at = "emit", !.message = m] \in Request
        BY <3>1 DEF TypeOK
      <4>. QED
        BY <3>5, <4>1 DEF TypeOK
    <3>. QED
      BY <3>3, <3>4, <3>5
  <2>. QED
    BY <1>5, <2>4, <2>5, <2>6 DEF InsertMessage, TypeOK
<1>6. CASE Broadcast(r)
  <2>1. req[r].message \in Messages
    BY <1>6 DEF Broadcast, SendInv, Matches
  <2>2. got' \in [Apps -> SUBSET Messages] /\ unsent' \subseteq Messages
    BY <1>6, <2>1 DEF Broadcast, TypeOK
  <2>3. req' \in [Clients -> Request]
    BY <1>6 DEF Broadcast, Go, TypeOK, Request
  <2>. QED
    BY <1>6, <2>2, <2>3 DEF Broadcast, TypeOK
<1>7. CASE Finish(r)
  BY <1>7, IdleType DEF Finish, End, TypeOK
<1>. QED
  BY <1>1, <1>2, <1>3, <1>4, <1>5, <1>6, <1>7 DEF Call

LEMMA WireTypes ==
  ASSUME TypeOK, RoomInv, NEW a \in Apps, Wire(a)
  PROVE  TypeOK'
<1>1. socket' \in [Apps -> Socket]
  BY DEF Wire, Connect, AskJoin, Authenticate, CheckJoin, EnterRoom, Disconnect, TypeOK, RoomInv, Socket, Closed
<1>2. rooms' \in [Conversations -> SUBSET Apps] /\ got' \in [Apps -> SUBSET Messages]
  BY DEF Wire, Connect, AskJoin, Authenticate, CheckJoin, EnterRoom, Disconnect, LeaveAll, TypeOK
<1>3. history' \in [Apps -> History]
  <2>1. [history[a] EXCEPT !.live = FALSE] \in History
    BY DEF TypeOK, History
  <2>. QED
    BY <2>1 DEF Wire, Connect, AskJoin, Authenticate, CheckJoin, EnterRoom, Disconnect, TypeOK
<1>. QED
  BY <1>1, <1>2, <1>3 DEF Wire, Connect, AskJoin, Authenticate, CheckJoin, EnterRoom, Disconnect, TypeOK

LEMMA ReadTypes ==
  ASSUME TypeOK, NEW a \in Apps, Read(a)
  PROVE  TypeOK'
<1>1. history' \in [Apps -> History]
  <2>1. CASE StartHistory(a)
    <3>1. \A h \in History, c \in Conversations :
            [h EXCEPT !.at = "page", !.conversation = c, !.before = Of(c),
               !.live = (socket[a].acked = c)] \in History
      BY DEF History, Of
    <3>. QED
      <4>1. PICK c \in Conversations : history' = [history EXCEPT ![a] =
              [NoHistory EXCEPT !.at = "page", !.conversation = c, !.before = Of(c),
                 !.live = (socket[a].acked = c)]]
        BY <2>1 DEF StartHistory
      <4>2. [NoHistory EXCEPT !.at = "page", !.conversation = c, !.before = Of(c),
               !.live = (socket[a].acked = c)] \in History
        BY <3>1, NoHistoryType
      <4>. QED
        BY <4>1, <4>2 DEF TypeOK
  <2>2. CASE ReadPage(a)
    <3>1. \A h \in History, page \in SUBSET Messages, cursor \in Cursor :
            [h EXCEPT !.at = "mark", !.page = page, !.cursor = cursor] \in History
      BY DEF History
    <3>2. \A last \in Messages : [time |-> messages[last].createdAt, id |-> last] \in Cursor
      BY DEF TypeOK, MessageRow, Cursor
    <3>3. None \in Cursor
      BY DEF Cursor
    <3>4. \E page \in SUBSET Messages, cursor \in Cursor :
            history' = [history EXCEPT ![a].at = "mark", ![a].page = page, ![a].cursor = cursor]
      BY <2>2, <3>2, <3>3 DEF ReadPage, Newest, Of
    <3>. QED
      <4>1. PICK page \in SUBSET Messages, cursor \in Cursor :
              history' = [history EXCEPT ![a].at = "mark", ![a].page = page, ![a].cursor = cursor]
        BY <3>4
      <4>2. [history[a] EXCEPT !.at = "mark", !.page = page, !.cursor = cursor] \in History
        BY <3>1 DEF TypeOK
      <4>. QED
        BY <4>1, <4>2 DEF TypeOK
  <2>3. CASE MarkRead(a)
    <3>1. ASSUME NEW next \in {"done", "page"}
          PROVE  [history[a] EXCEPT !.at = next, !.page = {},
                    !.seen = @ \cup history[a].page] \in History
      BY DEF TypeOK, History
    <3>. QED
      BY <2>3, <3>1 DEF MarkRead, TypeOK
  <2>. QED
    BY <2>1, <2>2, <2>3 DEF Read
<1>2. messages' \in [Messages -> MessageRow]
  <2>1. \A row \in MessageRow : [row EXCEPT !.read = TRUE] \in MessageRow
    BY DEF MessageRow
  <2>. QED
    <3>1. CASE MarkRead(a)
      BY <2>1, <3>1 DEF MarkRead, TypeOK
    <3>2. CASE StartHistory(a) \/ ReadPage(a)
      BY <3>2 DEF StartHistory, ReadPage, TypeOK
    <3>. QED
      BY <3>1, <3>2 DEF Read
<1>. QED
  BY <1>1, <1>2 DEF Read, StartHistory, ReadPage, MarkRead, TypeOK

LEMMA TypeNext == TypeOK /\ SendInv /\ RoomInv /\ [Next]_vars => TypeOK'
<1> SUFFICES ASSUME TypeOK, SendInv, RoomInv, [Next]_vars PROVE TypeOK'
  OBVIOUS
<1>1. ASSUME NEW c \in Conversations, UpdateConversation(c) PROVE TypeOK'
  <2>1. conversations' \in [Conversations -> ConversationRow]
    <3>1. \A row \in ConversationRow, admin \in Admins \cup {None},
             status \in {"OPEN", "CLOSED", None} :
            [row EXCEPT !.assignedAdmin = IF admin = None THEN @ ELSE admin,
                        !.status = IF status = None THEN @ ELSE status] \in ConversationRow
      BY DEF ConversationRow
    <3>2. PICK admin \in Admins \cup {None}, status \in {"OPEN", "CLOSED", None} :
            conversations' = [conversations EXCEPT
              ![c].assignedAdmin = IF admin = None THEN @ ELSE admin,
              ![c].status = IF status = None THEN @ ELSE status]
      BY <1>1 DEF UpdateConversation
    <3>. QED
      BY <3>1, <3>2 DEF TypeOK
  <2>. QED
    BY <1>1, <2>1 DEF UpdateConversation, TypeOK
<1>2. CASE Restart
  BY <1>2, IdleType, ClosedType, NoHistoryType, ChatAssumption
  DEF Restart, LeaveAll, TypeOK
<1>. QED
  BY <1>1, <1>2, CallTypes, WireTypes, ReadTypes DEF Next, vars, TypeOK

-----------------------------------------------------------------------------
(* Steps and what they leave alone.                                        *)
LEMMA WireLeaves ==
  ASSUME NEW a \in Apps, Wire(a)
  PROVE  UNCHANGED <<conversations, messages, req, unsent>>
BY DEF Wire, Connect, AskJoin, Authenticate, CheckJoin, EnterRoom, Disconnect

LEMMA CallLeaves ==
  ASSUME NEW r \in Clients, Call(r)
  PROVE  /\ UNCHANGED <<socket, rooms, history>>
         /\ messages' = messages \/ InsertMessage(r)
         /\ conversations' = conversations \/ InsertMessage(r) \/ InsertConversation(r)
BY DEF Call, FindOpen, InsertConversation, BeginSend, LockAndCheck, InsertMessage,
       Broadcast, Finish

LEMMA ReadLeaves ==
  ASSUME NEW a \in Apps, Read(a)
  PROVE  /\ UNCHANGED <<conversations, req, socket, rooms, got, unsent>>
         /\ messages' = messages \/ MarkRead(a)
BY DEF Read, StartHistory, ReadPage, MarkRead

LEMMA RequestStep ==
  ASSUME TypeOK, [Next]_vars, NEW r \in Clients
  PROVE  req'[r] = req[r] \/ Call(r) \/ Restart
<1>1. ASSUME NEW q \in Clients, Call(q), q # r PROVE req'[r] = req[r]
  BY <1>1
  DEF Call, FindOpen, InsertConversation, BeginSend, LockAndCheck, InsertMessage,
      Broadcast, Finish, Go, End, TypeOK
<1>. QED
  BY <1>1, WireLeaves, ReadLeaves DEF Next, vars, UpdateConversation

LEMMA MessagesStep ==
  ASSUME [Next]_vars
  PROVE  \/ messages' = messages
         \/ \E r \in Clients : InsertMessage(r)
         \/ \E a \in Apps : MarkRead(a)
BY WireLeaves, CallLeaves, ReadLeaves DEF Next, vars, UpdateConversation, Restart

(* A message that was sent stays as it is, except that it becomes read.    *)
LEMMA MessageStays ==
  ASSUME TypeOK, [Next]_vars, NEW m \in Messages, messages[m].conversation # None
  PROVE  /\ messages'[m].conversation = messages[m].conversation
         /\ messages'[m].sender = messages[m].sender
         /\ messages'[m].key = messages[m].key
         /\ messages'[m].body = messages[m].body
         /\ messages'[m].createdAt = messages[m].createdAt
         /\ messages[m].read => messages'[m].read
<1>1. CASE messages' = messages
  BY <1>1
<1>2. ASSUME NEW r \in Clients, InsertMessage(r) PROVE messages'[m] = messages[m]
  BY <1>2 DEF InsertMessage, NoMessage, TypeOK
<1>3. ASSUME NEW a \in Apps, MarkRead(a)
      PROVE  messages'[m] = messages[m] \/ messages'[m] = [messages[m] EXCEPT !.read = TRUE]
  BY <1>3 DEF MarkRead
<1>4. messages[m] \in MessageRow
  BY DEF TypeOK
<1>. QED
  BY <1>1, <1>2, <1>3, <1>4, MessagesStep DEF MessageRow

(* The row lock: as long as a send holds its conversation, it stays open.  *)
LEMMA OpenStays ==
  ASSUME TypeOK, SendInv, [Next]_vars, NEW r \in Clients, At(r, "write")
  PROVE  conversations'[req[r].conversation].status = "OPEN"
<1>1. req[r].conversation \in Conversations
      /\ conversations[req[r].conversation].status = "OPEN"
  BY DEF SendInv, Sending, At
<1>2. CASE conversations' = conversations
  BY <1>1, <1>2
<1>3. ASSUME NEW q \in Clients, InsertConversation(q)
      PROVE  conversations'[req[r].conversation] = conversations[req[r].conversation]
  BY <1>1, <1>3 DEF InsertConversation, TypeOK
<1>4. ASSUME NEW q \in Clients, InsertMessage(q)
      PROVE  conversations'[req[r].conversation].status = "OPEN"
  BY <1>1, <1>4 DEF InsertMessage, TypeOK, ConversationRow
<1>5. ASSUME NEW c \in Conversations, UpdateConversation(c)
      PROVE  conversations'[req[r].conversation] = conversations[req[r].conversation]
  BY <1>1, <1>5 DEF UpdateConversation, Held, TypeOK
<1>. QED
  BY <1>1, <1>2, <1>3, <1>4, <1>5, WireLeaves, CallLeaves, ReadLeaves
  DEF Next, vars, Restart

-----------------------------------------------------------------------------
(* SendInv of one call.                                                    *)
SendOf(r) == SendInv!(r)

LEMMA SendKept ==
  ASSUME TypeOK, SendInv, [Next]_vars, NEW r \in Clients, req'[r] = req[r]
  PROVE  SendOf(r)'
<1>1. At(r, "write") => conversations'[req[r].conversation].status = "OPEN"
  BY OpenStays
<1>2. ASSUME Matches(r), Sending(r) PROVE Matches(r)'
  <2>1. messages[req[r].message].conversation # None
    BY <1>2, ChatAssumption DEF Matches, SendInv
  <2>. QED
    BY <1>2, <2>1, MessageStays DEF Matches
<1>. QED
  BY <1>1, <1>2 DEF SendOf, SendInv, Sending, At

LEMMA SendCalled ==
  ASSUME TypeOK, SendInv, NEW r \in Clients, Call(r)
  PROVE  SendOf(r)'
<1> USE DEF SendOf, Sending, At
<1>1. CASE FindOpen(r)
  <2>1. \A q \in Request, u \in Customers :
          /\ [q EXCEPT !.at = "insert", !.user = u].at = "insert"
          /\ [q EXCEPT !.at = "insert", !.user = u].user = u
    BY DEF Request
  <2>2. PICK u \in Customers : req'[r] = [Idle EXCEPT !.at = "insert", !.user = u]
    BY <1>1 DEF FindOpen, TypeOK
  <2>. QED
    BY <2>1, <2>2, IdleType
<1>2. CASE InsertConversation(r) \/ Finish(r)
  BY <1>2 DEF InsertConversation, Finish, End, Idle, TypeOK
<1>3. CASE BeginSend(r)
  BY <1>3 DEF BeginSend, TypeOK
<1>4. CASE LockAndCheck(r)
  <2>1. \/ \E m \in SameKey(r) : /\ SameHash(r, m)
                                 /\ req' = [req EXCEPT ![r].at = "answered", ![r].message = m]
        \/ req' = [req EXCEPT ![r] = Idle]
        \/ /\ conversations[req[r].conversation].status = "OPEN"
           /\ req' = [req EXCEPT ![r].at = "write"]
    BY <1>4 DEF LockAndCheck, Go, End
  <2>2. UNCHANGED <<conversations, messages>> /\ Sending(r) /\ req[r] \in Request
    BY <1>4 DEF LockAndCheck, TypeOK
  <2>3. ASSUME NEW m \in SameKey(r), SameHash(r, m),
               req' = [req EXCEPT ![r].at = "answered", ![r].message = m]
        PROVE  SendOf(r)'
    BY <2>2, <2>3 DEF SameKey, SameHash, Matches, SendInv, TypeOK, Request
  <2>4. CASE req' = [req EXCEPT ![r] = Idle]
    BY <2>4 DEF Idle, TypeOK
  <2>5. CASE /\ conversations[req[r].conversation].status = "OPEN"
             /\ req' = [req EXCEPT ![r].at = "write"]
    BY <2>2, <2>5 DEF SendInv, TypeOK, Request
  <2>. QED
    BY <2>1, <2>3, <2>4, <2>5
<1>5. CASE InsertMessage(r)
  BY <1>5 DEF InsertMessage, Matches, SendInv, Go, TypeOK, Request
<1>6. CASE Broadcast(r)
  BY <1>6 DEF Broadcast, Matches, SendInv, Go, TypeOK, Request
<1>. QED
  BY <1>1, <1>2, <1>3, <1>4, <1>5, <1>6 DEF Call

LEMMA SendNext == TypeOK /\ SendInv /\ [Next]_vars => SendInv'
<1> SUFFICES ASSUME TypeOK, SendInv, [Next]_vars, NEW r \in Clients
             PROVE  SendOf(r)'
  BY DEF SendInv, SendOf
<1>1. CASE Restart
  BY <1>1 DEF Restart, SendOf, Sending, At, Idle
<1>. QED
  BY <1>1, RequestStep, SendKept, SendCalled

LEMMA SocketStep ==
  ASSUME [Next]_vars
  PROVE  UNCHANGED <<socket, rooms>> \/ Restart \/ \E a \in Apps : Wire(a)
BY CallLeaves, ReadLeaves DEF Next, vars, UpdateConversation

LEMMA RoomNext == TypeOK /\ RoomInv /\ [Next]_vars => RoomInv'
<1> SUFFICES ASSUME TypeOK, RoomInv, [Next]_vars PROVE RoomInv'
  OBVIOUS
<1>1. ASSUME NEW a \in Apps, Connect(a) \/ AskJoin(a) \/ Authenticate(a) PROVE RoomInv'
  <2>1. CASE Connect(a) \/ Authenticate(a)
    <3>1. socket' = [socket EXCEPT ![a].at = "handshake"]
            \/ socket' = [socket EXCEPT ![a].at = "ready"]
      BY <2>1 DEF Connect, Authenticate
    <3>2. rooms' = rooms
      BY <2>1 DEF Connect, Authenticate
    <3>. QED
      BY <3>1, <3>2 DEF RoomInv, TypeOK, Socket
  <2>2. CASE AskJoin(a)
    BY <2>2 DEF AskJoin, RoomInv, TypeOK, Socket
  <2>. QED
    BY <1>1, <2>1, <2>2
<1>2. ASSUME NEW a \in Apps, CheckJoin(a) PROVE RoomInv'
  BY <1>2 DEF CheckJoin, RoomInv, TypeOK, Socket
<1>3. ASSUME NEW a \in Apps, EnterRoom(a) PROVE RoomInv'
  BY <1>3 DEF EnterRoom, RoomInv, TypeOK, Socket
<1>4. ASSUME NEW a \in Apps, Disconnect(a) PROVE RoomInv'
  BY <1>4 DEF Disconnect, LeaveAll, Closed, RoomInv, TypeOK, Socket
<1>5. CASE Restart
  BY <1>5 DEF Restart, LeaveAll, Closed, RoomInv
<1>6. CASE UNCHANGED <<socket, rooms>>
  BY <1>6 DEF RoomInv
<1>. QED
  BY <1>1, <1>2, <1>3, <1>4, <1>5, <1>6, SocketStep DEF Wire

-----------------------------------------------------------------------------
(* What an application has still to be shown lies below its cursor.        *)
PagingOf(a) ==
  /\ history[a].at # "none" => history[a].conversation \in Conversations
  /\ history[a].at = "none" => /\ history[a].before = {} /\ history[a].seen = {}
                               /\ history[a].page = {} /\ ~history[a].live
  /\ \A m \in history[a].before \cup history[a].seen \cup history[a].page :
       messages[m].conversation = history[a].conversation
  /\ history[a].at = "page" =>
       \A m \in history[a].before \ history[a].seen : Below(m, history[a].cursor)
  /\ history[a].at = "mark" =>
       \A m \in history[a].before \ (history[a].seen \cup history[a].page) :
         history[a].cursor # None /\ Below(m, history[a].cursor)
  /\ history[a].at = "done" => history[a].before \subseteq history[a].seen

PagingInv == \A a \in Apps : PagingOf(a)

LEMMA HistoryStep ==
  ASSUME TypeOK, [Next]_vars, NEW a \in Apps
  PROVE  \/ history'[a] = history[a]
         \/ Read(a)
         \/ Disconnect(a) \/ history'[a] = NoHistory
<1>1. ASSUME NEW r \in Clients, Call(r) PROVE history' = history
  BY <1>1, CallLeaves
<1>2. ASSUME NEW b \in Apps, Wire(b), ~Disconnect(b) PROVE history' = history
  BY <1>2 DEF Wire, Connect, AskJoin, Authenticate, CheckJoin, EnterRoom
<1>3. ASSUME NEW b \in Apps, Disconnect(b) \/ Read(b), b # a
      PROVE  history'[a] = history[a]
  BY <1>3 DEF Disconnect, Read, StartHistory, ReadPage, MarkRead, TypeOK
<1>4. CASE Restart
  BY <1>4 DEF Restart
<1>. QED
  BY <1>1, <1>2, <1>3, <1>4 DEF Next, vars, UpdateConversation

LEMMA PagingKept ==
  ASSUME TypeOK, PagingInv, [Next]_vars, NEW a \in Apps,
         history'[a] = history[a] \/ history'[a] = [history[a] EXCEPT !.live = FALSE]
  PROVE  PagingOf(a)'
<1> DEFINE h == history[a]
<1>1. h \in History /\ PagingOf(a)
  BY DEF TypeOK, PagingInv
<1>2. /\ history'[a].at = h.at /\ history'[a].conversation = h.conversation
      /\ history'[a].before = h.before /\ history'[a].seen = h.seen
      /\ history'[a].page = h.page /\ history'[a].cursor = h.cursor
      /\ ~h.live => ~history'[a].live
  BY <1>1 DEF History
<1>3. \A m \in h.before \cup h.seen \cup h.page :
        m \in Messages /\ messages[m].conversation # None
  BY <1>1, ChatAssumption DEF PagingOf, History
<1>4. \A m \in h.before \cup h.seen \cup h.page :
        /\ messages'[m].conversation = messages[m].conversation
        /\ messages'[m].sender = messages[m].sender
        /\ messages'[m].createdAt = messages[m].createdAt
        /\ messages[m].read => messages'[m].read
  BY <1>3, MessageStays
<1>5. \A m \in h.before : Below(m, h.cursor) => Below(m, h.cursor)'
  BY <1>2, <1>4 DEF Below
<1>. QED
  BY <1>1, <1>2, <1>4, <1>5 DEF PagingOf, Below

LEMMA PagingRead ==
  ASSUME TypeOK, PagingInv, NEW a \in Apps, Read(a)
  PROVE  PagingOf(a)'
<1>1. history[a] \in History /\ PagingOf(a)
  BY DEF TypeOK, PagingInv
<1>2. CASE StartHistory(a)
  <2>1. PICK c \in Conversations : history'[a] =
          [NoHistory EXCEPT !.at = "page", !.conversation = c, !.before = Of(c),
             !.live = (socket[a].acked = c)]
    BY <1>2 DEF StartHistory, TypeOK
  <2>2. /\ history'[a].at = "page" /\ history'[a].conversation = c
        /\ history'[a].before = Of(c) /\ history'[a].seen = {}
        /\ history'[a].page = {} /\ history'[a].cursor = None
    BY <2>1 DEF NoHistory
  <2>. QED
    BY <1>2, <2>2 DEF StartHistory, PagingOf, Below, Of
<1>3. CASE ReadPage(a)
  <2> DEFINE h == history[a]
             rest == {m \in Of(h.conversation) : Below(m, h.cursor)}
  <2>1. ASSUME NEW page \in Newest(rest), NEW last \in page,
               \A m \in page \ {last} : Newer(m, last)
        PROVE  \A m \in rest \ page :
                 Below(m, [time |-> messages[last].createdAt, id |-> last])
    <3>1. \A m \in rest \ page : Newer(last, m)
      BY <2>1 DEF Newest
    <3>. QED
      BY <3>1 DEF Newer, Below
  <2>2. \E page \in SUBSET rest, cursor \in Cursor :
          /\ history'[a] = [h EXCEPT !.at = "mark", !.page = page, !.cursor = cursor]
          /\ \A m \in rest \ page : cursor # None /\ Below(m, cursor)
    <3>1. CASE history' = [history EXCEPT ![a].at = "mark", ![a].page = rest, ![a].cursor = None]
      <4>1. history'[a] = [h EXCEPT !.at = "mark", !.page = rest, !.cursor = None]
        BY <3>1 DEF TypeOK
      <4>2. None \in Cursor
        BY DEF Cursor
      <4> HIDE DEF rest, h
      <4>. QED
        BY <4>1, <4>2
    <3>2. ASSUME NEW page \in Newest(rest), NEW last \in page,
                 \A m \in page \ {last} : Newer(m, last),
                 history' = [history EXCEPT ![a].at = "mark", ![a].page = page,
                   ![a].cursor = [time |-> messages[last].createdAt, id |-> last]]
          PROVE  \E p \in SUBSET rest, cursor \in Cursor :
                   /\ history'[a] = [h EXCEPT !.at = "mark", !.page = p, !.cursor = cursor]
                   /\ \A m \in rest \ p : cursor # None /\ Below(m, cursor)
      <4> DEFINE next == [time |-> messages[last].createdAt, id |-> last]
      <4>1. page \in SUBSET rest /\ last \in Messages
        BY <3>2 DEF Newest, Of
      <4>2. next \in Cursor /\ next # None
        BY <4>1, ChatAssumption DEF TypeOK, MessageRow, Cursor
      <4>3. history'[a] = [h EXCEPT !.at = "mark", !.page = page, !.cursor = next]
        BY <3>2 DEF TypeOK
      <4>4. \A m \in rest \ page : Below(m, next)
        BY <2>1, <3>2
      <4> HIDE DEF next
      <4>. QED
        BY <4>1, <4>2, <4>3, <4>4
    <3>. QED
      BY <1>3, <3>1, <3>2 DEF ReadPage
  <2>3. PICK page \in SUBSET rest, cursor \in Cursor :
          /\ history'[a] = [h EXCEPT !.at = "mark", !.page = page, !.cursor = cursor]
          /\ \A m \in rest \ page : cursor # None /\ Below(m, cursor)
    BY <2>2
  <2>4. /\ history'[a].at = "mark" /\ history'[a].conversation = h.conversation
        /\ history'[a].before = h.before /\ history'[a].seen = h.seen
        /\ history'[a].page = page /\ history'[a].cursor = cursor
        /\ messages' = messages /\ h.at = "page"
    BY <1>1, <1>3, <2>3 DEF History, ReadPage
  <2>5. \A m \in h.before \ (h.seen \cup page) : cursor # None /\ Below(m, cursor)
    BY <1>1, <2>3, <2>4 DEF PagingOf, Of, History
  <2>. QED
    BY <1>1, <2>3, <2>4, <2>5 DEF PagingOf, Below, Of
<1>4. CASE MarkRead(a)
  <2> DEFINE h == history[a]
  <2>1. /\ history'[a].at = (IF h.cursor = None THEN "done" ELSE "page")
        /\ history'[a].conversation = h.conversation
        /\ history'[a].before = h.before /\ history'[a].seen = h.seen \cup h.page
        /\ history'[a].page = {} /\ history'[a].cursor = h.cursor
        /\ h.at = "mark"
    BY <1>1, <1>4 DEF MarkRead, TypeOK, History
  <2>2. \A m \in Messages :
          /\ messages'[m].conversation = messages[m].conversation
          /\ messages'[m].sender = messages[m].sender
          /\ messages'[m].createdAt = messages[m].createdAt
          /\ messages[m].read => messages'[m].read
    <3>1. \A m \in Messages : messages[m] \in MessageRow
      BY DEF TypeOK
    <3>2. \A row \in MessageRow :
            /\ [row EXCEPT !.read = TRUE].conversation = row.conversation
            /\ [row EXCEPT !.read = TRUE].sender = row.sender
            /\ [row EXCEPT !.read = TRUE].createdAt = row.createdAt
            /\ [row EXCEPT !.read = TRUE].read
      BY DEF MessageRow
    <3>. QED
      BY <1>4, <3>1, <3>2 DEF MarkRead, ToMark, Of
  <2>3. \A m \in h.before : Below(m, h.cursor) => Below(m, h.cursor)'
    BY <1>1, <2>1, <2>2 DEF Below, History
  <2>. QED
    BY <1>1, <2>1, <2>2, <2>3 DEF PagingOf, Below, History
<1>. QED
  BY <1>2, <1>3, <1>4 DEF Read

LEMMA PagingNext == TypeOK /\ PagingInv /\ [Next]_vars => PagingInv'
<1> SUFFICES ASSUME TypeOK, PagingInv, [Next]_vars, NEW a \in Apps
             PROVE  PagingOf(a)'
  BY DEF PagingInv
<1>1. CASE history'[a] = NoHistory
  BY <1>1 DEF PagingOf, NoHistory
<1>2. CASE Disconnect(a)
  <2>1. history'[a] = [history[a] EXCEPT !.live = FALSE]
    BY <1>2 DEF Disconnect, TypeOK
  <2>. QED
    BY <2>1, PagingKept
<1>. QED
  BY <1>1, <1>2, HistoryStep, PagingKept, PagingRead

-----------------------------------------------------------------------------
(* Every message of the conversation was there when the application began, *)
(* has reached its socket, has failed to, or is about to be broadcast.     *)
LiveOf(a) ==
  history[a].live =>
    /\ a \in rooms[history[a].conversation]
    /\ \A m \in Messages : messages[m].conversation = history[a].conversation =>
         m \in history[a].before \cup got[a] \cup unsent \cup Emitting

LiveInv == \A a \in Apps : LiveOf(a)

(* A message on its way stays so until it is broadcast to the room.        *)
LEMMA EmittingStep ==
  ASSUME TypeOK, SendInv, [Next]_vars, NEW m \in Emitting,
         NEW a \in rooms[messages[m].conversation]
  PROVE  m \in Emitting' \/ m \in unsent' \/ m \in got'[a] \/ Restart
<1>1. PICK r \in Clients : At(r, "emit") /\ m = req[r].message
  BY DEF Emitting
<1>2. CASE req'[r] = req[r]
  BY <1>1, <1>2 DEF Emitting, At
<1>3. CASE Broadcast(r)
  <2>1. messages[m].conversation = req[r].conversation
        /\ req[r].conversation \in Conversations
    BY <1>1 DEF SendInv, Matches, Sending, At
  <2>2. a \in Apps
    BY <2>1 DEF TypeOK
  <2>. QED
    BY <1>1, <1>3, <2>1, <2>2 DEF Broadcast
<1>4. Call(r) => Broadcast(r)
  BY <1>1
  DEF Call, FindOpen, InsertConversation, BeginSend, LockAndCheck, InsertMessage,
      Finish, At
<1>. QED
  BY <1>2, <1>3, <1>4, RequestStep

LEMMA NewMessageEmits ==
  ASSUME TypeOK, SendInv, [Next]_vars, NEW m \in Messages,
         messages'[m].conversation # messages[m].conversation
  PROVE  m \in Emitting'
<1>1. ASSUME NEW a \in Apps, MarkRead(a) PROVE FALSE
  <2>1. messages[m] \in MessageRow
    BY DEF TypeOK
  <2>. QED
    BY <1>1, <2>1 DEF MarkRead, MessageRow
<1>2. PICK r \in Clients : InsertMessage(r)
  BY <1>1, MessagesStep
<1>3. At(r, "emit")' /\ req'[r].message = m
  BY <1>2 DEF InsertMessage, At, Go, TypeOK, Request
<1>. QED
  BY <1>3 DEF Emitting

LEMMA LiveStart ==
  ASSUME TypeOK, RoomInv, NEW a \in Apps, StartHistory(a)
  PROVE  LiveOf(a)'
<1>1. PICK c \in Conversations :
        /\ history'[a] =
             [NoHistory EXCEPT !.at = "page", !.conversation = c, !.before = Of(c),
                !.live = (socket[a].acked = c)]
        /\ UNCHANGED <<messages, rooms>>
  BY DEF StartHistory, TypeOK
<1>2. /\ history'[a].conversation = c /\ history'[a].before = Of(c)
      /\ history'[a].live <=> (socket[a].acked = c)
  BY <1>1 DEF NoHistory
<1>3. history'[a].live => a \in rooms[c]
  BY <1>2, ChatAssumption DEF RoomInv
<1>. QED
  BY <1>1, <1>2, <1>3 DEF LiveOf, Of

LEMMA LiveKept ==
  ASSUME TypeOK, SendInv, LiveInv, [Next]_vars, NEW a \in Apps,
         history[a].live, history[a].conversation \in Conversations,
         ~Disconnect(a), ~Restart,
         history'[a].conversation = history[a].conversation,
         history'[a].before = history[a].before
  PROVE  LiveOf(a)'
<1> DEFINE c == history[a].conversation
<1>1. a \in rooms[c]
  BY DEF LiveInv, LiveOf
<1>2. a \in rooms'[c] /\ got[a] \subseteq got'[a]
  <2>1. ASSUME NEW b \in Apps, Wire(b) PROVE a \in rooms'[c] /\ got[a] \subseteq got'[a]
    BY <1>1, <2>1
    DEF Wire, Connect, AskJoin, Authenticate, CheckJoin, EnterRoom, Disconnect,
        LeaveAll, TypeOK
  <2>2. ASSUME NEW r \in Clients, Call(r) PROVE a \in rooms'[c] /\ got[a] \subseteq got'[a]
    BY <1>1, <2>2
    DEF Call, FindOpen, InsertConversation, BeginSend, LockAndCheck, InsertMessage,
        Broadcast, Finish
  <2>. QED
    BY <1>1, <2>1, <2>2, ReadLeaves DEF Next, vars, UpdateConversation
<1>3. unsent \subseteq unsent'
  <2>1. ASSUME NEW r \in Clients, Call(r) PROVE unsent \subseteq unsent'
    BY <2>1
    DEF Call, FindOpen, InsertConversation, BeginSend, LockAndCheck, InsertMessage,
        Broadcast, Finish
  <2>. QED
    BY <2>1, WireLeaves, ReadLeaves DEF Next, vars, UpdateConversation
<1>4. ASSUME NEW m \in Messages, messages'[m].conversation = c
      PROVE  m \in history'[a].before \cup got'[a] \cup unsent' \cup Emitting'
  <2>1. CASE messages[m].conversation # c
    BY <1>4, <2>1, NewMessageEmits
  <2>2. CASE messages[m].conversation = c
    <3>1. m \in history[a].before \cup got[a] \cup unsent \cup Emitting
      BY <2>2 DEF LiveInv, LiveOf
    <3>. QED
      BY <1>1, <1>2, <1>3, <2>2, <3>1, EmittingStep
  <2>. QED
    BY <2>1, <2>2
<1>. QED
  BY <1>2, <1>4 DEF LiveOf

LEMMA LiveNext ==
  TypeOK /\ SendInv /\ RoomInv /\ PagingInv /\ LiveInv /\ [Next]_vars => LiveInv'
<1> SUFFICES ASSUME TypeOK, SendInv, RoomInv, PagingInv, LiveInv, [Next]_vars,
                    NEW a \in Apps
             PROVE  LiveOf(a)'
  BY DEF LiveInv
<1>1. history[a] \in History
  BY DEF TypeOK
<1>2. CASE history'[a] = NoHistory
  BY <1>2 DEF LiveOf, NoHistory
<1>3. CASE Disconnect(a)
  <2>1. ~history'[a].live
    BY <1>1, <1>3 DEF Disconnect, TypeOK, History
  <2>. QED
    BY <2>1 DEF LiveOf
<1>4. CASE StartHistory(a)
  BY <1>4, LiveStart
<1>5. CASE history'[a] = history[a] \/ ReadPage(a) \/ MarkRead(a)
  <2>1. /\ history'[a].conversation = history[a].conversation
        /\ history'[a].before = history[a].before
        /\ history'[a].live = history[a].live
    <3>1. CASE ReadPage(a)
      <4>1. PICK page, cursor :
              history' = [history EXCEPT ![a].at = "mark", ![a].page = page, ![a].cursor = cursor]
        BY <3>1 DEF ReadPage
      <4>. QED
        BY <1>1, <4>1 DEF TypeOK, History
    <3>2. CASE MarkRead(a)
      BY <1>1, <3>2 DEF MarkRead, TypeOK, History
    <3>. QED
      BY <1>5, <3>1, <3>2
  <2>2. history[a].live => history[a].conversation \in Conversations
    BY DEF PagingInv, PagingOf
  <2>3. Restart => history'[a] = NoHistory
    BY DEF Restart
  <2>. QED
    BY <1>2, <1>3, <2>1, <2>2, <2>3, LiveKept DEF LiveOf
<1>. QED
  BY <1>2, <1>3, <1>4, <1>5, HistoryStep DEF Read

-----------------------------------------------------------------------------
Inv == TypeOK /\ SendInv /\ RoomInv /\ PagingInv /\ LiveInv

LEMMA InvInit == Init => Inv
<1> SUFFICES ASSUME Init PROVE Inv
  OBVIOUS
<1>1. SendInv
  BY DEF Init, SendInv, Sending, At, Idle
<1>2. RoomInv
  BY DEF Init, RoomInv, Closed
<1>3. PagingInv
  BY DEF Init, PagingInv, PagingOf, NoHistory
<1>4. LiveInv
  BY DEF Init, LiveInv, LiveOf, NoHistory
<1>. QED
  BY <1>1, <1>2, <1>3, <1>4, TypeInit DEF Inv

LEMMA ChatInvariance == Spec => []Inv
<1>1. Inv /\ [Next]_vars => Inv'
  BY TypeNext, SendNext, RoomNext, PagingNext, LiveNext DEF Inv
<1>. QED
  BY <1>1, InvInit, PTL DEF Spec

(* The tables, calls, sockets, rooms and histories keep their types.       *)
THEOREM ChatTyped == Spec => []TypeOK
<1>1. Inv => TypeOK
  BY DEF Inv
<1>. QED
  BY <1>1, ChatInvariance, PTL

(* A retry is answered with the message that this very request has sent,   *)
(* however often the key is used and whatever other calls do.              *)
THEOREM RetriesAnswered == Spec => []AnswersMatch
<1>1. Inv => AnswersMatch
  BY DEF Inv, SendInv, Matches, AnswersMatch
<1>. QED
  BY <1>1, ChatInvariance, PTL

(* No message is committed to a conversation that is not OPEN: the row     *)
(* lock from the status check to the commit keeps updateConversation out.  *)
THEOREM ClosedStaysClosed == Spec => ClosedTakesNothing
<1>1. ASSUME Inv, [Next]_vars, NEW m \in Messages,
             messages[m] = NoMessage, messages'[m] # NoMessage
      PROVE  conversations'[messages'[m].conversation].status = "OPEN"
  <2>1. ASSUME NEW a \in Apps, MarkRead(a) PROVE FALSE
    <3>1. history[a].conversation # None
      BY <1>1, <2>1, ChatAssumption DEF MarkRead, Inv, PagingInv, PagingOf
    <3>. QED
      BY <1>1, <2>1, <3>1 DEF MarkRead, ToMark, Of, NoMessage
  <2>2. PICK r \in Clients : InsertMessage(r)
    BY <1>1, <2>1, MessagesStep
  <2>3. messages'[m].conversation = req[r].conversation /\ At(r, "write")
    BY <1>1, <2>2 DEF InsertMessage, Inv, TypeOK
  <2>. QED
    BY <1>1, <2>3, OpenStays DEF Inv
<1>2. Inv /\ [Next]_vars =>
        [\A m \in Messages :
           messages[m] = NoMessage /\ messages'[m] # NoMessage
             => conversations'[messages'[m].conversation].status = "OPEN"]_vars
  BY <1>1
<1>. QED
  BY <1>2, ChatInvariance, PTL DEF Spec, ClosedTakesNothing

(* An application whose join was acknowledged before it began to page, and *)
(* that has paged to the end, misses no message of the conversation but    *)
(* those whose broadcast failed or is still to come.                       *)
THEOREM NoMessageMissed == Spec => []NoGap
<1>1. Inv => NoGap
  <2> SUFFICES ASSUME Inv, NEW a \in Apps, history[a].at = "done", history[a].live
               PROVE  Of(history[a].conversation)
                        \subseteq history[a].seen \cup got[a] \cup unsent \cup Emitting
    BY DEF NoGap
  <2>1. PagingOf(a) /\ LiveOf(a)
    BY DEF Inv, PagingInv, LiveInv
  <2>. QED
    BY <2>1 DEF PagingOf, LiveOf, Of
<1>. QED
  BY <1>1, ChatInvariance, PTL

(* Paging to the end shows every message that was there at the start,      *)
(* whatever is sent meanwhile, for any page limit and any clock.           *)
THEOREM HistoriesComplete == Spec => []HistoryComplete
<1>1. Inv => HistoryComplete
  BY DEF Inv, PagingInv, PagingOf, HistoryComplete
<1>. QED
  BY <1>1, ChatInvariance, PTL
=============================================================================
