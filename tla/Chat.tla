-------------------------------- MODULE Chat --------------------------------
(***************************************************************************)
(* Support chat: ChatService, ChatAccessService and ChatGateway.  A REST   *)
(* call that writes is a process whose transactions are steps; a client    *)
(* application has at most one socket and pages through one history.       *)
(*                                                                         *)
(* A conversation row is locked by SELECT ... FOR UPDATE from the read of  *)
(* a send to its commit; created_at is the time the transaction began.     *)
(***************************************************************************)
EXTENDS Integers, FiniteSets

CONSTANTS
  Customers, Admins,
  Conversations, \* ids of chat_conversations rows
  Messages,      \* ids of chat_messages rows
  Keys, Bodies,
  Clients,       \* REST calls under way at the same time
  Apps,          \* client applications
  Owner,         \* the user of each application
  PageLimit,     \* limit of listMessages
  Micros,        \* clock readings in a millisecond
  MaxTime,       \* bound: clock
  MaxRestarts,   \* bound: restarts of the server
  None

Users == Customers \cup Admins

ASSUME ChatAssumption ==
  /\ Messages \subseteq Nat /\ MaxTime \in Nat /\ MaxRestarts \in Nat
  /\ PageLimit \in Nat \ {0} /\ Micros \in Nat \ {0}
  /\ Owner \in [Apps -> Users] /\ Customers \cap Admins = {}
  /\ None \notin Users \cup Conversations \cup Messages \cup Keys \cup Bodies
  /\ None \notin [time : 0..MaxTime, id : Messages]

VARIABLES
  conversations, \* the chat_conversations table
  messages,      \* the chat_messages table
  clock,
  req,           \* the REST call of each client
  socket,        \* the socket of each application
  rooms,         \* members of each Socket.IO room
  got,           \* messages an application has been sent over its socket
  history,       \* the history an application pages through
  unsent,        \* messages whose broadcast failed
  restarts

vars == <<conversations, messages, clock, req, socket, rooms, got, history,
          unsent, restarts>>

-----------------------------------------------------------------------------
(* lastMessageAt is -1 while it is NULL.                                   *)
ConversationRow ==
  [customer : Customers \cup {None}, status : {"ABSENT", "OPEN", "CLOSED"},
   assignedAdmin : Admins \cup {None}, lastMessageAt : -1..MaxTime]

MessageRow ==
  [conversation : Conversations \cup {None}, sender : Users \cup {None},
   key : Keys \cup {None}, body : Bodies \cup {None}, read : BOOLEAN,
   createdAt : 0..MaxTime]

(* A call between two of its steps.                                        *)
Request ==
  [at : {"idle", "insert", "lock", "write", "emit", "answered", "failed"},
   user : Users \cup {None}, conversation : Conversations \cup {None},
   key : Keys \cup {None}, body : Bodies \cup {None}, began : 0..MaxTime,
   message : Messages \cup {None}]

(* A socket: its handshake, the join it waits for and the join that was    *)
(* acknowledged.                                                           *)
Socket ==
  [at : {"closed", "handshake", "ready", "joining"},
   join : Conversations \cup {None}, acked : Conversations \cup {None}]

(* createdAtRaw and id of the last message of a page.                      *)
Cursor == [time : 0..MaxTime, id : Messages] \cup {None}

(* before and live are what the application can rely on: the messages      *)
(* there were when it asked for the first page, and a join acknowledged    *)
(* before that.                                                            *)
History ==
  [at : {"none", "page", "mark", "done"}, conversation : Conversations \cup {None},
   cursor : Cursor, page : SUBSET Messages, seen : SUBSET Messages,
   before : SUBSET Messages, live : BOOLEAN]

NoRow ==
  [customer |-> None, status |-> "ABSENT", assignedAdmin |-> None, lastMessageAt |-> -1]
NoMessage ==
  [conversation |-> None, sender |-> None, key |-> None, body |-> None,
   read |-> FALSE, createdAt |-> 0]
Idle ==
  [at |-> "idle", user |-> None, conversation |-> None, key |-> None,
   body |-> None, began |-> 0, message |-> None]
Closed == [at |-> "closed", join |-> None, acked |-> None]
NoHistory ==
  [at |-> "none", conversation |-> None, cursor |-> None, page |-> {},
   seen |-> {}, before |-> {}, live |-> FALSE]

At(r, step) == req[r].at = step
Go(r, step) == req' = [req EXCEPT ![r].at = step]
End(r) == req' = [req EXCEPT ![r] = Idle]

Of(c) == {m \in Messages : messages[m].conversation = c}

(* created_at loses its microseconds in a JavaScript Date.                 *)
Millis(t) == t - (t % Micros)

CanAccess(c, u) ==
  /\ conversations[c].status # "ABSENT"
  /\ u \in Admins \/ conversations[c].customer = u

(* Mutant: the row is read without a lock.                                 *)
NotLocked(c) == FALSE

(* Rows that a send has locked.                                            *)
Held(c) == \E r \in Clients : At(r, "write") /\ req[r].conversation = c

-----------------------------------------------------------------------------
(* CHAT-01, getOrCreateOpenConversation.  A customer who has an OPEN       *)
(* conversation is answered with it.  Bound: as many calls go on to insert *)
(* as there are ids left.                                                  *)
HasOpen(u) ==
  \E c \in Conversations :
    conversations[c].customer = u /\ conversations[c].status = "OPEN"

FindOpen(r) ==
  \E u \in Customers :
    /\ At(r, "idle") /\ ~HasOpen(u)
    /\ Cardinality({q \in Clients : At(q, "insert")})
         < Cardinality({c \in Conversations : conversations[c].status = "ABSENT"})
    /\ req' = [req EXCEPT ![r] = [Idle EXCEPT !.at = "insert", !.user = u]]
    /\ UNCHANGED <<conversations, messages, clock, socket, rooms, got, history,
                   unsent, restarts>>

(* The partial unique index lets one INSERT through; the others find the   *)
(* winner, or fail if it has been closed again.                            *)
InsertConversation(r) ==
  /\ At(r, "insert")
  /\ \/ /\ HasOpen(req[r].user)
        /\ UNCHANGED conversations
     \/ /\ ~HasOpen(req[r].user)
        /\ \E c \in Conversations :
             /\ conversations[c].status = "ABSENT"
             /\ conversations' = [conversations EXCEPT
                  ![c] = [NoRow EXCEPT !.customer = req[r].user, !.status = "OPEN"]]
  /\ End(r)
  /\ UNCHANGED <<messages, clock, socket, rooms, got, history, unsent, restarts>>

(* Mutant: a field that the PATCH leaves out is written all the same.      *)
UpdateOmitted(c) ==
  \E admin \in Admins \cup {None}, status \in {"OPEN", "CLOSED", None} :
    LET row == conversations[c]
    IN /\ row.status # "ABSENT" /\ ~Held(c)
       /\ <<admin, status>> # <<None, None>>
       /\ status # row.status
       /\ status = "OPEN" => ~HasOpen(row.customer)
       /\ conversations' =
            [conversations EXCEPT ![c].assignedAdmin = admin, ![c].status = status]
       /\ UNCHANGED <<messages, clock, req, socket, rooms, got, history, unsent,
                      restarts>>

(* CHAT-06, updateConversation: an active admin is assigned, the status    *)
(* changes, or both.  Reopening stops at the partial unique index.         *)
UpdateConversation(c) ==
  \E admin \in Admins \cup {None}, status \in {"OPEN", "CLOSED", None} :
    LET row == conversations[c]
    IN /\ row.status # "ABSENT" /\ ~Held(c)
       /\ <<admin, status>> # <<None, None>>
       /\ status # row.status
       /\ status = "OPEN" => ~HasOpen(row.customer)
       /\ conversations' = [conversations EXCEPT
            ![c].assignedAdmin = IF admin = None THEN @ ELSE admin,
            ![c].status = IF status = None THEN @ ELSE status]
       /\ UNCHANGED <<messages, clock, req, socket, rooms, got, history, unsent,
                      restarts>>

-----------------------------------------------------------------------------
(* CHAT-04, sendMessage.  The transaction begins, then waits for the row.  *)
(* Bound: a new key needs an id that no other call may take.               *)
IdLeft ==
  Cardinality({q \in Clients : At(q, "lock") \/ At(q, "write")})
    < Cardinality({m \in Messages : messages[m] = NoMessage})

BeginSend(r) ==
  \E u \in Users, c \in Conversations, k \in Keys, b \in Bodies, t \in {clock, clock + 1} :
    /\ At(r, "idle") /\ t <= MaxTime
    /\ CanAccess(c, u)
    /\ IdLeft \/ \E m \in Messages : messages[m].sender = u /\ messages[m].key = k
    /\ clock' = t
    /\ req' = [req EXCEPT ![r] =
         [at |-> "lock", user |-> u, conversation |-> c, key |-> k, body |-> b,
          began |-> t, message |-> None]]
    /\ UNCHANGED <<conversations, messages, socket, rooms, got, history, unsent,
                   restarts>>

SameKey(r) ==
  {m \in Messages : messages[m].sender = req[r].user /\ messages[m].key = req[r].key}

(* Mutant: the hash covers only the body.                                  *)
SameBody(r, m) == messages[m].body = req[r].body

(* hashRequest covers the conversation and the body.                       *)
SameHash(r, m) ==
  messages[m].conversation = req[r].conversation /\ messages[m].body = req[r].body

(* findMessageReplay, then the status of the row that is now locked.       *)
LockAndCheck(r) ==
  LET c == req[r].conversation
  IN /\ At(r, "lock") /\ ~Held(c)
     /\ \/ \E m \in SameKey(r) :
             /\ SameHash(r, m)
             /\ req' = [req EXCEPT ![r].at = "answered", ![r].message = m]
        \/ \E m \in SameKey(r) : ~SameHash(r, m) /\ End(r)
        \/ SameKey(r) = {} /\ conversations[c].status # "OPEN" /\ End(r)
        \/ SameKey(r) = {} /\ conversations[c].status = "OPEN" /\ Go(r, "write")
     /\ UNCHANGED <<conversations, messages, clock, socket, rooms, got, history,
                    unsent, restarts>>

(* INSERT, last_message_at and COMMIT.  A unique violation has aborted the *)
(* transaction, so that the second findMessageReplay fails with it.        *)
InsertMessage(r) ==
  LET c == req[r].conversation
  IN /\ At(r, "write")
     /\ \/ /\ SameKey(r) # {}
           /\ Go(r, "failed")
           /\ UNCHANGED <<conversations, messages>>
        \/ \E m \in Messages :
             /\ SameKey(r) = {} /\ messages[m] = NoMessage
             /\ messages' = [messages EXCEPT ![m] =
                  [conversation |-> c, sender |-> req[r].user, key |-> req[r].key,
                   body |-> req[r].body, read |-> FALSE, createdAt |-> req[r].began]]
             /\ conversations' =
                  [conversations EXCEPT ![c].lastMessageAt = Millis(req[r].began)]
             /\ req' = [req EXCEPT ![r].at = "emit", ![r].message = m]
     /\ UNCHANGED <<clock, socket, rooms, got, history, unsent, restarts>>

(* broadcastMessageCreated; the call is answered either way.               *)
Broadcast(r) ==
  /\ At(r, "emit")
  /\ \/ /\ got' = [a \in Apps |->
               IF a \in rooms[req[r].conversation]
               THEN got[a] \cup {req[r].message} ELSE got[a]]
        /\ UNCHANGED unsent
     \/ unsent' = unsent \cup {req[r].message} /\ UNCHANGED got
  /\ Go(r, "answered")
  /\ UNCHANGED <<conversations, messages, clock, socket, rooms, history, restarts>>

Finish(r) ==
  /\ At(r, "answered") \/ At(r, "failed")
  /\ End(r)
  /\ UNCHANGED <<conversations, messages, clock, socket, rooms, got, history,
                 unsent, restarts>>

-----------------------------------------------------------------------------
(* handleConnection: authPromise is there before the token is verified.    *)
Connect(a) ==
  /\ socket[a].at = "closed"
  /\ socket' = [socket EXCEPT ![a].at = "handshake"]
  /\ UNCHANGED <<conversations, messages, clock, req, rooms, got, history, unsent,
                 restarts>>

(* conversation.join may come before the handshake is over.                *)
AskJoin(a) ==
  \E c \in Conversations :
    /\ socket[a].at \in {"handshake", "ready"} /\ socket[a].join = None
    /\ socket' = [socket EXCEPT ![a].join = c]
    /\ UNCHANGED <<conversations, messages, clock, req, rooms, got, history, unsent,
                   restarts>>

Authenticate(a) ==
  /\ socket[a].at = "handshake"
  /\ socket' = [socket EXCEPT ![a].at = "ready"]
  /\ UNCHANGED <<conversations, messages, clock, req, rooms, got, history, unsent,
                 restarts>>

(* Mutant: the join is acknowledged before the socket is in the room.      *)
AckBeforeJoin(a) ==
  LET c == socket[a].join
  IN /\ socket[a].at = "ready" /\ c # None
     /\ socket' = [socket EXCEPT ![a] =
          IF CanAccess(c, Owner[a]) /\ conversations[c].status = "OPEN"
          THEN [@ EXCEPT !.at = "joining", !.acked = c] ELSE [@ EXCEPT !.join = None]]
     /\ UNCHANGED <<conversations, messages, clock, req, rooms, got, history, unsent,
                    restarts>>

(* assertCanJoinConversation.  What it has read may be stale by the time   *)
(* the socket joins.                                                       *)
CheckJoin(a) ==
  LET c == socket[a].join
  IN /\ socket[a].at = "ready" /\ c # None
     /\ socket' = [socket EXCEPT ![a] =
          IF CanAccess(c, Owner[a]) /\ conversations[c].status = "OPEN"
          THEN [@ EXCEPT !.at = "joining"] ELSE [@ EXCEPT !.join = None]]
     /\ UNCHANGED <<conversations, messages, clock, req, rooms, got, history, unsent,
                    restarts>>

EnterRoom(a) ==
  LET c == socket[a].join
  IN /\ socket[a].at = "joining"
     /\ rooms' = [rooms EXCEPT ![c] = @ \cup {a}]
     /\ socket' = [socket EXCEPT ![a] = [at |-> "ready", join |-> None, acked |-> c]]
     /\ UNCHANGED <<conversations, messages, clock, req, got, history, unsent,
                    restarts>>

(* A refused handshake, a client that leaves or a broken connection: the   *)
(* socket leaves its rooms and its pending join comes to nothing.          *)
LeaveAll(S) == rooms' = [c \in Conversations |-> rooms[c] \ S]

Disconnect(a) ==
  /\ socket[a].at # "closed"
  /\ socket' = [socket EXCEPT ![a] = Closed]
  /\ LeaveAll({a})
  /\ got' = [got EXCEPT ![a] = {}]
  /\ history' = [history EXCEPT ![a].live = FALSE]
  /\ UNCHANGED <<conversations, messages, clock, req, unsent, restarts>>

-----------------------------------------------------------------------------
(* Mutant: the cursor carries a Date.                                      *)
BelowMillis(m, cursor) ==
  \/ cursor = None
  \/ messages[m].createdAt < Millis(cursor.time)
  \/ messages[m].createdAt = Millis(cursor.time) /\ m < cursor.id

(* CHAT-03, listMessages, from the newest message to the oldest.           *)
Below(m, cursor) ==
  \/ cursor = None
  \/ messages[m].createdAt < cursor.time
  \/ messages[m].createdAt = cursor.time /\ m < cursor.id

Newer(m, n) ==
  \/ messages[m].createdAt > messages[n].createdAt
  \/ messages[m].createdAt = messages[n].createdAt /\ m > n

StartHistory(a) ==
  \E c \in Conversations :
    /\ history[a].at \in {"none", "done"}
    /\ CanAccess(c, Owner[a])
    /\ history' = [history EXCEPT ![a] =
         [NoHistory EXCEPT !.at = "page", !.conversation = c, !.before = Of(c),
            !.live = (socket[a].acked = c)]]
    /\ UNCHANGED <<conversations, messages, clock, req, socket, rooms, got, unsent,
                   restarts>>

(* The newest PageLimit messages of a set that holds more.                 *)
Newest(rest) ==
  {page \in SUBSET rest :
     Cardinality(page) = PageLimit /\ \A m \in page, n \in rest \ page : Newer(m, n)}

(* The page of at most PageLimit messages below the cursor, and the cursor *)
(* that follows it when there are more.                                    *)
ReadPage(a) ==
  LET h == history[a]
      rest == {m \in Of(h.conversation) : Below(m, h.cursor)}
      Show(page, cursor) ==
        history' = [history EXCEPT ![a].at = "mark", ![a].page = page, ![a].cursor = cursor]
  IN /\ h.at = "page"
     /\ \/ Cardinality(rest) <= PageLimit /\ Show(rest, None)
        \/ \E page \in Newest(rest) : \E last \in page :
             /\ \A m \in page \ {last} : Newer(m, last)
             /\ Cardinality(rest) > PageLimit
             /\ Show(page, [time |-> messages[last].createdAt, id |-> last])
     /\ UNCHANGED <<conversations, messages, clock, req, socket, rooms, got, unsent,
                    restarts>>

(* markOthersMessagesRead: every message of somebody else that is unread   *)
(* by now, in the page or not.                                             *)
ToMark(c, u) == {m \in Of(c) : messages[m].sender # u}

MarkRead(a) ==
  LET h == history[a]
  IN /\ h.at = "mark"
     /\ messages' = [m \in Messages |->
          IF m \in ToMark(h.conversation, Owner[a])
          THEN [messages[m] EXCEPT !.read = TRUE] ELSE messages[m]]
     /\ history' = [history EXCEPT
          ![a].at = IF h.cursor = None THEN "done" ELSE "page",
          ![a].page = {}, ![a].seen = @ \cup h.page]
     /\ UNCHANGED <<conversations, clock, req, socket, rooms, got, unsent, restarts>>

-----------------------------------------------------------------------------
(* The server restarts: calls, sockets and rooms are gone, a transaction   *)
(* that has not committed is rolled back.                                  *)
Restart ==
  /\ restarts < MaxRestarts
  /\ restarts' = restarts + 1
  /\ req' = [r \in Clients |-> Idle]
  /\ socket' = [a \in Apps |-> Closed]
  /\ LeaveAll(Apps)
  /\ got' = [a \in Apps |-> {}]
  /\ history' = [a \in Apps |-> NoHistory]
  /\ UNCHANGED <<conversations, messages, clock, unsent>>

Init ==
  /\ conversations = [c \in Conversations |-> NoRow]
  /\ messages = [m \in Messages |-> NoMessage]
  /\ clock = 0
  /\ req = [r \in Clients |-> Idle]
  /\ socket = [a \in Apps |-> Closed]
  /\ rooms = [c \in Conversations |-> {}]
  /\ got = [a \in Apps |-> {}]
  /\ history = [a \in Apps |-> NoHistory]
  /\ unsent = {}
  /\ restarts = 0

Call(r) ==
  \/ FindOpen(r) \/ InsertConversation(r)
  \/ BeginSend(r) \/ LockAndCheck(r) \/ InsertMessage(r) \/ Broadcast(r)
  \/ Finish(r)

Wire(a) ==
  \/ Connect(a) \/ AskJoin(a) \/ Authenticate(a) \/ CheckJoin(a) \/ EnterRoom(a)
  \/ Disconnect(a)

Read(a) == StartHistory(a) \/ ReadPage(a) \/ MarkRead(a)

Next ==
  \/ \E r \in Clients : Call(r)
  \/ \E c \in Conversations : UpdateConversation(c)
  \/ \E a \in Apps : Wire(a) \/ Read(a)
  \/ Restart

Spec == Init /\ [][Next]_vars

-----------------------------------------------------------------------------
TypeOK ==
  /\ conversations \in [Conversations -> ConversationRow]
  /\ messages \in [Messages -> MessageRow]
  /\ clock \in 0..MaxTime
  /\ req \in [Clients -> Request]
  /\ socket \in [Apps -> Socket]
  /\ rooms \in [Conversations -> SUBSET Apps]
  /\ got \in [Apps -> SUBSET Messages]
  /\ history \in [Apps -> History]
  /\ unsent \subseteq Messages
  /\ restarts \in 0..MaxRestarts

(* What the call of InsertMessage has committed and not yet broadcast.     *)
Emitting == {req[r].message : r \in {q \in Clients : At(q, "emit")}}

(* A closed conversation takes no message: whatever sendMessage read       *)
(* before it inserts, the conversation is still OPEN when the message      *)
(* commits.                                                                *)
ClosedTakesNothing ==
  [][\A m \in Messages :
       messages[m] = NoMessage /\ messages'[m] # NoMessage
         => conversations'[messages'[m].conversation].status = "OPEN"]_vars

(* "When it reconnects, the client calls REST to make up for events it may *)
(* have missed": an application whose join was acknowledged before it      *)
(* began to page, and that has paged to the end, misses no message of the  *)
(* conversation except those whose broadcast failed or is still to come.   *)
NoGap ==
  \A a \in Apps :
    LET h == history[a]
    IN h.at = "done" /\ h.live
         => Of(h.conversation) \subseteq h.seen \cup got[a] \cup unsent \cup Emitting

(* Paging from the newest message to the end shows every message that was  *)
(* there at the start, whatever is sent in the meantime and however many   *)
(* messages share a millisecond.                                           *)
HistoryComplete ==
  \A a \in Apps : history[a].at = "done" => history[a].before \subseteq history[a].seen

(* A retry is answered with the message that this very request has sent:   *)
(* same sender, same key, same conversation, same body.                    *)
AnswersMatch ==
  \A r \in Clients : At(r, "answered") =>
    LET row == messages[req[r].message]
    IN /\ row.sender = req[r].user /\ row.key = req[r].key
       /\ row.conversation = req[r].conversation /\ row.body = req[r].body
=============================================================================
