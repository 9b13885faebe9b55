------------------------------ MODULE ChatHub ------------------------------
(***************************************************************************)
(* The hub of chat-service (hub.go) with the pumps of its connections        *)
(* (handler.go). One goroutine, Run, registers and removes clients and sends  *)
(* to their channels; each connection has one goroutine that reads from the   *)
(* WebSocket and one that writes to it. A user has one client: a new          *)
(* connection replaces the one before, whose goroutines find out later.      *)
(***************************************************************************)
EXTENDS Naturals, Sequences

CONSTANTS
    ChatUsers,
    NoClient,       \* a user who is not in Hub.clients
    Conns,          \* WebSocket connections
    Rooms,          \* conversation ids
    Posts,          \* messages that clients send
    SendBuffer,     \* capacity of Client.Send: 256
    HubBuffer       \* capacity of Hub.broadcast: 256

ASSUME ChatAssumption ==
    /\ NoClient \notin Conns
    /\ {SendBuffer, HubBuffer} \subseteq Nat \ {0}

VARIABLES
    online,         \* Hub.clients
    conn,           \* each connection: its Client, and its goroutines
    broadcast,      \* Hub.broadcast
    taken,          \* the connection or message that Run has received and not handled yet
    post,           \* what became of each message
    panicked,       \* a channel was closed twice, or sent to after its close
    entered,        \* history: messages in the order in which they entered broadcast
    joined          \* history: the rooms that a connection itself joined and did not leave

chatVars == <<online, conn, broadcast, taken, post, panicked, entered, joined>>

Message == [post: Posts, room: Rooms]
NoMessage == [post |-> "none"]
Unused == [reader |-> "unused"]
Idling == [op |-> "select"]

\* send is the channel, open until it is closed; got is what went out to the peer; out
\* is the message of a reader that waits for room in Hub.broadcast.
Client == [user: ChatUsers, rooms: SUBSET Rooms, open: BOOLEAN,
           send: Seq(Message), got: Seq(Message), out: Message \cup {NoMessage},
           reader: {"registering", "reading", "sending", "leaving", "gone"},
           writer: {"running", "gone"}]

\* What the hub and the connections keep; no channel holds more than its capacity.
ChatTypeOK ==
    /\ online \in [ChatUsers -> Conns \cup {NoClient}]
    /\ DOMAIN conn = Conns
    /\ \A c \in Conns : conn[c] \in Client \cup {Unused}
    /\ \A c \in Conns : conn[c].reader # "unused" => Len(conn[c].send) <= SendBuffer
    /\ broadcast \in Seq(Message) /\ Len(broadcast) <= HubBuffer
    /\ taken \in {Idling} \cup [op: {"register", "unregister"}, conn: Conns]
                            \cup [op: {"broadcast"}, message: Message]
    /\ post \in [Posts -> {"new", "stored", "lost"}]
    /\ panicked \in BOOLEAN
    /\ entered \in Seq(Message)
    /\ joined \in [Conns -> SUBSET Rooms]

ChatInit ==
    /\ online = [u \in ChatUsers |-> NoClient]
    /\ conn = [c \in Conns |-> Unused]
    /\ broadcast = <<>>
    /\ taken = Idling
    /\ post = [p \in Posts |-> "new"]
    /\ panicked = FALSE
    /\ entered = <<>>
    /\ joined = [c \in Conns |-> {}]

Connected(c) == conn[c].reader # "unused"
IsOnline(c) == Connected(c) /\ online[conn[c].user] = c

-----------------------------------------------------------------------------
(* HandleWebSocket and Hub.Run *)

\* The upgrade succeeded; Register waits for Run.
Connect(c, u) ==
    /\ ~Connected(c)
    /\ conn' = [conn EXCEPT ![c] =
                  [user |-> u, rooms |-> {}, open |-> TRUE, send |-> <<>>, got |-> <<>>,
                   out |-> NoMessage, reader |-> "registering", writer |-> "running"]]
    /\ UNCHANGED <<online, broadcast, taken, post, panicked, entered, joined>>

\* An unbuffered channel: the sender goes on as soon as Run has received. The goroutines
\* of the connection start.
SendRegister(c) ==
    /\ Connected(c) /\ conn[c].reader = "registering"
    /\ taken = Idling
    /\ taken' = [op |-> "register", conn |-> c]
    /\ conn' = [conn EXCEPT ![c].reader = "reading"]
    /\ UNCHANGED <<online, broadcast, post, panicked, entered, joined>>

SendUnregister(c) ==
    /\ Connected(c) /\ conn[c].reader = "leaving"
    /\ taken = Idling
    /\ taken' = [op |-> "unregister", conn |-> c]
    /\ conn' = [conn EXCEPT ![c].reader = "gone"]
    /\ UNCHANGED <<online, broadcast, post, panicked, entered, joined>>

\* Mutant: the message stays in the channel, for the clients whose own was full.
BugTakeBroadcast ==
    /\ taken = Idling /\ broadcast # <<>>
    /\ taken' = [op |-> "broadcast", message |-> Head(broadcast)]
    /\ broadcast' = Append(Tail(broadcast), Head(broadcast))
    /\ UNCHANGED <<online, conn, post, panicked, entered, joined>>

TakeBroadcast ==
    /\ taken = Idling /\ broadcast # <<>>
    /\ taken' = [op |-> "broadcast", message |-> Head(broadcast)]
    /\ broadcast' = Tail(broadcast)
    /\ UNCHANGED <<online, conn, post, panicked, entered, joined>>

\* close(client.Send)
CloseSend(c) ==
    /\ conn' = [conn EXCEPT ![c].open = FALSE]
    /\ panicked' = (panicked \/ ~conn[c].open)

\* Mutant: the client that is replaced keeps its channel.
BugRegister(c) ==
    /\ online' = [online EXCEPT ![conn[c].user] = c]
    /\ UNCHANGED <<conn, panicked>>

\* The channel of an existing client of the user is closed.
Register(c) ==
    LET existing == online[conn[c].user]
    IN  /\ IF existing # NoClient THEN CloseSend(existing) ELSE UNCHANGED <<conn, panicked>>
        /\ online' = [online EXCEPT ![conn[c].user] = c]

\* Mutant: the client of the user is removed, whichever it is.
BugUnregister(c) ==
    IF online[conn[c].user] # NoClient
    THEN /\ online' = [online EXCEPT ![conn[c].user] = NoClient]
         /\ CloseSend(c)
    ELSE UNCHANGED <<online, conn, panicked>>

\* Only if it is still the client of its user.
Unregister(c) ==
    IF IsOnline(c)
    THEN /\ online' = [online EXCEPT ![conn[c].user] = NoClient]
         /\ CloseSend(c)
    ELSE UNCHANGED <<online, conn, panicked>>

\* A full channel is skipped.
Pushed(send, m) == IF Len(send) < SendBuffer THEN Append(send, m) ELSE send

\* To all clients in the room, under the read lock.
Distribute(m) ==
    LET inRoom == {c \in Conns : IsOnline(c) /\ m.room \in conn[c].rooms}
    IN  /\ conn' = [c \in Conns |-> IF c \in inRoom
                                    THEN [conn[c] EXCEPT !.send = Pushed(@, m)]
                                    ELSE conn[c]]
        /\ panicked' = (panicked \/ \E c \in inRoom : ~conn[c].open)
        /\ UNCHANGED online

\* What Run received is handled, and Run selects again.
Handle ==
    /\ \/ taken.op = "register" /\ Register(taken.conn)
       \/ taken.op = "unregister" /\ Unregister(taken.conn)
       \/ taken.op = "broadcast" /\ Distribute(taken.message)
    /\ taken' = Idling
    /\ UNCHANGED <<broadcast, post, entered, joined>>

-----------------------------------------------------------------------------
(* readPump; it may read what has arrived even after writePump closed the WebSocket *)

Reading(c) == Connected(c) /\ conn[c].reader = "reading"

\* JoinConversation and LeaveConversation look the client up by its user.
SetRooms(c, room, member) ==
    LET cur == online[conn[c].user]
        with(R) == IF member THEN R \cup {room} ELSE R \ {room}
    IN  /\ conn' = IF cur = NoClient THEN conn
                   ELSE [conn EXCEPT ![cur].rooms = with(@)]
        /\ joined' = [joined EXCEPT ![c] = with(@)]

JoinConversation(c, room) ==
    /\ Reading(c)
    /\ SetRooms(c, room, TRUE)
    /\ UNCHANGED <<online, broadcast, taken, post, panicked, entered>>

LeaveConversation(c, room) ==
    /\ Reading(c)
    /\ SetRooms(c, room, FALSE)
    /\ UNCHANGED <<online, broadcast, taken, post, panicked, entered>>

\* Any other message is for the hub, whether its sender is in the room or not.
ReadMessage(c, p, room) ==
    /\ Reading(c) /\ post[p] = "new"
    /\ \A d \in Conns : Connected(d) => conn[d].out.post # p
    /\ conn' = [conn EXCEPT ![c].reader = "sending", ![c].out = [post |-> p, room |-> room]]
    /\ UNCHANGED <<online, broadcast, taken, post, panicked, entered, joined>>

\* Broadcast returns when the hub's channel has room. Then persistMessage stores the
\* message, or prints an error.
Broadcast(c) ==
    /\ Connected(c) /\ conn[c].reader = "sending"
    /\ Len(broadcast) < HubBuffer
    /\ broadcast' = Append(broadcast, conn[c].out)
    /\ entered' = Append(entered, conn[c].out)
    /\ \E outcome \in {"stored", "lost"} : post' = [post EXCEPT ![conn[c].out.post] = outcome]
    /\ conn' = [conn EXCEPT ![c].reader = "reading", ![c].out = NoMessage]
    /\ UNCHANGED <<online, taken, panicked, joined>>

\* The peer is gone or silent for 60 s, or writePump has closed the WebSocket.
ReadFails(c) ==
    /\ Connected(c) /\ conn[c].reader = "reading"
    /\ conn' = [conn EXCEPT ![c].reader = "leaving"]
    /\ UNCHANGED <<online, broadcast, taken, post, panicked, entered, joined>>

-----------------------------------------------------------------------------
(* writePump *)

Writing(c) == Connected(c) /\ conn[c].reader # "registering" /\ conn[c].writer = "running"

\* A message is received from Send and written.
WriteMessage(c) ==
    /\ Writing(c) /\ conn[c].send # <<>>
    /\ conn' = [conn EXCEPT ![c].send = Tail(@), ![c].got = Append(@, Head(conn[c].send))]
    /\ UNCHANGED <<online, broadcast, taken, post, panicked, entered, joined>>

\* The channel is closed and empty, or the WebSocket fails: at a ping, or at a message that
\* was received from Send.
WriterReturns(c) ==
    /\ Writing(c)
    /\ \/ conn' = [conn EXCEPT ![c].writer = "gone"]
       \/ conn[c].send # <<>>
          /\ conn' = [conn EXCEPT ![c].writer = "gone", ![c].send = Tail(@)]
    /\ UNCHANGED <<online, broadcast, taken, post, panicked, entered, joined>>

ChatNext ==
    \/ TakeBroadcast \/ Handle
    \/ \E c \in Conns :
         \/ \E u \in ChatUsers : Connect(c, u)
         \/ SendRegister(c) \/ SendUnregister(c)
         \/ \E r \in Rooms : JoinConversation(c, r) \/ LeaveConversation(c, r)
         \/ \E p \in Posts, r \in Rooms : ReadMessage(c, p, r)
         \/ Broadcast(c) \/ ReadFails(c)
         \/ WriteMessage(c) \/ WriterReturns(c)

ChatSpec == ChatInit /\ [][ChatNext]_chatVars

-----------------------------------------------------------------------------
(* Properties *)

\* Run neither closes a channel twice nor sends to a closed one: either would end the
\* process with every connection.
NeverPanics == ~panicked

\* Run is about to add or remove the connection.
Due(c) == taken.op \in {"register", "unregister"} /\ taken.conn = c

\* The goroutines of a connection that is no longer its user's client come to an end: its
\* channel is closed. And no user stays online whose reader has returned.
OfflineIsClosed ==
    \A c \in Conns : Connected(c) /\ conn[c].reader # "registering" /\ ~Due(c) =>
        /\ IsOnline(c) = conn[c].open
        /\ conn[c].reader = "gone" => ~IsOnline(c)

Before(m, n) == \E i, j \in DOMAIN entered : i < j /\ entered[i] = m /\ entered[j] = n

\* Every peer gets messages in the one order in which they were broadcast, and none twice,
\* also a peer that was replaced or was skipped in between.
DeliveredInOrder ==
    \A c \in Conns : Connected(c) =>
        LET all == conn[c].got \o conn[c].send
        IN  \A i, j \in DOMAIN all : i < j => Before(all[i], all[j])

\* A client is in no room that it did not join or has left, if its user had no other
\* connection.
RoomsAreJoined ==
    \A c \in Conns :
        Connected(c) /\ (\A d \in Conns \ {c} : Connected(d) => conn[d].user # conn[c].user) =>
            conn[c].rooms \subseteq joined[c]

\* "conversation IDs this client is in" (hub.go:16), of every client that is online. A
\* connection that was replaced still joins and leaves rooms for its successor, and a join
\* that is read before Run has handled the registration is lost.
RoomsAreOwn == \A c \in Conns : IsOnline(c) => conn[c].rooms = joined[c]

\* What the hub promises its clients.
ChatSafety ==
    /\ ChatTypeOK
    /\ NeverPanics
    /\ OfflineIsClosed
    /\ DeliveredInOrder
    /\ RoomsAreJoined
=============================================================================
