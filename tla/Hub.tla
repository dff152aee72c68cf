--------------------------------- MODULE Hub ---------------------------------
(***************************************************************************)
(* Events to the browsers (internal/websocket).  One goroutine owns the    *)
(* table of clients: it takes the events one by one and puts each on the   *)
(* channel of every client.  A client has two goroutines of its own, one   *)
(* that reads from its connection, only to see it end, and one that writes *)
(* what is on its channel.  Events are numbered as the hub takes them.     *)
(***************************************************************************)
EXTENDS Naturals, Sequences

CONSTANTS
    Client, None,
    QueueSize,      \* capacity of the hub's channel
    SendSize,       \* capacity of a client's channel
    MaxEvents       \* bound: events

VARIABLES
    waiting,    \* events on the hub's channel
    taken,      \* events the hub has taken
    turn,       \* clients the hub has still to give the latest event, or None between two events
    clients,    \* the table
    send,       \* client -> its channel
    closed,     \* clients whose channel is closed
    reader,     \* client -> "none", "registering", "starting", "reading", "leaving" or "gone"
    writer,     \* client -> "none", "writing" or "gone"
    events,     \* bound: events so far
    joined,     \* ghost: client -> events taken before it was registered
    got,        \* ghost: client -> the events that reached the browser
    panicked    \* ghost: a channel was closed twice

vars == <<waiting, taken, turn, clients, send, closed, reader, writer, events, joined, got, panicked>>
clientVars == <<clients, send, closed, reader, writer, joined, got, panicked>>

NewHub == waiting = 0 /\ taken = 0 /\ turn = None /\ clients = {}
NewClients ==
    /\ send = [c \in Client |-> <<>>] /\ closed = {}
    /\ reader = [c \in Client |-> "none"] /\ writer = [c \in Client |-> "none"]

Init ==
    /\ NewHub /\ NewClients
    /\ events = 0
    /\ joined = [c \in Client |-> 0]
    /\ got = [c \in Client |-> <<>>]
    /\ panicked = FALSE

TypeOK ==
    /\ waiting \in 0 .. QueueSize /\ taken \in 0 .. MaxEvents
    /\ turn = None \/ turn \subseteq Client
    /\ clients \subseteq Client /\ closed \subseteq Client
    /\ \A c \in Client : Len(send[c]) <= SendSize
    /\ reader \in [Client -> {"none", "registering", "starting", "reading", "leaving", "gone"}]
    /\ writer \in [Client -> {"none", "writing", "gone"}]
    /\ panicked \in BOOLEAN

(*************************** The hub ****************************************)

(* Broadcast: an event that finds the channel full is dropped. *)
Broadcast ==
    /\ events < MaxEvents
    /\ events' = events + 1
    /\ waiting' = IF waiting < QueueSize THEN waiting + 1 ELSE waiting
    /\ UNCHANGED <<taken, turn, clientVars>>

(* Run: the next event, *)
Take ==
    /\ turn = None /\ waiting > 0
    /\ waiting' = waiting - 1 /\ taken' = taken + 1
    /\ turn' = clients
    /\ UNCHANGED <<events, clientVars>>

Close(c) ==
    /\ closed' = closed \union {c}
    /\ clients' = clients \ {c}
    /\ panicked' = (panicked \/ c \in closed)

(* Fault: a client with a full channel misses the event. *)
GiveOrSkip(c) ==
    /\ send' = [send EXCEPT ![c] = IF Len(@) < SendSize THEN Append(@, taken) ELSE @]
    /\ UNCHANGED <<clients, closed, panicked>>

(* which a client with a full channel does not miss: it is disconnected. *)
Give(c) ==
    \/ /\ Len(send[c]) < SendSize
       /\ send' = [send EXCEPT ![c] = Append(@, taken)]
       /\ UNCHANGED <<clients, closed, panicked>>
    \/ /\ Len(send[c]) = SendSize
       /\ Close(c)
       /\ UNCHANGED send

Deliver(c) ==
    /\ turn # None /\ c \in turn
    /\ Give(c)
    /\ turn' = turn \ {c}
    /\ UNCHANGED <<waiting, taken, events, reader, writer, joined, got>>

Delivered ==
    /\ turn = {}
    /\ turn' = None
    /\ UNCHANGED <<waiting, taken, events, clientVars>>

(*************************** Clients ****************************************)

(* handleWebSocket, NewClient *)
Connect(c) ==
    /\ reader[c] = "none"
    /\ reader' = [reader EXCEPT ![c] = "registering"]
    /\ UNCHANGED <<waiting, taken, turn, events, clients, send, closed, writer, joined, got, panicked>>

(* Register: from now on events go to the client's channel, *)
Register(c) ==
    /\ reader[c] = "registering" /\ turn = None
    /\ clients' = clients \union {c}
    /\ joined' = [joined EXCEPT ![c] = taken]
    /\ reader' = [reader EXCEPT ![c] = "starting"]
    /\ UNCHANGED <<waiting, taken, turn, events, send, closed, writer, got, panicked>>

(* and Start: its goroutines run. *)
Start(c) ==
    /\ reader[c] = "starting"
    /\ reader' = [reader EXCEPT ![c] = "reading"]
    /\ writer' = [writer EXCEPT ![c] = "writing"]
    /\ UNCHANGED <<waiting, taken, turn, events, clients, send, closed, joined, got, panicked>>

(* readPump: the connection ends, from here or from the browser. *)
ReadPump(c) ==
    /\ reader[c] = "reading"
    /\ reader' = [reader EXCEPT ![c] = "leaving"]
    /\ UNCHANGED <<waiting, taken, turn, events, clients, send, closed, writer, joined, got, panicked>>

(* unregister: nothing, when the hub has disconnected the client before. *)
Unregister(c) ==
    /\ reader[c] = "leaving" /\ turn = None
    /\ reader' = [reader EXCEPT ![c] = "gone"]
    /\ IF c \in clients THEN Close(c) ELSE UNCHANGED <<clients, closed, panicked>>
    /\ UNCHANGED <<waiting, taken, turn, events, send, writer, joined, got>>

(* writePump: all there is on the channel in one message, or the connection fails. *)
WritePump(c) ==
    /\ writer[c] = "writing" /\ send[c] # <<>>
    /\ send' = [send EXCEPT ![c] = <<>>]
    /\ \/ got' = [got EXCEPT ![c] = @ \o send[c]] /\ UNCHANGED writer
       \/ writer' = [writer EXCEPT ![c] = "gone"] /\ UNCHANGED got
    /\ UNCHANGED <<waiting, taken, turn, events, clients, closed, reader, joined, panicked>>

(* The channel is closed, or a ping fails. *)
WriteEnds(c) ==
    /\ writer[c] = "writing" /\ (send[c] = <<>> \/ c \notin closed)
    /\ writer' = [writer EXCEPT ![c] = "gone"]
    /\ UNCHANGED <<waiting, taken, turn, events, clients, send, closed, reader, joined, got, panicked>>

-----------------------------------------------------------------------------
Next ==
    \/ Broadcast \/ Take \/ Delivered
    \/ \E c \in Client : \/ Deliver(c) \/ Connect(c) \/ Register(c) \/ Start(c)
                         \/ ReadPump(c) \/ Unregister(c) \/ WritePump(c) \/ WriteEnds(c)

Spec == Init /\ [][Next]_vars

-----------------------------------------------------------------------------
(* What reaches a browser, and what is on its way until its writer ends,    *)
(* are the events since it was registered without a gap, up to the latest   *)
(* for a client in the table: a client that is too slow is disconnected and *)
(* never left with a page that misses a change (hub.go Run), and a channel  *)
(* is closed once, although the hub and the client's reader both do so.     *)
NoGaps ==
    /\ ~panicked
    /\ \A c \in Client :
        LET all == got[c] \o (IF writer[c] = "gone" THEN <<>> ELSE send[c])
        IN  /\ \A i \in DOMAIN all : all[i] = joined[c] + i
            /\ (c \in clients /\ writer[c] # "gone" /\ (turn = None \/ c \notin turn)) => Len(all) = taken - joined[c]
=============================================================================
