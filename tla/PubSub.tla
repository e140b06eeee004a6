------------------------------- MODULE PubSub -------------------------------
(***************************************************************************)
(* The publication of object ids (pubsub).  Publish sends an id to the     *)
(* connections of listeners and calls the notifiers.  The notifier of the  *)
(* HTTP API puts it, in a goroutine, into the channel of every websocket;  *)
(* the handler of each websocket takes it from there.  A channel has room  *)
(* for Cap ids, and a handler that fails marks its channel as closed.      *)
(***************************************************************************)
EXTENDS Naturals, Sequences, FiniteSets, Functions

CONSTANTS
    Listeners,      \* clients of pubsub/client, on connections of their own
    Sockets,        \* websockets
    Flaky,          \* those to which writing may fail
    Cap,            \* of a channel: 100
    MaxPublish      \* bound on the objects published

NoSocket == "none"

ASSUME PubSubAssumption ==
    NoSocket \notin Sockets /\ Flaky \subseteq Sockets /\ Cap \in Nat \ {0} /\ MaxPublish \in Nat

VARIABLES
    published,      \* how many objects have been
    publishing,     \* the object whose Publish is writing to the connections
    known,          \* listeners that have learnt the address of the node
    listening,      \* the connections of listeners
    broken,         \* listeners that have gone
    inbox,          \* what each listener has received
    waiting,        \* the objects whose Callback goroutine has not begun
    current,        \* the one that holds s.mu, or 0
    todo, done,     \* its loop: the channels left, the closed ones it has met
    held,           \* the channel whose mutex it holds
    chans,          \* the channels of the websockets
    queue,          \* what is in each
    closed,         \* its flag
    closings,       \* how often the channel has been closed
    socket,         \* the handler of each websocket
    joined,         \* ghost: published when it was added
    delivered,      \* what it has written to its client
    stopped,        \* the context is done
    crashed         \* the map of connections was written while Publish was in its loop

serverVars == <<published, publishing, known, listening, broken, inbox>>
callbackVars == <<waiting, current, todo, done, held, closings>>
handlerVars == <<closed, socket, joined, delivered, stopped>>
pubsubVars == <<serverVars, callbackVars, handlerVars, chans, queue, crashed>>

PubSubInit ==
    /\ published = 0 /\ publishing = {} /\ known = {} /\ listening = {} /\ broken = {}
    /\ inbox = [l \in Listeners |-> <<>>]
    /\ waiting = {} /\ current = 0 /\ todo = {} /\ done = {} /\ held = NoSocket
    /\ chans = {} /\ queue = [s \in Sockets |-> <<>>]
    /\ closed = [s \in Sockets |-> FALSE] /\ closings = [s \in Sockets |-> 0]
    /\ socket = [s \in Sockets |-> "none"] /\ joined = [s \in Sockets |-> 0]
    /\ delivered = [s \in Sockets |-> <<>>]
    /\ stopped = FALSE /\ crashed = FALSE

-----------------------------------------------------------------------------
(* The server.                                                             *)

\* Publish calls the notifiers and turns to the connections.
publish ==
    /\ published < MaxPublish /\ publishing = {}
    /\ published' = published + 1
    /\ waiting' = waiting \cup {published'}
    /\ publishing' = publishing \cup {published'}
    /\ UNCHANGED <<known, listening, broken, inbox, current, todo, done, held, closings, handlerVars, chans, queue, crashed>>

\* It writes to all of them and removes those that are broken.
publishWrite ==
    /\ \E p \in publishing :
          /\ publishing' = publishing \ {p}
          /\ inbox' = [l \in Listeners |-> IF l \in listening \ broken THEN Append(inbox[l], p) ELSE inbox[l]]
    /\ listening' = listening \ broken
    /\ UNCHANGED <<published, known, broken, callbackVars, handlerVars, chans, queue, crashed>>

\* A listener hears of the node for the first time and dials; handleConnection adds the
\* connection to the map, without the mutex.
discover(l) ==
    /\ l \notin known
    /\ known' = known \cup {l}
    /\ listening' = listening \cup {l}
    /\ crashed' \in IF publishing = {} THEN {FALSE} ELSE BOOLEAN
    /\ UNCHANGED <<published, publishing, broken, inbox, callbackVars, handlerVars, chans, queue>>

\* Dialling fails: the address is known, so the listener does not dial again.
discoverFails(l) ==
    /\ l \notin known
    /\ known' = known \cup {l}
    /\ UNCHANGED <<published, publishing, listening, broken, inbox, callbackVars, handlerVars, chans, queue, crashed>>

leave(l) ==
    /\ l \in listening \ broken
    /\ broken' = broken \cup {l}
    /\ UNCHANGED <<published, publishing, known, listening, inbox, callbackVars, handlerVars, chans, queue, crashed>>

-----------------------------------------------------------------------------
(* Callback.                                                               *)

lock(p) ==
    /\ p \in waiting /\ current = 0
    /\ waiting' = waiting \ {p}
    /\ current' = p /\ todo' = chans /\ done' = {}
    /\ UNCHANGED <<serverVars, held, closings, handlerVars, chans, queue, crashed>>

\* The loop takes the mutex of the next channel, in any order.
take(s) ==
    /\ current # 0 /\ held = NoSocket /\ s \in todo
    /\ held' = s
    /\ UNCHANGED <<serverVars, waiting, current, todo, done, closings, handlerVars, chans, queue, crashed>>

\* It closes a channel that is marked, and sends to the others when there is room.
send ==
    /\ held # NoSocket
    /\ IF closed[held]
       THEN /\ closings' = [closings EXCEPT ![held] = @ + 1]
            /\ done' = done \cup {held}
            /\ UNCHANGED queue
       ELSE /\ Len(queue[held]) < Cap
            /\ queue' = [queue EXCEPT ![held] = Append(@, current)]
            /\ UNCHANGED <<closings, done>>
    /\ todo' = todo \ {held}
    /\ held' = NoSocket
    /\ UNCHANGED <<serverVars, waiting, current, handlerVars, chans, crashed>>

\* The channels that were closed are removed.
unlock ==
    /\ current # 0 /\ todo = {}
    /\ chans' = chans \ done
    /\ current' = 0
    /\ UNCHANGED <<serverVars, waiting, todo, done, held, closings, handlerVars, queue, crashed>>

-----------------------------------------------------------------------------
(* Websocket.                                                              *)

addChan(s) ==
    /\ socket[s] = "none" /\ current = 0
    /\ chans' = chans \cup {s}
    /\ socket' = [socket EXCEPT ![s] = "running"]
    /\ joined' = [joined EXCEPT ![s] = published]
    /\ UNCHANGED <<serverVars, callbackVars, closed, delivered, stopped, queue, crashed>>

\* A faulty variant: the message stays in the channel.
writeMessagePeek(s) ==
    /\ socket[s] = "running" /\ queue[s] # <<>>
    /\ delivered' = [delivered EXCEPT ![s] = Append(@, Head(queue[s]))]
    /\ queue' = [queue EXCEPT ![s] = IF Len(@) > 1 THEN Tail(@) ELSE @]
    /\ Len(delivered[s]) <= MaxPublish
    /\ UNCHANGED <<serverVars, callbackVars, closed, socket, joined, stopped, chans, crashed>>

writeMessage(s) ==
    /\ socket[s] = "running" /\ queue[s] # <<>>
    /\ delivered' = [delivered EXCEPT ![s] = Append(@, Head(queue[s]))]
    /\ queue' = [queue EXCEPT ![s] = Tail(@)]
    /\ UNCHANGED <<serverVars, callbackVars, closed, socket, joined, stopped, chans, crashed>>

\* Writing fails, or the context is done: the handler is to close its channel,
writeMessageFails(s) ==
    /\ socket[s] = "running" /\ queue[s] # <<>> /\ s \in Flaky
    /\ queue' = [queue EXCEPT ![s] = Tail(@)]
    /\ socket' = [socket EXCEPT ![s] = "closing"]
    /\ UNCHANGED <<serverVars, callbackVars, closed, joined, delivered, stopped, chans, crashed>>

contextDone(s) ==
    /\ socket[s] = "running" /\ stopped
    /\ socket' = [socket EXCEPT ![s] = "closing"]
    /\ UNCHANGED <<serverVars, callbackVars, closed, joined, delivered, stopped, chans, queue, crashed>>

\* for which it needs the mutex of the channel.
Close(s) ==
    /\ socket[s] = "closing" /\ held # s
    /\ closed' = [closed EXCEPT ![s] = TRUE]
    /\ socket' = [socket EXCEPT ![s] = "gone"]
    /\ UNCHANGED <<serverVars, callbackVars, joined, delivered, stopped, chans, queue, crashed>>

Stop ==
    /\ ~stopped /\ stopped' = TRUE
    /\ UNCHANGED <<serverVars, callbackVars, closed, socket, joined, delivered, chans, queue, crashed>>

Callback == (\E p \in waiting : lock(p)) \/ (\E s \in Sockets : take(s)) \/ send \/ unlock
Websocket(s) == addChan(s) \/ writeMessage(s) \/ writeMessageFails(s) \/ contextDone(s) \/ Close(s)

PubSubNext ==
    /\ ~crashed
    /\ \/ publish \/ publishWrite \/ Callback \/ Stop
       \/ \E l \in Listeners : discover(l) \/ discoverFails(l) \/ leave(l)
       \/ \E s \in Sockets : Websocket(s)

PubSubSpec == PubSubInit /\ [][PubSubNext]_pubsubVars

-----------------------------------------------------------------------------
(* Properties.                                                             *)

\* No channel is closed twice, which would be a panic.
ClosedOnce == \A s \in Sockets : closings[s] <= 1

\* No client of a websocket receives an object twice.
ReceivedOnce == \A s \in Sockets : IsInjective(delivered[s])

\* A listener receives the objects in the order in which they are published.
InOrder == \A l \in Listeners : \A i, j \in DOMAIN inbox[l] : i < j => inbox[l][i] < inbox[l][j]

\* All three: what subscribers see of the objects, whether they listen on a connection or have a
\* websocket (pubsub and rest/api/pubsub).
DeliveredOnce == ClosedOnce /\ ReceivedOnce /\ InOrder

=============================================================================
