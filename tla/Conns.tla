------------------------------- MODULE Conns --------------------------------
(***************************************************************************)
(* Requests between nodes that are acknowledged (internal/conns).  A cache *)
(* keeps one connection per node.  Several goroutines write requests, one  *)
(* per connection reads the acknowledgements, and one writes the requests  *)
(* again that were not acknowledged in three seconds.  The connection is   *)
(* closed when nothing is read for a second, when a write fails, and when  *)
(* the handler at the other end returns an error.                          *)
(***************************************************************************)
EXTENDS Naturals, Sequences, FiniteSets, Functions

CONSTANTS
    Requests,       \* the requests
    Dest,           \* the node of each
    Message,        \* the message of each: Query sends one message to every node of a shard,
    Earlier,        \* ... one after the other: the requests its goroutine writes before
    MaxEarly,       \* bound on the requests written again although the answer is on its way,
                    \* and on the answers processed before the request is pending,
    MaxTimeouts,    \* ... on the reads that time out,
    MaxErrors       \* ... and on the requests that a handler refuses or that find the node down

Retry == "retry"
ASSUME ConnsAssumption ==
    /\ Retry \notin Requests
    /\ Dest \in [Requests -> Nat] /\ DOMAIN Message = Requests
    /\ Earlier \in [Requests -> SUBSET Requests]
    /\ {MaxEarly, MaxTimeouts, MaxErrors} \subseteq Nat

Dests    == {Dest[r] : r \in Requests}
Messages == {Message[r] : r \in Requests}
Writers  == Requests \cup {Retry}

VARIABLES
    conns,          \* of each node: in the map and open, in the map and closed, or not in it
    gen,            \* how many connections there have been
    writer,         \* what each writer does next
    id,             \* the id its WriteRequest has drawn
    msgID,          \* the ID field of each message
    nextID,         \* atomicid
    pendingAcks,    \* node, id and request
    redolist,       \* the requests that retryRequests writes again
    wire,           \* written and not handled: node, connection, id, request
    acks,           \* read and not processed: node and id
    handled,        \* ghost: how often each request has been handled
    called,         \* ghost: how often each callback has been called
    early, timeouts, errors

connsVars ==
    <<conns, gen, writer, id, msgID, nextID, pendingAcks, redolist, wire, acks, handled, called,
      early, timeouts, errors>>
budget == <<early, timeouts, errors>>

ConnsTypeOK ==
    /\ conns \in [Dests -> {"none", "open", "closed"}]
    /\ gen \in [Dests -> Nat]
    /\ writer \in [Writers -> {"begin", "write", "pend", "done"}]
    /\ nextID \in Nat /\ id \in [Writers -> 0..nextID] /\ msgID \in [Messages -> 0..nextID]
    /\ pendingAcks \subseteq [node : Dests, id : 1..nextID, req : Requests]
    /\ redolist \in Seq(Requests)
    /\ wire \subseteq [node : Dests, gen : Nat, id : 1..nextID, req : Requests]
    /\ acks \subseteq [node : Dests, id : 1..nextID]
    /\ handled \in [Requests -> Nat] /\ called \in [Requests -> Nat]
    /\ early \in 0..MaxEarly /\ timeouts \in 0..MaxTimeouts /\ errors \in 0..MaxErrors

ConnsInit ==
    /\ conns = [n \in Dests |-> "none"] /\ gen = [n \in Dests |-> 0]
    /\ writer = [w \in Writers |-> IF w = Retry THEN "done" ELSE "begin"]
    /\ id = [w \in Writers |-> 0] /\ msgID = [m \in Messages |-> 0] /\ nextID = 0
    /\ pendingAcks = {} /\ redolist = <<>> /\ wire = {} /\ acks = {}
    /\ handled = [r \in Requests |-> 0] /\ called = [r \in Requests |-> 0]
    /\ early = 0 /\ timeouts = 0 /\ errors = 0

-----------------------------------------------------------------------------
(* WriteRequest.                                                           *)

\* The request a writer writes.
Request(w) == IF w = Retry THEN Head(redolist) ELSE w
Turn(w)    == w \in Requests => \A r \in Earlier[w] : writer[r] = "done"
Locked(n)  == \E w \in Writers : writer[w] = "write" /\ Dest[Request(w)] = n

\* Under the lock of the node: dial unless there is a connection, draw an id and put it
\* into the message.
begin(w) ==
    /\ writer[w] = "begin" /\ Turn(w)
    /\ LET n == Dest[Request(w)]
       IN  /\ ~Locked(n)
           /\ conns' = [conns EXCEPT ![n] = IF @ = "none" THEN "open" ELSE @]
           /\ gen' = [gen EXCEPT ![n] = IF conns[n] = "none" THEN @ + 1 ELSE @]
    /\ nextID' = nextID + 1
    /\ id' = [id EXCEPT ![w] = nextID']
    /\ msgID' = [msgID EXCEPT ![Message[Request(w)]] = nextID']
    /\ writer' = [writer EXCEPT ![w] = "write"]
    /\ UNCHANGED <<pendingAcks, redolist, wire, acks, handled, called, budget>>

\* The message is marshalled, with the ID that it has by now, and written.
write(w) ==
    /\ writer[w] = "write"
    /\ LET r == Request(w)
           n == Dest[r]
       IN  /\ conns[n] = "open"
           /\ wire' = wire \cup {[node |-> n, gen |-> gen[n], id |-> msgID[Message[r]], req |-> r]}
    /\ writer' = [writer EXCEPT ![w] = "pend"]
    /\ UNCHANGED <<conns, gen, id, msgID, nextID, pendingAcks, redolist, acks, handled, called, budget>>

\* Writing fails: the connection is released, and all begins anew.
writeFails(w) ==
    /\ writer[w] = "write"
    /\ LET n == Dest[Request(w)]
       IN  /\ conns[n] = "closed"
           /\ conns' = [conns EXCEPT ![n] = "none"]
    /\ writer' = [writer EXCEPT ![w] = "begin"]
    /\ UNCHANGED <<gen, id, msgID, nextID, pendingAcks, redolist, wire, acks, handled, called, budget>>

\* A faulty variant: a request that is written again is not pending again.
addPendingAckOnce(w) ==
    /\ writer[w] = "pend"
    /\ pendingAcks' = IF w = Retry THEN pendingAcks
                      ELSE pendingAcks \cup {[node |-> Dest[w], id |-> id[w], req |-> w]}
    /\ redolist' = IF w = Retry THEN Tail(redolist) ELSE redolist
    /\ writer' = [writer EXCEPT ![w] = IF w = Retry /\ redolist' # <<>> THEN "begin" ELSE "done"]
    /\ UNCHANGED <<conns, gen, id, msgID, nextID, wire, acks, handled, called, budget>>

\* Only after the write, and without the lock, is the answer expected.
addPendingAck(w) ==
    /\ writer[w] = "pend"
    /\ pendingAcks' = pendingAcks \cup {[node |-> Dest[Request(w)], id |-> id[w], req |-> Request(w)]}
    /\ redolist' = IF w = Retry THEN Tail(redolist) ELSE redolist
    /\ writer' = [writer EXCEPT ![w] = IF w = Retry /\ redolist' # <<>> THEN "begin" ELSE "done"]
    /\ UNCHANGED <<conns, gen, id, msgID, nextID, wire, acks, handled, called, budget>>

-----------------------------------------------------------------------------
(* The other end: handleConnection.                                        *)

\* A request is handled and answered, if the connection is still there.
handle ==
    /\ \E m \in wire :
          /\ wire' = wire \ {m}
          /\ handled' = [handled EXCEPT ![m.req] = @ + 1]
          /\ acks' = IF conns[m.node] = "open" /\ gen[m.node] = m.gen
                     THEN acks \cup {[node |-> m.node, id |-> m.id]} ELSE acks
    /\ UNCHANGED <<conns, gen, writer, id, msgID, nextID, pendingAcks, redolist, called, budget>>

\* The handler returns an error, or the node goes down: the connection is closed, with
\* what was written to it.
refuse ==
    /\ errors < MaxErrors /\ errors' = errors + 1
    /\ \E m \in wire :
          /\ wire' = {x \in wire : x.node # m.node \/ x.gen # m.gen}
          /\ conns' = [conns EXCEPT ![m.node] = IF @ = "open" /\ gen[m.node] = m.gen THEN "closed" ELSE @]
    /\ UNCHANGED <<gen, writer, id, msgID, nextID, pendingAcks, redolist, acks, handled, called, early, timeouts>>

-----------------------------------------------------------------------------
(* Acknowledgements.                                                       *)

\* readAckMessage closes a connection on which it finds nothing for a second.
readTimeout(n) ==
    /\ timeouts < MaxTimeouts /\ timeouts' = timeouts + 1
    /\ conns[n] = "open"
    /\ conns' = [conns EXCEPT ![n] = "closed"]
    /\ UNCHANGED <<gen, writer, id, msgID, nextID, pendingAcks, redolist, wire, acks, handled, called, early, errors>>

\* The writer of the request has not yet called addPendingAck.
Premature(a) == \E w \in Writers : writer[w] = "pend" /\ Dest[Request(w)] = a.node /\ id[w] = a.id

\* In a goroutine of its own, in any order.  An id that is not known is ignored.
processAckMessage ==
    /\ \E a \in acks :
          LET found == {p \in pendingAcks : p.node = a.node /\ p.id = a.id}
          IN  /\ IF Premature(a) THEN early < MaxEarly /\ early' = early + 1 ELSE UNCHANGED early
              /\ acks' = acks \ {a}
              /\ called' = [r \in Requests |-> called[r] + Cardinality({p \in found : p.req = r})]
              /\ pendingAcks' = pendingAcks \ found
    /\ UNCHANGED <<conns, gen, writer, id, msgID, nextID, redolist, wire, handled, timeouts, errors>>

\* Nothing on its way will complete the request.
Lost(p) ==
    /\ \A m \in wire : m.node = p.node /\ m.id = p.id => conns[m.node] # "open" \/ gen[m.node] # m.gen
    /\ [node |-> p.node, id |-> p.id] \notin acks

\* retryRequests takes what has waited for three seconds, usually because the answer
\* was lost.
retryRequests ==
    /\ writer[Retry] = "done"
    /\ \E S \in SUBSET pendingAcks :
          /\ S # {}
          /\ IF \A p \in S : Lost(p) THEN UNCHANGED early ELSE early < MaxEarly /\ early' = early + 1
          /\ pendingAcks' = pendingAcks \ S
          /\ redolist' \in {[i \in DOMAIN q |-> q[i].req] : q \in Bijection(1..Cardinality(S), S)}
    /\ writer' = [writer EXCEPT ![Retry] = "begin"]
    /\ UNCHANGED <<conns, gen, id, msgID, nextID, wire, acks, handled, called, timeouts, errors>>

WriteRequest(w) == begin(w) \/ write(w) \/ writeFails(w) \/ addPendingAck(w)

ConnsNext ==
    \/ \E w \in Writers : WriteRequest(w)
    \/ handle \/ refuse
    \/ \E n \in Dests : readTimeout(n)
    \/ processAckMessage \/ retryRequests

ConnsSpec == ConnsInit /\ [][ConnsNext]_connsVars

\* Every goroutine goes on, and the other end handles what arrives.
ConnsFairSpec ==
    /\ ConnsSpec
    /\ \A w \in Writers : WF_connsVars(WriteRequest(w))
    /\ WF_connsVars(handle) /\ WF_connsVars(processAckMessage) /\ WF_connsVars(retryRequests)

-----------------------------------------------------------------------------
(* Properties.                                                             *)

\* It is called only after the request was handled.
CalledAfterHandled == \A r \in Requests : called[r] > 0 => handled[r] > 0

\* The ways a request is still being taken care of.
Open(r) == Cardinality({p \in pendingAcks : p.req = r})
         + Cardinality({i \in DOMAIN redolist : redolist[i] = r})
         + (IF writer[r] = "done" THEN 0 ELSE 1)

\* A request that has not been acknowledged is being written, pending, or to be written
\* again, in one of these ways; one that has been acknowledged in none.
OneWay == \A r \in Requests : Open(r) + called[r] = 1

\* Both, with the types of the variables: no request is lost, written again after it was
\* acknowledged, or taken to be acknowledged by the answer to another (MuxConn of internal/conns).
NeverForgotten == ConnsTypeOK /\ OneWay /\ CalledAfterHandled

\* Every request is acknowledged in the end.
EventuallyCalled == \A r \in Requests : <>(called[r] = 1)

=============================================================================
