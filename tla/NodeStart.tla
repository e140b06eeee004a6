------------------------------ MODULE NodeStart ------------------------------
(***************************************************************************)
(* The start, the connections and the shutdown of the nodes of one host    *)
(* (node.Run, Server).  Run makes one service after the other and may fail *)
(* at each; the port that it will listen on is chosen long before and is   *)
(* free for others meanwhile.                                              *)
(***************************************************************************)
EXTENDS Naturals, Sequences, FiniteSets

CONSTANTS
    Nodes,          \* the nodes that are started on the host
    Ports,          \* the ports of the host
    Modes,          \* the configurations: which services are to run
    Hellos,         \* the hello messages: [type, client, server, signed, recent]
    Incoming,       \* the connections that peers make
    MaxOthers       \* bound on the ports that other programs take

None == "none"
NoHello == [type |-> None, client |-> None, server |-> None, signed |-> FALSE, recent |-> FALSE]

\* A configuration has DisableSBAC, SBACOnly, and the pubsub and HTTP services.
ASSUME ModesAssumption ==
    /\ Modes \subseteq [disableSBAC : BOOLEAN, sbacOnly : BOOLEAN, pubsub : BOOLEAN, http : BOOLEAN]
    /\ None \notin Nodes \cup Ports /\ "other" \notin Nodes

VARIABLES
    mode,           \* the configuration of each node
    pc,             \* where its Run is
    port,           \* the port it will listen on
    bound,          \* who listens on each port
    services,       \* the services that it has made
    ctx,            \* its context: none yet, live or cancelled
    announced,      \* the nodes whose address is announced
    conn            \* of each connection: the node, the hello, the peer and where it is

startVars == <<mode, pc, port, bound, services, ctx, announced, conn>>

Steps == <<"prepare", "topology", "freeport", "keys", "broadcast", "kv", "pubsub", "sbac",
           "checker", "rest", "listen", "announce", "running">>
Services == {"broadcast", "kv", "pubsub", "sbac", "checker", "rest"}

StartTypeOK ==
    /\ mode \in [Nodes -> Modes]
    /\ pc \in [Nodes -> {Steps[i] : i \in DOMAIN Steps} \cup {"failed", "fatal", "panic"}]
    /\ port \in [Nodes -> Ports \cup {None}]
    /\ bound \in [Ports -> Nodes \cup {"other", None}]
    /\ services \in [Nodes -> SUBSET Services]
    /\ ctx \in [Nodes -> {None, "live", "cancelled"}]
    /\ announced \subseteq Nodes
    /\ \A c \in Incoming : conn[c].state \in {"new", "hello", "serving", "closed"}

StartInit ==
    /\ mode \in [Nodes -> Modes] /\ pc = [n \in Nodes |-> "prepare"]
    /\ port = [n \in Nodes |-> None] /\ bound = [p \in Ports |-> None]
    /\ services = [n \in Nodes |-> {}] /\ ctx = [n \in Nodes |-> None]
    /\ announced = {}
    /\ conn = [c \in Incoming |-> [to |-> None, hello |-> NoHello, peer |-> None, state |-> "new"]]

\* The process ends: the ports it has are free, its connections are closed.
processExits(n) ==
    /\ bound' = [p \in Ports |-> IF bound[p] = n THEN None ELSE bound[p]]
    /\ conn' = [c \in Incoming |-> IF conn[c].to = n THEN [conn[c] EXCEPT !.state = "closed"] ELSE conn[c]]

goto(n, label) == pc' = [pc EXCEPT ![n] = label]

\* Which services Run makes for the node.
wanted(n, s) ==
    CASE s = "pubsub"  -> ~mode[n].disableSBAC /\ mode[n].pubsub
      [] s = "sbac"    -> ~mode[n].disableSBAC
      [] s = "checker" -> ~mode[n].disableSBAC /\ ~mode[n].sbacOnly
      [] s = "rest"    -> mode[n].http
      [] OTHER         -> TRUE
-----------------------------------------------------------------------------
\* The directory, the process file, the log and, when there are checkers, the contracts: an
\* error is returned, or is fatal.
prepare(n) ==
    /\ pc[n] = "prepare"
    /\ \/ goto(n, "topology")
       \/ goto(n, "failed")
       \/ ~mode[n].disableSBAC /\ ~mode[n].sbacOnly /\ goto(n, "fatal")
    /\ UNCHANGED <<mode, port, bound, services, ctx, announced, conn>>

\* The topology, and the contacts to begin with.
topology(n) ==
    /\ pc[n] = "topology"
    /\ goto(n, "freeport") \/ goto(n, "failed")
    /\ UNCHANGED <<mode, port, bound, services, ctx, announced, conn>>

\* freeport listens on a port that the system chooses, and closes it.
freeport(n) ==
    /\ pc[n] = "freeport"
    /\ \/ \E p \in Ports : bound[p] = None /\ port' = [port EXCEPT ![n] = p] /\ goto(n, "keys")
       \/ (\A p \in Ports : bound[p] # None) /\ goto(n, "failed") /\ UNCHANGED port
    /\ UNCHANGED <<mode, bound, services, ctx, announced, conn>>

\* The certificate, the signing key, the peers and the maximal payload.
keys(n) ==
    /\ pc[n] = "keys"
    /\ goto(n, "broadcast") \/ goto(n, "failed")
    /\ UNCHANGED <<mode, port, bound, services, ctx, announced, conn>>

\* A service that is wanted is made, or fails: then the context is cancelled.
make(n, s, next) ==
    /\ pc[n] = s
    /\ \/ /\ wanted(n, s)
          /\ services' = [services EXCEPT ![n] = @ \cup {s}]
          /\ goto(n, next) /\ UNCHANGED ctx
       \/ /\ wanted(n, s)
          /\ goto(n, "failed") /\ ctx' = [ctx EXCEPT ![n] = "cancelled"] /\ UNCHANGED services
       \/ ~wanted(n, s) /\ goto(n, next) /\ UNCHANGED <<services, ctx>>
    /\ UNCHANGED <<mode, port, bound, announced, conn>>

\* The broadcaster is made with a context, in which its goroutines run from now on.
newBroadcast(n) ==
    /\ pc[n] = "broadcast"
    /\ \/ /\ services' = [services EXCEPT ![n] = @ \cup {"broadcast"}]
          /\ ctx' = [ctx EXCEPT ![n] = "live"] /\ goto(n, "kv")
       \/ ctx' = [ctx EXCEPT ![n] = "cancelled"] /\ goto(n, "failed") /\ UNCHANGED services
    /\ UNCHANGED <<mode, port, bound, announced, conn>>

newKV(n)      == make(n, "kv", "pubsub")
newPubsub(n)  == make(n, "pubsub", "sbac")

newSBAC(n)    == make(n, "sbac", "checker")
newChecker(n) == make(n, "checker", "rest")

\* The HTTP server is made; its own goroutine listens.
newRest(n) ==
    /\ pc[n] = "rest"
    /\ services' = [services EXCEPT ![n] = IF wanted(n, "rest") THEN @ \cup {"rest"} ELSE @]
    /\ goto(n, "listen")
    /\ UNCHANGED <<mode, port, bound, ctx, announced, conn>>

\* A faulty variant: the error of Listen is not looked at.
listenUnchecked(n) ==
    /\ pc[n] = "listen"
    /\ bound' = IF bound[port[n]] = None THEN [bound EXCEPT ![port[n]] = n] ELSE bound
    /\ goto(n, "announce")
    /\ UNCHANGED <<mode, port, services, ctx, announced, conn>>

\* The node listens on the port that was free, unless another process has it now.
listen(n) ==
    /\ pc[n] = "listen"
    /\ IF bound[port[n]] = None
          THEN bound' = [bound EXCEPT ![port[n]] = n] /\ goto(n, "announce") /\ UNCHANGED ctx
          ELSE ctx' = [ctx EXCEPT ![n] = "cancelled"] /\ goto(n, "failed") /\ UNCHANGED bound
    /\ UNCHANGED <<mode, port, services, announced, conn>>

\* The node is announced by mDNS and to the registries; one may fail after the other.
announce(n) ==
    /\ pc[n] = "announce"
    /\ \/ announced' = announced \cup {n} /\ goto(n, "running")
       \/ announced' \in {announced, announced \cup {n}} /\ goto(n, "failed")
    /\ UNCHANGED <<mode, port, bound, services, ctx, conn>>

\* The run command ends the process when Run returns an error.
couldNotStart(n) ==
    /\ pc[n] = "failed"
    /\ goto(n, "fatal") /\ processExits(n)
    /\ UNCHANGED <<mode, port, services, ctx, announced>>

Shutdown(n) ==
    /\ pc[n] = "running" /\ ctx[n] = "live"
    /\ ctx' = [ctx EXCEPT ![n] = "cancelled"]
    /\ UNCHANGED <<mode, pc, port, bound, services, announced, conn>>

\* Another program takes a port.
other(p) ==
    /\ Cardinality({q \in Ports : bound[q] = "other"}) < MaxOthers
    /\ bound[p] = None
    /\ bound' = [bound EXCEPT ![p] = "other"]
    /\ UNCHANGED <<mode, pc, port, services, ctx, announced, conn>>
-----------------------------------------------------------------------------
\* A peer connects to an announced address, and the loop of listen accepts: it ends only with
\* the process.
accept(c, n) ==
    /\ conn[c].state = "new" /\ n \in announced /\ bound[port[n]] = n
    /\ conn' = [conn EXCEPT ![c] = [@ EXCEPT !.to = n, !.state = "hello"]]
    /\ UNCHANGED <<mode, pc, port, bound, services, ctx, announced>>

\* verifyPeerID: a hello with no payload is of the peer 0.  (The nonces of hellos are compared
\* with those of a map that nothing fills.)
verifyPeerID(n, h) ==
    CASE h.client = None                                                    -> "0"
      [] h.server = n /\ h.client \in Nodes /\ h.signed /\ h.recent         -> h.client
      [] OTHER                                                              -> "error"

serviceOf(type) ==
    CASE type = "BROADCAST" -> "broadcast" [] type = "SBAC" -> "sbac"
      [] type = "CHECKER" -> "checker" [] OTHER -> None

\* handleConnection reads the hello: the type says which service is meant.
readHello(c, h) ==
    /\ conn[c].state = "hello"
    /\ LET peer == verifyPeerID(conn[c].to, h) IN
         conn' = [conn EXCEPT ![c] = [@ EXCEPT !.hello = h, !.peer = peer, !.state =
                    IF serviceOf(h.type) = None \/ peer = "error" THEN "closed" ELSE "serving"]]
    /\ UNCHANGED <<mode, pc, port, bound, services, ctx, announced>>

\* handleConnection hands a message to the service: an error of the service, or of reading or
\* writing, closes the connection, and a service that was not made ends the process.
handleMessage(c) ==
    /\ conn[c].state = "serving"
    /\ LET n == conn[c].to IN
         IF serviceOf(conn[c].hello.type) \in services[n]
            THEN /\ conn' = [conn EXCEPT ![c].state = "closed"]
                 /\ UNCHANGED <<pc, bound>>
            ELSE goto(n, "panic") /\ processExits(n)
    /\ UNCHANGED <<mode, port, services, ctx, announced>>

Run(n) ==
    \/ prepare(n) \/ topology(n) \/ freeport(n) \/ keys(n) \/ newBroadcast(n) \/ newKV(n)
    \/ newPubsub(n) \/ newSBAC(n) \/ newChecker(n) \/ newRest(n) \/ listen(n) \/ announce(n)
    \/ couldNotStart(n)

StartNext ==
    \/ \E n \in Nodes : Run(n) \/ Shutdown(n)
    \/ \E p \in Ports : other(p)
    \/ \E c \in Incoming : (\E n \in Nodes : accept(c, n)) \/ (\E h \in Hellos : readHello(c, h)) \/ handleMessage(c)

StartSpec == StartInit /\ [][StartNext]_startVars
-----------------------------------------------------------------------------
Alive(n) == pc[n] \notin {"fatal", "panic"}

\* Who learns of a node's address finds the node there: while the process lives the announced
\* port is the node's own, although it was chosen, and given back, long before.
AddressListens == \A n \in announced : Alive(n) => bound[port[n]] = n

\* A start that fails before the node listens leaves no goroutine of the broadcaster behind.
FailedStops ==
    \A n \in Nodes :
       (pc[n] = "failed" /\ \A p \in Ports : bound[p] # n) => ctx[n] # "live"

\* A node that has all services serves every connection from the first on: no message of a peer
\* finds a service that was not made yet.
WholeNodeServes ==
    \A n \in Nodes : pc[n] = "panic" => mode[n].disableSBAC \/ mode[n].sbacOnly

\* The messages of a connection are taken to be of the peer that signed its hello, for this
\* node, or of the peer 0.
PeerIsSigner ==
    \A c \in Incoming : conn[c].state = "serving" /\ conn[c].peer # "0" =>
       conn[c].peer = conn[c].hello.client /\ conn[c].hello.server = conn[c].to /\ conn[c].hello.signed

\* All four, with the types of the variables: what those that start a node, and those that
\* connect to it, rely on (Run of node/node.go).
AnnouncedListens ==
    StartTypeOK /\ AddressListens /\ FailedStops /\ WholeNodeServes /\ PeerIsSigner

=============================================================================
