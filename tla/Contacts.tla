------------------------------ MODULE Contacts ------------------------------
(***************************************************************************)
(* How nodes find each other.  A node listens on a new port whenever it    *)
(* is started and announces it to each registry in turn and over multicast *)
(* DNS (node/announce.go).  The registry keeps one entry per node          *)
(* (registry/main.go).  Every topology asks each registry again and again, *)
(* in a goroutine per registry, hears announcements, and keeps the last    *)
(* address it was told of (network/network.go).                            *)
(***************************************************************************)
EXTENDS Naturals, Sequences, FiniteSets

CONSTANTS
    Nodes,          \* nodes that are started
    Registries,     \* the sequence of registries
    MDNS,           \* whether nodes announce and listen on multicast DNS
    Static,         \* a map of addresses to begin with
    MaxStarts,      \* bound on the starts of a node
    MaxFailures     \* bound on requests to a registry that fail

ContactsAssumption ==
    /\ Registries \in Seq(STRING) /\ MDNS \in BOOLEAN
    /\ Static \in [Nodes -> Nat] /\ MaxStarts \in Nat /\ MaxFailures \in Nat

Regs      == {Registries[i] : i \in DOMAIN Registries}
NoAnswer  == [n \in {} |-> 0]
NoAddress == 0

VARIABLES
    addr,           \* the address of each node: its number of starts
    step,           \* the registry a node announces itself to next
    state,          \* of each node: "down", "starting", "running"
    entity,         \* the configuration list of each registry: a partial map
    answer,         \* what the topology was answered by each registry and has not applied
    contacts,       \* its contacts
    refused,        \* whether its last Dial returned for want of an address
    failures

vars == <<addr, step, state, entity, answer, contacts, refused, failures>>

Init ==
    /\ addr = [n \in Nodes |-> NoAddress] /\ step = [n \in Nodes |-> 1] /\ state = [n \in Nodes |-> "down"]
    /\ entity = [r \in Regs |-> NoAnswer]
    /\ answer = [r \in Regs |-> NoAnswer]
    /\ contacts = Static                                \* BootstrapStatic
    /\ refused = FALSE /\ failures = 0

-----------------------------------------------------------------------------
(* A node.                                                                 *)

\* Run listens on a port; a node that runs can be stopped and started again.
start(n) ==
    /\ addr[n] < MaxStarts /\ state[n] # "starting"
    /\ addr' = [addr EXCEPT ![n] = @ + 1]
    /\ step' = [step EXCEPT ![n] = 1]
    /\ state' = [state EXCEPT ![n] = "starting"]
    /\ UNCHANGED <<entity, answer, contacts, refused, failures>>

\* handleContactsSet, in a transaction: the entry is changed if there is one, or added.
contactsSet(r, n) == [entity EXCEPT ![r] = [m \in DOMAIN @ \cup {n} |-> IF m = n THEN addr[n] ELSE @[m]]]

\* announceRegistry: one registry after the other.
announce(n) ==
    /\ state[n] = "starting" /\ step[n] <= Len(Registries)
    /\ entity' = contactsSet(Registries[step[n]], n)
    /\ step' = [step EXCEPT ![n] = @ + 1]
    /\ UNCHANGED <<addr, state, answer, contacts, refused, failures>>

\* One of them cannot be reached: Run returns the error, and the node is not started.
announceFails(n) ==
    /\ state[n] = "starting" /\ step[n] <= Len(Registries)
    /\ failures < MaxFailures /\ failures' = failures + 1
    /\ state' = [state EXCEPT ![n] = "down"]
    /\ UNCHANGED <<addr, step, entity, answer, contacts, refused>>

announced(n) ==
    /\ state[n] = "starting" /\ step[n] > Len(Registries)
    /\ state' = [state EXCEPT ![n] = "running"]
    /\ UNCHANGED <<addr, step, entity, answer, contacts, refused, failures>>

-----------------------------------------------------------------------------
(* The topology of another node or a client.                               *)

\* The request of a polling goroutine is answered; a registry without an entity
\* answers with an error, as one does that cannot be reached.
contactsList(r) ==
    /\ answer[r] = NoAnswer /\ entity[r] # NoAnswer
    /\ answer' = [answer EXCEPT ![r] = entity[r]]
    /\ UNCHANGED <<addr, step, state, entity, contacts, refused, failures>>

\* A faulty variant: an address that is known is kept.
bootstrapRegistriesKeep(r) ==
    /\ answer[r] # NoAnswer
    /\ contacts' = [n \in Nodes |-> IF n \in DOMAIN answer[r] /\ contacts[n] = NoAddress THEN answer[r][n] ELSE contacts[n]]
    /\ answer' = [answer EXCEPT ![r] = NoAnswer]
    /\ UNCHANGED <<addr, step, state, entity, refused, failures>>

\* bootstrapRegistries: every address of the answer replaces the one that is known.
bootstrapRegistries(r) ==
    /\ answer[r] # NoAnswer
    /\ contacts' = [n \in Nodes |-> IF n \in DOMAIN answer[r] THEN answer[r][n] ELSE contacts[n]]
    /\ answer' = [answer EXCEPT ![r] = NoAnswer]
    /\ UNCHANGED <<addr, step, state, entity, refused, failures>>

\* bootstrapMDNS: an announcement is heard from a node that listens.
bootstrapMDNS(n) ==
    /\ MDNS /\ state[n] # "down"
    /\ contacts' = [contacts EXCEPT ![n] = addr[n]]
    /\ UNCHANGED <<addr, step, state, entity, answer, refused, failures>>

\* Dial, in as much as it does not open a connection.
Dial(n) ==
    /\ refused' = (contacts[n] = NoAddress)
    /\ UNCHANGED <<addr, step, state, entity, answer, contacts, failures>>

Topology == (\E r \in Regs : contactsList(r) \/ bootstrapRegistries(r)) \/ (\E n \in Nodes : bootstrapMDNS(n) \/ Dial(n))

Next == (\E n \in Nodes : start(n) \/ announce(n) \/ announceFails(n) \/ announced(n)) \/ Topology

Spec == Init /\ [][Next]_vars

\* The goroutines that ask the registries run for ever, and a start comes to an end.
FairSpec ==
    /\ Spec
    /\ \A r \in Regs : WF_vars(contactsList(r)) /\ WF_vars(bootstrapRegistries(r))
    /\ \A n \in Nodes : WF_vars(announce(n)) /\ WF_vars(announced(n))

-----------------------------------------------------------------------------
(* Properties.                                                             *)

\* Once nodes are no longer restarted, the address that is known is the one at which the
\* node listens, although answers of the registries overtake each other.
Found == \A n \in Nodes : <>[](state[n] = "running" => contacts[n] = addr[n])

=============================================================================
