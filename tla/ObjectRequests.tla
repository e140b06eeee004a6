--------------------------- MODULE ObjectRequests ----------------------------
(***************************************************************************)
(* Objects that are created and queried directly, without a transaction    *)
(* (sbac/client, the handlers of sbac/sbac.go, CreateObject of the API).   *)
(* A client asks every node, several clients at a time, and waits for all  *)
(* the answers; a request whose answer is lost is handled again.  The id   *)
(* of an object is the hash of its value.                                  *)
(***************************************************************************)
EXTENDS Naturals, Sequences, FiniteSets

CONSTANTS
    Nodes,      \* the nodes that are asked
    Requests,   \* the requests,
    Kind,       \* ... each Create, CreateObjects or Query,
    Objs,       \* ... of these objects
    MaxLost     \* bound on the answers that are lost

Asked == UNION {{Objs[r][i] : i \in DOMAIN Objs[r]} : r \in Requests}
ASSUME RequestsAssumption ==
    /\ Nodes # {} /\ MaxLost \in Nat
    /\ \A r \in Requests :
          /\ Objs[r] \in Seq({Objs[r][i] : i \in DOMAIN Objs[r]}) /\ Len(Objs[r]) > 0
          /\ Kind[r] \in {"Create", "CreateObjects", "Query"}
          /\ Kind[r] = "Create" => Len(Objs[r]) = 1

VARIABLES
    nodeStore,  \* the objects of each node
    next,       \* the object that the handler of a request is at, 0 when it has answered
    answers,    \* the answer of each node: the objects it names, or none
    lost,
    result      \* what the caller gets

requestsVars == <<nodeStore, next, answers, lost, result>>

NoAnswer == <<"no answer">>
Failed   == <<>>        \* an answer with an error in it, which the clients do not look at

RequestsTypeOK ==
    /\ nodeStore \in [Nodes -> SUBSET Asked]
    /\ next \in [Requests -> [Nodes -> Nat]]
    /\ answers \in [Requests -> [Nodes -> {NoAnswer, Failed} \cup {Objs[r] : r \in Requests}]]
    /\ lost \in 0..MaxLost
    /\ result \in [Requests -> {"none", "waiting", "id", "empty id", "ids", "found", "inactive"}]

RequestsInit ==
    /\ nodeStore = [n \in Nodes |-> {}]
    /\ next = [r \in Requests |-> [n \in Nodes |-> 1]]
    /\ answers = [r \in Requests |-> [n \in Nodes |-> NoAnswer]]
    /\ lost = 0
    /\ result = [r \in Requests |-> "none"]

\* A client writes its request to every node.
call(r) ==
    /\ result[r] = "none"
    /\ result' = [result EXCEPT ![r] = "waiting"]
    /\ UNCHANGED <<nodeStore, next, answers, lost>>

Handling(r, n) == result[r] = "waiting" /\ next[r][n] > 0

\* The handler answers, or its answer is lost and the request will come again.
Answer(r, n, a) ==
    \/ /\ answers' = [answers EXCEPT ![r][n] = a]
       /\ next' = [next EXCEPT ![r][n] = 0]
       /\ UNCHANGED lost
    \/ /\ lost < MaxLost /\ lost' = lost + 1
       /\ next' = [next EXCEPT ![r][n] = 1]
       /\ UNCHANGED answers

\* A faulty variant: an object that exists is reported as created.
handleCreateTwice(r, n) ==
    /\ Handling(r, n) /\ Kind[r] # "Query"
    /\ LET o == Objs[r][next[r][n]]
       IN  /\ nodeStore' = [nodeStore EXCEPT ![n] = @ \cup {o}]
           /\ IF next[r][n] = Len(Objs[r]) THEN Answer(r, n, Objs[r])
              ELSE next' = [next EXCEPT ![r][n] = @ + 1] /\ UNCHANGED <<answers, lost>>
    /\ UNCHANGED result

\* handleCreateObject and handleCreateObjects create one object after the other, each in a
\* transaction of the store, and stop at the first that exists.
handleCreate(r, n) ==
    /\ Handling(r, n) /\ Kind[r] # "Query"
    /\ LET o == Objs[r][next[r][n]]
       IN  IF o \in nodeStore[n] THEN Answer(r, n, Failed) /\ UNCHANGED nodeStore
           ELSE /\ nodeStore' = [nodeStore EXCEPT ![n] = @ \cup {o}]
                /\ IF next[r][n] = Len(Objs[r]) THEN Answer(r, n, Objs[r])
                   ELSE next' = [next EXCEPT ![r][n] = @ + 1] /\ UNCHANGED <<answers, lost>>
    /\ UNCHANGED result

\* handleQueryObject.
handleQuery(r, n) ==
    /\ Handling(r, n) /\ Kind[r] = "Query"
    /\ Answer(r, n, IF Objs[r][1] \in nodeStore[n] THEN Objs[r] ELSE Failed)
    /\ UNCHANGED <<nodeStore, result>>

AllAnswered(r) == \A n \in Nodes : answers[r][n] # NoAnswer
SomeNode(r, a) == \E n \in Nodes : answers[r][n] = a

\* CreateObject of the API has as many ids as there are nodes, some of them empty: it returns
\* no error, but an id only if all are equal.
CreateObject(r) == IF SomeNode(r, Failed) THEN "empty id" ELSE "id"

\* BuildObjectResponse makes an object of the answers that name one.
BuildObjectResponse(r) == IF SomeNode(r, Objs[r]) THEN "found" ELSE "inactive"

\* The client has all answers.
return(r) ==
    /\ result[r] = "waiting" /\ AllAnswered(r)
    /\ result' = [result EXCEPT ![r] =
          CASE Kind[r] = "Create"        -> CreateObject(r)
            [] Kind[r] = "CreateObjects" -> "ids"
            [] Kind[r] = "Query"         -> BuildObjectResponse(r)]
    /\ UNCHANGED <<nodeStore, next, answers, lost>>

RequestsNext == \E r \in Requests :
    call(r) \/ return(r) \/ \E n \in Nodes : handleCreate(r, n) \/ handleQuery(r, n)

RequestsSpec == RequestsInit /\ [][RequestsNext]_requestsVars

-----------------------------------------------------------------------------
(* Properties.                                                             *)

\* When the caller gets the id of an object, every node has the object.
CreatedEverywhere ==
    \A r \in Requests : result[r] = "id" => \A n \in Nodes : Objs[r][1] \in nodeStore[n]

\* Of the calls that create one object, whatever they overlap with, one at most gets its id.
OneGetsID ==
    \A r, q \in Requests : result[r] = "id" /\ result[q] = "id" /\ Objs[r] = Objs[q] => r = q

\* Both, with the types of the variables (Create of sbac/client).
OneCreator == RequestsTypeOK /\ CreatedEverywhere /\ OneGetsID

=============================================================================
