------------------------------ MODULE Contracts ------------------------------
(***************************************************************************)
(* The contracts of the nodes of one host (contracts, cmd contracts).      *)
(* Several processes use the same Docker daemon: nodes that start the      *)
(* containers of the contracts, check that they are up and then call them, *)
(* and the commands that create and destroy the containers.  Each works    *)
(* from a list of the containers that it read when it began.               *)
(***************************************************************************)
EXTENDS Naturals, Sequences, Functions

CONSTANTS
    Docker,         \* the contracts that run in a container, in the order of the configuration
    External,       \* the contracts that run elsewhere, in the order of the configuration
    Images,         \* the sets of docker contracts whose image may be on the host
    Kind,           \* of each process: a node ("run"), or the command "create" or "destroy"
    Answers,        \* what a contract may answer to a call of a checker
    MaxFailures,    \* bound on the calls of the daemon that fail
    MaxExits        \* bound on the containers that stop by themselves

ASSUME ContractsAssumption ==
    /\ Docker \in Seq(Range(Docker)) /\ External \in Seq(Range(External))
    /\ Images \subseteq SUBSET Range(Docker)
    /\ MaxFailures \in Nat /\ MaxExits \in Nat

Procs        == DOMAIN Kind
InDocker     == Range(Docker)
AllContracts == Docker \o External
NoContainer  == [id |-> 0, state |-> "absent"]

VARIABLES
    images,         \* the docker contracts whose image is on the host
    containers,     \* the daemon's container of each docker contract
    created,        \* the containers created so far: the last id
    serving,        \* the contracts that answer
    proc, at,       \* where each process is, and at which contract
    list,           \* the list of containers that it has read
    checked,        \* the last call of a checker of each node: the contract and the result
    failures, exits

contractsVars == <<images, containers, created, serving, proc, at, list, checked, failures, exits>>

Ended == {"done", "up", "no docker", "no image", "conflict", "not created", "unavailable"}
ContractsTypeOK ==
    /\ images \in Images
    /\ \A c \in InDocker : containers[c].id \in 0..created
    /\ \A c \in InDocker : containers[c].state \in {"absent", "created", "running", "exited"}
    /\ serving \subseteq Range(AllContracts)
    /\ \A c \in InDocker \cap serving : containers[c].state = "running"
    /\ proc \in [Procs -> {"begin", "start", "created", "stop", "stopped", "ensure"} \cup Ended]
    /\ at \in [Procs -> 1..(Len(AllContracts) + 1)]
    /\ failures \in 0..MaxFailures /\ exits \in 0..MaxExits

ContractsInit ==
    /\ images \in Images
    /\ containers = [c \in InDocker |-> NoContainer] /\ created = 0 /\ serving = {}
    /\ proc = [p \in Procs |-> "begin"] /\ at = [p \in Procs |-> 1]
    /\ list = [p \in Procs |-> containers]
    /\ checked = [p \in Procs |-> <<>>]
    /\ failures = 0 /\ exits = 0

proceed(p, label, i) == proc' = [proc EXCEPT ![p] = label] /\ at' = [at EXCEPT ![p] = i]

\* A call of the daemon fails.
fails == failures < MaxFailures /\ failures' = failures + 1
works == UNCHANGED failures
-----------------------------------------------------------------------------
\* Start and Stop begin with the list of the containers, of all states.
ContainerList(p) ==
    /\ proc[p] = "begin"
    /\ \/ /\ works
          /\ list' = [list EXCEPT ![p] = containers]
          /\ proceed(p, IF Kind[p] = "destroy" THEN "stop" ELSE "start", 1)
       \/ fails /\ proceed(p, "no docker", 1) /\ UNCHANGED list
    /\ UNCHANGED <<images, containers, created, serving, checked, exits>>

\* containerExists looks in the list that the process has.
containerExists(p, c) == list[p][c] # NoContainer

ensureImageExists(c) == c \in images

\* startContainer, of a contract without image, or with a container: one that was running when
\* the list was read is left alone, another is started.
startContainer(p) ==
    /\ proc[p] = "start" /\ at[p] <= Len(Docker)
    /\ LET c == Docker[at[p]] IN
         \/ ~ensureImageExists(c) /\ proceed(p, "no image", at[p])
         \/ /\ ensureImageExists(c) /\ containerExists(p, c)
            /\ IF list[p][c].state = "running" THEN proceed(p, "start", at[p] + 1)
                                               ELSE proceed(p, "created", at[p])
    /\ UNCHANGED <<images, containers, created, serving, list, checked, failures, exits>>

\* startContainer, of a contract without container: createContainer fails when the name is taken.
createContainer(p) ==
    /\ proc[p] = "start" /\ at[p] <= Len(Docker)
    /\ LET c == Docker[at[p]] IN
         /\ ensureImageExists(c) /\ ~containerExists(p, c)
         /\ \/ /\ works /\ containers[c] = NoContainer
               /\ created' = created + 1
               /\ containers' = [containers EXCEPT ![c] = [id |-> created', state |-> "created"]]
               /\ list' = [list EXCEPT ![p][c] = containers'[c]]
               /\ proceed(p, "created", at[p])
            \/ /\ works /\ containers[c] # NoContainer
               /\ proceed(p, "conflict", at[p]) /\ UNCHANGED <<containers, created, list>>
            \/ /\ fails
               /\ proceed(p, "not created", at[p]) /\ UNCHANGED <<containers, created, list>>
    /\ UNCHANGED <<images, serving, checked, exits>>

\* ContainerStart, of the container with the id found or created; its error is not looked at.
ContainerStart(p) ==
    /\ proc[p] = "created"
    /\ LET c == Docker[at[p]] IN
         \/ /\ works /\ containers[c].id = list[p][c].id
            /\ containers' = [containers EXCEPT ![c].state = "running"]
         \/ works /\ containers[c].id # list[p][c].id /\ UNCHANGED containers
         \/ fails /\ UNCHANGED containers
    /\ proceed(p, "start", at[p] + 1)
    /\ UNCHANGED <<images, created, serving, list, checked, exits>>

\* The end of Start: the command ends, a node goes on to EnsureUp.
started(p) ==
    /\ proc[p] = "start" /\ at[p] > Len(Docker)
    /\ IF Kind[p] = "create" THEN proceed(p, "done", at[p]) ELSE proceed(p, "ensure", 1)
    /\ UNCHANGED <<images, containers, created, serving, list, checked, failures, exits>>

\* A faulty variant: the health check of an external contract is not made.
EnsureDockerUp(p) ==
    /\ proc[p] = "ensure"
    /\ IF at[p] > Len(Docker)                   THEN proceed(p, "up", at[p])
       ELSE IF AllContracts[at[p]] \in serving  THEN proceed(p, "ensure", at[p] + 1)
       ELSE proceed(p, "unavailable", at[p])
    /\ UNCHANGED <<images, containers, created, serving, list, checked, failures, exits>>

\* EnsureUp: one health check after the other; the first that fails ends the node.
EnsureUp(p) ==
    /\ proc[p] = "ensure"
    /\ IF at[p] > Len(AllContracts)             THEN proceed(p, "up", at[p])
       ELSE IF AllContracts[at[p]] \in serving  THEN proceed(p, "ensure", at[p] + 1)
       ELSE proceed(p, "unavailable", at[p])
    /\ UNCHANGED <<images, containers, created, serving, list, checked, failures, exits>>
-----------------------------------------------------------------------------

\* stopContainer, first call: the container of the list is stopped, if it is there still.
stopContainer(p) ==
    /\ proc[p] = "stop" /\ at[p] <= Len(Docker)
    /\ LET c == Docker[at[p]] IN
         \/ /\ works /\ list[p][c] # NoContainer /\ containers[c].id = list[p][c].id
            /\ containers' = [containers EXCEPT ![c].state =
                                IF @ = "running" THEN "exited" ELSE @]
            /\ serving' = serving \ {c}
            /\ proceed(p, "stopped", at[p])
         \/ /\ \/ works /\ (list[p][c] = NoContainer \/ containers[c].id # list[p][c].id)
               \/ fails /\ list[p][c] # NoContainer
            /\ proceed(p, "stop", at[p] + 1) /\ UNCHANGED <<containers, serving>>
    /\ UNCHANGED <<images, created, list, checked, exits>>

\* Second call: it is removed, unless it is gone or was started again.
ContainerRemove(p) ==
    /\ proc[p] = "stopped"
    /\ LET c == Docker[at[p]] IN
         \/ /\ works /\ containers[c].id = list[p][c].id /\ containers[c].state # "running"
            /\ containers' = [containers EXCEPT ![c] = NoContainer]
         \/ /\ works /\ (containers[c].id # list[p][c].id \/ containers[c].state = "running")
            /\ UNCHANGED containers
         \/ fails /\ UNCHANGED containers
    /\ proceed(p, "stop", at[p] + 1)
    /\ UNCHANGED <<images, created, serving, list, checked, exits>>

stoppedAll(p) ==
    /\ proc[p] = "stop" /\ at[p] > Len(Docker)
    /\ proceed(p, "done", at[p])
    /\ UNCHANGED <<images, containers, created, serving, list, checked, failures, exits>>
-----------------------------------------------------------------------------
\* The address of the checkers of a contract: NewDockerCheckers joins the path to a parsed URL,
\* NewCheckers joins the address itself, and path.Join makes one slash of the two after "http:".
NewDockerCheckers(c) == [host |-> "0.0.0.0", of |-> c]
NewCheckers(c)       == [host |-> "", of |-> c]
GetCheckers(c) == IF c \in InDocker THEN NewDockerCheckers(c) ELSE NewCheckers(c)

\* Check: a node calls the contract; an error, a timeout or an answer that cannot be read is
\* a refusal.
Check(p, c, a) ==
    /\ proc[p] = "up" /\ Kind[p] = "run"
    /\ checked' = [checked EXCEPT ![p] =
                     <<c, a, GetCheckers(c).host # "" /\ c \in serving /\ a = "success">>]
    /\ UNCHANGED <<images, containers, created, serving, proc, at, list, failures, exits>>

\* A contract begins to answer, or its container stops by itself.
serve(c) ==
    /\ c \notin serving /\ (c \in InDocker => containers[c].state = "running")
    /\ serving' = serving \cup {c}
    /\ UNCHANGED <<images, containers, created, proc, at, list, checked, failures, exits>>
exit(c) ==
    /\ exits < MaxExits /\ containers[c].state = "running"
    /\ exits' = exits + 1
    /\ containers' = [containers EXCEPT ![c].state = "exited"]
    /\ serving' = serving \ {c}
    /\ UNCHANGED <<images, created, proc, at, list, checked, failures>>

process(p) ==
    \/ ContainerList(p) \/ startContainer(p) \/ createContainer(p) \/ ContainerStart(p)
    \/ started(p) \/ EnsureUp(p) \/ stopContainer(p) \/ ContainerRemove(p) \/ stoppedAll(p)

ContractsNext ==
    \/ \E p \in Procs : process(p)
    \/ \E p \in Procs, c \in Range(AllContracts), a \in Answers : Check(p, c, a)
    \/ \E c \in Range(AllContracts) : serve(c)
    \/ \E c \in InDocker : exit(c)

ContractsSpec == ContractsInit /\ [][ContractsNext]_contractsVars
-----------------------------------------------------------------------------
NoDestroy == \A p \in Procs : Kind[p] = "destroy" => proc[p] = "begin"
Quiet     == failures = 0 /\ exits = 0

\* Start finds what is there: the name of a container that a node or a create command wants to
\* create is taken only when another process created it after the list was read.
ConflictIsRace ==
    \A p \in Procs : proc[p] = "conflict" => list[p][Docker[at[p]]] = NoContainer

\* A node is up only with its contracts: while nothing stops them every one of them answers.
UpAnswered ==
    \A p \in Procs : (proc[p] = "up" /\ exits = 0 /\ NoDestroy) => Range(AllContracts) \subseteq serving

\* The destroy command leaves none of the containers of its list stopped on the host: each is
\* gone, or was started again by another process meanwhile, or is just removed by another destroy
\* command that has stopped it again.
Removing(c) ==
    \E q \in Procs : proc[q] = "stopped" /\ Docker[at[q]] = c /\ list[q][c].id = containers[c].id
Removed(p, c) ==
    list[p][c] # NoContainer /\ containers[c].id = list[p][c].id =>
       containers[c].state = "running" \/ Removing(c)
DestroyRemoves ==
    \A p \in Procs : (Kind[p] = "destroy" /\ proc[p] = "done" /\ Quiet) =>
       \A c \in InDocker : Removed(p, c)

\* A checker accepts only what the contract itself has accepted.
AcceptedByContract == \A p \in Procs : checked[p] # <<>> /\ checked[p][3] => checked[p][2] = "success"

\* All four, with the types of the variables: what nodes and commands that share a daemon find
\* when they have ended (contracts and checker).
UpServed ==
    ContractsTypeOK /\ UpAnswered /\ ConflictIsRace /\ DestroyRemoves /\ AcceptedByContract

=============================================================================
