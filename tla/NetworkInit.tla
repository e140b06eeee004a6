----------------------------- MODULE NetworkInit -----------------------------
(***************************************************************************)
(* The configuration of a network (cmd init, cmd run, config): the init    *)
(* command writes the files of all nodes one after the other, each first   *)
(* created empty and then written, and a node reads its own files and the  *)
(* network's when it is started, at any time.  The init command may be     *)
(* given more than once, and may be interrupted.                           *)
(***************************************************************************)
EXTENDS Naturals, Sequences

CONSTANTS
    N,              \* the nodes of the network are 1..N: the shard count times the shard size
    Inits,          \* the init commands that are given
    MaxCrashes      \* bound on the commands and nodes that are interrupted

ASSUME InitAssumption == N \in Nat \ {0} /\ MaxCrashes \in Nat

NodeIDs == 1..N
Root  == "network"              \* the directory of the network
Dirs  == {<<Root, 0>>} \cup {<<"node", n>> : n \in NodeIDs}
Files == {<<"network", 0>>, <<"contracts", 0>>} \cup ({"node", "keys"} \X NodeIDs)

\* A file is absent, empty, or has been written by an init command; the network file holds the
\* signing keys of the nodes and a hash of them, its ID.
Absent == [by |-> "absent", seeds |-> {}, id |-> {}]
Empty  == [by |-> "empty", seeds |-> {}, id |-> {}]

\* What the init command does, in order: the directory and the files of each node, then the
\* files of the network.
NodePlan(n) ==
    <<<<"mkdir", "node", n>>, <<"create", "keys", n>>, <<"write", "keys", n>>,
      <<"create", "node", n>>, <<"write", "node", n>>>>
NetworkPlan ==
    <<<<"create", "network", 0>>, <<"write", "network", 0>>,
      <<"create", "contracts", 0>>, <<"write", "contracts", 0>>>>
Plan ==
    [k \in 1..(5 * N + 5) |->
       IF k = 1               THEN <<"mkdir", Root, 0>>
       ELSE IF k <= 5 * N + 1 THEN NodePlan(((k - 2) \div 5) + 1)[((k - 2) % 5) + 1]
                              ELSE NetworkPlan[k - (5 * N + 1)]]
Target(k) == <<Plan[k][2], Plan[k][3]>>

\* What the run command reads, in order.
Reads(n) == <<<<"network", 0>>, <<"node", n>>, <<"keys", n>>, <<"contracts", 0>>>>

VARIABLES
    dirs, files,    \* the directories and the files on disk
    step,           \* of each init command: the next operation of its plan, 0 when it has ended
    peers,          \* ... and the nodes whose keys it has generated
    loaded,         \* of each node: the files that it has read, in order
    state,          \* ... and whether it was started
    crashes

setupVars == <<dirs, files, step, peers, loaded, state, crashes>>

SetupTypeOK ==
    /\ dirs \subseteq Dirs
    /\ files \in [Files -> [by : Inits \cup {"absent", "empty"}, seeds : SUBSET (Inits \X NodeIDs),
                            id : SUBSET (Inits \X NodeIDs)]]
    /\ step \in [Inits -> 0..(Len(Plan) + 1)] /\ peers \in [Inits -> SUBSET NodeIDs]
    /\ \A n \in NodeIDs : Len(loaded[n]) <= 4
    /\ state \in [NodeIDs -> {"stopped", "loading", "failed", "running"}]
    /\ crashes \in 0..MaxCrashes

SetupInit ==
    /\ dirs = {} /\ files = [f \in Files |-> Absent]
    /\ step = [i \in Inits |-> 1] /\ peers = [i \in Inits |-> {}]
    /\ loaded = [n \in NodeIDs |-> <<>>] /\ state = [n \in NodeIDs |-> "stopped"]
    /\ crashes = 0

advance(i) == step' = [step EXCEPT ![i] = @ + 1]
unchangedNodes == UNCHANGED <<loaded, state, crashes>>

\* A faulty variant: a directory that is there is used.
createDirectory(i, d) == dirs' = dirs \cup {d} /\ advance(i)

\* createUnlessExists: a directory that is there ends the command.
createUnlessExists(i, d) ==
    IF d \in dirs THEN step' = [step EXCEPT ![i] = 0] /\ UNCHANGED dirs
                  ELSE dirs' = dirs \cup {d} /\ advance(i)

\* The key that genKeys makes for a node: a new one for each command.
genKey(i, n) == <<i, n>>

\* Hash: of the seed nodes and the shards.
Hash(seeds) == seeds

\* What is written to a file.
content(i, kind, n) ==
    CASE kind = "network" -> LET seeds == {genKey(i, m) : m \in peers[i]}
                             IN  [by |-> i, seeds |-> seeds, id |-> Hash(seeds)]
      [] kind = "keys"    -> [by |-> i, seeds |-> {genKey(i, n)}, id |-> {}]
      [] OTHER            -> [by |-> i, seeds |-> {}, id |-> {}]

mkdir(i) ==
    /\ step[i] \in DOMAIN Plan /\ Plan[step[i]][1] = "mkdir"
    /\ createUnlessExists(i, Target(step[i]))
    /\ UNCHANGED <<files, peers>> /\ unchangedNodes

\* os.Create of genKeys and writeYAML: a file that is there is made empty.
create(i) ==
    /\ step[i] \in DOMAIN Plan /\ Plan[step[i]][1] = "create"
    /\ files' = [files EXCEPT ![Target(step[i])] = Empty]
    /\ advance(i)
    /\ UNCHANGED <<dirs, peers>> /\ unchangedNodes

\* Encode of genKeys and writeYAML; after the node's own file the node is added to the peers.
writeFile(i) ==
    /\ step[i] \in DOMAIN Plan /\ Plan[step[i]][1] = "write"
    /\ LET kind == Plan[step[i]][2]
           n    == Plan[step[i]][3]
       IN  /\ files' = [files EXCEPT ![Target(step[i])] = content(i, kind, n)]
           /\ peers' = IF kind = "node" THEN [peers EXCEPT ![i] = @ \cup {n}] ELSE peers
    /\ advance(i)
    /\ UNCHANGED dirs /\ unchangedNodes

\* The command, or a node, is interrupted.
interrupt ==
    /\ crashes < MaxCrashes
    /\ crashes' = crashes + 1
    /\ \/ \E i \in Inits : /\ step[i] \in DOMAIN Plan
                           /\ step' = [step EXCEPT ![i] = 0]
                           /\ UNCHANGED <<loaded, state>>
       \/ \E n \in NodeIDs : /\ state[n] = "running"
                           /\ loaded' = [loaded EXCEPT ![n] = <<>>]
                           /\ state' = [state EXCEPT ![n] = "stopped"]
                           /\ UNCHANGED step
    /\ UNCHANGED <<dirs, files, peers>>
-----------------------------------------------------------------------------
\* LoadNetwork, LoadNode, LoadKeys, LoadContracts: a file that is not there is an error, an
\* empty one is not.
load(n) ==
    /\ state[n] \in {"stopped", "loading"} /\ Len(loaded[n]) < 4
    /\ LET f == files[Reads(n)[Len(loaded[n]) + 1]] IN
         IF f = Absent
            THEN /\ state' = [state EXCEPT ![n] = "failed"]
                 /\ loaded' = [loaded EXCEPT ![n] = <<>>]
            ELSE /\ state' = [state EXCEPT ![n] = "loading"]
                 /\ loaded' = [loaded EXCEPT ![n] = Append(@, f)]
    /\ UNCHANGED <<dirs, files, step, peers, crashes>>

\* New of the network package computes the hash again and compares; an empty file has no ID.
newNetwork(f) == f # Empty /\ f.id = Hash(f.seeds)

\* The node starts.  Empty files of the node and of its keys leave pointers nil, which ends it;
\* an empty contracts file is a node without contracts.
runNode(n) ==
    /\ state[n] = "loading" /\ Len(loaded[n]) = 4
    /\ LET whole == newNetwork(loaded[n][1]) /\ loaded[n][2] # Empty /\ loaded[n][3] # Empty
       IN  /\ state' = [state EXCEPT ![n] = IF whole THEN "running" ELSE "failed"]
           /\ loaded' = IF whole THEN loaded ELSE [loaded EXCEPT ![n] = <<>>]
    /\ UNCHANGED <<dirs, files, step, peers, crashes>>

\* A node that failed is started again.
retry(n) ==
    /\ state[n] = "failed"
    /\ state' = [state EXCEPT ![n] = "stopped"]
    /\ UNCHANGED <<dirs, files, step, peers, loaded, crashes>>

SetupNext ==
    \/ \E i \in Inits : mkdir(i) \/ create(i) \/ writeFile(i)
    \/ \E n \in NodeIDs : load(n) \/ runNode(n) \/ retry(n)
    \/ interrupt

SetupSpec == SetupInit /\ [][SetupNext]_setupVars
-----------------------------------------------------------------------------
Running == {n \in NodeIDs : state[n] = "running"}

\* A node runs only in a whole network: it has the keys of all nodes, however far the init
\* command had got when it was started or when it was interrupted.
WholeNetwork ==
    \A n \in Running : \A m \in NodeIDs : \E k \in loaded[n][1].seeds : k[2] = m

\* The nodes that run have the same network, and each has in it the key that it signs with: two
\* init commands never mix their files.
OneNetwork ==
    \A n \in Running :
       /\ loaded[n][3].seeds \subseteq loaded[n][1].seeds
       /\ \A m \in Running : loaded[m][1].id = loaded[n][1].id

\* Whatever files were read half written: no node runs with an ID that is not the hash of its
\* seed nodes, nor without keys or without its configuration.
NeverHalf ==
    \A n \in Running :
       loaded[n][1].id = loaded[n][1].seeds /\ loaded[n][2] # Empty /\ loaded[n][3] # Empty

\* All three, with the types of the variables: the nodes that run have the same whole network,
\* whichever init commands ran or were interrupted, and when (cmd/chainspace).
SameNetwork == SetupTypeOK /\ WholeNetwork /\ OneNetwork /\ NeverHalf

=============================================================================
