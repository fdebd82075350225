------------------------------ MODULE AgentConn ------------------------------
(***************************************************************************)
(* The Agent-Communication Layer of the central server: one ServeHTTP      *)
(* goroutine and one watchLiveness goroutine per WebSocket connection, the *)
(* Registry that says which connection a node currently owns, and the      *)
(* agent_status column of the nodes table, which survives the process.     *)
(*                                                                         *)
(* Every database write and every mutex-protected section is a step of its *)
(* own: several connections of the same node overlap whenever an agent     *)
(* redials before the server has noticed that the old connection died.     *)
(* What the onMessage and onConnect callbacks do is modelled by the        *)
(* components that provide them.                                           *)
(***************************************************************************)
EXTENDS Naturals, FiniteSets

CONSTANTS
    Conns,        \* connections ever accepted (each identity is used once)
    Nodes,        \* registered nodes
    NoConn,       \* the absence of a registry entry
    NoNode,       \* the node of a connection that has not said hello
    Hellos,       \* the SSH keys a hello may carry, as [client, host] records
    DBErrors,     \* the agent_status writes that may fail
    MaxRestarts   \* bound on restarts of the server process

Statuses == {"online", "offline", "unreachable"}
KeyForms == {"none", "bad", "good"}

ASSUME ConnAssumption == NoConn \notin Conns
ASSUME NodeAssumption == NoNode \notin Nodes
ASSUME HelloAssumption == Hellos \subseteq [client : KeyForms, host : KeyForms]
ASSUME DBErrorsAssumption == DBErrors \subseteq Statuses
ASSUME RestartAssumption == MaxRestarts \in Nat

VARIABLES
    pc,           \* ServeHTTP's position, per connection
    sock,         \* the socket as the network has it
    node,         \* the node the handshake authenticated
    hello,        \* the keys of the hello, until they are recorded
    watch,        \* watchLiveness's position, per connection
    quiet,        \* nothing has been read for unreachableTimeout (lastSeen)
    unreachable,  \* livenessTracker.unreachable
    registry,     \* Registry.conns
    status,       \* nodes.agent_status
    sshKey,       \* nodes.ssh_public_key is set
    hostKey,      \* nodes.ssh_host_public_key is set
    newest,       \* history: the last connection registered for a node
    leftover,     \* history: nodes whose status a dead server process left behind
    restarts      \* number of restarts so far

connVars == <<pc, sock, node, hello>>
liveVars == <<watch, quiet, unreachable>>
nodeVars == <<registry, status, sshKey, hostKey, newest, leftover>>
vars == <<connVars, liveVars, nodeVars, restarts>>

PCs == {"idle", "handshake", "identity", "register", "online", "ack", "read",
        "recover", "join", "unregister", "offline", "done"}

(* The connection's goroutine has called Register and not yet Unregister.   *)
Registered == {"online", "ack", "read", "recover", "join", "unregister"}

(* The connection may have written a status and still has to write offline. *)
Owing == {"ack", "read", "recover", "join", "unregister", "offline"}

(* The states in which watchLiveness may be running.                        *)
Watched == {"read", "recover", "join"}

TypeOK ==
    /\ pc \in [Conns -> PCs]
    /\ sock \in [Conns -> {"none", "open", "closed"}]
    /\ node \in [Conns -> Nodes \cup {NoNode}]
    /\ hello \in [Conns -> [client : KeyForms, host : KeyForms]]
    /\ watch \in [Conns -> {"off", "poll", "write", "exited"}]
    /\ quiet \in [Conns -> BOOLEAN]
    /\ unreachable \in [Conns -> BOOLEAN]
    /\ registry \in [Nodes -> Conns \cup {NoConn}]
    /\ status \in [Nodes -> Statuses]
    /\ sshKey \in [Nodes -> BOOLEAN]
    /\ hostKey \in [Nodes -> BOOLEAN]
    /\ newest \in [Nodes -> Conns \cup {NoConn}]
    /\ leftover \subseteq Nodes
    /\ restarts \in 0..MaxRestarts

NoKeys == [client |-> "none", host |-> "none"]

Init ==
    /\ pc = [c \in Conns |-> "idle"]
    /\ sock = [c \in Conns |-> "none"]
    /\ node = [c \in Conns |-> NoNode]
    /\ hello = [c \in Conns |-> NoKeys]
    /\ watch = [c \in Conns |-> "off"]
    /\ quiet = [c \in Conns |-> FALSE]
    /\ unreachable = [c \in Conns |-> FALSE]
    /\ registry = [n \in Nodes |-> NoConn]
    /\ status = [n \in Nodes |-> "offline"]
    /\ sshKey = [n \in Nodes |-> FALSE]
    /\ hostKey = [n \in Nodes |-> FALSE]
    /\ newest = [n \in Nodes |-> NoConn]
    /\ leftover = {}
    /\ restarts = 0

----------------------------------------------------------------------------
(* SetAgentStatus: one UPDATE of the node's row, which may fail; a caller    *)
(* logs the error and carries on.                                            *)
SetAgentStatus(n, s) ==
    /\ status' = [status EXCEPT ![n] = s]
    /\ leftover' = leftover \ {n}

StatusWriteFails(n, s) ==
    /\ s \in DBErrors
    /\ UNCHANGED <<status, leftover>>

WriteStatus(n, s) == SetAgentStatus(n, s) \/ StatusWriteFails(n, s)

At(c, from, to) == pc[c] = from /\ pc' = [pc EXCEPT ![c] = to]

(* The agent dials and the upgrade succeeds.                                 *)
Accept(c) ==
    /\ At(c, "idle", "handshake")
    /\ sock' = [sock EXCEPT ![c] = "open"]
    /\ UNCHANGED <<node, hello, liveVars, nodeVars, restarts>>

(* handshake succeeds: the hello authenticates as a node.                    *)
HandshakeOK(c) ==
    /\ sock[c] = "open"
    /\ At(c, "handshake", "identity")
    /\ \E n \in Nodes : node' = [node EXCEPT ![c] = n]
    /\ \E h \in Hellos : hello' = [hello EXCEPT ![c] = h]
    /\ UNCHANGED <<sock, liveVars, nodeVars, restarts>>

(* handshake fails (timeout, bad hello, bad credentials, closed socket): the *)
(* connection is closed and nothing was registered.                          *)
HandshakeFails(c) ==
    /\ At(c, "handshake", "done")
    /\ sock' = [sock EXCEPT ![c] = "closed"]
    /\ UNCHANGED <<node, hello, liveVars, nodeVars, restarts>>

(* Mutant: an omitted key is written like any other.                         *)
RecordSSHIdentityAlways(c) ==
    /\ At(c, "identity", "register")
    /\ sshKey' = [sshKey EXCEPT ![node[c]] = (hello[c].client = "good")]
    /\ hostKey' = [hostKey EXCEPT ![node[c]] = (hello[c].host = "good")]
    /\ hello' = [hello EXCEPT ![c] = NoKeys]
    /\ UNCHANGED <<sock, node, liveVars, registry, status, newest, leftover, restarts>>

(* recordSSHIdentity: nothing without a well-formed client key; with one, a  *)
(* single UPDATE of both columns, the host key NULL unless well formed. A    *)
(* failed UPDATE is logged.                                                  *)
RecordSSHIdentity(c) ==
    /\ At(c, "identity", "register")
    /\ \/ /\ hello[c].client = "good"
          /\ sshKey' = [sshKey EXCEPT ![node[c]] = TRUE]
          /\ hostKey' = [hostKey EXCEPT ![node[c]] = (hello[c].host = "good")]
       \/ UNCHANGED <<sshKey, hostKey>>
    /\ hello' = [hello EXCEPT ![c] = NoKeys]
    /\ UNCHANGED <<sock, node, liveVars, registry, status, newest, leftover, restarts>>

(* Registry.Register replaces any prior connection of the node.              *)
Register(c) ==
    /\ At(c, "register", "online")
    /\ registry' = [registry EXCEPT ![node[c]] = c]
    /\ newest' = [newest EXCEPT ![node[c]] = c]
    /\ UNCHANGED <<sock, node, hello, liveVars, status, sshKey, hostKey, leftover, restarts>>

(* The online write that precedes the hello_ack.                             *)
MarkOnline(c) ==
    /\ At(c, "online", "ack")
    /\ WriteStatus(node[c], "online")
    /\ UNCHANGED <<sock, node, hello, liveVars, registry, sshKey, hostKey, newest, restarts>>

(* hello_ack, then the watcher and the read loop start; a failed write of    *)
(* the ack is only logged.                                                   *)
SendHelloAck(c) ==
    /\ At(c, "ack", "read")
    /\ watch' = [watch EXCEPT ![c] = "poll"]
    /\ UNCHANGED <<sock, node, hello, quiet, unreachable, nodeVars, restarts>>

(* readLoop reads a message: recordActivity clears the tracker and reports   *)
(* whether the connection had been flagged.                                  *)
ReadMessage(c) ==
    /\ sock[c] = "open"
    /\ pc[c] = "read"
    /\ pc' = [pc EXCEPT ![c] = IF unreachable[c] THEN "recover" ELSE "read"]
    /\ quiet' = [quiet EXCEPT ![c] = FALSE]
    /\ unreachable' = [unreachable EXCEPT ![c] = FALSE]
    /\ UNCHANGED <<sock, node, hello, watch, nodeVars, restarts>>

(* The online write of a recovery, outside the tracker's mutex.              *)
MarkRecovered(c) ==
    /\ At(c, "recover", "read")
    /\ WriteStatus(node[c], "online")
    /\ UNCHANGED <<sock, node, hello, liveVars, registry, sshKey, hostKey, newest, restarts>>

(* conn.Read fails; the deferred cleanup starts with cancelLive.             *)
ReadFails(c) ==
    /\ sock[c] = "closed"
    /\ At(c, "read", "join")
    /\ UNCHANGED <<sock, node, hello, liveVars, nodeVars, restarts>>

(* Mutant: cancelLive is deferred until after the join.                      *)
CancelledLate(c) == pc[c] \in {"unregister", "offline", "done"}

(* liveCtx is done: cancelLive has run.                                      *)
Cancelled(c) == pc[c] \in {"join", "unregister", "offline", "done"}

(* Mutant: the cleanup does not wait for the watcher.                        *)
JoinWatcherNoWait(c) ==
    /\ At(c, "join", "unregister")
    /\ UNCHANGED <<sock, node, hello, liveVars, nodeVars, restarts>>

(* <-watchDone                                                               *)
JoinWatcher(c) ==
    /\ watch[c] = "exited"
    /\ At(c, "join", "unregister")
    /\ UNCHANGED <<sock, node, hello, liveVars, nodeVars, restarts>>

(* Mutant: the entry is deleted whoever owns it.                             *)
UnregisterAlways(c) ==
    /\ At(c, "unregister", "offline")
    /\ registry' = [registry EXCEPT ![node[c]] = NoConn]
    /\ UNCHANGED <<sock, node, hello, liveVars, status, sshKey, hostKey, newest, leftover, restarts>>

(* Registry.Unregister deletes the entry only if it still is this connection.*)
Unregister(c) ==
    /\ At(c, "unregister", "offline")
    /\ registry' = [registry EXCEPT ![node[c]] = IF @ = c THEN NoConn ELSE @]
    /\ UNCHANGED <<sock, node, hello, liveVars, status, sshKey, hostKey, newest, leftover, restarts>>

(* Mutant: a status that the column's CHECK does not know.                   *)
MarkClosed(c) ==
    /\ At(c, "offline", "done")
    /\ WriteStatus(node[c], "closed")
    /\ UNCHANGED <<sock, node, hello, liveVars, registry, sshKey, hostKey, newest, restarts>>

(* The final offline write, whoever owns the registry entry by now.          *)
MarkOffline(c) ==
    /\ At(c, "offline", "done")
    /\ WriteStatus(node[c], "offline")
    /\ UNCHANGED <<sock, node, hello, liveVars, registry, sshKey, hostKey, newest, restarts>>

(* watchLiveness's ticker fires on a silent connection. select may pick the  *)
(* tick although liveCtx is already done.                                    *)
WatchTick(c) ==
    /\ watch[c] = "poll"
    /\ quiet[c]
    /\ ~unreachable[c]
    /\ unreachable' = [unreachable EXCEPT ![c] = TRUE]
    /\ watch' = [watch EXCEPT ![c] = "write"]
    /\ UNCHANGED <<connVars, quiet, nodeVars, restarts>>

(* Mutant: the watcher returns after its first report.                       *)
MarkUnreachableOnce(c) ==
    /\ watch[c] = "write"
    /\ watch' = [watch EXCEPT ![c] = "exited"]
    /\ WriteStatus(node[c], "unreachable")
    /\ UNCHANGED <<connVars, quiet, unreachable, registry, sshKey, hostKey, newest, restarts>>

(* The unreachable write uses liveCtx, so it may also fail once that is done.*)
MarkUnreachable(c) ==
    /\ watch[c] = "write"
    /\ watch' = [watch EXCEPT ![c] = "poll"]
    /\ \/ WriteStatus(node[c], "unreachable")
       \/ Cancelled(c) /\ UNCHANGED <<status, leftover>>
    /\ UNCHANGED <<connVars, quiet, unreachable, registry, sshKey, hostKey, newest, restarts>>

WatchExit(c) ==
    /\ watch[c] = "poll"
    /\ Cancelled(c)
    /\ watch' = [watch EXCEPT ![c] = "exited"]
    /\ UNCHANGED <<connVars, quiet, unreachable, nodeVars, restarts>>

(* Time: the connection has been silent for unreachableTimeout.              *)
GoesQuiet(c) ==
    /\ pc[c] \in Watched
    /\ ~quiet[c]
    /\ quiet' = [quiet EXCEPT ![c] = TRUE]
    /\ UNCHANGED <<connVars, watch, unreachable, nodeVars, restarts>>

(* The network or the agent closes the socket.                               *)
SocketCloses(c) ==
    /\ sock[c] = "open"
    /\ sock' = [sock EXCEPT ![c] = "closed"]
    /\ UNCHANGED <<pc, node, hello, liveVars, nodeVars, restarts>>

(* The server process dies and starts again. Connections, trackers and the   *)
(* registry are memory; the nodes table is not, and nothing resets it.       *)
Restart ==
    /\ restarts < MaxRestarts
    /\ restarts' = restarts + 1
    /\ pc' = [c \in Conns |-> IF pc[c] = "idle" THEN "idle" ELSE "done"]
    /\ sock' = [c \in Conns |-> IF pc[c] = "idle" THEN "none" ELSE "closed"]
    /\ watch' = [c \in Conns |-> IF pc[c] = "idle" THEN "off" ELSE "exited"]
    /\ registry' = [n \in Nodes |-> NoConn]
    /\ newest' = [n \in Nodes |-> NoConn]
    /\ leftover' = {n \in Nodes : status[n] # "offline"}
    /\ UNCHANGED <<node, hello, quiet, unreachable, status, sshKey, hostKey>>

(* What the goroutines of one connection do by themselves.                   *)
Serve(c) ==
    \/ HandshakeFails(c) \/ RecordSSHIdentity(c) \/ Register(c) \/ MarkOnline(c)
    \/ SendHelloAck(c) \/ MarkRecovered(c) \/ ReadFails(c) \/ JoinWatcher(c)
    \/ Unregister(c) \/ MarkOffline(c)

Watch(c) == WatchTick(c) \/ MarkUnreachable(c) \/ WatchExit(c)

Environment(c) ==
    Accept(c) \/ HandshakeOK(c) \/ ReadMessage(c) \/ GoesQuiet(c) \/ SocketCloses(c)

(* Every connection has run its course and the server stays up.              *)
Quiesced ==
    /\ \A c \in Conns : pc[c] = "done" /\ sock[c] = "closed"
    /\ UNCHANGED vars

Next ==
    \/ \E c \in Conns : Serve(c) \/ Watch(c) \/ Environment(c)
    \/ Restart
    \/ Quiesced

(* The Go scheduler runs every runnable goroutine; a handshake is bounded by *)
(* handshakeTimeout. Nothing obliges an agent to talk or a socket to close.  *)
Fairness == \A c \in Conns : WF_vars(Serve(c)) /\ WF_vars(Watch(c))

Spec == Init /\ [][Next]_vars /\ Fairness

----------------------------------------------------------------------------
(* PROPERTIES                                                                *)

(* Registry.Register/Unregister: the entry of a node is the connection that  *)
(* registered last for as long as that one has not cleaned up, and a         *)
(* superseded connection's cleanup never evicts it.                          *)
RegistryTracksNewest ==
    \A n \in Nodes :
        registry[n] = IF newest[n] # NoConn /\ pc[newest[n]] \in Registered
                      THEN newest[n] ELSE NoConn

(* ServeHTTP's deferred cleanup: when no connection of a node is left that   *)
(* still owes its offline write, the node's status is offline (unless a dead *)
(* process left the status behind, or the offline write itself may fail).    *)
OfflineHasTheLastWord ==
    "offline" \notin DBErrors =>
        \A n \in Nodes \ leftover :
            status[n] = "offline" \/ \E c \in Conns : node[c] = n /\ pc[c] \in Owing

(* The join on watchDone: the watcher of a connection makes no write after   *)
(* the connection's goroutine has gone past it.                              *)
WatcherJoined == \A c \in Conns : watch[c] \in {"poll", "write"} => pc[c] \in Watched

(* recordSSHIdentity: a hello without keys, or with a malformed one, never   *)
(* clears the client key a node reported earlier.                            *)
ClientKeyKept == [][\A n \in Nodes : sshKey[n] => sshKey'[n]]_vars

(* Every connection whose socket closed is cleaned up in the end: the        *)
(* cleanup and the watcher never wait for each other.                        *)
ClosedIsCleanedUp ==
    \A c \in Conns : sock[c] = "closed" ~> pc[c] = "done"

(* watchLiveness: a connection that stays silent is flagged.                 *)
SilenceIsNoticed ==
    \A c \in Conns : (pc[c] = "read" /\ quiet[c]) ~>
                         (unreachable[c] \/ ~quiet[c] \/ Cancelled(c))

----------------------------------------------------------------------------
(* CLAIMS OF THE SOURCE THAT THE CODE DOES NOT KEEP                          *)

(* The goroutines of the node's connections are all between two status       *)
(* writes.                                                                   *)
Settled(n) ==
    \A c \in Conns : node[c] = n => /\ pc[c] \in {"read", "done"}
                                    /\ watch[c] # "write"

(* watchLiveness's comment: offline means the connection actually closed. So *)
(* a settled node whose registered connection is open is not offline.        *)
OpenIsNotOffline ==
    \A n \in Nodes :
        Settled(n) /\ registry[n] # NoConn /\ sock[registry[n]] = "open" =>
            status[n] # "offline"

(* readLoop's comment: traffic on a flagged connection reports the recovery  *)
(* back to online. So a settled node whose only connection is open and not   *)
(* flagged is online.                                                        *)
RecoveryIsReported ==
    \A n \in Nodes :
        \A c \in Conns :
            /\ Settled(n)
            /\ registry[n] = c /\ sock[c] = "open" /\ ~unreachable[c]
            /\ \A d \in Conns \ {c} : node[d] # n
            => status[n] = "online"

(* SCHEMA.md: agent_status is derived from the persistent WebSocket          *)
(* connection state. So a node without any connection is offline.            *)
NoConnectionIsOffline ==
    \A n \in Nodes :
        (\A c \in Conns : node[c] = n => pc[c] = "done") => status[n] = "offline"

(* recordSSHIdentity's comment: omission is never treated as "clear it".     *)
HostKeyKept == [][\A n \in Nodes : hostKey[n] => hostKey'[n]]_vars
=============================================================================
