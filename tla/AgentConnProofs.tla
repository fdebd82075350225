--------------------------- MODULE AgentConnProofs ---------------------------
(***************************************************************************)
(* Proofs about AgentConn, for any number of nodes, connections and        *)
(* restarts and any set of failing status writes.                          *)
(***************************************************************************)
EXTENDS AgentConn, TLAPS

(* A connection past its handshake belongs to a registered node.             *)
NodeKnown ==
    \A c \in Conns : pc[c] \notin {"idle", "handshake", "done"} => node[c] \in Nodes

(* The last connection registered for a node is one of that node's, and has  *)
(* got at least as far as Register.                                          *)
NewestIsOwn ==
    \A n \in Nodes : newest[n] # NoConn =>
        /\ node[newest[n]] = n
        /\ pc[newest[n]] \in Registered \cup {"offline", "done"}

(* The inductive invariant: the three safety properties hold together, with  *)
(* the typing and the two facts above.                                       *)
IInv ==
    /\ TypeOK
    /\ NodeKnown
    /\ NewestIsOwn
    /\ RegistryTracksNewest
    /\ WatcherJoined
    /\ OfflineHasTheLastWord

(* The initial state, in which nothing is connected, satisfies it.           *)
LEMMA InitIInv == Init => IInv
  BY ConnAssumption, NodeAssumption, HelloAssumption, RestartAssumption
     DEF Init, IInv, TypeOK, NodeKnown, NewestIsOwn, RegistryTracksNewest,
         WatcherJoined, OfflineHasTheLastWord, NoKeys, PCs, Statuses, KeyForms, Registered

(* Typing is preserved by every step.                                        *)
LEMMA TypeStep == TypeOK /\ NodeKnown /\ [Next]_vars => TypeOK'
<1> SUFFICES ASSUME TypeOK, NodeKnown, [Next]_vars PROVE TypeOK'
  OBVIOUS
<1> USE DEF TypeOK, NodeKnown, PCs, Statuses, KeyForms, connVars, liveVars, nodeVars
<1>1. ASSUME NEW c \in Conns, Serve(c) PROVE TypeOK'
  <2>1. CASE HandshakeFails(c)
    BY <2>1 DEF HandshakeFails, At
  <2>2. CASE RecordSSHIdentity(c)
    BY <2>2 DEF RecordSSHIdentity, At, NoKeys
  <2>3. CASE Register(c)
    BY <2>3 DEF Register, At
  <2>4. CASE MarkOnline(c)
    BY <2>4 DEF MarkOnline, At, WriteStatus, SetAgentStatus, StatusWriteFails
  <2>5. CASE SendHelloAck(c)
    BY <2>5 DEF SendHelloAck, At
  <2>6. CASE MarkRecovered(c)
    BY <2>6 DEF MarkRecovered, At, WriteStatus, SetAgentStatus, StatusWriteFails
  <2>7. CASE ReadFails(c)
    BY <2>7 DEF ReadFails, At
  <2>8. CASE JoinWatcher(c)
    BY <2>8 DEF JoinWatcher, At
  <2>9. CASE Unregister(c)
    BY <2>9 DEF Unregister, At
  <2>10. CASE MarkOffline(c)
    BY <2>10 DEF MarkOffline, At, WriteStatus, SetAgentStatus, StatusWriteFails
  <2>11. QED
    BY <1>1, <2>1, <2>2, <2>3, <2>4, <2>5, <2>6, <2>7, <2>8, <2>9, <2>10 DEF Serve
<1>2. ASSUME NEW c \in Conns, Watch(c) PROVE TypeOK'
  <2>1. CASE WatchTick(c)
    BY <2>1 DEF WatchTick
  <2>2. CASE MarkUnreachable(c)
    BY <2>2 DEF MarkUnreachable, WriteStatus, SetAgentStatus, StatusWriteFails
  <2>3. CASE WatchExit(c)
    BY <2>3 DEF WatchExit
  <2>4. QED
    BY <1>2, <2>1, <2>2, <2>3 DEF Watch
<1>3. ASSUME NEW c \in Conns, Environment(c) PROVE TypeOK'
  <2>1. CASE Accept(c)
    BY <2>1 DEF Accept, At
  <2>2. CASE HandshakeOK(c)
    BY <2>2, HelloAssumption DEF HandshakeOK, At
  <2>3. CASE ReadMessage(c)
    BY <2>3 DEF ReadMessage
  <2>4. CASE GoesQuiet(c)
    BY <2>4 DEF GoesQuiet
  <2>5. CASE SocketCloses(c)
    BY <2>5 DEF SocketCloses
  <2>6. QED
    BY <1>3, <2>1, <2>2, <2>3, <2>4, <2>5 DEF Environment
<1>4. CASE Restart
  BY <1>4, RestartAssumption DEF Restart
<1>5. CASE UNCHANGED vars
  BY <1>5 DEF vars
<1>6. QED
  BY <1>1, <1>2, <1>3, <1>4, <1>5 DEF Next, Quiesced

(* A connection past its handshake keeps its node.                           *)
LEMMA NodeStep == TypeOK /\ NodeKnown /\ [Next]_vars => NodeKnown'
<1> SUFFICES ASSUME TypeOK, NodeKnown, [Next]_vars PROVE NodeKnown'
  OBVIOUS
<1> USE DEF TypeOK, NodeKnown, PCs, connVars, liveVars, nodeVars
<1>1. ASSUME NEW c \in Conns, Serve(c) PROVE NodeKnown'
  BY <1>1 DEF Serve, HandshakeFails, RecordSSHIdentity, Register, MarkOnline, SendHelloAck,
     MarkRecovered, ReadFails, JoinWatcher, Unregister, MarkOffline, At
<1>2. ASSUME NEW c \in Conns, Watch(c) PROVE NodeKnown'
  BY <1>2 DEF Watch, WatchTick, MarkUnreachable, WatchExit
<1>3. ASSUME NEW c \in Conns, Environment(c) PROVE NodeKnown'
  BY <1>3 DEF Environment, Accept, HandshakeOK, ReadMessage, GoesQuiet, SocketCloses, At
<1>4. CASE Restart
  BY <1>4 DEF Restart
<1>5. CASE UNCHANGED vars
  BY <1>5 DEF vars
<1>6. QED
  BY <1>1, <1>2, <1>3, <1>4, <1>5 DEF Next, Quiesced

(* The registry: only Register and Unregister touch it, Register makes the   *)
(* connection the newest one and Unregister deletes the entry only for it.   *)
LEMMA RegistryStep ==
    TypeOK /\ NodeKnown /\ NewestIsOwn /\ RegistryTracksNewest /\ [Next]_vars
        => NewestIsOwn' /\ RegistryTracksNewest'
<1> SUFFICES ASSUME TypeOK, NodeKnown, NewestIsOwn, RegistryTracksNewest, [Next]_vars
             PROVE NewestIsOwn' /\ RegistryTracksNewest'
  OBVIOUS
<1> USE ConnAssumption
    DEF TypeOK, NodeKnown, NewestIsOwn, RegistryTracksNewest, PCs, Registered,
        connVars, liveVars, nodeVars
<1>1. ASSUME NEW c \in Conns, Serve(c) PROVE NewestIsOwn' /\ RegistryTracksNewest'
  <2>1. CASE HandshakeFails(c)
    BY <2>1 DEF HandshakeFails, At
  <2>2. CASE RecordSSHIdentity(c)
    BY <2>2 DEF RecordSSHIdentity, At
  <2>3. CASE Register(c)
    <3>1. \A n \in Nodes : newest[n] # c
      BY <2>3 DEF Register, At
    <3>2. \A n \in Nodes :
            /\ newest'[n] = IF n = node[c] THEN c ELSE newest[n]
            /\ registry'[n] = IF n = node[c] THEN c ELSE registry[n]
      <4> HIDE DEF NodeKnown, NewestIsOwn, RegistryTracksNewest
      <4>1. QED
        BY <2>3 DEF Register, At
    <3>3. \A d \in Conns : node'[d] = node[d] /\ pc'[d] = IF d = c THEN "online" ELSE pc[d]
      BY <2>3 DEF Register, At
    <3>4. NewestIsOwn'
      <4> HIDE DEF RegistryTracksNewest
      <4>1. QED
        BY <3>1, <3>2, <3>3
    <3>5. RegistryTracksNewest'
      <4> SUFFICES ASSUME NEW n \in Nodes
                   PROVE registry'[n] = IF newest'[n] # NoConn /\ pc'[newest'[n]] \in Registered
                                        THEN newest'[n] ELSE NoConn
        OBVIOUS
      <4>1. CASE n = node[c]
        BY <4>1, <3>2, <3>3
      <4>2. CASE n # node[c]
        BY <4>2, <3>1, <3>2, <3>3
      <4>3. QED
        BY <4>1, <4>2
    <3>6. QED
      BY <3>4, <3>5
  <2>4. CASE MarkOnline(c)
    BY <2>4 DEF MarkOnline, At
  <2>4a. CASE MarkRecovered(c)
    BY <2>4a DEF MarkRecovered, At
  <2>4b. CASE MarkOffline(c)
    BY <2>4b DEF MarkOffline, At
  <2>5. CASE SendHelloAck(c)
    BY <2>5 DEF SendHelloAck, At
  <2>5a. CASE ReadFails(c)
    BY <2>5a DEF ReadFails, At
  <2>5b. CASE JoinWatcher(c)
    BY <2>5b DEF JoinWatcher, At
  <2>6. CASE Unregister(c)
    BY <2>6 DEF Unregister, At
  <2>7. QED
    BY <1>1, <2>1, <2>2, <2>3, <2>4, <2>4a, <2>4b, <2>5, <2>5a, <2>5b, <2>6 DEF Serve
<1>2. ASSUME NEW c \in Conns, Watch(c) PROVE NewestIsOwn' /\ RegistryTracksNewest'
  BY <1>2 DEF Watch, WatchTick, MarkUnreachable, WatchExit
<1>3. ASSUME NEW c \in Conns, Environment(c) PROVE NewestIsOwn' /\ RegistryTracksNewest'
  <2>1. CASE Accept(c)
    BY <2>1 DEF Accept, At
  <2>2. CASE HandshakeOK(c)
    BY <2>2 DEF HandshakeOK, At
  <2>3. CASE ReadMessage(c)
    BY <2>3 DEF ReadMessage
  <2>4. CASE GoesQuiet(c) \/ SocketCloses(c)
    BY <2>4 DEF GoesQuiet, SocketCloses
  <2>5. QED
    BY <1>3, <2>1, <2>2, <2>3, <2>4 DEF Environment
<1>4. CASE Restart
  BY <1>4 DEF Restart
<1>5. CASE UNCHANGED vars
  BY <1>5 DEF vars
<1>6. QED
  BY <1>1, <1>2, <1>3, <1>4, <1>5 DEF Next, Quiesced

(* The watcher runs only between SendHelloAck and the join.                  *)
LEMMA WatcherStep == TypeOK /\ WatcherJoined /\ [Next]_vars => WatcherJoined'
<1> SUFFICES ASSUME TypeOK, WatcherJoined, [Next]_vars PROVE WatcherJoined'
  OBVIOUS
<1> USE DEF TypeOK, WatcherJoined, PCs, Watched, connVars, liveVars, nodeVars
<1>1. ASSUME NEW c \in Conns, Serve(c) PROVE WatcherJoined'
  BY <1>1 DEF Serve, HandshakeFails, RecordSSHIdentity, Register, MarkOnline, SendHelloAck,
     MarkRecovered, ReadFails, JoinWatcher, Unregister, MarkOffline, At
<1>2. ASSUME NEW c \in Conns, Watch(c) PROVE WatcherJoined'
  BY <1>2 DEF Watch, WatchTick, MarkUnreachable, WatchExit
<1>3. ASSUME NEW c \in Conns, Environment(c) PROVE WatcherJoined'
  BY <1>3 DEF Environment, Accept, HandshakeOK, ReadMessage, GoesQuiet, SocketCloses, At
<1>4. CASE Restart
  BY <1>4 DEF Restart
<1>5. CASE UNCHANGED vars
  BY <1>5 DEF vars
<1>6. QED
  BY <1>1, <1>2, <1>3, <1>4, <1>5 DEF Next, Quiesced

(* A status other than offline is written only by a connection that goes on  *)
(* to owe its offline write: ServeHTTP itself, or a watcher not yet joined.  *)
LEMMA LastWordStep ==
    TypeOK /\ NodeKnown /\ WatcherJoined /\ OfflineHasTheLastWord /\ [Next]_vars
        => OfflineHasTheLastWord'
<1> SUFFICES ASSUME TypeOK, NodeKnown, WatcherJoined, OfflineHasTheLastWord, [Next]_vars,
                    "offline" \notin DBErrors,
                    NEW n \in Nodes, n \notin leftover', status'[n] # "offline"
             PROVE \E d \in Conns : node'[d] = n /\ pc'[d] \in Owing
  BY DEF OfflineHasTheLastWord
<1> USE DEF TypeOK, NodeKnown, PCs, connVars, liveVars, nodeVars
<1>a. n \notin leftover /\ status[n] # "offline" =>
          \E d \in Conns : node[d] = n /\ pc[d] \in Owing
  BY DEF OfflineHasTheLastWord
<1>1. ASSUME NEW c \in Conns, Serve(c)
      PROVE \E d \in Conns : node'[d] = n /\ pc'[d] \in Owing
  <2>1. CASE MarkOnline(c) \/ MarkRecovered(c)
    BY <1>a, <2>1 DEF MarkOnline, MarkRecovered, At, WriteStatus, SetAgentStatus,
                      StatusWriteFails, Owing
  <2>2. CASE MarkOffline(c)
    BY <1>a, <2>2 DEF MarkOffline, At, WriteStatus, SetAgentStatus, StatusWriteFails, Owing
  <2>3. CASE HandshakeFails(c) \/ RecordSSHIdentity(c) \/ Register(c) \/ SendHelloAck(c)
    BY <1>a, <2>3 DEF HandshakeFails, RecordSSHIdentity, Register, SendHelloAck, At, Owing
  <2>4. CASE ReadFails(c) \/ JoinWatcher(c) \/ Unregister(c)
    BY <1>a, <2>4 DEF ReadFails, JoinWatcher, Unregister, At, Owing
  <2>5. QED
    BY <1>1, <2>1, <2>2, <2>3, <2>4 DEF Serve
<1>2. ASSUME NEW c \in Conns, Watch(c)
      PROVE \E d \in Conns : node'[d] = n /\ pc'[d] \in Owing
  <2>1. CASE MarkUnreachable(c)
    <3>1. pc[c] \in Owing
      BY <2>1 DEF MarkUnreachable, WatcherJoined, Watched, Owing
    <3>2. QED
      BY <1>a, <2>1, <3>1 DEF MarkUnreachable, WriteStatus, SetAgentStatus, StatusWriteFails
  <2>2. CASE WatchTick(c) \/ WatchExit(c)
    BY <1>a, <2>2 DEF WatchTick, WatchExit
  <2>3. QED
    BY <1>2, <2>1, <2>2 DEF Watch
<1>3. ASSUME NEW c \in Conns, Environment(c)
      PROVE \E d \in Conns : node'[d] = n /\ pc'[d] \in Owing
  BY <1>a, <1>3 DEF Environment, Accept, HandshakeOK, ReadMessage, GoesQuiet, SocketCloses,
                    At, Owing
<1>4. CASE Restart
  BY <1>4 DEF Restart
<1>5. CASE UNCHANGED vars
  BY <1>a, <1>5 DEF vars
<1>6. QED
  BY <1>1, <1>2, <1>3, <1>4, <1>5 DEF Next, Quiesced

(* The inductive invariant holds in every reachable state.                   *)
THEOREM Invariance == Spec => []IInv
<1>1. IInv /\ [Next]_vars => IInv'
  BY TypeStep, NodeStep, RegistryStep, WatcherStep, LastWordStep DEF IInv
<1>2. QED
  BY InitIInv, <1>1, PTL DEF Spec

(* Every variable keeps its type.                                            *)
THEOREM TypeCorrect == Spec => []TypeOK
<1>1. IInv => TypeOK
  BY DEF IInv
<1>2. QED
  BY Invariance, <1>1, PTL

(* Register and Unregister: a superseded connection's cleanup never evicts   *)
(* the connection that replaced it, and no entry outlives its connection.    *)
THEOREM RegistryCorrect == Spec => []RegistryTracksNewest
<1>1. IInv => RegistryTracksNewest
  BY DEF IInv
<1>2. QED
  BY Invariance, <1>1, PTL

(* The deferred cleanup of ServeHTTP: once every connection of a node is     *)
(* gone, its status is offline.                                              *)
THEOREM OfflineFinal == Spec => []OfflineHasTheLastWord
<1>1. IInv => OfflineHasTheLastWord
  BY DEF IInv
<1>2. QED
  BY Invariance, <1>1, PTL

(* The join on watchDone keeps the watcher from writing after the cleanup.   *)
THEOREM WatcherStopped == Spec => []WatcherJoined
<1>1. IInv => WatcherJoined
  BY DEF IInv
<1>2. QED
  BY Invariance, <1>1, PTL

(* recordSSHIdentity never clears a recorded client key.                     *)
THEOREM ClientKeyNeverCleared == Spec => ClientKeyKept
<1>1. IInv /\ [Next]_vars => [\A n \in Nodes : sshKey[n] => sshKey'[n]]_vars
  <2> SUFFICES ASSUME IInv, [Next]_vars, NEW n \in Nodes, sshKey[n], vars' # vars
               PROVE sshKey'[n]
    OBVIOUS
  <2> USE DEF IInv, TypeOK, connVars, liveVars, nodeVars
  <2>1. ASSUME NEW c \in Conns, RecordSSHIdentity(c) PROVE sshKey'[n]
    BY <2>1 DEF RecordSSHIdentity
  <2>2. ASSUME NEW c \in Conns, Serve(c), ~RecordSSHIdentity(c) PROVE sshKey'[n]
    BY <2>2 DEF Serve, HandshakeFails, Register, MarkOnline, SendHelloAck,
       MarkRecovered, ReadFails, JoinWatcher, Unregister, MarkOffline
  <2>3. ASSUME NEW c \in Conns, Watch(c) PROVE sshKey'[n]
    BY <2>3 DEF Watch, WatchTick, MarkUnreachable, WatchExit
  <2>4. ASSUME NEW c \in Conns, Environment(c) PROVE sshKey'[n]
    BY <2>4 DEF Environment, Accept, HandshakeOK, ReadMessage, GoesQuiet, SocketCloses
  <2>5. CASE Restart
    BY <2>5 DEF Restart
  <2>6. QED
    BY <2>1, <2>2, <2>3, <2>4, <2>5 DEF Next, Quiesced
<1>2. QED
  BY Invariance, <1>1, PTL DEF Spec, ClientKeyKept
=============================================================================
