----------------------------- MODULE LogArchive -----------------------------
(***************************************************************************)
(* Archiving the log of a stopped container before it is removed: the      *)
(* agent captures it, uploads it in chunks, waits for the central app to   *)
(* confirm that it is stored, and only then removes the container.         *)
(*                                                                         *)
(* An attempt is one call of archiveInstanceLines and of the removal that  *)
(* follows it (archiveAndRemove, removeStale). Its upload id is fresh, so  *)
(* the attempt itself stands for it. The chunks of an attempt travel on    *)
(* one connection, in order, so what is in flight is the interval between  *)
(* the number handled and the number sent. Acks come back on whatever      *)
(* connection the node has when they are sent.                             *)
(***************************************************************************)
EXTENDS Naturals, FiniteSets

CONSTANTS
    Attempts,
    Instances,      \* stopped containers, by instance
    InstOf,         \* the instance each attempt archives
    LogSize,        \* the compressed log each attempt captures, in chunks
    MaxSize,        \* MaxCompressedBytes, in chunks
    MaxUploads,     \* maxUploadsPerNode
    MaxConns,       \* connections the agent ever makes
    MaxRestarts     \* restarts of each of the two processes

ASSUME ArchiveAssumption ==
    /\ InstOf \in [Attempts -> Instances]
    /\ LogSize \in [Attempts -> Nat \ {0}]
    /\ MaxSize \in Nat \ {0}
    /\ MaxUploads \in Nat \ {0}
    /\ MaxConns \in Nat \ {0}
    /\ MaxRestarts \in Nat

VARIABLES
    pc,         \* the agent's goroutine of each attempt
    via,        \* the connection it sends its chunks on
    sent,       \* chunks sent
    handled,    \* chunks the server's read loop has taken
    outcome,    \* archiveOutcome
    archiving,  \* instances being archived (Conn.archiving)
    waiting,    \* attempts with a registered ack channel (archiveWaiters)
    box,        \* what is in that channel
    container,  \* the container of each instance
    next,       \* Service.uploads: next sequence number, 0 when there is none
    buf,        \* upload.buf: chunks received, kept with the stored row
    idle,       \* uploads without a chunk for uploadIdleTimeout
    finishing,  \* uploads whose finish goroutine has not stored them yet
    rows,       \* container_log_archives, by attempt
    acks,       \* acks on their way to the agent, as <<attempt, stored, conn>>
    owed,       \* acks about to be sent, as <<attempt, stored>>
    conn,       \* the newest connection
    up,         \* whether it is up
    restarts

agentVars == <<pc, via, sent, outcome, archiving, waiting, box, container>>
serverVars == <<handled, next, buf, idle, finishing, rows, owed>>
netVars == <<acks, conn, up>>
vars == <<agentVars, serverVars, netVars, restarts>>

PCs == {"idle", "begin", "capture", "send", "wait", "return", "remove", "end"}
Outcomes == {"none", "stored", "nothing", "failed", "busy"}

Size(a) == LogSize[a]

TypeOK ==
    /\ pc \in [Attempts -> PCs]
    /\ via \in [Attempts -> 0..MaxConns]
    /\ sent \in [Attempts -> Nat]
    /\ handled \in [Attempts -> Nat]
    /\ outcome \in [Attempts -> Outcomes]
    /\ archiving \subseteq Instances
    /\ waiting \subseteq Attempts
    /\ box \in [Attempts -> {"empty", "stored", "refused"}]
    /\ container \in [Instances -> {"exited", "removed", "gone"}]
    /\ next \in [Attempts -> Nat]
    /\ buf \in [Attempts -> Nat]
    /\ idle \subseteq Attempts
    /\ finishing \subseteq Attempts
    /\ rows \subseteq Attempts
    /\ acks \subseteq Attempts \X {"stored", "refused"} \X (1..MaxConns)
    /\ owed \subseteq Attempts \X {"stored", "refused"}
    /\ conn \in 1..MaxConns
    /\ up \in BOOLEAN
    /\ restarts \in [{"agent", "server"} -> 0..MaxRestarts]

Init ==
    /\ pc = [a \in Attempts |-> "idle"]
    /\ via = [a \in Attempts |-> 0]
    /\ sent = [a \in Attempts |-> 0]
    /\ handled = [a \in Attempts |-> 0]
    /\ outcome = [a \in Attempts |-> "none"]
    /\ archiving = {}
    /\ waiting = {}
    /\ box = [a \in Attempts |-> "empty"]
    /\ container = [i \in Instances |-> "exited"]
    /\ next = [a \in Attempts |-> 0]
    /\ buf = [a \in Attempts |-> 0]
    /\ idle = {}
    /\ finishing = {}
    /\ rows = {}
    /\ acks = {}
    /\ owed = {}
    /\ conn = 1
    /\ up = TRUE
    /\ restarts = [p \in {"agent", "server"} |-> 0]

----------------------------------------------------------------------------
(* The agent                                                                 *)

Goto(a, from, to) == pc[a] = from /\ pc' = [pc EXCEPT ![a] = to]

(* A command, or a failed launch, leads to an attempt on this connection.    *)
Begin(a) ==
    /\ up
    /\ Goto(a, "idle", "begin")
    /\ via' = [via EXCEPT ![a] = conn]
    /\ UNCHANGED <<sent, outcome, archiving, waiting, box, container, serverVars, netVars, restarts>>

(* Mutant: the archiving map is not consulted.                               *)
BeginArchiveAlways(a) ==
    /\ Goto(a, "begin", "capture")
    /\ archiving' = archiving \cup {InstOf[a]}
    /\ UNCHANGED <<via, sent, outcome, waiting, box, container, serverVars, netVars, restarts>>

(* beginArchive: one attempt at a time per instance.                         *)
BeginArchive(a) ==
    /\ InstOf[a] \notin archiving
    /\ Goto(a, "begin", "capture")
    /\ archiving' = archiving \cup {InstOf[a]}
    /\ UNCHANGED <<via, sent, outcome, waiting, box, container, serverVars, netVars, restarts>>

ArchiveBusy(a) ==
    /\ InstOf[a] \in archiving
    /\ Goto(a, "begin", "end")
    /\ outcome' = [outcome EXCEPT ![a] = "busy"]
    /\ UNCHANGED <<via, sent, archiving, waiting, box, container, serverVars, netVars, restarts>>

(* runtime.Capture succeeds; the ack channel is registered before the first  *)
(* chunk goes out.                                                           *)
Capture(a) ==
    /\ container[InstOf[a]] = "exited"
    /\ Goto(a, "capture", "send")
    /\ waiting' = waiting \cup {a}
    /\ UNCHANGED <<via, sent, outcome, archiving, box, container, serverVars, netVars, restarts>>

(* ErrNothingToCapture                                                       *)
CaptureNothing(a) ==
    /\ container[InstOf[a]] # "exited"
    /\ Goto(a, "capture", "return")
    /\ outcome' = [outcome EXCEPT ![a] = "nothing"]
    /\ UNCHANGED <<via, sent, archiving, waiting, box, container, serverVars, netVars, restarts>>

(* An attempt ends in failure: capture, gzip or upload error, a refusal, the *)
(* ack timeout.                                                              *)
Fail(a, from) ==
    /\ Goto(a, from, "return")
    /\ outcome' = [outcome EXCEPT ![a] = "failed"]
    /\ UNCHANGED <<via, sent, archiving, waiting, box, container, serverVars, netVars, restarts>>

CaptureFails(a) == Fail(a, "capture")

(* sendLogChunks: after the last chunk the attempt waits.                    *)
SendChunk(a) ==
    /\ up
    /\ via[a] = conn
    /\ pc[a] = "send"
    /\ sent' = [sent EXCEPT ![a] = @ + 1]
    /\ pc' = [pc EXCEPT ![a] = IF sent[a] + 1 = Size(a) THEN "wait" ELSE "send"]
    /\ UNCHANGED <<via, outcome, archiving, waiting, box, container, serverVars, netVars, restarts>>

SendFails(a) ==
    /\ ~(up /\ via[a] = conn)
    /\ Fail(a, "send")

AckArrives(a) ==
    /\ box[a] = "stored"
    /\ Goto(a, "wait", "return")
    /\ outcome' = [outcome EXCEPT ![a] = "stored"]
    /\ UNCHANGED <<via, sent, archiving, waiting, box, container, serverVars, netVars, restarts>>

RefusalArrives(a) == box[a] = "refused" /\ Fail(a, "wait")

(* Mutant: no answer is taken for a confirmation.                            *)
AckTimeoutIsStored(a) ==
    /\ Goto(a, "wait", "return")
    /\ outcome' = [outcome EXCEPT ![a] = "stored"]
    /\ UNCHANGED <<via, sent, archiving, waiting, box, container, serverVars, netVars, restarts>>

(* Mutant: the wait has no timeout.                                          *)
AckNoTimeout(a) == box[a] = "refused" /\ Fail(a, "wait")

(* archiveAckTimeout                                                         *)
AckTimeout(a) == Fail(a, "wait")

(* Mutant: the caller does not look at the outcome.                          *)
ReturnAnyOutcome(a) ==
    /\ Goto(a, "return", "remove")
    /\ waiting' = waiting \ {a}
    /\ archiving' = archiving \ {InstOf[a]}
    /\ UNCHANGED <<via, sent, outcome, box, container, serverVars, netVars, restarts>>

(* archiveInstanceLines returns: unregisterArchiveWait and endArchive run    *)
(* before the caller acts on the outcome.                                    *)
Return(a) ==
    /\ Goto(a, "return", IF outcome[a] \in {"stored", "nothing"} THEN "remove" ELSE "end")
    /\ waiting' = waiting \ {a}
    /\ archiving' = archiving \ {InstOf[a]}
    /\ UNCHANGED <<via, sent, outcome, box, container, serverVars, netVars, restarts>>

(* runtime.Remove, which is content with a container that is no longer there.*)
Remove(a) ==
    /\ Goto(a, "remove", "end")
    /\ container' = [container EXCEPT ![InstOf[a]] = IF @ = "exited" THEN "removed" ELSE @]
    /\ UNCHANGED <<via, sent, outcome, archiving, waiting, box, serverVars, netVars, restarts>>

(* The runtime refuses; the error is logged.                                 *)
RemoveFails(a) ==
    /\ Goto(a, "remove", "end")
    /\ UNCHANGED <<via, sent, outcome, archiving, waiting, box, container, serverVars, netVars, restarts>>

(* deliverArchiveAck: a channel of capacity one; an ack nobody waits for, or *)
(* a second one, is ignored.                                                 *)
DeliverAck(m) ==
    /\ up
    /\ m[3] = conn
    /\ acks' = acks \ {m}
    /\ box' = IF m[1] \in waiting /\ box[m[1]] = "empty"
              THEN [box EXCEPT ![m[1]] = m[2]] ELSE box
    /\ UNCHANGED <<pc, via, sent, outcome, archiving, waiting, container, serverVars, conn, up, restarts>>

----------------------------------------------------------------------------
(* The central app                                                           *)

(* sweepLocked, at the start of every HandleChunk.                           *)
Swept == [b \in Attempts |-> IF b \in idle THEN 0 ELSE next[b]]

InProgress(uploads) == {b \in Attempts : uploads[b] # 0}

(* What the buffer holds when chunk number seq is looked at.                 *)
Received(a, seq) == IF seq = 0 \/ Swept[a] = 0 THEN 0 ELSE buf[a]

(* Mutant: chunks are appended in whatever state the upload is.              *)
RejectedUnordered(a, seq) ==
    \/ seq = 0 /\ Cardinality(InProgress(Swept)) >= MaxUploads
    \/ Received(a, seq) + 1 > MaxSize

(* Mutant: uploads are not counted.                                          *)
RejectedUncounted(a, seq) ==
    \/ seq # 0 /\ Swept[a] # seq
    \/ Received(a, seq) + 1 > MaxSize

(* The rules of HandleChunk for chunk number seq of upload a.                *)
Rejected(a, seq) ==
    \/ seq = 0 /\ Swept[a] # 0
    \/ seq = 0 /\ Cardinality(InProgress(Swept)) >= MaxUploads
    \/ seq # 0 /\ Swept[a] # seq
    \/ Received(a, seq) + 1 > MaxSize

(* HandleChunk: an upload that breaks a rule is dropped and refused, a       *)
(* complete one is handed to finish, any other waits for its next chunk.     *)
HandleChunk(a) ==
    /\ handled[a] < sent[a]
    /\ handled' = [handled EXCEPT ![a] = @ + 1]
    /\ idle' = {}
    /\ LET seq == handled[a] IN
        IF Rejected(a, seq)
        THEN /\ next' = [Swept EXCEPT ![a] = 0]
             /\ owed' = owed \cup {<<a, "refused">>}
             /\ UNCHANGED <<buf, finishing>>
        ELSE IF seq + 1 = Size(a)
        THEN /\ next' = [Swept EXCEPT ![a] = 0]
             /\ buf' = [buf EXCEPT ![a] = Received(a, seq) + 1]
             /\ finishing' = finishing \cup {a}
             /\ UNCHANGED owed
        ELSE /\ next' = [Swept EXCEPT ![a] = seq + 1]
             /\ buf' = [buf EXCEPT ![a] = Received(a, seq) + 1]
             /\ UNCHANGED <<finishing, owed>>
    /\ UNCHANGED <<agentVars, rows, netVars, restarts>>

(* Time: no chunk of the upload for uploadIdleTimeout.                       *)
GoesIdle(a) ==
    /\ next[a] # 0
    /\ a \notin idle
    /\ idle' = idle \cup {a}
    /\ UNCHANGED <<agentVars, handled, next, buf, finishing, rows, owed, netVars, restarts>>

(* finish stores the log, if it verifies, and owes a confirmation.           *)
FinishStored(a) ==
    /\ a \in finishing
    /\ buf[a] = Size(a)
    /\ finishing' = finishing \ {a}
    /\ rows' = rows \cup {a}
    /\ owed' = owed \cup {<<a, "stored">>}
    /\ UNCHANGED <<agentVars, handled, next, buf, idle, netVars, restarts>>

(* finish refuses: verification, gzip or the INSERT failed. An INSERT that   *)
(* timed out may still have been committed.                                  *)
FinishRefused(a) ==
    /\ a \in finishing
    /\ finishing' = finishing \ {a}
    /\ \/ UNCHANGED rows
       \/ buf[a] = Size(a) /\ rows' = rows \cup {a}
    /\ owed' = owed \cup {<<a, "refused">>}
    /\ UNCHANGED <<agentVars, handled, next, buf, idle, netVars, restarts>>

(* ack: on the node's current connection, if it has one.                     *)
SendAck(m) ==
    /\ m \in owed
    /\ owed' = owed \ {m}
    /\ acks' = IF up THEN acks \cup {<<m[1], m[2], conn>>} ELSE acks
    /\ UNCHANGED <<agentVars, handled, next, buf, idle, finishing, rows, conn, up, restarts>>

----------------------------------------------------------------------------
(* The environment                                                           *)

(* Someone removes a container by hand.                                      *)
Vanish(i) ==
    /\ container[i] = "exited"
    /\ container' = [container EXCEPT ![i] = "gone"]
    /\ UNCHANGED <<pc, via, sent, outcome, archiving, waiting, box, serverVars, netVars, restarts>>

(* The connection drops. Chunks in flight may still be read, or are lost     *)
(* (LoseChunks); acks in flight are lost.                                    *)
Drop ==
    /\ up
    /\ conn < MaxConns
    /\ up' = FALSE
    /\ acks' = {}
    /\ UNCHANGED <<agentVars, serverVars, conn, restarts>>

Reconnect ==
    /\ ~up
    /\ conn < MaxConns
    /\ up' = TRUE
    /\ conn' = conn + 1
    /\ UNCHANGED <<agentVars, serverVars, acks, restarts>>

(* What was in flight on a dropped connection is lost: the server will see   *)
(* no further chunk of the attempt.                                          *)
LoseChunks(a) ==
    /\ ~(up /\ via[a] = conn)
    /\ handled[a] < sent[a]
    /\ sent' = [sent EXCEPT ![a] = handled[a]]
    /\ UNCHANGED <<pc, via, outcome, archiving, waiting, box, container, serverVars, netVars, restarts>>

(* The agent process dies with every attempt it was making.                  *)
AgentRestart ==
    /\ restarts["agent"] < MaxRestarts
    /\ conn < MaxConns
    /\ restarts' = [restarts EXCEPT !["agent"] = @ + 1]
    /\ up' = FALSE
    /\ acks' = {}
    /\ pc' = [a \in Attempts |-> IF pc[a] = "idle" THEN "idle" ELSE "end"]
    /\ archiving' = {}
    /\ waiting' = {}
    /\ UNCHANGED <<via, sent, outcome, box, container, serverVars, conn>>

(* The server process dies with every upload it was reassembling.            *)
ServerRestart ==
    /\ restarts["server"] < MaxRestarts
    /\ conn < MaxConns
    /\ restarts' = [restarts EXCEPT !["server"] = @ + 1]
    /\ up' = FALSE
    /\ acks' = {}
    /\ sent' = handled
    /\ next' = [a \in Attempts |-> 0]
    /\ idle' = {}
    /\ finishing' = {}
    /\ owed' = {}
    /\ UNCHANGED <<pc, via, outcome, archiving, waiting, box, container, handled, buf, rows, conn>>

Agent(a) ==
    \/ BeginArchive(a) \/ ArchiveBusy(a) \/ Capture(a) \/ CaptureNothing(a) \/ CaptureFails(a)
    \/ SendChunk(a) \/ SendFails(a) \/ AckArrives(a) \/ RefusalArrives(a) \/ AckTimeout(a)
    \/ Return(a) \/ Remove(a) \/ RemoveFails(a)

Server(a) ==
    \/ HandleChunk(a) \/ FinishStored(a) \/ FinishRefused(a)
    \/ \E m \in {a} \X {"stored", "refused"} : SendAck(m)

Network(a) == Begin(a) \/ GoesIdle(a) \/ LoseChunks(a)

Next ==
    \/ \E a \in Attempts : Agent(a) \/ Server(a) \/ Network(a)
    \/ \E m \in acks : DeliverAck(m)
    \/ \E i \in Instances : Vanish(i)
    \/ Drop \/ Reconnect \/ AgentRestart \/ ServerRestart

(* Goroutines that can run do run; the ack timeout makes waiting one of them.*)
Fairness == \A a \in Attempts : WF_vars(Agent(a)) /\ WF_vars(Server(a))

Spec == Init /\ [][Next]_vars /\ Fairness

----------------------------------------------------------------------------
(* PROPERTIES                                                                *)

(* archiveAndRemove: no container is removed by Sparky without a stored log  *)
(* of it, through lost acks, timeouts, dropped connections and restarts.     *)
NoRemovalWithoutLog ==
    \A i \in Instances : container[i] = "removed" => \E a \in rows : InstOf[a] = i

(* A confirmation the agent holds is about a row that exists.                *)
AckIsTruthful == \A a \in Attempts : box[a] = "stored" => a \in rows

(* HandleChunk: what is handed to finish, and what is stored, is the whole   *)
(* log, also when its upload was swept as idle and then resumed, and it is   *)
(* within the size limit.                                                    *)
StoredIsWhole == \A a \in rows \cup finishing : buf[a] = Size(a) /\ Size(a) <= MaxSize

(* beginArchive: two paths never upload the same container at the same time. *)
OneUploadPerInstance ==
    \A a, b \in Attempts :
        InstOf[a] = InstOf[b] /\ pc[a] \in {"capture", "send", "wait"}
            /\ pc[b] \in {"capture", "send", "wait"} => a = b

(* maxUploadsPerNode bounds what a node can make the server hold in memory.  *)
UploadsBounded == Cardinality(InProgress(next)) <= MaxUploads

(* Every attempt ends: the agent's shutdown, which waits for them, is not    *)
(* held up for ever by a server that never answers.                          *)
AttemptEnds == \A a \in Attempts : pc[a] = "begin" ~> pc[a] = "end"

(* The archive protocol implements its promise.                              *)
Promise == INSTANCE ArchivedRemoval
           WITH container <- container, logged <- {InstOf[a] : a \in rows}
ImplementsPromise == Promise!Spec

----------------------------------------------------------------------------
(* A CLAIM OF THE SOURCE THAT THE CODE DOES NOT KEEP                         *)

(* newUploadID: the upload id is the idempotency key for the stored row, so  *)
(* a retry never stores twice.                                               *)
StoredOnce == \A a, b \in rows : InstOf[a] = InstOf[b] => a = b
=============================================================================
