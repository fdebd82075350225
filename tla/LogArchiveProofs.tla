-------------------------- MODULE LogArchiveProofs --------------------------
(***************************************************************************)
(* Proofs about LogArchive, for any number of containers, attempts, chunks,*)
(* connections and restarts.                                               *)
(***************************************************************************)
EXTENDS LogArchive, FiniteSetTheorems, TLAPS

(* What a confirmation is worth anywhere between the INSERT and the agent.   *)
ConfirmationsTrue ==
    /\ \A a \in Attempts : <<a, "stored">> \in owed => a \in rows
    /\ \A a \in Attempts : \A k \in 1..MaxConns : <<a, "stored", k>> \in acks => a \in rows
    /\ AckIsTruthful

(* What the outcome of an attempt says about its log and its container.      *)
OutcomesTrue ==
    \A a \in Attempts :
        /\ outcome[a] = "stored" => a \in rows
        /\ outcome[a] = "nothing" => container[InstOf[a]] # "exited"
        /\ pc[a] = "remove" => outcome[a] \in {"stored", "nothing"}

(* Where the chunks of an attempt are: sent in order, up to its size, and    *)
(* in the buffer as far as the upload's next sequence number says.           *)
ChunksCounted ==
    \A a \in Attempts :
        /\ handled[a] <= sent[a] /\ sent[a] <= Size(a)
        /\ pc[a] \in {"idle", "begin", "capture", "send"} => sent[a] < Size(a)
        /\ next[a] # 0 => buf[a] = next[a]
        /\ a \in idle => next[a] # 0
        /\ a \in rows \cup finishing => handled[a] = Size(a) /\ next[a] = 0

(* An attempt between beginArchive and endArchive holds its instance, alone. *)
InArchive == {"capture", "send", "wait", "return"}
ArchivingExclusive ==
    /\ \A a \in Attempts : pc[a] \in InArchive => InstOf[a] \in archiving
    /\ \A a, b \in Attempts :
          InstOf[a] = InstOf[b] /\ pc[a] \in InArchive /\ pc[b] \in InArchive => a = b

(* The uploads in progress can be counted, and are within the limit.         *)
UploadsCounted == IsFiniteSet(InProgress(next)) /\ UploadsBounded

(* The inductive invariant.                                                  *)
IInv ==
    /\ TypeOK
    /\ ConfirmationsTrue
    /\ OutcomesTrue
    /\ NoRemovalWithoutLog
    /\ ChunksCounted
    /\ StoredIsWhole
    /\ ArchivingExclusive
    /\ UploadsCounted

(* Nothing is confirmed or removed at the start.                             *)
LEMMA InitIInv == Init => IInv
<1> SUFFICES ASSUME Init PROVE IInv
  OBVIOUS
<1> USE ArchiveAssumption DEF Init
<1>1. TypeOK /\ ConfirmationsTrue /\ OutcomesTrue /\ NoRemovalWithoutLog
  BY DEF TypeOK, ConfirmationsTrue, AckIsTruthful, OutcomesTrue, NoRemovalWithoutLog, PCs, Outcomes
<1>2. ChunksCounted /\ StoredIsWhole /\ ArchivingExclusive
  BY DEF ChunksCounted, Size, StoredIsWhole, ArchivingExclusive, InArchive
<1>3. UploadsCounted
  <2>1. InProgress(next) = {}
    BY DEF InProgress
  <2>2. IsFiniteSet(InProgress(next)) /\ Cardinality(InProgress(next)) = 0
    BY <2>1, FS_EmptySet
  <2>3. QED
    BY <2>2 DEF UploadsCounted, UploadsBounded
<1>4. QED
  BY <1>1, <1>2, <1>3 DEF IInv

(* Typing is preserved by the steps of the agent.                            *)
LEMMA TypeAgent ==
    ASSUME TypeOK, NEW a \in Attempts, Agent(a)
    PROVE TypeOK'
<1> USE ArchiveAssumption DEF TypeOK, PCs, Outcomes, agentVars, serverVars, netVars
<1>1. CASE BeginArchive(a) \/ ArchiveBusy(a)
  BY <1>1 DEF BeginArchive, ArchiveBusy, Goto
<1>2. CASE Capture(a) \/ CaptureNothing(a)
  BY <1>2 DEF Capture, CaptureNothing, Goto
<1>3. CASE CaptureFails(a) \/ SendFails(a) \/ RefusalArrives(a) \/ AckTimeout(a)
  BY <1>3 DEF CaptureFails, SendFails, RefusalArrives, AckTimeout, Fail, Goto
<1>4. CASE SendChunk(a)
  BY <1>4 DEF SendChunk
<1>5. CASE AckArrives(a)
  BY <1>5 DEF AckArrives, Goto
<1>6. CASE Return(a)
  BY <1>6 DEF Return, Goto
<1>7. CASE Remove(a) \/ RemoveFails(a)
  BY <1>7 DEF Remove, RemoveFails, Goto
<1>8. QED
  BY <1>1, <1>2, <1>3, <1>4, <1>5, <1>6, <1>7 DEF Agent

(* Typing is preserved by the steps of the server.                           *)
LEMMA TypeServer ==
    ASSUME TypeOK, NEW a \in Attempts, Server(a)
    PROVE TypeOK'
<1> USE ArchiveAssumption DEF TypeOK, PCs, Outcomes, agentVars, serverVars, netVars
<1>1. CASE HandleChunk(a)
  <2>1. Swept \in [Attempts -> Nat]
    BY DEF Swept
  <2>2. /\ [Swept EXCEPT ![a] = 0] \in [Attempts -> Nat]
        /\ [Swept EXCEPT ![a] = handled[a] + 1] \in [Attempts -> Nat]
    BY <2>1
  <2>3. next' \in [Attempts -> Nat]
    BY <1>1, <2>2 DEF HandleChunk
  <2>a. buf' \in [Attempts -> Nat]
    <3>1. Received(a, handled[a]) \in Nat
      BY DEF Received
    <3>2. [buf EXCEPT ![a] = Received(a, handled[a]) + 1] \in [Attempts -> Nat]
      BY <3>1
    <3>3. QED
      BY <1>1, <3>2 DEF HandleChunk
  <2>4. owed' \in {owed, owed \cup {<<a, "refused">>}} /\ finishing' \in {finishing, finishing \cup {a}}
    <3>1. CASE Rejected(a, handled[a])
      BY <1>1, <3>1 DEF HandleChunk
    <3>2. CASE ~Rejected(a, handled[a]) /\ handled[a] + 1 = Size(a)
      BY <1>1, <3>2 DEF HandleChunk
    <3>3. CASE ~Rejected(a, handled[a]) /\ handled[a] + 1 # Size(a)
      BY <1>1, <3>3 DEF HandleChunk
    <3>4. QED
      BY <3>1, <3>2, <3>3
  <2>5. owed' \subseteq Attempts \X {"stored", "refused"} /\ finishing' \subseteq Attempts
    BY <2>4
  <2>6. /\ handled' \in [Attempts -> Nat] /\ idle' = {}
        /\ UNCHANGED <<agentVars, rows, netVars, restarts>>
    BY <1>1 DEF HandleChunk
  <2>7. QED
    BY <2>3, <2>a, <2>5, <2>6
<1>2. CASE FinishStored(a)
  BY <1>2 DEF FinishStored
<1>3. CASE FinishRefused(a)
  BY <1>3 DEF FinishRefused
<1>4. ASSUME NEW m \in {a} \X {"stored", "refused"}, SendAck(m) PROVE TypeOK'
  BY <1>4 DEF SendAck
<1>5. QED
  BY <1>1, <1>2, <1>3, <1>4 DEF Server

(* Typing is preserved by every step.                                        *)
LEMMA TypeStep == TypeOK /\ [Next]_vars => TypeOK'
<1> SUFFICES ASSUME TypeOK, [Next]_vars PROVE TypeOK'
  OBVIOUS
<1> USE ArchiveAssumption DEF TypeOK, PCs, Outcomes, agentVars, serverVars, netVars
<1>1. ASSUME NEW a \in Attempts, Network(a) PROVE TypeOK'
  BY <1>1 DEF Network, Begin, GoesIdle, LoseChunks, Goto
<1>2. ASSUME NEW m \in acks, DeliverAck(m) PROVE TypeOK'
  BY <1>2 DEF DeliverAck
<1>3. ASSUME NEW i \in Instances, Vanish(i) PROVE TypeOK'
  BY <1>3 DEF Vanish
<1>4. CASE Drop \/ Reconnect
  <2>1. conn' \in 1..MaxConns
    BY <1>4 DEF Drop, Reconnect
  <2>a. acks' = acks \/ acks' = {}
    BY <1>4 DEF Drop, Reconnect
  <2>b. up' = TRUE \/ up' = FALSE
    BY <1>4 DEF Drop, Reconnect
  <2>2. acks' \subseteq Attempts \X {"stored", "refused"} \X (1..MaxConns) /\ up' \in BOOLEAN
    BY <2>a, <2>b
  <2>3. UNCHANGED <<agentVars, serverVars, restarts>>
    BY <1>4 DEF Drop, Reconnect
  <2>4. QED
    BY <2>1, <2>2, <2>3
<1>5. CASE AgentRestart
  <2>1. restarts' \in [{"agent", "server"} -> 0..MaxRestarts]
    BY <1>5 DEF AgentRestart
  <2>2. pc' \in [Attempts -> PCs]
    BY <1>5 DEF AgentRestart
  <2>3. acks' = {} /\ archiving' = {} /\ waiting' = {} /\ up' = FALSE
    BY <1>5 DEF AgentRestart
  <2>4. UNCHANGED <<via, sent, outcome, box, container, serverVars, conn>>
    BY <1>5 DEF AgentRestart
  <2>5. QED
    BY <2>1, <2>2, <2>3, <2>4
<1>6. CASE ServerRestart
  <2>1. restarts' \in [{"agent", "server"} -> 0..MaxRestarts]
    BY <1>6 DEF ServerRestart
  <2>2. next' \in [Attempts -> Nat]
    BY <1>6 DEF ServerRestart
  <2>3. sent' \in [Attempts -> Nat]
    BY <1>6 DEF ServerRestart
  <2>4. acks' = {} /\ idle' = {} /\ finishing' = {} /\ owed' = {} /\ up' = FALSE
    BY <1>6 DEF ServerRestart
  <2>5. UNCHANGED <<pc, via, outcome, archiving, waiting, box, container, handled, buf, rows, conn>>
    BY <1>6 DEF ServerRestart
  <2>6. QED
    BY <2>1, <2>2, <2>3, <2>4, <2>5
<1>7. CASE UNCHANGED vars
  BY <1>7 DEF vars
<1>8. QED
  BY TypeAgent, TypeServer, <1>1, <1>2, <1>3, <1>4, <1>5, <1>6, <1>7 DEF Next

(* Rows are never deleted, and a confirmation is created only beside a row.  *)
LEMMA ConfirmationStep == TypeOK /\ ConfirmationsTrue /\ [Next]_vars => ConfirmationsTrue'
<1> SUFFICES ASSUME TypeOK, ConfirmationsTrue, [Next]_vars PROVE ConfirmationsTrue'
  OBVIOUS
<1> USE ArchiveAssumption DEF TypeOK, ConfirmationsTrue, AckIsTruthful, agentVars, serverVars, netVars
<1>1. ASSUME NEW a \in Attempts, Agent(a) PROVE ConfirmationsTrue'
  BY <1>1 DEF Agent, BeginArchive, ArchiveBusy, Capture, CaptureNothing, CaptureFails, SendChunk,
     SendFails, AckArrives, RefusalArrives, AckTimeout, Fail, Return, Remove, RemoveFails
<1>2. ASSUME NEW a \in Attempts, Server(a) PROVE ConfirmationsTrue'
  <2>1. CASE HandleChunk(a)
    BY <2>1 DEF HandleChunk
  <2>2. CASE FinishStored(a)
    BY <2>2 DEF FinishStored
  <2>3. CASE FinishRefused(a)
    BY <2>3 DEF FinishRefused
  <2>4. ASSUME NEW m \in {a} \X {"stored", "refused"}, SendAck(m) PROVE ConfirmationsTrue'
    <3>1. PICK s \in {"stored", "refused"} : m = <<a, s>>
      BY <2>4
    <3>2. rows' = rows /\ box' = box /\ owed' \subseteq owed
      BY <2>4 DEF SendAck
    <3>3. \A b \in Attempts : \A k \in 1..MaxConns :
            <<b, "stored", k>> \in acks' =>
                <<b, "stored", k>> \in acks \/ (b = a /\ <<a, "stored">> \in owed)
      <4>1. acks' = acks \/ acks' = acks \cup {<<a, s, conn>>}
        BY <2>4, <3>1 DEF SendAck
      <4>2. <<a, s>> \in owed
        BY <2>4, <3>1 DEF SendAck
      <4> SUFFICES ASSUME NEW b \in Attempts, NEW k \in 1..MaxConns,
                          <<b, "stored", k>> \in acks', <<b, "stored", k>> \notin acks
                   PROVE  b = a /\ <<a, "stored">> \in owed
        OBVIOUS
      <4>3. <<b, "stored", k>> = <<a, s, conn>>
        BY <4>1
      <4>4. b = a /\ s = "stored"
        BY <4>3
      <4>5. QED
        BY <4>2, <4>4
    <3>4. QED
      BY <3>2, <3>3 DEF ConfirmationsTrue
  <2>5. QED
    BY <1>2, <2>1, <2>2, <2>3, <2>4 DEF Server
<1>3. ASSUME NEW a \in Attempts, Network(a) PROVE ConfirmationsTrue'
  BY <1>3 DEF Network, Begin, GoesIdle, LoseChunks
<1>4. ASSUME NEW m \in acks, DeliverAck(m) PROVE ConfirmationsTrue'
  <2>1. PICK a \in Attempts, s \in {"stored", "refused"}, k \in 1..MaxConns : m = <<a, s, k>>
    BY <1>4
  <2>2. s = "stored" => a \in rows
    BY <2>1
  <2>3. /\ rows' = rows /\ owed' = owed /\ acks' \subseteq acks
        /\ box' = IF a \in waiting /\ box[a] = "empty" THEN [box EXCEPT ![a] = s] ELSE box
    BY <1>4, <2>1 DEF DeliverAck
  <2>4. QED
    BY <2>2, <2>3
<1>5. ASSUME NEW i \in Instances, Vanish(i) PROVE ConfirmationsTrue'
  BY <1>5 DEF Vanish
<1>6. CASE Drop \/ Reconnect \/ AgentRestart \/ ServerRestart
  BY <1>6 DEF Drop, Reconnect, AgentRestart, ServerRestart
<1>7. CASE UNCHANGED vars
  BY <1>7 DEF vars
<1>8. QED
  BY <1>1, <1>2, <1>3, <1>4, <1>5, <1>6, <1>7 DEF Next

(* An attempt ends as stored only on a true confirmation, and finds nothing  *)
(* to capture only when the container is not there.                          *)
LEMMA OutcomeStep ==
    TypeOK /\ ConfirmationsTrue /\ OutcomesTrue /\ [Next]_vars => OutcomesTrue'
<1> SUFFICES ASSUME TypeOK, ConfirmationsTrue, OutcomesTrue, [Next]_vars PROVE OutcomesTrue'
  OBVIOUS
<1> USE ArchiveAssumption DEF TypeOK, OutcomesTrue, PCs, Outcomes, agentVars, serverVars, netVars
<1>1. ASSUME NEW a \in Attempts, Agent(a) PROVE OutcomesTrue'
  <2>1. CASE BeginArchive(a) \/ ArchiveBusy(a)
    BY <2>1 DEF BeginArchive, ArchiveBusy, Goto
  <2>2. CASE Capture(a) \/ CaptureNothing(a)
    BY <2>2 DEF Capture, CaptureNothing, Goto
  <2>3. CASE CaptureFails(a) \/ SendFails(a) \/ RefusalArrives(a) \/ AckTimeout(a)
    BY <2>3 DEF CaptureFails, SendFails, RefusalArrives, AckTimeout, Fail, Goto
  <2>4. CASE SendChunk(a)
    BY <2>4 DEF SendChunk
  <2>5. CASE AckArrives(a)
    BY <2>5 DEF AckArrives, Goto, ConfirmationsTrue, AckIsTruthful
  <2>6. CASE Return(a)
    BY <2>6 DEF Return, Goto
  <2>7. CASE Remove(a) \/ RemoveFails(a)
    BY <2>7 DEF Remove, RemoveFails, Goto
  <2>8. QED
    BY <1>1, <2>1, <2>2, <2>3, <2>4, <2>5, <2>6, <2>7 DEF Agent
<1>2. ASSUME NEW a \in Attempts, Server(a) PROVE OutcomesTrue'
  BY <1>2 DEF Server, HandleChunk, FinishStored, FinishRefused, SendAck
<1>3. ASSUME NEW a \in Attempts, Network(a) PROVE OutcomesTrue'
  BY <1>3 DEF Network, Begin, GoesIdle, LoseChunks, Goto
<1>4. ASSUME NEW m \in acks, DeliverAck(m) PROVE OutcomesTrue'
  BY <1>4 DEF DeliverAck
<1>5. ASSUME NEW i \in Instances, Vanish(i) PROVE OutcomesTrue'
  BY <1>5 DEF Vanish
<1>6. CASE Drop \/ Reconnect \/ ServerRestart
  BY <1>6 DEF Drop, Reconnect, ServerRestart
<1>7. CASE AgentRestart
  BY <1>7 DEF AgentRestart
<1>8. CASE UNCHANGED vars
  BY <1>8 DEF vars
<1>9. QED
  BY <1>1, <1>2, <1>3, <1>4, <1>5, <1>6, <1>7, <1>8 DEF Next

(* Every step is a step of ArchivedRemoval or leaves its variables alone.    *)
LEMMA PromiseStep ==
    TypeOK /\ OutcomesTrue /\ [Next]_vars => [Promise!Next]_Promise!absVars
<1> SUFFICES ASSUME TypeOK, OutcomesTrue, [Next]_vars
             PROVE [Promise!Next]_Promise!absVars
  OBVIOUS
<1> DEFINE logged == {InstOf[a] : a \in rows}
<1> USE ArchiveAssumption DEF TypeOK, agentVars, serverVars, netVars
<1>a. container' = container /\ rows' = rows => UNCHANGED Promise!absVars
  BY DEF Promise!absVars
<1>1. ASSUME NEW a \in Attempts, Agent(a) PROVE [Promise!Next]_Promise!absVars
  <2>1. CASE Remove(a)
    <3>1. CASE container[InstOf[a]] = "exited"
      <4>1. a \in rows
        BY <2>1, <3>1 DEF Remove, Goto, OutcomesTrue
      <4>2. InstOf[a] \in Instances /\ InstOf[a] \in logged
        BY <4>1
      <4>3. container' = [container EXCEPT ![InstOf[a]] = "removed"] /\ logged' = logged
        BY <2>1, <3>1 DEF Remove
      <4>4. Promise!Remove(InstOf[a])
        BY <3>1, <4>2, <4>3 DEF Promise!Remove
      <4>5. QED
        BY <4>2, <4>4 DEF Promise!Next
    <3>2. CASE container[InstOf[a]] # "exited"
      BY <1>a, <2>1, <3>2 DEF Remove
    <3>3. QED
      BY <3>1, <3>2
  <2>2. CASE ~Remove(a)
    BY <1>a, <1>1, <2>2 DEF Agent, BeginArchive, ArchiveBusy, Capture, CaptureNothing,
       CaptureFails, SendChunk, SendFails, AckArrives, RefusalArrives, AckTimeout, Fail,
       Return, RemoveFails
  <2>3. QED
    BY <2>1, <2>2
<1>2. ASSUME NEW a \in Attempts, Server(a) PROVE [Promise!Next]_Promise!absVars
  <2>1. CASE rows' = rows \cup {a}
    <3>1. container' = container
      BY <1>2 DEF Server, HandleChunk, FinishStored, FinishRefused, SendAck
    <3>2. logged' = logged \cup {InstOf[a]} /\ InstOf[a] \in Instances
      BY <2>1
    <3>3. Promise!Log(InstOf[a])
      BY <3>1, <3>2 DEF Promise!Log
    <3>4. QED
      BY <3>2, <3>3 DEF Promise!Next
  <2>2. CASE rows' = rows
    BY <1>a, <1>2, <2>2 DEF Server, HandleChunk, FinishStored, FinishRefused, SendAck
  <2>3. QED
    BY <1>2, <2>1, <2>2 DEF Server, HandleChunk, FinishStored, FinishRefused, SendAck
<1>3. ASSUME NEW a \in Attempts, Network(a) PROVE [Promise!Next]_Promise!absVars
  BY <1>a, <1>3 DEF Network, Begin, GoesIdle, LoseChunks
<1>4. ASSUME NEW m \in acks, DeliverAck(m) PROVE [Promise!Next]_Promise!absVars
  BY <1>a, <1>4 DEF DeliverAck
<1>5. ASSUME NEW i \in Instances, Vanish(i) PROVE [Promise!Next]_Promise!absVars
  <2>1. Promise!Vanish(i)
    BY <1>5 DEF Vanish, Promise!Vanish
  <2>2. QED
    BY <2>1 DEF Promise!Next
<1>6. CASE Drop \/ Reconnect \/ AgentRestart \/ ServerRestart
  BY <1>a, <1>6 DEF Drop, Reconnect, AgentRestart, ServerRestart
<1>7. CASE UNCHANGED vars
  BY <1>a, <1>7 DEF vars
<1>8. QED
  BY <1>1, <1>2, <1>3, <1>4, <1>5, <1>6, <1>7 DEF Next

(* The promise keeps its own invariant: only logged containers are removed.  *)
LEMMA RemovalStep ==
    TypeOK /\ OutcomesTrue /\ NoRemovalWithoutLog /\ [Next]_vars => NoRemovalWithoutLog'
<1> SUFFICES ASSUME TypeOK, OutcomesTrue, NoRemovalWithoutLog, [Next]_vars
             PROVE NoRemovalWithoutLog'
  OBVIOUS
<1>1. [Promise!Next]_Promise!absVars
  BY PromiseStep
<1>2. CASE UNCHANGED Promise!absVars
  BY <1>2 DEF Promise!absVars, NoRemovalWithoutLog
<1> DEFINE logged == {InstOf[a] : a \in rows}
<1>a. NoRemovalWithoutLog <=> \A j \in Instances : container[j] = "removed" => j \in logged
  BY DEF NoRemovalWithoutLog
<1>b. NoRemovalWithoutLog' <=> \A j \in Instances : container'[j] = "removed" => j \in logged'
  BY DEF NoRemovalWithoutLog
<1>c. container \in [Instances -> {"exited", "removed", "gone"}]
  BY DEF TypeOK
<1>3. ASSUME NEW i \in Instances, Promise!Log(i) PROVE NoRemovalWithoutLog'
  <2>1. logged' = logged \cup {i} /\ container' = container
    BY <1>3 DEF Promise!Log
  <2>2. QED
    BY <1>a, <1>b, <2>1
<1>4. ASSUME NEW i \in Instances, Promise!Remove(i) PROVE NoRemovalWithoutLog'
  <2>1. logged' = logged /\ i \in logged /\ container' = [container EXCEPT ![i] = "removed"]
    BY <1>4 DEF Promise!Remove
  <2>2. QED
    BY <1>a, <1>b, <1>c, <2>1
<1>5. ASSUME NEW i \in Instances, Promise!Vanish(i) PROVE NoRemovalWithoutLog'
  <2>1. logged' = logged /\ container' = [container EXCEPT ![i] = "gone"]
    BY <1>5 DEF Promise!Vanish
  <2>2. QED
    BY <1>a, <1>b, <1>c, <2>1
<1>6. QED
  BY <1>1, <1>2, <1>3, <1>4, <1>5 DEF Promise!Next

(* Chunks are handled in the order they are sent, so the next sequence       *)
(* number counts what the buffer holds.                                      *)
LEMMA ChunksStep == TypeOK /\ ChunksCounted /\ [Next]_vars => ChunksCounted'
<1> SUFFICES ASSUME TypeOK, ChunksCounted, [Next]_vars PROVE ChunksCounted'
  OBVIOUS
<1> USE ArchiveAssumption DEF TypeOK, PCs, ChunksCounted, agentVars, serverVars, netVars
<1>a. \A b \in Attempts : Size(b) \in Nat \ {0}
  BY DEF Size
<1>b. \A b \in Attempts : Size(b)' = Size(b)
  BY DEF Size
<1>1. ASSUME NEW a \in Attempts, Agent(a) PROVE ChunksCounted'
  <2>1. CASE SendChunk(a)
    BY <1>a, <1>b, <2>1 DEF SendChunk
  <2>2. CASE ~SendChunk(a)
    <3>1. UNCHANGED <<handled, sent, next, buf, idle, rows, finishing>>
      BY <1>1, <2>2 DEF Agent, BeginArchive, ArchiveBusy, Capture, CaptureNothing, CaptureFails,
         SendFails, AckArrives, RefusalArrives, AckTimeout, Fail, Return, Remove, RemoveFails
    <3>2. \A b \in Attempts : pc'[b] \in {"idle", "begin", "capture", "send"} =>
                               pc[b] \in {"idle", "begin", "capture", "send"}
      BY <1>1, <2>2 DEF Agent, BeginArchive, ArchiveBusy, Capture, CaptureNothing, CaptureFails,
         SendFails, AckArrives, RefusalArrives, AckTimeout, Fail, Return, Remove, RemoveFails, Goto
    <3>3. QED
      BY <1>b, <3>1, <3>2
  <2>3. QED
    BY <2>1, <2>2
<1>2. ASSUME NEW a \in Attempts, Server(a) PROVE ChunksCounted'
  <2>1. CASE HandleChunk(a)
    <3>1. UNCHANGED <<pc, sent, rows>> /\ handled[a] < sent[a] /\ idle' = {}
          /\ handled' = [handled EXCEPT ![a] = @ + 1]
      BY <2>1 DEF HandleChunk
    <3>2. a \notin rows \cup finishing
      BY <3>1
    <3>3. \A b \in Attempts \ {a} : next'[b] \in {0, next[b]} /\ buf'[b] = buf[b]
                                   /\ (b \in finishing' <=> b \in finishing)
      BY <2>1 DEF HandleChunk, Swept
    <3>4. \/ next'[a] = 0 /\ a \notin finishing'
          \/ next'[a] = 0 /\ handled[a] + 1 = Size(a)
          \/ next'[a] = handled[a] + 1 /\ buf'[a] = handled[a] + 1 /\ a \notin finishing'
      BY <2>1, <3>2 DEF HandleChunk, Rejected, Received, Swept
    <3>5. QED
      BY <1>a, <1>b, <3>1, <3>2, <3>3, <3>4
  <2>2. CASE FinishStored(a) \/ FinishRefused(a)
    BY <1>b, <2>2 DEF FinishStored, FinishRefused
  <2>3. ASSUME NEW m \in {a} \X {"stored", "refused"}, SendAck(m) PROVE ChunksCounted'
    BY <1>b, <2>3 DEF SendAck
  <2>4. QED
    BY <1>2, <2>1, <2>2, <2>3 DEF Server
<1>3. ASSUME NEW a \in Attempts, Network(a) PROVE ChunksCounted'
  BY <1>a, <1>b, <1>3 DEF Network, Begin, GoesIdle, LoseChunks, Goto
<1>4. ASSUME NEW m \in acks, DeliverAck(m) PROVE ChunksCounted'
  BY <1>b, <1>4 DEF DeliverAck
<1>5. ASSUME NEW i \in Instances, Vanish(i) PROVE ChunksCounted'
  BY <1>b, <1>5 DEF Vanish
<1>6. CASE Drop \/ Reconnect \/ AgentRestart
  BY <1>b, <1>6 DEF Drop, Reconnect, AgentRestart
<1>7. CASE ServerRestart
  BY <1>a, <1>b, <1>7 DEF ServerRestart
<1>8. CASE UNCHANGED vars
  BY <1>b, <1>8 DEF vars
<1>9. QED
  BY <1>1, <1>2, <1>3, <1>4, <1>5, <1>6, <1>7, <1>8 DEF Next

(* An upload is complete only after its last chunk, in order, and never      *)
(* touched again.                                                            *)
LEMMA WholeStep ==
    TypeOK /\ ChunksCounted /\ StoredIsWhole /\ [Next]_vars => StoredIsWhole'
<1> SUFFICES ASSUME TypeOK, ChunksCounted, StoredIsWhole, [Next]_vars PROVE StoredIsWhole'
  OBVIOUS
<1> USE ArchiveAssumption DEF TypeOK, StoredIsWhole, agentVars, serverVars, netVars
<1>a. \A b \in Attempts : Size(b) \in Nat \ {0} /\ Size(b)' = Size(b)
  BY DEF Size
<1>1. ASSUME NEW a \in Attempts, Agent(a) PROVE StoredIsWhole'
  BY <1>a, <1>1 DEF Agent, BeginArchive, ArchiveBusy, Capture, CaptureNothing, CaptureFails,
     SendChunk, SendFails, AckArrives, RefusalArrives, AckTimeout, Fail, Return, Remove, RemoveFails
<1>2. ASSUME NEW a \in Attempts, Server(a) PROVE StoredIsWhole'
  <2>1. CASE HandleChunk(a)
    <3>1. a \notin rows \cup finishing /\ rows' = rows
      BY <1>a, <2>1 DEF HandleChunk, ChunksCounted
    <3>2. \A b \in Attempts \ {a} : buf'[b] = buf[b] /\ (b \in finishing' <=> b \in finishing)
      BY <2>1 DEF HandleChunk
    <3>3. a \in finishing' => buf'[a] = Size(a) /\ Size(a) <= MaxSize
      <4> SUFFICES ASSUME a \in finishing' PROVE buf'[a] = Size(a) /\ Size(a) <= MaxSize
        OBVIOUS
      <4>1. ~Rejected(a, handled[a]) /\ handled[a] + 1 = Size(a)
        BY <2>1, <3>1 DEF HandleChunk
      <4>2. buf' = [buf EXCEPT ![a] = Received(a, handled[a]) + 1]
        BY <2>1, <4>1 DEF HandleChunk
      <4>3. Received(a, handled[a]) = handled[a]
        BY <4>1 DEF Rejected, Received, Swept, ChunksCounted
      <4>4. handled[a] + 1 <= MaxSize
        BY <4>1, <4>3 DEF Rejected
      <4>5. QED
        BY <4>1, <4>2, <4>3, <4>4
    <3>4. \A b \in rows' \cup finishing' : buf'[b] = Size(b) /\ Size(b) <= MaxSize
      <4> SUFFICES ASSUME NEW b \in rows' \cup finishing'
                   PROVE buf'[b] = Size(b) /\ Size(b) <= MaxSize
        OBVIOUS
      <4>0. finishing' \subseteq Attempts
        BY <2>1 DEF HandleChunk
      <4>1. CASE b = a
        BY <3>1, <3>3, <4>1
      <4>2. CASE b # a
        BY <3>1, <3>2, <4>0, <4>2
      <4>3. QED
        BY <4>1, <4>2
    <3>5. QED
      BY <3>4 DEF Size
  <2>2. CASE FinishStored(a) \/ FinishRefused(a)
    BY <1>a, <2>2 DEF FinishStored, FinishRefused
  <2>3. ASSUME NEW m \in {a} \X {"stored", "refused"}, SendAck(m) PROVE StoredIsWhole'
    BY <1>a, <2>3 DEF SendAck
  <2>4. QED
    BY <1>2, <2>1, <2>2, <2>3 DEF Server
<1>3. ASSUME NEW a \in Attempts, Network(a) PROVE StoredIsWhole'
  BY <1>a, <1>3 DEF Network, Begin, GoesIdle, LoseChunks
<1>4. ASSUME NEW m \in acks, DeliverAck(m) PROVE StoredIsWhole'
  BY <1>a, <1>4 DEF DeliverAck
<1>5. ASSUME NEW i \in Instances, Vanish(i) PROVE StoredIsWhole'
  BY <1>a, <1>5 DEF Vanish
<1>6. CASE Drop \/ Reconnect \/ AgentRestart \/ ServerRestart
  BY <1>a, <1>6 DEF Drop, Reconnect, AgentRestart, ServerRestart
<1>7. CASE UNCHANGED vars
  BY <1>a, <1>7 DEF vars
<1>8. QED
  BY <1>1, <1>2, <1>3, <1>4, <1>5, <1>6, <1>7 DEF Next

(* beginArchive admits an attempt only when no other holds its instance.     *)
LEMMA ExclusiveStep == TypeOK /\ ArchivingExclusive /\ [Next]_vars => ArchivingExclusive'
<1> SUFFICES ASSUME TypeOK, ArchivingExclusive, [Next]_vars PROVE ArchivingExclusive'
  OBVIOUS
<1> USE ArchiveAssumption DEF TypeOK, PCs, InArchive, ArchivingExclusive, agentVars, serverVars, netVars
<1>1. ASSUME NEW a \in Attempts, Agent(a) PROVE ArchivingExclusive'
  <2>1. CASE BeginArchive(a)
    BY <2>1 DEF BeginArchive, Goto
  <2>2. CASE Return(a)
    BY <2>2 DEF Return, Goto
  <2>3. CASE SendChunk(a)
    BY <2>3 DEF SendChunk
  <2>4. CASE ~(BeginArchive(a) \/ Return(a) \/ SendChunk(a))
    BY <1>1, <2>4 DEF Agent, ArchiveBusy, Capture, CaptureNothing, CaptureFails,
       SendFails, AckArrives, RefusalArrives, AckTimeout, Fail, Remove, RemoveFails, Goto
  <2>5. QED
    BY <2>1, <2>2, <2>3, <2>4
<1>2. ASSUME NEW a \in Attempts, Server(a) PROVE ArchivingExclusive'
  BY <1>2 DEF Server, HandleChunk, FinishStored, FinishRefused, SendAck
<1>3. ASSUME NEW a \in Attempts, Network(a) PROVE ArchivingExclusive'
  BY <1>3 DEF Network, Begin, GoesIdle, LoseChunks, Goto
<1>4. ASSUME NEW m \in acks, DeliverAck(m) PROVE ArchivingExclusive'
  BY <1>4 DEF DeliverAck
<1>5. ASSUME NEW i \in Instances, Vanish(i) PROVE ArchivingExclusive'
  BY <1>5 DEF Vanish
<1>6. CASE Drop \/ Reconnect \/ ServerRestart
  BY <1>6 DEF Drop, Reconnect, ServerRestart
<1>7. CASE AgentRestart
  BY <1>7 DEF AgentRestart
<1>8. CASE UNCHANGED vars
  BY <1>8 DEF vars
<1>9. QED
  BY <1>1, <1>2, <1>3, <1>4, <1>5, <1>6, <1>7, <1>8 DEF Next

(* HandleChunk counts the uploads in progress, after the sweep, before it    *)
(* lets another one in; nothing else adds one.                               *)
LEMMA UploadsStep == TypeOK /\ UploadsCounted /\ [Next]_vars => UploadsCounted'
<1> SUFFICES ASSUME TypeOK, UploadsCounted, [Next]_vars PROVE UploadsCounted'
  OBVIOUS
<1> USE DEF agentVars, serverVars, netVars
<1>1. ASSUME NEW a \in Attempts, HandleChunk(a) PROVE UploadsCounted'
  <2> DEFINE S == InProgress(Swept)
             N == InProgress(next)
             M == InProgress(next')
  <2>1. S \subseteq N
    BY DEF InProgress, Swept
  <2>2. IsFiniteSet(N) /\ Cardinality(N) <= MaxUploads /\ MaxUploads \in Nat
    BY ArchiveAssumption DEF UploadsCounted, UploadsBounded
  <2>3. /\ IsFiniteSet(S) /\ Cardinality(S) \in Nat
        /\ Cardinality(N) \in Nat /\ Cardinality(S) <= Cardinality(N)
    <3> HIDE DEF S, N
    <3>1. QED
      BY <2>1, <2>2, FS_Subset, FS_CardinalityType
  <2>4. M \subseteq S \/ (M = S \cup {a} /\ a \notin S /\ ~(Cardinality(S) >= MaxUploads))
    <3>1. handled[a] \in Nat
      BY DEF TypeOK
    <3>2. CASE next' = [Swept EXCEPT ![a] = 0]
      BY <3>2 DEF InProgress, Swept
    <3>3. CASE next' = [Swept EXCEPT ![a] = handled[a] + 1] /\ ~Rejected(a, handled[a])
      <4>1. M = S \cup {a}
        BY <3>1, <3>3 DEF InProgress, Swept
      <4>2. CASE handled[a] = 0
        <5>1. Swept[a] = 0 /\ ~(Cardinality(S) >= MaxUploads)
          BY <3>3, <4>2 DEF Rejected
        <5>2. a \notin S
          BY <5>1 DEF InProgress
        <5>3. QED
          BY <4>1, <5>1, <5>2
      <4>3. CASE handled[a] # 0
        <5>1. Swept[a] # 0
          BY <3>3, <4>3 DEF Rejected
        <5>2. a \in S
          BY <5>1 DEF InProgress
        <5>3. QED
          BY <4>1, <5>2
      <4>4. QED
        BY <4>2, <4>3
    <3>4. QED
      BY <1>1, <3>2, <3>3 DEF HandleChunk
  <2> HIDE DEF S, N, M
  <2>5. IsFiniteSet(M) /\ Cardinality(M) <= MaxUploads
    <3>1. CASE M \subseteq S
      <4>1. IsFiniteSet(M) /\ Cardinality(M) <= Cardinality(S) /\ Cardinality(M) \in Nat
        BY <2>3, <3>1, FS_Subset, FS_CardinalityType
      <4>2. QED
        BY <2>2, <2>3, <4>1
    <3>2. CASE M = S \cup {a} /\ a \notin S /\ ~(Cardinality(S) >= MaxUploads)
      <4>1. IsFiniteSet(S \cup {a}) /\ Cardinality(S \cup {a}) = Cardinality(S) + 1
        BY <2>3, <3>2, FS_AddElement
      <4>2. QED
        BY <2>2, <2>3, <3>2, <4>1
    <3>3. QED
      BY <2>4, <3>1, <3>2
  <2>6. QED
    BY <2>5 DEF UploadsCounted, UploadsBounded, M, InProgress
<1>2. CASE ServerRestart
  <2>1. InProgress(next') = {}
    BY <1>2 DEF ServerRestart, InProgress
  <2>2. IsFiniteSet(InProgress(next')) /\ Cardinality(InProgress(next')) = 0
    BY <2>1, FS_EmptySet
  <2>3. 0 <= MaxUploads
    BY ArchiveAssumption
  <2>4. QED
    BY <2>2, <2>3 DEF UploadsCounted, UploadsBounded, InProgress
<1>3. CASE UNCHANGED next
  BY <1>3 DEF UploadsCounted, UploadsBounded, InProgress
<1>4. ASSUME NEW a \in Attempts, Agent(a) \/ Network(a) PROVE UNCHANGED next
  BY <1>4 DEF Agent, BeginArchive, ArchiveBusy, Capture, CaptureNothing, CaptureFails, SendChunk,
     SendFails, AckArrives, RefusalArrives, AckTimeout, Fail, Return, Remove, RemoveFails,
     Network, Begin, GoesIdle, LoseChunks
<1>5. ASSUME NEW a \in Attempts, Server(a) PROVE HandleChunk(a) \/ UNCHANGED next
  BY <1>5 DEF Server, FinishStored, FinishRefused, SendAck
<1>6. ASSUME (\E m \in acks : DeliverAck(m)) \/ (\E i \in Instances : Vanish(i)) \/ Drop \/ Reconnect \/ AgentRestart
      PROVE UNCHANGED next
  BY <1>6 DEF DeliverAck, Vanish, Drop, Reconnect, AgentRestart
<1>7. CASE UNCHANGED vars
  BY <1>3, <1>7 DEF vars
<1>8. QED
  BY <1>1, <1>2, <1>3, <1>4, <1>5, <1>6, <1>7 DEF Next

(* The inductive invariant holds in every reachable state.                   *)
THEOREM Invariance == Spec => []IInv
<1>1. IInv /\ [Next]_vars => IInv'
  BY TypeStep, ConfirmationStep, OutcomeStep, RemovalStep, ChunksStep, WholeStep, ExclusiveStep,
     UploadsStep DEF IInv
<1>2. QED
  BY InitIInv, <1>1, PTL DEF Spec

(* Every variable keeps its type.                                            *)
THEOREM TypeCorrect == Spec => []TypeOK
<1>1. IInv => TypeOK
  BY DEF IInv
<1>2. QED
  BY Invariance, <1>1, PTL

(* archiveAndRemove: no container is removed without a stored log.           *)
THEOREM RemovalIsSafe == Spec => []NoRemovalWithoutLog
<1>1. IInv => NoRemovalWithoutLog
  BY DEF IInv
<1>2. QED
  BY Invariance, <1>1, PTL

(* The agent never holds a confirmation of a log that is not stored.         *)
THEOREM AcksAreTruthful == Spec => []AckIsTruthful
<1>1. IInv => AckIsTruthful
  BY DEF IInv, ConfirmationsTrue
<1>2. QED
  BY Invariance, <1>1, PTL

(* A log that is stored, or about to be, is whole and within the limit.      *)
THEOREM StoredLogsWhole == Spec => []StoredIsWhole
<1>1. IInv => StoredIsWhole
  BY DEF IInv
<1>2. QED
  BY Invariance, <1>1, PTL

(* beginArchive: no two attempts upload the same container at a time.        *)
THEOREM UploadsExclusive == Spec => []OneUploadPerInstance
<1>1. IInv => OneUploadPerInstance
  BY DEF IInv, ArchivingExclusive, InArchive, OneUploadPerInstance
<1>2. QED
  BY Invariance, <1>1, PTL

(* maxUploadsPerNode: a node never has more uploads in the server's memory   *)
(* than the limit, whatever goes idle, is swept, resumed or refused.         *)
THEOREM UploadsLimited == Spec => []UploadsBounded
<1>1. IInv => UploadsBounded
  BY DEF IInv, UploadsCounted
<1>2. QED
  BY Invariance, <1>1, PTL

(* The chunked, acknowledged protocol implements ArchivedRemoval.            *)
THEOREM Refinement == Spec => ImplementsPromise
<1>1. Init => Promise!Init
  BY DEF Init, Promise!Init
<1>2. IInv /\ [Next]_vars => [Promise!Next]_Promise!absVars
  BY PromiseStep DEF IInv
<1>3. QED
  BY Invariance, <1>1, <1>2, PTL DEF Spec, ImplementsPromise, Promise!Spec
=============================================================================
