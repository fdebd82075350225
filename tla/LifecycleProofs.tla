--------------------------- MODULE LifecycleProofs ---------------------------
(***************************************************************************)
(* Proofs about Lifecycle, for any number of instances, profiles, unload   *)
(* requests, connections, restarts and health reports.                     *)
(***************************************************************************)
EXTENDS Lifecycle, SequenceFacts

(* The positions of a load before it creates its container.                  *)
BeforeCreate == {"idle", "checked", "created", "sent", "resolve", "replace", "archive_stale"}

(* The engine of i is down, and stays so.                                    *)
Down(i) == container[i] \in {"exited", "removed"}

(* The container of an instance is only ever its own load's doing, and it is *)
(* ready only once that load has seen it ready.                              *)
LaunchedOnce ==
    \A i \in Instances :
        /\ pc[LoadTask(i)] \in BeforeCreate => container[i] = "none"
        /\ pc[LoadTask(i)] \in {"track", "report"} => ready[i]
        /\ ready[i] => /\ container[i] = "running" \/ Down(i)
                       /\ pc[LoadTask(i)] \in {"track", "report", "end"}

(* Only an instance that was ready is tracked, unloaded or checked.          *)
OnlyReadyServed ==
    /\ \A i \in active : ready[i]
    /\ \A t \in AllUnloads \cup AllChecks : pc[t] # "idle" => ready[Inst(t)]

(* Who unloads an instance found its row running, and has stopped its engine *)
(* by the time it says so.                                                   *)
UnloadsTrue ==
    \A t \in AllUnloads :
        /\ pc[t] # "idle" => status[Inst(t)] # "starting"
        /\ pc[t] = "report" => Down(Inst(t))

(* What a report still says when the server reads it, however late.          *)
TrueReport(m) ==
    /\ m.type \in {"running", "stopped", "dead"} => ready[m.inst]
    /\ m.type \in {"stopped", "dead"} => Down(m.inst)
    /\ m.type = "stopped" => status[m.inst] # "starting"

ReportsTrue == \A k \in Conns : \A m \in Range(inbox[k]) : TrueReport(m)

(* A handler that is to write that an instance is dead is right.             *)
HandlersTrue ==
    \A k \in Conns : handling[k].step \in {"known", "new"} => Down(handling[k].inst)

(* A handler that is to raise an alert has written that the instance is      *)
(* dead, and knows when another one has overtaken it.                        *)
RaisesTrue ==
    \A k \in Conns : handling[k].step = "raise" => health[handling[k].inst] = "dead" \/ k \in overtaken

(* The inductive invariant.                                                  *)
IInv ==
    /\ TypeOK
    /\ LaunchedOnce
    /\ OnlyReadyServed
    /\ UnloadsTrue
    /\ ReportsTrue
    /\ HandlersTrue
    /\ RaisesTrue
    /\ RunningWasReady
    /\ StoppedIsDown
    /\ DeadIsDown
    /\ AlertedIsDead

(* Tasks of the three kinds are different, and each has its instance.        *)
LEMMA TaskFacts ==
    /\ \A i \in Instances : LoadTask(i) \in Tasks /\ Inst(LoadTask(i)) = i /\ LoadTask(i)[1] = "load"
    /\ \A i, j \in Instances : LoadTask(i) = LoadTask(j) => i = j
    /\ \A t \in AllUnloads : t \in Tasks /\ Inst(t) \in Instances /\ t[1] = "unload"
    /\ \A t \in AllChecks : t \in Tasks /\ Inst(t) \in Instances /\ t[1] = "check"
<1>1. \A i \in Instances : LoadTask(i) \in Tasks /\ Inst(LoadTask(i)) = i /\ LoadTask(i)[1] = "load"
  BY DEF LoadTask, Tasks, Inst
<1>2. \A i, j \in Instances : LoadTask(i) = LoadTask(j) => i = j
  BY DEF LoadTask
<1>3. ASSUME NEW t \in AllUnloads
      PROVE t \in Tasks /\ Inst(t) \in Instances /\ t[1] = "unload"
  <2>1. PICK i \in Instances : t \in UnloadTasks(i)
    BY DEF AllUnloads
  <2>2. t \in Tasks
    BY <2>1 DEF Tasks
  <2>3. QED
    BY <2>1, <2>2 DEF UnloadTasks, Inst
<1>4. ASSUME NEW t \in AllChecks
      PROVE t \in Tasks /\ Inst(t) \in Instances /\ t[1] = "check"
  <2>1. PICK i \in Instances, k \in Conns : t = CheckTask(i, k)
    BY DEF AllChecks
  <2>2. t \in Tasks
    BY <2>1 DEF Tasks
  <2>3. QED
    BY <2>1, <2>2 DEF CheckTask, Inst
<1>5. QED
  BY <1>1, <1>2, <1>3, <1>4

(* Nothing is ready, tracked or reported at the start.                       *)
LEMMA InitIInv == Init => IInv
<1> SUFFICES ASSUME Init PROVE IInv
  OBVIOUS
<1> USE BoundsAssumption DEF Init
<1>1. ServerTypes /\ AgentTypes
  BY DEF ServerTypes, AgentTypes, Statuses, Handlers
<1>2. TaskTypes
  BY DEF TaskTypes
<1>2a. NetTypes
  <2>1. <<>> \in Seq(Report)
    OBVIOUS
  <2>2. inbox \in [Conns -> Seq(Report)]
    BY <2>1
  <2>3. 0 \in 0..MaxConns /\ 0 \in 0..MaxHealthReports /\ 0 \in 0..(MaxAgentRestarts + MaxServerRestarts)
    OBVIOUS
  <2>4. QED
    BY <2>2, <2>3 DEF NetTypes
<1>3. LaunchedOnce
  BY TaskFacts DEF LaunchedOnce
<1>4. OnlyReadyServed /\ UnloadsTrue
  BY TaskFacts DEF OnlyReadyServed, UnloadsTrue
<1>5. ReportsTrue
  BY EmptyRange DEF ReportsTrue
<1>6. RunningWasReady /\ StoppedIsDown /\ DeadIsDown /\ AlertedIsDead
  BY DEF RunningWasReady, StoppedIsDown, DeadIsDown, AlertedIsDead
<1>6a. HandlersTrue /\ RaisesTrue
  BY DEF HandlersTrue, RaisesTrue, Idle
<1>7. QED
  BY <1>1, <1>2, <1>2a, <1>3, <1>4, <1>5, <1>6, <1>6a DEF IInv, TypeOK

(* A handler's step takes at most one report, and leaves the requests, the   *)
(* sweeps and the agent alone.                                               *)
LEMMA HandlerMoves ==
    ASSUME NEW k \in Conns, Handle(k)
    PROVE /\ UNCHANGED <<sweep, pc, via, stale, replacing, container, ready, active, probing, conn, up, reports, restarts>>
          /\ inbox' = inbox \/ (inbox[k] # <<>> /\ inbox' = [inbox EXCEPT ![k] = Tail(inbox[k])])
<1> USE DEF Takes, serverVars, agentVars, netVars
<1>1. CASE HandleInstanceResult(k) \/ ReportDropped(k)
  BY <1>1 DEF HandleInstanceResult, ReportDropped
<1>2. CASE HandleAlive(k) \/ HandleDead(k)
  BY <1>2 DEF HandleAlive, HandleDead
<1>3. CASE UpdateDead(k) \/ RaiseDeadAlert(k) \/ ResolveDeadAlert(k) \/ HandlerFails(k)
  BY <1>3 DEF UpdateDead, RaiseDeadAlert, ResolveDeadAlert, HandlerFails
<1>4. QED
  BY <1>1, <1>2, <1>3 DEF Handle

Reported(type, i) == [inbox EXCEPT ![conn] = Append(@, [type |-> type, inst |-> i])]

(* A report appended to the newest connection's inbox is the only new one.   *)
LEMMA ReportAdds ==
    ASSUME NetTypes, NEW i \in Instances, NEW type \in {"running", "stopped", "failed", "alive", "dead"},
           inbox' = Reported(type, i)
    PROVE /\ inbox' \in [Conns -> Seq(Report)]
          /\ \A k \in Conns : \A m \in Range(inbox'[k]) :
                m \in Range(inbox[k]) \/ (m.type = type /\ m.inst = i)
<1> DEFINE r == [type |-> type, inst |-> i]
<1>1. r \in Report /\ r.type = type /\ r.inst = i
  BY DEF Report
<1>2. inbox \in [Conns -> Seq(Report)]
  BY DEF NetTypes
<1> HIDE DEF r
<1>3. CASE conn \in Conns
  <2> DEFINE q == Append(inbox[conn], r)
  <2>1. q \in Seq(Report) /\ Range(q) = Range(inbox[conn]) \cup {r}
    BY <1>1, <1>2, <1>3, AppendRange
  <2>2. inbox' = [inbox EXCEPT ![conn] = q]
    BY DEF r, Reported
  <2> HIDE DEF q
  <2>3. inbox' \in [Conns -> Seq(Report)]
    BY <1>2, <2>1, <2>2
  <2>4. ASSUME NEW k \in Conns, NEW m \in Range(inbox'[k])
        PROVE m \in Range(inbox[k]) \/ (m.type = type /\ m.inst = i)
    <3>1. inbox'[k] = inbox[k] \/ (k = conn /\ inbox'[k] = q)
      BY <1>2, <2>2
    <3>2. QED
      BY <1>1, <2>1, <2>4, <3>1
  <2>5. QED
    BY <2>3, <2>4
<1>4. CASE conn \notin Conns
  <2>1. inbox' = inbox
    BY <1>2, <1>4 DEF Reported
  <2>2. QED
    BY <1>2, <2>1
<1>5. QED
  BY <1>3, <1>4

(* Say adds at most one report, about the task's instance.                   *)
LEMMA SayAdds ==
    ASSUME NetTypes, NEW t \in Tasks, Inst(t) \in Instances,
           NEW type \in {"running", "stopped", "failed", "alive", "dead"}, Say(t, type)
    PROVE /\ inbox' \in [Conns -> Seq(Report)]
          /\ \A k \in Conns : \A m \in Range(inbox'[k]) :
                m \in Range(inbox[k]) \/ (m.type = type /\ m.inst = Inst(t))
<1>1. inbox' = inbox \/ inbox' = Reported(type, Inst(t))
  BY DEF Say, Reported
<1>2. CASE inbox' = inbox
  BY <1>2 DEF NetTypes
<1>3. QED
  BY <1>1, <1>2, ReportAdds

PCs == {"idle", "sent", "end"} \cup ServerPCs \cup AgentPCs

(* A step of one task moves it from one position to another.                 *)
MovesFrom(t, from, to) == pc[t] = from /\ to \in PCs /\ pc' = [pc EXCEPT ![t] = to] /\ via' = via

(* What the actions of a load, an unload and a check do to the tasks.        *)
LEMMA LoadMoves ==
    ASSUME NEW i \in Instances, LoadCheck(i) \/ LoadServer(i) \/ LoadAgent(i)
    PROVE \/ UNCHANGED <<pc, via>>
          \/ pc' = [pc EXCEPT ![LoadTask(i)] = "sent"] /\ via' = [via EXCEPT ![LoadTask(i)] = conn]
          \/ \E from, to \in PCs : MovesFrom(LoadTask(i), from, to)
<1> USE TaskFacts DEF Goto, MovesFrom, PCs, ServerPCs, AgentPCs, agentVars
<1>1. CASE LoadCheck(i) \/ LoadServer(i)
  BY <1>1 DEF LoadCheck, LoadServer, RequestFails, LoadCreate, LoadSend, Dispatched, LoadSendFails
<1>2. CASE Receive(LoadTask(i)) \/ ResolveFails(i) \/ ReplaceList(i) \/ ReplaceArchive(i)
  BY <1>2 DEF Receive, ResolveFails, ReplaceList, ReplaceArchive
<1>3. CASE \E j \in Instances : ReplaceSkip(i, j) \/ ReplaceHalt(i, j)
  BY <1>3 DEF ReplaceSkip, ReplaceHalt
<1>4. CASE Create(i) \/ CreateFails(i) \/ Start(i) \/ StartFails(i) \/ BecomesReady(i) \/ NeverReady(i)
  BY <1>4 DEF Create, CreateFails, Start, StartFails, BecomesReady, NeverReady
<1>5. CASE \/ TrackActive(i) \/ ReportRunning(i) \/ ReportFailed(i)
           \/ HaltFailedLaunch(i) \/ HaltFailedLaunchFails(i) \/ ArchiveFailedLaunch(i)
  BY <1>5 DEF TrackActive, ReportRunning, ReportFailed, HaltFailedLaunch, HaltFailedLaunchFails,
              ArchiveFailedLaunch
<1>6. QED
  BY <1>1, <1>2, <1>3, <1>4, <1>5 DEF LoadAgent

(* A step of an unload sends the command, or moves from one pc to another.   *)
LEMMA UnloadMoves ==
    ASSUME NEW t \in AllUnloads, UnloadCheck(t) \/ UnloadServer(t) \/ UnloadAgent(t)
    PROVE \/ pc' = [pc EXCEPT ![t] = "sent"] /\ via' = [via EXCEPT ![t] = conn]
          \/ \E from, to \in PCs : MovesFrom(t, from, to)
<1> USE TaskFacts DEF Goto, MovesFrom, PCs, ServerPCs, AgentPCs
<1>1. CASE UnloadCheck(t) \/ UnloadServer(t)
  BY <1>1 DEF UnloadCheck, UnloadServer, RequestFails, UnloadMark, UnloadSend, Dispatched, UnloadSendFails
<1>2. CASE UnloadAgent(t)
  BY <1>2 DEF UnloadAgent, Receive, Halt, HaltFails, ReportStopped, ArchiveUnloaded, Untrack
<1>3. QED
  BY <1>1, <1>2

(* So does a step of the sweep's check.                                      *)
LEMMA CheckMoves ==
    ASSUME NEW t \in AllChecks, CheckServer(t) \/ CheckAgent(t)
    PROVE \/ pc' = [pc EXCEPT ![t] = "sent"] /\ via' = [via EXCEPT ![t] = conn]
          \/ \E from, to \in PCs : MovesFrom(t, from, to)
<1> USE TaskFacts DEF Goto, MovesFrom, PCs, ServerPCs, AgentPCs
<1>1. CASE CheckServer(t)
  BY <1>1 DEF CheckServer, SweepSend, Dispatched, SweepSendFails
<1>2. CASE CheckAgent(t)
  BY <1>2 DEF CheckAgent, Receive, AskRunning, AskDead, AskFails, ConfirmRunning, Resume
<1>3. QED
  BY <1>1, <1>2

(* Typing: the tasks.                                                        *)
LEMMA TypeTasks == TypeOK /\ [Next]_vars => TaskTypes'
<1> SUFFICES ASSUME TypeOK, [Next]_vars PROVE TaskTypes'
  OBVIOUS
<1>0. pc \in [Tasks -> PCs] /\ via \in [Tasks -> 0..MaxConns] /\ conn \in 0..MaxConns
  BY DEF TypeOK, TaskTypes, NetTypes, PCs
<1> SUFFICES pc' \in [Tasks -> PCs] /\ via' \in [Tasks -> 0..MaxConns]
  BY DEF TaskTypes, PCs
<1>1. "sent" \in PCs /\ "end" \in PCs /\ "listed" \in PCs
  BY DEF PCs, ServerPCs
<1>2. ASSUME NEW t \in Tasks,
             \/ UNCHANGED <<pc, via>>
             \/ pc' = [pc EXCEPT ![t] = "sent"] /\ via' = [via EXCEPT ![t] = conn]
             \/ \E from, to \in PCs : MovesFrom(t, from, to)
      PROVE pc' \in [Tasks -> PCs] /\ via' \in [Tasks -> 0..MaxConns]
  BY <1>0, <1>1, <1>2 DEF MovesFrom
<1>3. ASSUME NEW i \in Instances, LoadCheck(i) \/ LoadServer(i) \/ LoadAgent(i)
      PROVE pc' \in [Tasks -> PCs] /\ via' \in [Tasks -> 0..MaxConns]
  BY <1>2, <1>3, LoadMoves, TaskFacts
<1>4. ASSUME NEW t \in AllUnloads, UnloadCheck(t) \/ UnloadServer(t) \/ UnloadAgent(t)
      PROVE pc' \in [Tasks -> PCs] /\ via' \in [Tasks -> 0..MaxConns]
  BY <1>2, <1>4, UnloadMoves, TaskFacts
<1>5. ASSUME NEW t \in AllChecks, CheckServer(t) \/ CheckAgent(t)
      PROVE pc' \in [Tasks -> PCs] /\ via' \in [Tasks -> 0..MaxConns]
  BY <1>2, <1>5, CheckMoves, TaskFacts
<1>6. CASE \/ \E k \in Conns : Sweep(k) \/ Handle(k) \/ LoseReports(k)
           \/ \E i \in Instances : HealthDead(i) \/ HealthProbe(i) \/ HealthAlive(i) \/ EngineExits(i)
           \/ Connect \/ UNCHANGED vars
  <2>1. \/ UNCHANGED <<pc, via>>
        \/ /\ via' = via
           /\ \E k \in Conns :
                 pc' = [t \in Tasks |->
                          IF \E i \in Instances : t = CheckTask(i, k) /\ status[i] = "running"
                          THEN "listed" ELSE pc[t]]
    BY <1>6, HandlerMoves DEF Sweep, SweepList, SweepFails, LoseReports, HealthDead, HealthProbe, HealthAlive, EngineExits, Connect, vars
  <2>2. QED
    BY <1>0, <1>1, <2>1
<1>7. CASE Drop \/ AgentRestart \/ ServerRestart
  BY <1>0, <1>1, <1>7 DEF Drop, AgentRestart, ServerRestart, Lost
<1>8. QED
  BY <1>3, <1>4, <1>5, <1>6, <1>7 DEF Next

(* The report a handler reads is one.                                        *)
LEMMA ReadReport ==
    ASSUME NetTypes, NEW k \in Conns, inbox[k] # <<>>
    PROVE /\ Head(inbox[k]) \in Range(inbox[k])
          /\ Head(inbox[k]).inst \in Instances
          /\ Tail(inbox[k]) \in Seq(Report)
          /\ Range(Tail(inbox[k])) \subseteq Range(inbox[k])
<1>1. /\ Head(inbox[k]) \in Report /\ Head(inbox[k]) \in Range(inbox[k])
      /\ Tail(inbox[k]) \in Seq(Report) /\ Range(Tail(inbox[k])) \subseteq Range(inbox[k])
  BY TailRange DEF NetTypes
<1>2. Head(inbox[k]).inst \in Instances
  BY <1>1 DEF Report
<1>3. QED
  BY <1>1, <1>2

(* Typing: the rows.                                                         *)
LEMMA TypeServer == TypeOK /\ [Next]_vars => ServerTypes'
<1> SUFFICES ASSUME TypeOK, [Next]_vars PROVE ServerTypes'
  OBVIOUS
<1> USE DEF serverVars, alertVars
<1>0. ServerTypes /\ NetTypes
  BY DEF TypeOK
<1>1. ASSUME NEW i \in Instances, LoadCheck(i) \/ LoadServer(i) PROVE ServerTypes'
  BY <1>0, <1>1 DEF LoadCheck, LoadServer, RequestFails, LoadCreate, LoadSend, LoadSendFails, SetStatus,
         TrySetStatus, ServerTypes, Statuses
<1>2. ASSUME NEW t \in AllUnloads, UnloadCheck(t) \/ UnloadServer(t) PROVE ServerTypes'
  <2>1. Inst(t) \in Instances
    BY TaskFacts
  <2>2. QED
    BY <1>0, <1>2, <2>1 DEF UnloadCheck, UnloadServer, RequestFails, UnloadMark, UnloadSend,
         UnloadSendFails, SetStatus, TrySetStatus, ServerTypes, Statuses
<1>3. ASSUME NEW k \in Conns, HandleInstanceResult(k) \/ HandleAlive(k) \/ HandleDead(k) PROVE ServerTypes'
  <2> DEFINE i == Head(inbox[k]).inst
  <2>1. i \in Instances
    BY <1>0, <1>3, ReadReport DEF HandleInstanceResult, HandleAlive, HandleDead, Takes
  <2> HIDE DEF i
  <2>2. status' \in [Instances -> Statuses]
    BY <1>0, <1>3, <2>1 DEF HandleInstanceResult, HandleAlive, HandleDead, Takes, Terminal, SetStatus, ServerTypes, Statuses, i
  <2>3. \A step \in {"known", "new", "raise", "resolve"} : [step |-> step, inst |-> i] \in Handlers
    BY <2>1 DEF Handlers
  <2>4. \/ handling' = handling
        \/ \E step \in {"known", "new", "raise", "resolve"} : handling' = [handling EXCEPT ![k] = [step |-> step, inst |-> i]]
    BY <1>3 DEF HandleInstanceResult, HandleAlive, HandleDead, Handler, i
  <2>5. handling' \in [Conns -> Handlers]
    BY <1>0, <2>3, <2>4 DEF ServerTypes
  <2>6. health' \in [Instances -> {"unknown", "alive", "dead"}] /\ overtaken' \subseteq Conns
    BY <1>0, <1>3, <2>1 DEF HandleInstanceResult, HandleAlive, HandleDead, ServerTypes, i
  <2>7. UNCHANGED <<alert, unclosed, sweep>>
    BY <1>3 DEF HandleInstanceResult, HandleAlive, HandleDead
  <2>8. QED
    BY <1>0, <2>2, <2>5, <2>6, <2>7 DEF ServerTypes
<1>4. ASSUME NEW k \in Conns, UpdateDead(k) \/ RaiseDeadAlert(k) \/ ResolveDeadAlert(k) \/ HandlerFails(k) PROVE ServerTypes'
  <2> DEFINE i == handling[k].inst
  <2>1. handling[k] \in Handlers /\ handling[k].step # "idle"
    BY <1>0, <1>4 DEF UpdateDead, RaiseDeadAlert, ResolveDeadAlert, HandlerFails, ServerTypes
  <2>2. i \in Instances
    BY <2>1 DEF Handlers, Idle
  <2> HIDE DEF i
  <2>3. [step |-> "raise", inst |-> i] \in Handlers /\ Idle \in Handlers
    BY <2>2 DEF Handlers
  <2>4. handling' = [handling EXCEPT ![k] = Idle] \/ handling' = [handling EXCEPT ![k] = [step |-> "raise", inst |-> i]]
    BY <1>4 DEF UpdateDead, RaiseDeadAlert, ResolveDeadAlert, HandlerFails, Handler, Done, i
  <2>5. handling' \in [Conns -> Handlers]
    BY <1>0, <2>3, <2>4 DEF ServerTypes
  <2>6. health' = health \/ health' = [health EXCEPT ![i] = "dead"]
    BY <1>4 DEF UpdateDead, RaiseDeadAlert, ResolveDeadAlert, HandlerFails, i
  <2>7. alert' = alert \/ alert' = [alert EXCEPT ![i] = TRUE] \/ alert' = [alert EXCEPT ![i] = FALSE]
    BY <1>4 DEF UpdateDead, RaiseDeadAlert, ResolveDeadAlert, HandlerFails, i
  <2>8. overtaken' \subseteq overtaken /\ unclosed' \subseteq unclosed \cup {i}
    BY <1>4 DEF UpdateDead, RaiseDeadAlert, ResolveDeadAlert, HandlerFails, i
  <2>9. UNCHANGED <<status, sweep>>
    BY <1>4 DEF UpdateDead, RaiseDeadAlert, ResolveDeadAlert, HandlerFails
  <2>10. QED
    BY <1>0, <2>2, <2>5, <2>6, <2>7, <2>8, <2>9 DEF ServerTypes
<1>5. CASE Connect \/ ServerRestart \/ \E k \in Conns : Sweep(k)
  BY <1>0, <1>5 DEF Connect, ServerRestart, Sweep, SweepList, SweepFails, ServerTypes, Handlers
<1>6. ASSUME NEW i \in Instances, LoadAgent(i) PROVE ServerTypes'
  BY <1>0, <1>6 DEF LoadAgent, Receive, ResolveFails, ReplaceList, ReplaceArchive, ReplaceSkip, ReplaceHalt,
         Create, CreateFails, Start, StartFails, BecomesReady, NeverReady, TrackActive, ReportRunning,
         ReportFailed, HaltFailedLaunch, HaltFailedLaunchFails, ArchiveFailedLaunch, ServerTypes
<1>7. CASE \/ \E t \in AllUnloads : UnloadAgent(t)
           \/ \E t \in AllChecks : CheckServer(t) \/ CheckAgent(t)
  BY <1>0, <1>7 DEF UnloadAgent, Receive, Halt, HaltFails, ReportStopped, ArchiveUnloaded, Untrack,
         CheckServer, SweepSend, SweepSendFails, CheckAgent, AskRunning, AskDead, AskFails,
         ConfirmRunning, Resume, ServerTypes
<1>8. CASE \/ \E k \in Conns : ReportDropped(k) \/ LoseReports(k)
           \/ \E i \in Instances : HealthDead(i) \/ HealthProbe(i) \/ HealthAlive(i) \/ EngineExits(i)
           \/ Drop \/ AgentRestart \/ UNCHANGED vars
  BY <1>0, <1>8 DEF ReportDropped, LoseReports, HealthDead, HealthProbe, HealthAlive, EngineExits, Drop,
         AgentRestart, vars, ServerTypes
<1>9. QED
  BY <1>1, <1>2, <1>3, <1>4, <1>5, <1>6, <1>7, <1>8 DEF Next, Handle

(* Typing: the agent.                                                        *)
LEMMA TypeAgent == TypeOK /\ [Next]_vars => AgentTypes'
<1> SUFFICES ASSUME TypeOK, [Next]_vars PROVE AgentTypes'
  OBVIOUS
<1> USE DEF agentVars
<1>0. AgentTypes
  BY DEF TypeOK
<1>1. ASSUME NEW i \in Instances, LoadCheck(i) \/ LoadServer(i) \/ LoadAgent(i) PROVE AgentTypes'
  <2>1. CASE ReplaceList(i) \/ ReplaceArchive(i)
    BY <1>0, <2>1 DEF ReplaceList, ReplaceArchive, ArchiveAndRemove, AgentTypes
  <2>2. ASSUME NEW j \in Instances, ReplaceSkip(i, j) \/ ReplaceHalt(i, j) PROVE AgentTypes'
    BY <1>0, <2>2 DEF ReplaceSkip, ReplaceHalt, Halted, AgentTypes
  <2>3. CASE \/ Create(i) \/ Start(i) \/ BecomesReady(i) \/ TrackActive(i)
             \/ HaltFailedLaunch(i) \/ ArchiveFailedLaunch(i)
    BY <1>0, <2>3 DEF Create, Start, BecomesReady, TrackActive, HaltFailedLaunch, ArchiveFailedLaunch,
         Halted, ArchiveAndRemove, AgentTypes
  <2>4. CASE \/ LoadCheck(i) \/ LoadServer(i) \/ Receive(LoadTask(i)) \/ ResolveFails(i)
             \/ CreateFails(i) \/ StartFails(i) \/ NeverReady(i) \/ ReportRunning(i) \/ ReportFailed(i)
             \/ HaltFailedLaunchFails(i)
    BY <1>0, <2>4 DEF LoadCheck, LoadServer, RequestFails, LoadCreate, LoadSend, LoadSendFails, Receive,
         ResolveFails, CreateFails, StartFails, NeverReady, ReportRunning, ReportFailed,
         HaltFailedLaunchFails, AgentTypes
  <2>5. QED
    BY <1>1, <2>1, <2>2, <2>3, <2>4 DEF LoadAgent
<1>2. ASSUME NEW t \in AllUnloads, UnloadCheck(t) \/ UnloadServer(t) \/ UnloadAgent(t) PROVE AgentTypes'
  <2>1. Inst(t) \in Instances
    BY TaskFacts
  <2>2. CASE Halt(t) \/ ArchiveUnloaded(t) \/ Untrack(t)
    BY <1>0, <2>1, <2>2 DEF Halt, Halted, ArchiveUnloaded, ArchiveAndRemove, Untrack, AgentTypes
  <2>3. CASE UnloadCheck(t) \/ UnloadServer(t) \/ Receive(t) \/ HaltFails(t) \/ ReportStopped(t)
    BY <1>0, <2>3 DEF UnloadCheck, UnloadServer, RequestFails, UnloadMark, UnloadSend, UnloadSendFails,
         Receive, HaltFails, ReportStopped, AgentTypes
  <2>4. QED
    BY <1>2, <2>2, <2>3 DEF UnloadAgent
<1>3. ASSUME NEW t \in AllChecks, CheckServer(t) \/ CheckAgent(t) PROVE AgentTypes'
  <2>1. Inst(t) \in Instances
    BY TaskFacts
  <2>2. QED
    BY <1>0, <1>3, <2>1 DEF CheckServer, SweepSend, SweepSendFails, CheckAgent, Receive, AskRunning, AskDead,
         AskFails, ConfirmRunning, Resume, AgentTypes
<1>4. CASE \/ \E k \in Conns : Sweep(k) \/ Handle(k) \/ LoseReports(k)
           \/ Connect \/ Drop \/ AgentRestart \/ ServerRestart \/ UNCHANGED vars
  BY <1>0, <1>4, HandlerMoves DEF Sweep, SweepList, SweepFails, LoseReports, Connect, Drop, AgentRestart, ServerRestart, vars, AgentTypes
<1>5. ASSUME NEW i \in Instances, HealthDead(i) \/ HealthProbe(i) \/ HealthAlive(i) \/ EngineExits(i)
      PROVE AgentTypes'
  BY <1>0, <1>5 DEF HealthDead, HealthProbe, HealthAlive, EngineExits, AgentTypes
<1>6. QED
  BY <1>1, <1>2, <1>3, <1>4, <1>5 DEF Next

(* Typing: the connections.                                                  *)
LEMMA TypeNet == TypeOK /\ [Next]_vars => NetTypes'
<1> SUFFICES ASSUME TypeOK, [Next]_vars PROVE NetTypes'
  OBVIOUS
<1> USE BoundsAssumption DEF netVars
<1>0. NetTypes
  BY DEF TypeOK
<1>1. ASSUME NEW t \in Tasks, Inst(t) \in Instances,
             NEW type \in {"running", "stopped", "failed", "alive", "dead"},
             Say(t, type), UNCHANGED <<conn, up, reports, restarts>>
      PROVE NetTypes'
  BY <1>0, <1>1, SayAdds DEF NetTypes
<1>2. ASSUME NEW i \in Instances, LoadCheck(i) \/ LoadServer(i) \/ LoadAgent(i) PROVE NetTypes'
  <2>1. LoadTask(i) \in Tasks /\ Inst(LoadTask(i)) \in Instances
    BY TaskFacts
  <2>2. CASE ResolveFails(i) \/ ReportRunning(i) \/ ReportFailed(i)
    BY <1>1, <2>1, <2>2 DEF ResolveFails, ReportRunning, ReportFailed
  <2>3. CASE \/ LoadCheck(i) \/ LoadServer(i) \/ Receive(LoadTask(i)) \/ ReplaceList(i)
             \/ (\E j \in Instances : ReplaceSkip(i, j) \/ ReplaceHalt(i, j))
             \/ ReplaceArchive(i) \/ Create(i) \/ CreateFails(i) \/ Start(i) \/ StartFails(i)
             \/ BecomesReady(i) \/ NeverReady(i) \/ TrackActive(i)
             \/ HaltFailedLaunch(i) \/ HaltFailedLaunchFails(i) \/ ArchiveFailedLaunch(i)
    BY <1>0, <2>3 DEF LoadCheck, LoadServer, RequestFails, LoadCreate, LoadSend, LoadSendFails, Receive,
         ReplaceList, ReplaceSkip, ReplaceHalt, ReplaceArchive, Create, CreateFails, Start, StartFails,
         BecomesReady, NeverReady, TrackActive, HaltFailedLaunch, HaltFailedLaunchFails,
         ArchiveFailedLaunch, NetTypes
  <2>4. QED
    BY <1>2, <2>2, <2>3 DEF LoadAgent
<1>3. ASSUME NEW t \in AllUnloads, UnloadCheck(t) \/ UnloadServer(t) \/ UnloadAgent(t) PROVE NetTypes'
  <2>1. t \in Tasks /\ Inst(t) \in Instances
    BY TaskFacts
  <2>2. CASE HaltFails(t) \/ ReportStopped(t)
    BY <1>1, <2>1, <2>2 DEF HaltFails, ReportStopped
  <2>3. CASE UnloadCheck(t) \/ UnloadServer(t) \/ Receive(t) \/ Halt(t) \/ ArchiveUnloaded(t) \/ Untrack(t)
    BY <1>0, <2>3 DEF UnloadCheck, UnloadServer, RequestFails, UnloadMark, UnloadSend, UnloadSendFails,
         Receive, Halt, ArchiveUnloaded, Untrack, NetTypes
  <2>4. QED
    BY <1>3, <2>2, <2>3 DEF UnloadAgent
<1>4. ASSUME NEW t \in AllChecks, CheckServer(t) \/ CheckAgent(t) PROVE NetTypes'
  <2>1. t \in Tasks /\ Inst(t) \in Instances
    BY TaskFacts
  <2>2. CASE AskDead(t) \/ ConfirmRunning(t)
    BY <1>1, <2>1, <2>2 DEF AskDead, ConfirmRunning
  <2>3. CASE CheckServer(t) \/ Receive(t) \/ AskRunning(t) \/ AskFails(t) \/ Resume(t)
    BY <1>0, <2>3 DEF CheckServer, SweepSend, SweepSendFails, Receive, AskRunning, AskFails, Resume, NetTypes
  <2>4. QED
    BY <1>4, <2>2, <2>3 DEF CheckAgent
<1>5. ASSUME NEW k \in Conns, Handle(k) PROVE NetTypes'
  <2>1. inbox' = inbox \/ (inbox[k] # <<>> /\ inbox' = [inbox EXCEPT ![k] = Tail(inbox[k])])
    BY <1>5, HandlerMoves
  <2>2. inbox' \in [Conns -> Seq(Report)]
    BY <1>0, <2>1, ReadReport DEF NetTypes
  <2>3. QED
    BY <1>0, <1>5, <2>2, HandlerMoves DEF NetTypes
<1>6. ASSUME NEW i \in Instances, HealthDead(i) \/ HealthProbe(i) \/ HealthAlive(i) PROVE NetTypes'
  <2>1. inbox' = inbox \/ inbox' = Reported("dead", i) \/ inbox' = Reported("alive", i)
    BY <1>6 DEF HealthDead, HealthProbe, HealthAlive, Reported
  <2>2. inbox' \in [Conns -> Seq(Report)]
    <3>1. CASE inbox' = inbox
      BY <1>0, <3>1 DEF NetTypes
    <3>2. QED
      BY <1>0, <2>1, <3>1, ReportAdds
  <2>3. reports' \in 0..MaxHealthReports
    BY <1>0, <1>6 DEF HealthDead, HealthProbe, HealthAlive, NetTypes
  <2>4. QED
    BY <1>0, <1>6, <2>2, <2>3 DEF HealthDead, HealthProbe, HealthAlive, NetTypes
<1>7. CASE \/ \E k \in Conns : Sweep(k) \/ LoseReports(k)
           \/ \E i \in Instances : EngineExits(i)
           \/ UNCHANGED vars
  <2>1. inbox' = inbox \/ \E k \in Conns : inbox' = [inbox EXCEPT ![k] = <<>>]
    BY <1>7 DEF Sweep, SweepList, SweepFails, LoseReports, EngineExits, vars
  <2>2. inbox' \in [Conns -> Seq(Report)]
    <3>1. <<>> \in Seq(Report) /\ inbox \in [Conns -> Seq(Report)]
      BY <1>0 DEF NetTypes
    <3>2. QED
      BY <2>1, <3>1
  <2>3. QED
    BY <1>0, <1>7, <2>2 DEF Sweep, SweepList, SweepFails, LoseReports, EngineExits, vars, NetTypes
<1>8. CASE Connect \/ Drop
  <2>1. conn' \in 0..MaxConns
    BY <1>0, <1>8 DEF Connect, Drop, NetTypes
  <2>2. QED
    BY <1>0, <1>8, <2>1 DEF Connect, Drop, NetTypes
<1>9. CASE AgentRestart \/ ServerRestart
  <2>1. PICK p \in {"agent", "server"} :
            /\ restarts[p] < MaxAgentRestarts \/ restarts[p] < MaxServerRestarts
            /\ restarts' = [restarts EXCEPT ![p] = restarts[p] + 1]
    BY <1>9 DEF AgentRestart, ServerRestart
  <2>2. restarts[p] + 1 \in 0..(MaxAgentRestarts + MaxServerRestarts)
    BY <1>0, <2>1 DEF NetTypes
  <2>3. restarts' \in [{"agent", "server"} -> 0..(MaxAgentRestarts + MaxServerRestarts)]
    BY <1>0, <2>1, <2>2 DEF NetTypes
  <2>4. inbox' \in [Conns -> Seq(Report)]
    <3>1. <<>> \in Seq(Report) /\ inbox \in [Conns -> Seq(Report)]
      BY <1>0 DEF NetTypes
    <3>2. inbox' = inbox \/ inbox' = [k \in Conns |-> <<>>]
      BY <1>9 DEF AgentRestart, ServerRestart
    <3>3. QED
      BY <3>1, <3>2
  <2>5. QED
    BY <1>0, <1>9, <2>3, <2>4 DEF AgentRestart, ServerRestart, NetTypes
<1>10. QED
  BY <1>2, <1>3, <1>4, <1>5, <1>6, <1>7, <1>8, <1>9 DEF Next

(* Every step preserves the types.                                           *)
LEMMA TypeStep == TypeOK /\ [Next]_vars => TypeOK'
  BY TypeServer, TypeTasks, TypeAgent, TypeNet DEF TypeOK

(* A step of one task leaves the others where they are.                      *)
LEMMA OneMoves ==
    ASSUME TypeOK, NEW t \in Tasks, NEW to, pc' = [pc EXCEPT ![t] = to]
    PROVE pc'[t] = to /\ \A u \in Tasks \ {t} : pc'[u] = pc[u]
  BY DEF TypeOK, TaskTypes

(* A step that moves one load leaves the pc of every other load alone.       *)
LEMMA OneLoadMoves ==
    ASSUME TypeOK, NEW i \in Instances, NEW to, pc' = [pc EXCEPT ![LoadTask(i)] = to]
    PROVE \A j \in Instances : pc'[LoadTask(j)] = IF j = i THEN to ELSE pc[LoadTask(j)]
<1> TAKE j \in Instances
<1>1. LoadTask(i) \in Tasks /\ LoadTask(j) \in Tasks /\ (LoadTask(j) = LoadTask(i) => j = i)
  BY TaskFacts
<1>2. QED
  BY <1>1 DEF TypeOK, TaskTypes

(* What may happen to a container other than its launch: it is stopped, or   *)
(* removed.                                                                  *)
Worn(j) ==
    \/ container'[j] = container[j]
    \/ container[j] = "running" /\ container'[j] = "exited"
    \/ container[j] \in {"created", "exited"} /\ container'[j] = "removed"

(* How a load may move without having created, started or tracked anything.  *)
Advances(j) ==
    LET from == pc[LoadTask(j)]
        to == pc'[LoadTask(j)]
    IN  \/ to = from
        \/ to = "end"
        \/ from \in BeforeCreate /\ to \in BeforeCreate
        \/ from \notin {"track", "report", "end"} /\ to \notin BeforeCreate \cup {"track", "report"}
        \/ from = "track" /\ to = "report"

Wears == UNCHANGED ready /\ \A j \in Instances : Worn(j) /\ Advances(j)

(* Only the launch itself brings a container up: every other step wears.     *)
LEMMA HaltWears ==
    ASSUME TypeOK, NEW i \in Instances, container' = Halted(i) PROVE \A j \in Instances : Worn(j)
  BY DEF TypeOK, AgentTypes, Halted, Worn

(* ArchiveAndRemove stops nothing and launches nothing: it removes a         *)
(* container or leaves it.                                                   *)
LEMMA ArchiveWears ==
    ASSUME TypeOK, NEW t, NEW i \in Instances \cup {NoInstance}, ArchiveAndRemove(t, i)
    PROVE \A j \in Instances : Worn(j)
  BY DEF TypeOK, AgentTypes, ArchiveAndRemove, Worn

(* Of the steps of a load, only Create, Start and the readiness check bring  *)
(* a container up; the rest let it wear.                                     *)
LEMMA LoadWears ==
    ASSUME TypeOK, NEW i \in Instances, LoadCheck(i) \/ LoadServer(i) \/ LoadAgent(i)
    PROVE Wears \/ Create(i) \/ Start(i) \/ BecomesReady(i)
<1>1. ASSUME NEW to, pc' = [pc EXCEPT ![LoadTask(i)] = to],
             \/ to = "end"
             \/ pc[LoadTask(i)] \in BeforeCreate /\ to \in BeforeCreate
             \/ pc[LoadTask(i)] \notin {"track", "report", "end"} /\ to \notin BeforeCreate \cup {"track", "report"}
             \/ pc[LoadTask(i)] = "track" /\ to = "report"
      PROVE \A j \in Instances : Advances(j)
  <2>1. \A j \in Instances : pc'[LoadTask(j)] = IF j = i THEN to ELSE pc[LoadTask(j)]
    BY <1>1, OneLoadMoves
  <2>2. QED
    BY <1>1, <2>1 DEF Advances
<1>2. CASE LoadCheck(i) \/ LoadServer(i) \/ Receive(LoadTask(i)) \/ ResolveFails(i) \/ ReplaceList(i)
  <2>1. \A j \in Instances : Advances(j)
    BY <1>1, <1>2, TaskFacts DEF LoadCheck, LoadServer, RequestFails, LoadCreate, LoadSend, Dispatched,
         LoadSendFails, Receive, ResolveFails, ReplaceList, Goto, BeforeCreate
  <2>2. UNCHANGED <<container, ready>>
    BY <1>2 DEF LoadCheck, LoadServer, RequestFails, LoadCreate, LoadSend, LoadSendFails, Receive,
         ResolveFails, ReplaceList, agentVars
  <2>3. QED
    BY <2>1, <2>2 DEF Wears, Worn
<1>3. ASSUME NEW j \in Instances, ReplaceSkip(i, j) \/ ReplaceHalt(i, j) PROVE Wears
  <2>1. CASE ReplaceSkip(i, j)
    BY <2>1 DEF ReplaceSkip, Wears, Worn, Advances
  <2>2. CASE ReplaceHalt(i, j)
    <3>1. \A l \in Instances : Advances(l)
      BY <1>1, <2>2 DEF ReplaceHalt, Goto, BeforeCreate
    <3>2. QED
      BY <2>2, <3>1, HaltWears DEF ReplaceHalt, Wears
  <2>3. QED
    BY <1>3, <2>1, <2>2
<1>4. CASE ReplaceArchive(i) \/ ArchiveFailedLaunch(i)
  <2>1. \A j \in Instances : Advances(j)
    BY <1>1, <1>4 DEF ReplaceArchive, ArchiveFailedLaunch, Goto, BeforeCreate
  <2>2. replacing[i] \in Instances \cup {NoInstance}
    BY DEF TypeOK, AgentTypes
  <2>3. \A j \in Instances : Worn(j)
    BY <1>4, <2>2, ArchiveWears DEF ReplaceArchive, ArchiveFailedLaunch
  <2>4. QED
    BY <1>4, <2>1, <2>3 DEF ReplaceArchive, ArchiveFailedLaunch, Wears
<1>5. CASE HaltFailedLaunch(i)
  <2>1. \A j \in Instances : Advances(j)
    BY <1>1, <1>5 DEF HaltFailedLaunch, Goto, BeforeCreate
  <2>2. QED
    BY <1>5, <2>1, HaltWears DEF HaltFailedLaunch, Wears
<1>6. CASE \/ CreateFails(i) \/ StartFails(i) \/ NeverReady(i) \/ TrackActive(i) \/ ReportRunning(i)
           \/ ReportFailed(i) \/ HaltFailedLaunchFails(i)
  <2>1. \A j \in Instances : Advances(j)
    BY <1>1, <1>6 DEF CreateFails, StartFails, NeverReady, TrackActive, ReportRunning, ReportFailed,
         HaltFailedLaunchFails, Goto, BeforeCreate
  <2>2. UNCHANGED <<container, ready>>
    BY <1>6 DEF CreateFails, StartFails, NeverReady, TrackActive, ReportRunning, ReportFailed,
         HaltFailedLaunchFails, agentVars
  <2>3. QED
    BY <2>1, <2>2 DEF Wears, Worn
<1>7. QED
  BY <1>2, <1>3, <1>4, <1>5, <1>6 DEF LoadAgent

(* The same of every step: containers come up in these three ways only.      *)
LEMMA StepWears ==
    ASSUME TypeOK, [Next]_vars
    PROVE Wears \/ \E i \in Instances : Create(i) \/ Start(i) \/ BecomesReady(i)
<1>1. ASSUME NEW t \in AllUnloads \cup AllChecks,
             UnloadCheck(t) \/ UnloadServer(t) \/ UnloadAgent(t) \/ CheckServer(t) \/ CheckAgent(t)
      PROVE Wears
  <2>1. PICK to : pc' = [pc EXCEPT ![t] = to]
    BY <1>1 DEF UnloadCheck, UnloadServer, RequestFails, UnloadMark, UnloadSend, UnloadSendFails, Dispatched,
         UnloadAgent, Receive, Halt, HaltFails, ReportStopped, ArchiveUnloaded, Untrack, CheckServer,
         SweepSend, SweepSendFails, CheckAgent, AskRunning, AskDead, AskFails, ConfirmRunning, Resume, Goto
  <2>2. t \in Tasks /\ Inst(t) \in Instances /\ \A j \in Instances : t # LoadTask(j)
    BY TaskFacts
  <2>3. \A j \in Instances : Advances(j)
    BY <2>1, <2>2, OneMoves, TaskFacts DEF Advances
  <2>4. CASE Halt(t) \/ ArchiveUnloaded(t)
    BY <2>2, <2>3, <2>4, HaltWears, ArchiveWears DEF Halt, ArchiveUnloaded, Wears
  <2>5. CASE \/ UnloadCheck(t) \/ UnloadServer(t) \/ Receive(t) \/ HaltFails(t) \/ ReportStopped(t)
             \/ Untrack(t) \/ CheckServer(t) \/ CheckAgent(t)
    <3>1. UNCHANGED <<container, ready>>
      BY <2>5 DEF UnloadCheck, UnloadServer, RequestFails, UnloadMark, UnloadSend, UnloadSendFails,
         Receive, HaltFails, ReportStopped, Untrack, CheckServer, SweepSend, SweepSendFails, CheckAgent,
         AskRunning, AskDead, AskFails, ConfirmRunning, Resume, agentVars
    <3>2. QED
      BY <2>3, <3>1 DEF Wears, Worn
  <2>6. QED
    BY <1>1, <2>4, <2>5 DEF UnloadAgent
<1>2. ASSUME NEW k \in Conns, SweepList(k) PROVE Wears
  <2>1. \A j \in Instances : pc'[LoadTask(j)] = pc[LoadTask(j)]
    BY <1>2, TaskFacts DEF SweepList, LoadTask, CheckTask
  <2>2. QED
    BY <1>2, <2>1 DEF SweepList, agentVars, Wears, Worn, Advances
<1>3. CASE Drop \/ AgentRestart \/ ServerRestart
  <2>1. \A j \in Instances : pc'[LoadTask(j)] \in {pc[LoadTask(j)], "end"}
    BY <1>3, TaskFacts DEF Drop, AgentRestart, ServerRestart, Lost
  <2>2. QED
    BY <1>3, <2>1 DEF Drop, AgentRestart, ServerRestart, Wears, Worn, Advances
<1>4. ASSUME NEW i \in Instances, EngineExits(i) PROVE Wears
  BY <1>4 DEF EngineExits, Wears, Worn, Advances, TypeOK, AgentTypes
<1>5. CASE \/ \E k \in Conns : SweepFails(k) \/ Handle(k) \/ LoseReports(k)
           \/ \E i \in Instances : HealthDead(i) \/ HealthProbe(i) \/ HealthAlive(i)
           \/ Connect \/ UNCHANGED vars
  <2>1. UNCHANGED <<container, ready, pc>>
    BY <1>5, HandlerMoves DEF SweepFails, LoseReports,
         HealthDead, HealthProbe, HealthAlive, Connect, vars, agentVars
  <2>2. QED
    BY <2>1 DEF Wears, Worn, Advances
<1>6. QED
  BY <1>1, <1>2, <1>3, <1>4, <1>5, LoadWears DEF Next, Sweep

(* The launch stays in order, and what was ready or down stays so.           *)
LEMMA LaunchStep ==
    ASSUME TypeOK, LaunchedOnce, [Next]_vars
    PROVE /\ LaunchedOnce'
          /\ \A i \in Instances : (ready[i] => ready'[i]) /\ (Down(i) => Down(i)')
<1>1. CASE Wears
  <2>1. ASSUME NEW i \in Instances
        PROVE /\ pc'[LoadTask(i)] \in BeforeCreate => container'[i] = "none"
              /\ pc'[LoadTask(i)] \in {"track", "report"} => ready'[i]
              /\ ready'[i] => /\ container'[i] = "running" \/ Down(i)'
                              /\ pc'[LoadTask(i)] \in {"track", "report", "end"}
              /\ Down(i) => Down(i)'
    BY <1>1 DEF Wears, Worn, Advances, LaunchedOnce, BeforeCreate, Down
  <2>2. QED
    BY <1>1, <2>1 DEF Wears, LaunchedOnce
<1>2. ASSUME NEW i \in Instances, Create(i) \/ Start(i) \/ BecomesReady(i)
      PROVE /\ LaunchedOnce'
            /\ \A j \in Instances : (ready[j] => ready'[j]) /\ (Down(j) => Down(j)')
  <2>1. pc[LoadTask(i)] \in {"replace", "start", "ready"}
    BY <1>2 DEF Create, Start, BecomesReady, Goto
  <2>2. ~ready[i] /\ (pc[LoadTask(i)] = "replace" => container[i] = "none")
    BY <2>1 DEF LaunchedOnce, BeforeCreate
  <2>3. PICK to \in {"start", "ready", "track"} : pc' = [pc EXCEPT ![LoadTask(i)] = to]
    BY <1>2 DEF Create, Start, BecomesReady, Goto
  <2>4. \A j \in Instances : pc'[LoadTask(j)] = IF j = i THEN to ELSE pc[LoadTask(j)]
    BY <2>3, OneLoadMoves
  <2>5. \A j \in Instances \ {i} : container'[j] = container[j] /\ ready'[j] = ready[j]
    BY <1>2 DEF Create, Start, BecomesReady, TypeOK, AgentTypes
  <2>6. CASE Create(i)
    <3>1. container'[i] = "created" /\ ready'[i] = ready[i] /\ pc'[LoadTask(i)] = "start" /\ container[i] = "none"
      <4>1. container'[i] = "created" /\ ready'[i] = ready[i] /\ pc[LoadTask(i)] = "replace"
        BY <2>6 DEF Create, Goto, TypeOK, AgentTypes
      <4>2. LoadTask(i) \in Tasks /\ pc' = [pc EXCEPT ![LoadTask(i)] = "start"]
        BY <2>6, TaskFacts DEF Create, Goto
      <4>3. QED
        BY <2>2, <4>1, <4>2, OneMoves
    <3>2. QED
      BY <2>2, <2>4, <2>5, <3>1 DEF LaunchedOnce, BeforeCreate, Down
  <2>7. CASE Start(i)
    <3>1. container'[i] = "running" /\ ready'[i] = ready[i] /\ pc'[LoadTask(i)] = "ready" /\ container[i] = "created"
      <4>1. container'[i] = "running" /\ ready'[i] = ready[i] /\ container[i] = "created"
        BY <2>7 DEF Start, TypeOK, AgentTypes
      <4>2. LoadTask(i) \in Tasks /\ pc' = [pc EXCEPT ![LoadTask(i)] = "ready"]
        BY <2>7, TaskFacts DEF Start, Goto
      <4>3. QED
        BY <4>1, <4>2, OneMoves
    <3>2. QED
      BY <2>2, <2>4, <2>5, <3>1 DEF LaunchedOnce, BeforeCreate, Down
  <2>8. CASE BecomesReady(i)
    <3>1. container'[i] = "running" /\ ready'[i] /\ pc'[LoadTask(i)] = "track" /\ container[i] = "running"
      <4>1. container' = container /\ container[i] = "running"
        BY <2>8 DEF BecomesReady
      <4>2. ready'[i]
        BY <2>8 DEF BecomesReady, TypeOK, AgentTypes
      <4>3. LoadTask(i) \in Tasks /\ pc' = [pc EXCEPT ![LoadTask(i)] = "track"]
        BY <2>8, TaskFacts DEF BecomesReady, Goto
      <4>4. QED
        BY <4>1, <4>2, <4>3, OneMoves
    <3>2. QED
      BY <2>2, <2>4, <2>5, <3>1 DEF LaunchedOnce, BeforeCreate, Down
  <2>9. QED
    BY <1>2, <2>6, <2>7, <2>8
<1>3. QED
  BY <1>1, <1>2, StepWears

(* Where a row's new status comes from: the load that creates it, a failure, *)
(* an unload, or a report.                                                   *)
StatusFrom(i) ==
    \/ status'[i] = status[i]
    \/ status'[i] = "starting" /\ pc[LoadTask(i)] = "checked"
    \/ status'[i] = "failed"
    \/ status'[i] \in {"running", "stopping"} /\ \E t \in AllUnloads : Inst(t) = i /\ pc[t] # "idle"
    \/ /\ status'[i] \in {"running", "stopped"}
       /\ \E k \in Conns : \E m \in Range(inbox[k]) : m.inst = i /\ m.type = status'[i]

(* Where a row's status comes from in any step: the request that writes it,  *)
(* or a message that was in an inbox.                                        *)
LEMMA StatusStep ==
    ASSUME TypeOK, [Next]_vars
    PROVE \A i \in Instances : StatusFrom(i)
<1> USE DEF serverVars, alertVars
<1>0. status \in [Instances -> Statuses] /\ NetTypes
  BY DEF TypeOK, ServerTypes
<1>1. ASSUME NEW i \in Instances, LoadCreate(i) \/ LoadSendFails(i) PROVE \A j \in Instances : StatusFrom(j)
  BY <1>0, <1>1 DEF LoadCreate, LoadSendFails, SetStatus, TrySetStatus, Goto, StatusFrom
<1>2. ASSUME NEW t \in AllUnloads, UnloadMark(t) \/ UnloadSendFails(t)
      PROVE \A j \in Instances : StatusFrom(j)
  <2>1. pc[t] # "idle"
    BY <1>2 DEF UnloadMark, UnloadSendFails, Goto
  <2>2. status' = status \/ \E s \in {"running", "stopping"} : status' = [status EXCEPT ![Inst(t)] = s]
    BY <1>2 DEF UnloadMark, UnloadSendFails, SetStatus, TrySetStatus
  <2>3. QED
    BY <1>0, <2>1, <2>2 DEF StatusFrom
<1>3. ASSUME NEW k \in Conns, HandleInstanceResult(k) PROVE \A j \in Instances : StatusFrom(j)
  <2> DEFINE m == Head(inbox[k])
  <2>1. m \in Range(inbox[k])
    BY <1>0, <1>3, ReadReport DEF HandleInstanceResult, Takes
  <2>2. m.type \in {"running", "stopped", "failed"} /\ status' = [status EXCEPT ![m.inst] = m.type]
    BY <1>3 DEF HandleInstanceResult, Takes, Terminal, SetStatus
  <2> HIDE DEF m
  <2>3. QED
    BY <1>0, <2>1, <2>2 DEF StatusFrom
<1>4. ASSUME NEW i \in Instances, LoadCheck(i) \/ LoadServer(i) \/ LoadAgent(i)
      PROVE \A j \in Instances : StatusFrom(j)
  <2>1. CASE LoadCheck(i) \/ RequestFails(LoadTask(i)) \/ LoadSend(i) \/ LoadAgent(i)
    <3>1. status' = status
      BY <2>1 DEF LoadCheck, RequestFails, LoadSend, LoadAgent, Receive, ResolveFails, ReplaceList,
         ReplaceArchive, ReplaceSkip, ReplaceHalt, Create, CreateFails, Start, StartFails, BecomesReady,
         NeverReady, TrackActive, ReportRunning, ReportFailed, HaltFailedLaunch, HaltFailedLaunchFails,
         ArchiveFailedLaunch
    <3>2. QED
      BY <3>1 DEF StatusFrom
  <2>2. QED
    BY <1>1, <1>4, <2>1 DEF LoadServer
<1>5. ASSUME NEW t \in AllUnloads, UnloadCheck(t) \/ UnloadServer(t) \/ UnloadAgent(t)
      PROVE \A j \in Instances : StatusFrom(j)
  <2>1. CASE UnloadCheck(t) \/ RequestFails(t) \/ UnloadSend(t) \/ UnloadAgent(t)
    <3>1. status' = status
      BY <2>1 DEF UnloadCheck, RequestFails, UnloadSend, UnloadAgent, Receive, Halt, HaltFails, ReportStopped,
         ArchiveUnloaded, Untrack
    <3>2. QED
      BY <3>1 DEF StatusFrom
  <2>2. QED
    BY <1>2, <1>5, <2>1 DEF UnloadServer
<1>6. CASE \/ \E t \in AllChecks : CheckServer(t) \/ CheckAgent(t)
           \/ \E k \in Conns : \/ Sweep(k) \/ HandleAlive(k) \/ HandleDead(k) \/ UpdateDead(k) \/ RaiseDeadAlert(k)
                                \/ ResolveDeadAlert(k) \/ HandlerFails(k) \/ ReportDropped(k) \/ LoseReports(k)
           \/ \E i \in Instances : HealthDead(i) \/ HealthProbe(i) \/ HealthAlive(i) \/ EngineExits(i)
           \/ Connect \/ Drop \/ AgentRestart \/ ServerRestart \/ UNCHANGED vars
  <2>1. status' = status
    BY <1>6 DEF CheckServer, SweepSend, SweepSendFails, CheckAgent, Receive, AskRunning, AskDead, AskFails,
         ConfirmRunning, Resume, Sweep, SweepList, SweepFails, HandleAlive, HandleDead, UpdateDead,
         RaiseDeadAlert, ResolveDeadAlert, HandlerFails, ReportDropped,
         LoseReports, HealthDead, HealthProbe, HealthAlive, EngineExits, Connect, Drop, AgentRestart,
         ServerRestart, vars
  <2>2. QED
    BY <2>1 DEF StatusFrom
<1>7. QED
  BY <1>3, <1>4, <1>5, <1>6 DEF Next, Handle

(* How an instance comes to be tracked, and a task to be under way.          *)
LEMMA ServedStep ==
    ASSUME TypeOK, [Next]_vars
    PROVE /\ \A i \in active' : \/ i \in active \/ (i \in Instances /\ pc[LoadTask(i)] = "track")
                                \/ \E t \in AllChecks : Inst(t) = i /\ pc[t] # "idle"
          /\ \A t \in AllUnloads \cup AllChecks :
                pc'[t] # "idle" => pc[t] # "idle" \/ status[Inst(t)] = "running"
          /\ \A t \in AllUnloads : pc'[t] = "report" => pc[t] = "report" \/ Halt(t)
<1> USE DEF agentVars
<1>0. \A t \in AllUnloads \cup AllChecks : t \in Tasks /\ \A i \in Instances : t # LoadTask(i)
  BY TaskFacts
<1>a. AllUnloads \cap AllChecks = {}
  BY TaskFacts
<1>1. ASSUME NEW i \in Instances, LoadCheck(i) \/ LoadServer(i) \/ LoadAgent(i)
      PROVE /\ \A j \in active' : j \in active \/ (j = i /\ pc[LoadTask(j)] = "track")
            /\ \A t \in AllUnloads \cup AllChecks : pc'[t] = pc[t]
  <2>1. pc' = pc \/ \E to : pc' = [pc EXCEPT ![LoadTask(i)] = to]
    BY <1>1, LoadMoves DEF MovesFrom
  <2>2. \A t \in AllUnloads \cup AllChecks : pc'[t] = pc[t]
    BY <1>0, <2>1, OneMoves, TaskFacts
  <2>3. CASE TrackActive(i)
    BY <2>2, <2>3 DEF TrackActive, Goto
  <2>4. CASE ~TrackActive(i)
    <3>1. active' = active
      BY <1>1, <2>4 DEF LoadCheck, LoadServer, RequestFails, LoadCreate, LoadSend, LoadSendFails, LoadAgent,
         Receive, ResolveFails, ReplaceList, ReplaceArchive, ReplaceSkip, ReplaceHalt, Create, CreateFails,
         Start, StartFails, BecomesReady, NeverReady, ReportRunning, ReportFailed, HaltFailedLaunch,
         HaltFailedLaunchFails, ArchiveFailedLaunch
    <3>2. QED
      BY <2>2, <3>1
  <2>5. QED
    BY <2>3, <2>4
<1>2. ASSUME NEW t \in AllUnloads, UnloadCheck(t) \/ UnloadServer(t) \/ UnloadAgent(t)
      PROVE /\ active' \subseteq active
            /\ \A u \in AllUnloads \cup AllChecks : u = t \/ pc'[u] = pc[u]
            /\ pc[t] # "idle" \/ status[Inst(t)] = "running"
            /\ pc'[t] = "report" => Halt(t)
  <2>1. PICK to : pc' = [pc EXCEPT ![t] = to]
    BY <1>2, UnloadMoves DEF MovesFrom
  <2>2. \A u \in AllUnloads \cup AllChecks : u = t \/ pc'[u] = pc[u]
    BY <1>0, <2>1, OneMoves
  <2>3. active' \subseteq active
    BY <1>2 DEF UnloadCheck, UnloadServer, RequestFails, UnloadMark, UnloadSend, UnloadSendFails, UnloadAgent,
         Receive, Halt, HaltFails, ReportStopped, ArchiveUnloaded, Untrack
  <2>4. pc[t] # "idle" \/ status[Inst(t)] = "running"
    BY <1>2 DEF UnloadCheck, UnloadServer, RequestFails, UnloadMark, UnloadSend, UnloadSendFails, Dispatched,
         UnloadAgent, Receive, Halt, HaltFails, ReportStopped, ArchiveUnloaded, Untrack, Goto
  <2>5. CASE ~Halt(t)
    <3>1. t \in Tasks /\ t[1] = "unload"
      BY TaskFacts
    <3>2. \E s \in PCs \ {"report"} : pc' = [pc EXCEPT ![t] = s]
      BY <1>2, <2>5, <3>1 DEF UnloadCheck, UnloadServer, RequestFails, UnloadMark, UnloadSend, UnloadSendFails,
         Dispatched, UnloadAgent, Receive, HaltFails, ReportStopped, ArchiveUnloaded, Untrack, Goto, PCs,
         ServerPCs, AgentPCs
    <3>3. pc'[t] # "report"
      BY <3>1, <3>2, OneMoves
    <3>4. QED
      BY <2>2, <2>3, <2>4, <3>3
  <2>6. QED
    BY <2>2, <2>3, <2>4, <2>5
<1>3. ASSUME NEW t \in AllChecks, CheckServer(t) \/ CheckAgent(t)
      PROVE /\ active' \subseteq active \cup {Inst(t)}
            /\ \A u \in AllUnloads \cup AllChecks : u = t \/ pc'[u] = pc[u]
            /\ pc[t] # "idle"
  <2>1. PICK to : pc' = [pc EXCEPT ![t] = to]
    BY <1>3, CheckMoves DEF MovesFrom
  <2>2. \A u \in AllUnloads \cup AllChecks : u = t \/ pc'[u] = pc[u]
    BY <1>0, <2>1, OneMoves
  <2>3. active' \subseteq active \cup {Inst(t)}
    BY <1>3 DEF CheckServer, SweepSend, SweepSendFails, CheckAgent, Receive, AskRunning, AskDead, AskFails,
         ConfirmRunning, Resume
  <2>4. pc[t] # "idle"
    BY <1>3 DEF CheckServer, SweepSend, SweepSendFails, Dispatched, CheckAgent, Receive, AskRunning, AskDead,
         AskFails, ConfirmRunning, Resume, Goto
  <2>5. QED
    BY <2>2, <2>3, <2>4
<1>4. ASSUME NEW k \in Conns, SweepList(k)
      PROVE /\ active' = active
            /\ \A u \in AllUnloads : pc'[u] = pc[u]
            /\ \A u \in AllChecks : pc'[u] = pc[u] \/ status[Inst(u)] = "running"
  <2>1. \A u \in AllUnloads : pc'[u] = pc[u]
    BY <1>0, <1>4, TaskFacts DEF SweepList, CheckTask
  <2>2. \A u \in AllChecks : pc'[u] = pc[u] \/ status[Inst(u)] = "running"
    BY <1>0, <1>4 DEF SweepList, CheckTask, Inst
  <2>3. QED
    BY <1>4, <2>1, <2>2 DEF SweepList
<1>5. CASE Drop \/ AgentRestart \/ ServerRestart
  <2>1. \A u \in Tasks : pc'[u] \in {pc[u], "end"} /\ (pc'[u] = "end" => pc[u] # "idle")
    BY <1>5 DEF Drop, AgentRestart, ServerRestart, Lost, ServerPCs, AgentPCs
  <2>2. active' \subseteq active
    BY <1>5 DEF Drop, AgentRestart, ServerRestart
  <2>3. QED
    BY <1>0, <2>1, <2>2
<1>6. CASE \/ \E k \in Conns : SweepFails(k) \/ Handle(k) \/ LoseReports(k)
           \/ \E i \in Instances : HealthDead(i) \/ HealthProbe(i) \/ HealthAlive(i) \/ EngineExits(i)
           \/ Connect \/ UNCHANGED vars
  <2>1. UNCHANGED <<active, pc>>
    BY <1>6, HandlerMoves DEF SweepFails, LoseReports,
         HealthDead, HealthProbe, HealthAlive, EngineExits, Connect, vars
  <2>2. QED
    BY <2>1
<1>7. QED
  BY <1>a, <1>1, <1>2, <1>3, <1>4, <1>5, <1>6 DEF Next, Sweep

(* Where a report comes from.                                                *)
Grounds(m) ==
    \/ m.type \in {"failed", "alive"}
    \/ m.type = "running" /\ pc[LoadTask(m.inst)] = "report"
    \/ m.type = "running" /\ \E t \in AllChecks : Inst(t) = m.inst /\ pc[t] # "idle"
    \/ m.type = "stopped" /\ \E t \in AllUnloads : Inst(t) = m.inst /\ pc[t] = "report"
    \/ /\ m.type = "dead" /\ container[m.inst] # "running"
       /\ m.inst \in active \/ \E t \in AllChecks : Inst(t) = m.inst /\ pc[t] # "idle"

(* Every report that a step leaves unread was there before, or is about an   *)
(* instance and has its grounds.                                             *)
InboxFrom ==
    \A k \in Conns : \A m \in Range(inbox'[k]) :
        m \in Range(inbox[k]) \/ (m.inst \in Instances /\ Grounds(m))

(* No step reports anything without grounds.                                 *)
LEMMA InboxStep ==
    ASSUME TypeOK, [Next]_vars
    PROVE InboxFrom
<1> USE DEF netVars
<1>0. NetTypes
  BY DEF TypeOK
<1>1. ASSUME NEW i \in Instances, LoadCheck(i) \/ LoadServer(i) \/ LoadAgent(i) PROVE InboxFrom
  <2>0. LoadTask(i) \in Tasks /\ Inst(LoadTask(i)) = i
    BY TaskFacts
  <2>1. CASE ReportRunning(i)
    <3>1. Say(LoadTask(i), "running") /\ pc[LoadTask(i)] = "report"
      BY <2>1 DEF ReportRunning, Goto
    <3>2. \A k \in Conns : \A m \in Range(inbox'[k]) : m \in Range(inbox[k]) \/ (m.type = "running" /\ m.inst = i)
      BY <1>0, <2>0, <3>1, SayAdds
    <3>3. QED
      BY <3>1, <3>2 DEF InboxFrom, Grounds
  <2>2. CASE ResolveFails(i) \/ ReportFailed(i)
    <3>1. Say(LoadTask(i), "failed")
      BY <2>2 DEF ResolveFails, ReportFailed
    <3>2. \A k \in Conns : \A m \in Range(inbox'[k]) : m \in Range(inbox[k]) \/ (m.type = "failed" /\ m.inst = i)
      BY <1>0, <2>0, <3>1, SayAdds
    <3>3. QED
      BY <3>2 DEF InboxFrom, Grounds
  <2>3. CASE \/ LoadCheck(i) \/ LoadServer(i) \/ Receive(LoadTask(i)) \/ ReplaceList(i)
             \/ (\E j \in Instances : ReplaceSkip(i, j) \/ ReplaceHalt(i, j))
             \/ ReplaceArchive(i) \/ Create(i) \/ CreateFails(i) \/ Start(i) \/ StartFails(i)
             \/ BecomesReady(i) \/ NeverReady(i) \/ TrackActive(i)
             \/ HaltFailedLaunch(i) \/ HaltFailedLaunchFails(i) \/ ArchiveFailedLaunch(i)
    <3>1. inbox' = inbox
      BY <2>3 DEF LoadCheck, LoadServer, RequestFails, LoadCreate, LoadSend, LoadSendFails, Receive,
         ReplaceList, ReplaceSkip, ReplaceHalt, ReplaceArchive, Create, CreateFails, Start, StartFails,
         BecomesReady, NeverReady, TrackActive, HaltFailedLaunch, HaltFailedLaunchFails,
         ArchiveFailedLaunch
    <3>2. QED
      BY <3>1 DEF InboxFrom
  <2>4. QED
    BY <1>1, <2>1, <2>2, <2>3 DEF LoadAgent
<1>2. ASSUME NEW t \in AllUnloads, UnloadCheck(t) \/ UnloadServer(t) \/ UnloadAgent(t) PROVE InboxFrom
  <2>0. t \in Tasks /\ Inst(t) \in Instances
    BY TaskFacts
  <2>1. CASE HaltFails(t)
    <3>1. \A k \in Conns : \A m \in Range(inbox'[k]) : m \in Range(inbox[k]) \/ (m.type = "failed" /\ m.inst = Inst(t))
      BY <1>0, <2>0, <2>1, SayAdds DEF HaltFails
    <3>2. QED
      BY <2>0, <3>1 DEF InboxFrom, Grounds
  <2>2. CASE ReportStopped(t)
    <3>1. Say(t, "stopped") /\ pc[t] = "report"
      BY <2>2 DEF ReportStopped, Goto
    <3>2. \A k \in Conns : \A m \in Range(inbox'[k]) : m \in Range(inbox[k]) \/ (m.type = "stopped" /\ m.inst = Inst(t))
      BY <1>0, <2>0, <3>1, SayAdds
    <3>3. QED
      BY <2>0, <3>1, <3>2 DEF InboxFrom, Grounds
  <2>3. CASE UnloadCheck(t) \/ UnloadServer(t) \/ Receive(t) \/ Halt(t) \/ ArchiveUnloaded(t) \/ Untrack(t)
    <3>1. inbox' = inbox
      BY <2>3 DEF UnloadCheck, UnloadServer, RequestFails, UnloadMark, UnloadSend, UnloadSendFails,
         Receive, Halt, ArchiveUnloaded, Untrack
    <3>2. QED
      BY <3>1 DEF InboxFrom
  <2>4. QED
    BY <1>2, <2>1, <2>2, <2>3 DEF UnloadAgent
<1>3. ASSUME NEW t \in AllChecks, CheckServer(t) \/ CheckAgent(t) PROVE InboxFrom
  <2>0. t \in Tasks /\ Inst(t) \in Instances
    BY TaskFacts
  <2>1. CASE AskDead(t)
    <3>1. Say(t, "dead") /\ pc[t] # "idle" /\ container[Inst(t)] # "running"
      BY <2>1 DEF AskDead, Goto
    <3>2. \A k \in Conns : \A m \in Range(inbox'[k]) : m \in Range(inbox[k]) \/ (m.type = "dead" /\ m.inst = Inst(t))
      BY <1>0, <2>0, <3>1, SayAdds
    <3>3. QED
      BY <2>0, <3>1, <3>2 DEF InboxFrom, Grounds
  <2>2. CASE ConfirmRunning(t)
    <3>1. Say(t, "running") /\ pc[t] # "idle"
      BY <2>2 DEF ConfirmRunning, Goto
    <3>2. \A k \in Conns : \A m \in Range(inbox'[k]) : m \in Range(inbox[k]) \/ (m.type = "running" /\ m.inst = Inst(t))
      BY <1>0, <2>0, <3>1, SayAdds
    <3>3. QED
      BY <2>0, <3>1, <3>2 DEF InboxFrom, Grounds
  <2>3. CASE CheckServer(t) \/ Receive(t) \/ AskRunning(t) \/ AskFails(t) \/ Resume(t)
    <3>1. inbox' = inbox
      BY <2>3 DEF CheckServer, SweepSend, SweepSendFails, Receive, AskRunning, AskFails, Resume
    <3>2. QED
      BY <3>1 DEF InboxFrom
  <2>4. QED
    BY <1>3, <2>1, <2>2, <2>3 DEF CheckAgent
<1>4. ASSUME NEW k \in Conns, Handle(k) PROVE InboxFrom
  <2>1. CASE inbox[k] # <<>> /\ inbox' = [inbox EXCEPT ![k] = Tail(inbox[k])]
    <3>1. Range(Tail(inbox[k])) \subseteq Range(inbox[k])
      BY <1>0, <2>1, ReadReport
    <3>2. \A j \in Conns : inbox'[j] = IF j = k THEN Tail(inbox[k]) ELSE inbox[j]
      BY <1>0, <2>1 DEF NetTypes
    <3>3. QED
      BY <3>1, <3>2 DEF InboxFrom
  <2>2. CASE inbox' = inbox
    BY <2>2 DEF InboxFrom
  <2>3. QED
    BY <1>4, <2>1, <2>2, HandlerMoves
<1>5. ASSUME NEW i \in Instances, HealthDead(i) PROVE InboxFrom
  <2>1. inbox' = Reported("dead", i) /\ i \in active /\ container[i] # "running"
    BY <1>5 DEF HealthDead, Reported
  <2>2. \A k \in Conns : \A m \in Range(inbox'[k]) : m \in Range(inbox[k]) \/ (m.type = "dead" /\ m.inst = i)
    BY <1>0, <2>1, ReportAdds
  <2>3. QED
    BY <2>1, <2>2 DEF InboxFrom, Grounds
<1>6. ASSUME NEW i \in Instances, HealthAlive(i) PROVE InboxFrom
  <2>1. inbox' = Reported("alive", i)
    BY <1>6 DEF HealthAlive, Reported
  <2>2. \A k \in Conns : \A m \in Range(inbox'[k]) : m \in Range(inbox[k]) \/ (m.type = "alive" /\ m.inst = i)
    BY <1>0, <2>1, ReportAdds
  <2>3. QED
    BY <2>2 DEF InboxFrom, Grounds
<1>7. CASE ServerRestart \/ \E k \in Conns : LoseReports(k)
  <2>1. \A j \in Conns : inbox'[j] \in {<<>>, inbox[j]}
    BY <1>0, <1>7 DEF ServerRestart, LoseReports, NetTypes
  <2>2. QED
    BY <2>1, EmptyRange DEF InboxFrom
<1>8. CASE \/ \E k \in Conns : Sweep(k)
           \/ \E i \in Instances : HealthProbe(i) \/ EngineExits(i)
           \/ Connect \/ Drop \/ AgentRestart \/ UNCHANGED vars
  <2>1. inbox' = inbox
    BY <1>8 DEF Sweep, SweepList, SweepFails, HealthProbe, EngineExits, Connect, Drop, AgentRestart, vars
  <2>2. QED
    BY <2>1 DEF InboxFrom
<1>9. QED
  BY <1>1, <1>2, <1>3, <1>4, <1>5, <1>6, <1>7, <1>8 DEF Next

(* An instance that was ready does not start again.                          *)
LEMMA NeverStartsAgain ==
    ASSUME TypeOK, LaunchedOnce, [Next]_vars, NEW i \in Instances, ready[i], status[i] # "starting"
    PROVE status'[i] # "starting"
<1>1. pc[LoadTask(i)] # "checked"
  BY DEF LaunchedOnce
<1>2. QED
  BY <1>1, StatusStep DEF StatusFrom

(* Only what was ready is served.                                            *)
LEMMA OnlyReadyServedStep == IInv /\ [Next]_vars => OnlyReadyServed'
<1> SUFFICES ASSUME IInv, [Next]_vars PROVE OnlyReadyServed'
  OBVIOUS
<1> USE DEF IInv
<1>1. \A i \in Instances : ready[i] => ready'[i]
  BY LaunchStep
<1>2. ASSUME NEW i \in active' PROVE ready'[i]
  <2>1. i \in Instances
    BY TypeStep DEF TypeOK, AgentTypes
  <2>2. ready[i]
    BY ServedStep, <1>2 DEF OnlyReadyServed, LaunchedOnce
  <2>3. QED
    BY <1>1, <2>1, <2>2
<1>3. ASSUME NEW t \in AllUnloads \cup AllChecks, pc'[t] # "idle" PROVE ready'[Inst(t)]
  <2>1. Inst(t) \in Instances
    BY TaskFacts
  <2>2. ready[Inst(t)]
    BY ServedStep, <1>3, <2>1 DEF OnlyReadyServed, RunningWasReady
  <2>3. QED
    BY <1>1, <2>1, <2>2
<1>4. QED
  BY <1>2, <1>3 DEF OnlyReadyServed

(* An unload finds its row past starting, and stops its engine.              *)
LEMMA UnloadsStep == IInv /\ [Next]_vars => UnloadsTrue'
<1> SUFFICES ASSUME IInv, [Next]_vars, NEW t \in AllUnloads
             PROVE /\ pc'[t] # "idle" => status'[Inst(t)] # "starting"
                   /\ pc'[t] = "report" => Down(Inst(t))'
  BY DEF UnloadsTrue
<1> USE DEF IInv
<1>1. Inst(t) \in Instances
  BY TaskFacts
<1>2. ASSUME pc'[t] # "idle" PROVE status'[Inst(t)] # "starting"
  <2>1. pc[t] # "idle" \/ status[Inst(t)] = "running"
    BY <1>2, ServedStep
  <2>2. ready[Inst(t)] /\ status[Inst(t)] # "starting"
    BY <1>1, <2>1 DEF OnlyReadyServed, RunningWasReady, UnloadsTrue
  <2>3. QED
    BY <1>1, <2>2, NeverStartsAgain
<1>3. ASSUME pc'[t] = "report" PROVE Down(Inst(t))'
  <2>1. CASE pc[t] = "report"
    BY <1>1, <2>1, LaunchStep DEF UnloadsTrue
  <2>2. CASE Halt(t)
    <3>1. ready[Inst(t)]
      BY <2>2 DEF Halt, Goto, OnlyReadyServed
    <3>2. container[Inst(t)] = "running" \/ Down(Inst(t))
      BY <1>1, <3>1 DEF LaunchedOnce
    <3>3. QED
      BY <1>1, <2>2, <3>2 DEF Halt, Halted, Down, TypeOK, AgentTypes
  <2>3. QED
    BY <1>3, <2>1, <2>2, ServedStep
<1>4. QED
  BY <1>2, <1>3

(* A report is true when it is made, and stays so until it is read.          *)
LEMMA ReportsStep == IInv /\ [Next]_vars => ReportsTrue'
<1> SUFFICES ASSUME IInv, [Next]_vars, NEW k \in Conns, NEW m \in Range(inbox'[k])
             PROVE TrueReport(m)'
  BY DEF ReportsTrue
<1> USE DEF IInv
<1>1. m \in Range(inbox[k]) \/ (m.inst \in Instances /\ Grounds(m))
  BY InboxStep DEF InboxFrom
<1>2. m.inst \in Instances
  <2>1. m \in Report
    BY TypeStep, RangeType DEF TypeOK, NetTypes
  <2>2. QED
    BY <2>1 DEF Report
<1>3. TrueReport(m)
  <2>1. CASE m \in Range(inbox[k])
    BY <2>1 DEF ReportsTrue
  <2>2. CASE Grounds(m)
    BY <1>2, <2>2 DEF Grounds, TrueReport, LaunchedOnce, OnlyReadyServed, UnloadsTrue
  <2>3. QED
    BY <1>1, <2>1, <2>2
<1>4. (ready[m.inst] => ready'[m.inst]) /\ (Down(m.inst) => Down(m.inst)')
  BY <1>2, LaunchStep
<1>5. ready[m.inst] /\ status[m.inst] # "starting" => status'[m.inst] # "starting"
  BY <1>2, NeverStartsAgain
<1>6. QED
  BY <1>3, <1>4, <1>5 DEF TrueReport

(* The rows say only what the reports said.                                  *)
LEMMA RowsStep ==
    ASSUME IInv, [Next]_vars
    PROVE RunningWasReady' /\ StoppedIsDown'
<1> USE DEF IInv
<1>0. \A i \in Instances : (ready[i] => ready'[i]) /\ (Down(i) => Down(i)')
  BY LaunchStep
<1>1. RunningWasReady'
  <2> SUFFICES ASSUME NEW i \in Instances, status'[i] \in {"running", "stopping"} PROVE ready'[i]
    BY DEF RunningWasReady
  <2>1. ready[i]
    BY StatusStep DEF StatusFrom, RunningWasReady, OnlyReadyServed, ReportsTrue, TrueReport
  <2>2. QED
    BY <1>0, <2>1
<1>2. StoppedIsDown'
  <2> SUFFICES ASSUME NEW i \in Instances, status'[i] = "stopped" PROVE Down(i)'
    BY DEF StoppedIsDown, Down
  <2>1. Down(i)
    BY StatusStep DEF StatusFrom, StoppedIsDown, ReportsTrue, TrueReport, Down
  <2>2. QED
    BY <1>0, <2>1
<1>3. QED
  BY <1>1, <1>2

(* Steps of anything but a handler and a crash leave the alerts alone.       *)
LEMMA AlertsAlone ==
    ASSUME [Next]_vars, \A k \in Conns : ~Handle(k), ~ServerRestart
    PROVE UNCHANGED alertVars
<1> USE DEF serverVars
<1>1. CASE \E i \in Instances : LoadCheck(i) \/ LoadServer(i) \/ LoadAgent(i)
  BY <1>1 DEF LoadCheck, LoadServer, RequestFails, LoadCreate, LoadSend, LoadSendFails, LoadAgent,
     Receive, ResolveFails, ReplaceList, ReplaceArchive, ReplaceSkip, ReplaceHalt, Create, CreateFails,
     Start, StartFails, BecomesReady, NeverReady, TrackActive, ReportRunning, ReportFailed,
     HaltFailedLaunch, HaltFailedLaunchFails, ArchiveFailedLaunch
<1>2. CASE \/ \E t \in AllUnloads : UnloadCheck(t) \/ UnloadServer(t) \/ UnloadAgent(t)
           \/ \E t \in AllChecks : CheckServer(t) \/ CheckAgent(t)
  BY <1>2 DEF UnloadCheck, UnloadServer, RequestFails, UnloadMark, UnloadSend, UnloadSendFails,
     UnloadAgent, Receive, Halt, HaltFails, ReportStopped, ArchiveUnloaded, Untrack, CheckServer,
     SweepSend, SweepSendFails, CheckAgent, AskRunning, AskDead, AskFails, ConfirmRunning, Resume
<1>3. CASE \/ \E k \in Conns : Sweep(k) \/ LoseReports(k)
           \/ \E i \in Instances : HealthDead(i) \/ HealthProbe(i) \/ HealthAlive(i) \/ EngineExits(i)
           \/ Connect \/ Drop \/ AgentRestart \/ UNCHANGED vars
  BY <1>3 DEF Sweep, SweepList, SweepFails, LoseReports, HealthDead, HealthProbe,
     HealthAlive, EngineExits, Connect, Drop, AgentRestart, vars
<1>4. QED
  BY <1>1, <1>2, <1>3 DEF Next

Resolving(k, i) == handling[k] = [step |-> "resolve", inst |-> i]

(* Only a handler that is about to says that an instance is dead.            *)
LEMMA HandlersStep == IInv /\ [Next]_vars => HandlersTrue' /\ DeadIsDown'
<1> SUFFICES ASSUME IInv, [Next]_vars PROVE HandlersTrue' /\ DeadIsDown'
  OBVIOUS
<1>0. /\ handling \in [Conns -> Handlers] /\ health \in [Instances -> {"unknown", "alive", "dead"}]
      /\ NetTypes /\ HandlersTrue /\ DeadIsDown /\ ReportsTrue
  BY DEF IInv, TypeOK, ServerTypes
<1>1. \A i \in Instances : Down(i) => Down(i)'
  BY LaunchStep DEF IInv
<1>2. \A k \in Conns : handling[k].step \in {"known", "new"} => handling[k].inst \in Instances
  BY <1>0 DEF Handlers, Idle
<1>3. ASSUME NEW f, NEW g,
             \A k \in Conns : f[k] = handling[k] \/ f[k].step \notin {"known", "new"}
                               \/ (f[k].inst \in Instances /\ Down(f[k].inst)),
             \A i \in Instances : g[i] = "dead" => health[i] = "dead" \/ Down(i),
             handling' = f, health' = g
      PROVE HandlersTrue' /\ DeadIsDown'
  <2>1. ASSUME NEW k \in Conns, f[k].step \in {"known", "new"} PROVE Down(f[k].inst)'
    BY <1>0, <1>1, <1>2, <1>3, <2>1 DEF HandlersTrue
  <2>2. ASSUME NEW i \in Instances, g[i] = "dead" PROVE Down(i)'
    BY <1>0, <1>1, <1>3, <2>2 DEF DeadIsDown, Down
  <2>3. QED
    BY <1>3, <2>1, <2>2 DEF HandlersTrue, DeadIsDown, Down
<1>4. ASSUME NEW k \in Conns, HandleInstanceResult(k) \/ HandleAlive(k) \/ HandleDead(k) PROVE HandlersTrue' /\ DeadIsDown'
  <2> DEFINE m == Head(inbox[k])
  <2>1. m.inst \in Instances /\ TrueReport(m)
    BY <1>0, <1>4, ReadReport DEF HandleInstanceResult, HandleAlive, HandleDead, Takes, ReportsTrue
  <2>2. \/ handling' = handling
        \/ handling' = [handling EXCEPT ![k] = [step |-> "resolve", inst |-> m.inst]]
        \/ /\ m.type = "dead"
           /\ \E step \in {"known", "new"} : handling' = [handling EXCEPT ![k] = [step |-> step, inst |-> m.inst]]
    BY <1>4 DEF HandleInstanceResult, HandleAlive, HandleDead, Takes, Handler
  <2>3. health' = health \/ health' = [health EXCEPT ![m.inst] = "alive"]
    BY <1>4 DEF HandleInstanceResult, HandleAlive, HandleDead
  <2>4. m.type = "dead" => Down(m.inst)
    BY <2>1 DEF TrueReport
  <2> HIDE DEF m
  <2>5. \A l \in Conns : \/ handling'[l] = handling[l] \/ handling'[l].step \notin {"known", "new"}
                          \/ (handling'[l].inst \in Instances /\ Down(handling'[l].inst))
    BY <1>0, <2>1, <2>2, <2>4
  <2>6. \A i \in Instances : health'[i] = "dead" => health[i] = "dead"
    BY <1>0, <2>1, <2>3
  <2>7. QED
    BY <1>3, <2>5, <2>6
<1>5. ASSUME NEW k \in Conns, UpdateDead(k) \/ RaiseDeadAlert(k) \/ ResolveDeadAlert(k) \/ HandlerFails(k)
      PROVE HandlersTrue' /\ DeadIsDown'
  <2>1. handling' = [handling EXCEPT ![k] = Idle] \/ handling' = [handling EXCEPT ![k] = [step |-> "raise", inst |-> handling[k].inst]]
    BY <1>5 DEF UpdateDead, RaiseDeadAlert, ResolveDeadAlert, HandlerFails, Handler, Done
  <2>2. \A l \in Conns : handling'[l] = handling[l] \/ handling'[l].step \notin {"known", "new"}
    BY <1>0, <2>1 DEF Idle
  <2>3. \/ health' = health
        \/ handling[k].step \in {"known", "new"} /\ health' = [health EXCEPT ![handling[k].inst] = "dead"]
    BY <1>5 DEF UpdateDead, RaiseDeadAlert, ResolveDeadAlert, HandlerFails
  <2>4. \A i \in Instances : health'[i] = "dead" => health[i] = "dead" \/ Down(i)
    BY <1>0, <2>3 DEF HandlersTrue
  <2>5. QED
    BY <1>3, <2>2, <2>4
<1>6. CASE ServerRestart
  <2>1. (\A k \in Conns : handling'[k].step = "idle") /\ health' = health
    BY <1>6 DEF ServerRestart, Idle
  <2>2. QED
    BY <1>3, <2>1
<1>7. ASSUME handling' = handling, health' = health PROVE HandlersTrue' /\ DeadIsDown'
  BY <1>3, <1>7
<1>8. ASSUME NEW k \in Conns, ReportDropped(k) PROVE HandlersTrue' /\ DeadIsDown'
  BY <1>7, <1>8 DEF ReportDropped, serverVars, alertVars
<1>9. QED
  BY <1>4, <1>5, <1>6, <1>7, <1>8, AlertsAlone DEF Handle, alertVars

(* A handler raises an alert about an instance it has written dead, unless   *)
(* it was overtaken.                                                         *)
LEMMA RaisesStep == IInv /\ [Next]_vars => RaisesTrue'
<1> SUFFICES ASSUME IInv, [Next]_vars PROVE RaisesTrue'
  OBVIOUS
<1>0. /\ handling \in [Conns -> Handlers] /\ health \in [Instances -> {"unknown", "alive", "dead"}]
      /\ NetTypes /\ RaisesTrue
  BY DEF IInv, TypeOK, ServerTypes
<1>1. \A k \in Conns : handling[k].step # "idle" => handling[k].inst \in Instances
  BY <1>0 DEF Handlers, Idle
<1>2. ASSUME NEW k \in Conns, HandleAlive(k) PROVE RaisesTrue'
  <2> DEFINE i == Head(inbox[k]).inst
  <2>1. i \in Instances
    BY <1>0, <1>2, ReadReport DEF HandleAlive, Takes
  <2>2. /\ health' = [health EXCEPT ![i] = "alive"]
        /\ handling' = [handling EXCEPT ![k] = [step |-> "resolve", inst |-> i]]
        /\ overtaken' = overtaken \cup {l \in Conns : handling[l] = [step |-> "raise", inst |-> i]}
    BY <1>2 DEF HandleAlive, Handler
  <2> HIDE DEF i
  <2> SUFFICES ASSUME NEW l \in Conns, handling'[l].step = "raise"
               PROVE health'[handling'[l].inst] = "dead" \/ l \in overtaken'
    BY DEF RaisesTrue
  <2>3. l # k /\ handling'[l] = handling[l]
    BY <1>0, <2>2
  <2>4. CASE handling[l].inst = i
    <3>1. handling[l] = [step |-> "raise", inst |-> i]
      BY <1>0, <2>3, <2>4 DEF Handlers, Idle
    <3>2. QED
      BY <2>2, <3>1
  <2>5. CASE handling[l].inst # i
    BY <1>0, <1>1, <2>1, <2>2, <2>3, <2>5 DEF RaisesTrue
  <2>6. QED
    BY <2>4, <2>5
<1>3. ASSUME NEW k \in Conns, UpdateDead(k) PROVE RaisesTrue'
  <2>1. /\ handling[k].inst \in Instances
        /\ health' = [health EXCEPT ![handling[k].inst] = "dead"]
        /\ overtaken' = overtaken
        /\ \/ handling' = [handling EXCEPT ![k] = Idle]
           \/ handling' = [handling EXCEPT ![k] = [step |-> "raise", inst |-> handling[k].inst]]
    BY <1>1, <1>3 DEF UpdateDead, Handler, Done
  <2> SUFFICES ASSUME NEW l \in Conns, handling'[l].step = "raise"
               PROVE health'[handling'[l].inst] = "dead" \/ l \in overtaken
    BY <2>1 DEF RaisesTrue
  <2>2. CASE l = k
    BY <1>0, <2>1, <2>2 DEF Idle
  <2>3. CASE l # k
    BY <1>0, <1>1, <2>1, <2>3 DEF RaisesTrue
  <2>4. QED
    BY <2>2, <2>3
<1>4. ASSUME health' = health,
             \A l \in Conns : handling'[l].step = "raise" =>
                 handling'[l] = handling[l] /\ (l \in overtaken => l \in overtaken')
      PROVE RaisesTrue'
  BY <1>0, <1>4 DEF RaisesTrue
<1>5. ASSUME NEW k \in Conns, HandleInstanceResult(k) \/ HandleDead(k) \/ ReportDropped(k) PROVE RaisesTrue'
  <2>1. /\ health' = health /\ overtaken' = overtaken
        /\ \/ handling' = handling
           \/ \E step \in {"known", "new", "resolve"} : handling' = [handling EXCEPT ![k] = [step |-> step, inst |-> Head(inbox[k]).inst]]
    BY <1>5 DEF HandleInstanceResult, HandleDead, ReportDropped, Handler, serverVars, alertVars
  <2>2. \A l \in Conns : handling'[l].step = "raise" => handling'[l] = handling[l]
    BY <1>0, <2>1
  <2>3. QED
    BY <1>4, <2>1, <2>2
<1>6. ASSUME NEW k \in Conns, RaiseDeadAlert(k) \/ ResolveDeadAlert(k) \/ HandlerFails(k) PROVE RaisesTrue'
  <2>1. /\ health' = health /\ handling' = [handling EXCEPT ![k] = Idle]
        /\ overtaken' \in {overtaken, overtaken \ {k}}
    BY <1>6 DEF RaiseDeadAlert, ResolveDeadAlert, HandlerFails, Done
  <2>2. \A l \in Conns : handling'[l].step = "raise" => handling'[l] = handling[l] /\ l # k
    BY <1>0, <2>1 DEF Idle
  <2>3. QED
    BY <1>4, <2>1, <2>2
<1>7. CASE ServerRestart
  BY <1>7 DEF ServerRestart, RaisesTrue, Idle
<1>8. QED
  BY <1>2, <1>3, <1>4, <1>5, <1>6, <1>7, AlertsAlone DEF Handle, alertVars

(* An alert stays open about an instance that is not dead only until it is   *)
(* closed.                                                                   *)
LEMMA AlertsStep == IInv /\ [Next]_vars => AlertedIsDead'
<1> SUFFICES ASSUME IInv, [Next]_vars, NEW i \in Instances, alert'[i]
             PROVE health'[i] = "dead" \/ (\E k \in Conns : Resolving(k, i)') \/ i \in unclosed'
  BY DEF AlertedIsDead, Resolving
<1>0. /\ handling \in [Conns -> Handlers] /\ health \in [Instances -> {"unknown", "alive", "dead"}]
      /\ alert \in [Instances -> BOOLEAN]
      /\ NetTypes /\ RaisesTrue
      /\ alert[i] => health[i] = "dead" \/ (\E k \in Conns : Resolving(k, i)) \/ i \in unclosed
  BY DEF IInv, TypeOK, ServerTypes, AlertedIsDead, Resolving
<1>1. \A k \in Conns : handling[k].step # "idle" => handling[k].inst \in Instances
  BY <1>0 DEF Handlers, Idle
<1>2. ASSUME NEW k \in Conns, HandleInstanceResult(k) \/ HandleAlive(k) \/ HandleDead(k) \/ ReportDropped(k)
      PROVE health'[i] = "dead" \/ (\E l \in Conns : Resolving(l, i)') \/ i \in unclosed'
  <2> DEFINE j == Head(inbox[k]).inst
  <2>1. j \in Instances /\ handling[k].step = "idle"
    BY <1>0, <1>2, ReadReport DEF HandleInstanceResult, HandleAlive, HandleDead, ReportDropped, Takes
  <2>2. /\ alert' = alert /\ unclosed' = unclosed
        /\ \/ health' = health
           \/ /\ health' = [health EXCEPT ![j] = "alive"]
              /\ handling' = [handling EXCEPT ![k] = [step |-> "resolve", inst |-> j]]
        /\ \/ handling' = handling
           \/ \E step \in {"known", "new", "resolve"} : handling' = [handling EXCEPT ![k] = [step |-> step, inst |-> j]]
    BY <1>2 DEF HandleInstanceResult, HandleAlive, HandleDead, ReportDropped, Handler, serverVars, alertVars
  <2> HIDE DEF j
  <2>3. \A l \in Conns : Resolving(l, i) => l # k /\ Resolving(l, i)'
    <3> SUFFICES ASSUME NEW l \in Conns, Resolving(l, i) PROVE l # k /\ handling'[l] = handling[l]
      BY DEF Resolving
    <3>1. l # k
      BY <2>1 DEF Resolving
    <3>2. QED
      BY <1>0, <2>2, <3>1
  <2>4. CASE health'[i] # health[i]
    <3>1. i = j /\ handling' = [handling EXCEPT ![k] = [step |-> "resolve", inst |-> j]]
      BY <1>0, <2>1, <2>2, <2>4
    <3>2. Resolving(k, i)'
      BY <1>0, <3>1 DEF Resolving
    <3>3. QED
      BY <3>2
  <2>5. CASE health'[i] = health[i]
    BY <1>0, <2>2, <2>3, <2>5
  <2>6. QED
    BY <2>4, <2>5
<1>3. ASSUME NEW k \in Conns, UpdateDead(k) \/ RaiseDeadAlert(k) \/ ResolveDeadAlert(k) \/ HandlerFails(k)
      PROVE health'[i] = "dead" \/ (\E l \in Conns : Resolving(l, i)') \/ i \in unclosed'
  <2> DEFINE j == handling[k].inst
  <2>1. j \in Instances /\ handling[k].step # "idle"
    BY <1>1, <1>3 DEF UpdateDead, RaiseDeadAlert, ResolveDeadAlert, HandlerFails
  <2>2. \A l \in Conns : l # k => handling'[l] = handling[l]
    BY <1>0, <1>3 DEF UpdateDead, RaiseDeadAlert, ResolveDeadAlert, HandlerFails, Handler, Done
  <2>3. \A l \in Conns : Resolving(l, i) => Resolving(l, i)' \/ (l = k /\ handling[k].step = "resolve" /\ i = j)
    BY <2>2 DEF Resolving
  <2> HIDE DEF j
  <2>4. CASE UpdateDead(k)
    <3>1. handling[k].step # "resolve" /\ alert' = alert /\ unclosed' = unclosed /\ health' = [health EXCEPT ![j] = "dead"]
      BY <2>4 DEF UpdateDead, j
    <3>2. health'[i] = health[i] \/ health'[i] = "dead"
      BY <1>0, <3>1
    <3>3. QED
      BY <1>0, <2>3, <3>1, <3>2
  <2>5. CASE RaiseDeadAlert(k)
    <3>1. /\ handling[k].step = "raise" /\ health' = health /\ alert' = [alert EXCEPT ![j] = TRUE]
          /\ unclosed' = unclosed \cup {x \in {j} : k \in overtaken}
      BY <2>5 DEF RaiseDeadAlert, j
    <3>2. CASE i = j
      <4>1. health[j] = "dead" \/ k \in overtaken
        BY <1>0, <3>1 DEF RaisesTrue, j
      <4>2. QED
        BY <3>1, <3>2, <4>1
    <3>3. CASE i # j
      <4>1. alert[i]
        BY <1>0, <2>1, <3>1, <3>3
      <4>2. QED
        BY <1>0, <2>3, <3>1, <4>1
    <3>4. QED
      BY <3>2, <3>3
  <2>6. CASE ResolveDeadAlert(k)
    <3>1. health' = health /\ alert' = [alert EXCEPT ![j] = FALSE] /\ unclosed' = unclosed \ {j}
      BY <2>6 DEF ResolveDeadAlert, j
    <3>2. i # j /\ alert[i]
      BY <1>0, <2>1, <3>1
    <3>3. QED
      BY <1>0, <2>3, <3>1, <3>2
  <2>7. CASE HandlerFails(k)
    <3>1. health' = health /\ alert' = alert /\ unclosed' = unclosed \cup {x \in {j} : handling[k].step = "resolve"}
      BY <2>7 DEF HandlerFails, j
    <3>2. QED
      BY <1>0, <2>3, <3>1
  <2>8. QED
    BY <1>3, <2>4, <2>5, <2>6, <2>7
<1>4. CASE ServerRestart
  <2>1. health' = health /\ alert' = alert
    BY <1>4 DEF ServerRestart
  <2>2. unclosed' = unclosed \cup {x \in Instances : \E k \in Conns : Resolving(k, x)}
    BY <1>4 DEF ServerRestart, Resolving
  <2>3. QED
    BY <1>0, <2>1, <2>2
<1>5. CASE UNCHANGED alertVars
  BY <1>0, <1>5 DEF alertVars, Resolving
<1>6. QED
  BY <1>2, <1>3, <1>4, <1>5, AlertsAlone DEF Handle

(* The invariant holds throughout every behaviour.                           *)
THEOREM Invariance == Spec => []IInv
<1>1. IInv /\ [Next]_vars => IInv'
  <2> SUFFICES ASSUME IInv, [Next]_vars PROVE IInv'
    OBVIOUS
  <2>1. TypeOK' /\ LaunchedOnce'
    BY TypeStep, LaunchStep DEF IInv
  <2>2. QED
    BY <2>1, OnlyReadyServedStep, UnloadsStep, ReportsStep, RowsStep, HandlersStep, RaisesStep, AlertsStep DEF IInv
<1>2. QED
  BY InitIInv, <1>1, PTL DEF Spec

(* Every variable keeps its type.                                            *)
THEOREM TypeCorrect == Spec => []TypeOK
<1>1. IInv => TypeOK
  BY DEF IInv
<1>2. QED
  BY Invariance, <1>1, PTL

(* runLoad: a row is shown running, or stopping, only for an engine that     *)
(* answered waitForReady's completion probe.                                 *)
THEOREM RunningRowsWereReady == Spec => []RunningWasReady
<1>1. IInv => RunningWasReady
  BY DEF IInv
<1>2. QED
  BY Invariance, <1>1, PTL

(* runUnload: a row is shown stopped only when its engine is down for good.  *)
THEOREM StoppedRowsAreDown == Spec => []StoppedIsDown
<1>1. IInv => StoppedIsDown
  BY DEF IInv
<1>2. QED
  BY Invariance, <1>1, PTL

(* runCheckInstance and checkInstanceHealth: an instance shown dead has no   *)
(* running engine.                                                           *)
THEOREM DeadInstancesAreDown == Spec => []DeadIsDown
<1>1. IInv => DeadIsDown
  BY DEF IInv
<1>2. QED
  BY Invariance, <1>1, PTL

(* HandleInstanceHealth and HandleInstanceResult: an alert is open about an  *)
(* instance that is not dead only while a handler is about to close it, or   *)
(* after a crash, an error or an overtaking handler took that from it.       *)
THEOREM AlertsAreAboutTheDead == Spec => []AlertedIsDead
<1>1. IInv => AlertedIsDead
  BY DEF IInv
<1>2. QED
  BY Invariance, <1>1, PTL

(* UnloadInstance: a row leaves starting only for running or failed.         *)
THEOREM StartingRowsResolve == Spec => StartingResolves
<1>1. IInv /\ [Next]_vars =>
        [\A i \in Instances : status[i] = "starting" => status'[i] \in {"starting", "running", "failed"}]_vars
  <2> SUFFICES ASSUME IInv, [Next]_vars, NEW i \in Instances, status[i] = "starting"
               PROVE status'[i] \in {"starting", "running", "failed"}
    OBVIOUS
  <2>1. StatusFrom(i)
    BY StatusStep DEF IInv
  <2>2. QED
    BY <2>1 DEF StatusFrom, IInv, UnloadsTrue, ReportsTrue, TrueReport
<1>2. QED
  BY Invariance, <1>1, PTL DEF Spec, StartingResolves
=============================================================================
