------------------------------ MODULE Lifecycle ------------------------------
(***************************************************************************)
(* The Model Lifecycle Orchestrator and the agent's side of it, for the    *)
(* instances of one node on the containers backend.                        *)
(*                                                                         *)
(* Server: LoadInstance, UnloadInstance and ReconcileNode, each split at   *)
(* its database writes and its dispatch; HandleInstanceResult and          *)
(* HandleInstanceHealth, which a connection's read loop runs one at a time,*)
(* split at the row and the alert they write in separate transactions.     *)
(* Agent: one goroutine per command (runLoad, runUnload, runCheckInstance),*)
(* split at every call into the container runtime and every report, and    *)
(* the periodic health check.                                              *)
(*                                                                         *)
(* A command is one Task from the HTTP request (or the sweep) that creates *)
(* it to the end of the agent goroutine that serves it. Commands reach the *)
(* agent in any order, since each is served by a goroutine of its own.     *)
(* Reports are written to the connection that brought the command: they    *)
(* are lost once that one is down, and the server may still be reading an  *)
(* old connection's reports while a new one is in use.                     *)
(***************************************************************************)
EXTENDS Naturals, Sequences, FiniteSets

CONSTANTS
    Instances,      \* running_instances ids a load may create
    Profiles,
    NoInstance,     \* no container is being replaced
    ProfileOf,      \* the profile each instance is launched from
    MaxUnloads,     \* unload requests per instance
    MaxConns,       \* connections the agent ever makes
    MaxAgentRestarts,
    MaxServerRestarts,
    MaxHealthReports,
    HaltMayFail,    \* whether the runtime may fail to stop a container
    DBMayFail       \* whether a query on running_instances may fail

ASSUME InstanceAssumption == NoInstance \notin Instances
ASSUME ProfileAssumption == ProfileOf \in [Instances -> Profiles]
ASSUME BoundsAssumption ==
    /\ MaxUnloads \in Nat
    /\ MaxConns \in Nat
    /\ MaxAgentRestarts \in Nat
    /\ MaxServerRestarts \in Nat
    /\ MaxHealthReports \in Nat
    /\ HaltMayFail \in BOOLEAN
    /\ DBMayFail \in BOOLEAN

Conns == 1..MaxConns

LoadTask(i) == <<"load", i, 0>>
UnloadTasks(i) == {<<"unload", i, u>> : u \in 1..MaxUnloads}
CheckTask(i, k) == <<"check", i, k>>

Tasks == {LoadTask(i) : i \in Instances}
         \cup (UNION {UnloadTasks(i) : i \in Instances})
         \cup {CheckTask(i, k) : i \in Instances, k \in Conns}

Inst(t) == t[2]

VARIABLES
    status,     \* running_instances.status ("none": no row yet)
    health,     \* health_status; healthy and unhealthy are both "alive"
    alert,      \* the instance's dead alert is open
    handling,   \* per connection: the report its read loop is handling
    overtaken,  \* history: handlers about to raise an alert while another
                \* one wrote that the instance is alive
    unclosed,   \* history: instances whose alert should have been closed,
                \* and was not, or was raised by an overtaken handler
    sweep,      \* ReconcileNode of each connection: "no", "due", "done"
    pc,         \* the position of each task
    via,        \* the connection that brought a task to the agent
    stale,      \* per load: containers of its profile still to be replaced
    replacing,  \* per load: the stale container that was just stopped
    container,  \* the container of each instance
    ready,      \* history: the instance passed waitForReady
    active,     \* the agent's activeInstances
    probing,    \* instances a health check found running and is probing
    conn,       \* the newest connection (0 before the first)
    up,         \* whether it is up
    inbox,      \* per connection: reports the server has not handled yet
    reports,    \* number of health reports so far
    restarts    \* restarts so far, per process

alertVars == <<health, alert, handling, overtaken, unclosed>>
serverVars == <<status, sweep, alertVars>>
agentVars == <<stale, replacing, container, ready, active, probing>>
netVars == <<conn, up, inbox>>
vars == <<serverVars, pc, via, agentVars, netVars, reports, restarts>>

Statuses == {"none", "starting", "running", "stopping", "stopped", "failed"}
Active == {"starting", "running", "stopping"}
Terminal == {"stopped", "failed"}
ServerPCs == {"checked", "created", "marked", "listed"}
AgentPCs == {"resolve", "replace", "archive_stale", "create", "start", "ready", "track",
             "report", "report_failed", "halt_failed", "halt", "archive", "untrack",
             "ask", "report_running", "resume"}
Report == [type : {"running", "stopped", "failed", "alive", "dead"}, inst : Instances]

(* A handler waits for a report, is about to write that an instance is dead  *)
(* (found dead already, or newly so), or to raise or close its alert.        *)
Idle == [step |-> "idle", inst |-> NoInstance]
Handlers == [step : {"known", "new", "raise", "resolve"}, inst : Instances] \cup {Idle}

ServerTypes ==
    /\ status \in [Instances -> Statuses]
    /\ health \in [Instances -> {"unknown", "alive", "dead"}]
    /\ alert \in [Instances -> BOOLEAN]
    /\ handling \in [Conns -> Handlers]
    /\ overtaken \subseteq Conns
    /\ unclosed \subseteq Instances
    /\ sweep \in [Conns -> {"no", "due", "done"}]

TaskTypes ==
    /\ pc \in [Tasks -> {"idle", "sent", "end"} \cup ServerPCs \cup AgentPCs]
    /\ via \in [Tasks -> 0..MaxConns]

AgentTypes ==
    /\ stale \in [Instances -> SUBSET Instances]
    /\ replacing \in [Instances -> Instances \cup {NoInstance}]
    /\ container \in [Instances -> {"none", "created", "running", "exited", "removed"}]
    /\ ready \in [Instances -> BOOLEAN]
    /\ active \subseteq Instances
    /\ probing \subseteq Instances

NetTypes ==
    /\ conn \in 0..MaxConns
    /\ up \in BOOLEAN
    /\ inbox \in [Conns -> Seq(Report)]
    /\ reports \in 0..MaxHealthReports
    /\ restarts \in [{"agent", "server"} -> 0..(MaxAgentRestarts + MaxServerRestarts)]

TypeOK == ServerTypes /\ TaskTypes /\ AgentTypes /\ NetTypes

Init ==
    /\ status = [i \in Instances |-> "none"]
    /\ health = [i \in Instances |-> "unknown"]
    /\ alert = [i \in Instances |-> FALSE]
    /\ handling = [k \in Conns |-> Idle]
    /\ overtaken = {}
    /\ unclosed = {}
    /\ sweep = [k \in Conns |-> "no"]
    /\ pc = [t \in Tasks |-> "idle"]
    /\ via = [t \in Tasks |-> 0]
    /\ stale = [i \in Instances |-> {}]
    /\ replacing = [i \in Instances |-> NoInstance]
    /\ container = [i \in Instances |-> "none"]
    /\ ready = [i \in Instances |-> FALSE]
    /\ active = {}
    /\ probing = {}
    /\ conn = 0
    /\ up = FALSE
    /\ inbox = [k \in Conns |-> <<>>]
    /\ reports = 0
    /\ restarts = [p \in {"agent", "server"} |-> 0]

----------------------------------------------------------------------------
(* Helpers                                                                   *)

Goto(t, from, to) == pc[t] = from /\ pc' = [pc EXCEPT ![t] = to]

SetStatus(i, s) == status' = [status EXCEPT ![i] = s]

(* A best-effort SetStatus: its failure is logged.                           *)
TrySetStatus(i, s) == SetStatus(i, s) \/ (DBMayFail /\ UNCHANGED status)

(* Registry.Send, after the row has been written: the command is on its way, *)
(* or the node has no connection and the caller gets an error.               *)
Dispatched(t, from) ==
    /\ up
    /\ Goto(t, from, "sent")
    /\ via' = [via EXCEPT ![t] = conn]

(* An agent goroutine writes a report to the connection that brought its     *)
(* command; on a connection that is down the error is only logged.           *)
Say(t, type) ==
    inbox' = IF up /\ via[t] = conn
             THEN [inbox EXCEPT ![conn] = Append(@, [type |-> type, inst |-> Inst(t)])]
             ELSE inbox

(* runtime.Halt on container j: stopping what is not running is no error.    *)
Halted(j) == [container EXCEPT ![j] = IF @ = "running" THEN "exited" ELSE @]

(* archiveAndRemove of instance j on the connection of task t, as a whole    *)
(* (module LogArchive): it may succeed only while that connection is up, and *)
(* the runtime refuses to remove a running container.                        *)
ArchiveAndRemove(t, j) ==
    \/ /\ up /\ via[t] = conn
       /\ container[j] \in {"created", "exited"}
       /\ container' = [container EXCEPT ![j] = "removed"]
    \/ UNCHANGED container

----------------------------------------------------------------------------
(* LoadInstance                                                              *)

(* The checks: no active instance of the profile, and the node is connected. *)
LoadCheck(i) ==
    /\ \A j \in Instances : ProfileOf[j] = ProfileOf[i] => status[j] \notin Active
    /\ up
    /\ Goto(LoadTask(i), "idle", "checked")
    /\ UNCHANGED <<serverVars, via, agentVars, netVars, reports, restarts>>

(* instances.Create                                                          *)
LoadCreate(i) ==
    /\ Goto(LoadTask(i), "checked", "created")
    /\ SetStatus(i, "starting")
    /\ UNCHANGED <<alertVars, sweep, via, agentVars, netVars, reports, restarts>>

LoadSend(i) ==
    /\ Dispatched(LoadTask(i), "created")
    /\ UNCHANGED <<serverVars, agentVars, netVars, reports, restarts>>

(* The dispatch fails: the row moves on to failed.                           *)
LoadSendFails(i) ==
    /\ ~up
    /\ Goto(LoadTask(i), "created", "end")
    /\ TrySetStatus(i, "failed")
    /\ UNCHANGED <<alertVars, sweep, via, agentVars, netVars, reports, restarts>>

(* UnloadInstance                                                            *)

(* Mutant: a starting instance can be unloaded too.                          *)
UnloadCheckActive(t) ==
    /\ status[Inst(t)] \in {"starting", "running"}
    /\ up
    /\ Goto(t, "idle", "checked")
    /\ UNCHANGED <<serverVars, via, agentVars, netVars, reports, restarts>>

UnloadCheck(t) ==
    /\ status[Inst(t)] = "running"
    /\ up
    /\ Goto(t, "idle", "checked")
    /\ UNCHANGED <<serverVars, via, agentVars, netVars, reports, restarts>>

UnloadMark(t) ==
    /\ Goto(t, "checked", "marked")
    /\ SetStatus(Inst(t), "stopping")
    /\ UNCHANGED <<alertVars, sweep, via, agentVars, netVars, reports, restarts>>

UnloadSend(t) ==
    /\ Dispatched(t, "marked")
    /\ UNCHANGED <<serverVars, agentVars, netVars, reports, restarts>>

(* The dispatch fails: the stopping transition is reverted.                  *)
UnloadSendFails(t) ==
    /\ ~up
    /\ Goto(t, "marked", "end")
    /\ TrySetStatus(Inst(t), "running")
    /\ UNCHANGED <<alertVars, sweep, via, agentVars, netVars, reports, restarts>>

(* instances.Create of a load or SetStatus of an unload fails: the caller    *)
(* gets an error.                                                            *)
RequestFails(t) ==
    /\ DBMayFail
    /\ Goto(t, "checked", "end")
    /\ UNCHANGED <<serverVars, via, agentVars, netVars, reports, restarts>>

(* ReconcileNode                                                             *)

(* ListRunningByNode fails: logged, and nothing is asked.                    *)
SweepFails(k) ==
    /\ DBMayFail
    /\ sweep[k] = "due"
    /\ sweep' = [sweep EXCEPT ![k] = "done"]
    /\ UNCHANGED <<status, alertVars, pc, via, agentVars, netVars, reports, restarts>>

(* ListRunningByNode: the rows that are running when the sweep looks.        *)
SweepList(k) ==
    /\ sweep[k] = "due"
    /\ sweep' = [sweep EXCEPT ![k] = "done"]
    /\ pc' = [t \in Tasks |->
                IF \E i \in Instances : t = CheckTask(i, k) /\ status[i] = "running"
                THEN "listed" ELSE pc[t]]
    /\ UNCHANGED <<status, alertVars, via, agentVars, netVars, reports, restarts>>

SweepSend(t) ==
    /\ Dispatched(t, "listed")
    /\ UNCHANGED <<serverVars, agentVars, netVars, reports, restarts>>

SweepSendFails(t) ==
    /\ ~up
    /\ Goto(t, "listed", "end")
    /\ UNCHANGED <<serverVars, via, agentVars, netVars, reports, restarts>>

(* A connection's read loop takes its next report once the last is handled.  *)
Takes(k, types) ==
    /\ handling[k].step = "idle"
    /\ inbox[k] # <<>>
    /\ Head(inbox[k]).type \in types
    /\ inbox' = [inbox EXCEPT ![k] = Tail(@)]

Handler(k, step, i) == handling' = [handling EXCEPT ![k] = [step |-> step, inst |-> i]]
Done(k) == handling' = [handling EXCEPT ![k] = Idle]

(* HandleInstanceResult: the reported status is written whatever the row     *)
(* says by now; the dead alert of a stopped or failed instance is closed     *)
(* next.                                                                     *)
HandleInstanceResult(k) ==
    /\ Takes(k, {"running"} \cup Terminal)
    /\ LET m == Head(inbox[k]) IN
        /\ SetStatus(m.inst, m.type)
        /\ IF m.type \in Terminal THEN Handler(k, "resolve", m.inst) ELSE UNCHANGED handling
    /\ UNCHANGED <<health, alert, overtaken, unclosed, sweep, pc, via, agentVars, conn, up, reports, restarts>>

(* SetStatus or UpdateHealth of a report fails: it is logged and dropped.    *)
ReportDropped(k) ==
    /\ DBMayFail
    /\ Takes(k, {"running", "alive"} \cup Terminal)
    /\ UNCHANGED <<serverVars, pc, via, agentVars, conn, up, reports, restarts>>

(* Mutant: a recovery does not close the alert.                              *)
HandleAliveOnly(k) ==
    /\ Takes(k, {"alive"})
    /\ health' = [health EXCEPT ![Head(inbox[k]).inst] = "alive"]
    /\ UNCHANGED <<status, alert, handling, overtaken, unclosed, sweep, pc, via, agentVars, conn, up, reports, restarts>>

(* HandleInstanceHealth of an instance that is not dead: UpdateHealth, and   *)
(* the alert is to be closed.                                                *)
HandleAlive(k) ==
    /\ Takes(k, {"alive"})
    /\ LET i == Head(inbox[k]).inst IN
        /\ health' = [health EXCEPT ![i] = "alive"]
        /\ Handler(k, "resolve", i)
        /\ overtaken' = overtaken \cup {l \in Conns : handling[l] = [step |-> "raise", inst |-> i]}
    /\ UNCHANGED <<status, alert, unclosed, sweep, pc, via, agentVars, conn, up, reports, restarts>>

(* HandleInstanceHealth of a dead one: first FindByID, to learn whether it   *)
(* was dead already; one that fails counts as no.                            *)
HandleDead(k) ==
    /\ Takes(k, {"dead"})
    /\ LET i == Head(inbox[k]).inst IN
        \/ health[i] = "dead" /\ Handler(k, "known", i)
        \/ (health[i] # "dead" \/ DBMayFail) /\ Handler(k, "new", i)
    /\ UNCHANGED <<status, health, alert, overtaken, unclosed, sweep, pc, via, agentVars, conn, up, reports, restarts>>

(* UpdateHealth                                                              *)
UpdateDead(k) ==
    /\ handling[k].step \in {"known", "new"}
    /\ health' = [health EXCEPT ![handling[k].inst] = "dead"]
    /\ IF handling[k].step = "new" THEN Handler(k, "raise", handling[k].inst) ELSE Done(k)
    /\ UNCHANGED <<status, alert, overtaken, unclosed, sweep, pc, via, agentVars, netVars, reports, restarts>>

(* raiseInstanceDeadAlert: an alert that is open already stays so.           *)
RaiseDeadAlert(k) ==
    /\ handling[k].step = "raise"
    /\ alert' = [alert EXCEPT ![handling[k].inst] = TRUE]
    /\ unclosed' = unclosed \cup {i \in {handling[k].inst} : k \in overtaken}
    /\ overtaken' = overtaken \ {k}
    /\ Done(k)
    /\ UNCHANGED <<status, health, sweep, pc, via, agentVars, netVars, reports, restarts>>

(* resolveInstanceDeadAlert                                                  *)
ResolveDeadAlert(k) ==
    /\ handling[k].step = "resolve"
    /\ alert' = [alert EXCEPT ![handling[k].inst] = FALSE]
    /\ unclosed' = unclosed \ {handling[k].inst}
    /\ Done(k)
    /\ UNCHANGED <<status, health, overtaken, sweep, pc, via, agentVars, netVars, reports, restarts>>

(* UpdateHealth, raising or closing the alert fails: logged, not tried again.*)
HandlerFails(k) ==
    /\ DBMayFail
    /\ handling[k].step # "idle"
    /\ unclosed' = unclosed \cup {i \in {handling[k].inst} : handling[k].step = "resolve"}
    /\ overtaken' = overtaken \ {k}
    /\ Done(k)
    /\ UNCHANGED <<status, health, alert, sweep, pc, via, agentVars, netVars, reports, restarts>>

----------------------------------------------------------------------------
(* The agent: runLoad                                                        *)

(* dispatch starts the goroutine of a command that arrived.                  *)
Receive(t) ==
    /\ up
    /\ via[t] = conn
    /\ Goto(t, "sent", CASE t[1] = "load" -> "resolve"
                         [] t[1] = "unload" -> "halt"
                         [] t[1] = "check" -> "ask")
    /\ UNCHANGED <<serverVars, via, agentVars, netVars, reports, restarts>>

(* Mutant: an early return that forgets the report.                          *)
ResolveFailsSilently(i) ==
    /\ Goto(LoadTask(i), "resolve", "end")
    /\ UNCHANGED <<serverVars, via, agentVars, netVars, reports, restarts>>

(* resolveModelPath fails: reported, and nothing was created.                *)
ResolveFails(i) ==
    /\ Goto(LoadTask(i), "resolve", "end")
    /\ Say(LoadTask(i), "failed")
    /\ UNCHANGED <<serverVars, via, agentVars, conn, up, reports, restarts>>

(* replaceStaleContainers asks the runtime for the profile's containers.     *)
ReplaceList(i) ==
    /\ Goto(LoadTask(i), "resolve", "replace")
    /\ stale' = [stale EXCEPT ![i] =
                    {j \in Instances \ {i} : /\ ProfileOf[j] = ProfileOf[i]
                                             /\ container[j] \notin {"none", "removed"}}]
    /\ UNCHANGED <<serverVars, via, replacing, container, ready, active, probing, netVars, reports, restarts>>

(* One of them is tracked as running, or cannot be stopped: it is skipped.   *)
ReplaceSkip(i, j) ==
    /\ pc[LoadTask(i)] = "replace"
    /\ j \in stale[i]
    /\ j \in active \/ HaltMayFail
    /\ stale' = [stale EXCEPT ![i] = @ \ {j}]
    /\ UNCHANGED <<serverVars, pc, via, replacing, container, ready, active, probing, netVars, reports, restarts>>

ReplaceHalt(i, j) ==
    /\ j \in stale[i] \ active
    /\ Goto(LoadTask(i), "replace", "archive_stale")
    /\ container' = Halted(j)
    /\ stale' = [stale EXCEPT ![i] = @ \ {j}]
    /\ replacing' = [replacing EXCEPT ![i] = j]
    /\ UNCHANGED <<serverVars, via, ready, active, probing, netVars, reports, restarts>>

ReplaceArchive(i) ==
    /\ Goto(LoadTask(i), "archive_stale", "replace")
    /\ ArchiveAndRemove(LoadTask(i), replacing[i])
    /\ replacing' = [replacing EXCEPT ![i] = NoInstance]
    /\ UNCHANGED <<serverVars, via, stale, ready, active, probing, netVars, reports, restarts>>

(* runtime.Start: ContainerCreate, then ContainerStart; either may fail.     *)
Create(i) ==
    /\ stale[i] = {}
    /\ Goto(LoadTask(i), "replace", "start")
    /\ container' = [container EXCEPT ![i] = "created"]
    /\ UNCHANGED <<serverVars, via, stale, replacing, ready, active, probing, netVars, reports, restarts>>

CreateFails(i) ==
    /\ stale[i] = {}
    /\ Goto(LoadTask(i), "replace", "report_failed")
    /\ UNCHANGED <<serverVars, via, agentVars, netVars, reports, restarts>>

Start(i) ==
    /\ container[i] = "created"
    /\ Goto(LoadTask(i), "start", "ready")
    /\ container' = [container EXCEPT ![i] = "running"]
    /\ UNCHANGED <<serverVars, via, stale, replacing, ready, active, probing, netVars, reports, restarts>>

StartFails(i) ==
    /\ Goto(LoadTask(i), "start", "report_failed")
    /\ UNCHANGED <<serverVars, via, agentVars, netVars, reports, restarts>>

(* verifyGPUApplied and waitForReady: the engine answered a completion.      *)
BecomesReady(i) ==
    /\ container[i] = "running"
    /\ Goto(LoadTask(i), "ready", "track")
    /\ ready' = [ready EXCEPT ![i] = TRUE]
    /\ UNCHANGED <<serverVars, via, stale, replacing, container, active, probing, netVars, reports, restarts>>

(* Mutant: the readiness timeout counts as ready.                            *)
NeverReadyIgnored(i) ==
    /\ Goto(LoadTask(i), "ready", "track")
    /\ UNCHANGED <<serverVars, via, agentVars, netVars, reports, restarts>>

(* No GPU, the container exited, or the timeout passed.                      *)
NeverReady(i) ==
    /\ Goto(LoadTask(i), "ready", "report_failed")
    /\ UNCHANGED <<serverVars, via, agentVars, netVars, reports, restarts>>

TrackActive(i) ==
    /\ Goto(LoadTask(i), "track", "report")
    /\ active' = active \cup {i}
    /\ UNCHANGED <<serverVars, via, stale, replacing, container, ready, probing, netVars, reports, restarts>>

ReportRunning(i) ==
    /\ Goto(LoadTask(i), "report", "end")
    /\ Say(LoadTask(i), "running")
    /\ UNCHANGED <<serverVars, via, agentVars, conn, up, reports, restarts>>

(* Mutant: a failed launch is only reported.                                 *)
ReportFailedOnly(i) ==
    /\ Goto(LoadTask(i), "report_failed", "end")
    /\ Say(LoadTask(i), "failed")
    /\ UNCHANGED <<serverVars, via, agentVars, conn, up, reports, restarts>>

(* A failed launch is reported, then stopped, archived and removed.          *)
ReportFailed(i) ==
    /\ Goto(LoadTask(i), "report_failed", "halt_failed")
    /\ Say(LoadTask(i), "failed")
    /\ UNCHANGED <<serverVars, via, agentVars, conn, up, reports, restarts>>

HaltFailedLaunch(i) ==
    /\ Goto(LoadTask(i), "halt_failed", "archive")
    /\ container' = Halted(i)
    /\ UNCHANGED <<serverVars, via, stale, replacing, ready, active, probing, netVars, reports, restarts>>

HaltFailedLaunchFails(i) ==
    /\ HaltMayFail
    /\ Goto(LoadTask(i), "halt_failed", "end")
    /\ UNCHANGED <<serverVars, via, agentVars, netVars, reports, restarts>>

ArchiveFailedLaunch(i) ==
    /\ Goto(LoadTask(i), "archive", "end")
    /\ ArchiveAndRemove(LoadTask(i), i)
    /\ UNCHANGED <<serverVars, via, stale, replacing, ready, active, probing, netVars, reports, restarts>>

(* The agent: runUnload                                                      *)

Halt(t) ==
    /\ Goto(t, "halt", "report")
    /\ container' = Halted(Inst(t))
    /\ UNCHANGED <<serverVars, via, stale, replacing, ready, active, probing, netVars, reports, restarts>>

(* Mutant: the error of Halt is ignored.                                     *)
HaltErrorIgnored(t) ==
    /\ HaltMayFail
    /\ Goto(t, "halt", "report")
    /\ UNCHANGED <<serverVars, via, agentVars, netVars, reports, restarts>>

HaltFails(t) ==
    /\ HaltMayFail
    /\ Goto(t, "halt", "untrack")
    /\ Say(t, "failed")
    /\ UNCHANGED <<serverVars, via, agentVars, conn, up, reports, restarts>>

(* Mutant: the stop is left to be noticed by the health loop.                *)
StoppedUnreported(t) ==
    /\ Goto(t, "report", "archive")
    /\ UNCHANGED <<serverVars, via, agentVars, netVars, reports, restarts>>

(* The engine is down: reported before the log is archived.                  *)
ReportStopped(t) ==
    /\ Goto(t, "report", "archive")
    /\ Say(t, "stopped")
    /\ UNCHANGED <<serverVars, via, agentVars, conn, up, reports, restarts>>

ArchiveUnloaded(t) ==
    /\ Goto(t, "archive", "untrack")
    /\ ArchiveAndRemove(t, Inst(t))
    /\ UNCHANGED <<serverVars, via, stale, replacing, ready, active, probing, netVars, reports, restarts>>

(* The deferred untrackActiveInstance, after everything else.                *)
Untrack(t) ==
    /\ Goto(t, "untrack", "end")
    /\ active' = active \ {Inst(t)}
    /\ UNCHANGED <<serverVars, via, stale, replacing, container, ready, probing, netVars, reports, restarts>>

(* The agent: runCheckInstance                                               *)

AskRunning(t) ==
    /\ container[Inst(t)] = "running"
    /\ Goto(t, "ask", "report_running")
    /\ UNCHANGED <<serverVars, via, agentVars, netVars, reports, restarts>>

(* Mutant: a runtime that does not answer counts as a dead container.        *)
AskUnknownIsDead(t) ==
    /\ Goto(t, "ask", "end")
    /\ Say(t, "dead")
    /\ UNCHANGED <<serverVars, via, agentVars, conn, up, reports, restarts>>

AskDead(t) ==
    /\ container[Inst(t)] # "running"
    /\ Goto(t, "ask", "end")
    /\ Say(t, "dead")
    /\ UNCHANGED <<serverVars, via, agentVars, conn, up, reports, restarts>>

(* IsRunning failed: "I don't know" is not reported.                         *)
AskFails(t) ==
    /\ Goto(t, "ask", "end")
    /\ UNCHANGED <<serverVars, via, agentVars, netVars, reports, restarts>>

ConfirmRunning(t) ==
    /\ Goto(t, "report_running", "resume")
    /\ Say(t, "running")
    /\ UNCHANGED <<serverVars, via, agentVars, conn, up, reports, restarts>>

(* resumeHealthTracking, which needs a port and an engine type it knows; the *)
(* first health check of a newly tracked instance is one of HealthProbe's.   *)
Resume(t) ==
    /\ Goto(t, "resume", "end")
    /\ active' \in {active, active \cup {Inst(t)}}
    /\ UNCHANGED <<serverVars, via, stale, replacing, container, ready, probing, netVars, reports, restarts>>

(* checkInstanceHealth of a tracked instance, on the current connection: one *)
(* whose container is not running is reported dead.                          *)
HealthDead(i) ==
    /\ i \in active
    /\ up
    /\ container[i] # "running"
    /\ reports < MaxHealthReports
    /\ reports' = reports + 1
    /\ inbox' = [inbox EXCEPT ![conn] = Append(@, [type |-> "dead", inst |-> i])]
    /\ UNCHANGED <<serverVars, pc, via, agentVars, conn, up, restarts>>

(* One whose container is running is probed over HTTP, which takes a while,  *)
(* and reported healthy or unhealthy whatever happened meanwhile.            *)
HealthProbe(i) ==
    /\ i \in active \ probing
    /\ up
    /\ container[i] = "running"
    /\ reports < MaxHealthReports
    /\ reports' = reports + 1
    /\ probing' = probing \cup {i}
    /\ UNCHANGED <<serverVars, pc, via, stale, replacing, container, ready, active, netVars, restarts>>

HealthAlive(i) ==
    /\ i \in probing
    /\ probing' = probing \ {i}
    /\ inbox' = [inbox EXCEPT ![conn] = Append(@, [type |-> "alive", inst |-> i])]
    /\ UNCHANGED <<serverVars, pc, via, stale, replacing, container, ready, active, conn, up, reports, restarts>>

----------------------------------------------------------------------------
(* The environment                                                           *)

(* An engine exits by itself (a crash, the OOM killer).                      *)
EngineExits(i) ==
    /\ container[i] = "running"
    /\ container' = [container EXCEPT ![i] = "exited"]
    /\ UNCHANGED <<serverVars, pc, via, stale, replacing, ready, active, probing, netVars, reports, restarts>>

(* The agent connects; onConnect starts the sweep.                           *)
Connect ==
    /\ ~up
    /\ conn < MaxConns
    /\ conn' = conn + 1
    /\ up' = TRUE
    /\ sweep' = [sweep EXCEPT ![conn + 1] = "due"]
    /\ UNCHANGED <<status, alertVars, pc, via, agentVars, inbox, reports, restarts>>

Lost(t) == IF pc[t] = "sent" THEN "end" ELSE pc[t]

(* The connection drops: commands in flight are lost.                        *)
Drop ==
    /\ up
    /\ conn < MaxConns
    /\ up' = FALSE
    /\ pc' = [t \in Tasks |-> Lost(t)]
    /\ probing' = {}
    /\ UNCHANGED <<serverVars, via, stale, replacing, container, ready, active, conn, inbox, reports, restarts>>

(* What the server had not read from a dropped connection is lost.           *)
LoseReports(k) ==
    /\ k < conn \/ ~up
    /\ inbox[k] # <<>>
    /\ inbox' = [inbox EXCEPT ![k] = <<>>]
    /\ UNCHANGED <<serverVars, pc, via, agentVars, conn, up, reports, restarts>>

(* The agent process dies: its goroutines and its tracking map are gone, its *)
(* containers are not.                                                       *)
AgentRestart ==
    /\ restarts["agent"] < MaxAgentRestarts
    /\ conn < MaxConns
    /\ restarts' = [restarts EXCEPT !["agent"] = @ + 1]
    /\ up' = FALSE
    /\ pc' = [t \in Tasks |-> IF pc[t] \in AgentPCs THEN "end" ELSE Lost(t)]
    /\ active' = {}
    /\ probing' = {}
    /\ UNCHANGED <<serverVars, via, stale, replacing, container, ready, conn, inbox, reports>>

(* The server process dies: requests in progress, handlers and unread        *)
(* reports are gone, the rows stay as they are.                              *)
ServerRestart ==
    /\ restarts["server"] < MaxServerRestarts
    /\ conn < MaxConns
    /\ restarts' = [restarts EXCEPT !["server"] = @ + 1]
    /\ up' = FALSE
    /\ pc' = [t \in Tasks |-> IF pc[t] \in ServerPCs THEN "end" ELSE Lost(t)]
    /\ sweep' = [k \in Conns |-> IF sweep[k] = "due" THEN "done" ELSE sweep[k]]
    /\ inbox' = [k \in Conns |-> <<>>]
    /\ unclosed' = unclosed \cup {i \in Instances : \E k \in Conns : handling[k] = [step |-> "resolve", inst |-> i]}
    /\ handling' = [k \in Conns |-> Idle]
    /\ overtaken' = {}
    /\ probing' = {}
    /\ UNCHANGED <<status, health, alert, via, stale, replacing, container, ready, active, conn, reports>>

(* What a request, a handler or an agent goroutine does by itself.           *)
LoadServer(i) == RequestFails(LoadTask(i)) \/ LoadCreate(i) \/ LoadSend(i) \/ LoadSendFails(i)
UnloadServer(t) == RequestFails(t) \/ UnloadMark(t) \/ UnloadSend(t) \/ UnloadSendFails(t)
CheckServer(t) == SweepSend(t) \/ SweepSendFails(t)
Handle(k) ==
    \/ HandleInstanceResult(k) \/ HandleAlive(k) \/ HandleDead(k) \/ ReportDropped(k)
    \/ UpdateDead(k) \/ RaiseDeadAlert(k) \/ ResolveDeadAlert(k) \/ HandlerFails(k)
Sweep(k) == SweepList(k) \/ SweepFails(k)

LoadAgent(i) ==
    \/ Receive(LoadTask(i)) \/ ResolveFails(i) \/ ReplaceList(i)
    \/ \E j \in Instances : ReplaceSkip(i, j) \/ ReplaceHalt(i, j)
    \/ ReplaceArchive(i) \/ Create(i) \/ CreateFails(i) \/ Start(i) \/ StartFails(i)
    \/ BecomesReady(i) \/ NeverReady(i) \/ TrackActive(i) \/ ReportRunning(i)
    \/ ReportFailed(i) \/ HaltFailedLaunch(i) \/ HaltFailedLaunchFails(i)
    \/ ArchiveFailedLaunch(i)

UnloadAgent(t) ==
    \/ Receive(t) \/ Halt(t) \/ HaltFails(t) \/ ReportStopped(t)
    \/ ArchiveUnloaded(t) \/ Untrack(t)

CheckAgent(t) ==
    \/ Receive(t) \/ AskRunning(t) \/ AskDead(t) \/ AskFails(t)
    \/ ConfirmRunning(t) \/ Resume(t)

AllUnloads == UNION {UnloadTasks(i) : i \in Instances}
AllChecks == {CheckTask(i, k) : i \in Instances, k \in Conns}

Next ==
    \/ \E i \in Instances : LoadCheck(i) \/ LoadServer(i) \/ LoadAgent(i)
    \/ \E t \in AllUnloads : UnloadCheck(t) \/ UnloadServer(t) \/ UnloadAgent(t)
    \/ \E t \in AllChecks : CheckServer(t) \/ CheckAgent(t)
    \/ \E k \in Conns : Sweep(k) \/ Handle(k) \/ LoseReports(k)
    \/ \E i \in Instances : HealthDead(i) \/ HealthProbe(i) \/ HealthAlive(i) \/ EngineExits(i)
    \/ Connect \/ Drop \/ AgentRestart \/ ServerRestart

Begun(t) == pc[t] \notin {"idle", "end"}

(* Goroutines that can run do run, requests are served to their end, reports *)
(* that arrived are handled and the agent redials (Run's backoff loop).      *)
(* Nothing obliges a user to load or unload, an engine to exit, a connection *)
(* to drop or a health report to be made; and what is promised of loads and  *)
(* unloads does not need the sweep.                                          *)
Fairness ==
    /\ \A i \in Instances : WF_vars(Begun(LoadTask(i)) /\ (LoadServer(i) \/ LoadAgent(i)))
    /\ \A t \in AllUnloads : WF_vars(Begun(t) /\ (UnloadServer(t) \/ UnloadAgent(t)))
    /\ \A k \in Conns : WF_vars(Handle(k))
    /\ WF_vars(Connect)

Spec == Init /\ [][Next]_vars /\ Fairness

----------------------------------------------------------------------------
(* PROPERTIES                                                                *)

(* runLoad: a row is shown running, or stopping, only for an engine that     *)
(* answered waitForReady's completion probe, whatever reports were lost,     *)
(* repeated by a sweep or reordered.                                         *)
RunningWasReady ==
    \A i \in Instances : status[i] \in {"running", "stopping"} => ready[i]

(* runUnload: a row is shown stopped only when its engine is down for good.  *)
StoppedIsDown ==
    \A i \in Instances : status[i] = "stopped" => container[i] \in {"exited", "removed"}

(* HandleInstanceHealth and HandleInstanceResult: an alert is open about an  *)
(* instance that is not dead only while a handler is about to close it, or   *)
(* until the next report closes it if a crash or an error took that step, or *)
(* if the alert was raised after another connection's handler had written    *)
(* the recovery.                                                             *)
AlertedIsDead ==
    \A i \in Instances :
        alert[i] => \/ health[i] = "dead"
                    \/ \E k \in Conns : handling[k] = [step |-> "resolve", inst |-> i]
                    \/ i \in unclosed

(* dead never lies: an instance reported dead after it was ready has no      *)
(* running engine.                                                           *)
DeadIsDown ==
    \A i \in Instances : health[i] = "dead" => container[i] \in {"exited", "removed"}

(* UnloadInstance: a row that was never running is never unloaded, so a row  *)
(* leaves starting only for running or failed.                               *)
StartingResolves ==
    [][\A i \in Instances :
          status[i] = "starting" => status'[i] \in {"starting", "running", "failed"}]_vars

(* A load whose connection stays up is answered: the row leaves starting.    *)
LoadIsAnswered == \A i \in Instances : status[i] = "starting" ~> status[i] # "starting"

(* An unload whose connection stays up is answered: the row leaves stopping. *)
UnloadIsAnswered == \A i \in Instances : status[i] = "stopping" ~> status[i] # "stopping"

(* cleanUpFailedLaunch: no engine is left running behind a failed row.       *)
FailedIsCleanedUp == \A i \in Instances : status[i] = "failed" ~> container[i] # "running"

----------------------------------------------------------------------------
(* CLAIMS OF THE SOURCE THAT THE CODE DOES NOT KEEP                          *)

(* migrations/000010: internal/lifecycle.Service refuses a second concurrent *)
(* load of a profile.                                                        *)
OneActivePerProfile ==
    \A i, j \in Instances :
        ProfileOf[i] = ProfileOf[j] /\ status[i] \in Active /\ status[j] \in Active => i = j

(* PLANNING.md: the alert is closed by any later report that the instance is *)
(* not dead.                                                                 *)
RecoveryClosesAlert ==
    \A i \in Instances :
        alert[i] => health[i] = "dead" \/ \E k \in Conns : handling[k].inst = i

(* HandleInstanceResult: an instance that is stopped or failed is no longer  *)
(* "dead but expected to run", so it has no open dead alert.                 *)
NoAlertForTerminal == \A i \in Instances : status[i] \in Terminal => ~alert[i]

(* HandleInstanceHealth: an alert is raised when an instance becomes dead,   *)
(* so a row that is running and dead has one open.                           *)
RunningDeadIsAlerted ==
    \A i \in Instances : status[i] = "running" /\ health[i] = "dead" => alert[i]
=============================================================================
