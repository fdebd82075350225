--------------------------- MODULE StaleContainers ---------------------------
(***************************************************************************)
(* Stale container cleanup on one node: the scheduled run and the cleanup  *)
(* page (internal/stalecontainers) ask the agent for its containers, judge *)
(* them against the instance records and have the stale ones removed       *)
(* (agent/connection/stalecontainers.go).  The two callers, the agent's    *)
(* goroutines, the answers on the wire and the instances themselves        *)
(* interleave; a connection may drop, a wait may run out and the agent may *)
(* restart.                                                                *)
(*                                                                         *)
(* An age is whether the minimum is reached.  How a log is archived is     *)
(* LogArchive's matter: here an archive only has its four outcomes.  Of    *)
(* launches and unloads (Lifecycle) there is what changes a record, a      *)
(* container or what the agent tracks.  The calls of syncAlerts are one    *)
(* step.  Left out: permissions, the settings (Schedule), wording, sizes   *)
(* and the container states paused, restarting, dead and removing.         *)
(***************************************************************************)
EXTENDS Integers, Sequences, FiniteSets, FiniteSetsExt, SequencesExt

CONSTANTS
    Instances,   \* instances whose container the node may hold
    Labelled,    \* those created with Sparky's labels
    ChunkSize,   \* containers of a part of an answer
    MaxRequests  \* BOUND: requests to the agent

ASSUME StaleAssumption ==
    /\ IsFiniteSet(Instances) /\ Labelled \subseteq Instances
    /\ ChunkSize \in Nat \ {0}
    /\ MaxRequests \in Nat

VARIABLES
    rec,       \* running_instances: status of each instance, "none" without a row
    cont,      \* its container
    aged,      \* instances whose container stopped the minimum age ago
    active,    \* instances the agent tracks as running
    tasks,     \* what the server's and the agent's goroutines do for instances
    results,   \* instance_result messages on their way
    online,    \* the agent is connected
    call,      \* the scheduled run and the page's request
    removeMu,  \* who holds removeMu
    agentJob,  \* the agent's goroutines, by request
    wire,      \* answers on their way to the server
    requests,  \* requests made
    alertOpen, \* open alerts
    removals,  \* history: how each container was when it was removed
    listed     \* history: what the agent read, by request

staleVars == <<rec, cont, aged, active, tasks, results, online, call, removeMu, agentJob, wire, requests, alertOpen, removals, listed>>

Callers == {"job", "page"}
Statuses == {"none", "starting", "running", "stopping", "stopped", "failed"}
ContainerStates == {"absent", "created", "running", "exited"}

\* The server's own tasks, which no restart of the agent ends, and all.
AtServer == {"unloading", "dispatch", "sweep"}
Tasks == {"load", "clean", "tidy", "unload", "unloaded", "check", "alive", "resume"} \cup AtServer

Over == {"none", "stopped", "failed"}
NoCall == [pc |-> "idle", op |-> "preview", inst |-> 0, id |-> 0, next |-> 0, got |-> <<>>,
           verdict |-> [i \in {} |-> "live"], was |-> [i \in Instances |-> "none"], todo |-> {}, gone |-> {}, outcome |-> "none", removed |-> 0]
NoJob == [pc |-> "none", inst |-> 0, was |-> "none", list |-> <<>>, sent |-> 0, outcome |-> "none", cut |-> FALSE]

-----------------------------------------------------------------------------
(* Classify.                                                               *)

\* Mutant: an exited container is stale whatever its instance's record says.
ClassifyIgnoresRecord(i, state, status, old) ==
    IF state = "running" THEN "live"
    ELSE IF state = "created" /\ i \notin Labelled THEN "other"
    ELSE IF old THEN "stale" ELSE "recent"

\* Rules 1, 2, 4 and 5, in order; rule 3 never applies on a single node.
Classify(i, state, status, old) ==
    IF state = "running" THEN (IF status = "none" THEN "orphan" ELSE "live")
    ELSE IF status \notin Over THEN "live"
    ELSE IF state = "created" /\ i \notin Labelled THEN "other"
    ELSE IF old THEN "stale" ELSE "recent"

-----------------------------------------------------------------------------
(* The instances.  A task is a goroutine's next step: the server's for a   *)
(* request to unload, the agent's for a command.                           *)

cleanup == <<online, call, removeMu, agentJob, wire, requests, alertOpen, removals, listed>>

Task(i, k) == <<i, k>> \in tasks
Then(i, k, next) == tasks' = (tasks \ {<<i, k>>}) \cup {<<i, n>> : n \in next}
Tells(i, status) == results' = results \cup {<<i, status>>}
Halted(i) == [cont EXCEPT ![i] = IF @ = "running" THEN "exited" ELSE @]

\* runtime.Start creates the container ...
Created(i) ==
    /\ Task(i, "load") /\ cont[i] = "absent"
    /\ cont' = [cont EXCEPT ![i] = "created"]
    /\ UNCHANGED <<rec, aged, active, tasks, results, cleanup>>

\* ... and starts it; the engine comes up.
Started(i) ==
    /\ Task(i, "load") /\ cont[i] = "created"
    /\ cont' = [cont EXCEPT ![i] = "running"]
    /\ UNCHANGED <<rec, aged, active, tasks, results, cleanup>>

\* It answers: the agent tracks it and reports it running.
Ready(i) ==
    /\ Task(i, "load") /\ cont[i] = "running"
    /\ active' = active \cup {i}
    /\ Tells(i, "running")
    /\ Then(i, "load", {})
    /\ UNCHANGED <<rec, cont, aged, cleanup>>

\* A launch fails: reported first, then cleaned up.
LoadFails(i) ==
    /\ Task(i, "load")
    /\ Tells(i, "failed")
    /\ Then(i, "load", {"clean"})
    /\ UNCHANGED <<rec, cont, aged, active, cleanup>>

\* Replace-on-launch: a launch first clears what the profile left behind.
Replaces(i, old) ==
    /\ Task(i, "load") /\ cont[i] = "absent"
    /\ old # i /\ old \notin active /\ cont[old] # "absent"
    /\ tasks' = tasks \cup {<<old, "clean">>}
    /\ UNCHANGED <<rec, cont, aged, active, results, cleanup>>

\* cleanUpFailedLaunch and replaceStaleContainers halt it, or give up.
CleanUp(i) ==
    /\ Task(i, "clean")
    /\ \/ cont' = Halted(i) /\ Then(i, "clean", {"tidy"})
       \/ UNCHANGED cont /\ Then(i, "clean", {})
    /\ UNCHANGED <<rec, aged, active, results, cleanup>>

\* archiveAndRemove: the container goes if its log was stored and it does not
\* run.  The end of an unload also ends the tracking.
ArchiveAndRemove(i, k) ==
    /\ k \in {"tidy", "unloaded"} /\ Task(i, k)
    /\ Then(i, k, {})
    /\ \/ UNCHANGED cont
       \/ cont[i] # "running" /\ cont' = [cont EXCEPT ![i] = "absent"]
    /\ active' = IF k = "unloaded" THEN active \ {i} ELSE active
    /\ UNCHANGED <<rec, aged, results, cleanup>>

\* UnloadInstance reads a running record, ...
UnloadInstance(i) ==
    /\ rec[i] = "running" /\ online
    /\ tasks' = tasks \cup {<<i, "unloading">>}
    /\ UNCHANGED <<rec, cont, aged, active, results, cleanup>>

\* ... writes it, whatever it is by now, ...
SetStopping(i) ==
    /\ Task(i, "unloading")
    /\ rec' = [rec EXCEPT ![i] = "stopping"]
    /\ Then(i, "unloading", {"dispatch"})
    /\ UNCHANGED <<cont, aged, active, results, cleanup>>

\* ... and sends the command, or writes the record back.
DispatchUnload(i) ==
    /\ Task(i, "dispatch")
    /\ \/ online /\ Then(i, "dispatch", {"unload"}) /\ UNCHANGED rec
       \/ Then(i, "dispatch", {}) /\ rec' = [rec EXCEPT ![i] = "running"]
    /\ UNCHANGED <<cont, aged, active, results, cleanup>>

\* runUnload: the engine is halted, which is reported before the log is saved.
Halt(i) ==
    /\ Task(i, "unload")
    /\ cont' = Halted(i)
    /\ Tells(i, "stopped")
    /\ Then(i, "unload", {"unloaded"})
    /\ UNCHANGED <<rec, aged, active, cleanup>>

HaltFails(i) ==
    /\ Task(i, "unload")
    /\ Tells(i, "failed")
    /\ Then(i, "unload", {})
    /\ active' = active \ {i}
    /\ UNCHANGED <<rec, cont, aged, cleanup>>

\* The record takes whatever status a result names, late or not.
HandleInstanceResult(i, status) ==
    /\ <<i, status>> \in results
    /\ results' = results \ {<<i, status>>}
    /\ rec' = IF rec[i] = "none" THEN rec ELSE [rec EXCEPT ![i] = status]
    /\ UNCHANGED <<cont, aged, active, tasks, cleanup>>

\* A result that could not be sent, or was not handled.
ResultLost(i, status) ==
    /\ <<i, status>> \in results
    /\ results' = results \ {<<i, status>>}
    /\ UNCHANGED <<rec, cont, aged, active, tasks, cleanup>>

\* A fresh connection has every running record checked; a check may not reach
\* the agent.
ReconcileNode ==
    /\ Task(0, "sweep")
    /\ \E asked \in SUBSET {i \in Instances : rec[i] = "running"} :
          tasks' = (tasks \ {<<0, "sweep">>}) \cup {<<i, "check">> : i \in asked}
    /\ UNCHANGED <<rec, cont, aged, active, results, cleanup>>

\* runCheckInstance looks; an engine that is not running is reported dead, which
\* leaves the record, and one it cannot look at is not reported.
CheckInstance(i) ==
    /\ Task(i, "check")
    /\ \/ cont[i] = "running" /\ Then(i, "check", {"alive"})
       \/ Then(i, "check", {})
    /\ UNCHANGED <<rec, cont, aged, active, results, cleanup>>

CheckAnswered(i) ==
    /\ Task(i, "alive")
    /\ Tells(i, "running")
    /\ Then(i, "alive", {"resume"})
    /\ UNCHANGED <<rec, cont, aged, active, cleanup>>

\* resumeHealthTracking, if the check came with a port and a known engine.
ResumeHealthTracking(i) ==
    /\ Task(i, "resume")
    /\ active' = active \cup {i} \/ active' = active
    /\ Then(i, "resume", {})
    /\ UNCHANGED <<rec, cont, aged, results, cleanup>>

Exits(i) ==
    /\ cont[i] = "running"
    /\ cont' = [cont EXCEPT ![i] = "exited"]
    /\ UNCHANGED <<rec, aged, active, tasks, results, cleanup>>

\* Somebody starts the container again behind Sparky's back.
Restarted(i) ==
    /\ cont[i] = "exited"
    /\ cont' = [cont EXCEPT ![i] = "running"]
    /\ aged' = aged \ {i}
    /\ UNCHANGED <<rec, active, tasks, results, cleanup>>

Ages(i) ==
    /\ cont[i] \in {"created", "exited"} /\ i \notin aged
    /\ aged' = aged \cup {i}
    /\ UNCHANGED <<rec, cont, active, tasks, results, cleanup>>

InstanceEvents == \E i \in Instances : Exits(i) \/ Restarted(i) \/ Ages(i) \/ UnloadInstance(i)

InstanceSteps ==
    \/ \E i \in Instances :
          \/ Created(i) \/ Started(i) \/ Ready(i) \/ LoadFails(i) \/ CleanUp(i)
          \/ \E old \in Instances : Replaces(i, old)
          \/ \E k \in {"tidy", "unloaded"} : ArchiveAndRemove(i, k)
          \/ SetStopping(i) \/ DispatchUnload(i) \/ Halt(i) \/ HaltFails(i)
          \/ CheckInstance(i) \/ CheckAnswered(i) \/ ResumeHealthTracking(i)
          \/ \E status \in {"running", "stopped", "failed"} : HandleInstanceResult(i, status) \/ ResultLost(i, status)
    \/ ReconcileNode

-----------------------------------------------------------------------------
(* Requests and scans.                                                     *)

world == <<rec, cont, aged, active, tasks, results>>

\* A scheduled run, Preview or RemoveOne begins with a scan; a node that is not
\* connected is reported offline.
BeginScan(c, op, i) ==
    /\ call[c].pc = "idle"
    /\ call' = [call EXCEPT ![c] = IF online THEN [NoCall EXCEPT !.op = op, !.inst = i, !.pc = "list"] ELSE NoCall]
    /\ UNCHANGED <<world, online, removeMu, agentJob, wire, requests, alertOpen, removals, listed>>

RunScheduled(mode) == BeginScan("job", mode, 0)
Preview == BeginScan("page", "preview", 0)
RemoveOne(i) == BeginScan("page", "one", i)

\* A request is sent: the agent starts a goroutine for it.
Send(job) ==
    /\ online /\ requests < MaxRequests
    /\ requests' = requests + 1
    /\ agentJob' = Append(agentJob, job)

ListNode(c) ==
    /\ call[c].pc = "list"
    /\ Send([NoJob EXCEPT !.pc = "list"])
    /\ call' = [call EXCEPT ![c].pc = "listing", ![c].id = requests', ![c].next = 0, ![c].got = <<>>]
    /\ listed' = Append(listed, <<>>)
    /\ UNCHANGED <<world, online, removeMu, wire, alertOpen, removals>>

\* Nothing was sent, the wait ran out, or the node had no list to give: the
\* scan of the node failed and its containers are unknown.
ScanFails(c) ==
    /\ call[c].pc \in {"list", "listing", "lookup"}
    /\ call' = [call EXCEPT ![c] = NoCall]
    /\ UNCHANGED <<world, online, removeMu, agentJob, wire, requests, alertOpen, removals, listed>>

Received == wire # <<>> /\ wire' = Tail(wire)

\* Mutant: a part is taken for whatever the node was last asked.
AwaitsAny(c, m) == call[c].pc = "listing"

\* Only the request a part names takes it, and only while it waits.
Awaits(c, m) == call[c].pc = "listing" /\ call[c].id = m.id

HandleListContainersResult ==
    /\ Received /\ Head(wire).kind = "list"
    /\ LET m == Head(wire)
           takers == {c \in Callers : Awaits(c, m)}
           Take(k) == IF m.part # k.next \/ m.error THEN NoCall
                      ELSE [k EXCEPT !.next = @ + 1, !.got = @ \o m.items, !.pc = IF m.final THEN "lookup" ELSE @]
       IN  call' = [c \in Callers |-> IF c \in takers THEN Take(call[c]) ELSE call[c]]
    /\ UNCHANGED <<world, online, removeMu, agentJob, requests, alertOpen, removals, listed>>

\* The instances of the whole list are looked up and every container judged.
Lookup(c) ==
    LET k == call[c]
        stateOf == [i \in {x[1] : x \in ToSet(k.got)} |-> (CHOOSE x \in ToSet(k.got) : x[1] = i)[2]]
        verdict == [i \in DOMAIN stateOf |-> Classify(i, stateOf[i], rec[i], i \in aged)]
        stale == {i \in DOMAIN verdict : verdict[i] = "stale"}
        todo == CASE k.op = "prune" -> stale [] k.op = "one" -> {k.inst} [] OTHER -> {}
    IN
    /\ k.pc = "lookup"
    /\ call' = [call EXCEPT ![c] = IF k.op = "preview" \/ (k.op = "one" /\ k.inst \notin stale) THEN NoCall
                                   ELSE [k EXCEPT !.verdict = verdict, !.was = rec, !.pc = "removing", !.todo = todo, !.got = <<>>, !.id = 0]]
    /\ UNCHANGED <<world, online, removeMu, agentJob, wire, requests, alertOpen, removals, listed>>

\* removeItem takes the mutex, then asks the agent.
RemoveItem(c, i) ==
    /\ call[c].pc = "removing" /\ i \in call[c].todo
    /\ removeMu = "none"
    /\ removeMu' = c
    /\ call' = [call EXCEPT ![c].todo = @ \ {i}, ![c].inst = i, ![c].pc = "ask"]
    /\ UNCHANGED <<world, online, agentJob, wire, requests, alertOpen, removals, listed>>

RequestRemove(c) ==
    /\ call[c].pc = "ask"
    /\ Send([NoJob EXCEPT !.pc = "active", !.inst = call[c].inst, !.was = call[c].was[call[c].inst]])
    /\ call' = [call EXCEPT ![c].pc = "asked", ![c].id = requests']
    /\ listed' = Append(listed, <<>>)
    /\ UNCHANGED <<world, online, removeMu, wire, alertOpen, removals>>

HandleRemoveContainerResult ==
    /\ Received /\ Head(wire).kind = "remove"
    /\ LET m == Head(wire)
           takers == {c \in Callers : call[c].pc = "asked" /\ call[c].id = m.id /\ call[c].inst = m.inst}
       IN  call' = [c \in Callers |-> IF c \in takers THEN [call[c] EXCEPT !.outcome = m.outcome, !.pc = "answered"] ELSE call[c]]
    /\ UNCHANGED <<world, online, removeMu, agentJob, requests, alertOpen, removals, listed>>

\* Not sent, or not answered in time: counted as failed.
RemoveFails(c) ==
    /\ call[c].pc \in {"ask", "asked"}
    /\ call' = [call EXCEPT ![c].outcome = "failed", ![c].pc = "answered"]
    /\ UNCHANGED <<world, online, removeMu, agentJob, wire, requests, alertOpen, removals, listed>>

\* The removal is audited, or a kept container's alert raised; the mutex goes
\* to the next.
ItemDone(c) ==
    LET k == call[c] IN
    /\ k.pc = "answered"
    /\ removeMu' = "none"
    /\ call' = [call EXCEPT ![c].pc = "removing", ![c].id = 0, ![c].outcome = "none",
           ![c].gone = IF k.outcome \in {"removed", "gone"} THEN @ \cup {k.inst} ELSE @,
           ![c].removed = IF k.outcome = "removed" THEN 1 ELSE @]
    /\ alertOpen' = IF k.outcome = "kept" THEN alertOpen \cup {<<"kept", k.inst>>} ELSE alertOpen
    /\ UNCHANGED <<world, online, agentJob, wire, requests, removals, listed>>

\* syncAlerts: a condition's alert is open while the scan shows it, and a kept
\* container's closes once it is no longer there.
Synced(k, open) ==
    LET left == DOMAIN k.verdict \ k.gone
        holds(v) == \E i \in left : k.verdict[i] = v
    IN  {a \in open : CASE a[1] = "kept" -> a[2] \in left [] a[1] = "removed" -> TRUE [] OTHER -> holds(a[1])}
          \cup {<<v, 0>> : v \in {x \in {"stale", "orphan"} : holds(x)}}

\* Every stale container was dealt with: a Prune reports what it removed, and
\* the alerts are brought in line.
SyncAlerts(c) ==
    LET k == call[c]
        summary == IF k.op = "prune" /\ k.removed > 0 THEN {<<"removed", 0>>} ELSE {}
    IN
    /\ k.pc = "removing" /\ k.todo = {}
    /\ alertOpen' = Synced(k, alertOpen) \cup summary
    /\ call' = [call EXCEPT ![c] = NoCall]
    /\ UNCHANGED <<world, online, removeMu, agentJob, wire, requests, removals, listed>>

-----------------------------------------------------------------------------
(* The agent's side.                                                       *)

\* c.send on the connection the command came by; a failure is only logged.
Say(r, m) == wire' = IF agentJob[r].cut THEN wire ELSE Append(wire, m)

Managed == {i \in Instances : cont[i] # "absent"}
ListManaged == SetToSeq({<<i, cont[i]>> : i \in Managed})

RunListContainers(r) ==
    /\ agentJob[r].pc = "list"
    /\ agentJob' = [agentJob EXCEPT ![r].pc = "parts", ![r].list = ListManaged]
    /\ listed' = [listed EXCEPT ![r] = ListManaged]
    /\ UNCHANGED <<world, online, call, removeMu, wire, requests, alertOpen, removals>>

ListFails(r) ==
    /\ agentJob[r].pc = "list"
    /\ Say(r, [kind |-> "list", id |-> r, part |-> 0, items |-> <<>>, final |-> TRUE, error |-> TRUE])
    /\ agentJob' = [agentJob EXCEPT ![r] = NoJob]
    /\ UNCHANGED <<world, online, call, removeMu, requests, alertOpen, removals, listed>>

\* The list goes out in parts, an empty one as one empty part.
SendPart(r) ==
    LET j == agentJob[r]
        off == j.sent * ChunkSize
        end == Min({off + ChunkSize, Len(j.list)})
        final == end = Len(j.list)
    IN
    /\ j.pc = "parts"
    /\ Say(r, [kind |-> "list", id |-> r, part |-> j.sent, items |-> SubSeq(j.list, off + 1, end), final |-> final, error |-> FALSE])
    /\ agentJob' = [agentJob EXCEPT ![r] = IF final THEN NoJob ELSE [j EXCEPT !.sent = @ + 1]]
    /\ UNCHANGED <<world, online, call, removeMu, requests, alertOpen, removals, listed>>

To(r, pc, outcome) ==
    /\ agentJob' = [agentJob EXCEPT ![r].pc = pc, ![r].outcome = outcome]
    /\ UNCHANGED <<rec, aged, active, tasks, results, online, call, removeMu, wire, requests, alertOpen, listed>>

\* removeStale: an instance the agent runs is refused ...
CheckActive(r) ==
    /\ agentJob[r].pc = "active"
    /\ IF agentJob[r].inst \in active THEN To(r, "reply", "refused") ELSE To(r, "state", "none")
    /\ UNCHANGED <<cont, removals>>

Removable(i) == cont[i] = "exited" \/ (cont[i] = "created" /\ i \in Labelled)

\* ... so is a container that is not stopped, an unlabelled one that has not
\* exited, and one that is gone is gone ...
CheckState(r) ==
    LET i == agentJob[r].inst IN
    /\ agentJob[r].pc = "state"
    /\ \/ cont[i] = "absent" /\ To(r, "reply", "gone")
       \/ Removable(i) /\ To(r, "archive", "none")
       \/ cont[i] # "absent" /\ ~Removable(i) /\ To(r, "reply", "refused")
       \/ To(r, "reply", "failed")
    /\ UNCHANGED <<cont, removals>>

\* ... then its log is archived, which needs the connection ...
Archive(r) ==
    /\ agentJob[r].pc = "archive"
    /\ \/ ~agentJob[r].cut /\ cont[agentJob[r].inst] # "absent" /\ To(r, "remove", "stored")
       \/ cont[agentJob[r].inst] = "absent" /\ To(r, "reply", "gone")
       \/ To(r, "reply", "failed")
       \/ cont[agentJob[r].inst] # "absent" /\ To(r, "reply", "kept")
    /\ UNCHANGED <<cont, removals>>

\* ... and it is removed, not forced: the runtime refuses one that runs, and
\* one already gone is no error.
RemoveContainer(r) ==
    LET i == agentJob[r].inst IN
    /\ agentJob[r].pc = "remove"
    /\ \/ /\ cont[i] # "running"
          /\ To(r, "reply", "removed")
          /\ cont' = [cont EXCEPT ![i] = "absent"]
          /\ removals' = IF cont[i] = "absent" THEN removals
                         ELSE removals \cup {[inst |-> i, state |-> cont[i], status |-> rec[i], was |-> agentJob[r].was,
                                              launching |-> Task(i, "load"), log |-> agentJob[r].outcome]}
       \/ To(r, "reply", "failed") /\ UNCHANGED <<cont, removals>>

Reply(r) ==
    /\ agentJob[r].pc = "reply"
    /\ Say(r, [kind |-> "remove", id |-> r, inst |-> agentJob[r].inst, outcome |-> agentJob[r].outcome])
    /\ agentJob' = [agentJob EXCEPT ![r] = NoJob]
    /\ UNCHANGED <<world, online, call, removeMu, requests, alertOpen, removals, listed>>

AgentSteps ==
    \E r \in DOMAIN agentJob :
        \/ RunListContainers(r) \/ ListFails(r) \/ SendPart(r)
        \/ CheckActive(r) \/ CheckState(r) \/ Archive(r) \/ RemoveContainer(r) \/ Reply(r)

-----------------------------------------------------------------------------
\* The connection drops: what is on the wire is lost, and what the agent's
\* goroutines still say on it.
Drops ==
    /\ online
    /\ online' = FALSE
    /\ wire' = <<>>
    /\ agentJob' = [r \in DOMAIN agentJob |-> [agentJob[r] EXCEPT !.cut = (agentJob[r].pc # "none")]]
    /\ UNCHANGED <<world, call, removeMu, requests, alertOpen, removals, listed>>

\* The agent's process ends and with it everything it did and tracked; its
\* containers stay.
AgentRestarts ==
    /\ online' = FALSE
    /\ wire' = <<>>
    /\ agentJob' = [r \in DOMAIN agentJob |-> NoJob]
    /\ active' = {}
    /\ tasks' = {t \in tasks : t[2] \in AtServer}
    /\ UNCHANGED <<rec, cont, aged, results, call, removeMu, requests, alertOpen, removals, listed>>

\* The agent is back, and its records are to be checked.
Reconnects ==
    /\ ~online
    /\ online' = TRUE
    /\ tasks' = tasks \cup {<<0, "sweep">>}
    /\ UNCHANGED <<rec, cont, aged, active, results, call, removeMu, agentJob, wire, requests, alertOpen, removals, listed>>

Connection == Drops \/ AgentRestarts \/ Reconnects

CallBegins ==
    \/ \E mode \in {"report", "prune"} : RunScheduled(mode)
    \/ Preview
    \/ \E i \in Instances : RemoveOne(i)

CallSteps ==
    \E c \in Callers :
        \/ ListNode(c) \/ ScanFails(c) \/ Lookup(c) \/ RequestRemove(c) \/ RemoveFails(c)
        \/ ItemDone(c) \/ SyncAlerts(c)
        \/ \E i \in Instances : RemoveItem(c, i)

Handlers == HandleListContainersResult \/ HandleRemoveContainerResult

StaleNext == InstanceEvents \/ InstanceSteps \/ CallBegins \/ CallSteps \/ AgentSteps \/ Handlers \/ Connection

\* Nothing is under way ...
QuietCleanup ==
    /\ online = TRUE
    /\ call = [c \in Callers |-> NoCall]
    /\ removeMu = "none" /\ agentJob = <<>> /\ wire = <<>> /\ requests = 0
    /\ alertOpen = {} /\ removals = {} /\ listed = <<>> /\ results = {}

\* ... of the cleanup, on a node that holds whatever it holds, with anything
\* under way for its instances; one that is being launched is recorded as
\* starting, and nothing else is done for it yet.
StaleInit ==
    /\ QuietCleanup
    /\ rec \in [Instances -> Statuses] /\ cont \in [Instances -> ContainerStates]
    /\ aged \subseteq Instances /\ active \subseteq Instances
    /\ tasks \subseteq Instances \X Tasks
    /\ \A t \in tasks : t[2] = "load" => rec[t[1]] = "starting" /\ \A u \in tasks : u[1] = t[1] => u = t

StaleSpec == StaleInit /\ [][StaleNext]_staleVars

-----------------------------------------------------------------------------
(* PROPERTIES                                                              *)

Listings == Instances \X ContainerStates
Verdicts == UNION {[S -> {"orphan", "live", "other", "stale", "recent"}] : S \in SUBSET Instances}
Outcomes == {"none", "refused", "gone", "failed", "kept", "stored", "removed"}
CallStates == [pc : {"idle", "list", "listing", "lookup", "removing", "ask", "asked", "answered"},
               op : {"preview", "one", "report", "prune"}, inst : Instances \cup {0}, id : Nat, next : Nat,
               got : Seq(Listings), verdict : Verdicts, was : [Instances -> Statuses], todo : SUBSET Instances, gone : SUBSET Instances,
               outcome : Outcomes, removed : {0, 1}]
JobStates == [pc : {"none", "list", "parts", "active", "state", "archive", "remove", "reply"}, inst : Instances \cup {0}, was : Statuses,
              list : Seq(Listings), sent : Nat, outcome : Outcomes, cut : BOOLEAN]
ListParts == [kind : {"list"}, id : Nat, part : Nat, items : Seq(Listings), final : BOOLEAN, error : BOOLEAN]
RemoveResults == [kind : {"remove"}, id : Nat, inst : Instances \cup {0}, outcome : Outcomes]
Removals == [inst : Instances, state : ContainerStates, status : Statuses, was : Statuses, launching : BOOLEAN, log : Outcomes]

\* The state is of the types of the records, the node, the calls, the agent's
\* goroutines and the wire.
StaleTypes ==
    /\ rec \in [Instances -> Statuses] /\ cont \in [Instances -> ContainerStates]
    /\ aged \subseteq Instances /\ active \subseteq Instances /\ online \in BOOLEAN
    /\ tasks \subseteq (Instances \cup {0}) \X Tasks
    /\ results \subseteq Instances \X {"running", "stopped", "failed"}
    /\ call \in [Callers -> CallStates] /\ removeMu \in Callers \cup {"none"}
    /\ requests \in Nat
    /\ agentJob \in Seq(JobStates) /\ Len(agentJob) = requests
    /\ listed \in Seq(Seq(Listings)) /\ Len(listed) = requests
    /\ wire \in Seq(ListParts \cup RemoveResults)
    /\ alertOpen \subseteq {"kept", "removed", "stale", "orphan"} \X (Instances \cup {0})
    /\ removals \subseteq Removals

\* However the two callers, late answers, dropped connections, a restarted
\* agent and the instances' own lives interleave, a container the cleanup
\* removed was stopped, its launch was over, its log was stored and its record
\* was over, or there was none, when the scan that asked for it was judged
\* (Classify, removeItem, removeStale).  What the record says by the time of the
\* removal is another matter: see LiveIsUntouched.
RemovedWasOver ==
    \A x \in removals : x.state # "running" /\ x.was \in Over /\ ~x.launching /\ x.log = "stored"

\* A scan that finished holds exactly what the agent read for that request:
\* parts that come late, for another request, or after a lost one never make up
\* a list (HandleListContainersResult, listNode).
ListIsWhole ==
    \A c \in Callers : call[c].pc = "lookup" => call[c].got = listed[call[c].id]

-----------------------------------------------------------------------------
(* CLAIMS OF THE SOURCE THAT THE CODE DOES NOT KEEP                        *)

\* The claim of ARCHITECTURE.md that no container is ever touched "whose
\* instance is starting, running or stopping", at the moment it is removed
\* (Classify, removeStale, SetStatus).
LiveIsUntouched == \A x \in removals : x.status \in Over
=============================================================================
