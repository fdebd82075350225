------------------------------ MODULE Engines ------------------------------
(***************************************************************************)
(* Engine provisioning: an Admin has a node download, verify and install a *)
(* release of an engine (internal/engineprovision, agent/enginetransfer),  *)
(* and launches pick the binary (resolveEngineBinaryPath).  Runs of one    *)
(* node go on side by side and outlive a reconnect; what they report does  *)
(* not.  Each step of a run on the node's disk, and each statement of the  *)
(* server, is an action.                                                   *)
(*                                                                         *)
(* A tarball is good when it is the one the checksum names.  Left out:     *)
(* byte counts, temporary names, permissions, and the second engine (its   *)
(* directory is its own).                                                  *)
(***************************************************************************)
EXTENDS Integers, Sequences, FiniteSets

CONSTANTS
    EngineRuns,  \* BOUND: provisioning requests
    Versions     \* releases

VARIABLES
    engineRow,     \* engine_transfers: status by run
    engineRun,     \* the run on the node
    engineDir,     \* installRoot/<engine>/<version>
    engineLatest,  \* what installRoot/<engine>/latest points at
    engineWire,    \* progress on its way to the server
    engineReader,  \* the completed run whose inventory entry is being written
    enginePresent, \* node_engine_inventory
    engineOnline   \* the node's connection

engineVars == <<engineRow, engineRun, engineDir, engineLatest, engineWire, engineReader, enginePresent, engineOnline>>

Unpinned == "unpinned"
NoRun == [pc |-> "none", version |-> Unpinned, tarball |-> "none", cut |-> FALSE,
          verified |-> FALSE, installed |-> FALSE, replacing |-> FALSE]

EnginesInit ==
    /\ engineRow = [r \in EngineRuns |-> "none"]
    /\ engineRun = [r \in EngineRuns |-> NoRun]
    /\ engineDir = [v \in Versions |-> "absent"]
    /\ engineLatest = Unpinned
    /\ engineWire = <<>>
    /\ engineReader = {}
    /\ enginePresent = {}
    /\ engineOnline = TRUE

-----------------------------------------------------------------------------
(* The server.                                                             *)

\* A node that is not connected is refused; otherwise the run is created queued.
ProvisionEngine(r, v) ==
    /\ engineRow[r] = "none"
    /\ \A q \in EngineRuns : q < r => engineRow[q] # "none"
    /\ engineOnline
    /\ engineRow' = [engineRow EXCEPT ![r] = "queued"]
    /\ engineRun' = [engineRun EXCEPT ![r].pc = "dispatch", ![r].version = v]
    /\ UNCHANGED <<engineDir, engineLatest, engineWire, engineReader, enginePresent, engineOnline>>

\* start_engine_transfer reaches the node, or the row stays queued for good.
DispatchEngine(r) ==
    /\ engineRun[r].pc = "dispatch"
    /\ \/ engineOnline /\ engineRun' = [engineRun EXCEPT ![r].pc = "checksum"]
       \/ engineRun' = [engineRun EXCEPT ![r].pc = "done"]
    /\ UNCHANGED <<engineRow, engineDir, engineLatest, engineWire, engineReader, enginePresent, engineOnline>>

\* The reader writes the status, or fails to and drops the message; a completed
\* run's entry is a second statement.
HandleEngineTransferProgress ==
    LET m == Head(engineWire) IN
    /\ engineWire # <<>> /\ engineReader = {}
    /\ engineWire' = Tail(engineWire)
    /\ \/ /\ engineRow' = [engineRow EXCEPT ![m.run] = m.status]
          /\ engineReader' = IF m.status = "completed" THEN {m.run} ELSE {}
       \/ UNCHANGED <<engineRow, engineReader>>
    /\ UNCHANGED <<engineRun, engineDir, engineLatest, enginePresent, engineOnline>>

UpsertEngine(r) ==
    /\ r \in engineReader
    /\ engineReader' = {}
    /\ \/ enginePresent' = enginePresent \cup {engineRun[r].version}
       \/ UNCHANGED enginePresent
    /\ UNCHANGED <<engineRow, engineRun, engineDir, engineLatest, engineWire, engineOnline>>

-----------------------------------------------------------------------------
(* Provision, on the node.                                                 *)

\* Progress goes by the connection the command came by, or nowhere.
Reports(r, status) ==
    engineWire' = IF engineRun[r].cut THEN engineWire ELSE Append(engineWire, [run |-> r, status |-> status])

server == <<engineRow, engineReader, enginePresent, engineOnline>>
install == <<engineDir, engineLatest>>

\* Any step may fail, and says so: a checksum that does not match, a name that
\* is taken, a directory that is gone, a disk that is full.
ProvisionFails(r) ==
    /\ engineRun[r].pc \in {"checksum", "download", "verify", "extract", "replace", "rename", "measure", "link"}
    /\ Reports(r, "failed")
    /\ engineRun' = [engineRun EXCEPT ![r].pc = "done"]
    /\ UNCHANGED <<server, install>>

FetchChecksum(r) ==
    /\ engineRun[r].pc = "checksum"
    /\ Reports(r, "transferring")
    /\ engineRun' = [engineRun EXCEPT ![r].pc = "download"]
    /\ UNCHANGED <<server, install>>

\* A download to a file of its own, whole or damaged.
DownloadTarball(r) ==
    /\ engineRun[r].pc = "download"
    /\ \E t \in {"good", "bad"} : engineRun' = [engineRun EXCEPT ![r].pc = "verify", ![r].tarball = t]
    /\ UNCHANGED <<server, install, engineWire>>

\* Mutant: the hash is computed and not compared.
VerifyNothing(r) ==
    /\ engineRun[r].pc = "verify"
    /\ engineRun' = [engineRun EXCEPT ![r].pc = "extract", ![r].verified = TRUE]
    /\ UNCHANGED <<server, install, engineWire>>

Verify(r) ==
    /\ engineRun[r].pc = "verify"
    /\ engineRun[r].tarball = "good"
    /\ engineRun' = [engineRun EXCEPT ![r].pc = "extract", ![r].verified = TRUE]
    /\ UNCHANGED <<server, install, engineWire>>

\* Into a directory of its own.
Extract(r) ==
    /\ engineRun[r].pc = "extract"
    /\ engineRun' = [engineRun EXCEPT ![r].pc = "replace"]
    /\ UNCHANGED <<server, install, engineWire>>

\* The version's directory is removed ...
RemoveVersion(r) ==
    /\ engineRun[r].pc = "replace"
    /\ engineDir' = [engineDir EXCEPT ![engineRun[r].version] = "absent"]
    /\ engineRun' = [engineRun EXCEPT ![r].pc = "rename", ![r].replacing = TRUE]
    /\ UNCHANGED <<server, engineLatest, engineWire>>

\* ... or a part of it, and the run fails.
RemoveVersionFails(r) ==
    LET v == engineRun[r].version IN
    /\ engineRun[r].pc = "replace" /\ engineDir[v] # "absent"
    /\ engineDir' = [engineDir EXCEPT ![v] = "partial"]
    /\ Reports(r, "failed")
    /\ engineRun' = [engineRun EXCEPT ![r].pc = "done", ![r].replacing = TRUE]
    /\ UNCHANGED <<server, engineLatest>>

\* The extracted one takes its name, which another run must not have taken.
RenameVersion(r) ==
    LET v == engineRun[r].version IN
    /\ engineRun[r].pc = "rename" /\ engineDir[v] = "absent"
    /\ engineDir' = [engineDir EXCEPT ![v] = engineRun[r].tarball]
    /\ engineRun' = [engineRun EXCEPT ![r].pc = "measure", ![r].installed = TRUE, ![r].replacing = FALSE]
    /\ UNCHANGED <<server, engineLatest, engineWire>>

\* dirSize fails when the directory is gone again.
DirSize(r) ==
    /\ engineRun[r].pc = "measure" /\ engineDir[engineRun[r].version] # "absent"
    /\ engineRun' = [engineRun EXCEPT ![r].pc = "link"]
    /\ UNCHANGED <<server, install, engineWire>>

SwapLatestSymlink(r) ==
    /\ engineRun[r].pc = "link"
    /\ engineLatest' = engineRun[r].version
    /\ Reports(r, "completed")
    /\ engineRun' = [engineRun EXCEPT ![r].pc = "done"]
    /\ UNCHANGED <<server, engineDir>>

-----------------------------------------------------------------------------
(* Losses.                                                                 *)

\* The connection drops: what is on the wire, and what the runs still say, is lost.
NodeDrops ==
    /\ engineOnline
    /\ engineOnline' = FALSE
    /\ engineWire' = <<>>
    /\ engineRun' = [r \in EngineRuns |-> [engineRun[r] EXCEPT !.cut = (@ \/ engineRun[r].pc \notin {"none", "dispatch"})]]
    /\ UNCHANGED <<engineRow, engineReader, enginePresent, install>>

NodeReturns ==
    /\ ~engineOnline
    /\ engineOnline' = TRUE
    /\ UNCHANGED <<engineRow, engineRun, engineReader, enginePresent, engineWire, install>>

\* The agent dies, its runs with it; a removal may be half done.
AgentStops ==
    /\ engineOnline' = FALSE
    /\ engineWire' = <<>>
    /\ \E half \in SUBSET {r \in EngineRuns : engineRun[r].pc = "replace" /\ engineDir[engineRun[r].version] # "absent"} :
         /\ engineDir' = [v \in Versions |-> IF \E r \in half : engineRun[r].version = v THEN "partial" ELSE engineDir[v]]
         /\ engineRun' = [r \in EngineRuns |->
                IF engineRun[r].pc \in {"none", "dispatch"} THEN engineRun[r]
                ELSE [engineRun[r] EXCEPT !.pc = "done", !.cut = TRUE, !.replacing = @ \/ r \in half]]
    /\ UNCHANGED <<engineRow, engineReader, enginePresent, engineLatest>>

EngineCalls == \E r \in EngineRuns, v \in Versions : ProvisionEngine(r, v)

EngineSteps ==
    \/ \E r \in EngineRuns :
         \/ DispatchEngine(r) \/ UpsertEngine(r) \/ ProvisionFails(r) \/ FetchChecksum(r) \/ DownloadTarball(r)
         \/ Verify(r) \/ Extract(r) \/ RemoveVersion(r) \/ RemoveVersionFails(r) \/ RenameVersion(r)
         \/ DirSize(r) \/ SwapLatestSymlink(r)
    \/ HandleEngineTransferProgress

EngineLosses == NodeDrops \/ NodeReturns \/ AgentStops

EnginesSpec == EnginesInit /\ [][EngineCalls \/ EngineSteps \/ EngineLosses]_engineVars

-----------------------------------------------------------------------------
(* Launches.                                                               *)

\* A profile pinned to a version gets that version's directory, any other the
\* one latest points at.
ResolveEngineBinaryPath(pin) == IF pin = Unpinned THEN engineLatest ELSE pin

(* PROPERTIES                                                              *)

EngineStages == {"none", "dispatch", "checksum", "download", "verify", "extract", "replace", "rename", "measure", "link", "done"}
EngineRunStates == [pc : EngineStages, version : Versions \cup {Unpinned}, tarball : {"none", "good", "bad"},
                    cut : BOOLEAN, verified : BOOLEAN, installed : BOOLEAN, replacing : BOOLEAN]
EngineReports == [run : EngineRuns, status : {"transferring", "completed", "failed"}]

\* The state is of the types of the tables, the runs, the disk and the wire.
EngineTypes ==
    /\ engineRow \in [EngineRuns -> {"none", "queued", "transferring", "completed", "failed"}]
    /\ engineRun \in [EngineRuns -> EngineRunStates]
    /\ engineDir \in [Versions -> {"absent", "good", "bad", "partial"}]
    /\ engineLatest \in Versions \cup {Unpinned}
    /\ engineWire \in Seq(EngineReports)
    /\ engineReader \subseteq EngineRuns
    /\ enginePresent \subseteq Versions
    /\ engineOnline \in BOOLEAN

\* Whatever runs of the same or of different versions do at once, and wherever
\* one is cut short: a launch never finds content that did not match its
\* checksum, a run recorded completed verified and installed it, and a version
\* that latest or the inventory names is whole on the node unless a run had
\* begun to replace it and has not put the new one in place (Provision,
\* swapLatestSymlink, HandleEngineTransferProgress, resolveEngineBinaryPath).
EngineWasVerified ==
    /\ \A pin \in Versions \cup {Unpinned} :
         LET v == ResolveEngineBinaryPath(pin) IN v # Unpinned => engineDir[v] # "bad"
    /\ \A r \in EngineRuns : engineRow[r] = "completed" => engineRun[r].verified /\ engineRun[r].installed
    /\ \A v \in enginePresent \cup ({engineLatest} \ {Unpinned}) :
         \/ engineDir[v] = "good"
         \/ \E r \in EngineRuns : engineRun[r].version = v /\ engineRun[r].replacing
=============================================================================
