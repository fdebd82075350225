--------------------------- MODULE ServicesProofs ---------------------------
(***************************************************************************)
(* Proofs about the services beside launches, transfers and logs, for any  *)
(* number of runs, versions, requests, instances and files.                *)
(***************************************************************************)
EXTENDS Engines, StaleContainers, Inventory, Schedule, SequenceFacts, FiniteSetTheorems, WellFoundedInduction

(* Engines.                                                                *)

\* How far a run's own record may be trusted: what it extracts was verified,
\* what it measures and links was installed, and a run that was not requested
\* has done nothing.
EngineRunOrdered(x) ==
    /\ x.pc = "none" => ~x.installed /\ ~x.replacing
    /\ x.pc # "none" => x.version \in Versions
    /\ x.pc \in {"extract", "replace", "rename", "measure", "link"} => x.verified /\ x.tarball = "good"
    /\ x.pc \in {"measure", "link"} => x.installed
    /\ x.installed => x.verified

EngineRunsOrdered == \A r \in EngineRuns : EngineRunOrdered(engineRun[r])

\* Rows, reports and the reader only speak of runs that were requested, and of
\* a completed run only when it installed what it verified.
EngineRowsTrue ==
    \A r \in EngineRuns : /\ engineRow[r] = "none" => engineRun[r].pc = "none"
                          /\ engineRow[r] = "completed" => engineRun[r].installed
EngineReportsTrue ==
    \A m \in Range(engineWire) : /\ engineRun[m.run].pc # "none"
                                 /\ m.status = "completed" => engineRun[m.run].installed
EngineReaderTrue == \A r \in engineReader : engineRun[r].pc # "none" /\ engineRun[r].installed

\* A version in place, or being replaced by a run that has not put it back.
KeptWhole(v) ==
    \/ engineDir[v] = "good"
    \/ \E r \in EngineRuns : engineRun[r].version = v /\ engineRun[r].replacing

\* No directory has unverified content; what was ever installed, shown or
\* linked is in place or being replaced.
EngineDirsGood == \A v \in Versions : engineDir[v] # "bad"
InstalledKept == \A r \in EngineRuns : engineRun[r].installed => KeptWhole(engineRun[r].version)
NamedKept == \A v \in enginePresent \cup ({engineLatest} \ {Unpinned}) : KeptWhole(v)

EngineInv ==
    /\ EngineTypes
    /\ EngineRunsOrdered
    /\ EngineRowsTrue
    /\ EngineReportsTrue
    /\ EngineReaderTrue
    /\ EngineDirsGood
    /\ InstalledKept
    /\ NamedKept

\* At first nothing was requested or installed.
LEMMA EnginesInitInv == EnginesInit => EngineInv
  <1> SUFFICES ASSUME EnginesInit PROVE EngineInv
      OBVIOUS
  <1> USE DEF EnginesInit
  <1>1. NoRun \in EngineRunStates /\ EngineRunOrdered(NoRun) /\ NoRun.pc = "none" /\ ~NoRun.installed
      BY DEF NoRun, EngineRunStates, EngineStages, EngineRunOrdered
  <1>2. EngineTypes
      BY <1>1 DEF EngineTypes
  <1>3. EngineRunsOrdered /\ EngineRowsTrue /\ EngineReaderTrue /\ EngineDirsGood /\ InstalledKept /\ NamedKept
      BY <1>1 DEF EngineRunsOrdered, EngineRowsTrue, EngineReaderTrue, EngineDirsGood, InstalledKept, NamedKept
  <1>4. EngineReportsTrue
      BY EmptyRange DEF EngineReportsTrue
  <1> QED BY <1>2, <1>3, <1>4 DEF EngineInv

\* A step of one requested run: it forgets nothing it did, takes a good
\* directory away only while it replaces it, and reports only what it did.
LEMMA RunMoves ==
    ASSUME EngineInv, NEW r \in EngineRuns, NEW x \in EngineRunStates, engineRun' = [engineRun EXCEPT ![r] = x],
           engineRun[r].pc # "none", x.pc # "none", EngineRunOrdered(x), x.version = engineRun[r].version,
           engineRun[r].installed => x.installed,
           x.installed /\ ~engineRun[r].installed => engineDir'[x.version] = "good",
           engineRun[r].replacing /\ ~x.replacing => engineDir'[x.version] = "good",
           engineDir' \in [Versions -> {"absent", "good", "partial"}],
           \A v \in Versions : engineDir[v] = "good" => engineDir'[v] = "good" \/ (v = x.version /\ x.replacing),
           engineLatest' = engineLatest \/ (engineLatest' = x.version /\ x.installed),
           engineWire' \in Seq(EngineReports),
           \A m \in Range(engineWire') : m \in Range(engineWire) \/ (m.run = r /\ (m.status = "completed" => x.installed)),
           UNCHANGED server
    PROVE  EngineInv'
  <1>1. /\ engineRun \in [EngineRuns -> EngineRunStates]
        /\ engineDir \in [Versions -> {"absent", "good", "bad", "partial"}]
        /\ engineLatest \in Versions \cup {Unpinned} /\ engineReader \subseteq EngineRuns /\ enginePresent \subseteq Versions
      BY DEF EngineInv, EngineTypes
  <1>2. UNCHANGED <<engineRow, engineReader, enginePresent, engineOnline>>
      BY DEF server
  <1>3. engineRun' \in [EngineRuns -> EngineRunStates] /\ \A q \in EngineRuns : engineRun'[q] = IF q = r THEN x ELSE engineRun[q]
      BY <1>1
  <1>4. x.version \in Versions
      BY DEF EngineRunOrdered
  <1>5. engineLatest' \in Versions \cup {Unpinned}
      BY <1>1, <1>4
  <1>6. EngineTypes'
      BY <1>2, <1>3, <1>5 DEF EngineInv, EngineTypes
  <1>7. EngineRunsOrdered'
      BY <1>3 DEF EngineInv, EngineRunsOrdered
  <1>8. EngineRowsTrue' /\ EngineReaderTrue'
      BY <1>1, <1>2, <1>3 DEF EngineInv, EngineRowsTrue, EngineReaderTrue
  <1>9. EngineReportsTrue'
      <2>1. engineWire \in Seq(EngineReports)
          BY DEF EngineInv, EngineTypes
      <2>2. Range(engineWire) \subseteq EngineReports
          BY <2>1, RangeType
      <2>3. \A m \in Range(engineWire) : m.run \in EngineRuns
          BY <2>2 DEF EngineReports
      <2> QED BY <1>3, <2>3 DEF EngineInv, EngineReportsTrue
  <1>10. EngineDirsGood'
      BY DEF EngineDirsGood
  <1>11. ASSUME NEW v \in Versions, KeptWhole(v) PROVE KeptWhole(v)'
      <2>1. CASE engineDir[v] = "good"
          BY <1>3, <2>1 DEF KeptWhole
      <2>2. ASSUME NEW q \in EngineRuns, engineRun[q].version = v, engineRun[q].replacing PROVE KeptWhole(v)'
          BY <1>3, <2>2 DEF KeptWhole
      <2> QED BY <1>11, <2>1, <2>2 DEF KeptWhole
  <1>12. x.installed => KeptWhole(x.version)'
      <2>1. CASE engineRun[r].installed
          BY <1>4, <1>11, <2>1 DEF EngineInv, InstalledKept
      <2>2. CASE ~engineRun[r].installed
          BY <2>2 DEF KeptWhole
      <2> QED BY <2>1, <2>2
  <1>13. InstalledKept'
      <2> SUFFICES ASSUME NEW q \in EngineRuns, engineRun'[q].installed, NEW v, v = engineRun'[q].version
                   PROVE  KeptWhole(v)'
          BY DEF InstalledKept, KeptWhole
      <2>1. CASE q = r
          BY <1>3, <1>12, <2>1
      <2>2. CASE q # r
          <3>1. v = engineRun[q].version /\ engineRun[q].installed /\ engineRun[q].version \in Versions
              BY <1>3, <2>2 DEF EngineInv, EngineRunsOrdered, EngineRunOrdered
          <3>2. KeptWhole(v)
              BY <3>1 DEF EngineInv, InstalledKept
          <3> QED BY <1>11, <3>1, <3>2
      <2> QED BY <2>1, <2>2
  <1>14. NamedKept'
      BY <1>1, <1>2, <1>11, <1>12 DEF EngineInv, NamedKept
  <1> QED BY <1>6, <1>7, <1>8, <1>9, <1>10, <1>13, <1>14 DEF EngineInv

\* A report adds itself to the wire, or nothing.
LEMMA ReportAdds ==
    ASSUME EngineInv, NEW r \in EngineRuns, NEW status \in {"transferring", "completed", "failed"}, Reports(r, status)
    PROVE  /\ engineWire' \in Seq(EngineReports)
           /\ \A m \in Range(engineWire') : m \in Range(engineWire) \/ (m.run = r /\ m.status = status)
  <1> DEFINE m == [run |-> r, status |-> status]
  <1>1. m \in EngineReports /\ m.run = r /\ m.status = status
      BY DEF EngineReports
  <1>2. engineWire \in Seq(EngineReports)
      BY DEF EngineInv, EngineTypes
  <1>3. engineWire' \in {engineWire, Append(engineWire, m)}
      BY DEF Reports
  <1> HIDE DEF m
  <1>4. Append(engineWire, m) \in Seq(EngineReports) /\ Range(Append(engineWire, m)) = Range(engineWire) \cup {m}
      BY <1>1, <1>2, AppendRange
  <1> QED BY <1>1, <1>2, <1>3, <1>4

\* Every step of a run on the node.
LEMMA RunStepsKeep ==
    ASSUME EngineInv, NEW r \in EngineRuns,
           \/ DispatchEngine(r) \/ ProvisionFails(r) \/ FetchChecksum(r) \/ DownloadTarball(r) \/ Verify(r) \/ Extract(r)
           \/ RemoveVersion(r) \/ RemoveVersionFails(r) \/ RenameVersion(r) \/ DirSize(r) \/ SwapLatestSymlink(r)
    PROVE  EngineInv'
  <1> DEFINE x == engineRun[r]
             v == x.version
             Moved(pc) == [x EXCEPT !.pc = pc]
  <1>1. /\ engineRun \in [EngineRuns -> EngineRunStates] /\ x \in EngineRunStates /\ EngineRunOrdered(x)
        /\ engineDir \in [Versions -> {"absent", "good", "partial"}] /\ engineWire \in Seq(EngineReports)
      BY DEF EngineInv, EngineTypes, EngineRunsOrdered, EngineDirsGood
  <1>2. ASSUME NEW pc \in EngineStages, x.pc # "none", pc # "none", EngineRunOrdered(Moved(pc)), engineRun' = [engineRun EXCEPT ![r].pc = pc],
               UNCHANGED engineDir, engineLatest' = engineLatest \/ (engineLatest' = v /\ x.installed),
               engineWire' \in Seq(EngineReports),
               \A m \in Range(engineWire') : m \in Range(engineWire) \/ (m.run = r /\ (m.status = "completed" => x.installed)),
               UNCHANGED server
        PROVE  EngineInv'
      <2> DEFINE y == Moved(pc)
      <2>1. /\ y \in EngineRunStates /\ y.pc = pc /\ y.version = v /\ EngineRunOrdered(y)
            /\ y.installed = x.installed /\ y.replacing = x.replacing
          BY <1>1, <1>2 DEF EngineRunStates
      <2>2. engineRun' = [engineRun EXCEPT ![r] = y]
          BY <1>1, <1>2
      <2> HIDE DEF y
      <2>3. engineDir' \in [Versions -> {"absent", "good", "partial"}] /\ engineDir' = engineDir
          BY <1>1, <1>2
      <2>4. \A m \in Range(engineWire') : m \in Range(engineWire) \/ (m.run = r /\ (m.status = "completed" => y.installed))
          BY <1>2, <2>1
      <2>5. engineLatest' = engineLatest \/ (engineLatest' = y.version /\ y.installed)
          BY <1>2, <2>1
      <2> QED BY <1>2, <2>1, <2>2, <2>3, <2>4, <2>5, RunMoves
  <1>3. CASE DispatchEngine(r)
      <2>1. PICK pc \in {"checksum", "done"} : engineRun' = [engineRun EXCEPT ![r].pc = pc]
          BY <1>3 DEF DispatchEngine
      <2>2. x.pc = "dispatch" /\ UNCHANGED <<engineRow, engineReader, enginePresent, engineOnline, engineDir, engineLatest, engineWire>>
          BY <1>3 DEF DispatchEngine
      <2>3. EngineRunOrdered(Moved(pc))
          BY <1>1, <2>2 DEF EngineRunOrdered, EngineRunStates
      <2> QED BY <1>1, <1>2, <2>1, <2>2, <2>3 DEF EngineStages, server
  <1>4. CASE ProvisionFails(r)
      <2>1. /\ x.pc # "none" /\ engineRun' = [engineRun EXCEPT ![r].pc = "done"] /\ Reports(r, "failed")
            /\ UNCHANGED <<engineDir, engineLatest>> /\ UNCHANGED server
          BY <1>4 DEF ProvisionFails, install
      <2>2. EngineRunOrdered(Moved("done"))
          BY <1>1, <2>1 DEF EngineRunOrdered, EngineRunStates
      <2>3. engineWire' \in Seq(EngineReports) /\ \A m \in Range(engineWire') : m \in Range(engineWire) \/ (m.run = r /\ m.status = "failed")
          BY <2>1, ReportAdds
      <2> QED BY <1>2, <2>1, <2>2, <2>3 DEF EngineStages
  <1>5. CASE FetchChecksum(r)
      <2>1. /\ x.pc = "checksum" /\ engineRun' = [engineRun EXCEPT ![r].pc = "download"] /\ Reports(r, "transferring")
            /\ UNCHANGED <<engineDir, engineLatest>> /\ UNCHANGED server
          BY <1>5 DEF FetchChecksum, install
      <2>2. EngineRunOrdered(Moved("download"))
          BY <1>1, <2>1 DEF EngineRunOrdered, EngineRunStates
      <2>3. engineWire' \in Seq(EngineReports) /\ \A m \in Range(engineWire') : m \in Range(engineWire) \/ (m.run = r /\ m.status = "transferring")
          BY <2>1, ReportAdds
      <2> QED BY <1>2, <2>1, <2>2, <2>3 DEF EngineStages
  <1>6. CASE Extract(r)
      <2>1. /\ x.pc = "extract" /\ engineRun' = [engineRun EXCEPT ![r].pc = "replace"]
            /\ UNCHANGED <<engineDir, engineLatest, engineWire>> /\ UNCHANGED server
          BY <1>6 DEF Extract, install
      <2>2. EngineRunOrdered(Moved("replace"))
          BY <1>1, <2>1 DEF EngineRunOrdered, EngineRunStates
      <2> QED BY <1>1, <1>2, <2>1, <2>2 DEF EngineStages
  <1>7. CASE DirSize(r)
      <2>1. /\ x.pc = "measure" /\ engineRun' = [engineRun EXCEPT ![r].pc = "link"]
            /\ UNCHANGED <<engineDir, engineLatest, engineWire>> /\ UNCHANGED server
          BY <1>7 DEF DirSize, install
      <2>2. EngineRunOrdered(Moved("link"))
          BY <1>1, <2>1 DEF EngineRunOrdered, EngineRunStates
      <2> QED BY <1>1, <1>2, <2>1, <2>2 DEF EngineStages
  <1>8. CASE SwapLatestSymlink(r)
      <2>1. /\ x.pc = "link" /\ engineRun' = [engineRun EXCEPT ![r].pc = "done"] /\ Reports(r, "completed")
            /\ engineLatest' = v /\ UNCHANGED engineDir /\ UNCHANGED server
          BY <1>8 DEF SwapLatestSymlink
      <2>2. EngineRunOrdered(Moved("done")) /\ x.installed
          BY <1>1, <2>1 DEF EngineRunOrdered, EngineRunStates
      <2>3. engineWire' \in Seq(EngineReports) /\ \A m \in Range(engineWire') : m \in Range(engineWire) \/ (m.run = r /\ m.status = "completed")
          BY <2>1, ReportAdds
      <2> QED BY <1>2, <2>1, <2>2, <2>3 DEF EngineStages
  <1>9. CASE DownloadTarball(r)
      <2>1. PICK t \in {"good", "bad"} : engineRun' = [engineRun EXCEPT ![r].pc = "verify", ![r].tarball = t]
          BY <1>9 DEF DownloadTarball
      <2>2. x.pc = "download" /\ UNCHANGED <<engineDir, engineLatest, engineWire>> /\ UNCHANGED server
          BY <1>9 DEF DownloadTarball, install
      <2> DEFINE y == [x EXCEPT !.pc = "verify", !.tarball = t]
      <2>3. /\ y \in EngineRunStates /\ EngineRunOrdered(y) /\ y.pc # "none" /\ y.version = v
            /\ y.installed = x.installed /\ y.replacing = x.replacing
          BY <1>1, <2>2 DEF EngineRunOrdered, EngineRunStates, EngineStages
      <2>4. engineRun' = [engineRun EXCEPT ![r] = y]
          BY <1>1, <2>1
      <2> HIDE DEF y
      <2> QED BY <1>1, <2>2, <2>3, <2>4, RunMoves
  <1>10. CASE Verify(r)
      <2>1. x.pc = "verify" /\ x.tarball = "good" /\ UNCHANGED <<engineDir, engineLatest, engineWire>> /\ UNCHANGED server
          BY <1>10 DEF Verify, install
      <2> DEFINE y == [x EXCEPT !.pc = "extract", !.verified = TRUE]
      <2>2. /\ y \in EngineRunStates /\ EngineRunOrdered(y) /\ y.pc # "none" /\ y.version = v
            /\ y.installed = x.installed /\ y.replacing = x.replacing
          BY <1>1, <2>1 DEF EngineRunOrdered, EngineRunStates, EngineStages
      <2>3. engineRun' = [engineRun EXCEPT ![r] = y]
          BY <1>1, <1>10 DEF Verify
      <2> HIDE DEF y
      <2> QED BY <1>1, <2>1, <2>2, <2>3, RunMoves
  <1>11. CASE RemoveVersion(r)
      <2>1. x.pc = "replace" /\ engineDir' = [engineDir EXCEPT ![v] = "absent"] /\ UNCHANGED <<engineLatest, engineWire>> /\ UNCHANGED server
          BY <1>11 DEF RemoveVersion
      <2> DEFINE y == [x EXCEPT !.pc = "rename", !.replacing = TRUE]
      <2>2. /\ y \in EngineRunStates /\ EngineRunOrdered(y) /\ y.pc # "none" /\ y.version = v
            /\ y.installed = x.installed /\ y.replacing
          BY <1>1, <2>1 DEF EngineRunOrdered, EngineRunStates, EngineStages
      <2>3. engineRun' = [engineRun EXCEPT ![r] = y]
          BY <1>1, <1>11 DEF RemoveVersion
      <2> HIDE DEF y, v
      <2>4. engineDir' \in [Versions -> {"absent", "good", "partial"}] /\ \A w \in Versions : w # v => engineDir'[w] = engineDir[w]
          BY <1>1, <2>1
      <2> QED BY <1>1, <2>1, <2>2, <2>3, <2>4, RunMoves DEF v
  <1>12. CASE RemoveVersionFails(r)
      <2>1. /\ x.pc = "replace" /\ engineDir' = [engineDir EXCEPT ![v] = "partial"] /\ UNCHANGED engineLatest
            /\ Reports(r, "failed") /\ UNCHANGED server
          BY <1>12 DEF RemoveVersionFails
      <2> DEFINE y == [x EXCEPT !.pc = "done", !.replacing = TRUE]
      <2>2. /\ y \in EngineRunStates /\ EngineRunOrdered(y) /\ y.pc # "none" /\ y.version = v
            /\ y.installed = x.installed /\ y.replacing
          BY <1>1, <2>1 DEF EngineRunOrdered, EngineRunStates, EngineStages
      <2>3. engineRun' = [engineRun EXCEPT ![r] = y]
          BY <1>1, <1>12 DEF RemoveVersionFails
      <2>4. engineWire' \in Seq(EngineReports) /\ \A m \in Range(engineWire') : m \in Range(engineWire) \/ (m.run = r /\ m.status = "failed")
          BY <2>1, ReportAdds
      <2> HIDE DEF y, v
      <2>5. engineDir' \in [Versions -> {"absent", "good", "partial"}] /\ \A w \in Versions : w # v => engineDir'[w] = engineDir[w]
          BY <1>1, <2>1
      <2> QED BY <1>1, <2>1, <2>2, <2>3, <2>4, <2>5, RunMoves DEF v
  <1>13. CASE RenameVersion(r)
      <2>1. x.pc = "rename" /\ engineDir' = [engineDir EXCEPT ![v] = x.tarball] /\ UNCHANGED <<engineLatest, engineWire>> /\ UNCHANGED server
          BY <1>13 DEF RenameVersion
      <2> DEFINE y == [x EXCEPT !.pc = "measure", !.installed = TRUE, !.replacing = FALSE]
      <2>2. /\ y \in EngineRunStates /\ EngineRunOrdered(y) /\ y.pc # "none" /\ y.version = v
            /\ y.installed /\ x.tarball = "good" /\ v \in Versions
          BY <1>1, <2>1 DEF EngineRunOrdered, EngineRunStates, EngineStages
      <2>3. engineRun' = [engineRun EXCEPT ![r] = y]
          BY <1>1, <1>13 DEF RenameVersion
      <2> HIDE DEF y, v
      <2>4. /\ engineDir' \in [Versions -> {"absent", "good", "partial"}] /\ engineDir'[v] = "good"
            /\ \A w \in Versions : w # v => engineDir'[w] = engineDir[w]
          BY <1>1, <2>1, <2>2
      <2> QED BY <1>1, <2>1, <2>2, <2>3, <2>4, RunMoves DEF v
  <1> QED BY <1>3, <1>4, <1>5, <1>6, <1>7, <1>8, <1>9, <1>10, <1>11, <1>12, <1>13

\* A request makes a run of what was none.
LEMMA ProvisionKeeps ==
    ASSUME EngineInv, NEW r \in EngineRuns, NEW v \in Versions, ProvisionEngine(r, v)
    PROVE  EngineInv'
  <1> DEFINE x == engineRun[r]
             y == [x EXCEPT !.pc = "dispatch", !.version = v]
  <1>1. /\ engineRun \in [EngineRuns -> EngineRunStates] /\ x \in EngineRunStates /\ EngineRunOrdered(x)
        /\ engineRow \in [EngineRuns -> {"none", "queued", "transferring", "completed", "failed"}]
      BY DEF EngineInv, EngineTypes, EngineRunsOrdered
  <1>2. engineRow[r] = "none" /\ x.pc = "none" /\ engineRow' = [engineRow EXCEPT ![r] = "queued"]
        /\ UNCHANGED <<engineDir, engineLatest, engineWire, engineReader, enginePresent, engineOnline>>
      BY DEF ProvisionEngine, EngineInv, EngineRowsTrue
  <1>3. engineRun' = [engineRun EXCEPT ![r] = y]
      BY <1>1 DEF ProvisionEngine
  <1>4. y \in EngineRunStates /\ y.pc = "dispatch" /\ ~y.installed /\ EngineRunOrdered(y) /\ ~x.installed /\ ~x.replacing
      BY <1>1, <1>2 DEF EngineRunStates, EngineStages, EngineRunOrdered
  <1> HIDE DEF y
  <1>5. engineRun' \in [EngineRuns -> EngineRunStates] /\ \A q \in EngineRuns : engineRun'[q] = IF q = r THEN y ELSE engineRun[q]
      BY <1>1, <1>3, <1>4
  <1>6. engineRow' \in [EngineRuns -> {"none", "queued", "transferring", "completed", "failed"}]
        /\ \A q \in EngineRuns : engineRow'[q] = IF q = r THEN "queued" ELSE engineRow[q]
      BY <1>1, <1>2
  <1>7. EngineTypes'
      BY <1>2, <1>5, <1>6 DEF EngineInv, EngineTypes
  <1>8. EngineRunsOrdered' /\ EngineRowsTrue'
      BY <1>4, <1>5, <1>6 DEF EngineInv, EngineRunsOrdered, EngineRowsTrue
  <1>9. EngineReaderTrue'
      BY <1>2, <1>5 DEF EngineInv, EngineReaderTrue, EngineTypes
  <1>10. EngineReportsTrue'
      <2>1. engineWire \in Seq(EngineReports)
          BY DEF EngineInv, EngineTypes
      <2>2. Range(engineWire) \subseteq EngineReports
          BY <2>1, RangeType
      <2>3. \A m \in Range(engineWire) : m.run \in EngineRuns /\ m.run # r
          BY <1>2, <2>2 DEF EngineReports, EngineInv, EngineReportsTrue
      <2> QED BY <1>2, <1>5, <2>3 DEF EngineInv, EngineReportsTrue
  <1>11. EngineDirsGood'
      BY <1>2 DEF EngineInv, EngineDirsGood
  <1>12. ASSUME NEW w, KeptWhole(w) PROVE KeptWhole(w)'
      BY <1>2, <1>4, <1>5, <1>12 DEF KeptWhole
  <1>13. InstalledKept'
      <2> SUFFICES ASSUME NEW q \in EngineRuns, engineRun'[q].installed, NEW w, w = engineRun'[q].version
                   PROVE  KeptWhole(w)'
          BY DEF InstalledKept, KeptWhole
      <2>1. q # r /\ KeptWhole(w)
          BY <1>4, <1>5 DEF EngineInv, InstalledKept
      <2> QED BY <1>12, <2>1
  <1>14. NamedKept'
      BY <1>2, <1>12 DEF EngineInv, NamedKept
  <1> QED BY <1>7, <1>8, <1>9, <1>10, <1>11, <1>13, <1>14 DEF EngineInv

\* The server's side of a report.
LEMMA ReaderKeeps ==
    ASSUME EngineInv, HandleEngineTransferProgress \/ \E r \in EngineRuns : UpsertEngine(r)
    PROVE  EngineInv'
  <1>1. /\ engineRow \in [EngineRuns -> {"none", "queued", "transferring", "completed", "failed"}]
        /\ engineWire \in Seq(EngineReports) /\ engineReader \subseteq EngineRuns /\ enginePresent \subseteq Versions
      BY DEF EngineInv, EngineTypes
  <1>2. UNCHANGED <<engineRun, engineDir, engineLatest, engineOnline>>
      BY DEF HandleEngineTransferProgress, UpsertEngine
  <1>3. ASSUME NEW w, KeptWhole(w) PROVE KeptWhole(w)'
      BY <1>2, <1>3 DEF KeptWhole
  <1>4. EngineRunsOrdered' /\ EngineDirsGood' /\ InstalledKept'
      BY <1>2 DEF EngineInv, EngineRunsOrdered, EngineDirsGood, InstalledKept, KeptWhole
  <1>5. ASSUME HandleEngineTransferProgress PROVE EngineInv'
      <2> DEFINE m == Head(engineWire)
      <2>1. /\ engineWire # <<>> /\ engineWire' = Tail(engineWire) /\ UNCHANGED enginePresent
            /\ \/ /\ engineRow' = [engineRow EXCEPT ![m.run] = m.status]
                  /\ engineReader' = IF m.status = "completed" THEN {m.run} ELSE {}
               \/ UNCHANGED <<engineRow, engineReader>>
          BY <1>5 DEF HandleEngineTransferProgress
      <2>2. /\ m \in EngineReports /\ m \in Range(engineWire)
            /\ Tail(engineWire) \in Seq(EngineReports) /\ Range(Tail(engineWire)) \subseteq Range(engineWire)
          BY <1>1, <2>1, TailRange
      <2> HIDE DEF m
      <2>3. /\ m.run \in EngineRuns /\ m.status \in {"transferring", "completed", "failed"}
            /\ engineRun[m.run].pc # "none" /\ (m.status = "completed" => engineRun[m.run].installed)
          BY <2>2 DEF EngineReports, EngineInv, EngineReportsTrue
      <2>4. EngineReportsTrue'
          BY <1>2, <2>1, <2>2 DEF EngineInv, EngineReportsTrue
      <2>5. engineReader' \subseteq EngineRuns /\ EngineReaderTrue'
          BY <1>1, <1>2, <2>1, <2>3 DEF EngineInv, EngineReaderTrue
      <2>6. engineRow' \in [EngineRuns -> {"none", "queued", "transferring", "completed", "failed"}]
            /\ \A q \in EngineRuns : engineRow'[q] = engineRow[q] \/ (q = m.run /\ engineRow'[q] = m.status)
          BY <1>1, <2>1, <2>3
      <2>7. EngineRowsTrue'
          BY <1>2, <2>3, <2>6 DEF EngineInv, EngineRowsTrue
      <2>8. EngineTypes'
          BY <1>2, <2>1, <2>2, <2>5, <2>6 DEF EngineInv, EngineTypes
      <2>9. NamedKept'
          BY <1>2, <1>3, <2>1 DEF EngineInv, NamedKept
      <2> QED BY <1>4, <2>4, <2>5, <2>7, <2>8, <2>9 DEF EngineInv
  <1>6. ASSUME NEW r \in EngineRuns, UpsertEngine(r) PROVE EngineInv'
      <2>1. /\ r \in engineReader /\ engineReader' = {} /\ UNCHANGED <<engineRow, engineWire>>
            /\ enginePresent' \subseteq enginePresent \cup {engineRun[r].version}
          BY <1>6 DEF UpsertEngine
      <2>2. engineRun[r].pc # "none" /\ engineRun[r].installed
          BY <2>1 DEF EngineInv, EngineReaderTrue
      <2>3. engineRun[r].version \in Versions /\ KeptWhole(engineRun[r].version)
          BY <2>2 DEF EngineInv, EngineRunsOrdered, EngineRunOrdered, InstalledKept
      <2>4. EngineTypes'
          BY <1>1, <1>2, <2>1, <2>3 DEF EngineInv, EngineTypes
      <2>5. EngineRowsTrue' /\ EngineReportsTrue' /\ EngineReaderTrue'
          BY <1>2, <2>1 DEF EngineInv, EngineRowsTrue, EngineReportsTrue, EngineReaderTrue
      <2>6. NamedKept'
          <3> SUFFICES ASSUME NEW w \in enginePresent' \cup ({engineLatest} \ {Unpinned}) PROVE KeptWhole(w)'
              BY <1>2 DEF NamedKept
          <3>1. KeptWhole(w)
              BY <2>1, <2>3 DEF EngineInv, NamedKept
          <3> QED BY <1>3, <3>1
      <2> QED BY <1>4, <2>4, <2>5, <2>6 DEF EngineInv
  <1> QED BY <1>5, <1>6

\* What happens to all runs at once: a run may end, and may be found to have
\* been replacing a version.
LEMMA LossMoves ==
    ASSUME EngineInv, engineRun' \in [EngineRuns -> EngineRunStates],
           \A q \in EngineRuns : /\ EngineRunOrdered(engineRun'[q])
                                 /\ engineRun'[q].pc = "none" <=> engineRun[q].pc = "none"
                                 /\ engineRun'[q].version = engineRun[q].version
                                 /\ engineRun'[q].installed = engineRun[q].installed
                                 /\ engineRun[q].replacing => engineRun'[q].replacing,
           engineDir' \in [Versions -> {"absent", "good", "partial"}],
           \A v \in Versions : engineDir[v] = "good" =>
               engineDir'[v] = "good" \/ \E q \in EngineRuns : engineRun'[q].version = v /\ engineRun'[q].replacing,
           engineWire' = <<>> \/ UNCHANGED engineWire, engineOnline' \in BOOLEAN,
           UNCHANGED <<engineRow, engineReader, enginePresent, engineLatest>>
    PROVE  EngineInv'
  <1>1. /\ engineWire \in Seq(EngineReports) /\ engineReader \subseteq EngineRuns /\ enginePresent \subseteq Versions
        /\ engineLatest \in Versions \cup {Unpinned} /\ engineRun \in [EngineRuns -> EngineRunStates]
      BY DEF EngineInv, EngineTypes
  <1>2. engineWire' \in Seq(EngineReports) /\ Range(engineWire') \subseteq Range(engineWire)
      BY <1>1, EmptyRange, EmptySeq
  <1>3. EngineTypes'
      BY <1>1, <1>2 DEF EngineInv, EngineTypes
  <1>4. EngineReportsTrue'
      <2>1. Range(engineWire) \subseteq EngineReports
          BY <1>1, RangeType
      <2>2. \A m \in Range(engineWire) : m.run \in EngineRuns
          BY <2>1 DEF EngineReports
      <2> QED BY <1>2, <2>2 DEF EngineInv, EngineReportsTrue
  <1>5. EngineRunsOrdered' /\ EngineRowsTrue' /\ EngineDirsGood' /\ EngineReaderTrue'
      BY <1>1 DEF EngineInv, EngineRunsOrdered, EngineRowsTrue, EngineDirsGood, EngineReaderTrue
  <1>6. ASSUME NEW w \in Versions, KeptWhole(w) PROVE KeptWhole(w)'
      BY <1>6 DEF KeptWhole
  <1>7. InstalledKept'
      <2> SUFFICES ASSUME NEW q \in EngineRuns, engineRun'[q].installed, NEW w, w = engineRun'[q].version
                   PROVE  KeptWhole(w)'
          BY DEF InstalledKept, KeptWhole
      <2>1. w = engineRun[q].version /\ engineRun[q].installed
          OBVIOUS
      <2>2. w \in Versions /\ KeptWhole(w)
          BY <2>1 DEF EngineInv, InstalledKept, EngineRunsOrdered, EngineRunOrdered
      <2> QED BY <1>6, <2>2
  <1>8. NamedKept'
      BY <1>1, <1>6 DEF EngineInv, NamedKept
  <1> QED BY <1>3, <1>4, <1>5, <1>7, <1>8 DEF EngineInv

\* Dropped connections and agents that die.
LEMMA LossesKeep == EngineInv /\ EngineLosses => EngineInv'
  <1> SUFFICES ASSUME EngineInv, EngineLosses PROVE EngineInv'
      OBVIOUS
  <1>1. /\ engineRun \in [EngineRuns -> EngineRunStates] /\ \A q \in EngineRuns : EngineRunOrdered(engineRun[q])
        /\ engineDir \in [Versions -> {"absent", "good", "partial"}]
      BY DEF EngineInv, EngineTypes, EngineRunsOrdered, EngineDirsGood
  <1>2. CASE NodeReturns
      BY <1>1, <1>2, LossMoves DEF NodeReturns, install
  <1>3. CASE NodeDrops
      <2>1. \A x \in EngineRunStates, c \in BOOLEAN :
               /\ [x EXCEPT !.cut = c] \in EngineRunStates
               /\ [x EXCEPT !.cut = c].pc = x.pc /\ [x EXCEPT !.cut = c].version = x.version
               /\ [x EXCEPT !.cut = c].installed = x.installed /\ [x EXCEPT !.cut = c].replacing = x.replacing
               /\ [x EXCEPT !.cut = c].verified = x.verified /\ [x EXCEPT !.cut = c].tarball = x.tarball
          BY DEF EngineRunStates
      <2>2. \A q \in EngineRuns : engineRun[q].cut \in BOOLEAN
          BY <1>1 DEF EngineRunStates
      <2> DEFINE cut(q) == engineRun[q].cut \/ engineRun[q].pc \notin {"none", "dispatch"}
      <2>3. /\ engineOnline' = FALSE /\ engineWire' = <<>>
            /\ engineRun' = [q \in EngineRuns |-> [engineRun[q] EXCEPT !.cut = cut(q)]]
            /\ UNCHANGED <<engineRow, engineReader, enginePresent, engineDir, engineLatest>>
          BY <1>3 DEF NodeDrops, install
      <2>4. \A q \in EngineRuns : cut(q) \in BOOLEAN
          BY Zenon
      <2> HIDE DEF cut
      <2>5. \A q \in EngineRuns : engineRun'[q] = [engineRun[q] EXCEPT !.cut = cut(q)]
          BY <2>3
      <2>6. engineRun' \in [EngineRuns -> EngineRunStates]
          BY <1>1, <2>1, <2>3, <2>4
      <2>7. ASSUME NEW q \in EngineRuns
            PROVE  /\ EngineRunOrdered(engineRun'[q])
                   /\ engineRun'[q].pc = engineRun[q].pc
                   /\ engineRun'[q].version = engineRun[q].version
                   /\ engineRun'[q].installed = engineRun[q].installed
                   /\ engineRun'[q].replacing = engineRun[q].replacing
          <3> DEFINE x == engineRun[q]
                     c == cut(q)
                     y == [x EXCEPT !.cut = c]
          <3>1. x \in EngineRunStates /\ c \in BOOLEAN /\ EngineRunOrdered(x) /\ engineRun'[q] = y
              BY <1>1, <2>4, <2>5
          <3> HIDE DEF x, c
          <3>2. /\ y.pc = x.pc /\ y.version = x.version /\ y.installed = x.installed /\ y.replacing = x.replacing
                /\ y.verified = x.verified /\ y.tarball = x.tarball
              BY <3>1, <2>1
          <3> HIDE DEF y
          <3>3. EngineRunOrdered(y)
              BY <3>1, <3>2 DEF EngineRunOrdered
          <3> QED BY <3>1, <3>2, <3>3 DEF x
      <2> QED BY <1>1, <2>3, <2>6, <2>7, LossMoves
  <1>4. CASE AgentStops
      <2>1. PICK half \in SUBSET {r \in EngineRuns : engineRun[r].pc = "replace" /\ engineDir[engineRun[r].version] # "absent"} :
               /\ engineDir' = [v \in Versions |-> IF \E r \in half : engineRun[r].version = v THEN "partial" ELSE engineDir[v]]
               /\ engineRun' = [r \in EngineRuns |->
                      IF engineRun[r].pc \in {"none", "dispatch"} THEN engineRun[r]
                      ELSE [engineRun[r] EXCEPT !.pc = "done", !.cut = TRUE, !.replacing = @ \/ r \in half]]
          BY <1>4 DEF AgentStops
      <2>2. engineOnline' = FALSE /\ engineWire' = <<>> /\ UNCHANGED <<engineRow, engineReader, enginePresent, engineLatest>>
          BY <1>4 DEF AgentStops
      <2> DEFINE b(q) == engineRun[q].replacing \/ q \in half
                 ended(q) == [engineRun[q] EXCEPT !.pc = "done", !.cut = TRUE, !.replacing = b(q)]
      <2>4. \A q \in EngineRuns : b(q) \in BOOLEAN /\ (engineRun[q].replacing => b(q)) /\ (q \in half => b(q))
          BY Zenon
      <2>5. \A q \in EngineRuns : engineRun'[q] = IF engineRun[q].pc \in {"none", "dispatch"} THEN engineRun[q] ELSE ended(q)
          BY <2>1
      <2>6. engineRun' = [q \in EngineRuns |-> engineRun'[q]]
          BY <2>1
      <2> HIDE DEF b
      <2>7. \A q \in EngineRuns : /\ ended(q) \in EngineRunStates /\ ended(q).pc = "done" /\ ended(q).version = engineRun[q].version
                                  /\ ended(q).installed = engineRun[q].installed /\ ended(q).replacing = b(q)
                                  /\ ended(q).verified = engineRun[q].verified
          <3> SUFFICES ASSUME NEW q \in EngineRuns
                       PROVE  /\ ended(q) \in EngineRunStates /\ ended(q).pc = "done" /\ ended(q).version = engineRun[q].version
                              /\ ended(q).installed = engineRun[q].installed /\ ended(q).replacing = b(q)
                              /\ ended(q).verified = engineRun[q].verified
              OBVIOUS
          <3> DEFINE x == engineRun[q]
                     c == b(q)
                     y == [x EXCEPT !.pc = "done", !.cut = TRUE, !.replacing = c]
          <3>1. x \in EngineRunStates /\ c \in BOOLEAN /\ ended(q) = y
              BY <1>1, <2>4
          <3> HIDE DEF x, c, ended
          <3>a. y = [x EXCEPT !.pc = "done", !.cut = TRUE, !.replacing = c]
              OBVIOUS
          <3> HIDE DEF y
          <3>2. /\ y \in EngineRunStates /\ y.pc = "done" /\ y.version = x.version
                /\ y.installed = x.installed /\ y.replacing = c /\ y.verified = x.verified
              BY <3>1, <3>a DEF EngineRunStates, EngineStages
          <3> QED BY <3>1, <3>2 DEF x, c
      <2> HIDE DEF ended
      <2>8. engineRun' \in [EngineRuns -> EngineRunStates]
          BY <1>1, <2>5, <2>6, <2>7
      <2>9. \A q \in EngineRuns : EngineRunOrdered(ended(q)) \/ engineRun[q].pc = "none"
          BY <1>1, <2>7 DEF EngineRunOrdered
      <2>10. \A q \in EngineRuns : /\ EngineRunOrdered(engineRun'[q])
                                   /\ engineRun'[q].pc = "none" <=> engineRun[q].pc = "none"
                                   /\ engineRun'[q].version = engineRun[q].version
                                   /\ engineRun'[q].installed = engineRun[q].installed
                                   /\ engineRun[q].replacing => engineRun'[q].replacing
          BY <1>1, <2>4, <2>5, <2>7, <2>9
      <2>11. \A q \in half : q \in EngineRuns /\ engineRun'[q].replacing /\ engineRun'[q].version = engineRun[q].version
          BY <2>4, <2>5, <2>7
      <2>12. engineDir' \in [Versions -> {"absent", "good", "partial"}]
          BY <1>1, <2>1
      <2>13. \A v \in Versions : engineDir[v] = "good" =>
               engineDir'[v] = "good" \/ \E q \in EngineRuns : engineRun'[q].version = v /\ engineRun'[q].replacing
          BY <2>1, <2>11
      <2> QED BY <2>2, <2>8, <2>10, <2>12, <2>13, LossMoves
  <1> QED BY <1>2, <1>3, <1>4 DEF EngineLosses

\* The inductive invariant of engine provisioning.
THEOREM EnginesInvariance == EnginesSpec => []EngineInv
  <1>1. EngineInv /\ UNCHANGED engineVars => EngineInv'
      BY DEF engineVars, EngineInv, EngineTypes, EngineRunsOrdered, EngineRowsTrue, EngineReportsTrue, EngineReaderTrue,
             EngineDirsGood, InstalledKept, NamedKept, KeptWhole
  <1>2. EngineInv /\ (EngineCalls \/ EngineSteps) => EngineInv'
      BY ProvisionKeeps, RunStepsKeep, ReaderKeeps DEF EngineCalls, EngineSteps
  <1> QED BY <1>1, <1>2, EnginesInitInv, LossesKeep, PTL DEF EnginesSpec

\* Types of engine provisioning.
THEOREM EnginesTypeCorrect == EnginesSpec => []EngineTypes
  <1>1. EngineInv => EngineTypes
      BY DEF EngineInv
  <1> QED BY <1>1, EnginesInvariance, PTL

\* However many runs of however many versions go on at once and wherever they
\* are cut short: a launch never finds unverified content, a completed run
\* verified and installed its version, and a version that latest or the
\* inventory names is whole or being replaced (Provision, swapLatestSymlink,
\* HandleEngineTransferProgress, resolveEngineBinaryPath).
THEOREM EnginesWereVerified == EnginesSpec => []EngineWasVerified
  <1>1. EngineInv => EngineWasVerified
      <2> SUFFICES ASSUME EngineInv PROVE EngineWasVerified
          OBVIOUS
      <2>1. \A pin \in Versions \cup {Unpinned} :
               ResolveEngineBinaryPath(pin) # Unpinned => engineDir[ResolveEngineBinaryPath(pin)] # "bad"
          BY DEF ResolveEngineBinaryPath, EngineInv, EngineDirsGood, EngineTypes
      <2>2. \A r \in EngineRuns : engineRow[r] = "completed" => engineRun[r].verified /\ engineRun[r].installed
          BY DEF EngineInv, EngineRowsTrue, EngineRunsOrdered, EngineRunOrdered
      <2>3. \A v \in enginePresent \cup ({engineLatest} \ {Unpinned}) :
               \/ engineDir[v] = "good"
               \/ \E r \in EngineRuns : engineRun[r].version = v /\ engineRun[r].replacing
          BY DEF EngineInv, NamedKept, KeptWhole
      <2> QED BY <2>1, <2>2, <2>3 DEF EngineWasVerified
  <1> QED BY <1>1, EnginesInvariance, PTL

-----------------------------------------------------------------------------
(* Stale containers.                                                       *)

\* While an instance is launched its record is at starting: no answer about it
\* is under way, and nothing else is done that would write it.
LaunchesHold ==
    \A i \in Instances : Task(i, "load") =>
        /\ rec[i] = "starting"
        /\ \A x \in results : x[1] # i
        /\ \A k \in {"unloading", "dispatch", "unload", "check", "alive"} : ~Task(i, k)

\* A container that call k means to remove, or the agent is about to, is of an
\* instance whose record was over when it was judged, and whose launch is; it
\* is only removed with its log stored.
CallOver(k) ==
    /\ \A i \in k.todo : k.was[i] \in Over /\ ~Task(i, "load")
    /\ k.pc \in {"ask", "asked", "answered"} => k.inst \in Instances /\ k.was[k.inst] \in Over /\ ~Task(k.inst, "load")
JobOver(j) ==
    /\ j.pc \in {"active", "state", "archive", "remove"} => j.inst \in Instances /\ j.was \in Over /\ ~Task(j.inst, "load")
    /\ j.pc = "remove" => j.outcome = "stored"

\* How much of a list L its first k parts hold, and those parts.
UpTo(L, k) == IF k * ChunkSize <= Len(L) THEN k * ChunkSize ELSE Len(L)
FirstParts(L, k) == SubSeq(L, 1, UpTo(L, k))

\* Message m is a part of list L.
IsPartOf(m, L) ==
    /\ m.items = SubSeq(L, UpTo(L, m.part) + 1, UpTo(L, m.part + 1))
    /\ m.final <=> UpTo(L, m.part + 1) = Len(L)

\* Whatever is sent, on its way or put together of a list is a part of what the
\* agent read for that request, and there is none before it was read.
JobSends(r, j) ==
    /\ j.pc = "list" => j.sent = 0
    /\ j.pc = "parts" => j.list = listed[r] /\ j.sent * ChunkSize <= Len(listed[r])
WireCarries(m) ==
    /\ m.id \in 1..requests
    /\ m.kind = "list" /\ ~m.error => IsPartOf(m, listed[m.id]) /\ agentJob[m.id].pc # "list"
CallHolds(k) ==
    /\ k.pc = "listing" => /\ k.id \in 1..requests
                           /\ k.got = FirstParts(listed[k.id], k.next)
                           /\ agentJob[k.id].pc = "list" => k.next = 0
    /\ k.pc = "lookup" => /\ k.id \in 1..requests
                          /\ k.got = listed[k.id]
                          /\ agentJob[k.id].pc # "list"

CallsGood == \A c \in Callers : CallOver(call[c]) /\ CallHolds(call[c])
JobsGood == \A r \in 1..requests : JobOver(agentJob[r]) /\ JobSends(r, agentJob[r])
WireGood == \A m \in Range(wire) : WireCarries(m)

StaleInv == StaleTypes /\ LaunchesHold /\ CallsGood /\ JobsGood /\ WireGood /\ RemovedWasOver

\* One element of a sequence is replaced.
LEMMA OneReplaced ==
    ASSUME NEW S, NEW s \in Seq(S), NEW r \in 1..Len(s), NEW e \in S, NEW t, t = [s EXCEPT ![r] = e]
    PROVE /\ t \in Seq(S) /\ Len(t) = Len(s)
          /\ \A q \in 1..Len(s) : t[q] = IF q = r THEN e ELSE s[q]
  BY ExceptSeq

\* A sequence grows by one.
LEMMA OneAdded ==
    ASSUME NEW S, NEW s \in Seq(S), NEW e \in S, NEW t, t = Append(s, e)
    PROVE /\ t \in Seq(S) /\ Len(t) = Len(s) + 1
          /\ \A q \in 1..Len(s) : t[q] = s[q]
          /\ t[Len(s) + 1] = e
  BY AppendProperties

\* What the agent lists is a sequence of instances with their containers.
LEMMA ListManagedType ==
    ASSUME cont \in [Instances -> ContainerStates]
    PROVE ListManaged \in Seq(Listings)
  <1> DEFINE S == {<<i, cont[i]>> : i \in Managed}
             n == Cardinality(S)
  <1>1. IsFiniteSet(Managed)
      BY StaleAssumption, FS_Subset DEF Managed
  <1>2. IsFiniteSet(S)
      <2> DEFINE f == [i \in Managed |-> <<i, cont[i]>>]
      <2>1. f \in Surjection(Managed, S)
          BY DEF Surjection
      <2> QED BY <1>1, <2>1, FS_Surjection DEF ExistsSurjection
  <1>3. S \subseteq Listings
      BY DEF Managed, Listings
  <1> HIDE DEF S
  <1>4. n \in Nat /\ ExistsBijection(1..n, S)
      BY <1>2, FS_CardinalityType
  <1>5. \E f \in [1..n -> S] : IsInjective(f)
      BY <1>4 DEF ExistsBijection, Bijection, Injection, IsInjective
  <1>6. SetToSeq(S) \in [1..n -> S]
      BY <1>5 DEF SetToSeq
  <1> HIDE DEF n
  <1>7. SetToSeq(S) \in [1..n -> Listings]
      BY <1>3, <1>6
  <1>8. SetToSeq(S) \in Seq(Listings)
      BY <1>4, <1>7
  <1> QED BY <1>8 DEF ListManaged, S

\* The first parts of a list and the next one are the first parts with it, and
\* the parts up to the last one are the list.
LEMMA PartsJoin ==
    ASSUME NEW L \in Seq(Listings), NEW k \in Nat
    PROVE /\ UpTo(L, k) \in 0..Len(L) /\ UpTo(L, k) <= UpTo(L, k + 1)
          /\ FirstParts(L, 0) = <<>>
          /\ FirstParts(L, k) \o SubSeq(L, UpTo(L, k) + 1, UpTo(L, k + 1)) = FirstParts(L, k + 1)
          /\ UpTo(L, k + 1) = Len(L) => FirstParts(L, k + 1) = L
  <1>1. ChunkSize \in Nat \ {0} /\ Len(L) \in Nat
      BY StaleAssumption
  <1>2. k * ChunkSize \in Nat /\ (k + 1) * ChunkSize = k * ChunkSize + ChunkSize /\ 0 * ChunkSize = 0
      BY <1>1
  <1>3. UpTo(L, k) \in 0..Len(L) /\ UpTo(L, k + 1) \in 0..Len(L) /\ UpTo(L, k) <= UpTo(L, k + 1) /\ UpTo(L, 0) = 0
      BY <1>1, <1>2 DEF UpTo
  <1>4. FirstParts(L, 0) = <<>>
      BY <1>3, SubSeqEmpty DEF FirstParts
  <1>5. \A a, b \in 0..Len(L) : a <= b => SubSeq(L, 1, a) \o SubSeq(L, a + 1, b) = SubSeq(L, 1, b)
      <2> SUFFICES ASSUME NEW a \in 0..Len(L), NEW b \in 0..Len(L), a <= b
                   PROVE SubSeq(L, 1, a) \o SubSeq(L, a + 1, b) = SubSeq(L, 1, b)
          OBVIOUS
      <2> QED BY <1>1, ConcatAdjacentSubSeq
  <1>6. FirstParts(L, k) \o SubSeq(L, UpTo(L, k) + 1, UpTo(L, k + 1)) = FirstParts(L, k + 1)
      BY <1>3, <1>5 DEF FirstParts
  <1>7. UpTo(L, k + 1) = Len(L) => FirstParts(L, k + 1) = L
      BY SubSeqFull DEF FirstParts
  <1> QED BY <1>3, <1>4, <1>6, <1>7

\* A call that does nothing.
LEMMA NoCallGood == NoCall \in CallStates /\ CallOver(NoCall) /\ CallHolds(NoCall)
  <1>1. NoCall.verdict \in Verdicts
      <2>1. NoCall.verdict \in [{} -> {"orphan", "live", "other", "stale", "recent"}] /\ {} \in SUBSET Instances
          BY DEF NoCall
      <2> QED BY <2>1 DEF Verdicts
  <1>2. NoCall.got \in Seq(Listings)
      BY DEF NoCall
  <1>3. NoCall \in CallStates
      BY <1>1, <1>2 DEF NoCall, CallStates, Outcomes, Statuses
  <1> QED BY <1>3 DEF NoCall, CallOver, CallHolds

\* At first nothing is called for, sent or removed.
LEMMA StaleInitInv == ASSUME StaleInit PROVE StaleInv
  <1> USE DEF StaleInit, QuietCleanup
  <1>1. StaleTypes
      BY NoCallGood DEF StaleTypes
  <1>2. LaunchesHold
      BY DEF LaunchesHold, Task
  <1>3. CallsGood
      BY NoCallGood DEF CallsGood
  <1>4. JobsGood /\ WireGood /\ RemovedWasOver
      BY EmptyRange DEF JobsGood, WireGood, RemovedWasOver
  <1> QED BY <1>1, <1>2, <1>3, <1>4 DEF StaleInv

\* One call moves, and the agent and the wire do not.
LEMMA CallMoves ==
    ASSUME StaleInv, NEW c \in Callers, NEW k \in CallStates, CallOver(k), CallHolds(k),
           call' = [call EXCEPT ![c] = k], removeMu' \in Callers \cup {"none"},
           alertOpen' \subseteq {"kept", "removed", "stale", "orphan"} \X (Instances \cup {0}),
           UNCHANGED <<rec, cont, aged, active, tasks, results, online, agentJob, wire, requests, removals, listed>>
    PROVE StaleInv'
  <1>1. StaleTypes'
      BY DEF StaleInv, StaleTypes
  <1>2. \A d \in Callers : call'[d] = IF d = c THEN k ELSE call[d]
      BY DEF StaleInv, StaleTypes
  <1>3. CallsGood'
      BY <1>2 DEF StaleInv, CallsGood, CallOver, CallHolds, Task
  <1>4. JobsGood' /\ WireGood' /\ RemovedWasOver' /\ LaunchesHold'
      BY DEF StaleInv, JobsGood, JobOver, JobSends, WireGood, WireCarries, RemovedWasOver, LaunchesHold, Task
  <1> QED BY <1>1, <1>3, <1>4 DEF StaleInv

\* A scan begins, fails or is given up.
LEMMA ScansKeep ==
    ASSUME StaleInv, NEW c \in Callers,
           (\E op \in {"preview", "one", "report", "prune"}, i \in Instances \cup {0} : BeginScan(c, op, i)) \/ ScanFails(c)
    PROVE StaleInv'
  <1>1. \E k \in CallStates : CallOver(k) /\ CallHolds(k) /\ call' = [call EXCEPT ![c] = k]
      <2>1. ASSUME NEW op \in {"preview", "one", "report", "prune"}, NEW i \in Instances \cup {0}
            PROVE LET k == [NoCall EXCEPT !.op = op, !.inst = i, !.pc = "list"]
                  IN k \in CallStates /\ CallOver(k) /\ CallHolds(k)
          BY NoCallGood DEF CallStates, CallOver, CallHolds
      <2> QED BY <2>1, NoCallGood DEF BeginScan, ScanFails
  <1>2. UNCHANGED <<rec, cont, aged, active, tasks, results, online, agentJob, wire, requests, removals, listed, removeMu, alertOpen>>
      BY DEF BeginScan, ScanFails, world
  <1> QED BY <1>1, <1>2, CallMoves DEF StaleInv, StaleTypes

\* What a scan judges is stale only of instances that are over.
LEMMA LookupKeeps == ASSUME StaleInv, NEW c \in Callers, Lookup(c) PROVE StaleInv'
  <1> DEFINE k == call[c]
             held == {x[1] : x \in ToSet(k.got)}
             stateOf == [i \in held |-> (CHOOSE x \in ToSet(k.got) : x[1] = i)[2]]
             verdict == [i \in DOMAIN stateOf |-> Classify(i, stateOf[i], rec[i], i \in aged)]
             stale == {i \in DOMAIN verdict : verdict[i] = "stale"}
             todo == CASE k.op = "prune" -> stale [] k.op = "one" -> {k.inst} [] OTHER -> {}
             next == [k EXCEPT !.verdict = verdict, !.was = rec, !.pc = "removing", !.todo = todo, !.got = <<>>, !.id = 0]
             none == k.op = "preview" \/ (k.op = "one" /\ k.inst \notin stale)
  <1>1. k \in CallStates
      BY DEF StaleInv, StaleTypes
  <1>2. held \subseteq Instances
      <2>1. k.got \in Seq(Listings)
          BY <1>1 DEF CallStates
      <2>2. ToSet(k.got) \subseteq Listings
          BY <2>1 DEF ToSet
      <2> QED BY <2>2 DEF Listings
  <1>3. DOMAIN stateOf = held
      OBVIOUS
  <1> HIDE DEF held, stateOf
  <1>4. verdict \in [held -> {"orphan", "live", "other", "stale", "recent"}]
      BY <1>3 DEF Classify
  <1>5. verdict \in Verdicts
      BY <1>2, <1>4 DEF Verdicts
  <1>6. \A i \in stale : i \in Instances /\ rec[i] \in Over /\ ~Task(i, "load")
      <2>1. \A i \in stale : i \in Instances /\ rec[i] \in Over
          BY <1>2, <1>3 DEF Classify
      <2> HIDE DEF stale
      <2> QED BY <2>1 DEF StaleInv, LaunchesHold, Over
  <1>7. call' = [call EXCEPT ![c] = IF none THEN NoCall ELSE next]
      BY DEF Lookup, stateOf, held
  <1> HIDE DEF verdict, stale
  <1>8. CASE none
      BY <1>7, <1>8, NoCallGood, CallMoves DEF Lookup, world, StaleInv, StaleTypes
  <1>9. CASE ~none
      <2>1. todo \subseteq Instances /\ \A i \in todo : rec[i] \in Over /\ ~Task(i, "load")
          BY <1>6, <1>9
      <2> HIDE DEF todo, none, k
      <2>2. next \in CallStates /\ next.todo = todo /\ next.was = rec /\ next.pc = "removing"
          <3>1. \A g : g = <<>> => g \in Seq(Listings)
              OBVIOUS
          <3>2. todo \in SUBSET Instances
              BY <2>1
          <3>3. PICK g : g = <<>>
              OBVIOUS
          <3>4. next = [k EXCEPT !.verdict = verdict, !.was = rec, !.pc = "removing", !.todo = todo, !.got = g, !.id = 0]
              BY <3>3
          <3>5. rec \in [Instances -> Statuses]
              BY DEF StaleInv, StaleTypes
          <3> HIDE DEF next
          <3> QED BY <1>1, <1>5, <3>5, <3>1, <3>2, <3>3, <3>4 DEF CallStates
      <2> HIDE DEF next
      <2>3. CallOver(next) /\ CallHolds(next)
          BY <2>1, <2>2 DEF CallOver, CallHolds
      <2>4. UNCHANGED <<rec, cont, aged, active, tasks, results, online, agentJob, wire, requests, removals, listed, removeMu, alertOpen>>
          BY DEF Lookup, world
      <2>5. call' = [call EXCEPT ![c] = next]
          BY <1>7, <1>9
      <2> QED BY <2>2, <2>3, <2>4, <2>5, CallMoves DEF StaleInv, StaleTypes
  <1> QED BY <1>8, <1>9

\* A removal begins, fails or is done with, and the alerts follow.
LEMMA RemovingKeeps ==
    ASSUME StaleInv, NEW c \in Callers,
           RemoveFails(c) \/ ItemDone(c) \/ SyncAlerts(c) \/ \E i \in Instances : RemoveItem(c, i)
    PROVE StaleInv'
  <1> DEFINE k == call[c]
             Alerts == {"kept", "removed", "stale", "orphan"} \X (Instances \cup {0})
  <1>1. k \in CallStates /\ CallOver(k) /\ CallHolds(k) /\ call \in [Callers -> CallStates]
      BY DEF StaleInv, StaleTypes, CallsGood
  <1>2. UNCHANGED <<rec, cont, aged, active, tasks, results, online, agentJob, wire, requests, removals, listed>>
      BY DEF RemoveFails, ItemDone, SyncAlerts, RemoveItem, world
  <1>3. alertOpen \subseteq Alerts /\ removeMu \in Callers \cup {"none"}
      BY DEF StaleInv, StaleTypes
  <1>4. CASE RemoveFails(c)
      <2> DEFINE x == [k EXCEPT !.outcome = "failed", !.pc = "answered"]
      <2>1. call' = [call EXCEPT ![c] = x] /\ UNCHANGED <<removeMu, alertOpen>>
          BY <1>1, <1>4 DEF RemoveFails
      <2>2. x \in CallStates /\ CallOver(x) /\ CallHolds(x)
          BY <1>1, <1>4 DEF RemoveFails, CallStates, CallOver, CallHolds, Outcomes
      <2> HIDE DEF x
      <2> QED BY <1>2, <1>3, <2>1, <2>2, CallMoves
  <1>5. CASE ItemDone(c)
      <2> DEFINE g == IF k.outcome \in {"removed", "gone"} THEN k.gone \cup {k.inst} ELSE k.gone
                 n == IF k.outcome = "removed" THEN 1 ELSE k.removed
                 x == [k EXCEPT !.pc = "removing", !.id = 0, !.outcome = "none", !.gone = g, !.removed = n]
      <2>1. call' = [call EXCEPT ![c] = x] /\ removeMu' = "none"
          BY <1>1, <1>5 DEF ItemDone
      <2>2. k.inst \in Instances
          BY <1>1, <1>5 DEF ItemDone, CallOver
      <2>3. g \in SUBSET Instances /\ n \in {0, 1}
          BY <1>1, <2>2 DEF CallStates
      <2> HIDE DEF g, n
      <2>5. alertOpen' \subseteq Alerts
          BY <1>3, <1>5, <2>2 DEF ItemDone
      <2>6. x \in CallStates
          BY <1>1, <2>3 DEF CallStates, Outcomes
      <2>7. x.pc = "removing" /\ x.todo = k.todo /\ x.was = k.was
          BY <1>1 DEF CallStates
      <2> HIDE DEF x, k
      <2>4. CallOver(x) /\ CallHolds(x)
          BY <1>1, <2>7 DEF CallOver, CallHolds
      <2> QED BY <1>2, <2>1, <2>4, <2>5, <2>6, CallMoves
  <1>6. CASE SyncAlerts(c)
      <2>1. call' = [call EXCEPT ![c] = NoCall] /\ removeMu' = removeMu
          BY <1>6 DEF SyncAlerts
      <2>2. Synced(k, alertOpen) \subseteq Alerts
          BY <1>3 DEF Synced
      <2>3. alertOpen' \subseteq Alerts
          BY <1>6, <2>2 DEF SyncAlerts
      <2> QED BY <1>2, <1>3, <2>1, <2>3, NoCallGood, CallMoves
  <1>7. ASSUME NEW i \in Instances, RemoveItem(c, i) PROVE StaleInv'
      <2> DEFINE x == [k EXCEPT !.todo = @ \ {i}, !.inst = i, !.pc = "ask"]
      <2>1. call' = [call EXCEPT ![c] = x] /\ removeMu' = c /\ alertOpen' = alertOpen
          BY <1>1, <1>7 DEF RemoveItem
      <2>2. k.was[i] \in Over /\ ~Task(i, "load")
          BY <1>1, <1>7 DEF RemoveItem, CallOver
      <2>3. x \in CallStates /\ CallOver(x) /\ CallHolds(x)
          BY <1>1, <2>2 DEF CallStates, CallOver, CallHolds
      <2> HIDE DEF x
      <2> QED BY <1>2, <1>3, <2>1, <2>3, CallMoves
  <1> QED BY <1>4, <1>5, <1>6, <1>7

\* A request is sent: the calls, answers and goroutines of others go on.
LEMMA SendMoves ==
    ASSUME StaleInv, NEW c \in Callers, NEW k \in CallStates, NEW j \in JobStates,
           agentJob' = Append(agentJob, j), listed' = Append(listed, <<>>), requests' = requests + 1,
           call' = [call EXCEPT ![c] = k], CallOver(k), JobOver(j), j.pc # "parts", j.sent = 0, k.pc # "lookup",
           k.pc = "listing" => k.id = requests + 1 /\ k.next = 0 /\ k.got = <<>>,
           UNCHANGED <<rec, cont, aged, active, tasks, results, online, wire, removals, removeMu, alertOpen>>
    PROVE StaleInv'
  <1> DEFINE n == requests + 1
  <1>1. requests \in Nat /\ agentJob \in Seq(JobStates) /\ Len(agentJob) = requests
        /\ listed \in Seq(Seq(Listings)) /\ Len(listed) = requests /\ call \in [Callers -> CallStates]
        /\ <<>> \in Seq(Listings)
      BY DEF StaleInv, StaleTypes
  <1>2. /\ agentJob' \in Seq(JobStates) /\ Len(agentJob') = n /\ agentJob'[n] = j
        /\ \A q \in 1..requests : agentJob'[q] = agentJob[q]
      BY <1>1, OneAdded
  <1>3. /\ listed' \in Seq(Seq(Listings)) /\ Len(listed') = n /\ listed'[n] = <<>>
        /\ \A q \in 1..requests : listed'[q] = listed[q]
      BY <1>1, OneAdded
  <1>4. StaleTypes'
      BY <1>1, <1>2, <1>3 DEF StaleInv, StaleTypes
  <1>5. (\A q \in 1..requests : q \in 1..n) /\ n \in 1..n /\ (\A q \in 1..n : q \in 1..requests \/ q = n)
      BY <1>1
  <1>6. \A d \in Callers : call'[d] = IF d = c THEN k ELSE call[d]
      BY <1>1
  <1> HIDE DEF n
  <1>7. requests' = n
      BY DEF n
  <1>8. ASSUME NEW x \in CallStates, CallOver(x), CallHolds(x) PROVE (CallOver(x) /\ CallHolds(x))'
      BY <1>2, <1>3, <1>5, <1>7, <1>8 DEF CallOver, CallHolds, Task
  <1>9. (CallOver(k) /\ CallHolds(k))'
      <2>1. FirstParts(<<>>, 0) = <<>>
          BY <1>1, PartsJoin, 0 \in Nat
      <2> QED BY <1>2, <1>3, <1>5, <1>7, <2>1 DEF CallOver, CallHolds, Task, n
  <1>10. CallsGood'
      <2> SUFFICES ASSUME NEW d \in Callers, NEW x, x = call'[d] PROVE (CallOver(x) /\ CallHolds(x))'
          BY DEF CallsGood
      <2>1. CASE d = c
          BY <1>6, <1>9, <2>1
      <2>2. CASE d # c
          BY <1>1, <1>6, <1>8, <2>2 DEF StaleInv, CallsGood
      <2> QED BY <2>1, <2>2
  <1>11. JobsGood'
      <2>1. \A i : Task(i, "load")' <=> Task(i, "load")
          BY DEF Task
      <2> QED BY <1>2, <1>3, <1>5, <1>7, <2>1 DEF StaleInv, JobsGood, JobOver, JobSends
  <1>12. WireGood'
      BY <1>2, <1>3, <1>5, <1>7 DEF StaleInv, WireGood, WireCarries
  <1>13. RemovedWasOver' /\ LaunchesHold'
      BY DEF StaleInv, RemovedWasOver, LaunchesHold, Task
  <1> QED BY <1>4, <1>10, <1>11, <1>12, <1>13 DEF StaleInv

\* A goroutine that is done.
LEMMA NoJobGood == NoJob \in JobStates /\ JobOver(NoJob) /\ NoJob.pc = "none" /\ NoJob.sent = 0
  <1>1. NoJob.list \in Seq(Listings)
      BY DEF NoJob
  <1>2. NoJob \in JobStates
      BY <1>1 DEF NoJob, JobStates, Outcomes, Statuses
  <1> QED BY <1>2 DEF NoJob, JobOver

\* A list or a removal is asked for.
LEMMA RequestsKeep == ASSUME StaleInv, NEW c \in Callers, ListNode(c) \/ RequestRemove(c) PROVE StaleInv'
  <1> DEFINE k == call[c]
  <1>1. k \in CallStates /\ CallOver(k) /\ call \in [Callers -> CallStates] /\ requests \in Nat
      BY DEF StaleInv, StaleTypes, CallsGood
  <1>2. NoJob \in JobStates /\ NoJob.sent = 0
      BY NoJobGood
  <1>3. CASE ListNode(c)
      <2> DEFINE j == [NoJob EXCEPT !.pc = "list"]
                 n == requests + 1
                 x == [k EXCEPT !.pc = "listing", !.id = n, !.next = 0, !.got = <<>>]
      <2>1. j \in JobStates /\ JobOver(j) /\ j.pc # "parts" /\ j.sent = 0
          BY <1>2 DEF JobOver, JobStates
      <2>2. call' = [call EXCEPT ![c] = x]
          BY <1>1, <1>3 DEF ListNode, Send
      <2>3. x \in CallStates /\ x.pc = "listing" /\ x.id = n /\ x.next = 0 /\ x.got = <<>> /\ x.todo = k.todo /\ x.was = k.was
          <3>1. PICK g : g = <<>>
              OBVIOUS
          <3>2. g \in Seq(Listings) /\ n \in Nat
              BY <1>1, <3>1
          <3>3. x = [k EXCEPT !.pc = "listing", !.id = n, !.next = 0, !.got = g]
              BY <3>1
          <3> HIDE DEF x, n, k
          <3>4. x.pc = "listing" /\ x.id = n /\ x.next = 0 /\ x.got = g /\ x.todo = k.todo /\ x.was = k.was
              BY <1>1, <3>3 DEF CallStates
          <3>5. x \in CallStates
              BY <1>1, <3>2, <3>3 DEF CallStates
          <3> QED BY <3>1, <3>4, <3>5
      <2> HIDE DEF x, j
      <2>4. CallOver(x)
          BY <1>1, <2>3 DEF CallOver
      <2>5. agentJob' = Append(agentJob, j) /\ listed' = Append(listed, <<>>) /\ requests' = requests + 1
          BY <1>3 DEF ListNode, Send, j
      <2>6. UNCHANGED <<rec, cont, aged, active, tasks, results, online, wire, removals, removeMu, alertOpen>>
          BY <1>3 DEF ListNode, world
      <2> QED BY <2>1, <2>2, <2>3, <2>4, <2>5, <2>6, SendMoves
  <1>4. CASE RequestRemove(c)
      <2> DEFINE j == [NoJob EXCEPT !.pc = "active", !.inst = k.inst, !.was = k.was[k.inst]]
                 n == requests + 1
                 x == [k EXCEPT !.pc = "asked", !.id = n]
      <2>1. k.inst \in Instances /\ k.was[k.inst] \in Over /\ ~Task(k.inst, "load") /\ k.was[k.inst] \in Statuses
          BY <1>1, <1>4 DEF RequestRemove, CallOver, CallStates
      <2>2. j \in JobStates /\ j.pc = "active" /\ j.inst = k.inst /\ j.was = k.was[k.inst] /\ j.sent = 0
          <3> HIDE DEF k
          <3> QED BY <1>2, <2>1 DEF JobStates
      <2>3. JobOver(j) /\ j.pc # "parts"
          BY <2>1, <2>2 DEF JobOver
      <2>4. call' = [call EXCEPT ![c] = x]
          BY <1>1, <1>4 DEF RequestRemove, Send
      <2>5. x \in CallStates /\ x.pc = "asked" /\ x.inst = k.inst /\ x.todo = k.todo /\ x.was = k.was
          <3>1. n \in Nat
              BY <1>1
          <3> HIDE DEF n, k
          <3>2. x.pc = "asked" /\ x.inst = k.inst /\ x.todo = k.todo /\ x.was = k.was
              BY <1>1 DEF CallStates
          <3>3. x \in CallStates
              BY <1>1, <3>1 DEF CallStates
          <3> QED BY <3>2, <3>3
      <2> HIDE DEF x, j
      <2>6. CallOver(x)
          BY <1>1, <2>1, <2>5 DEF CallOver
      <2>7. agentJob' = Append(agentJob, j) /\ listed' = Append(listed, <<>>) /\ requests' = requests + 1
          BY <1>4 DEF RequestRemove, Send, j
      <2>8. UNCHANGED <<rec, cont, aged, active, tasks, results, online, wire, removals, removeMu, alertOpen>>
          BY <1>4 DEF RequestRemove, world
      <2> QED BY <2>2, <2>3, <2>4, <2>5, <2>6, <2>7, <2>8, SendMoves
  <1> QED BY <1>3, <1>4

\* An answer is taken from the wire, and moves the calls that wait for it.
LEMMA AnswerMoves ==
    ASSUME StaleInv, Received, call' \in [Callers -> CallStates],
           \A c \in Callers : \A k : k = call'[c] => CallOver(k) /\ CallHolds(k),
           UNCHANGED <<rec, cont, aged, active, tasks, results, online, agentJob, requests, removals, listed, removeMu, alertOpen>>
    PROVE StaleInv'
  <1>1. wire' \in Seq(ListParts \cup RemoveResults) /\ Range(wire') \subseteq Range(wire)
      BY TailRange DEF Received, StaleInv, StaleTypes
  <1>2. StaleTypes'
      BY <1>1 DEF StaleInv, StaleTypes
  <1>3. CallsGood'
      BY DEF CallsGood, CallOver, CallHolds, Task
  <1>4. JobsGood' /\ WireGood' /\ RemovedWasOver' /\ LaunchesHold'
      BY <1>1 DEF StaleInv, JobsGood, JobOver, JobSends, WireGood, WireCarries, RemovedWasOver, LaunchesHold, Task
  <1> QED BY <1>2, <1>3, <1>4 DEF StaleInv

\* A part completes what its request has of the list, or ends the scan.
LEMMA ListResultKeeps == ASSUME StaleInv, HandleListContainersResult PROVE StaleInv'
  <1> DEFINE m == Head(wire)
             Take(k) == IF m.part # k.next \/ m.error THEN NoCall
                        ELSE [k EXCEPT !.next = @ + 1, !.got = @ \o m.items, !.pc = IF m.final THEN "lookup" ELSE @]
  <1>1. m \in ListParts /\ WireCarries(m) /\ m.kind = "list"
      <2>1. wire \in Seq(ListParts \cup RemoveResults) /\ wire # <<>> /\ m.kind = "list"
          BY DEF StaleInv, StaleTypes, HandleListContainersResult, Received
      <2>2. m \in ListParts \cup RemoveResults /\ m \in Range(wire)
          BY <2>1, TailRange
      <2> HIDE DEF m
      <2> QED BY <2>1, <2>2 DEF StaleInv, WireGood, RemoveResults
  <1>2. UNCHANGED <<rec, cont, aged, active, tasks, results, online, agentJob, requests, removals, listed, removeMu, alertOpen>> /\ Received
      BY DEF HandleListContainersResult, world
  <1>3. call' = [c \in Callers |-> IF Awaits(c, m) THEN Take(call[c]) ELSE call[c]]
      BY DEF HandleListContainersResult
  <1> HIDE DEF m
  <1>4. \A c \in Callers : call[c] \in CallStates /\ CallOver(call[c]) /\ CallHolds(call[c])
      BY DEF StaleInv, StaleTypes, CallsGood
  <1>5. ASSUME NEW c \in Callers, Awaits(c, m), NEW y, y = Take(call[c])
        PROVE y \in CallStates /\ CallOver(y) /\ CallHolds(y)
      <2> DEFINE k == call[c]
      <2>1. k \in CallStates /\ CallOver(k) /\ CallHolds(k) /\ k.pc = "listing" /\ k.id = m.id
          BY <1>4, <1>5 DEF Awaits
      <2> HIDE DEF k
      <2>2. CASE m.part # k.next \/ m.error
          BY <1>5, <2>2, NoCallGood DEF k
      <2>3. CASE m.part = k.next /\ ~m.error
          <3> DEFINE L == listed[k.id]
                     pc == IF m.final THEN "lookup" ELSE k.pc
                     got == k.got \o m.items
          <3>1. y = [k EXCEPT !.next = k.next + 1, !.got = got, !.pc = pc]
              BY <1>5, <2>3 DEF k
          <3>2. k.next \in Nat /\ k.got \in Seq(Listings) /\ m.items \in Seq(Listings)
              BY <1>1, <2>1 DEF CallStates, ListParts
          <3>3. got \in Seq(Listings)
              BY <3>2, ConcatProperties
          <3>4. pc \in {"lookup", "listing"}
              BY <2>1
          <3>5. /\ k.id \in 1..requests /\ k.got = FirstParts(L, k.next) /\ agentJob[k.id].pc # "list"
                /\ IsPartOf(m, L)
              BY <1>1, <2>1, <2>3 DEF CallHolds, WireCarries
          <3>6. L \in Seq(Listings)
              BY <3>5 DEF StaleInv, StaleTypes
          <3> HIDE DEF L
          <3>7. got = FirstParts(L, k.next + 1) /\ (pc = "lookup" => got = L)
              BY <2>1, <2>3, <3>2, <3>5, <3>6, PartsJoin DEF IsPartOf
          <3> HIDE DEF got, pc
          <3>8. /\ y \in CallStates /\ y.id = k.id /\ y.next = k.next + 1 /\ y.got = got /\ y.pc = pc
                /\ y.todo = k.todo /\ y.was = k.was
              <4> DEFINE n == k.next + 1
              <4>1. n \in Nat /\ y = [k EXCEPT !.next = n, !.got = got, !.pc = pc]
                  BY <3>1, <3>2
              <4> HIDE DEF n
              <4>2. y.id = k.id /\ y.next = n /\ y.got = got /\ y.pc = pc /\ y.todo = k.todo /\ y.was = k.was
                  BY <2>1, <4>1 DEF CallStates
              <4>3. y \in CallStates
                  BY <2>1, <3>3, <3>4, <4>1 DEF CallStates
              <4> QED BY <4>2, <4>3 DEF n
          <3>9. CallOver(y)
              BY <2>1, <3>4, <3>8 DEF CallOver
          <3>10. CallHolds(y)
              BY <3>4, <3>5, <3>7, <3>8 DEF CallHolds, L
          <3> QED BY <3>8, <3>9, <3>10
      <2>4. m.error \in BOOLEAN
          BY <1>1 DEF ListParts
      <2> QED BY <2>2, <2>3, <2>4
  <1> HIDE DEF Take
  <1>6. ASSUME NEW c \in Callers, NEW y, y = call'[c] PROVE y \in CallStates /\ CallOver(y) /\ CallHolds(y)
      <2>1. CASE Awaits(c, m)
          BY <1>3, <1>5, <1>6, <2>1
      <2>2. CASE ~Awaits(c, m)
          BY <1>3, <1>4, <1>6, <2>2
      <2> QED BY <2>1, <2>2
  <1>7. call' \in [Callers -> CallStates]
      <2>1. \A c \in Callers : call'[c] \in CallStates
          BY <1>6
      <2> QED BY <1>3, <2>1
  <1> QED BY <1>2, <1>6, <1>7, AnswerMoves

\* The answer to a removal reaches the call that asked for it.
LEMMA RemoveResultKeeps == ASSUME StaleInv, HandleRemoveContainerResult PROVE StaleInv'
  <1> DEFINE m == Head(wire)
             Waits(c) == call[c].pc = "asked" /\ call[c].id = m.id /\ call[c].inst = m.inst
             Take(k) == [k EXCEPT !.outcome = m.outcome, !.pc = "answered"]
  <1>1. m.outcome \in Outcomes
      <2>1. wire \in Seq(ListParts \cup RemoveResults) /\ wire # <<>> /\ m.kind = "remove"
          BY DEF StaleInv, StaleTypes, HandleRemoveContainerResult, Received
      <2>2. m \in ListParts \cup RemoveResults
          BY <2>1, TailRange
      <2> HIDE DEF m
      <2> QED BY <2>1, <2>2 DEF ListParts, RemoveResults
  <1>2. UNCHANGED <<rec, cont, aged, active, tasks, results, online, agentJob, requests, removals, listed, removeMu, alertOpen>> /\ Received
      BY DEF HandleRemoveContainerResult, world
  <1>3. call' = [c \in Callers |-> IF Waits(c) THEN Take(call[c]) ELSE call[c]]
      BY DEF HandleRemoveContainerResult
  <1> HIDE DEF m
  <1>4. \A c \in Callers : call[c] \in CallStates /\ CallOver(call[c]) /\ CallHolds(call[c])
      BY DEF StaleInv, StaleTypes, CallsGood
  <1>5. ASSUME NEW k \in CallStates, CallOver(k), k.pc = "asked", NEW y, y = Take(k)
        PROVE y \in CallStates /\ CallOver(y) /\ CallHolds(y)
      BY <1>1, <1>5 DEF CallStates, CallOver, CallHolds
  <1> HIDE DEF Take
  <1>6. ASSUME NEW c \in Callers, NEW y, y = call'[c] PROVE y \in CallStates /\ CallOver(y) /\ CallHolds(y)
      <2>1. CASE Waits(c)
          BY <1>3, <1>4, <1>5, <1>6, <2>1
      <2>2. CASE ~Waits(c)
          BY <1>3, <1>4, <1>6, <2>2
      <2> QED BY <2>1, <2>2
  <1>7. call' \in [Callers -> CallStates]
      <2>1. \A c \in Callers : call'[c] \in CallStates
          BY <1>6
      <2> QED BY <1>3, <2>1
  <1> QED BY <1>2, <1>6, <1>7, AnswerMoves

\* The records, containers and tasks change: no launch is added, and what the
\* cleanup holds is left alone.
LEMMA LivesMove ==
    ASSUME StaleInv,
           rec' \in [Instances -> Statuses], cont' \in [Instances -> ContainerStates],
           aged' \subseteq Instances, active' \subseteq Instances,
           tasks' \subseteq (Instances \cup {0}) \X Tasks, results' \subseteq Instances \X {"running", "stopped", "failed"},
           \A i \in Instances : Task(i, "load")' => Task(i, "load"),
           LaunchesHold', UNCHANGED cleanup
    PROVE StaleInv'
  <1>1. UNCHANGED <<online, call, removeMu, agentJob, wire, requests, alertOpen, removals, listed>>
      BY DEF cleanup
  <1>2. StaleTypes'
      BY <1>1 DEF StaleInv, StaleTypes
  <1>3. \A c \in Callers : call[c].todo \subseteq Instances
      BY DEF StaleInv, StaleTypes, CallStates
  <1>4. CallsGood'
      BY <1>1, <1>3 DEF StaleInv, CallsGood, CallOver, CallHolds
  <1>5. JobsGood' /\ WireGood' /\ RemovedWasOver'
      BY <1>1 DEF StaleInv, JobsGood, JobOver, JobSends, WireGood, WireCarries, RemovedWasOver
  <1> QED BY <1>2, <1>4, <1>5 DEF StaleInv

\* One task of an instance ends and others begin, none of them a launch.
LEMMA TaskMoves ==
    ASSUME StaleInv, NEW i \in Instances, NEW k \in Tasks, NEW next \in SUBSET (Tasks \ {"load"}), Then(i, k, next)
    PROVE /\ tasks' \subseteq (Instances \cup {0}) \X Tasks
          /\ \A x \in Instances : Task(x, "load")' => Task(x, "load") /\ <<x, "load">> # <<i, k>>
          /\ \A x \in Instances, l \in Tasks : Task(x, l)' => Task(x, l) \/ (x = i /\ l \in next)
  BY DEF Then, Task, StaleInv, StaleTypes

\* What happens on the node besides launches, unloads and checks: a container
\* exits, is started again or grows old, or a person asks for an unload.
LEMMA EventsKeep == ASSUME StaleInv, InstanceEvents PROVE StaleInv'
  <1> SUFFICES ASSUME NEW i \in Instances, Exits(i) \/ Restarted(i) \/ Ages(i) \/ UnloadInstance(i) PROVE StaleInv'
      BY DEF InstanceEvents
  <1>1. StaleTypes /\ LaunchesHold
      BY DEF StaleInv
  <1>2. CASE Exits(i) \/ Restarted(i) \/ Ages(i)
      <2>1. UNCHANGED <<rec, active, tasks, results, cleanup>>
          BY <1>2 DEF Exits, Restarted, Ages
      <2>2. cont' \in [Instances -> ContainerStates] /\ aged' \subseteq Instances
          BY <1>1, <1>2 DEF Exits, Restarted, Ages, StaleTypes, ContainerStates
      <2>3. LaunchesHold' /\ \A x \in Instances : Task(x, "load")' => Task(x, "load")
          BY <1>1, <2>1 DEF LaunchesHold, Task
      <2> QED BY <1>1, <2>1, <2>2, <2>3, LivesMove DEF StaleTypes
  <1>3. CASE UnloadInstance(i)
      <2>1. UNCHANGED <<rec, cont, aged, active, results, cleanup>> /\ tasks' = tasks \cup {<<i, "unloading">>} /\ rec[i] = "running"
          BY <1>3 DEF UnloadInstance
      <2>2. tasks' \subseteq (Instances \cup {0}) \X Tasks
          BY <1>1, <2>1 DEF StaleTypes, Tasks, AtServer
      <2>3. LaunchesHold' /\ \A x \in Instances : Task(x, "load")' => Task(x, "load")
          BY <1>1, <2>1 DEF LaunchesHold, Task
      <2> QED BY <1>1, <2>1, <2>2, <2>3, LivesMove DEF StaleTypes
  <1> QED BY <1>2, <1>3

\* A launch goes on: its container appears, runs, answers or fails, and what
\* it left or replaced is cleaned up.
LEMMA LaunchesKeep ==
    ASSUME StaleInv, NEW i \in Instances,
           Created(i) \/ Started(i) \/ Ready(i) \/ LoadFails(i) \/ CleanUp(i)
             \/ \E old \in Instances : Replaces(i, old)
    PROVE StaleInv'
  <1>1. StaleTypes /\ LaunchesHold
      BY DEF StaleInv
  <1>2. /\ cont \in [Instances -> ContainerStates] /\ active \subseteq Instances
        /\ tasks \subseteq (Instances \cup {0}) \X Tasks /\ results \subseteq Instances \X {"running", "stopped", "failed"}
        /\ rec \in [Instances -> Statuses] /\ aged \subseteq Instances
      BY <1>1 DEF StaleTypes
  <1>3. CASE Created(i) \/ Started(i)
      <2>1. UNCHANGED <<rec, aged, active, tasks, results, cleanup>> /\ cont' \in [Instances -> ContainerStates]
          BY <1>2, <1>3 DEF Created, Started, ContainerStates
      <2>2. LaunchesHold' /\ \A x \in Instances : Task(x, "load")' => Task(x, "load")
          BY <1>1, <2>1 DEF LaunchesHold, Task
      <2> QED BY <1>2, <2>1, <2>2, LivesMove
  <1>4. CASE Ready(i) \/ LoadFails(i)
      <2>1. PICK next \in {{}, {"clean"}}, status \in {"running", "failed"} : Then(i, "load", next) /\ Tells(i, status)
          BY <1>4 DEF Ready, LoadFails
      <2>2. UNCHANGED <<rec, cont, aged, cleanup>> /\ active' \subseteq Instances
          BY <1>2, <1>4 DEF Ready, LoadFails
      <2>3. "load" \in Tasks /\ next \in SUBSET (Tasks \ {"load"})
          BY DEF Tasks
      <2>4. /\ tasks' \subseteq (Instances \cup {0}) \X Tasks
            /\ \A x \in Instances : Task(x, "load")' => Task(x, "load") /\ x # i
            /\ \A x \in Instances, l \in Tasks : Task(x, l)' => Task(x, l) \/ (x = i /\ l \in next)
          BY <2>1, <2>3, TaskMoves
      <2>5. results' \subseteq Instances \X {"running", "stopped", "failed"} /\ \A x \in results' : x \in results \/ x[1] = i
          BY <1>2, <2>1 DEF Tells
      <2>6. LaunchesHold'
          BY <1>1, <2>2, <2>4, <2>5 DEF LaunchesHold, Tasks, AtServer
      <2> QED BY <1>2, <2>2, <2>4, <2>5, <2>6, LivesMove
  <1>5. CASE CleanUp(i)
      <2>1. PICK next \in {{}, {"tidy"}} : Then(i, "clean", next)
          BY <1>5 DEF CleanUp
      <2>2. UNCHANGED <<rec, aged, active, results, cleanup>> /\ cont' \in [Instances -> ContainerStates]
          BY <1>2, <1>5 DEF CleanUp, Halted, ContainerStates
      <2>3. "clean" \in Tasks /\ next \in SUBSET (Tasks \ {"load"})
          BY DEF Tasks
      <2>4. /\ tasks' \subseteq (Instances \cup {0}) \X Tasks
            /\ \A x \in Instances : Task(x, "load")' => Task(x, "load")
            /\ \A x \in Instances, l \in Tasks : Task(x, l)' => Task(x, l) \/ (x = i /\ l \in next)
          BY <2>1, <2>3, TaskMoves
      <2>5. LaunchesHold'
          BY <1>1, <2>2, <2>4 DEF LaunchesHold, Tasks, AtServer
      <2> QED BY <1>2, <2>2, <2>4, <2>5, LivesMove
  <1>6. ASSUME NEW old \in Instances, Replaces(i, old) PROVE StaleInv'
      <2>1. UNCHANGED <<rec, cont, aged, active, results, cleanup>> /\ tasks' = tasks \cup {<<old, "clean">>}
          BY <1>6 DEF Replaces
      <2>2. tasks' \subseteq (Instances \cup {0}) \X Tasks
          BY <1>2, <2>1 DEF Tasks
      <2>3. LaunchesHold' /\ \A x \in Instances : Task(x, "load")' => Task(x, "load")
          BY <1>1, <2>1 DEF LaunchesHold, Task
      <2> QED BY <1>2, <2>1, <2>2, <2>3, LivesMove
  <1> QED BY <1>3, <1>4, <1>5, <1>6

\* An unload goes on: the record is written, the engine halted and reported,
\* the container archived.  Nothing is unloaded while it is launched.
LEMMA UnloadsKeep ==
    ASSUME StaleInv, NEW i \in Instances,
           SetStopping(i) \/ DispatchUnload(i) \/ Halt(i) \/ HaltFails(i) \/ \E k \in {"tidy", "unloaded"} : ArchiveAndRemove(i, k)
    PROVE StaleInv'
  <1>1. StaleTypes /\ LaunchesHold
      BY DEF StaleInv
  <1>2. /\ cont \in [Instances -> ContainerStates] /\ active \subseteq Instances
        /\ results \subseteq Instances \X {"running", "stopped", "failed"}
        /\ rec \in [Instances -> Statuses] /\ aged \subseteq Instances
      BY <1>1 DEF StaleTypes
  <1>3. ASSUME NEW k \in Tasks, NEW next \in SUBSET (Tasks \ {"load"}), Then(i, k, next)
        PROVE /\ tasks' \subseteq (Instances \cup {0}) \X Tasks
              /\ \A x \in Instances : Task(x, "load")' => Task(x, "load")
              /\ \A x \in Instances, l \in Tasks : Task(x, l)' => Task(x, l) \/ (x = i /\ l \in next)
      BY <1>3, TaskMoves
  <1>4. CASE SetStopping(i) \/ DispatchUnload(i)
      <2>1. PICK k \in {"unloading", "dispatch"}, next \in {{"dispatch"}, {"unload"}, {}} : Task(i, k) /\ Then(i, k, next)
          BY <1>4 DEF SetStopping, DispatchUnload
      <2>2. UNCHANGED <<cont, aged, active, results, cleanup>>
          BY <1>4 DEF SetStopping, DispatchUnload
      <2>3. rec' \in [Instances -> Statuses] /\ \A x \in Instances : x # i => rec'[x] = rec[x]
          BY <1>2, <1>4 DEF SetStopping, DispatchUnload, Statuses
      <2>4. k \in Tasks /\ next \in SUBSET (Tasks \ {"load"})
          BY DEF Tasks, AtServer
      <2>5. ~Task(i, "load")
          BY <1>1, <2>1 DEF LaunchesHold
      <2>6. LaunchesHold'
          BY <1>1, <1>3, <2>1, <2>2, <2>3, <2>4, <2>5 DEF LaunchesHold, Tasks, AtServer
      <2> QED BY <1>2, <1>3, <2>1, <2>2, <2>3, <2>4, <2>6, LivesMove
  <1>5. CASE Halt(i) \/ HaltFails(i)
      <2>1. PICK next \in {{"unloaded"}, {}}, status \in {"stopped", "failed"} :
               Task(i, "unload") /\ Then(i, "unload", next) /\ Tells(i, status)
          BY <1>5 DEF Halt, HaltFails
      <2>2. UNCHANGED <<rec, aged, cleanup>> /\ active' \subseteq Instances /\ cont' \in [Instances -> ContainerStates]
          BY <1>2, <1>5 DEF Halt, HaltFails, Halted, ContainerStates
      <2>3. "unload" \in Tasks /\ next \in SUBSET (Tasks \ {"load"})
          BY DEF Tasks
      <2>4. ~Task(i, "load")
          BY <1>1, <2>1 DEF LaunchesHold
      <2>5. results' \subseteq Instances \X {"running", "stopped", "failed"} /\ \A x \in results' : x \in results \/ x[1] = i
          BY <1>2, <2>1 DEF Tells
      <2>6. LaunchesHold'
          BY <1>1, <1>3, <2>1, <2>2, <2>3, <2>4, <2>5 DEF LaunchesHold, Tasks, AtServer
      <2> QED BY <1>2, <1>3, <2>1, <2>2, <2>3, <2>5, <2>6, LivesMove
  <1>6. ASSUME NEW k \in {"tidy", "unloaded"}, ArchiveAndRemove(i, k) PROVE StaleInv'
      <2>1. Then(i, k, {}) /\ UNCHANGED <<rec, aged, results, cleanup>>
          BY <1>6 DEF ArchiveAndRemove
      <2>2. active' \subseteq Instances /\ cont' \in [Instances -> ContainerStates]
          BY <1>2, <1>6 DEF ArchiveAndRemove, ContainerStates
      <2>3. k \in Tasks /\ {} \in SUBSET (Tasks \ {"load"})
          BY DEF Tasks
      <2>4. LaunchesHold'
          BY <1>1, <1>3, <2>1, <2>3 DEF LaunchesHold, Tasks, AtServer
      <2> QED BY <1>2, <1>3, <2>1, <2>2, <2>3, <2>4, LivesMove
  <1> QED BY <1>4, <1>5, <1>6

\* Records are checked against the node, and results reach the records: none is
\* about an instance that is being launched.
LEMMA ChecksKeep ==
    ASSUME StaleInv, NEW i \in Instances,
           CheckInstance(i) \/ CheckAnswered(i) \/ ResumeHealthTracking(i)
             \/ \E status \in {"running", "stopped", "failed"} : HandleInstanceResult(i, status) \/ ResultLost(i, status)
    PROVE StaleInv'
  <1>1. StaleTypes /\ LaunchesHold
      BY DEF StaleInv
  <1>2. /\ cont \in [Instances -> ContainerStates] /\ active \subseteq Instances
        /\ tasks \subseteq (Instances \cup {0}) \X Tasks
        /\ results \subseteq Instances \X {"running", "stopped", "failed"}
        /\ rec \in [Instances -> Statuses] /\ aged \subseteq Instances
      BY <1>1 DEF StaleTypes
  <1>3. ASSUME NEW k \in Tasks, NEW next \in SUBSET (Tasks \ {"load"}), Then(i, k, next)
        PROVE /\ tasks' \subseteq (Instances \cup {0}) \X Tasks
              /\ \A x \in Instances : Task(x, "load")' => Task(x, "load")
              /\ \A x \in Instances, l \in Tasks : Task(x, l)' => Task(x, l) \/ (x = i /\ l \in next)
      BY <1>3, TaskMoves
  <1>4. CASE CheckInstance(i)
      <2>1. PICK next \in {{"alive"}, {}} : Task(i, "check") /\ Then(i, "check", next)
          BY <1>4 DEF CheckInstance
      <2>2. UNCHANGED <<rec, cont, aged, active, results, cleanup>>
          BY <1>4 DEF CheckInstance
      <2>3. "check" \in Tasks /\ next \in SUBSET (Tasks \ {"load"}) /\ ~Task(i, "load")
          BY <1>1, <2>1 DEF Tasks, LaunchesHold
      <2>4. LaunchesHold'
          BY <1>1, <1>3, <2>1, <2>2, <2>3 DEF LaunchesHold, Tasks, AtServer
      <2> QED BY <1>2, <1>3, <2>1, <2>2, <2>3, <2>4, LivesMove
  <1>5. CASE CheckAnswered(i)
      <2>1. Task(i, "alive") /\ Then(i, "alive", {"resume"}) /\ Tells(i, "running") /\ UNCHANGED <<rec, cont, aged, active, cleanup>>
          BY <1>5 DEF CheckAnswered
      <2>2. "alive" \in Tasks /\ {"resume"} \in SUBSET (Tasks \ {"load"}) /\ ~Task(i, "load")
          BY <1>1, <2>1 DEF Tasks, LaunchesHold
      <2>3. results' \subseteq Instances \X {"running", "stopped", "failed"} /\ \A x \in results' : x \in results \/ x[1] = i
          BY <1>2, <2>1 DEF Tells
      <2>4. LaunchesHold'
          BY <1>1, <1>3, <2>1, <2>2, <2>3 DEF LaunchesHold, Tasks, AtServer
      <2> QED BY <1>2, <1>3, <2>1, <2>2, <2>3, <2>4, LivesMove
  <1>6. CASE ResumeHealthTracking(i)
      <2>1. Then(i, "resume", {}) /\ UNCHANGED <<rec, cont, aged, results, cleanup>> /\ active' \subseteq Instances
          BY <1>2, <1>6 DEF ResumeHealthTracking
      <2>2. "resume" \in Tasks /\ {} \in SUBSET (Tasks \ {"load"})
          BY DEF Tasks
      <2>3. LaunchesHold'
          BY <1>1, <1>3, <2>1, <2>2 DEF LaunchesHold, Tasks, AtServer
      <2> QED BY <1>2, <1>3, <2>1, <2>2, <2>3, LivesMove
  <1>7. ASSUME NEW status \in {"running", "stopped", "failed"}, HandleInstanceResult(i, status) \/ ResultLost(i, status)
        PROVE StaleInv'
      <2>1. <<i, status>> \in results /\ results' \subseteq results /\ UNCHANGED <<cont, aged, active, tasks, cleanup>>
          BY <1>7 DEF HandleInstanceResult, ResultLost
      <2>2. rec' \in [Instances -> Statuses] /\ \A x \in Instances : x # i => rec'[x] = rec[x]
          BY <1>2, <1>7 DEF HandleInstanceResult, ResultLost, Statuses
      <2>3. ~Task(i, "load")
          BY <1>1, <2>1 DEF LaunchesHold
      <2>4. \A x \in Instances, l \in Tasks : Task(x, l)' <=> Task(x, l)
          BY <2>1 DEF Task
      <2>5. LaunchesHold' /\ \A x \in Instances : Task(x, "load")' => Task(x, "load")
          BY <1>1, <2>1, <2>2, <2>3, <2>4 DEF LaunchesHold, Tasks, AtServer
      <2> QED BY <1>2, <2>1, <2>2, <2>5, LivesMove
  <1> QED BY <1>4, <1>5, <1>6, <1>7

\* The instances' lives go on.
LEMMA InstancesKeep == ASSUME StaleInv, InstanceSteps PROVE StaleInv'
  <1>1. CASE ReconcileNode
      <2>1. PICK told \in SUBSET {i \in Instances : rec[i] = "running"} :
               tasks' = (tasks \ {<<0, "sweep">>}) \cup {<<i, "check">> : i \in told}
          BY <1>1 DEF ReconcileNode
      <2>2. UNCHANGED <<rec, cont, aged, active, results, cleanup>>
          BY <1>1 DEF ReconcileNode
      <2>3. tasks' \subseteq (Instances \cup {0}) \X Tasks
          BY <2>1 DEF StaleInv, StaleTypes, Tasks
      <2>4. \A x \in Instances : Task(x, "load")' => Task(x, "load")
          BY <2>1 DEF Task
      <2>5. \A x \in Instances, l \in Tasks : Task(x, l)' => Task(x, l) \/ (l = "check" /\ rec[x] = "running")
          BY <2>1 DEF Task
      <2>6. LaunchesHold'
          BY <2>2, <2>4, <2>5 DEF StaleInv, LaunchesHold, Tasks, AtServer
      <2> QED BY <2>2, <2>3, <2>4, <2>6, LivesMove DEF StaleInv, StaleTypes
  <1>2. CASE ~ReconcileNode
      BY <1>2, LaunchesKeep, UnloadsKeep, ChecksKeep DEF InstanceSteps
  <1> QED BY <1>1, <1>2

\* A goroutine of the agent goes on, past reading a list, and may say something.
LEMMA JobMoves ==
    ASSUME StaleInv, NEW r \in 1..requests, NEW j \in JobStates, agentJob' = [agentJob EXCEPT ![r] = j],
           JobOver(j), JobSends(r, j), j.pc # "list",
           wire' \in Seq(ListParts \cup RemoveResults),
           \A m \in Range(wire') : m \in Range(wire) \/ (m.id = r /\ (m.kind = "list" /\ ~m.error => IsPartOf(m, listed[r]))),
           cont' \in [Instances -> ContainerStates], removals' \subseteq Removals, RemovedWasOver',
           UNCHANGED <<rec, aged, active, tasks, results, online, call, removeMu, requests, alertOpen, listed>>
    PROVE StaleInv'
  <1>1. agentJob \in Seq(JobStates) /\ Len(agentJob) = requests
      BY DEF StaleInv, StaleTypes
  <1>2. /\ agentJob' \in Seq(JobStates) /\ Len(agentJob') = requests
        /\ \A q \in 1..requests : agentJob'[q] = IF q = r THEN j ELSE agentJob[q]
      BY <1>1, OneReplaced
  <1>3. StaleTypes'
      BY <1>2 DEF StaleInv, StaleTypes
  <1>4. \A q \in 1..requests : agentJob'[q].pc = "list" => agentJob[q].pc = "list"
      BY <1>2
  <1>5. CallsGood'
      BY <1>4 DEF StaleInv, CallsGood, CallOver, CallHolds, Task
  <1>6. JobsGood'
      <2>1. \A i : Task(i, "load")' <=> Task(i, "load")
          BY DEF Task
      <2> QED BY <1>2, <2>1 DEF StaleInv, JobsGood, JobOver, JobSends
  <1>7. WireGood' /\ LaunchesHold'
      BY <1>2, <1>4 DEF StaleInv, WireGood, WireCarries, LaunchesHold, Task
  <1> QED BY <1>3, <1>5, <1>6, <1>7 DEF StaleInv

\* What a goroutine says is the only thing it can add to the wire.
LEMMA SaysOne ==
    ASSUME StaleInv, NEW r \in 1..requests, NEW m \in ListParts \cup RemoveResults, Say(r, m)
    PROVE wire' \in Seq(ListParts \cup RemoveResults) /\ \A x \in Range(wire') : x \in Range(wire) \/ x = m
  <1>1. wire \in Seq(ListParts \cup RemoveResults)
      BY DEF StaleInv, StaleTypes
  <1>2. CASE agentJob[r].cut
      BY <1>1, <1>2 DEF Say
  <1>3. CASE ~agentJob[r].cut
      BY <1>1, <1>3, AppendRange DEF Say
  <1> QED BY <1>2, <1>3

\* The agent reads its containers: nothing was sent or put together for the
\* request before.
LEMMA RunListKeeps == ASSUME StaleInv, NEW r \in 1..requests, RunListContainers(r) PROVE StaleInv'
  <1> DEFINE L == ListManaged
             j == [agentJob[r] EXCEPT !.pc = "parts", !.list = L]
  <1>1. /\ agentJob \in Seq(JobStates) /\ Len(agentJob) = requests /\ requests \in Nat
        /\ listed \in Seq(Seq(Listings)) /\ Len(listed) = requests
        /\ agentJob[r].pc = "list" /\ agentJob[r] \in JobStates
      BY DEF StaleInv, StaleTypes, RunListContainers
  <1>2. L \in Seq(Listings)
      BY ListManagedType DEF StaleInv, StaleTypes
  <1> HIDE DEF L
  <1>3. j \in JobStates /\ j.pc = "parts" /\ j.list = L /\ j.sent = agentJob[r].sent
      BY <1>1, <1>2 DEF JobStates
  <1>4. agentJob' = [agentJob EXCEPT ![r] = j] /\ listed' = [listed EXCEPT ![r] = L]
      BY <1>1 DEF RunListContainers, L
  <1> HIDE DEF j
  <1>5. /\ agentJob' \in Seq(JobStates) /\ Len(agentJob') = requests
        /\ \A q \in 1..requests : agentJob'[q] = IF q = r THEN j ELSE agentJob[q]
      BY <1>1, <1>3, <1>4, OneReplaced
  <1>6. /\ listed' \in Seq(Seq(Listings)) /\ Len(listed') = requests
        /\ \A q \in 1..requests : listed'[q] = IF q = r THEN L ELSE listed[q]
      BY <1>1, <1>2, <1>4, OneReplaced
  <1>7. UNCHANGED <<rec, cont, aged, active, tasks, results, online, call, removeMu, wire, requests, alertOpen, removals>>
      BY DEF RunListContainers, world
  <1>8. StaleTypes'
      BY <1>5, <1>6, <1>7 DEF StaleInv, StaleTypes
  <1>9. FirstParts(L, 0) = <<>> /\ \A q \in 1..requests : FirstParts(listed[q], 0) = <<>>
      <2>1. \A q \in 1..requests : listed[q] \in Seq(Listings)
          BY <1>1
      <2> QED BY <1>2, <2>1, PartsJoin, 0 \in Nat
  <1>10. ASSUME NEW k \in CallStates, CallOver(k), CallHolds(k) PROVE (CallOver(k) /\ CallHolds(k))'
      <2>1. CallOver(k)'
          BY <1>7, <1>10 DEF CallOver, Task
      <2>2. CASE k.id = r
          BY <1>1, <1>3, <1>5, <1>6, <1>7, <1>9, <1>10, <2>1, <2>2 DEF CallHolds
      <2>3. CASE k.id # r
          BY <1>5, <1>6, <1>7, <1>10, <2>1, <2>3 DEF CallHolds
      <2> QED BY <2>1, <2>2, <2>3
  <1>11. CallsGood'
      <2> SUFFICES ASSUME NEW c \in Callers, NEW k, k = call'[c] PROVE (CallOver(k) /\ CallHolds(k))'
          BY DEF CallsGood
      <2>1. k \in CallStates /\ CallOver(k) /\ CallHolds(k)
          BY <1>7 DEF StaleInv, StaleTypes, CallsGood
      <2> QED BY <1>10, <2>1
  <1>12. JobsGood'
      <2>1. agentJob[r].sent = 0
          BY <1>1 DEF StaleInv, JobsGood, JobSends
      <2>2. j.sent * ChunkSize = 0 /\ Len(L) \in Nat
          BY <1>2, <1>3, <2>1, StaleAssumption
      <2>3. ASSUME NEW q \in 1..requests, NEW x, x = agentJob'[q] PROVE (JobOver(x) /\ JobSends(q, x))'
          <3>1. CASE q = r
              <4>1. x.pc = "parts" /\ x.list = L /\ x.sent * ChunkSize <= Len(L) /\ listed'[q] = L
                  BY <1>3, <1>5, <1>6, <2>2, <2>3, <3>1
              <4> QED BY <4>1 DEF JobSends, JobOver
          <3>2. CASE q # r
              <4>1. x = agentJob[q] /\ listed'[q] = listed[q]
                  BY <1>5, <1>6, <2>3, <3>2
              <4> QED BY <1>7, <4>1 DEF StaleInv, JobsGood, JobOver, JobSends, Task
          <3> QED BY <3>1, <3>2
      <2> QED BY <1>7, <2>3 DEF JobsGood
  <1>13. WireGood'
      <2>1. ASSUME NEW m \in Range(wire) PROVE WireCarries(m)'
          <3>1. WireCarries(m)
              BY DEF StaleInv, WireGood
          <3>2. CASE m.id = r
              BY <1>1, <1>7, <3>1, <3>2 DEF WireCarries
          <3>3. CASE m.id # r
              BY <1>5, <1>6, <1>7, <3>1, <3>3 DEF WireCarries
          <3> QED BY <3>2, <3>3
      <2> QED BY <1>7, <2>1 DEF WireGood
  <1>14. RemovedWasOver' /\ LaunchesHold'
      BY <1>7 DEF StaleInv, RemovedWasOver, LaunchesHold, Task
  <1> QED BY <1>8, <1>11, <1>12, <1>13, <1>14 DEF StaleInv

\* The agent says that it could not list, sends a part, or answers a removal.
LEMMA SayingKeeps ==
    ASSUME StaleInv, NEW r \in 1..requests, ListFails(r) \/ SendPart(r) \/ Reply(r)
    PROVE StaleInv'
  <1> DEFINE j == agentJob[r]
  <1>1. j \in JobStates /\ JobOver(j) /\ JobSends(r, j) /\ r \in Nat
      BY DEF StaleInv, StaleTypes, JobsGood
  <1>2. UNCHANGED <<rec, cont, aged, active, tasks, results, online, call, removeMu, requests, alertOpen, removals, listed>>
      BY DEF ListFails, SendPart, Reply, world
  <1>3. cont' \in [Instances -> ContainerStates] /\ removals' \subseteq Removals /\ RemovedWasOver'
      BY <1>2 DEF StaleInv, StaleTypes, RemovedWasOver
  <1>4. ASSUME NEW m \in ListParts \cup RemoveResults, Say(r, m), m.id = r,
               m.kind = "list" /\ ~m.error => IsPartOf(m, listed[r]),
               NEW x \in JobStates, x.pc # "list", JobOver(x), JobSends(r, x), agentJob' = [agentJob EXCEPT ![r] = x]
        PROVE StaleInv'
      BY <1>2, <1>3, <1>4, SaysOne, JobMoves
  <1>5. JobSends(r, NoJob)
      BY NoJobGood DEF JobSends
  <1>6. CASE ListFails(r)
      <2> DEFINE m == [kind |-> "list", id |-> r, part |-> 0, items |-> <<>>, final |-> TRUE, error |-> TRUE]
      <2>1. m \in ListParts /\ m.id = r /\ m.error
          <3>1. <<>> \in Seq(Listings)
              OBVIOUS
          <3> QED BY <1>1, <3>1 DEF ListParts
      <2>2. Say(r, m) /\ agentJob' = [agentJob EXCEPT ![r] = NoJob]
          BY <1>6 DEF ListFails
      <2> HIDE DEF m
      <2> QED BY <1>4, <1>5, <2>1, <2>2, NoJobGood
  <1>7. CASE Reply(r)
      <2> DEFINE m == [kind |-> "remove", id |-> r, inst |-> j.inst, outcome |-> j.outcome]
      <2>1. m \in RemoveResults /\ m.id = r /\ m.kind = "remove"
          BY <1>1 DEF RemoveResults, JobStates
      <2>2. Say(r, m) /\ agentJob' = [agentJob EXCEPT ![r] = NoJob]
          BY <1>7 DEF Reply
      <2> HIDE DEF m
      <2> QED BY <1>4, <1>5, <2>1, <2>2, NoJobGood
  <1>8. CASE SendPart(r)
      <2> DEFINE L == j.list
                 off == j.sent * ChunkSize
                 end == Min({off + ChunkSize, Len(L)})
                 final == end = Len(L)
                 m == [kind |-> "list", id |-> r, part |-> j.sent, items |-> SubSeq(L, off + 1, end), final |-> final, error |-> FALSE]
                 n == j.sent + 1
                 x == IF final THEN NoJob ELSE [j EXCEPT !.sent = n]
      <2>1. j.pc = "parts" /\ Say(r, m) /\ agentJob' = [agentJob EXCEPT ![r] = x]
          BY <1>8 DEF SendPart
      <2>2. L \in Seq(Listings) /\ j.sent \in Nat /\ n \in Nat /\ ChunkSize \in Nat \ {0}
          BY <1>1, StaleAssumption DEF JobStates
      <2>3. L = listed[r] /\ off <= Len(L)
          BY <1>1, <2>1 DEF JobSends
      <2>a. \A a, b \in Nat : (a + 1) * b = a * b + b /\ a * b \in Nat
          OBVIOUS
      <2>4. off \in Nat /\ Len(L) \in Nat /\ n * ChunkSize = off + ChunkSize
          <3>1. PICK a \in Nat, b \in Nat : a = j.sent /\ b = ChunkSize
              BY <2>2
          <3>2. (a + 1) * b = a * b + b /\ a * b \in Nat
              BY <2>a
          <3>3. Len(L) \in Nat
              BY <2>2
          <3> QED BY <3>1, <3>2, <3>3
      <2> HIDE DEF L, off
      <2>5. end = IF off + ChunkSize <= Len(L) THEN off + ChunkSize ELSE Len(L)
          BY <2>2, <2>4 DEF Min
      <2> HIDE DEF end, n
      <2>6. UpTo(L, j.sent) = off /\ UpTo(L, n) = end
          BY <2>2, <2>3, <2>4, <2>5 DEF UpTo, off
      <2>7. SubSeq(L, off + 1, end) \in Seq(Listings)
          <3>1. off + 1 \in 1..(Len(L) + 1) /\ end \in off..Len(L)
              BY <2>2, <2>3, <2>4, <2>5
          <3> QED BY <2>2, <2>4, <3>1, SubSeqProperties
      <2>8. final \in BOOLEAN
          OBVIOUS
      <2>9. m \in ListParts /\ m.id = r /\ m.items = SubSeq(L, off + 1, end) /\ m.final = final /\ m.part = j.sent
          BY <1>1, <2>2, <2>7, <2>8 DEF ListParts
      <2> HIDE DEF m, final
      <2>10. IsPartOf(m, listed[r])
          BY <2>3, <2>6, <2>9 DEF IsPartOf, n, final
      <2>11. x \in JobStates /\ x.pc # "list" /\ JobOver(x) /\ JobSends(r, x)
          <3>1. CASE final
              BY <1>5, <3>1, NoJobGood
          <3>2. CASE ~final
              <4> DEFINE y == [j EXCEPT !.sent = n]
              <4>1. y \in JobStates /\ y.pc = "parts" /\ y.sent = n /\ y.list = L
                  BY <1>1, <2>1, <2>2 DEF JobStates, L
              <4>2. n * ChunkSize <= Len(L)
                  BY <2>2, <2>3, <2>4, <2>5, <3>2 DEF final
              <4> HIDE DEF y
              <4>3. JobOver(y) /\ JobSends(r, y)
                  BY <2>3, <4>1, <4>2 DEF JobOver, JobSends
              <4>4. x = y
                  BY <3>2 DEF y
              <4> HIDE DEF x
              <4> QED BY <4>1, <4>3, <4>4
          <3> QED BY <3>1, <3>2
      <2> HIDE DEF x
      <2> QED BY <1>4, <2>1, <2>9, <2>10, <2>11
  <1> QED BY <1>6, <1>7, <1>8

\* A removal goes on at the agent: only what was archived is removed.
LEMMA RemovalKeeps ==
    ASSUME StaleInv, NEW r \in 1..requests, CheckActive(r) \/ CheckState(r) \/ Archive(r) \/ RemoveContainer(r)
    PROVE StaleInv'
  <1> DEFINE j == agentJob[r]
  <1>1. j \in JobStates /\ JobOver(j) /\ agentJob \in Seq(JobStates) /\ Len(agentJob) = requests
      BY DEF StaleInv, StaleTypes, JobsGood
  <1>2. j.inst \in Instances /\ j.was \in Over /\ ~Task(j.inst, "load")
      BY <1>1 DEF CheckActive, CheckState, Archive, RemoveContainer, JobOver
  <1>3. \E pc \in {"state", "archive", "remove", "reply"}, outcome \in Outcomes :
           To(r, pc, outcome) /\ (pc = "remove" => outcome = "stored")
      BY DEF CheckActive, CheckState, Archive, RemoveContainer, Outcomes
  <1>4. PICK pc \in {"state", "archive", "remove", "reply"}, outcome \in Outcomes :
           To(r, pc, outcome) /\ (pc = "remove" => outcome = "stored")
      BY <1>3
  <1> DEFINE x == [j EXCEPT !.pc = pc, !.outcome = outcome]
  <1>5. x \in JobStates /\ x.pc = pc /\ x.outcome = outcome /\ x.inst = j.inst /\ x.was = j.was
      BY <1>1 DEF JobStates
  <1>6. agentJob' = [agentJob EXCEPT ![r] = x]
      BY <1>1, <1>4 DEF To
  <1> HIDE DEF x
  <1>7. JobOver(x) /\ JobSends(r, x) /\ x.pc # "list"
      BY <1>2, <1>4, <1>5 DEF JobOver, JobSends
  <1>8. UNCHANGED <<rec, aged, active, tasks, results, online, call, removeMu, wire, requests, alertOpen, listed>>
      BY <1>4 DEF To
  <1>9. cont' \in [Instances -> ContainerStates] /\ removals' \subseteq Removals /\ RemovedWasOver'
      <2>1. cont \in [Instances -> ContainerStates] /\ removals \subseteq Removals /\ RemovedWasOver /\ rec \in [Instances -> Statuses]
          BY DEF StaleInv, StaleTypes
      <2>2. CASE UNCHANGED <<cont, removals>>
          BY <2>1, <2>2 DEF RemovedWasOver
      <2>3. CASE ~UNCHANGED <<cont, removals>>
          <3> DEFINE i == j.inst
                     y == [inst |-> i, state |-> cont[i], status |-> rec[i], was |-> j.was, launching |-> Task(i, "load"), log |-> j.outcome]
          <3>1. /\ j.pc = "remove" /\ cont[i] # "running" /\ cont' = [cont EXCEPT ![i] = "absent"]
                /\ removals' \subseteq removals \cup {y}
              BY <2>3 DEF CheckActive, CheckState, Archive, RemoveContainer
          <3>2. (<<j.inst, "load">> \in tasks) = FALSE
              BY <1>2 DEF Task
          <3>3. y = [inst |-> i, state |-> cont[i], status |-> rec[i], was |-> j.was, launching |-> FALSE, log |-> j.outcome]
              BY <3>2 DEF Task
          <3> HIDE DEF y
          <3>4. y \in Removals /\ y.state # "running" /\ y.was \in Over /\ ~y.launching /\ y.log = "stored"
              BY <1>1, <1>2, <2>1, <3>1, <3>3 DEF Removals, JobStates, JobOver
          <3>5. cont' \in [Instances -> ContainerStates]
              BY <2>1, <3>1 DEF ContainerStates
          <3> QED BY <2>1, <3>1, <3>4, <3>5 DEF RemovedWasOver
      <2> QED BY <2>2, <2>3
  <1>10. wire' \in Seq(ListParts \cup RemoveResults) /\ \A m \in Range(wire') : m \in Range(wire)
      BY <1>8 DEF StaleInv, StaleTypes
  <1> QED BY <1>5, <1>6, <1>7, <1>8, <1>9, <1>10, JobMoves

\* The connection drops or is back, or the agent restarts: nothing new is on the
\* wire, no launch begins, and the agent's goroutines are where they were or gone.
LEMMA ConnectionKeeps == ASSUME StaleInv, Connection PROVE StaleInv'
  <1> USE DEF Connection
  <1>1. /\ UNCHANGED <<rec, cont, aged, results, call, removeMu, requests, alertOpen, removals, listed>>
        /\ active' \subseteq Instances /\ tasks' \subseteq (Instances \cup {0}) \X Tasks
        /\ \A x \in Instances, l \in Tasks : Task(x, l)' => Task(x, l) \/ l = "sweep"
      <2>1. active \subseteq Instances /\ tasks \subseteq (Instances \cup {0}) \X Tasks
          BY DEF StaleInv, StaleTypes
      <2> QED BY <2>1 DEF Drops, AgentRestarts, Reconnects, world, Task, Tasks, AtServer
  <1>9. LaunchesHold' /\ \A x \in Instances : Task(x, "load")' => Task(x, "load")
      BY <1>1 DEF StaleInv, LaunchesHold, Tasks, AtServer
  <1>2. /\ agentJob \in Seq(JobStates) /\ Len(agentJob) = requests
        /\ wire \in Seq(ListParts \cup RemoveResults) /\ requests \in Nat
      BY DEF StaleInv, StaleTypes
  <1>3. /\ online' \in BOOLEAN
        /\ wire' \in Seq(ListParts \cup RemoveResults) /\ \A m \in Range(wire') : m \in Range(wire)
      <2>1. CASE Drops \/ AgentRestarts
          <3>1. wire' = <<>> /\ online' = FALSE
              BY <2>1 DEF Drops, AgentRestarts
          <3>2. Range(wire') = {}
              BY <3>1, EmptyRange
          <3>3. wire' \in Seq(ListParts \cup RemoveResults)
              BY <3>1
          <3> QED BY <3>1, <3>2, <3>3
      <2>2. CASE Reconnects
          BY <1>2, <2>2 DEF Reconnects
      <2> QED BY <2>1, <2>2
  <1>4. /\ agentJob' \in Seq(JobStates) /\ Len(agentJob') = requests
        /\ \A q \in 1..requests : \A x, y : x = agentJob[q] /\ y = agentJob'[q] =>
              \/ y = NoJob
              \/ /\ y.pc = x.pc /\ y.inst = x.inst /\ y.was = x.was /\ y.list = x.list
                 /\ y.sent = x.sent /\ y.outcome = x.outcome
      <2>1. CASE Reconnects
          BY <1>2, <2>1 DEF Reconnects
      <2>2. CASE Drops
          <3> DEFINE Cut(x) == [x EXCEPT !.cut = (x.pc # "none")]
          <3>1. ASSUME NEW x \in JobStates
                PROVE /\ Cut(x) \in JobStates /\ Cut(x).pc = x.pc /\ Cut(x).inst = x.inst /\ Cut(x).was = x.was /\ Cut(x).list = x.list
                      /\ Cut(x).sent = x.sent /\ Cut(x).outcome = x.outcome
              <4> DEFINE b == x.pc # "none"
              <4>1. b \in BOOLEAN
                  OBVIOUS
              <4> HIDE DEF b
              <4>2. /\ [x EXCEPT !.cut = b] \in JobStates
                    /\ [x EXCEPT !.cut = b].pc = x.pc /\ [x EXCEPT !.cut = b].inst = x.inst
                    /\ [x EXCEPT !.cut = b].list = x.list /\ [x EXCEPT !.cut = b].was = x.was
                    /\ [x EXCEPT !.cut = b].sent = x.sent /\ [x EXCEPT !.cut = b].outcome = x.outcome
                  BY <4>1 DEF JobStates
              <4> QED BY <4>2 DEF b
          <3>2. agentJob' = [q \in DOMAIN agentJob |-> Cut(agentJob[q])]
              BY <2>2 DEF Drops
          <3>3. DOMAIN agentJob = 1..requests /\ \A q \in 1..requests : agentJob[q] \in JobStates
              BY <1>2
          <3> HIDE DEF Cut
          <3>4. agentJob' \in [1..requests -> JobStates]
              BY <3>1, <3>2, <3>3
          <3>5. agentJob' \in Seq(JobStates) /\ Len(agentJob') = requests
              BY <1>2, <3>4
          <3>6. \A q \in 1..requests : agentJob'[q] = Cut(agentJob[q])
              BY <3>2, <3>3
          <3> QED BY <3>1, <3>3, <3>5, <3>6
      <2>3. CASE AgentRestarts
          <3>1. agentJob' = [q \in 1..requests |-> NoJob]
              BY <1>2, <2>3 DEF AgentRestarts
          <3>2. agentJob' \in [1..requests -> JobStates]
              BY <3>1, NoJobGood
          <3>3. agentJob' \in Seq(JobStates) /\ Len(agentJob') = requests
              BY <1>2, <3>2
          <3> QED BY <3>1, <3>3
      <2> QED BY <2>1, <2>2, <2>3
  <1>5. StaleTypes'
      BY <1>1, <1>3, <1>4 DEF StaleInv, StaleTypes
  <1>6. CallsGood'
      <2>1. \A q \in 1..requests : agentJob'[q].pc = "list" => agentJob[q].pc = "list"
          BY <1>4, NoJobGood
      <2>2. \A c \in Callers : call[c].todo \subseteq Instances
          BY DEF StaleInv, StaleTypes, CallStates
      <2> QED BY <1>1, <1>9, <2>1, <2>2 DEF StaleInv, CallsGood, CallOver, CallHolds
  <1>7. JobsGood'
      <2> SUFFICES ASSUME NEW q \in 1..requests, NEW y, y = agentJob'[q] PROVE (JobOver(y) /\ JobSends(q, y))'
          BY <1>1 DEF JobsGood
      <2>1. CASE y = NoJob
          BY <2>1, NoJobGood DEF JobOver, JobSends
      <2>2. CASE y # NoJob
          BY <1>1, <1>4, <1>9, <2>2 DEF StaleInv, JobsGood, JobOver, JobSends
      <2> QED BY <2>1, <2>2
  <1>8. WireGood' /\ RemovedWasOver'
      <2>1. \A q \in 1..requests : agentJob'[q].pc = "list" => agentJob[q].pc = "list"
          BY <1>4, NoJobGood
      <2> QED BY <1>1, <1>3, <2>1 DEF StaleInv, WireGood, WireCarries, RemovedWasOver
  <1> QED BY <1>5, <1>6, <1>7, <1>8, <1>9 DEF StaleInv

\* The inductive invariant of the cleanup.
THEOREM StaleInvariance == StaleSpec => []StaleInv
  <1>1. StaleInv /\ UNCHANGED staleVars => StaleInv'
      <2>1. UNCHANGED tasks => \A i, k : Task(i, k)' <=> Task(i, k)
          BY DEF Task
      <2>2. UNCHANGED staleVars /\ StaleInv => StaleTypes' /\ LaunchesHold' /\ WireGood' /\ RemovedWasOver'
          BY <2>1 DEF staleVars, StaleInv, StaleTypes, LaunchesHold, WireGood, WireCarries, RemovedWasOver
      <2>3. UNCHANGED staleVars /\ StaleInv => CallsGood' /\ JobsGood'
          BY <2>1 DEF staleVars, StaleInv, CallsGood, CallOver, CallHolds, JobsGood, JobOver, JobSends
      <2> QED BY <2>2, <2>3 DEF StaleInv
  <1>2. ASSUME StaleInv, StaleNext PROVE StaleInv'
      <2>1. CASE InstanceEvents \/ InstanceSteps
          BY <1>2, <2>1, EventsKeep, InstancesKeep
      <2>2. CASE CallBegins
          <3>1. "job" \in Callers /\ "page" \in Callers
              BY DEF Callers
          <3> QED BY <1>2, <2>2, <3>1, ScansKeep DEF CallBegins, RunScheduled, Preview, RemoveOne
      <2>3. CASE CallSteps
          BY <1>2, <2>3, ScansKeep, LookupKeeps, RemovingKeeps, RequestsKeep DEF CallSteps
      <2>4. CASE AgentSteps
          <3>1. DOMAIN agentJob = 1..requests
              BY <1>2 DEF StaleInv, StaleTypes
          <3> QED BY <1>2, <2>4, <3>1, RunListKeeps, SayingKeeps, RemovalKeeps DEF AgentSteps
      <2>5. CASE Handlers
          BY <1>2, <2>5, ListResultKeeps, RemoveResultKeeps DEF Handlers
      <2>6. CASE Connection
          BY <1>2, <2>6, ConnectionKeeps
      <2> QED BY <1>2, <2>1, <2>2, <2>3, <2>4, <2>5, <2>6 DEF StaleNext
  <1>3. StaleInit => StaleInv
      BY StaleInitInv
  <1> QED BY <1>1, <1>2, <1>3, PTL DEF StaleSpec

\* Types of the cleanup.
THEOREM StaleTypeCorrect == StaleSpec => []StaleTypes
  <1>1. StaleInv => StaleTypes
      BY DEF StaleInv
  <1> QED BY <1>1, StaleInvariance, PTL

\* For any instances, number of requests and size of part, whatever the node
\* held and did at first: a container the cleanup removed was stopped, its
\* launch was over and its log stored, and its record was over when the scan
\* that asked for it was judged, however late answers rewrite records
\* meanwhile (Classify, removeItem, removeStale, SetStatus).
THEOREM RemovedContainersWereOver == StaleSpec => []RemovedWasOver
  <1>1. StaleInv => RemovedWasOver
      BY DEF StaleInv
  <1> QED BY <1>1, StaleInvariance, PTL

\* A scan that finished holds exactly what the agent read for its request, in
\* however many parts that came (HandleListContainersResult, listNode).
THEOREM ScannedListsAreWhole == StaleSpec => []ListIsWhole
  <1>1. StaleInv => ListIsWhole
      BY DEF StaleInv, CallsGood, CallHolds, ListIsWhole
  <1> QED BY <1>1, StaleInvariance, PTL

-----------------------------------------------------------------------------
(* Inventory.                                                              *)

\* What is noted of entry k's import: there was none, or importBlock let the
\* copy through beside what its scan named.
ImportApart(k, x) ==
    \/ x = NotImported
    \/ \E f \in ModelFiles : /\ k[2] = FormatOf[f] /\ x.own = Copy(f)
                            /\ ~ImportBlocked(x.named, f, k[1])
ImportsApart == \A k \in Entries : ImportApart(k, imported[k])

\* An import under way is of a scan there is.
ImportOfScan == importing.pc = "upsert" => importing.scan \in 1..Len(scans)

InventoryInv == InventoryTypes /\ ImportsApart /\ ImportOfScan /\ ImportSparesNeighbours

\* The entry of a file is one of the table's.
LEMMA EntryOfType == \A f \in ModelFiles : EntryOf(f) \in Entries
  <1> SUFFICES ASSUME NEW f \in ModelFiles PROVE EntryOf(f) \in Entries
      OBVIOUS
  <1>1. CASE FormatOf[f] = "gguf"
      <2>1. LabelOf[f] \in Labels
          BY <1>1, InventoryAssumption DEF Labels
      <2> QED BY <1>1, <2>1 DEF EntryOf, Entries
  <1>2. CASE FormatOf[f] # "gguf"
      BY <1>2 DEF EntryOf, Entries
  <1> QED BY <1>1, <1>2

\* At first the inventory is empty.
LEMMA InventoryInitInv == disk \subseteq ModelFiles /\ InventoryInit => InventoryInv
  <1> SUFFICES ASSUME disk \subseteq ModelFiles, InventoryInit PROVE InventoryInv
      OBVIOUS
  <1> USE DEF InventoryInit
  <1>1. NoImport \in Imports /\ NotImported \in ImportNotes
      <2>1. <<WholeRepo, "safetensors">> \in Entries
          BY DEF Entries
      <2> QED BY <2>1 DEF NoImport, NotImported, Imports, ImportNotes
  <1>2. InventoryTypes
      BY <1>1 DEF InventoryTypes
  <1>3. ImportsApart
      BY DEF ImportsApart, ImportApart
  <1>4. ImportOfScan /\ ImportSparesNeighbours
      BY DEF ImportOfScan, ImportSparesNeighbours, NoImport
  <1> QED BY <1>2, <1>3, <1>4 DEF InventoryInv

\* A delete begins, is noted, forgotten, fails or is answered; profiles,
\* connections and people come and go.
LEMMA DeletesKeep ==
    ASSUME InventoryInv,
           \/ \E k \in Entries : CheckDeleteState(k) \/ ListProfiles(k) \/ SendDelete(k) \/ MarkRemoving(k)
           \/ \E k \in Entries : Delete(k) \/ DeleteStateExpires(k) \/ RemoveModelFails(k) \/ SetStatus(k) \/ ProfileEdited(k)
           \/ \E k \in Entries, outcome \in {"removed", "failed"} : HandleDeleteModelResult(k, outcome)
           \/ \E f \in ModelFiles : ByHand(f)
           \/ Reconnected
    PROVE InventoryInv'
  <1>1. UNCHANGED <<scans, importing, imported, harmed>>
      BY DEF Delete, CheckDeleteState, ListProfiles, SendDelete, MarkRemoving, DeleteStateExpires, RemoveModelFails, SetStatus,
             ProfileEdited, HandleDeleteModelResult, ByHand, Reconnected
  <1>2. InventoryTypes
      BY DEF InventoryInv
  <1>3. InventoryTypes'
      <2>1. ASSUME NEW k \in Entries, Delete(k) \/ DeleteStateExpires(k) \/ ProfileEdited(k) \/ SetStatus(k)
            PROVE InventoryTypes'
          BY <1>2, <2>1 DEF InventoryTypes, Delete, DeleteStateExpires, ProfileEdited, SetStatus
      <2>6. ASSUME NEW k \in Entries, NEW pc, NEW next \in SUBSET {"state", "profiles", "send", "mark"}, Ask(k, pc, next)
            PROVE asked' \subseteq Entries \X {"state", "profiles", "send", "mark"}
          BY <1>2, <2>6 DEF InventoryTypes, Ask
      <2>7. ASSUME NEW k \in Entries, CheckDeleteState(k) \/ ListProfiles(k) \/ SendDelete(k) \/ MarkRemoving(k)
            PROVE InventoryTypes'
          <3>1. \E pc, next : next \in SUBSET {"state", "profiles", "send", "mark"} /\ Ask(k, pc, next)
              <4>1. /\ {} \in SUBSET {"state", "profiles", "send", "mark"} /\ {"profiles"} \in SUBSET {"state", "profiles", "send", "mark"}
                    /\ {"send"} \in SUBSET {"state", "profiles", "send", "mark"} /\ {"mark"} \in SUBSET {"state", "profiles", "send", "mark"}
                  OBVIOUS
              <4>2. CASE CheckDeleteState(k)
                  <5>1. Ask(k, "state", {}) \/ Ask(k, "state", {"profiles"})
                      BY <4>2 DEF CheckDeleteState
                  <5> QED BY <4>1, <5>1
              <4>3. CASE ListProfiles(k)
                  <5>1. Ask(k, "profiles", {}) \/ Ask(k, "profiles", {"send"})
                      BY <4>3 DEF ListProfiles
                  <5> QED BY <4>1, <5>1
              <4>4. CASE SendDelete(k)
                  BY <4>1, <4>4 DEF SendDelete
              <4>5. CASE MarkRemoving(k)
                  BY <4>1, <4>5 DEF MarkRemoving
              <4> QED BY <2>7, <4>2, <4>3, <4>4, <4>5
          <3>2. asked' \subseteq Entries \X {"state", "profiles", "send", "mark"}
              BY <2>6, <3>1
          <3>3. /\ UNCHANGED <<disk, entry, inUse, connected, answers, scans, importing, imported, harmed>>
                /\ removing' \subseteq removing \cup {k} /\ deletes' \in [Entries -> {"none", "removing", "failed"}]
              BY <1>2, <2>7 DEF CheckDeleteState, ListProfiles, SendDelete, MarkRemoving, InventoryTypes
          <3> QED BY <1>2, <3>2, <3>3 DEF InventoryTypes
      <2>2. ASSUME NEW k \in Entries, RemoveModelFails(k) PROVE InventoryTypes'
          <3>1. <<k, "failed">> \in Entries \X {"removed", "failed", "cleared"}
              OBVIOUS
          <3>2. /\ answers' \subseteq answers \cup {<<k, "failed">>} /\ removing' \subseteq removing /\ disk' \subseteq disk
                /\ UNCHANGED <<entry, deletes, inUse, connected, asked, scans, importing, imported, harmed>>
              BY <2>2 DEF RemoveModelFails
          <3> QED BY <1>2, <3>1, <3>2 DEF InventoryTypes
      <2>3. ASSUME NEW k \in Entries, NEW outcome \in {"removed", "failed"}, HandleDeleteModelResult(k, outcome) PROVE InventoryTypes'
          BY <1>2, <2>3 DEF InventoryTypes, HandleDeleteModelResult
      <2>4. ASSUME NEW f \in ModelFiles, ByHand(f) PROVE InventoryTypes'
          BY <1>2, <2>4 DEF InventoryTypes, ByHand
      <2>5. ASSUME Reconnected PROVE InventoryTypes'
          BY <1>2, <2>5 DEF InventoryTypes, Reconnected
      <2> QED BY <2>1, <2>2, <2>3, <2>4, <2>5, <2>7
  <1>4. ImportsApart' /\ ImportOfScan' /\ ImportSparesNeighbours'
      BY <1>1 DEF InventoryInv, ImportsApart, ImportApart, ImportOfScan, ImportSparesNeighbours
  <1> QED BY <1>3, <1>4 DEF InventoryInv

\* A scan.
LEMMA NoScanType == NoScan \in ScanStates
  BY DEF NoScan, ScanStates

\* Scans begin, are answered, expire or are forgotten, and imports end.
LEMMA ScanMoves ==
    ASSUME InventoryInv, scans' \in Seq(ScanStates), Len(scans') >= Len(scans),
           importing' = importing \/ importing' = NoImport,
           entry' \in [Entries -> {"none", "present", "incomplete", "removed"}],
           deletes' \in [Entries -> {"none", "removing", "failed"}],
           asked' \subseteq asked, answers' \subseteq answers,
           UNCHANGED <<disk, inUse, connected, removing, imported, harmed>>
    PROVE InventoryInv'
  <1>1. NoImport \in Imports /\ NoImport.pc = "idle"
      <2>1. <<WholeRepo, "safetensors">> \in Entries
          BY DEF Entries
      <2> QED BY <2>1 DEF NoImport, Imports
  <1>2. InventoryTypes'
      BY <1>1 DEF InventoryInv, InventoryTypes
  <1>3. ImportOfScan'
      <2>1. Len(scans) \in Nat /\ Len(scans') \in Nat
          BY DEF InventoryInv, InventoryTypes
      <2> QED BY <1>1, <2>1 DEF InventoryInv, ImportOfScan
  <1>4. ImportsApart' /\ ImportSparesNeighbours'
      BY DEF InventoryInv, ImportsApart, ImportApart, ImportSparesNeighbours
  <1> QED BY <1>2, <1>3, <1>4 DEF InventoryInv

\* A scan is started.
LEMMA StartScanKeeps == ASSUME InventoryInv, StartScan PROVE InventoryInv'
  <1>1. /\ [NoScan EXCEPT !.status = "offline"] \in ScanStates
        /\ [NoScan EXCEPT !.agent = "asked"] \in ScanStates
        /\ [NoScan EXCEPT !.status = "failed"] \in ScanStates
      BY NoScanType DEF ScanStates
  <1>2. \E e \in ScanStates : scans' = Append(scans, e)
      BY <1>1 DEF StartScan
  <1>3. scans \in Seq(ScanStates) /\ Len(scans) \in Nat
      BY DEF InventoryInv, InventoryTypes
  <1>4. scans' \in Seq(ScanStates) /\ Len(scans') = Len(scans) + 1
      BY <1>2, <1>3, OneAdded
  <1> QED BY <1>3, <1>4, ScanMoves DEF StartScan, InventoryInv, InventoryTypes

\* A scan is made, answered, or past its time.
LEMMA ScanStepsKeep ==
    ASSUME InventoryInv, NEW s \in 1..Len(scans), ScanModels(s) \/ HandleScanModelsResult(s) \/ ScanExpires(s)
    PROVE InventoryInv'
  <1> DEFINE sc == scans[s]
  <1>1. sc \in ScanStates /\ scans \in Seq(ScanStates) /\ Len(scans) \in Nat /\ disk \subseteq ModelFiles
      BY DEF InventoryInv, InventoryTypes
  <1>2. \E e \in ScanStates : scans' = [scans EXCEPT ![s] = e]
      <2>1. CASE ScanModels(s)
          <3>1. \A F \in Cuts(disk) : F \in SUBSET ModelFiles
              BY <1>1 DEF Cuts, Firsts
          <3>2. \/ \E F \in Cuts(disk) : scans' = [scans EXCEPT ![s] = [sc EXCEPT !.agent = "listed", !.models = F, !.there = disk]]
                \/ \E a \in {"error", "none"} : scans' = [scans EXCEPT ![s] = [sc EXCEPT !.agent = a]]
              BY <1>1, <2>1 DEF ScanModels
          <3>3. \A F \in SUBSET ModelFiles : [sc EXCEPT !.agent = "listed", !.models = F, !.there = disk] \in ScanStates
              BY <1>1 DEF ScanStates
          <3>4. \A a \in {"error", "none"} : [sc EXCEPT !.agent = a] \in ScanStates
              BY <1>1 DEF ScanStates
          <3> QED BY <3>1, <3>2, <3>3, <3>4
      <2>2. CASE HandleScanModelsResult(s)
          <3> DEFINE C == {f \in sc.models : entry[EntryOf(f)] \in {"none", "removed"}}
          <3>1. C \in SUBSET ModelFiles
              BY <1>1 DEF ScanStates
          <3> HIDE DEF C
          <3>2. /\ [sc EXCEPT !.agent = "none"] \in ScanStates
                /\ [sc EXCEPT !.agent = "none", !.status = "failed"] \in ScanStates
                /\ [sc EXCEPT !.agent = "none", !.status = "done", !.candidates = C] \in ScanStates
              BY <1>1, <3>1 DEF ScanStates
          <3>3. \/ scans' = [scans EXCEPT ![s] = [sc EXCEPT !.agent = "none"]]
                \/ scans' = [scans EXCEPT ![s] = [sc EXCEPT !.agent = "none", !.status = "failed"]]
                \/ scans' = [scans EXCEPT ![s] = [sc EXCEPT !.agent = "none", !.status = "done", !.candidates = C]]
              <4>1. CASE sc.expired \/ sc.status # "pending"
                  BY <2>2, <4>1 DEF HandleScanModelsResult
              <4>2. CASE ~(sc.expired \/ sc.status # "pending") /\ sc.agent = "error"
                  BY <2>2, <4>2 DEF HandleScanModelsResult
              <4>3. CASE ~(sc.expired \/ sc.status # "pending") /\ sc.agent # "error"
                  BY <2>2, <4>3 DEF HandleScanModelsResult, C
              <4> QED BY <4>1, <4>2, <4>3
          <3> QED BY <3>2, <3>3
      <2>3. CASE ScanExpires(s)
          <3> DEFINE a == sc.agent
          <3>1. a \in {"none", "asked", "listed", "error"}
              BY <1>1 DEF ScanStates
          <3>2. scans' = [scans EXCEPT ![s] = [NoScan EXCEPT !.expired = TRUE, !.agent = a]]
              BY <2>3 DEF ScanExpires
          <3> HIDE DEF a
          <3>3. [NoScan EXCEPT !.expired = TRUE, !.agent = a] \in ScanStates
              BY <3>1, NoScanType DEF ScanStates
          <3> QED BY <3>2, <3>3
      <2> QED BY <2>1, <2>2, <2>3
  <1>3. scans' \in Seq(ScanStates) /\ Len(scans') = Len(scans)
      BY <1>1, <1>2, OneReplaced
  <1>4. UNCHANGED <<disk, entry, deletes, inUse, connected, asked, removing, answers, importing, imported, harmed>>
      BY DEF ScanModels, HandleScanModelsResult, ScanExpires
  <1> QED BY <1>1, <1>3, <1>4, ScanMoves DEF InventoryInv, InventoryTypes

\* An import is recorded or fails.
LEMMA ImportEndsKeep == ASSUME InventoryInv, ImportRecorded \/ ImportFails PROVE InventoryInv'
  <1>1. InventoryTypes /\ ImportOfScan /\ importing \in Imports /\ scans \in Seq(ScanStates) /\ Len(scans) \in Nat
      BY DEF InventoryInv, InventoryTypes
  <1>2. CASE ImportFails
      BY <1>1, <1>2, ScanMoves DEF ImportFails, InventoryTypes
  <1>3. CASE ImportRecorded
      <2> DEFINE s == importing.scan
                 sc == scans[s]
                 C == sc.candidates \ importing.files
                 e == [sc EXCEPT !.candidates = C]
      <2>1. s \in 1..Len(scans) /\ sc \in ScanStates /\ importing.entry \in Entries
          BY <1>1, <1>3 DEF ImportRecorded, ImportOfScan, Imports
      <2>2. scans' = [scans EXCEPT ![s] = e]
          BY <1>1, <1>3, <2>1 DEF ImportRecorded
      <2>3. C \in SUBSET ModelFiles
          BY <2>1 DEF ScanStates
      <2> HIDE DEF C
      <2>4. e \in ScanStates
          BY <2>1, <2>3 DEF ScanStates
      <2> HIDE DEF e
      <2>5. scans' \in Seq(ScanStates) /\ Len(scans') = Len(scans)
          BY <1>1, <2>1, <2>2, <2>4, OneReplaced
      <2>6. entry' \in [Entries -> {"none", "present", "incomplete", "removed"}]
          BY <1>1, <1>3, <2>1 DEF ImportRecorded, InventoryTypes
      <2>7. importing' = NoImport /\ UNCHANGED <<disk, deletes, inUse, connected, asked, removing, answers, imported, harmed>>
          BY <1>3 DEF ImportRecorded
      <2> QED BY <1>1, <2>5, <2>6, <2>7, ScanMoves DEF InventoryTypes
  <1> QED BY <1>2, <1>3

\* A restart forgets, and what the agent was asked goes on.
LEMMA RestartKeeps == ASSUME InventoryInv, ServerRestarts PROVE InventoryInv'
  <1>1. scans \in Seq(ScanStates) /\ Len(scans) \in Nat
      BY DEF InventoryInv, InventoryTypes
  <1>2. [NoScan EXCEPT !.expired = TRUE] \in ScanStates
      BY NoScanType DEF ScanStates
  <1>3. scans' \in [1..Len(scans) -> ScanStates]
      BY <1>1, <1>2 DEF ServerRestarts
  <1>4. scans' \in Seq(ScanStates) /\ Len(scans') = Len(scans)
      BY <1>1, <1>3
  <1>5. deletes' \in [Entries -> {"none", "removing", "failed"}]
      BY DEF ServerRestarts
  <1>6. asked' \subseteq asked /\ answers' \subseteq answers /\ importing' = NoImport
        /\ UNCHANGED <<disk, entry, inUse, connected, removing, imported, harmed>>
      BY DEF ServerRestarts
  <1> QED BY <1>1, <1>4, <1>5, <1>6, ScanMoves DEF InventoryInv, InventoryTypes

\* An import begins: importBlock was asked about this very file and scan.  A
\* transfer's entry has no import.
LEMMA ImportMoves ==
    ASSUME InventoryInv, NEW k \in Entries, NEW x \in ImportNotes, ImportApart(k, x),
           imported' = [imported EXCEPT ![k] = x], disk' \subseteq ModelFiles,
           entry' \in [Entries -> {"none", "present", "incomplete", "removed"}],
           importing' \in Imports, ImportOfScan',
           UNCHANGED <<deletes, inUse, connected, asked, removing, answers, scans, harmed>>
    PROVE InventoryInv'
  <1>1. imported \in [Entries -> ImportNotes]
      BY DEF InventoryInv, InventoryTypes
  <1>2. InventoryTypes'
      BY <1>1 DEF InventoryInv, InventoryTypes
  <1>3. \A q \in Entries : imported'[q] = IF q = k THEN x ELSE imported[q]
      BY <1>1
  <1>4. ImportsApart'
      BY <1>3 DEF InventoryInv, ImportsApart, ImportApart
  <1>5. ImportSparesNeighbours'
      BY DEF InventoryInv, ImportSparesNeighbours
  <1> QED BY <1>2, <1>4, <1>5 DEF InventoryInv

\* An import is let through.
LEMMA ImportKeeps ==
    ASSUME InventoryInv, NEW s \in 1..Len(scans), NEW f \in ModelFiles, NEW q \in Labels \cup {WholeRepo}, Import(s, f, q)
    PROVE InventoryInv'
  <1> DEFINE k == <<q, FormatOf[f]>>
             x == [own |-> Copy(f), named |-> scans[s].models, there |-> scans[s].there]
             y == [pc |-> "upsert", entry |-> k, files |-> {f}, scan |-> s]
  <1>1. k \in Entries
      <2>1. FormatOf[f] \in {"gguf", "safetensors"} /\ EntryOf(f) \in Entries
          BY EntryOfType, InventoryAssumption
      <2>2. CASE q = EntryOf(f)[1]
          <3>1. EntryOf(f) = k
              BY <2>1, <2>2 DEF EntryOf
          <3> QED BY <2>1, <3>1
      <2>3. CASE FormatOf[f] = "gguf" /\ q # WholeRepo
          BY <2>3 DEF Entries
      <2> QED BY <2>2, <2>3 DEF Import
  <1>2. scans[s].models \in SUBSET ModelFiles /\ scans[s].there \in SUBSET ModelFiles /\ Copy(f) \in SUBSET ModelFiles /\ s \in Nat
      <2>1. scans[s] \in ScanStates /\ Len(scans) \in Nat
          BY DEF InventoryInv, InventoryTypes
      <2> QED BY <2>1 DEF ScanStates, Copy
  <1>3. x \in ImportNotes /\ y \in Imports /\ y.scan = s
      BY <1>1, <1>2 DEF ImportNotes, Imports
  <1>4. imported' = [imported EXCEPT ![k] = x] /\ importing' = y
        /\ UNCHANGED <<disk, entry, deletes, inUse, connected, asked, removing, answers, scans, harmed>>
      BY DEF Import
  <1>5. ImportApart(k, x)
      BY DEF ImportApart, Import
  <1> HIDE DEF k, x, y
  <1>6. ImportOfScan'
      BY <1>3, <1>4 DEF ImportOfScan
  <1> QED BY <1>1, <1>3, <1>4, <1>5, <1>6, ImportMoves DEF InventoryInv, InventoryTypes

\* A transfer places a file.
LEMMA TransferKeeps ==
    ASSUME InventoryInv, NEW f \in ModelFiles, NEW st \in {"present", "incomplete"}, TransferPlaces(f, st)
    PROVE InventoryInv'
  <1>1. EntryOf(f) \in Entries
      BY EntryOfType
  <1>2. NotImported \in ImportNotes /\ ImportApart(EntryOf(f), NotImported)
      BY DEF NotImported, ImportNotes, ImportApart
  <1>3. /\ imported' = [imported EXCEPT ![EntryOf(f)] = NotImported] /\ importing' = importing
        /\ UNCHANGED <<deletes, inUse, connected, asked, removing, answers, scans, harmed>>
      BY DEF TransferPlaces
  <1>4. disk' \subseteq ModelFiles /\ entry' \in [Entries -> {"none", "present", "incomplete", "removed"}]
      BY <1>1 DEF TransferPlaces, InventoryInv, InventoryTypes, Copy
  <1>5. ImportOfScan' /\ importing' \in Imports
      BY <1>3 DEF InventoryInv, InventoryTypes, ImportOfScan
  <1> QED BY <1>1, <1>2, <1>3, <1>4, <1>5, ImportMoves

\* What a delete of an imported entry takes of the files its scan named beside
\* the imported copy: importBlock's question makes each of them a safetensors
\* file, taken by its name or with the last gguf file.
LEMMA DoomedBeside ==
    ASSUME NEW k \in Entries, NEW x \in ImportNotes, ImportApart(k, x), NEW F \in SUBSET ModelFiles,
           NEW g \in Doomed(k, F), g \in x.named \ x.own
    PROVE FormatOf[g] = "safetensors" /\ (Gguf(F \ Doomed(k, F)) = {} \/ k[1] \in LabelsIn[g])
  <1>1. PICK f \in ModelFiles : k[2] = FormatOf[f] /\ x.own = Copy(f) /\ ~ImportBlocked(x.named, f, k[1])
      BY DEF ImportApart, NotImported
  <1>2. g \in F /\ g \in x.named /\ g # f /\ g \in ModelFiles
      BY <1>1 DEF Doomed, ImportNotes, Copy
  <1>3. k[1] \notin {WholeRepo, "UNKNOWN"} /\ FormatOf[f] = "gguf" /\ {h \in Gguf(x.named) : k[1] \in LabelsIn[h]} = {f}
      BY <1>1, <1>2 DEF ImportBlocked
  <1>4. ~IsWholeRepo(k)
      BY <1>1, <1>3 DEF IsWholeRepo
  <1>5. FormatOf[g] = "gguf" => k[1] \notin LabelsIn[g]
      BY <1>2, <1>3 DEF Gguf
  <1> DEFINE named == {h \in F : k[1] \in LabelsIn[h]}
  <1>6. Doomed(k, F) = IF named # {} /\ Gguf(F \ named) = {} THEN F ELSE named
      BY <1>4 DEF Doomed
  <1>7. FormatOf[g] # "gguf"
      BY <1>2, <1>5, <1>6 DEF Gguf
  <1>8. FormatOf[g] = "safetensors"
      BY <1>2, <1>7, InventoryAssumption
  <1>9. Doomed(k, F) = F => Gguf(F \ Doomed(k, F)) = {}
      BY DEF Gguf
  <1> QED BY <1>6, <1>8, <1>9

\* The agent removes what an entry's delete dooms.
LEMMA RemoveModelKeeps == ASSUME InventoryInv, NEW k \in Entries, RemoveModel(k) PROVE InventoryInv'
  <1> DEFINE D == Doomed(k, disk)
             Taken(f) == [entry |-> k, file |-> f, left |-> Gguf(disk'), report |-> Report(k, f)]
  <1>1. D \subseteq ModelFiles /\ disk' = disk \ D /\ Gguf(disk') \subseteq ModelFiles
        /\ disk \in SUBSET ModelFiles
      BY DEF InventoryInv, InventoryTypes, RemoveModel, Doomed, Gguf
  <1>2. UNCHANGED <<entry, deletes, inUse, connected, asked, scans, importing, imported>>
      BY DEF RemoveModel
  <1>3. harmed' = harmed \cup {Taken(f) : f \in {g \in D : Report(k, g) # "none" \/ Others(k, g)}}
      BY DEF RemoveModel
  <1>4. \A f \in D : Report(k, f) \in {"none", "named", "shard", "cut"} /\ (Report(k, f) = "named" => f \in imported[k].named \ imported[k].own)
      BY DEF Report
  <1>5. ASSUME NEW f \in D
        PROVE /\ Taken(f) \in Harms
              /\ Taken(f).report = "named" => FormatOf[Taken(f).file] = "safetensors" /\ (Taken(f).left = {} \/ Taken(f).entry[1] \in LabelsIn[Taken(f).file])
      <2> DEFINE b == Report(k, f)
                 left == Gguf(disk')
                 t == [entry |-> k, file |-> f, left |-> left, report |-> b]
      <2>1. b \in {"none", "named", "shard", "cut"} /\ f \in ModelFiles /\ left \in SUBSET ModelFiles
          BY <1>1, <1>4
      <2>2. b = "named" => FormatOf[f] = "safetensors" /\ (left = {} \/ k[1] \in LabelsIn[f])
          <3>1. imported[k] \in ImportNotes /\ ImportApart(k, imported[k])
              BY DEF InventoryInv, InventoryTypes, ImportsApart
          <3> QED BY <1>1, <1>4, <3>1, DoomedBeside
      <2>3. Taken(f) = t
          OBVIOUS
      <2> HIDE DEF b, left
      <2>4. t \in Harms /\ t.report = b /\ t.file = f /\ t.left = left /\ t.entry = k
          BY <2>1 DEF Harms
      <2> HIDE DEF t, Taken
      <2> QED BY <2>2, <2>3, <2>4
  <1> HIDE DEF Taken, D
  <1>6. harmed' \subseteq Harms
      BY <1>3, <1>5 DEF InventoryInv, InventoryTypes
  <1>7. ImportSparesNeighbours'
      BY <1>3, <1>5 DEF InventoryInv, ImportSparesNeighbours
  <1>8. removing' \subseteq Entries /\ answers' \subseteq Entries \X {"removed", "failed", "cleared"}
      <2>1. <<k, "removed">> \in Entries \X {"removed", "failed", "cleared"}
          OBVIOUS
      <2>2. answers' \subseteq answers \cup {<<k, "removed">>} /\ removing' \subseteq removing
          BY DEF RemoveModel
      <2> QED BY <2>1, <2>2 DEF InventoryInv, InventoryTypes
  <1>9. InventoryTypes'
      BY <1>1, <1>2, <1>6, <1>8 DEF InventoryInv, InventoryTypes
  <1>10. ImportsApart' /\ ImportOfScan'
      BY <1>2 DEF InventoryInv, ImportsApart, ImportApart, ImportOfScan
  <1> QED BY <1>7, <1>9, <1>10 DEF InventoryInv

\* The inductive invariant of the inventory.
THEOREM InventoryInvariance == InventorySpec => []InventoryInv
  <1>1. InventoryInv /\ UNCHANGED inventoryVars => InventoryInv'
      BY DEF inventoryVars, InventoryInv, InventoryTypes, ImportsApart, ImportApart, ImportOfScan, ImportSparesNeighbours
  <1>2. InventoryInv => DOMAIN scans = 1..Len(scans)
      BY DEF InventoryInv, InventoryTypes
  <1>3. InventoryInv /\ InventoryCalls => InventoryInv'
      BY <1>2, StartScanKeeps, ImportKeeps, DeletesKeep DEF InventoryCalls
  <1>4. InventoryInv /\ InventorySteps => InventoryInv'
      BY <1>2, DeletesKeep, RemoveModelKeeps, ScanStepsKeep, ImportEndsKeep DEF InventorySteps
  <1>5. InventoryInv /\ InventoryWorld => InventoryInv'
      BY <1>2, DeletesKeep, ScanStepsKeep, TransferKeeps, RestartKeeps DEF InventoryWorld
  <1> QED BY <1>1, <1>3, <1>4, <1>5, InventoryInitInv, PTL DEF InventorySpec

\* Types of the inventory.
THEOREM InventoryTypeCorrect == InventorySpec => []InventoryTypes
  <1>1. InventoryInv => InventoryTypes
      BY DEF InventoryInv
  <1> QED BY <1>1, InventoryInvariance, PTL

\* For any files, formats, names, sets of shards and lists cut short: the delete
\* of an imported entry takes, of what its scan named beside it, only safetensors
\* files, by their name or with the last gguf file (importBlock against
\* removeModel).
THEOREM ImportedEntriesSpareNeighbours == InventorySpec => []ImportSparesNeighbours
  <1>1. InventoryInv => ImportSparesNeighbours
      BY DEF InventoryInv
  <1> QED BY <1>1, InventoryInvariance, PTL

-----------------------------------------------------------------------------
(* Schedules.                                                              *)

\* A save that is not written yet: no row, no check, no run is of it, and no
\* request would put it back.
Fresh(e) ==
    /\ row.save # e /\ runner.save # e
    /\ \A f \in Requests : edit[f].prev.save # e
    /\ \A r \in ran : r[1] # e

\* No run is of a save to come or of a time to come.
SavesOrdered ==
    /\ \A e \in Requests : edit[e].pc \in {"new", "write"} => Fresh(e)
    /\ \A r \in ran : r[2] <= clock

\* The row's last run is no earlier than the runs of its save ...
RowLast == ~undone => \A r \in ran : r[1] = row.save => r[2] <= row.last

\* ... nor is the one a check has read, and what it is about to run is later.
RunnerLast ==
    runner.pc \in {"zone", "begin"} /\ ~undone => \A r \in ran : r[1] = runner.save => r[2] <= runner.last
RunnerDue ==
    runner.pc = "begin" =>
        /\ runner.last < runner.occurrence /\ runner.occurrence <= runner.start /\ runner.start <= clock
        /\ \A r \in ran : r[2] <= runner.start

ScheduleInv == ScheduleTypes /\ SavesOrdered /\ RowLast /\ RunnerLast /\ RunnerDue /\ NeverTwice

\* The constants of schedules are numbers.
LEMMA ScheduleNumbers ==
    /\ DayLen \in Nat \ {0} /\ WeekLen \in Nat \ {0} /\ Back \in Nat /\ Ahead \in Nat /\ Never \in Int /\ Never = -1
    /\ \A z \in Zones : z.at \in Int /\ z.before \in Int /\ z.after \in Int
  BY ScheduleAssumption DEF Never

\* A set of integers with a lower bound has a least one ...
LEMMA LeastOf ==
    ASSUME NEW S, S \subseteq Int, S # {}, NEW b \in Int, \A x \in S : b <= x
    PROVE Min(S) \in S /\ \A x \in S : Min(S) <= x
  <1> DEFINE T == {x - b : x \in S}
             R == OpToRel(<, Nat)
  <1>1. T \subseteq Nat /\ T # {}
      <2>1. \A x \in S : x - b \in Nat
          OBVIOUS
      <2>2. PICK x \in S : TRUE
          OBVIOUS
      <2>3. x - b \in T
          BY <2>2
      <2> QED BY <2>1, <2>3
  <1>2. PICK t \in T : \A y \in T : ~(<<y, t>> \in R)
      <2>1. IsWellFoundedOn(R, Nat)
          BY NatLessThanWellFounded
      <2> HIDE DEF T, R
      <2> QED BY <1>1, <2>1, WFMin
  <1>3. \A y \in T : ~(y < t)
      BY <1>1, <1>2 DEF OpToRel
  <1>4. PICK m \in S : t = m - b
      OBVIOUS
  <1>5. \A x \in S : m <= x
      <2> TAKE x \in S
      <2>1. ~(x - b < m - b)
          BY <1>3, <1>4
      <2> QED BY <1>4, <2>1
  <1>6. \E x \in S : \A y \in S : x <= y
      BY <1>4, <1>5
  <1> QED BY <1>6 DEF Min

\* ... and one with an upper bound a greatest.
LEMMA GreatestOf ==
    ASSUME NEW S, S \subseteq Int, S # {}, NEW b \in Int, \A x \in S : x <= b
    PROVE Max(S) \in S /\ \A x \in S : x <= Max(S)
  <1> DEFINE T == {b - x : x \in S}
             R == OpToRel(<, Nat)
  <1>1. T \subseteq Nat /\ T # {}
      <2>1. \A x \in S : b - x \in Nat
          OBVIOUS
      <2>2. PICK x \in S : TRUE
          OBVIOUS
      <2>3. b - x \in T
          BY <2>2
      <2> QED BY <2>1, <2>3
  <1>2. PICK t \in T : \A y \in T : ~(<<y, t>> \in R)
      <2>1. IsWellFoundedOn(R, Nat)
          BY NatLessThanWellFounded
      <2> HIDE DEF T, R
      <2> QED BY <1>1, <2>1, WFMin
  <1>3. \A y \in T : ~(y < t)
      BY <1>1, <1>2 DEF OpToRel
  <1>4. PICK m \in S : t = b - m
      OBVIOUS
  <1>5. \A x \in S : m >= x
      <2> TAKE x \in S
      <2>1. ~(b - x < b - m)
          BY <1>3, <1>4
      <2> QED BY <1>4, <2>1
  <1>6. \E x \in S : \A y \in S : x >= y
      BY <1>4, <1>5
  <1>7. Max(S) \in S /\ \A y \in S : Max(S) >= y
      BY <1>6 DEF Max
  <1> QED BY <1>7

\* The later of two instants.
LEMMA LaterOf == ASSUME NEW a \in Int, NEW b \in Int PROVE Max({a, b}) \in Int /\ a <= Max({a, b}) /\ b <= Max({a, b})
  <1>1. Max({a, b}) \in {a, b}
      <2>1. CASE a <= b
          BY <2>1, GreatestOf
      <2>2. CASE b <= a
          BY <2>2, GreatestOf
      <2> QED BY <2>1, <2>2
  <1>2. \E x \in {a, b} : \A y \in {a, b} : x >= y
      OBVIOUS
  <1>3. \A y \in {a, b} : Max({a, b}) >= y
      BY <1>2 DEF Max
  <1> QED BY <1>1, <1>3

\* A wall time is an instant.
LEMMA WallClockIsInstant == ASSUME NEW z \in Zones, NEW w \in Int PROVE WallClock(z, w) \in Int
  <1>1. \A t \in Int : Offset(z, t) \in Int /\ Local(z, t) \in Int
      BY ScheduleNumbers DEF Offset, Local
  <1>2. Date(z, w) \in Int
      <2>1. w - Offset(z, w) \in Int
          BY <1>1
      <2> QED BY <1>1, <2>1 DEF Date
  <1> DEFINE t == Date(z, w)
             probes == {p \in (t - Back)..(t + Ahead - 1) : Local(z, p) >= w}
  <1> HIDE DEF t
  <1>3. t - Back \in Int /\ t + Ahead - 1 \in Int
      BY <1>2, ScheduleNumbers DEF t
  <1>4. probes # {} => Min(probes) \in Int
      <2>1. probes \subseteq Int /\ \A p \in probes : t - Back <= p
          BY <1>3
      <2> HIDE DEF probes
      <2> QED BY <1>3, <2>1, LeastOf
  <1> QED BY <1>2, <1>4 DEF WallClock, t

\* What Latest finds is later than the last run and not in the future.
LEMMA LatestIsDue ==
    ASSUME NEW s \in SpecShapes, NEW anchor \in Nat, NEW after \in Instants, NEW upTo \in Nat, NEW z \in Zones,
           Latest(s, anchor, after, upTo, z) # Never
    PROVE LET at == Latest(s, anchor, after, upTo, z) IN at \in Nat /\ after < at /\ at <= upTo
  <1> DEFINE at == Latest(s, anchor, after, upTo, z)
  <1>1. after \in Int /\ after >= -1
      BY ScheduleNumbers DEF Instants
  <1>2. Validate(s) /\ s.times \subseteq Int /\ s.every \in Nat
      BY DEF Latest, SpecShapes
  <1>3. CASE s.kind = "weekly"
      <2> DEFINE lower == Max({anchor, after})
                 lo == LocalDay(z, lower)
                 hi == LocalDay(z, upTo)
                 walls == {w \in WallTimes(s, lo, hi) : WallClock(z, w) <= upTo}
      <2>1. lower \in Int /\ anchor <= lower /\ after <= lower
          <3>1. anchor \in Int
              OBVIOUS
          <3> QED BY <1>1, <3>1, LaterOf
      <2>2. at = LatestWeekly(s, lower, upTo, z)
          BY <1>2, <1>3 DEF Latest
      <2> HIDE DEF lower
      <2>3. lo \in Int /\ hi \in Int
          BY <2>1, ScheduleNumbers DEF LocalDay, Local, Offset
      <2> HIDE DEF lo, hi
      <2>4. walls # {} /\ at = WallClock(z, Max(walls)) /\ ~(at <= lower)
          BY <2>2 DEF LatestWeekly, lo, hi
      <2>5. s.times \subseteq 0..(DayLen - 1)
          BY <1>2, <1>3 DEF Validate
      <2>6. \A w \in walls : w \in Int /\ w <= hi * DayLen + DayLen
          <3> TAKE w \in walls
          <3>1. PICK d \in lo..hi, tod \in s.times : w = d * DayLen + tod
              BY DEF WallTimes
          <3>2. d \in Int /\ tod \in Int /\ tod <= DayLen /\ d <= hi /\ DayLen \in Nat
              BY <2>3, <2>5, <3>1, ScheduleNumbers
          <3>3. d * DayLen \in Int /\ hi * DayLen \in Int /\ d * DayLen <= hi * DayLen
              BY <2>3, <3>2
          <3> QED BY <3>1, <3>2, <3>3
      <2>7. hi * DayLen + DayLen \in Int
          BY <2>3, ScheduleNumbers
      <2>8. Max(walls) \in walls
          <3>1. walls \subseteq Int
              BY <2>6
          <3> HIDE DEF walls
          <3> QED BY <2>4, <2>6, <2>7, <3>1, GreatestOf
      <2>9. at <= upTo /\ at \in Int
          BY <2>4, <2>6, <2>8, WallClockIsInstant
      <2> QED BY <1>1, <2>1, <2>4, <2>9
  <1>4. CASE s.kind # "weekly"
      <2> DEFINE e == Estimate(s, anchor, upTo)
                 ks == {k \in (e - 2)..(e + 1) : k >= 0 /\ EveryDaysAt(s, anchor, k, z) <= upTo}
      <2>1. at = LatestEveryDays(s, anchor, after, upTo, z) /\ s.every \in Nat \ {0}
          BY <1>2, <1>4 DEF Latest, Validate
      <2>2. s.every * DayLen \in Nat \ {0}
          BY <2>1, ScheduleNumbers
      <2>3. e \in Int
          BY <2>2 DEF Estimate
      <2> HIDE DEF e
      <2>4. ks # {} /\ at = EveryDaysAt(s, anchor, Max(ks), z) /\ ~(at <= after)
          BY <2>1 DEF LatestEveryDays, e
      <2>5. ks \subseteq Int /\ e + 1 \in Int /\ \A k \in ks : k <= e + 1
          BY <2>3
      <2>6. Max(ks) \in ks
          <3> HIDE DEF ks
          <3> QED BY <2>4, <2>5, GreatestOf
      <2>7. Max(ks) \in Int /\ at <= upTo
          BY <2>4, <2>5, <2>6
      <2>8. at \in Int
          <3>1. PICK k \in Int : k = Max(ks)
              BY <2>7
          <3>2. Local(z, anchor) \in Int
              BY ScheduleNumbers DEF Local, Offset
          <3>3. Local(z, anchor) + k * s.every * DayLen \in Int
              BY <2>1, <3>2, ScheduleNumbers
          <3> QED BY <2>4, <3>1, <3>3, WallClockIsInstant DEF EveryDaysAt
      <2> QED BY <1>1, <2>4, <2>7, <2>8
  <1> QED BY <1>3, <1>4

\* What is known of the row, the check and the request.
LEMMA ScheduleKnown ==
    ASSUME ScheduleTypes
    PROVE /\ clock \in Nat /\ Never \in Int
          /\ row.mode \in Modes /\ row.spec \in SpecShapes /\ row.set \in Nat /\ row.last \in Instants /\ row.last \in Int
          /\ row.save \in Nat
          /\ runner.spec \in SpecShapes /\ runner.set \in Nat /\ runner.last \in Instants /\ runner.last \in Int
          /\ runner.save \in Nat /\ runner.start \in Nat /\ runner.start \in Instants /\ runner.occurrence \in Int
          /\ \A e \in Requests :
                /\ edit[e] \in EditStates /\ edit[e].prev \in RowStates /\ edit[e].prev.save \in Nat /\ edit[e].prev.last \in Int
                /\ edit[e].spec \in SpecShapes /\ edit[e].mode \in Modes /\ edit[e].was \in Zones /\ edit[e].zone \in Zones
          /\ \A r \in ran : r = <<r[1], r[2]>> /\ r[1] \in Nat /\ r[2] \in Int
  <1>1. Instants \subseteq Int /\ Nat \subseteq Instants /\ Never \in Int
      BY ScheduleNumbers DEF Instants
  <1>2. /\ row.mode \in Modes /\ row.spec \in SpecShapes /\ row.set \in Nat /\ row.last \in Instants
        /\ row.save \in Nat
      BY DEF ScheduleTypes, RowStates
  <1>3. /\ runner.spec \in SpecShapes /\ runner.set \in Nat /\ runner.last \in Instants
        /\ runner.save \in Nat /\ runner.start \in Nat /\ runner.occurrence \in Instants
      BY DEF ScheduleTypes, RunnerStates
  <1>4. \A e \in Requests :
           /\ edit[e] \in EditStates /\ edit[e].prev \in RowStates
           /\ edit[e].spec \in SpecShapes /\ edit[e].mode \in Modes /\ edit[e].was \in Zones /\ edit[e].zone \in Zones
      BY DEF ScheduleTypes, EditStates
  <1>5. \A e \in Requests : edit[e].prev.save \in Nat /\ edit[e].prev.last \in Instants
      BY <1>4 DEF RowStates
  <1>6. clock \in Nat /\ \A r \in ran : r = <<r[1], r[2]>> /\ r[1] \in Nat /\ r[2] \in Int
      BY DEF ScheduleTypes
  <1> QED BY <1>1, <1>2, <1>3, <1>4, <1>5, <1>6

\* The idle check and the request to come.
LEMMA IdleGood ==
    /\ Idle \in RunnerStates /\ Idle.pc = "idle" /\ Idle.save = 0
    /\ NoEdit \in EditStates /\ NoEdit.pc = "new" /\ NoEdit.prev = FirstRow
    /\ [NoEdit EXCEPT !.pc = "over"] \in EditStates
    /\ [NoEdit EXCEPT !.pc = "over"].pc = "over" /\ [NoEdit EXCEPT !.pc = "over"].prev = FirstRow
    /\ FirstRow \in RowStates /\ FirstRow.save = 0 /\ FirstRow.set = 0 /\ FirstRow.last = Never /\ FirstZone \in Zones
    /\ \A e \in Requests : e \in Nat /\ e # 0
  <1>1. NoSpec \in SpecShapes
      BY DEF NoSpec, SpecShapes
  <1>2. Never \in Instants /\ "none" \in Modes
      BY DEF Instants, Modes
  <1>3. (CHOOSE z \in Zones : TRUE) \in Zones
      BY ScheduleAssumption
  <1>4. PICK g, n, z, m : g = NoSpec /\ n = Never /\ z = (CHOOSE y \in Zones : TRUE) /\ m = "none"
      OBVIOUS
  <1>5. Idle = [pc |-> "idle", mode |-> m, spec |-> g, set |-> 0, last |-> n, save |-> 0, start |-> 0, occurrence |-> n]
      BY <1>4 DEF Idle
  <1>6. PICK p : p = [mode |-> m, spec |-> g, set |-> 0, last |-> n, save |-> 0]
      OBVIOUS
  <1>7. p \in RowStates /\ p.save = 0 /\ p.set = 0 /\ p.last = n
      BY <1>1, <1>2, <1>4, <1>6 DEF RowStates
  <1>8. NoEdit = [pc |-> "new", kind |-> "mode", prev |-> p, mode |-> m, spec |-> g, was |-> z, zone |-> z] /\ p = FirstRow /\ z = FirstZone
      BY <1>4, <1>6 DEF NoEdit, FirstRow, FirstZone
  <1>9. Idle \in RunnerStates /\ Idle.pc = "idle" /\ Idle.save = 0
      BY <1>1, <1>2, <1>4, <1>5 DEF RunnerStates
  <1>10. NoEdit \in EditStates /\ NoEdit.pc = "new" /\ NoEdit.prev = p
      BY <1>1, <1>2, <1>3, <1>4, <1>7, <1>8 DEF EditStates
  <1>11. /\ [NoEdit EXCEPT !.pc = "over"] \in EditStates
         /\ [NoEdit EXCEPT !.pc = "over"].pc = "over" /\ [NoEdit EXCEPT !.pc = "over"].prev = p
      BY <1>10 DEF EditStates
  <1>12. \A e \in Requests : e \in Nat /\ e # 0
      BY ScheduleAssumption DEF Requests
  <1> QED BY <1>3, <1>4, <1>7, <1>8, <1>9, <1>10, <1>11, <1>12

\* At first nothing is scheduled.
LEMMA ScheduleInitInv == ScheduleInit => ScheduleInv
  <1> SUFFICES ASSUME ScheduleInit PROVE ScheduleInv
      OBVIOUS
  <1>1. ScheduleTypes
      BY IdleGood DEF ScheduleInit, ScheduleTypes
  <1>2. SavesOrdered /\ RowLast /\ RunnerLast /\ RunnerDue /\ NeverTwice
      BY IdleGood DEF ScheduleInit, SavesOrdered, Fresh, RowLast, RunnerLast, RunnerDue, NeverTwice
  <1> QED BY <1>1, <1>2 DEF ScheduleInv

\* Time passes.
LEMMA TickKeeps == ASSUME ScheduleInv, NEW n \in Nat \ {0}, Tick(n) PROVE ScheduleInv'
  <1>1. ScheduleTypes /\ clock' \in Nat /\ clock <= clock' /\ UNCHANGED <<row, zone, runner, edit, ran, twice, undone>>
      BY DEF Tick, ScheduleInv, ScheduleTypes
  <1>2. ScheduleTypes'
      BY <1>1 DEF ScheduleTypes
  <1>3. SavesOrdered' /\ RowLast' /\ RunnerLast' /\ RunnerDue' /\ NeverTwice'
      BY <1>1, ScheduleKnown DEF ScheduleInv, SavesOrdered, Fresh, RowLast, RunnerLast, RunnerDue, NeverTwice
  <1> QED BY <1>2, <1>3 DEF ScheduleInv

\* Requests that end leave no save behind that was not written.
EditsMove ==
    /\ edit' \in [Requests -> EditStates]
    /\ \A e \in Requests :
         /\ edit'[e].pc \in {"new", "write"} => edit[e].pc \in {"new", "write"}
         /\ edit'[e].prev = edit[e].prev \/ edit'[e].prev = FirstRow

\* The check moves, without a run.
LEMMA RunnerMoves ==
    ASSUME ScheduleInv, NEW x \in RunnerStates, runner' = x,
           UNCHANGED <<clock, row, zone, ran, twice, undone>>, EditsMove,
           x.save \in {0, row.save, runner.save},
           x.pc \in {"zone", "begin"} /\ ~undone => \A r \in ran : r[1] = x.save => r[2] <= x.last,
           x.pc = "begin" => /\ x.last < x.occurrence /\ x.occurrence <= x.start /\ x.start <= clock
                             /\ \A r \in ran : r[2] <= x.start
    PROVE ScheduleInv'
  <1>1. ScheduleTypes
      BY DEF ScheduleInv
  <1>2. ScheduleTypes'
      BY <1>1 DEF ScheduleTypes, EditsMove
  <1>3. SavesOrdered
      BY DEF ScheduleInv
  <1>4. SavesOrdered'
      <2>1. ASSUME NEW e \in Requests, edit'[e].pc \in {"new", "write"} PROVE Fresh(e)'
          <3>1. Fresh(e) /\ e # 0
              BY <1>3, <2>1, IdleGood DEF SavesOrdered, EditsMove
          <3> QED BY <3>1, IdleGood DEF Fresh, EditsMove
      <2> QED BY <1>3, <2>1 DEF SavesOrdered
  <1>5. RowLast' /\ RunnerLast' /\ RunnerDue' /\ NeverTwice'
      BY DEF ScheduleInv, RowLast, RunnerLast, RunnerDue, NeverTwice
  <1> QED BY <1>2, <1>4, <1>5 DEF ScheduleInv

\* The check ends, or with the server the request too.
LEMMA CheckEndsKeeps == ASSUME ScheduleInv, BeginFails \/ RunEnds \/ ServerStops PROVE ScheduleInv'
  <1>1. runner' = Idle /\ UNCHANGED <<clock, row, zone, ran, twice, undone>>
      BY DEF BeginFails, RunEnds, ServerStops
  <1>2. EditsMove
      <2>1. CASE UNCHANGED edit
          BY <2>1 DEF EditsMove, ScheduleInv, ScheduleTypes
      <2>2. CASE edit' = [e \in Requests |-> IF edit[e].pc = "new" THEN NoEdit ELSE [NoEdit EXCEPT !.pc = "over"]]
          <3>1. PICK x, y : x = NoEdit /\ y = [NoEdit EXCEPT !.pc = "over"]
              OBVIOUS
          <3>2. x \in EditStates /\ y \in EditStates /\ x.pc = "new" /\ y.pc = "over" /\ x.prev = FirstRow /\ y.prev = FirstRow
              BY <3>1, IdleGood
          <3>3. edit' = [e \in Requests |-> IF edit[e].pc = "new" THEN x ELSE y]
              BY <2>2, <3>1
          <3> QED BY <3>2, <3>3 DEF EditsMove
      <2> QED BY <2>1, <2>2 DEF BeginFails, RunEnds, ServerStops
  <1> QED BY <1>1, <1>2, IdleGood, RunnerMoves

\* The row is read.
LEMMA LoadKeeps == ASSUME ScheduleInv, Load PROVE ScheduleInv'
  <1> DEFINE x == [Idle EXCEPT !.pc = "zone", !.spec = row.spec, !.set = row.set, !.last = row.last, !.save = row.save]
  <1>1. ScheduleTypes
      BY DEF ScheduleInv
  <1>2. x \in RunnerStates
      BY <1>1, IdleGood, ScheduleKnown DEF RunnerStates
  <1>3. x.pc = "zone" /\ x.last = row.last /\ x.save = row.save
      BY IdleGood DEF RunnerStates
  <1>4. runner' = x /\ UNCHANGED <<clock, row, zone, edit, ran, twice, undone>>
      BY DEF Load
  <1> HIDE DEF x
  <1>5. EditsMove
      BY <1>1, <1>4 DEF EditsMove, ScheduleTypes
  <1>6. ~undone => \A r \in ran : r[1] = x.save => r[2] <= x.last
      BY <1>3 DEF ScheduleInv, RowLast
  <1> QED BY <1>2, <1>3, <1>4, <1>5, <1>6, RunnerMoves

\* A run is owed, later than the last run the check has read, or is not.
LEMMA CheckDueKeeps == ASSUME ScheduleInv, CheckDue PROVE ScheduleInv'
  <1> DEFINE at == Latest(runner.spec, runner.set, runner.last, clock, zone)
             x == [runner EXCEPT !.pc = "begin", !.occurrence = at, !.start = clock]
  <1>1. ScheduleTypes /\ runner \in RunnerStates /\ zone \in Zones
      BY DEF ScheduleInv, ScheduleTypes
  <1>2. UNCHANGED <<clock, row, zone, edit, ran, twice, undone>> /\ runner.pc = "zone"
      BY DEF CheckDue
  <1>0. EditsMove
      BY <1>1, <1>2 DEF EditsMove, ScheduleTypes
  <1>3. CASE at = Never
      <2>1. runner' = Idle
          BY <1>3 DEF CheckDue
      <2> QED BY <1>0, <1>2, <2>1, IdleGood, RunnerMoves
  <1>4. CASE at # Never
      <2>1. runner' = x
          BY <1>4 DEF CheckDue
      <2>2. at \in Nat /\ runner.last < at /\ at <= clock
          BY <1>1, <1>4, ScheduleKnown, LatestIsDue
      <2> HIDE DEF at
      <2>3. at \in Instants /\ clock \in Nat
          BY <1>1, <2>2, ScheduleKnown DEF Instants
      <2>4. x \in RunnerStates
          BY <1>1, <2>3 DEF RunnerStates
      <2>5. x.pc = "begin" /\ x.last = runner.last /\ x.save = runner.save /\ x.occurrence = at /\ x.start = clock
          BY <1>1 DEF RunnerStates
      <2> HIDE DEF x
      <2>6. ~undone => \A r \in ran : r[1] = x.save => r[2] <= x.last
          BY <1>2, <2>5 DEF ScheduleInv, RunnerLast
      <2>7. x.last < x.occurrence /\ x.occurrence <= x.start /\ x.start <= clock /\ \A r \in ran : r[2] <= x.start
          BY <2>2, <2>3, <2>5 DEF ScheduleInv, SavesOrdered
      <2> QED BY <1>0, <1>2, <2>1, <2>4, <2>5, <2>6, <2>7, RunnerMoves
  <1> QED BY <1>3, <1>4

\* A run begins: of an occurrence later than every run of its save, and the row's
\* last run is then no earlier than any run.
LEMMA BeginKeeps == ASSUME ScheduleInv, Begin PROVE ScheduleInv'
  <1> DEFINE new == <<runner.save, runner.occurrence>>
             y == [row EXCEPT !.last = runner.start]
             x == [runner EXCEPT !.pc = "run"]
  <1>1. ScheduleTypes /\ row \in RowStates /\ runner \in RunnerStates
      BY DEF ScheduleInv, ScheduleTypes
  <1>2. /\ runner.pc = "begin" /\ row' = y /\ runner' = x /\ ran' = ran \cup {new}
        /\ twice' = (twice \/ new \in ran) /\ UNCHANGED <<clock, zone, edit, undone>>
      BY DEF Begin
  <1>3. y \in RowStates /\ y.save = row.save /\ y.last = runner.start
      BY <1>1, ScheduleKnown DEF RowStates
  <1>4. x \in RunnerStates /\ x.pc = "run" /\ x.save = runner.save
      BY <1>1 DEF RunnerStates
  <1>5. new \in Nat \X Int /\ new[1] = runner.save /\ new[2] = runner.occurrence
      BY <1>1, ScheduleKnown
  <1> HIDE DEF x, y, new
  <1>6. /\ runner.last < runner.occurrence /\ runner.occurrence <= runner.start /\ runner.start <= clock
        /\ \A r \in ran : r[2] <= runner.start
      BY <1>2 DEF ScheduleInv, RunnerDue
  <1>7. ScheduleTypes'
      <2>1. ran' \subseteq (Nat \X Int) /\ twice' \in BOOLEAN
          BY <1>1, <1>2, <1>5 DEF ScheduleTypes
      <2> QED BY <1>1, <1>2, <1>3, <1>4, <2>1 DEF ScheduleTypes
  <1>8. SavesOrdered'
      <2>1. new[2] <= clock
          BY <1>1, <1>5, <1>6, ScheduleKnown
      <2>2. ASSUME NEW e \in Requests, Fresh(e) PROVE Fresh(e)'
          BY <1>2, <1>3, <1>4, <1>5, <2>2 DEF Fresh
      <2> QED BY <1>2, <2>1, <2>2 DEF ScheduleInv, SavesOrdered
  <1>9. RowLast'
      <2>1. \A r \in ran' : r[2] <= runner.start
          BY <1>2, <1>5, <1>6
      <2> QED BY <1>2, <1>3, <2>1 DEF RowLast
  <1>10. RunnerLast' /\ RunnerDue'
      BY <1>2, <1>4 DEF RunnerLast, RunnerDue
  <1>11. NeverTwice'
      <2>1. ~undone => new \notin ran
          <3> SUFFICES ASSUME ~undone, new \in ran PROVE FALSE
              OBVIOUS
          <3>1. new[2] <= runner.last
              BY <1>2, <1>5 DEF ScheduleInv, RunnerLast
          <3> QED BY <1>1, <1>5, <1>6, <3>1, ScheduleKnown
      <2> QED BY <1>2, <2>1 DEF ScheduleInv, NeverTwice
  <1> QED BY <1>7, <1>8, <1>9, <1>10, <1>11 DEF ScheduleInv

\* A request moves on, and the row may with it: to what another request has not
\* saved yet either, with a last run no earlier than the runs of its save.
LEMMA RequestMoves ==
    ASSUME ScheduleInv, NEW e \in Requests, NEW x \in EditStates, NEW y \in RowStates,
           edit' = [edit EXCEPT ![e] = x], row' = y, zone' \in Zones, undone' \in BOOLEAN, undone => undone',
           UNCHANGED <<clock, runner, ran, twice>>,
           x.pc \in {"new", "write"} => edit[e].pc \in {"new", "write"} /\ y = row,
           x.prev \in {row, edit[e].prev, FirstRow},
           y.save \in {row.save, edit[e].prev.save, e},
           y.save = e => edit[e].pc \in {"new", "write"} \/ y.save = row.save \/ y.save = edit[e].prev.save,
           ~undone' => \A r \in ran : r[1] = y.save => r[2] <= y.last
    PROVE ScheduleInv'
  <1>1. ScheduleTypes /\ SavesOrdered
      BY DEF ScheduleInv
  <1>2. ScheduleTypes'
      BY <1>1 DEF ScheduleTypes
  <1>3. SavesOrdered'
      <2>1. ASSUME NEW f \in Requests, edit'[f].pc \in {"new", "write"} PROVE Fresh(f)'
          <3>1. edit[f].pc \in {"new", "write"} /\ (f = e => y = row)
              BY <1>1, <2>1 DEF ScheduleTypes
          <3>2. Fresh(f) /\ f # 0
              BY <1>1, <3>1, IdleGood DEF SavesOrdered
          <3>3. y.save # f
              BY <3>1, <3>2 DEF Fresh
          <3>4. x.prev.save # f
              BY <3>2, IdleGood DEF Fresh
          <3>5. \A g \in Requests : edit'[g].prev.save # f
              BY <1>1, <3>2, <3>4 DEF Fresh, ScheduleTypes
          <3> QED BY <3>2, <3>3, <3>5 DEF Fresh
      <2> QED BY <1>1, <2>1 DEF SavesOrdered
  <1>4. RowLast' /\ RunnerLast' /\ RunnerDue' /\ NeverTwice'
      BY DEF ScheduleInv, RowLast, RunnerLast, RunnerDue, NeverTwice
  <1> QED BY <1>2, <1>3, <1>4 DEF ScheduleInv

\* The settings page and the time zone page.
LEMMA PagesKeep ==
    ASSUME ScheduleInv, NEW e \in Requests,
           (\E m \in Modes, s \in Specs : UpdateSettings(e, m, s)) \/ (\E z \in Zones : UpdateTimezone(e, z))
    PROVE ScheduleInv'
  <1>1. ScheduleTypes /\ row \in RowStates /\ zone \in Zones
      BY DEF ScheduleInv, ScheduleTypes
  <1>0. ~undone => \A r \in ran : r[1] = row.save => r[2] <= row.last
      BY DEF ScheduleInv, RowLast
  <1>2. ASSUME NEW m \in Modes, NEW s \in Specs, UpdateSettings(e, m, s) PROVE ScheduleInv'
      <2>1. PICK g : g = IF m = "none" /\ ~Validate(s) THEN row.spec ELSE s
          OBVIOUS
      <2>2. g \in SpecShapes
          BY <1>1, <2>1, ScheduleKnown, ScheduleAssumption DEF SpecShapes
      <2> DEFINE x == [NoEdit EXCEPT !.pc = "write", !.prev = row, !.mode = m, !.spec = g]
      <2>3. /\ edit[e].pc = "new" /\ edit' = [edit EXCEPT ![e] = x]
            /\ UNCHANGED <<clock, row, zone, runner, ran, twice, undone>>
          BY <1>2, <2>1 DEF UpdateSettings
      <2>4. x \in EditStates
          BY <1>1, <2>2, IdleGood DEF EditStates
      <2>5. x.prev = row
          BY IdleGood DEF EditStates
      <2> HIDE DEF x
      <2>6. undone' \in BOOLEAN /\ (undone => undone')
          BY <1>1, <2>3 DEF ScheduleTypes
      <2> QED BY <1>0, <1>1, <2>3, <2>4, <2>5, <2>6, RequestMoves
  <1>3. ASSUME NEW z \in Zones, UpdateTimezone(e, z) PROVE ScheduleInv'
      <2> DEFINE x == [NoEdit EXCEPT !.pc = "write", !.kind = "zone", !.was = zone, !.zone = z]
      <2>1. /\ edit[e].pc = "new" /\ edit' = [edit EXCEPT ![e] = x]
            /\ UNCHANGED <<clock, row, zone, runner, ran, twice, undone>>
          BY <1>3 DEF UpdateTimezone
      <2>2. x \in EditStates
          BY <1>1, IdleGood DEF EditStates
      <2>3. x.prev = FirstRow
          BY IdleGood DEF EditStates
      <2> HIDE DEF x
      <2>4. undone' \in BOOLEAN /\ (undone => undone')
          BY <1>1, <2>1 DEF ScheduleTypes
      <2> QED BY <1>0, <1>1, <2>1, <2>2, <2>3, <2>4, RequestMoves
  <1> QED BY <1>2, <1>3

\* The row is saved: a schedule that restarts has a save nothing ran under, one
\* that goes on keeps its last run.
LEMMA SavedKeeps == ASSUME ScheduleInv, NEW e \in Requests, SettingsWritten(e) PROVE ScheduleInv'
  <1> DEFINE y == Saved(row, e)
             x == [edit[e] EXCEPT !.pc = "audit"]
  <1>1. ScheduleTypes /\ edit[e] \in EditStates /\ row \in RowStates
      BY DEF ScheduleInv, ScheduleTypes
  <1>2. /\ edit[e].pc = "write" /\ row' = y /\ edit' = [edit EXCEPT ![e] = x]
        /\ UNCHANGED <<clock, zone, runner, ran, twice, undone>>
      BY <1>1 DEF SettingsWritten, ScheduleTypes
  <1>3. x \in EditStates /\ x.pc = "audit" /\ x.prev = edit[e].prev
      BY <1>1 DEF EditStates
  <1>4. y \in RowStates /\ (y.save = e \/ (y.save = row.save /\ y.last = row.last))
      <2>1. CASE row.spec # edit[e].spec \/ row.mode = "none"
          <3>1. y = [mode |-> edit[e].mode, spec |-> edit[e].spec, set |-> clock, last |-> Never, save |-> e]
              BY <2>1 DEF Saved
          <3>2. Never \in Instants /\ e \in Nat
              BY IdleGood DEF Instants
          <3>3. y \in RowStates
              BY <1>1, <3>1, <3>2, ScheduleKnown DEF RowStates
          <3>4. y.save = e
              BY <3>1
          <3> QED BY <3>3, <3>4
      <2>2. CASE ~(row.spec # edit[e].spec \/ row.mode = "none")
          <3>1. y = [mode |-> edit[e].mode, spec |-> edit[e].spec, set |-> row.set, last |-> row.last, save |-> row.save]
              BY <2>2 DEF Saved
          <3>2. y \in RowStates
              BY <1>1, <3>1, ScheduleKnown DEF RowStates
          <3>3. y.save = row.save /\ y.last = row.last
              BY <3>1
          <3> QED BY <3>2, <3>3
      <2> QED BY <2>1, <2>2
  <1> HIDE DEF x, y
  <1>5. ~undone => \A r \in ran : r[1] = y.save => r[2] <= y.last
      <2>1. \A r \in ran : r[1] # e
          BY <1>2 DEF ScheduleInv, SavesOrdered, Fresh
      <2> QED BY <1>4, <2>1 DEF ScheduleInv, RowLast
  <1>6. zone' \in Zones /\ undone' \in BOOLEAN
      BY <1>1, <1>2 DEF ScheduleTypes
  <1> QED BY <1>2, <1>3, <1>4, <1>5, <1>6, RequestMoves

\* The zone is saved.
LEMMA ZoneWrittenKeeps == ASSUME ScheduleInv, NEW e \in Requests, ZoneWritten(e) PROVE ScheduleInv'
  <1> DEFINE x == [edit[e] EXCEPT !.pc = "audit"]
  <1>1. ScheduleTypes /\ edit[e] \in EditStates /\ row \in RowStates
      BY DEF ScheduleInv, ScheduleTypes
  <1>2. /\ edit' = [edit EXCEPT ![e] = x] /\ zone' = edit[e].zone
        /\ UNCHANGED <<clock, row, runner, ran, twice, undone>>
      BY <1>1 DEF ZoneWritten, ScheduleTypes
  <1>3. x \in EditStates /\ x.pc = "audit" /\ x.prev = edit[e].prev
      BY <1>1 DEF EditStates
  <1> HIDE DEF x
  <1>4. zone' \in Zones /\ undone' \in BOOLEAN
      BY <1>1, <1>2, ScheduleKnown DEF ScheduleTypes
  <1>5. ~undone => \A r \in ran : r[1] = row.save => r[2] <= row.last
      BY DEF ScheduleInv, RowLast
  <1> QED BY <1>1, <1>2, <1>3, <1>4, <1>5, RequestMoves

\* The request ends: audited, or undone with what it had read.
LEMMA EditEndsKeeps == ASSUME ScheduleInv, NEW e \in Requests, EditEnds(e) \/ EditUndone(e) PROVE ScheduleInv'
  <1>1. ScheduleTypes /\ row \in RowStates
      BY DEF ScheduleInv, ScheduleTypes
  <1>2. PICK x : x = [NoEdit EXCEPT !.pc = "over"]
      OBVIOUS
  <1>3. x \in EditStates /\ x.pc = "over" /\ x.prev = FirstRow
      BY <1>2, IdleGood
  <1>4. edit' = [edit EXCEPT ![e] = x] /\ UNCHANGED <<clock, runner, ran, twice>>
      BY <1>2 DEF EditEnds, EditUndone, Ended
  <1>5. CASE row' = row
      <2>1. zone' \in Zones /\ undone' \in BOOLEAN /\ (undone => undone')
          BY <1>1, ScheduleKnown DEF EditEnds, EditUndone, ScheduleTypes
      <2>2. ~undone' => \A r \in ran : r[1] = row.save => r[2] <= row.last
          BY <2>1 DEF ScheduleInv, RowLast
      <2> QED BY <1>1, <1>3, <1>4, <1>5, <2>1, <2>2, RequestMoves
  <1>6. CASE row' # row
      <2>1. EditUndone(e) /\ edit[e].kind = "mode" /\ row' = edit[e].prev /\ zone' = zone
          BY <1>6 DEF EditEnds, EditUndone
      <2>2. undone' = (undone \/ \E r \in ran : r[1] = edit[e].prev.save /\ r[2] > edit[e].prev.last)
          BY <2>1 DEF EditUndone
      <2>3. ~undone' => \A r \in ran : r[1] = edit[e].prev.save => r[2] <= edit[e].prev.last
          <3> SUFFICES ASSUME ~undone', NEW r \in ran, r[1] = edit[e].prev.save PROVE r[2] <= edit[e].prev.last
              OBVIOUS
          <3>1. ~(r[2] > edit[e].prev.last)
              BY <2>2
          <3>2. r[2] \in Int /\ edit[e].prev.last \in Int
              BY <1>1, ScheduleKnown
          <3> QED BY <3>1, <3>2
      <2>4. zone' \in Zones /\ undone' \in BOOLEAN /\ (undone => undone') /\ edit[e].prev \in RowStates
          BY <1>1, <2>1, <2>2, ScheduleKnown DEF ScheduleTypes
      <2>5. edit[e].prev.save = e => edit[e].pc \in {"new", "write"} \/ edit[e].prev.save = row.save \/ edit[e].prev.save = edit[e].prev.save
          OBVIOUS
      <2> QED BY <1>3, <1>4, <2>1, <2>3, <2>4, <2>5, RequestMoves
  <1> QED BY <1>5, <1>6

\* The inductive invariant of the schedule's row, its runner and its editors.
THEOREM ScheduleInvariance == ScheduleSpec => []ScheduleInv
  <1>1. ScheduleInv /\ [(\E n \in Nat \ {0} : Tick(n)) \/ Runs \/ ServerStops \/ Edits]_scheduleVars => ScheduleInv'
      <2> SUFFICES ASSUME ScheduleInv, [(\E n \in Nat \ {0} : Tick(n)) \/ Runs \/ ServerStops \/ Edits]_scheduleVars
                   PROVE ScheduleInv'
          OBVIOUS
      <2>1. CASE \E n \in Nat \ {0} : Tick(n)
          BY <2>1, TickKeeps
      <2>2. CASE Runs
          BY <2>2, LoadKeeps, CheckDueKeeps, BeginKeeps, CheckEndsKeeps DEF Runs
      <2>3. CASE ServerStops
          BY <2>3, CheckEndsKeeps
      <2>4. CASE Edits
          BY <2>4, PagesKeep, SavedKeeps, ZoneWrittenKeeps, EditEndsKeeps DEF Edits
      <2>5. CASE UNCHANGED scheduleVars
          BY <2>5 DEF scheduleVars, ScheduleInv, ScheduleTypes, SavesOrdered, Fresh, RowLast, RunnerLast, RunnerDue, NeverTwice
      <2> QED BY <2>1, <2>2, <2>3, <2>4, <2>5
  <1> QED BY <1>1, ScheduleInitInv, PTL DEF ScheduleSpec

\* The types of the row, the check and the request hold.
THEOREM ScheduleTypeCorrect == ScheduleSpec => []ScheduleTypes
  <1>1. ScheduleInv => ScheduleTypes
      BY DEF ScheduleInv
  <1> QED BY <1>1, ScheduleInvariance, PTL

\* No occurrence of a saved schedule is run twice, for any schedules, time zones
\* and clock changes, unless an undo has put back an older last run: MarkRun
\* comes before the run, and a save that restarts the schedule is a new one.
THEOREM OccurrencesRunOnce == ScheduleSpec => []NeverTwice
  <1>1. ScheduleInv => NeverTwice
      BY DEF ScheduleInv
  <1> QED BY <1>1, ScheduleInvariance, PTL

-----------------------------------------------------------------------------
(* Latest and Next find what the schedule names.                           *)

\* The least and the greatest of a set are the only ones.
LEMMA MinIs == ASSUME NEW S, S \subseteq Int, NEW m \in S, \A x \in S : m <= x PROVE Min(S) = m
  <1>1. \A x \in S : (\A y \in S : x <= y) => x = m
      OBVIOUS
  <1> QED BY <1>1 DEF Min

\* The same for the greatest.
LEMMA MaxIs == ASSUME NEW S, S \subseteq Int, NEW m \in S, \A x \in S : x <= m PROVE Max(S) = m
  <1>1. \A x \in S : (\A y \in S : x >= y) => x = m
      OBVIOUS
  <1>2. \A y \in S : m >= y
      OBVIOUS
  <1> QED BY <1>1, <1>2 DEF Max

\* Quotient and remainder.
LEMMA Division == ASSUME NEW x \in Int, NEW n \in Nat \ {0}
    PROVE \E q \in Int, r \in Int : q = x \div n /\ r = x % n /\ 0 <= r /\ r < n /\ x = n * q + r
  <1>1. x \div n \in Int /\ x % n \in Int
      OBVIOUS
  <1>2. 0 <= x % n /\ x % n < n
      OBVIOUS
  <1>3. x % n = x - n * (x \div n)
      OBVIOUS
  <1>4. PICK q \in Int, r \in Int : q = x \div n /\ r = x % n
      BY <1>1
  <1>5. r = x - n * q
      BY <1>3, <1>4
  <1>6. x = n * q + r
      BY <1>5
  <1> QED BY <1>2, <1>4, <1>6

\* The quotient is the only one.
LEMMA QuotientIs == ASSUME NEW n \in Nat \ {0}, NEW d \in Int, NEW r \in 0..(n - 1), NEW x \in Int, x = d * n + r
    PROVE x \div n = d /\ x % n = r
  <1>1. PICK q \in Int, s \in Int : q = x \div n /\ s = x % n /\ 0 <= s /\ s < n /\ x = n * q + s
      BY Division
  <1>2. PICK e \in Int : e = q - d
      OBVIOUS
  <1>3. n * e = n * q - n * d
      BY <1>2
  <1>4. n * e = r - s
      BY <1>1, <1>3
  <1>5. n * e < n /\ -n < n * e
      BY <1>1, <1>4
  <1>6. e >= 1 => n * e >= n
      OBVIOUS
  <1>7. e <= -1 => n * e <= -n
      OBVIOUS
  <1>8. e = 0
      BY <1>5, <1>6, <1>7
  <1> QED BY <1>1, <1>2, <1>4, <1>8

\* A larger number has no smaller quotient.
LEMMA DivisionGrows == ASSUME NEW n \in Nat \ {0}, NEW x \in Int, NEW y \in Int, x <= y PROVE x \div n <= y \div n
  OBVIOUS

\* Not the same time of day: the clock has changed by less than a day.
LEMMA ShiftShows == ASSUME NEW n \in Nat \ {0}, NEW x \in Int, NEW g \in Int, 0 < g, g < n PROVE (x + g) % n # x % n
  <1> SUFFICES ASSUME (x + g) % n = x % n PROVE FALSE
      OBVIOUS
  <1>1. PICK q \in Int, r \in Int : q = x \div n /\ r = x % n /\ 0 <= r /\ r < n /\ x = n * q + r
      BY Division
  <1>2. x + g \in Int
      OBVIOUS
  <1>3. PICK p \in Int, s \in Int : p = (x + g) \div n /\ s = (x + g) % n /\ 0 <= s /\ s < n /\ x + g = n * p + s
      BY <1>2, Division
  <1>4. PICK e \in Int : e = p - q
      OBVIOUS
  <1>5. n * e = n * p - n * q
      BY <1>4
  <1>6. n * e = g
      BY <1>1, <1>3, <1>5
  <1>7. e >= 1 => n * e >= n
      OBVIOUS
  <1>8. e <= 0 => n * e <= 0
      OBVIOUS
  <1> QED BY <1>6, <1>7, <1>8

\* What a zone is.
LEMMA ZoneIs ==
    ASSUME NEW z \in Zones
    PROVE  /\ z.at \in Int /\ z.before \in Int /\ z.after \in Int
           /\ -DayLen < z.before /\ z.before < DayLen /\ -DayLen < z.after /\ z.after < DayLen
           /\ z.after - z.before < DayLen /\ z.before - z.after < DayLen
           /\ z.after - z.before <= Back /\ z.after - z.before < Ahead
           /\ (z.at - 1 + z.before) \div DayLen <= (z.at + z.after) \div DayLen
           /\ \A t \in Int : /\ Offset(z, t) = IF t < z.at THEN z.before ELSE z.after
                             /\ Local(z, t) = t + Offset(z, t) /\ Local(z, t) \in Int
                             /\ LocalDay(z, t) = Local(z, t) \div DayLen /\ LocalDay(z, t) \in Int
  <1>1. z.at \in Int /\ z.before \in Int /\ z.after \in Int /\ DayLen \in Nat \ {0}
      BY ScheduleNumbers
  <1>2. \A t \in Int : Local(z, t) \in Int
      BY <1>1 DEF Local, Offset
  <1>3. \A t \in Int : LocalDay(z, t) \in Int
      BY <1>1, <1>2 DEF LocalDay
  <1> QED BY <1>1, <1>2, <1>3, ZonesAssumption DEF Offset, Local, LocalDay

\* The three ways a wall time is an instant: before the clock change, after it, or
\* skipped by it.  One that comes twice is before the change if it is numerically
\* before its instant.
Shape(z, w, c) ==
    \/ c = w - z.before /\ w < z.at + z.before /\ (w < z.at \/ w < z.at + z.after)
    \/ c = w - z.after /\ w >= z.at + z.after /\ (w >= z.at \/ w >= z.at + z.before)
    \/ c = z.at /\ z.at + z.before <= w /\ w < z.at + z.after

\* Every wall time, and what wallClock makes of it, has that shape.
LEMMA WallClockShape ==
    ASSUME NEW z \in Zones, NEW w \in Int
    PROVE  WallClock(z, w) \in Int /\ Shape(z, w, WallClock(z, w))
  <1>1. PICK A \in Int, a \in Int, b \in Int : A = z.at /\ a = z.before /\ b = z.after
      BY ZoneIs
  <1>2. \A t \in Int : Offset(z, t) = IF t < A THEN a ELSE b
      BY <1>1, ZoneIs
  <1>3. \A t \in Int : Local(z, t) = IF t < A THEN t + a ELSE t + b
      BY <1>1, <1>2, ZoneIs
  <1>4. Date(z, w) = IF w < A THEN (IF w - a < A THEN w - a ELSE w - b) ELSE (IF w - b < A THEN w - a ELSE w - b)
      <2>1. CASE w < A
          <3>1. Offset(z, w) = a /\ w - a \in Int
              BY <1>2, <2>1
          <3> QED BY <1>1, <1>2, <2>1, <3>1 DEF Date
      <2>2. CASE ~(w < A)
          <3>1. Offset(z, w) = b /\ w - b \in Int
              BY <1>2, <2>2
          <3> QED BY <1>1, <1>2, <2>2, <3>1 DEF Date
      <2> QED BY <2>1, <2>2
  <1> DEFINE t == Date(z, w)
             probes == {p \in (t - Back)..(t + Ahead - 1) : Local(z, p) >= w}
  <1>5. ASSUME t \in Int, Local(z, t) = w PROVE WallClock(z, w) = t
      BY <1>5 DEF WallClock
  <1>6. CASE w < A + a /\ (w < A \/ w < A + b)
      <2>1. t = w - a
          BY <1>4, <1>6
      <2>2. Local(z, t) = w
          BY <1>3, <1>6, <2>1
      <2> QED BY <1>1, <1>5, <1>6, <2>1, <2>2 DEF Shape
  <1>7. CASE w >= A + b /\ (w >= A \/ w >= A + a)
      <2>1. t = w - b
          BY <1>4, <1>7
      <2>2. Local(z, t) = w
          BY <1>3, <1>7, <2>1
      <2> QED BY <1>1, <1>5, <1>7, <2>1, <2>2 DEF Shape
  <1>8. CASE A + a <= w /\ w < A + b
      <2>1. t \in Int /\ (t = w - a \/ t = w - b)
          BY <1>4
      <2> HIDE DEF t
      <2>2. PICK g \in Int : g = b - a /\ 0 < g /\ g < DayLen /\ g <= Back /\ g < Ahead
          BY <1>1, <1>8, ZoneIs
      <2>3. DayLen \in Nat \ {0} /\ Back \in Nat /\ Ahead \in Nat
          BY ScheduleNumbers
      <2>4. Local(z, t) = w + g \/ Local(z, t) = w - g
          BY <1>3, <1>8, <2>1, <2>2
      <2>5. Local(z, t) % DayLen # w % DayLen
          <3>1. (w + g) % DayLen # w % DayLen
              BY <2>2, <2>3, ShiftShows
          <3>2. PICK v \in Int : v = w - g /\ w = v + g
              OBVIOUS
          <3>3. (v + g) % DayLen # v % DayLen
              BY <2>2, <2>3, ShiftShows
          <3> QED BY <2>4, <3>1, <3>2, <3>3
      <2>6. A \in probes
          <3>1. Local(z, A) >= w
              BY <1>3, <1>8
          <3>2. A >= t - Back /\ A <= t + Ahead - 1
              BY <1>8, <2>1, <2>2, <2>3
          <3> QED BY <2>1, <2>3, <3>1, <3>2
      <2>7. probes \subseteq Int /\ \A p \in probes : A <= p
          <3>1. \A p \in Int : Local(z, p) >= w => A <= p
              BY <1>3, <1>8
          <3> QED BY <2>1, <2>3, <3>1
      <2>8. Min(probes) = A
          <3> HIDE DEF probes
          <3> QED BY <2>6, <2>7, MinIs
      <2>9. WallClock(z, w) = A
          BY <2>5, <2>6, <2>8 DEF WallClock, t
      <2> QED BY <1>1, <1>8, <2>9 DEF Shape
  <1> QED BY <1>6, <1>7, <1>8

\* A later wall time is no earlier an instant.
LEMMA WallClockGrows ==
    ASSUME NEW z \in Zones, NEW v \in Int, NEW w \in Int, v <= w
    PROVE  WallClock(z, v) <= WallClock(z, w)
  <1>1. PICK A \in Int, a \in Int, b \in Int : A = z.at /\ a = z.before /\ b = z.after
      BY ZoneIs
  <1>2. PICK c \in Int, d \in Int : c = WallClock(z, v) /\ d = WallClock(z, w) /\ Shape(z, v, c) /\ Shape(z, w, d)
      BY WallClockShape
  <1>3. \/ c = v - a /\ v < A + a /\ (v < A \/ v < A + b)
        \/ c = v - b /\ v >= A + b /\ (v >= A \/ v >= A + a)
        \/ c = A /\ A + a <= v /\ v < A + b
      BY <1>1, <1>2 DEF Shape
  <1>4. \/ d = w - a /\ w < A + a /\ (w < A \/ w < A + b)
        \/ d = w - b /\ w >= A + b /\ (w >= A \/ w >= A + a)
        \/ d = A /\ A + a <= w /\ w < A + b
      BY <1>1, <1>2 DEF Shape
  <1>5. c <= d
      BY <1>3, <1>4
  <1> QED BY <1>2, <1>5

\* The instant of a wall time is less than a day from where any of the zone's
\* offsets would put it.
LEMMA WallClockNear ==
    ASSUME NEW z \in Zones, NEW w \in Int, NEW t \in Int
    PROVE  w - Offset(z, t) - DayLen < WallClock(z, w) /\ WallClock(z, w) < w - Offset(z, t) + DayLen
  <1>1. PICK A \in Int, a \in Int, b \in Int : A = z.at /\ a = z.before /\ b = z.after
      BY ZoneIs
  <1>2. PICK c \in Int : c = WallClock(z, w) /\ Shape(z, w, c)
      BY WallClockShape
  <1>3. c = w - a \/ c = w - b \/ (c = A /\ A + a <= w /\ w < A + b)
      BY <1>1, <1>2 DEF Shape
  <1>4. PICK o \in Int : o = Offset(z, t) /\ (o = a \/ o = b)
      BY <1>1, ZoneIs
  <1>5. PICK n \in Nat : n = DayLen /\ 0 < n /\ b - a < n /\ a - b < n
      BY <1>1, ZoneIs, ScheduleNumbers
  <1>6. w - o - n < c /\ c < w - o + n
      BY <1>3, <1>4, <1>5
  <1> QED BY <1>2, <1>4, <1>5, <1>6

\* The day of a wall time that has come is not after today ...
LEMMA PastWalls ==
    ASSUME NEW z \in Zones, NEW w \in Int, NEW t \in Int, WallClock(z, w) <= t
    PROVE  w \div DayLen <= LocalDay(z, t)
  <1>0. DayLen \in Nat \ {0}
      BY ScheduleNumbers
  <1>1. PICK A \in Int, a \in Int, b \in Int : A = z.at /\ a = z.before /\ b = z.after
      BY ZoneIs
  <1>2. PICK c \in Int : c = WallClock(z, w) /\ Shape(z, w, c)
      BY WallClockShape
  <1>3. PICK l \in Int : l = Local(z, t) /\ l = IF t < A THEN t + a ELSE t + b
      BY <1>1, ZoneIs
  <1>4. \/ c = w - a /\ w < A + a
        \/ c = w - b /\ w >= A + b
        \/ c = A /\ w < A + b
      BY <1>1, <1>2 DEF Shape
  <1>5. c <= t
      BY <1>2
  <1>6. w <= l \/ (w <= A - 1 + a /\ A + b <= l)
      BY <1>3, <1>4, <1>5
  <1>7. CASE w <= l
      <2>1. w \div DayLen <= l \div DayLen
          BY <1>0, <1>7, DivisionGrows
      <2> QED BY <1>3, <2>1, ZoneIs
  <1>8. CASE w <= A - 1 + a /\ A + b <= l
      <2>1. PICK x \in Int, y \in Int : x = A - 1 + a /\ y = A + b
          OBVIOUS
      <2>2. x \div DayLen <= y \div DayLen
          BY <1>1, <2>1, ZoneIs
      <2>3. w \div DayLen <= x \div DayLen
          BY <1>0, <1>8, <2>1, DivisionGrows
      <2>4. y \div DayLen <= l \div DayLen
          BY <1>0, <1>8, <2>1, DivisionGrows
      <2>5. w \div DayLen \in Int /\ x \div DayLen \in Int /\ y \div DayLen \in Int /\ l \div DayLen \in Int
          BY <1>0
      <2>6. w \div DayLen <= l \div DayLen
          BY <2>2, <2>3, <2>4, <2>5
      <2> QED BY <1>3, <2>6, ZoneIs
  <1> QED BY <1>6, <1>7, <1>8

\* ... and that of one that is still to come is not before it.
LEMMA ComingWalls ==
    ASSUME NEW z \in Zones, NEW w \in Int, NEW t \in Int, WallClock(z, w) > t
    PROVE  LocalDay(z, t) <= w \div DayLen
  <1>0. DayLen \in Nat \ {0}
      BY ScheduleNumbers
  <1>1. PICK A \in Int, a \in Int, b \in Int : A = z.at /\ a = z.before /\ b = z.after
      BY ZoneIs
  <1>2. PICK c \in Int : c = WallClock(z, w) /\ Shape(z, w, c)
      BY WallClockShape
  <1>3. PICK l \in Int : l = Local(z, t) /\ l = IF t < A THEN t + a ELSE t + b
      BY <1>1, ZoneIs
  <1>4. \/ c = w - a /\ w < A + a
        \/ c = w - b /\ w >= A + b
        \/ c = A /\ A + a <= w
      BY <1>1, <1>2 DEF Shape
  <1>5. c > t
      BY <1>2
  <1>6. l <= w \/ (l <= A - 1 + a /\ A + b <= w)
      BY <1>3, <1>4, <1>5
  <1>7. CASE l <= w
      <2>1. l \div DayLen <= w \div DayLen
          BY <1>0, <1>7, DivisionGrows
      <2> QED BY <1>3, <2>1, ZoneIs
  <1>8. CASE l <= A - 1 + a /\ A + b <= w
      <2>1. PICK x \in Int, y \in Int : x = A - 1 + a /\ y = A + b
          OBVIOUS
      <2>2. x \div DayLen <= y \div DayLen
          BY <1>1, <2>1, ZoneIs
      <2>3. l \div DayLen <= x \div DayLen
          BY <1>0, <1>8, <2>1, DivisionGrows
      <2>4. y \div DayLen <= w \div DayLen
          BY <1>0, <1>8, <2>1, DivisionGrows
      <2>5. w \div DayLen \in Int /\ x \div DayLen \in Int /\ y \div DayLen \in Int /\ l \div DayLen \in Int
          BY <1>0
      <2>6. l \div DayLen <= w \div DayLen
          BY <2>2, <2>3, <2>4, <2>5
      <2> QED BY <1>3, <2>6, ZoneIs
  <1> QED BY <1>6, <1>7, <1>8

\* The local days of the instants up to the horizon.
LEMMA LocalDays ==
    ASSUME NEW z \in Zones, NEW t \in Nat
    PROVE  -1 <= LocalDay(z, t) /\ LocalDay(z, t) <= t \div DayLen + 1
  <1>1. PICK n \in Nat \ {0} : n = DayLen
      BY ScheduleNumbers
  <1>2. PICK l \in Int : l = Local(z, t) /\ -n <= l /\ l <= t + n
      BY <1>1, ZoneIs
  <1>3. PICK q \in Int, r \in Int : q = l \div n /\ r = l % n /\ 0 <= r /\ r < n /\ l = n * q + r
      BY Division
  <1>4. PICK p \in Int, s \in Int : p = t \div n /\ s = t % n /\ 0 <= s /\ s < n /\ t = n * p + s
      BY Division
  <1>5. PICK x \in Int, y \in Int : x = n * q /\ y = n * p /\ l = x + r /\ t = y + s
      BY <1>3, <1>4
  <1>6. -1 <= q
      <2>1. q <= -2 => n * q <= -(2 * n)
          OBVIOUS
      <2>2. x > -(2 * n)
          BY <1>2, <1>3, <1>5
      <2> QED BY <1>5, <2>1, <2>2
  <1>7. q <= p + 1
      <2>1. PICK e \in Int : e = q - p
          OBVIOUS
      <2>2. n * e = x - y
          BY <1>5, <2>1
      <2>3. x - y < 2 * n
          <3>1. l = x + r /\ t = y + s /\ 0 <= r /\ r < n /\ 0 <= s /\ s < n
              BY <1>3, <1>4, <1>5
          <3> QED BY <1>2, <3>1
      <2>4. e >= 2 => n * e >= 2 * n
          OBVIOUS
      <2>5. e <= 1
          BY <2>2, <2>3, <2>4
      <2> QED BY <2>1, <2>5
  <1>8. LocalDay(z, t) = q /\ t \div DayLen = p
      <2>1. LocalDay(z, t) = Local(z, t) \div DayLen
          BY ZoneIs
      <2> QED BY <1>1, <1>2, <1>3, <1>4, <2>1
  <1> QED BY <1>6, <1>7, <1>8

\* The instants a weekly schedule can name, whatever days are looked at: of its
\* weekdays, at its times of day.
Named(s, w) == w \in Int /\ (w \div DayLen) % WeekLen \in s.days /\ w % DayLen \in s.times

\* A wall time of a range of days is a named one of a day in the range.
LEMMA WallTimesAre ==
    ASSUME NEW s \in SpecShapes, Validate(s), s.kind = "weekly", NEW lo \in Int, NEW hi \in Int, NEW w
    PROVE  w \in WallTimes(s, lo, hi) <=> Named(s, w) /\ lo <= w \div DayLen /\ w \div DayLen <= hi
  <1>1. s.days \subseteq 0..(WeekLen - 1) /\ s.times \subseteq 0..(DayLen - 1)
      BY DEF Validate
  <1>2. DayLen \in Nat \ {0} /\ WeekLen \in Nat \ {0}
      BY ScheduleNumbers
  <1>3. WeekdaySet(s) = s.days
      BY <1>1 DEF WeekdaySet
  <1>4. ASSUME w \in WallTimes(s, lo, hi)
        PROVE  Named(s, w) /\ lo <= w \div DayLen /\ w \div DayLen <= hi
      <2>1. PICK d \in lo..hi, tod \in s.times : w = d * DayLen + tod /\ d % WeekLen \in WeekdaySet(s)
          BY <1>4 DEF WallTimes
      <2>2. d \in Int /\ tod \in 0..(DayLen - 1)
          BY <1>1, <2>1
      <2>3. d * DayLen + tod \in Int
          BY <1>2, <2>2
      <2>4. w \in Int
          BY <2>1, <2>3
      <2>5. w \div DayLen = d /\ w % DayLen = tod
          BY <1>2, <2>1, <2>2, <2>4, QuotientIs
      <2> QED BY <1>3, <2>1, <2>4, <2>5 DEF Named
  <1>5. ASSUME Named(s, w), lo <= w \div DayLen, w \div DayLen <= hi
        PROVE  w \in WallTimes(s, lo, hi)
      <2>1. w \in Int
          BY <1>5 DEF Named
      <2>2. PICK d \in Int, tod \in Int : d = w \div DayLen /\ tod = w % DayLen /\ w = DayLen * d + tod
          BY <1>2, <2>1, Division
      <2>3. w = d * DayLen + tod
          BY <1>2, <2>2
      <2>4. d \in {x \in lo..hi : x % WeekLen \in WeekdaySet(s)} /\ tod \in s.times
          BY <1>3, <1>5, <2>2 DEF Named
      <2> QED BY <2>3, <2>4 DEF WallTimes
  <1> QED BY <1>4, <1>5

\* A weekday comes within any week.
LEMMA WeekdayComes ==
    ASSUME NEW n \in Nat \ {0}, NEW x \in Int, NEW r \in 0..(n - 1)
    PROVE  \E d \in Int : x <= d /\ d < x + n /\ d % n = r
  <1>1. r - x \in Int
      OBVIOUS
  <1>2. PICK q \in Int, m \in Int : 0 <= m /\ m < n /\ r - x = n * q + m
      BY <1>1, Division
  <1>3. PICK p \in Int : p = -q
      OBVIOUS
  <1>4. PICK k \in Int : k = n * q
      OBVIOUS
  <1>5. p * n = -k
      BY <1>3, <1>4
  <1>6. PICK d \in Int : d = x + m
      BY <1>2
  <1>7. r - x = k + m
      BY <1>2, <1>4
  <1>8. d = r - k
      BY <1>6, <1>7
  <1>9. d = p * n + r
      BY <1>5, <1>8
  <1>10. d % n = r
      BY <1>9, QuotientIs
  <1> QED BY <1>2, <1>6, <1>10

\* The days a weekly schedule's occurrences are taken from.
LastDay == Horizon \div DayLen + WeekLen + 2

\* A week from any instant up to the horizon lies within them.
LEMMA LastDayIs ==
    /\ LastDay \in Int /\ -1 <= LastDay
    /\ \A z \in Zones, t \in Nat : t <= Horizon => LocalDay(z, t) \in Int /\ -1 <= LocalDay(z, t) /\ LocalDay(z, t) + WeekLen + 1 <= LastDay
  <1>1. DayLen \in Nat \ {0} /\ WeekLen \in Nat \ {0} /\ Horizon \in Nat
      BY ScheduleNumbers, ScheduleAssumption
  <1>2. PICK h \in Int : h = Horizon \div DayLen
      BY <1>1
  <1>3. LastDay = h + WeekLen + 2
      BY <1>2 DEF LastDay
  <1>4. 0 <= h
      <2>1. 0 \div DayLen = 0
          <3>1. 0 = 0 * DayLen + 0 /\ 0 \in 0..(DayLen - 1)
              BY <1>1
          <3> QED BY <1>1, <3>1, QuotientIs
      <2>2. 0 \div DayLen <= Horizon \div DayLen
          BY <1>1, DivisionGrows
      <2> QED BY <1>2, <2>1, <2>2
  <1>5. ASSUME NEW z \in Zones, NEW t \in Nat, t <= Horizon
        PROVE  LocalDay(z, t) \in Int /\ -1 <= LocalDay(z, t) /\ LocalDay(z, t) + WeekLen + 1 <= LastDay
      <2>1. LocalDay(z, t) \in Int
          BY ZoneIs
      <2>2. PICK k \in Int : k = t \div DayLen
          BY <1>1
      <2>3. k <= h
          BY <1>1, <1>2, <1>5, <2>2, DivisionGrows
      <2>4. -1 <= LocalDay(z, t) /\ LocalDay(z, t) <= k + 1
          BY <2>2, LocalDays
      <2> QED BY <1>1, <1>3, <2>1, <2>3, <2>4
  <1> QED BY <1>1, <1>3, <1>4, <1>5

\* The occurrences of a weekly schedule.
WeeklyAll(s, z) == {WallClock(z, w) : w \in WallTimes(s, -1, LastDay)}

\* Looking back day by day finds the newest occurrence of a weekly schedule.
LEMMA LatestWeeklyIs ==
    ASSUME NEW s \in SpecShapes, Validate(s), s.kind = "weekly", NEW z \in Zones,
           NEW lower \in Nat, NEW upTo \in Nat, upTo <= Horizon
    PROVE  LatestWeekly(s, lower, upTo, z) = Newest({o \in WeeklyAll(s, z) : lower < o /\ o <= upTo})
  <1> DEFINE lo == LocalDay(z, lower)
             hi == LocalDay(z, upTo)
             walls == {w \in WallTimes(s, lo, hi) : WallClock(z, w) <= upTo}
             S == {o \in WeeklyAll(s, z) : lower < o /\ o <= upTo}
             m == Max(walls)
             at == WallClock(z, m)
  <1>1. lo \in Int /\ hi \in Int /\ -1 <= lo /\ hi <= LastDay /\ LastDay \in Int /\ DayLen \in Nat \ {0}
      <2>1. lo \in Int /\ -1 <= lo
          BY LocalDays, ZoneIs
      <2>2. PICK h \in Int : h = hi /\ h + WeekLen + 1 <= LastDay
          BY LastDayIs
      <2> QED BY <2>1, <2>2, LastDayIs, ScheduleNumbers
  <1>2. LatestWeekly(s, lower, upTo, z) = IF walls = {} \/ at <= lower THEN Never ELSE at
      BY DEF LatestWeekly
  <1> HIDE DEF lo, hi
  <1>3. \A w \in walls : /\ w \in Int /\ w \in WallTimes(s, -1, LastDay) /\ WallClock(z, w) \in Int
                         /\ w \div DayLen <= hi /\ WallClock(z, w) <= upTo
      <2> TAKE w \in walls
      <2>1. Named(s, w) /\ lo <= w \div DayLen /\ w \div DayLen <= hi
          BY <1>1, WallTimesAre
      <2>2. w \in Int /\ w \div DayLen \in Int
          BY <1>1, <2>1 DEF Named
      <2>3. -1 <= w \div DayLen /\ w \div DayLen <= LastDay
          BY <1>1, <2>1, <2>2
      <2>4. w \in WallTimes(s, -1, LastDay)
          BY <1>1, <2>1, <2>3, WallTimesAre
      <2> QED BY <2>1, <2>2, <2>4, WallClockShape
  <1>4. \A o \in S : o \in Int /\ lower < o /\ o <= upTo /\ \E w \in walls : o = WallClock(z, w)
      <2> TAKE o \in S
      <2>1. PICK w \in WallTimes(s, -1, LastDay) : o = WallClock(z, w)
          BY DEF WeeklyAll
      <2>2. Named(s, w) /\ w \in Int
          BY <1>1, <2>1, WallTimesAre DEF Named
      <2>3. o \in Int /\ lower < o /\ o <= upTo
          BY <2>1, <2>2, WallClockShape
      <2>4. w \div DayLen <= hi
          BY <2>1, <2>2, <2>3, PastWalls DEF hi
      <2>5. lo <= w \div DayLen
          BY <2>1, <2>2, <2>3, ComingWalls DEF lo
      <2>6. w \in WallTimes(s, lo, hi)
          BY <1>1, <2>2, <2>4, <2>5, WallTimesAre
      <2> QED BY <2>1, <2>3, <2>6
  <1>5. CASE walls = {}
      <2>1. S = {}
          BY <1>4, <1>5
      <2> HIDE DEF S, walls
      <2> QED BY <1>2, <1>5, <2>1 DEF Newest, S
  <1>6. CASE walls # {}
      <2>1. \A w \in walls : w <= hi * DayLen + DayLen
          <3> TAKE w \in walls
          <3>0. w \in Int /\ DayLen \in Nat \ {0}
              BY <1>3, ScheduleNumbers
          <3> HIDE DEF walls
          <3>1. PICK d \in Int, r \in Int : d = w \div DayLen /\ r < DayLen /\ w = DayLen * d + r
              BY <3>0, Division
          <3>2. d <= hi
              BY <1>3, <3>1
          <3>3. PICK x \in Int, y \in Int : x = DayLen * d /\ y = hi * DayLen /\ x <= y /\ w = x + r
              BY <1>1, <3>1, <3>2
          <3>4. r < DayLen /\ w \in Int
              BY <1>3, <3>1
          <3> QED BY <1>1, <3>3, <3>4
      <2>2. hi * DayLen + DayLen \in Int /\ walls \subseteq Int
          BY <1>1, <1>3
      <2> HIDE DEF walls, S
      <2>3. m \in walls /\ \A w \in walls : w <= m
          BY <1>6, <2>1, <2>2, GreatestOf
      <2> HIDE DEF m
      <2>4. m \in Int /\ at \in Int /\ at <= upTo /\ m \in WallTimes(s, -1, LastDay)
          BY <1>3, <2>3
      <2>5. \A o \in S : o <= at
          <3> TAKE o \in S
          <3>1. PICK w \in walls : o = WallClock(z, w)
              BY <1>4
          <3>2. w \in Int /\ w <= m
              BY <2>2, <2>3
          <3> QED BY <2>4, <3>1, <3>2, WallClockGrows
      <2>6. at \in WeeklyAll(s, z)
          BY <2>4 DEF WeeklyAll
      <2> HIDE DEF at
      <2>7. CASE at <= lower
          <3>1. S = {}
              BY <1>4, <2>4, <2>5, <2>7
          <3> QED BY <1>2, <2>7, <3>1 DEF Newest, S
      <2>8. CASE ~(at <= lower)
          <3>1. at \in S
              BY <2>4, <2>6, <2>8 DEF S
          <3>2. Max(S) = at
              BY <1>4, <2>5, <3>1, MaxIs
          <3>3. Newest(S) = at
              BY <3>1, <3>2 DEF Newest
          <3> QED BY <1>2, <1>6, <2>8, <3>3 DEF S
      <2> QED BY <2>7, <2>8
  <1> QED BY <1>5, <1>6

\* Looking ahead for a week and a day finds the first occurrence to come.
LEMMA NextWeeklyIs ==
    ASSUME NEW s \in SpecShapes, Validate(s), s.kind = "weekly", NEW z \in Zones,
           NEW from \in Nat, from <= Horizon
    PROVE  NextWeekly(s, from, z) = Min({o \in WeeklyAll(s, z) : o > from})
  <1> DEFINE day == LocalDay(z, from)
             end == day + WeekLen + 1
             walls == {w \in WallTimes(s, day, end) : WallClock(z, w) > from}
             S == {o \in WeeklyAll(s, z) : o > from}
             m == Min(walls)
             at == WallClock(z, m)
  <1>1. /\ day \in Int /\ end \in Int /\ -1 <= day /\ end <= LastDay /\ LastDay \in Int
        /\ DayLen \in Nat \ {0} /\ WeekLen \in Nat \ {0} /\ day + 1 \in Int /\ day + WeekLen < end
      <2>1. PICK d \in Int : d = day /\ -1 <= d /\ d + WeekLen + 1 <= LastDay
          BY LastDayIs
      <2> QED BY <2>1, LastDayIs, ScheduleNumbers
  <1>2. NextWeekly(s, from, z) = IF walls = {} THEN Never ELSE at
      BY DEF NextWeekly
  <1> HIDE DEF day, end
  <1>3. \A w \in walls : /\ w \in Int /\ w \in WallTimes(s, -1, LastDay) /\ WallClock(z, w) \in Int
                         /\ day <= w \div DayLen /\ w \div DayLen <= end /\ WallClock(z, w) > from
      <2> TAKE w \in walls
      <2>1. Named(s, w) /\ day <= w \div DayLen /\ w \div DayLen <= end
          BY <1>1, WallTimesAre
      <2>2. w \in Int /\ w \div DayLen \in Int
          BY <1>1, <2>1 DEF Named
      <2>3. -1 <= w \div DayLen /\ w \div DayLen <= LastDay
          BY <1>1, <2>1, <2>2
      <2>4. w \in WallTimes(s, -1, LastDay)
          BY <1>1, <2>1, <2>3, WallTimesAre
      <2> QED BY <2>1, <2>2, <2>4, WallClockShape
  <1>4. walls # {}
      <2>1. PICK r \in s.days, tod \in s.times : r \in 0..(WeekLen - 1) /\ tod \in 0..(DayLen - 1)
          BY DEF Validate
      <2>2. PICK d \in Int : day + 1 <= d /\ d < day + 1 + WeekLen /\ d % WeekLen = r
          BY <1>1, <2>1, WeekdayComes
      <2>3. PICK w \in Int : w = d * DayLen + tod
          BY <1>1, <2>1
      <2>4. w \div DayLen = d /\ w % DayLen = tod
          <3>1. DayLen \in Nat \ {0} /\ tod \in 0..(DayLen - 1)
              BY <2>1, ScheduleNumbers
          <3> QED BY <2>3, <3>1, QuotientIs
      <2>5. Named(s, w) /\ day <= w \div DayLen /\ w \div DayLen <= end
          BY <1>1, <2>1, <2>2, <2>4 DEF Named
      <2>6. w \in WallTimes(s, day, end)
          BY <1>1, <2>5, WallTimesAre
      <2>7. WallClock(z, w) > from
          <3>1. WallClock(z, w) <= from => w \div DayLen <= day
              BY PastWalls DEF day
          <3>2. ~(w \div DayLen <= day)
              BY <1>1, <2>2, <2>4
          <3> QED BY <3>1, <3>2, WallClockShape
      <2> QED BY <2>6, <2>7
  <1>5. m \in walls /\ \A w \in walls : m <= w
      <2>1. \A w \in walls : day * DayLen <= w
          <3> TAKE w \in walls
          <3>0. w \in Int /\ DayLen \in Nat \ {0}
              BY <1>3, ScheduleNumbers
          <3> HIDE DEF walls
          <3>1. PICK d \in Int, r \in Int : d = w \div DayLen /\ 0 <= r /\ w = DayLen * d + r
              BY <3>0, Division
          <3>2. day <= d
              BY <1>3, <3>1
          <3>3. PICK x \in Int, y \in Int : x = DayLen * d /\ y = day * DayLen /\ y <= x /\ w = x + r
              BY <1>1, <3>1, <3>2
          <3>4. 0 <= r /\ w \in Int
              BY <1>3, <3>1
          <3> QED BY <3>3, <3>4
      <2>2. day * DayLen \in Int /\ walls \subseteq Int
          BY <1>1, <1>3
      <2> HIDE DEF walls
      <2> QED BY <1>4, <2>1, <2>2, LeastOf
  <1>6. m \in Int /\ at \in Int /\ at > from /\ m \in WallTimes(s, -1, LastDay) /\ m \div DayLen <= end
      <2> HIDE DEF m, walls
      <2> QED BY <1>3, <1>5
  <1>7. \A o \in S : o \in Int /\ at <= o
      <2> TAKE o \in S
      <2>1. PICK v \in WallTimes(s, -1, LastDay) : o = WallClock(z, v)
          BY DEF WeeklyAll
      <2>2. Named(s, v) /\ v \in Int
          BY <1>1, <2>1, WallTimesAre DEF Named
      <2>3. o \in Int /\ o > from
          BY <2>1, <2>2, WallClockShape
      <2>4. ~(v < m)
          <3> SUFFICES ASSUME v < m PROVE FALSE
              OBVIOUS
          <3>1. v \div DayLen <= m \div DayLen
              <4> HIDE DEF m
              <4> QED BY <1>1, <1>6, <2>2, DivisionGrows
          <3>2. v \div DayLen <= end
              <4> HIDE DEF m
              <4>1. v \div DayLen \in Int /\ m \div DayLen \in Int
                  BY <1>1, <1>6, <2>2
              <4> QED BY <1>1, <1>6, <3>1, <4>1
          <3>3. day <= v \div DayLen
              BY <2>1, <2>2, <2>3, ComingWalls DEF day
          <3>4. v \in WallTimes(s, day, end)
              BY <1>1, <2>2, <3>2, <3>3, WallTimesAre
          <3>5. v \in walls
              BY <2>1, <2>3, <3>4
          <3> HIDE DEF m, walls
          <3> QED BY <1>5, <1>6, <2>2, <3>5
      <2>5. m <= v
          <3> HIDE DEF m
          <3> QED BY <1>6, <2>2, <2>4
      <2> HIDE DEF m
      <2> QED BY <1>6, <2>1, <2>2, <2>3, <2>5, WallClockGrows
  <1>8. at \in WeeklyAll(s, z)
      <2> HIDE DEF m
      <2> QED BY <1>6 DEF WeeklyAll
  <1> HIDE DEF at, walls
  <1>9. at \in S /\ S \subseteq Int
      BY <1>6, <1>7, <1>8
  <1>10. Min(S) = at
      <2> HIDE DEF S
      <2> QED BY <1>7, <1>9, MinIs
  <1> QED BY <1>2, <1>4, <1>10 DEF S

\* The occurrences of an every-N-days schedule come in order, each less than a day
\* from a whole number of intervals after the anchor.
LEMMA EveryDaysAre ==
    ASSUME NEW s \in SpecShapes, Validate(s), s.kind # "weekly", NEW z \in Zones, NEW anchor \in Nat, NEW p, p = s.every * DayLen
    PROVE  /\ p \in Nat /\ DayLen <= p
           /\ EveryDaysAt(s, anchor, 0, z) = anchor
           /\ \A k \in Nat : /\ EveryDaysAt(s, anchor, k, z) \in Int
                             /\ anchor + p * k - DayLen < EveryDaysAt(s, anchor, k, z)
                             /\ EveryDaysAt(s, anchor, k, z) < anchor + p * k + DayLen
           /\ \A j, k \in Nat : j <= k => EveryDaysAt(s, anchor, j, z) <= EveryDaysAt(s, anchor, k, z)
  <1>1. DayLen \in Nat \ {0} /\ s.every \in Nat \ {0}
      BY ScheduleNumbers DEF Validate, SpecShapes
  <1>2. p \in Nat /\ DayLen <= p
      <2>1. \A a, b \in Nat \ {0} : a * b \in Nat /\ b <= a * b
          OBVIOUS
      <2> QED BY <1>1, <2>1
  <1>3. PICK o \in Int, L \in Int : o = Offset(z, anchor) /\ L = Local(z, anchor) /\ L = anchor + o
      BY ZoneIs
  <1>4. ASSUME NEW k \in Nat
        PROVE  L + k * s.every * DayLen = L + p * k /\ L + p * k \in Int /\ p * k \in Nat
      <2>1. \A a, b, c \in Nat : a * b * c = (b * c) * a
          OBVIOUS
      <2>2. k * s.every * DayLen = p * k
          BY <1>1, <2>1
      <2>3. p * k \in Nat
          BY <1>2
      <2> QED BY <2>2, <2>3
  <1>5. EveryDaysAt(s, anchor, 0, z) = anchor
      BY DEF EveryDaysAt
  <1>6. \A k \in Nat \ {0} : EveryDaysAt(s, anchor, k, z) = WallClock(z, L + p * k)
      BY <1>3, <1>4 DEF EveryDaysAt
  <1>7. ASSUME NEW k \in Nat
        PROVE  /\ EveryDaysAt(s, anchor, k, z) \in Int
               /\ anchor + p * k - DayLen < EveryDaysAt(s, anchor, k, z)
               /\ EveryDaysAt(s, anchor, k, z) < anchor + p * k + DayLen
      <2>1. CASE k = 0
          <3>1. p * k = 0
              BY <1>2, <2>1
          <3> QED BY <1>1, <1>5, <2>1, <3>1
      <2>2. CASE k # 0
          <3>1. PICK w \in Int, y \in Nat : y = p * k /\ w = L + p * k /\ w = L + y
              BY <1>4
          <3>2. WallClock(z, w) = EveryDaysAt(s, anchor, k, z) /\ WallClock(z, w) \in Int
              BY <1>6, <2>2, <3>1, WallClockShape
          <3>c. PICK c \in Int : c = WallClock(z, w) /\ c = EveryDaysAt(s, anchor, k, z)
              BY <3>2
          <3>d. anchor \in Int
              OBVIOUS
          <3>e. w - Offset(z, anchor) - DayLen < WallClock(z, w) /\ WallClock(z, w) < w - Offset(z, anchor) + DayLen
              BY <3>d, WallClockNear
          <3>3. w - o - DayLen < c /\ c < w - o + DayLen
              BY <1>3, <3>c, <3>e
          <3>4. anchor + y - DayLen < c /\ c < anchor + y + DayLen
              <4>1. w = L + y /\ L = anchor + o
                  BY <1>3, <3>1
              <4> QED BY <1>1, <3>3, <4>1
          <3> QED BY <3>1, <3>c, <3>4
      <2> QED BY <2>1, <2>2
  <1>8. ASSUME NEW j \in Nat, NEW k \in Nat, j <= k
        PROVE  EveryDaysAt(s, anchor, j, z) <= EveryDaysAt(s, anchor, k, z)
      <2>1. CASE j = k
          BY <1>7, <2>1
      <2>2. CASE j = 0 /\ j # k
          <3>1. k >= 1 => p <= p * k
              BY <1>2
          <3>2. PICK y \in Nat : y = p * k /\ p <= y
              BY <1>4, <1>8, <2>2, <3>1
          <3>3. PICK c \in Int : c = EveryDaysAt(s, anchor, k, z) /\ anchor + y - DayLen < c
              BY <1>7, <3>2
          <3>4. anchor <= c
              BY <1>1, <1>2, <3>2, <3>3
          <3> QED BY <1>5, <2>2, <3>3, <3>4
      <2>3. CASE j # 0 /\ j # k
          <3>1. p * j <= p * k
              BY <1>2, <1>8
          <3>2. PICK v \in Int, w \in Int : v = L + p * j /\ w = L + p * k /\ v <= w
              BY <1>4, <3>1
          <3> QED BY <1>6, <1>8, <2>3, <3>2, WallClockGrows
      <2> QED BY <2>1, <2>2, <2>3
  <1> QED BY <1>2, <1>5, <1>7, <1>8

\* The estimate: the occurrence two further on is still to come, the one before it
\* has come.
LEMMA EstimateIs ==
    ASSUME NEW s \in SpecShapes, Validate(s), s.kind # "weekly", NEW z \in Zones, NEW anchor \in Nat, NEW t \in Nat, anchor <= t,
           NEW e, e = Estimate(s, anchor, t)
    PROVE  /\ e \in Nat /\ e <= t
           /\ \A k \in Nat : k >= e + 2 => EveryDaysAt(s, anchor, k, z) > t
           /\ \A k \in Nat : k <= e - 1 \/ k = 0 => EveryDaysAt(s, anchor, k, z) <= t
  <1>1. PICK p \in Nat : p = s.every * DayLen /\ DayLen <= p
      BY EveryDaysAre
  <1>2. DayLen \in Nat \ {0} /\ p \in Nat \ {0}
      BY <1>1, ScheduleNumbers
  <1>3. PICK x \in Nat : x = t - anchor /\ x <= t
      OBVIOUS
  <1>4. PICK q \in Int, r \in Int : q = x \div p /\ r = x % p /\ 0 <= r /\ r < p /\ x = p * q + r
      BY <1>2, Division
  <1>5. q = e
      BY <1>1, <1>3, <1>4 DEF Estimate
  <1>6. PICK y \in Int : y = p * q /\ x = y + r
      BY <1>4
  <1>7. q >= 0
      <2>1. q <= -1 => p * q <= -p
          BY <1>2
      <2>2. y > -p
          <3>1. r < p
              BY <1>4
          <3> QED BY <1>3, <1>6, <3>1
      <2> QED BY <1>6, <2>1, <2>2
  <1>8. q <= t
      <2>1. q <= p * q
          BY <1>2, <1>7
      <2>2. 0 <= r
          BY <1>4
      <2> QED BY <1>3, <1>6, <2>1, <2>2
  <1>9. ASSUME NEW k \in Nat, k >= q + 2 PROVE EveryDaysAt(s, anchor, k, z) > t
      <2>1. p * k >= p * (q + 2)
          BY <1>2, <1>7, <1>9
      <2>2. p * (q + 2) = p * q + 2 * p
          OBVIOUS
      <2>3. PICK n \in Nat : n = p * k /\ n >= y + 2 * p
          BY <1>6, <2>1, <2>2
      <2>4. PICK c \in Int : c = EveryDaysAt(s, anchor, k, z) /\ anchor + n - DayLen < c
          BY <1>1, <2>3, EveryDaysAre
      <2>5. r < p /\ t = anchor + y + r
          BY <1>3, <1>4, <1>6
      <2>6. c > t
          BY <1>1, <1>2, <2>3, <2>4, <2>5
      <2> QED BY <2>4, <2>6
  <1>10. ASSUME NEW k \in Nat, k <= q - 1 \/ k = 0 PROVE EveryDaysAt(s, anchor, k, z) <= t
      <2>1. CASE k = 0
          BY <2>1, EveryDaysAre
      <2>2. CASE k <= q - 1
          <3>1. p * k <= p * (q - 1)
              BY <1>2, <2>2
          <3>2. p * (q - 1) = p * q - p
              OBVIOUS
          <3>3. PICK n \in Nat : n = p * k /\ n <= y - p
              BY <1>6, <3>1, <3>2
          <3>4. PICK c \in Int : c = EveryDaysAt(s, anchor, k, z) /\ c < anchor + n + DayLen
              BY <1>1, <3>3, EveryDaysAre
          <3>5. 0 <= r /\ t = anchor + y + r
              BY <1>3, <1>4, <1>6
          <3>6. c <= t
              BY <1>1, <1>2, <3>3, <3>4, <3>5
          <3> QED BY <3>4, <3>6
      <2> QED BY <1>10, <2>1, <2>2
  <1> QED BY <1>5, <1>7, <1>8, <1>9, <1>10

\* The occurrences of an every-N-days schedule.
EveryDaysAll(s, anchor, z) == {EveryDaysAt(s, anchor, k, z) : k \in 0..(Horizon + 2 * DayLen)}

\* Looking around the estimate finds the newest occurrence of an every-N-days
\* schedule.
LEMMA LatestEveryDaysIs ==
    ASSUME NEW s \in SpecShapes, Validate(s), s.kind # "weekly", NEW z \in Zones, NEW anchor \in Nat,
           NEW after \in Int, NEW upTo \in Nat, anchor <= upTo, upTo <= Horizon
    PROVE  LatestEveryDays(s, anchor, after, upTo, z)
             = Newest({o \in EveryDaysAll(s, anchor, z) : after < o /\ o <= upTo})
  <1> DEFINE e == Estimate(s, anchor, upTo)
             At(k) == EveryDaysAt(s, anchor, k, z)
             ks == {k \in (e - 2)..(e + 1) : k >= 0 /\ At(k) <= upTo}
             S == {o \in EveryDaysAll(s, anchor, z) : after < o /\ o <= upTo}
             m == Max(ks)
             at == At(m)
  <1>1. /\ e \in Nat /\ e <= upTo
        /\ \A k \in Nat : k >= e + 2 => At(k) > upTo
        /\ \A k \in Nat : k <= e - 1 \/ k = 0 => At(k) <= upTo
      BY EstimateIs
  <1>2. LatestEveryDays(s, anchor, after, upTo, z) = IF upTo < anchor \/ ks = {} \/ at <= after THEN Never ELSE at
      BY DEF LatestEveryDays
  <1>3. (\A k \in Nat : At(k) \in Int) /\ \A j, k \in Nat : j <= k => At(j) <= At(k)
      BY EveryDaysAre
  <1>4. Horizon \in Nat /\ DayLen \in Nat \ {0}
      BY ScheduleAssumption
  <1>5. EveryDaysAll(s, anchor, z) = {At(k) : k \in 0..(Horizon + 2 * DayLen)}
      BY DEF EveryDaysAll
  <1> HIDE DEF e, At
  <1>6. PICK f \in ks : f = 0 \/ f = e - 1
      <2>1. CASE e = 0
          <3>1. 0 \in ks
              BY <1>1, <2>1
          <3> QED BY <3>1
      <2>2. CASE e # 0
          <3>1. e - 1 \in ks
              BY <1>1, <2>2
          <3> QED BY <3>1
      <2> QED BY <2>1, <2>2
  <1>7. m \in ks /\ \A k \in ks : k <= m
      <2>1. e + 1 \in Int /\ ks \subseteq Int /\ ks # {} /\ \A k \in ks : k <= e + 1
          BY <1>1, <1>6
      <2> HIDE DEF ks
      <2> QED BY <2>1, GreatestOf
  <1> HIDE DEF m
  <1>8. m \in Nat /\ e - 1 <= m /\ m <= e + 1 /\ at <= upTo /\ at \in Int
      BY <1>1, <1>3, <1>6, <1>7
  <1>9. ASSUME NEW j \in Nat, At(j) <= upTo PROVE At(j) <= at
      <2>1. CASE j <= m
          BY <1>3, <1>8, <2>1
      <2>2. CASE ~(j <= m)
          <3>1. ~(j >= e + 2)
              BY <1>1, <1>3, <1>9
          <3>2. j \in ks
              BY <1>1, <1>8, <1>9, <2>2, <3>1
          <3> QED BY <1>7, <2>2, <3>2
      <2> QED BY <2>1, <2>2
  <1>10. at \in EveryDaysAll(s, anchor, z)
      <2>1. m \in 0..(Horizon + 2 * DayLen)
          BY <1>1, <1>4, <1>8
      <2> QED BY <1>5, <2>1
  <1>11. \A o \in S : o \in Int /\ after < o /\ o <= upTo /\ o <= at
      <2> TAKE o \in S
      <2>1. PICK k \in Nat : o = At(k)
          BY <1>4, <1>5
      <2>2. o \in Int /\ after < o /\ o <= upTo
          BY <1>3, <2>1
      <2> QED BY <1>9, <2>1, <2>2
  <1>12. LatestEveryDays(s, anchor, after, upTo, z) = IF at <= after THEN Never ELSE at
      BY <1>2, <1>6
  <1> HIDE DEF at, ks
  <1>13. CASE at <= after
      <2>1. S = {}
          BY <1>8, <1>11, <1>13
      <2> QED BY <1>12, <1>13, <2>1 DEF Newest
  <1>14. CASE ~(at <= after)
      <2>1. at \in S /\ S \subseteq Int /\ \A o \in S : o <= at
          <3>1. after < at
              BY <1>8, <1>14
          <3>2. at \in S
              BY <1>8, <1>10, <3>1
          <3> HIDE DEF S
          <3> QED BY <1>11, <3>2
      <2> HIDE DEF S
      <2>2. Max(S) = at
          BY <2>1, MaxIs
      <2>3. Newest(S) = at
          BY <2>1, <2>2 DEF Newest
      <2> QED BY <1>12, <1>14, <2>3 DEF S
  <1> QED BY <1>13, <1>14

\* ... and the first one to come.
LEMMA NextEveryDaysIs ==
    ASSUME NEW s \in SpecShapes, Validate(s), s.kind # "weekly", NEW z \in Zones, NEW anchor \in Nat,
           NEW after \in Nat, anchor <= after, after <= Horizon
    PROVE  NextEveryDays(s, anchor, after, z) = Min({o \in EveryDaysAll(s, anchor, z) : o > after})
  <1> DEFINE e == Estimate(s, anchor, after)
             At(k) == EveryDaysAt(s, anchor, k, z)
             b == Max({e - 2, 0})
             ks == {k \in b..(e + 3) : At(k) > after}
             S == {o \in EveryDaysAll(s, anchor, z) : o > after}
             m == Min(ks)
             at == At(m)
  <1>1. /\ e \in Nat /\ e <= after
        /\ \A k \in Nat : k >= e + 2 => At(k) > after
        /\ \A k \in Nat : k <= e - 1 \/ k = 0 => At(k) <= after
      BY EstimateIs
  <1>2. NextEveryDays(s, anchor, after, z) = IF after < anchor THEN anchor ELSE IF ks = {} THEN Never ELSE at
      BY DEF NextEveryDays
  <1>3. (\A k \in Nat : At(k) \in Int) /\ \A j, k \in Nat : j <= k => At(j) <= At(k)
      BY EveryDaysAre
  <1>4. Horizon \in Nat /\ DayLen \in Nat \ {0}
      BY ScheduleAssumption
  <1>5. EveryDaysAll(s, anchor, z) = {At(k) : k \in 0..(Horizon + 2 * DayLen)}
      BY DEF EveryDaysAll
  <1> HIDE DEF e, At
  <1>6. b = IF e >= 2 THEN e - 2 ELSE 0
      <2> DEFINE T == {e - 2, 0}
      <2>1. T \subseteq Int
          BY <1>1
      <2>2. CASE e >= 2
          <3>1. e - 2 \in T /\ \A x \in T : x <= e - 2
              BY <1>1, <2>2
          <3> HIDE DEF T
          <3>2. Max(T) = e - 2
              BY <2>1, <3>1, MaxIs
          <3> QED BY <2>2, <3>2 DEF T
      <2>3. CASE ~(e >= 2)
          <3>1. 0 \in T /\ \A x \in T : x <= 0
              BY <1>1, <2>3
          <3> HIDE DEF T
          <3>2. Max(T) = 0
              BY <2>1, <3>1, MaxIs
          <3> QED BY <2>3, <3>2 DEF T
      <2> QED BY <2>2, <2>3
  <1> HIDE DEF b
  <1>7. b \in Nat /\ b <= e + 2 /\ (b # 0 => b = e - 2)
      BY <1>1, <1>6
  <1>8. e + 2 \in ks
      BY <1>1, <1>7
  <1>9. m \in ks /\ \A k \in ks : m <= k
      <2>1. b \in Int /\ ks \subseteq Int /\ ks # {} /\ \A k \in ks : b <= k
          BY <1>1, <1>7, <1>8
      <2> HIDE DEF ks
      <2> QED BY <2>1, LeastOf
  <1> HIDE DEF m
  <1>10. m \in Nat /\ m <= e + 2 /\ at > after /\ at \in Int
      <2>1. m \in Nat /\ at > after
          BY <1>1, <1>7, <1>9
      <2> QED BY <1>3, <1>8, <1>9, <2>1
  <1>11. ASSUME NEW j \in Nat, At(j) > after PROVE At(j) >= at
      <2>1. CASE m <= j
          BY <1>3, <1>10, <2>1
      <2>2. CASE ~(m <= j)
          <3>1. j < b
              <4> SUFFICES ASSUME j >= b PROVE FALSE
                  BY <1>7
              <4>1. j \in b..(e + 3)
                  BY <1>1, <1>7, <1>10, <2>2
              <4>2. j \in ks
                  BY <1>11, <4>1
              <4> QED BY <1>9, <2>2, <4>2
          <3>2. j <= e - 1
              BY <1>1, <1>7, <3>1
          <3>3. At(j) <= after
              BY <1>1, <3>2
          <3> QED BY <1>3, <1>11, <3>3
      <2> QED BY <2>1, <2>2
  <1>12. at \in EveryDaysAll(s, anchor, z)
      <2>1. m \in 0..(Horizon + 2 * DayLen)
          BY <1>1, <1>4, <1>10
      <2> QED BY <1>5, <2>1
  <1>13. \A o \in S : o \in Int /\ at <= o
      <2> TAKE o \in S
      <2>1. PICK k \in Nat : o = At(k)
          BY <1>4, <1>5
      <2>2. o \in Int /\ o > after
          BY <1>3, <2>1
      <2> QED BY <1>10, <1>11, <2>1, <2>2
  <1>14. NextEveryDays(s, anchor, after, z) = at
      BY <1>2, <1>8
  <1> HIDE DEF at, ks
  <1>15. at \in S /\ S \subseteq Int
      BY <1>10, <1>12, <1>13
  <1>16. Min(S) = at
      <2> HIDE DEF S
      <2> QED BY <1>13, <1>15, MinIs
  <1> QED BY <1>14, <1>16

\* No time in the row, or in the row a request may put back, is to come.
MomentsOrdered == clock <= Horizon /\ row.set <= clock /\ \A e \in Requests : edit[e].prev.set <= clock

\* What is known of those times.
LEMMA MomentsKnown ==
    ASSUME ScheduleTypes
    PROVE  /\ row.set \in Nat /\ clock \in Nat /\ row \in RowStates
           /\ \A e \in Requests : edit[e] \in EditStates /\ edit[e].prev \in RowStates /\ edit[e].prev.set \in Nat
  <1>1. row.set \in Nat /\ clock \in Nat /\ \A e \in Requests : edit[e] \in EditStates /\ edit[e].prev \in RowStates
      BY ScheduleKnown
  <1> QED BY <1>1 DEF RowStates, ScheduleTypes

\* A request moves on, and would put back a row as old.
LEMMA MomentsMove ==
    ASSUME ScheduleTypes, MomentsOrdered, UNCHANGED clock, row'.set <= clock,
           NEW e \in Requests, NEW x, edit' = [edit EXCEPT ![e] = x], x.prev \in {row, edit[e].prev, FirstRow}
    PROVE  MomentsOrdered'
  <1>1. x.prev.set <= clock
      BY MomentsKnown, IdleGood DEF MomentsOrdered
  <1>2. \A f \in Requests : edit'[f].prev.set <= clock
      BY <1>1 DEF MomentsOrdered, ScheduleTypes
  <1> QED BY <1>2 DEF MomentsOrdered

\* A schedule is set at the time it is saved.
LEMMA MomentsKept ==
    ASSUME ScheduleTypes, MomentsOrdered,
           [(\E n \in Nat \ {0} : Tick(n)) \/ Runs \/ ServerStops \/ Edits]_scheduleVars
    PROVE  MomentsOrdered'
  <1>1. /\ row.set \in Nat /\ clock \in Nat /\ row \in RowStates
        /\ \A e \in Requests : edit[e] \in EditStates /\ edit[e].prev \in RowStates /\ edit[e].prev.set \in Nat
      BY MomentsKnown
  <1>2. ASSUME NEW n \in Nat \ {0}, Tick(n) PROVE MomentsOrdered'
      BY <1>1, <1>2 DEF Tick, MomentsOrdered
  <1>3. CASE Runs
      <2>1. UNCHANGED <<clock, edit>> /\ (row' = row \/ row' = [row EXCEPT !.last = runner.start])
          BY <1>3 DEF Runs, Load, CheckDue, Begin, BeginFails, RunEnds
      <2>2. row'.set = row.set
          BY <1>1, <2>1 DEF RowStates
      <2> QED BY <2>1, <2>2 DEF MomentsOrdered
  <1>4. CASE ServerStops
      <2>1. PICK x, y : x = NoEdit /\ y = [NoEdit EXCEPT !.pc = "over"]
          OBVIOUS
      <2>2. x.prev.set = 0 /\ y.prev.set = 0
          BY <2>1, IdleGood
      <2>3. UNCHANGED <<clock, row>> /\ edit' = [e \in Requests |-> IF edit[e].pc = "new" THEN x ELSE y]
          BY <1>4, <2>1 DEF ServerStops
      <2>4. \A e \in Requests : edit'[e].prev.set <= clock
          BY <1>1, <2>2, <2>3
      <2> QED BY <2>3, <2>4 DEF MomentsOrdered
  <1>5. ASSUME NEW e \in Requests, NEW m \in Modes, NEW s \in Specs, UpdateSettings(e, m, s) PROVE MomentsOrdered'
      <2>1. PICK x : /\ edit' = [edit EXCEPT ![e] = x] /\ UNCHANGED <<clock, row>>
                     /\ \E g : x = [NoEdit EXCEPT !.pc = "write", !.prev = row, !.mode = m, !.spec = g]
          BY <1>5 DEF UpdateSettings
      <2>2. x.prev = row
          BY <2>1, IdleGood DEF EditStates
      <2> QED BY <2>1, <2>2, MomentsMove DEF MomentsOrdered
  <1>6. ASSUME NEW e \in Requests, NEW z \in Zones, UpdateTimezone(e, z) PROVE MomentsOrdered'
      <2>1. PICK x : /\ edit' = [edit EXCEPT ![e] = x] /\ UNCHANGED <<clock, row>>
                     /\ x = [NoEdit EXCEPT !.pc = "write", !.kind = "zone", !.was = zone, !.zone = z]
          BY <1>6 DEF UpdateTimezone
      <2>2. x.prev = FirstRow
          BY <2>1, IdleGood DEF EditStates
      <2> QED BY <2>1, <2>2, MomentsMove DEF MomentsOrdered
  <1>7. ASSUME NEW e \in Requests, SettingsWritten(e) \/ ZoneWritten(e) PROVE MomentsOrdered'
      <2>1. PICK x : x = [edit[e] EXCEPT !.pc = "audit"]
          OBVIOUS
      <2>2. UNCHANGED clock /\ edit' = [edit EXCEPT ![e] = x] /\ (row' = row \/ row' = Saved(row, e))
          BY <1>7, <2>1 DEF SettingsWritten, ZoneWritten, ScheduleTypes
      <2>3. x.prev = edit[e].prev
          BY <1>1, <2>1 DEF EditStates
      <2>4. Saved(row, e).set = clock \/ Saved(row, e).set = row.set
          BY DEF Saved
      <2> QED BY <1>1, <2>2, <2>3, <2>4, MomentsMove DEF MomentsOrdered
  <1>8. ASSUME NEW e \in Requests, EditEnds(e) \/ EditUndone(e) PROVE MomentsOrdered'
      <2>1. PICK x : x = [NoEdit EXCEPT !.pc = "over"]
          OBVIOUS
      <2>2. UNCHANGED clock /\ edit' = [edit EXCEPT ![e] = x] /\ (row' = row \/ row' = edit[e].prev)
          BY <1>8, <2>1 DEF EditEnds, EditUndone, Ended
      <2>3. x.prev = FirstRow
          BY <2>1, IdleGood
      <2> QED BY <1>1, <2>2, <2>3, MomentsMove DEF MomentsOrdered
  <1>9. CASE UNCHANGED scheduleVars
      BY <1>9 DEF scheduleVars, MomentsOrdered
  <1> QED BY <1>2, <1>3, <1>4, <1>5, <1>6, <1>7, <1>8, <1>9 DEF Edits

\* Looking back finds exactly the newest occurrence that is owed, and looking ahead
\* the first to come, for every schedule, any length of day and week, and every
\* zone whose clock is not put back past midnight, at any moment the runner and
\* the settings page reach (Latest, Next, wallClock).
THEOREM LatestIsAlwaysLatest == ScheduleSpec => []LatestIsLatest
  <1>1. ScheduleInit => MomentsOrdered
      <2> SUFFICES ASSUME ScheduleInit PROVE MomentsOrdered
          OBVIOUS
      <2>1. clock = 0 /\ row = FirstRow /\ edit = [e \in Requests |-> NoEdit] /\ Horizon \in Nat
          BY ScheduleAssumption DEF ScheduleInit
      <2> QED BY <2>1, IdleGood DEF MomentsOrdered
  <1>2. ScheduleTypes /\ MomentsOrdered /\ [(\E n \in Nat \ {0} : Tick(n)) \/ Runs \/ ServerStops \/ Edits]_scheduleVars
          => MomentsOrdered'
      BY MomentsKept
  <1>3. ScheduleTypes /\ MomentsOrdered => LatestIsLatest
      <2> SUFFICES ASSUME ScheduleTypes, MomentsOrdered, Validate(row.spec)
                   PROVE  LatestIsLatest
          BY DEF LatestIsLatest
      <2>1. PICK s \in SpecShapes, z \in Zones, t \in Nat, set \in Nat, last \in Int :
               s = row.spec /\ z = zone /\ t = clock /\ set = row.set /\ last = row.last
          BY ScheduleKnown DEF ScheduleTypes
      <2>2. Validate(s) /\ set <= t /\ t <= Horizon
          BY <2>1 DEF MomentsOrdered
      <2>3. CASE s.kind = "weekly"
          <3>0. Max({set, last}) \in Int /\ set <= Max({set, last})
              <4>1. set \in Int
                  OBVIOUS
              <4> QED BY <4>1, LaterOf
          <3>1. PICK lower \in Int : lower = Max({set, last}) /\ set <= lower
              BY <3>0
          <3>2. lower \in Nat
              BY <3>1
          <3>3. Latest(s, set, last, t, z) = LatestWeekly(s, lower, t, z)
              BY <2>2, <2>3, <3>1 DEF Latest
          <3>4. Max({set, t}) = t
              <4> DEFINE T == {set, t}
              <4>1. T \subseteq Int /\ t \in T /\ \A x \in T : x <= t
                  BY <2>2
              <4> HIDE DEF T
              <4>2. Max(T) = t
                  BY <4>1, MaxIs
              <4> QED BY <4>2 DEF T
          <3>5. Next(s, set, t, z) = NextWeekly(s, t, z)
              BY <2>2, <2>3, <3>4 DEF Next
          <3>6. Occurrences(s, set, z) = WeeklyAll(s, z)
              BY <2>3 DEF Occurrences, WeeklyAll, LastDay
          <3>7. Latest(s, set, last, t, z) = Newest({o \in Occurrences(s, set, z) : lower < o /\ o <= t})
              <4>1. LatestWeekly(s, lower, t, z) = Newest({o \in WeeklyAll(s, z) : lower < o /\ o <= t})
                  BY <2>2, <2>3, <3>2, LatestWeeklyIs
              <4> QED BY <3>3, <3>6, <4>1
          <3>8. Next(s, set, t, z) = Min({o \in Occurrences(s, set, z) : o > t})
              BY <2>2, <2>3, <3>5, <3>6, NextWeeklyIs
          <3> QED BY <2>1, <2>3, <3>1, <3>7, <3>8 DEF LatestIsLatest
      <2>4. CASE s.kind # "weekly"
          <3>1. Latest(s, set, last, t, z) = LatestEveryDays(s, set, last, t, z) /\ Next(s, set, t, z) = NextEveryDays(s, set, t, z)
              BY <2>2, <2>4 DEF Latest, Next
          <3>2. Occurrences(s, set, z) = EveryDaysAll(s, set, z)
              BY <2>4 DEF Occurrences, EveryDaysAll
          <3>3. Latest(s, set, last, t, z) = Newest({o \in Occurrences(s, set, z) : last < o /\ o <= t})
              BY <2>2, <2>4, <3>1, <3>2, LatestEveryDaysIs
          <3>4. Next(s, set, t, z) = Min({o \in Occurrences(s, set, z) : o > t})
              BY <2>2, <2>4, <3>1, <3>2, NextEveryDaysIs
          <3> QED BY <2>1, <2>4, <3>3, <3>4 DEF LatestIsLatest
      <2> QED BY <2>3, <2>4
  <1> QED BY <1>1, <1>2, <1>3, ScheduleTypeCorrect, PTL DEF ScheduleSpec
=============================================================================
