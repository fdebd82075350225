------------------------------ MODULE Inventory ------------------------------
(***************************************************************************)
(* The model inventory of one node, for one model directory: deletes,      *)
(* scans and imports (internal/inventory) and what the agent does to the   *)
(* disk for them (agent/connection/deletemodel.go, scanmodels.go,          *)
(* agent/modelscan).  Requests, the agent's goroutines, answers, transfers *)
(* and people with a shell on the node interleave.                         *)
(*                                                                         *)
(* A file is a model value with its format, the set of shards it belongs   *)
(* to, the label the scan reads from the set's name, and the labels its    *)
(* own name contains.  An entry is a pair of a quantization and a format.  *)
(* Left out: permissions, sizes, audit records, the grouping of the pages, *)
(* and malformed answers.                                                  *)
(***************************************************************************)
EXTENDS Integers, FiniteSets, FiniteSetsExt, Sequences

CONSTANTS
    ModelFiles,  \* files that may be in the directory
    FormatOf,    \* "gguf" or "safetensors"
    SetOf,       \* the copy a file belongs to: its set of shards, the whole repo of a safetensors file
    Rank,        \* the order of a scan's list; shard 1 comes first of its set
    LabelOf,     \* what quantizationFromName reads: a label, or "UNKNOWN"
    LabelsIn,    \* every label that is part of the file's name
    MaxScans     \* BOUND: scans

ASSUME InventoryAssumption ==
    /\ FormatOf \in [ModelFiles -> {"gguf", "safetensors"}]
    /\ \A f \in ModelFiles : FormatOf[f] = "gguf" => LabelOf[f] \in LabelsIn[f] \cup {"UNKNOWN"}
    /\ Rank \in [ModelFiles -> Nat]
    /\ \A f, g \in ModelFiles : SetOf[f] = SetOf[g] => FormatOf[f] = FormatOf[g] /\ LabelOf[f] = LabelOf[g]
    /\ \A f, g \in ModelFiles : FormatOf[f] = "safetensors" /\ FormatOf[g] = "safetensors" => SetOf[f] = SetOf[g]
    /\ MaxScans \in Nat

VARIABLES
    disk,       \* files in the directory
    entry,      \* node_model_inventory
    deletes,    \* Service.deletes
    inUse,      \* entries a profile targets
    connected,  \* the agent is connected
    asked,      \* requests to delete, each an entry and the next thing Delete does
    removing,   \* delete_model commands the agent works on
    answers,    \* delete_model_results on their way or being handled
    scans,      \* Service.scans
    importing,  \* the import under way
    imported,   \* history: the copy an entry was imported from, what its scan named and what was there
    harmed      \* history: files deletes took beside the ones they were for

inventoryVars == <<disk, entry, deletes, inUse, connected, asked, removing, answers, scans, importing, imported, harmed>>

WholeRepo == ""
Labels == (UNION {LabelsIn[f] : f \in ModelFiles}) \cup {"UNKNOWN"}
Entries == {<<q, "gguf">> : q \in Labels} \cup {<<WholeRepo, "safetensors">>}
Gguf(F) == {f \in F : FormatOf[f] = "gguf"}
Copy(f) == {g \in ModelFiles : SetOf[g] = SetOf[f]}

\* The entry a download of a file records, and the scan reports.
EntryOf(f) == IF FormatOf[f] = "gguf" THEN <<LabelOf[f], "gguf">> ELSE <<WholeRepo, "safetensors">>

NoImport == [pc |-> "idle", entry |-> <<WholeRepo, "safetensors">>, files |-> {}, scan |-> 0]
NotImported == [own |-> {}, named |-> {}, there |-> {}]

InventoryInit ==
    /\ entry = [k \in Entries |-> "none"]
    /\ deletes = [k \in Entries |-> "none"]
    /\ inUse = {}
    /\ connected = TRUE
    /\ asked = {} /\ removing = {} /\ answers = {}
    /\ scans = <<>>
    /\ importing = NoImport
    /\ imported = [k \in Entries |-> NotImported]
    /\ harmed = {}

-----------------------------------------------------------------------------
(* Deleting.                                                               *)

Ask(k, pc, next) ==
    /\ <<k, pc>> \in asked
    /\ asked' = (asked \ {<<k, pc>>}) \cup {<<k, n>> : n \in next}

\* Delete looks up the entry, ...
Delete(k) ==
    /\ entry[k] \in {"present", "incomplete"}
    /\ asked' = asked \cup {<<k, "state">>}
    /\ UNCHANGED <<disk, entry, deletes, inUse, connected, removing, answers, scans, importing, imported, harmed>>

\* ... goes on if no delete of it is known to be under way ...
CheckDeleteState(k) ==
    /\ Ask(k, "state", IF deletes[k] = "removing" THEN {} ELSE {"profiles"})
    /\ UNCHANGED <<disk, entry, deletes, inUse, connected, removing, answers, scans, importing, imported, harmed>>

\* ... and no profile uses it, ...
ListProfiles(k) ==
    /\ Ask(k, "profiles", IF k \in inUse THEN {} ELSE {"send"})
    /\ UNCHANGED <<disk, entry, deletes, inUse, connected, removing, answers, scans, importing, imported, harmed>>

\* ... sends the command, unless the node is not connected or cannot be reached
\* (BOUND: the agent has one command per entry at a time) ...
SendDelete(k) ==
    /\ \/ /\ connected /\ k \notin removing
          /\ Ask(k, "send", {"mark"})
          /\ removing' = removing \cup {k}
       \/ Ask(k, "send", {}) /\ UNCHANGED removing
    /\ UNCHANGED <<disk, entry, deletes, inUse, connected, answers, scans, importing, imported, harmed>>

\* ... and only then sets the state.
MarkRemoving(k) ==
    /\ Ask(k, "mark", {})
    /\ deletes' = [deletes EXCEPT ![k] = "removing"]
    /\ UNCHANGED <<disk, entry, inUse, connected, removing, answers, scans, importing, imported, harmed>>

\* DeleteState forgets after deleteStateTTL.
DeleteStateExpires(k) ==
    /\ deletes[k] # "none"
    /\ deletes' = [deletes EXCEPT ![k] = "none"]
    /\ UNCHANGED <<disk, entry, inUse, connected, asked, removing, answers, scans, importing, imported, harmed>>

IsWholeRepo(k) == k[2] # "gguf" \/ k[1] \in {WholeRepo, "UNKNOWN"}

\* What removeModel removes: everything, or the files whose name contains the
\* quantization, and everything once no gguf file is left.
Doomed(k, F) ==
    LET named == {f \in F : k[1] \in LabelsIn[f]} IN
    IF IsWholeRepo(k) THEN F
    ELSE IF named # {} /\ Gguf(F \ named) = {} THEN F
    ELSE named

\* addModelDir: of each copy the scan names one file, the first of its shards;
\* the list may be cut at its maximum.
Firsts(F) == {f \in F : \A g \in F : SetOf[g] = SetOf[f] => Rank[f] <= Rank[g]}
Cuts(F) == {{}} \cup {{g \in Firsts(F) : Rank[g] <= Rank[last]} : last \in F}

\* How the scan entry k was imported from reported a file of another copy: under
\* its name, as a shard of a copy named otherwise, or cut off at the maximum.
Report(k, f) ==
    LET x == imported[k] IN
    CASE f \notin x.there \ x.own -> "none"
      [] f \in x.named \ x.own -> "named"
      [] f \in x.there \ Firsts(x.there) -> "shard"
      [] OTHER -> "cut"

\* A file of another entry that is present.
Others(k, f) == EntryOf(f) # k /\ f \notin imported[k].own /\ entry[EntryOf(f)] = "present"

RemoveModel(k) ==
    /\ k \in removing
    /\ removing' = removing \ {k}
    /\ disk' = disk \ Doomed(k, disk)
    /\ harmed' = harmed \cup {[entry |-> k, file |-> f, left |-> Gguf(disk'), report |-> Report(k, f)] :
                             f \in {g \in Doomed(k, disk) : Report(k, g) # "none" \/ Others(k, g)}}
    /\ answers' = IF connected THEN answers \cup {<<k, "removed">>} ELSE answers
    /\ UNCHANGED <<entry, deletes, inUse, connected, asked, scans, importing, imported>>

\* An error part of the way: some of the files are gone.
RemoveModelFails(k) ==
    /\ k \in removing
    /\ removing' = removing \ {k}
    /\ \E gone \in SUBSET Doomed(k, disk) : disk' = disk \ gone
    /\ answers' = IF connected THEN answers \cup {<<k, "failed">>} ELSE answers
    /\ UNCHANGED <<entry, deletes, inUse, connected, asked, scans, importing, imported, harmed>>

\* A failure is remembered; a removal is forgotten ...
HandleDeleteModelResult(k, outcome) ==
    /\ outcome \in {"removed", "failed"} /\ <<k, outcome>> \in answers
    /\ answers' = (answers \ {<<k, outcome>>}) \cup (IF outcome = "removed" THEN {<<k, "cleared">>} ELSE {})
    /\ deletes' = [deletes EXCEPT ![k] = IF outcome = "removed" THEN "none" ELSE "failed"]
    /\ UNCHANGED <<disk, entry, inUse, connected, asked, removing, scans, importing, imported, harmed>>

\* ... and then recorded, unless that fails.
SetStatus(k) ==
    /\ <<k, "cleared">> \in answers
    /\ answers' = answers \ {<<k, "cleared">>}
    /\ \/ entry' = IF entry[k] # "none" THEN [entry EXCEPT ![k] = "removed"] ELSE entry
       \/ UNCHANGED entry
    /\ UNCHANGED <<disk, deletes, inUse, connected, asked, removing, scans, importing, imported, harmed>>

-----------------------------------------------------------------------------
(* Scan and import.                                                        *)

NoScan == [status |-> "pending", models |-> {}, there |-> {}, candidates |-> {}, agent |-> "none", expired |-> FALSE]

\* StartScan: a node that is not connected, or cannot be reached, is recorded as such.
StartScan ==
    /\ Len(scans) < MaxScans
    /\ \E reached \in {"sent", "failed"} :
           scans' = Append(scans, IF ~connected THEN [NoScan EXCEPT !.status = "offline"]
                                  ELSE IF reached = "sent" THEN [NoScan EXCEPT !.agent = "asked"]
                                  ELSE [NoScan EXCEPT !.status = "failed"])
    /\ UNCHANGED <<disk, entry, deletes, inUse, connected, asked, removing, answers, importing, imported, harmed>>

\* The agent walks its storage: a whole-repo copy for the safetensors files, one
\* copy per set of gguf shards.  A scan that fails is answered too.
ScanModels(s) ==
    /\ scans[s].agent = "asked"
    /\ \/ /\ connected
          /\ \E list \in Cuts(disk) :
                scans' = [scans EXCEPT ![s].agent = "listed", ![s].models = list, ![s].there = disk]
       \/ scans' = [scans EXCEPT ![s].agent = IF connected THEN "error" ELSE "none"]
    /\ UNCHANGED <<disk, entry, deletes, inUse, connected, asked, removing, answers, importing, imported, harmed>>

\* Mutant: only the file's own label is asked about.
ImportBlockedByLabel(models, f, q) ==
    \/ q \notin {WholeRepo, "UNKNOWN"} /\ (FormatOf[f] # "gguf" \/ q \notin LabelsIn[f])

\* importBlock: a whole-directory entry has no neighbours on the list, a quantized
\* one's label is in exactly one gguf name of the list.
ImportBlocked(models, f, q) ==
    IF q \in {WholeRepo, "UNKNOWN"} THEN models # {f}
    ELSE \/ FormatOf[f] # "gguf"
         \/ {g \in Gguf(models) : q \in LabelsIn[g]} # {f}

\* Accepted only while the scan lives and waits; what inventory already has is
\* counted, the rest are candidates.
HandleScanModelsResult(s) ==
    LET sc == scans[s] IN
    /\ sc.agent \in {"listed", "error"}
    /\ scans' = [scans EXCEPT ![s] =
           IF sc.expired \/ sc.status # "pending" THEN [sc EXCEPT !.agent = "none"]
           ELSE IF sc.agent = "error" THEN [sc EXCEPT !.agent = "none", !.status = "failed"]
           ELSE [sc EXCEPT !.agent = "none", !.status = "done",
                           !.candidates = {f \in sc.models : entry[EntryOf(f)] \in {"none", "removed"}}]]
    /\ UNCHANGED <<disk, entry, deletes, inUse, connected, asked, removing, answers, importing, imported, harmed>>

\* scanTTL passes; pruneScansLocked drops the scan at the next request.
ScanExpires(s) ==
    /\ ~scans[s].expired
    /\ scans' = [scans EXCEPT ![s] = [NoScan EXCEPT !.expired = TRUE, !.agent = scans[s].agent]]
    /\ UNCHANGED <<disk, entry, deletes, inUse, connected, asked, removing, answers, importing, imported, harmed>>

\* importOne up to the lookup: a candidate of the scan, under its own label or
\* the one the Admin gives a gguf file, not blocked and not known.
Import(s, f, q) ==
    LET k == <<q, FormatOf[f]>> IN
    /\ importing.pc = "idle"
    /\ scans[s].status = "done" /\ f \in scans[s].candidates
    /\ q = EntryOf(f)[1] \/ (FormatOf[f] = "gguf" /\ q # WholeRepo)
    /\ ~ImportBlocked(scans[s].models, f, q)
    /\ entry[k] \in {"none", "removed"}
    /\ importing' = [pc |-> "upsert", entry |-> k, files |-> {f}, scan |-> s]
    /\ imported' = [imported EXCEPT ![k] = [own |-> Copy(f), named |-> scans[s].models, there |-> scans[s].there]]
    /\ UNCHANGED <<disk, entry, deletes, inUse, connected, asked, removing, answers, scans, harmed>>

\* The entry is recorded present, and no longer offered.
ImportRecorded ==
    /\ importing.pc = "upsert"
    /\ entry' = [entry EXCEPT ![importing.entry] = "present"]
    /\ scans' = [scans EXCEPT ![importing.scan].candidates = @ \ importing.files]
    /\ importing' = NoImport
    /\ UNCHANGED <<disk, deletes, inUse, connected, asked, removing, answers, imported, harmed>>

ImportFails ==
    /\ importing.pc = "upsert"
    /\ importing' = NoImport
    /\ UNCHANGED <<disk, entry, deletes, inUse, connected, asked, removing, answers, scans, imported, harmed>>

-----------------------------------------------------------------------------
(* Transfers, people and the server.                                       *)

\* A transfer writes a copy and its entry, in whole or in part.
TransferPlaces(f, status) ==
    /\ status \in {"present", "incomplete"}
    /\ disk' = disk \cup (IF status = "present" THEN Copy(f) ELSE {f})
    /\ entry' = [entry EXCEPT ![EntryOf(f)] = status]
    /\ imported' = [imported EXCEPT ![EntryOf(f)] = NotImported]
    /\ UNCHANGED <<deletes, inUse, connected, asked, removing, answers, scans, importing, harmed>>

\* Someone copies a file to the node, or removes one, by hand.
ByHand(f) ==
    /\ disk' = IF f \in disk THEN disk \ {f} ELSE disk \cup {f}
    /\ UNCHANGED <<entry, deletes, inUse, connected, asked, removing, answers, scans, importing, imported, harmed>>

\* A profile is pointed at an entry there is, or away from it.
ProfileEdited(k) ==
    /\ k \in inUse \/ entry[k] # "none"
    /\ inUse' = IF k \in inUse THEN inUse \ {k} ELSE inUse \cup {k}
    /\ UNCHANGED <<disk, entry, deletes, connected, asked, removing, answers, scans, importing, imported, harmed>>

Reconnected ==
    /\ connected' = ~connected
    /\ answers' = {x \in answers : x[2] = "cleared"}
    /\ UNCHANGED <<disk, entry, deletes, inUse, asked, removing, scans, importing, imported, harmed>>

\* A restart forgets the deletes and the scans.
ServerRestarts ==
    /\ deletes' = [k \in Entries |-> "none"]
    /\ scans' = [s \in DOMAIN scans |-> [NoScan EXCEPT !.expired = TRUE]]
    /\ asked' = {} /\ answers' = {} /\ importing' = NoImport
    /\ UNCHANGED <<disk, entry, inUse, connected, removing, imported, harmed>>

InventoryCalls ==
    \/ StartScan
    \/ \E s \in DOMAIN scans, f \in ModelFiles, q \in Labels \cup {WholeRepo} : Import(s, f, q)
    \/ \E k \in Entries : Delete(k)

InventorySteps ==
    \/ \E k \in Entries : CheckDeleteState(k) \/ ListProfiles(k) \/ SendDelete(k) \/ MarkRemoving(k)
    \/ \E k \in Entries : RemoveModel(k) \/ RemoveModelFails(k) \/ SetStatus(k)
    \/ \E k \in Entries, outcome \in {"removed", "failed"} : HandleDeleteModelResult(k, outcome)
    \/ \E s \in DOMAIN scans : ScanModels(s) \/ HandleScanModelsResult(s)
    \/ ImportRecorded \/ ImportFails

InventoryWorld ==
    \/ \E k \in Entries : DeleteStateExpires(k) \/ ProfileEdited(k)
    \/ \E s \in DOMAIN scans : ScanExpires(s)
    \/ \E f \in ModelFiles : ByHand(f) \/ \E st \in {"present", "incomplete"} : TransferPlaces(f, st)
    \/ Reconnected \/ ServerRestarts

\* A directory with any files, which the inventory knows nothing of.
InventorySpec ==
    /\ disk \subseteq ModelFiles /\ InventoryInit
    /\ [][InventoryCalls \/ InventorySteps \/ InventoryWorld]_inventoryVars

-----------------------------------------------------------------------------
(* PROPERTIES                                                              *)

ScanStates == [status : {"pending", "offline", "failed", "done"}, models : SUBSET ModelFiles, there : SUBSET ModelFiles, candidates : SUBSET ModelFiles,
               agent : {"none", "asked", "listed", "error"}, expired : BOOLEAN]
Imports == [pc : {"idle", "upsert"}, entry : Entries, files : SUBSET ModelFiles, scan : Nat]
ImportNotes == [own : SUBSET ModelFiles, named : SUBSET ModelFiles, there : SUBSET ModelFiles]
Harms == [entry : Entries, file : ModelFiles, left : SUBSET ModelFiles, report : {"none", "named", "shard", "cut"}]

\* The state is of the types of the disk, the table, the service and the agent.
InventoryTypes ==
    /\ disk \subseteq ModelFiles
    /\ entry \in [Entries -> {"none", "present", "incomplete", "removed"}]
    /\ deletes \in [Entries -> {"none", "removing", "failed"}]
    /\ inUse \subseteq Entries /\ asked \subseteq Entries \X {"state", "profiles", "send", "mark"} /\ removing \subseteq Entries
    /\ answers \subseteq Entries \X {"removed", "failed", "cleared"} /\ connected \in BOOLEAN
    /\ scans \in Seq(ScanStates) /\ importing \in Imports
    /\ imported \in [Entries -> ImportNotes] /\ harmed \subseteq Harms

\* Deleting an entry that was imported never takes a file of another copy that
\* the scan named beside it, whatever the disk and the inventory went through
\* since - except safetensors files, which importBlock counts for whole
\* directories only: when no gguf file is left, or when the label is in their
\* name too (importBlock against removeModel).  What the scan did not name, the
\* further shards of a copy and what a list cut short leaves out, importBlock
\* cannot ask about: see ImportSparesShards.
ImportSparesNeighbours ==
    \A x \in harmed : x.report = "named" => FormatOf[x.file] = "safetensors" /\ (x.left = {} \/ x.entry[1] \in LabelsIn[x.file])

-----------------------------------------------------------------------------
(* CLAIMS OF THE SOURCE THAT THE CODE DOES NOT KEEP                        *)

\* The claim of ARCHITECTURE.md that Import "refuses an entry whose later delete
\* would remove neighbouring models in the same directory", of gguf files that
\* were there when a whole list was made (importBlock, addModelDir).
ImportSparesShards ==
    \A x \in harmed : FormatOf[x.file] = "gguf" => x.report # "shard"

\* "sibling quantizations of the same repo are left alone": deleting a
\* quantized entry takes no file of another entry that is present (removeModel).
DeleteLeavesSiblings ==
    \A x \in harmed : ~IsWholeRepo(x.entry) /\ FormatOf[x.file] = "gguf" => x.report # "none"
=============================================================================
