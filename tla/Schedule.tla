------------------------------ MODULE Schedule ------------------------------
(***************************************************************************)
(* The scheduler (internal/schedule) and the schedule it runs: stale       *)
(* container monitoring, whose mode, schedule and last run are one row     *)
(* that Admins edit while the runner works.  Instants are numbers; a zone  *)
(* is an offset before and one after its clock change.  Each read and      *)
(* write of a row is a step of its own.                                    *)
(*                                                                         *)
(* Left out: the wording of Describe and of the settings page, and what a  *)
(* run does (StaleContainers).                                             *)
(***************************************************************************)
EXTENDS Integers, FiniteSets, FiniteSetsExt

CONSTANTS
    DayLen,    \* ticks of a day: 24 hours
    WeekLen,   \* days of a week (BOUND: fewer than seven)
    Back,      \* the three hours wallClock looks back for the end of a gap
    Ahead,     \* the six hours it looks ahead
    Zones,     \* time zones: [at, before, after], offsets around instant at
    Specs,     \* schedules Admins save
    Horizon,   \* BOUND: the last instant
    MaxEdits   \* BOUND: settings requests, which overlap

ASSUME ScheduleAssumption ==
    /\ DayLen \in Nat \ {0} /\ WeekLen \in Nat \ {0} /\ Back \in Nat /\ Ahead \in Nat
    /\ Zones # {} /\ Zones \subseteq [at : Int, before : Int, after : Int]
    /\ Specs \subseteq [kind : {"none", "weekly", "every_days"}, days : SUBSET Int, times : SUBSET Int, every : Nat]
    /\ Horizon \in Nat /\ MaxEdits \in Nat

\* A zone is less than a day from UTC, and its clock change is of less than a day,
\* forward by no more than wallClock looks for, and not back past midnight.
ASSUME ZonesAssumption ==
    \A z \in Zones :
        /\ -DayLen < z.before /\ z.before < DayLen /\ -DayLen < z.after /\ z.after < DayLen
        /\ z.after - z.before < DayLen /\ z.before - z.after < DayLen
        /\ z.after - z.before <= Back /\ z.after - z.before < Ahead
        /\ (z.at - 1 + z.before) \div DayLen <= (z.at + z.after) \div DayLen

VARIABLES
    clock,
    row,      \* stale_container_settings; set and last are instants
    zone,     \* schedule_settings
    runner,   \* the check under way
    edit,     \* the settings requests
    ran,      \* history: the occurrences whose run began, by save of the schedule
    twice,    \* history: an occurrence's run began again
    undone    \* history: an undo put back a last run that was not the last

scheduleVars == <<clock, row, zone, runner, edit, ran, twice, undone>>

Never == -1
NoSpec == [kind |-> "none", days |-> {}, times |-> {}, every |-> 0]
Modes == {"none", "report", "prune"}

-----------------------------------------------------------------------------
(* Spec.                                                                   *)

Validate(s) ==
    \/ /\ s.kind = "weekly"
       /\ s.every = 0
       /\ s.days # {} /\ s.days \subseteq 0..(WeekLen - 1)
       /\ s.times # {} /\ s.times \subseteq 0..(DayLen - 1)
    \/ /\ s.kind = "every_days"
       /\ s.days = {} /\ s.times = {}
       /\ s.every >= 1

Offset(z, t) == IF t < z.at THEN z.before ELSE z.after

\* What the zone's clock shows at an instant: local days and ticks.
Local(z, t) == t + Offset(z, t)
LocalDay(z, t) == Local(z, t) \div DayLen

\* time.Date: the offset in force if the wall time were UTC, unless that puts
\* the instant on the other side of the clock change.
Date(z, wall) ==
    LET guess == wall - Offset(z, wall)
        same  == (guess < z.at) = (wall < z.at)
    IN  wall - (IF same THEN Offset(z, wall) ELSE Offset(z, guess))

\* The instant of a wall time; a skipped one is the first after the gap.
WallClock(z, wall) ==
    LET t == Date(z, wall)
        probes == {p \in (t - Back)..(t + Ahead - 1) : Local(z, p) >= wall}
    IN  IF Local(z, t) % DayLen = wall % DayLen \/ probes = {} THEN t ELSE Min(probes)

WeekdaySet(s) == {d \in 0..(WeekLen - 1) : d \in s.days}

\* The wall times of a weekly schedule on local days lo..hi.
WallTimes(s, lo, hi) ==
    {d * DayLen + tod : d \in {x \in lo..hi : x % WeekLen \in WeekdaySet(s)}, tod \in s.times}

\* Mutant: the bound below is forgotten.
LatestWeeklyUnbounded(s, lower, upTo, z) ==
    LET walls == {w \in WallTimes(s, LocalDay(z, lower), LocalDay(z, upTo)) : WallClock(z, w) <= upTo}
    IN  IF walls = {} THEN Never ELSE WallClock(z, Max(walls))

\* latestWeekly looks back, day by day and newest time first, for the first
\* occurrence not after upTo, and gives up when that is not after lower.
LatestWeekly(s, lower, upTo, z) ==
    LET walls == {w \in WallTimes(s, LocalDay(z, lower), LocalDay(z, upTo)) : WallClock(z, w) <= upTo}
        at == WallClock(z, Max(walls))
    IN  IF walls = {} \/ at <= lower THEN Never ELSE at

NextWeekly(s, from, z) ==
    LET day == LocalDay(z, from)
        walls == {w \in WallTimes(s, day, day + WeekLen + 1) : WallClock(z, w) > from}
    IN  IF walls = {} THEN Never ELSE WallClock(z, Min(walls))

\* The k-th occurrence: k times N calendar days after the anchor.
EveryDaysAt(s, anchor, k, z) ==
    IF k = 0 THEN anchor ELSE WallClock(z, Local(z, anchor) + k * s.every * DayLen)

Estimate(s, anchor, t) == (t - anchor) \div (s.every * DayLen)

\* Only the occurrences around the estimate are looked at.
LatestEveryDays(s, anchor, after, upTo, z) ==
    LET e == Estimate(s, anchor, upTo)
        ks == {k \in (e - 2)..(e + 1) : k >= 0 /\ EveryDaysAt(s, anchor, k, z) <= upTo}
        at == EveryDaysAt(s, anchor, Max(ks), z)
    IN  IF upTo < anchor \/ ks = {} \/ at <= after THEN Never ELSE at

NextEveryDays(s, anchor, after, z) ==
    LET e == Estimate(s, anchor, after)
        ks == {k \in Max({e - 2, 0})..(e + 3) : EveryDaysAt(s, anchor, k, z) > after}
    IN  IF after < anchor THEN anchor
        ELSE IF ks = {} THEN Never ELSE EveryDaysAt(s, anchor, Min(ks), z)

Latest(s, anchor, after, upTo, z) ==
    IF ~Validate(s) THEN Never
    ELSE IF s.kind = "weekly" THEN LatestWeekly(s, Max({anchor, after}), upTo, z)
    ELSE LatestEveryDays(s, anchor, after, upTo, z)

Next(s, anchor, after, z) ==
    IF ~Validate(s) THEN Never
    ELSE IF s.kind = "weekly" THEN NextWeekly(s, Max({anchor, after}), z)
    ELSE NextEveryDays(s, anchor, after, z)

-----------------------------------------------------------------------------
Idle == [pc |-> "idle", mode |-> "none", spec |-> NoSpec, set |-> 0, last |-> Never, save |-> 0,
         start |-> 0, occurrence |-> Never]
FirstRow == [mode |-> "none", spec |-> NoSpec, set |-> 0, last |-> Never, save |-> 0]
FirstZone == CHOOSE z \in Zones : TRUE

\* A request by its number, which names the save it makes.
Requests == 1..MaxEdits
NoEdit == [pc |-> "new", kind |-> "mode", prev |-> FirstRow, mode |-> "none", spec |-> NoSpec,
           was |-> FirstZone, zone |-> FirstZone]
Ended(e) == [edit EXCEPT ![e] = [NoEdit EXCEPT !.pc = "over"]]

ScheduleInit ==
    /\ clock = 0
    /\ row = FirstRow
    /\ zone = FirstZone
    /\ runner = Idle
    /\ edit = [e \in Requests |-> NoEdit]
    /\ ran = {}
    /\ twice = FALSE
    /\ undone = FALSE

Tick(n) ==
    /\ clock + n <= Horizon
    /\ clock' = clock + n
    /\ UNCHANGED <<row, zone, runner, edit, ran, twice, undone>>

-----------------------------------------------------------------------------
(* Runner.check.                                                           *)

\* Job.Load: the row, and whether its mode is not none.
Load ==
    /\ runner.pc = "idle"
    /\ row.mode # "none" /\ Validate(row.spec)
    /\ runner' = [Idle EXCEPT !.pc = "zone", !.spec = row.spec, !.set = row.set, !.last = row.last, !.save = row.save]
    /\ UNCHANGED <<clock, row, zone, edit, ran, twice, undone>>

\* The time zone is read, and with it whether a run is owed now.
CheckDue ==
    LET at == Latest(runner.spec, runner.set, runner.last, clock, zone) IN
    /\ runner.pc = "zone"
    /\ runner' = IF at = Never THEN Idle
                 ELSE [runner EXCEPT !.pc = "begin", !.occurrence = at, !.start = clock]
    /\ UNCHANGED <<clock, row, zone, edit, ran, twice, undone>>

\* Mutant: the start of a run is not recorded before the run.
BeginUnrecorded ==
    /\ runner.pc = "begin"
    /\ runner' = [runner EXCEPT !.pc = "run"]
    /\ ran' = ran \cup {<<runner.save, runner.occurrence>>}
    /\ twice' = (twice \/ <<runner.save, runner.occurrence>> \in ran)
    /\ UNCHANGED <<clock, row, zone, edit, undone>>

\* Job.Begin: MarkRun records the start before anything is done ...
Begin ==
    /\ runner.pc = "begin"
    /\ row' = [row EXCEPT !.last = runner.start]
    /\ runner' = [runner EXCEPT !.pc = "run"]
    /\ ran' = ran \cup {<<runner.save, runner.occurrence>>}
    /\ twice' = (twice \/ <<runner.save, runner.occurrence>> \in ran)
    /\ UNCHANGED <<clock, zone, edit, undone>>

\* ... and a run whose start cannot be recorded does not happen.
BeginFails ==
    /\ runner.pc = "begin"
    /\ runner' = Idle
    /\ UNCHANGED <<clock, row, zone, edit, ran, twice, undone>>

\* The run is over, failed, or was switched off before it began.
RunEnds ==
    /\ runner.pc = "run"
    /\ runner' = Idle
    /\ UNCHANGED <<clock, row, zone, edit, ran, twice, undone>>

\* The server dies; the check, and the requests, end where they are.
ServerStops ==
    /\ runner.pc # "idle" \/ \E e \in Requests : edit[e].pc \in {"write", "audit"}
    /\ runner' = Idle
    /\ edit' = [e \in Requests |-> IF edit[e].pc = "new" THEN NoEdit ELSE [NoEdit EXCEPT !.pc = "over"]]
    /\ UNCHANGED <<clock, row, zone, ran, twice, undone>>

-----------------------------------------------------------------------------
(* Settings.                                                               *)

\* UpdateSettings reads the row it may have to put back.
UpdateSettings(e, mode, spec) ==
    /\ edit[e].pc = "new"
    /\ mode # "none" => Validate(spec)
    /\ edit' = [edit EXCEPT ![e] = [NoEdit EXCEPT !.pc = "write", !.prev = row, !.mode = mode,
                   !.spec = IF mode = "none" /\ ~Validate(spec) THEN row.spec ELSE spec]]
    /\ UNCHANGED <<clock, row, zone, runner, ran, twice, undone>>

\* A new schedule, or switching on from none, restarts the schedule; "was
\* none" is what the row says now.
Saved(r, e) ==
    LET restart == r.spec # edit[e].spec \/ r.mode = "none" IN
    [mode |-> edit[e].mode, spec |-> edit[e].spec,
     set  |-> IF restart THEN clock ELSE r.set,
     last |-> IF restart THEN Never ELSE r.last,
     save |-> IF restart THEN e ELSE r.save]

SettingsWritten(e) ==
    /\ edit[e].pc = "write" /\ edit[e].kind = "mode"
    /\ row' = Saved(row, e)
    /\ edit' = [edit EXCEPT ![e].pc = "audit"]
    /\ UNCHANGED <<clock, zone, runner, ran, twice, undone>>

\* UpdateTimezone reads the zone it may have to put back, and writes.
UpdateTimezone(e, z) ==
    /\ edit[e].pc = "new"
    /\ edit' = [edit EXCEPT ![e] = [NoEdit EXCEPT !.pc = "write", !.kind = "zone", !.was = zone, !.zone = z]]
    /\ UNCHANGED <<clock, row, zone, runner, ran, twice, undone>>

ZoneWritten(e) ==
    /\ edit[e].pc = "write" /\ edit[e].kind = "zone"
    /\ zone' = edit[e].zone
    /\ edit' = [edit EXCEPT ![e].pc = "audit"]
    /\ UNCHANGED <<clock, row, runner, ran, twice, undone>>

\* The write fails; or the change is audited, or is not and Restore fails too.
EditEnds(e) ==
    /\ edit[e].pc \in {"write", "audit"}
    /\ edit' = Ended(e)
    /\ UNCHANGED <<clock, row, zone, runner, ran, twice, undone>>

\* No audit record: Restore puts the row back exactly as it was read, the last
\* run with it; a time zone is set back.
EditUndone(e) ==
    LET prev == edit[e].prev
        mode == edit[e].kind = "mode" IN
    /\ edit[e].pc = "audit"
    /\ row' = IF mode THEN prev ELSE row
    /\ zone' = IF mode THEN zone ELSE edit[e].was
    /\ undone' = (undone \/ (mode /\ \E r \in ran : r[1] = prev.save /\ r[2] > prev.last))
    /\ edit' = Ended(e)
    /\ UNCHANGED <<clock, runner, ran, twice>>

-----------------------------------------------------------------------------
Runs == Load \/ CheckDue \/ Begin \/ BeginFails \/ RunEnds

Edits ==
    \E e \in Requests :
        \/ \E m \in Modes, s \in Specs : UpdateSettings(e, m, s)
        \/ \E z \in Zones : UpdateTimezone(e, z)
        \/ SettingsWritten(e) \/ ZoneWritten(e) \/ EditEnds(e) \/ EditUndone(e)

ScheduleSpec ==
    /\ ScheduleInit
    /\ [][(\E n \in Nat \ {0} : Tick(n)) \/ Runs \/ ServerStops \/ Edits]_scheduleVars

-----------------------------------------------------------------------------
(* PROPERTIES                                                              *)

SpecShapes == [kind : {"none", "weekly", "every_days"}, days : SUBSET Int, times : SUBSET Int, every : Nat]
Instants == Nat \cup {Never}
RowStates == [mode : Modes, spec : SpecShapes, set : Nat, last : Instants, save : Nat]
RunnerStates == [pc : {"idle", "zone", "begin", "run"}, mode : Modes, spec : SpecShapes, set : Nat, last : Instants,
                 save : Nat, start : Nat, occurrence : Instants]
EditStates == [pc : {"new", "write", "audit", "over"}, kind : {"mode", "zone"}, prev : RowStates, mode : Modes,
               spec : SpecShapes, was : Zones, zone : Zones]

\* The state is of the types of the settings rows, the check under way and the
\* requests under way.
ScheduleTypes ==
    /\ clock \in Nat /\ row \in RowStates /\ zone \in Zones /\ runner \in RunnerStates
    /\ edit \in [Requests -> EditStates] /\ ran \subseteq (Nat \X Int) /\ twice \in BOOLEAN /\ undone \in BOOLEAN

\* Every instant the schedule names up to the horizon, by its definition.
Occurrences(s, anchor, z) ==
    IF s.kind = "weekly"
    THEN {WallClock(z, w) : w \in WallTimes(s, -1, Horizon \div DayLen + WeekLen + 2)}
    ELSE {EveryDaysAt(s, anchor, k, z) : k \in 0..(Horizon + 2 * DayLen)}

Newest(S) == IF S = {} THEN Never ELSE Max(S)

\* Looking back from now, day by day or around an estimate, finds exactly the
\* newest occurrence that is not older than the last run and the save, and the
\* page's next run is the first one after now, with days of 23 and 25 hours,
\* skipped and repeated wall times (Latest, Next, wallClock).
LatestIsLatest ==
    LET occ == Occurrences(row.spec, row.set, zone)
        floor == IF row.spec.kind = "weekly" THEN Max({row.set, row.last}) ELSE row.last
        coming == {o \in occ : o > clock}
    IN  Validate(row.spec) =>
          /\ Latest(row.spec, row.set, row.last, clock, zone) = Newest({o \in occ : floor < o /\ o <= clock})
          /\ Next(row.spec, row.set, clock, zone) = Min(coming)

\* However the runner, restarts, the settings page and time zone changes
\* interleave, no occurrence of a saved schedule is run twice, unless the undo
\* of an unaudited settings change put back a last run that a run begun since
\* had overwritten (check, MarkRun, UpdateSettings, Restore).
NeverTwice == twice => undone
=============================================================================
