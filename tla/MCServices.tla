----------------------------- MODULE MCServices -----------------------------
(* The services beside launches, transfers and logs, one subject at a      *)
(* time: the subject says which of them moves, so that the state spaces    *)
(* add up instead of multiplying.                                          *)
EXTENDS Schedule, Engines, Sessions, Administration

CONSTANTS ada, loc, g1, d1

VARIABLES
    subject,
    about,    \* the row an administrator changes
    turns     \* BOUND: calls that may still begin

vars == <<scheduleVars, engineVars, sessionVars, adminVars, subject, about, turns>>

Call(A) == A /\ turns > 0 /\ turns' = turns - 1
Step(A) == A /\ UNCHANGED turns

-----------------------------------------------------------------------------
(* Schedules: days of eight ticks, weeks of two days, clocks that change.  *)

MCZones == {[at |-> 11, before |-> 0, after |-> 1], [at |-> 11, before |-> 1, after |-> 0],
            [at |-> 11, before |-> -1, after |-> -2]}

Weekly(days, times) == [kind |-> "weekly", days |-> days, times |-> times, every |-> 0]
EveryDays(n) == [kind |-> "every_days", days |-> {}, times |-> {}, every |-> n]

MCSpecs == {Weekly({0, 1}, {2, 3}), Weekly({1}, {3, 6}), EveryDays(1), EveryDays(2), NoSpec}

\* Any schedule, any time zone, any moment.
AnyMoment ==
    /\ clock \in 0..Horizon
    /\ zone \in Zones
    /\ \E s \in Specs \ {NoSpec}, at \in 0..Horizon, run \in {Never} \cup 0..Horizon :
         /\ at <= clock /\ run <= clock /\ (run # Never => at <= run)
         /\ row = [mode |-> "report", spec |-> s, set |-> at, last |-> run, save |-> 0]
    /\ runner = Idle /\ edit = [e \in Requests |-> NoEdit]
    /\ ran = {} /\ twice = FALSE /\ undone = FALSE

RunnerEdits ==
    \E e \in Requests :
        \/ /\ \A f \in Requests : f < e => edit[f].pc # "new"
           /\ \/ \E m \in {"none", "report"}, s \in {Weekly({0, 1}, {2, 3}), EveryDays(1), NoSpec} : UpdateSettings(e, m, s)
              \/ \E z \in Zones : UpdateTimezone(e, z)
        \/ SettingsWritten(e) \/ ZoneWritten(e) \/ EditEnds(e) \/ EditUndone(e)

Scheduling == subject = "runner" /\ Step(Tick(4) \/ Runs \/ ServerStops \/ RunnerEdits)

-----------------------------------------------------------------------------
Provisioning == subject = "engines" /\ (Call(EngineLosses) \/ Step(EngineCalls \/ EngineSteps))

-----------------------------------------------------------------------------
Limiting ==
    /\ subject = "limiter"
    /\ Call(LoginLimited(loc) \/ \E v \in Visits : HandleLogin(v, loc)) \/ Step(Clock \/ \E v \in Visits : LoginFails(v))

SigningIn == subject = "sign-in" /\ (Call(SignIns \/ Browsing \/ Setup) \/ Step(SessionSteps))

Staying ==
    /\ subject = "session"
    /\ \/ Call(Browsing \/ DirectoryChanges \/ HandleLogin(CHOOSE v \in Visits : TRUE, ada))
       \/ Step(Clock \/ SessionSteps)

-----------------------------------------------------------------------------
(* Administration: an Admin of the directory, and a local account.         *)

AdasTier == <<"tier", ada, None>>

Rows(adas, locs) ==
    [k \in RowKeys |->
        CASE k = AdasTier -> adas
          [] k = <<"tier", loc, None>> -> locs
          [] k = <<"group", g1, None>> -> "x"
          [] k[1] \in {"default theme", "log retention", "alert retention"} -> "x"
          [] k[1] = "node" /\ about # k -> "x"
          [] OTHER -> Absent]

\* The rows the requests are about, one at a time, and who makes them: for a
\* person of the directory who has yet to sign in, the SuperAdmin.
Subjects == {Subject(k) : k \in {q \in RowKeys : q[2] # ada \/ q[1] \in {"theme", "tier"}}} \ {<<"theme", loc, None>>}
Askers ==
    CASE value[AdasTier] # "admin" -> {BreakGlass} [] about[1] = "tier" -> {BreakGlass, ada} [] about[1] \in {"display", "password"} -> {ada, loc} [] OTHER -> {ada}

\* A request takes the first free slot; a tier goes up to one of two.
Submit(A(_, _)) ==
    \E r \in Forms, who \in Askers :
        /\ \A q \in Forms : q < r => form[q] # NoForm
        /\ Call(A(r, who))
        /\ Subject(form'[r].key) = about
        /\ form'[r].to \notin {"read_only", "developer"}

MappingForms(r, who) == HandleMapADGroup(r, who) \/ HandleUnmapADGroup(r, who) \/ HandleDeleteGroup(r, who)
OtherForms(r, who) ==
    \/ UserForms(r, who) \/ SettingForms(r, who) \/ RegistryForms(r, who)
    \/ GroupForms(r, who) /\ form'[r].op \notin {"map", "unmap"}

Administering ==
    \/ subject = "forms" /\ (Submit(OtherForms) \/ Step(FormSteps \/ FirstLogin(ada)))
    \/ /\ subject = "mappings"
       /\ \/ Submit(MappingForms) \/ Call(FirstLogin(ada) \/ RefreshUser(ada) \/ AdChanges(ada, d1))
          \/ Step(FormSteps \/ RefreshSteps \/ ServerDies)

-----------------------------------------------------------------------------
MCInit ==
    /\ subject \in {"latest", "runner", "engines", "limiter", "sign-in", "session", "forms", "mappings"}
    /\ turns = CASE subject = "limiter" -> 6
                 [] subject = "session" -> 4
                 [] subject = "mappings" -> 3
                 [] OTHER -> 2
    /\ IF subject = "latest" THEN AnyMoment ELSE ScheduleInit
    /\ EnginesInit
    /\ SessionsInit
    /\ subject # "sign-in" => credential /\ account = [p \in Directory |-> "current"]
    /\ about \in CASE subject = "forms" -> Subjects [] subject = "mappings" -> {<<"group", g, None>> : g \in AppGroups} [] OTHER -> {<<>>}
    /\ \E adas \in CASE about = AdasTier -> {Absent} [] subject = "mappings" -> {Absent, "admin"} [] OTHER -> {"admin"},
          locs \in IF subject = "forms" /\ about[1] = "tier" THEN {Absent, "developer"} ELSE {"power_dev"} :
          value = Rows(adas, locs)
    /\ inAd = {<<ada, d1>>}
    /\ AdministrationInit

MCNext ==
    /\ \/ Scheduling /\ UNCHANGED <<engineVars, sessionVars, adminVars>>
       \/ Provisioning /\ UNCHANGED <<scheduleVars, sessionVars, adminVars>>
       \/ (Limiting \/ SigningIn \/ Staying) /\ UNCHANGED <<scheduleVars, engineVars, adminVars>>
       \/ Administering /\ UNCHANGED <<scheduleVars, engineVars, sessionVars>>
    /\ UNCHANGED <<subject, about>>

MCSpec == MCInit /\ [][MCNext]_vars
=============================================================================
