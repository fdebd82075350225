------------------------------- MODULE Alerts -------------------------------
(***************************************************************************)
(* The alert inbox: internal/alerts over the alerts, alert_audiences and   *)
(* alert_user_state tables.  Producers inside the server raise an alert    *)
(* when a condition appears and resolve it when the condition clears;      *)
(* people mark alerts read, dismiss and resolve them, each change audited  *)
(* and undone when the audit record cannot be written.  Steps end at the   *)
(* database statements, so producers and people interleave between them.   *)
(*                                                                         *)
(* Left out: titles, bodies, counts of occurrences, paging and the event   *)
(* that tells open browsers to refetch.                                    *)
(***************************************************************************)
EXTENDS Naturals, FiniteSets

CONSTANTS
    Users,         \* people with a row in users
    Admins,        \* the users of tier admin
    GroupMembers,  \* the users in the one application group alerts name
    SuperAdmin,    \* the break-glass account: no users row, no inbox state
    Producers,     \* callers of Raise that may run at the same time
    Keys,          \* dedupe keys, all of one producer's prefix
    NoKey,         \* an alert raised without a dedupe key
    MaxAlerts,     \* BOUND: as many alert rows as are ever inserted
    MaxSeverity,   \* severities are 1..MaxSeverity, worst last
    AudienceSets   \* what producers address their alerts to

ASSUME AlertsAssumption ==
    /\ Admins \subseteq Users
    /\ GroupMembers \subseteq Users
    /\ SuperAdmin \notin Users
    /\ NoKey \notin Keys
    /\ MaxSeverity \in Nat \ {0}
    /\ MaxAlerts \in Nat \ {0}
    /\ {} \notin AudienceSets

VARIABLES
    alertRow,   \* the alerts table with its audiences
    userState,  \* alert_user_state: read and dismissed, per user and alert
    raising,    \* each producer's call of Raise
    acting,     \* each person's request on the inbox
    calm,       \* history: keys whose condition cleared, no raise since
    reopened,   \* history: alerts a failed audit write reopened
    seen,       \* history: the severity a person's page last showed for an alert
    crossed     \* history: read marks written over a severity not yet shown

alertVars == <<alertRow, userState, raising, acting, calm, reopened, seen, crossed>>

Severities == 1..MaxSeverity

AlertIds == 1..MaxAlerts

NoRow == [state |-> "none", key |-> NoKey, sev |-> 1, aud |-> {}, old |-> FALSE]

\* A row past its retention is gone for good; its id is never used again.
States == {"none", "open", "cleared", "user", "gone"}

Actors == Users \cup {SuperAdmin}

IsOpen(a) == alertRow[a].state = "open"

Stored(a) == alertRow[a].state \in {"open", "cleared", "user"}

Fresh == [read |-> FALSE, dismissed |-> FALSE]

NotRaising == [pc |-> "idle", key |-> NoKey, sev |-> 1, aud |-> {}, tries |-> 0,
               alert |-> 1]

NotActing == [pc |-> "idle", kind |-> "read", todo |-> {}, ids |-> {}]

Init ==
    /\ alertRow = [a \in AlertIds |-> NoRow]
    /\ userState = [u \in Users |-> [a \in AlertIds |-> Fresh]]
    /\ raising = [p \in Producers |-> NotRaising]
    /\ acting = [u \in Actors |-> NotActing]
    /\ calm = {}
    /\ reopened = {}
    /\ seen = [v \in Actors |-> [a \in AlertIds |-> 0]]
    /\ crossed = {}

-----------------------------------------------------------------------------
(* Who an alert is addressed to.  An audience is a user, a tier and above,  *)
(* or the application group.                                               *)

\* The SuperAdmin matches tier audiences as an Admin, and no other.
AddressedTo(v, x) ==
    \/ x = "everyone"
    \/ x = "admins" /\ (v \in Admins \/ v = SuperAdmin)
    \/ x = "group" /\ v \in GroupMembers
    \/ x = v /\ v \in Users

FindVisible(v, a) ==
    /\ Stored(a)
    /\ v \in Users => ~userState[v][a].dismissed
    /\ \E x \in alertRow[a].aud : AddressedTo(v, x)

\* Open, visible and unread: the sidebar's badge and "mark all read".
UnreadAlerts(u) == {a \in AlertIds : FindVisible(u, a) /\ IsOpen(a) /\ ~userState[u][a].read}

\* An Admin may close any alert, anyone else only one addressed to them alone.
MayResolve(v, a) == v \in Admins \/ v = SuperAdmin \/ alertRow[a].aud = {v}

-----------------------------------------------------------------------------
(* Producers.                                                              *)

OpenFor(k) == {a \in AlertIds : IsOpen(a) /\ alertRow[a].key = k}

\* What a caller learns, and whether the notifier is told: only about a new
\* alert or one that became more severe.
RaiseReturns(p, a, s, created, escalated) ==
    raising' = [raising EXCEPT ![p] =
        IF created \/ escalated
        THEN [@ EXCEPT !.pc = "notify", !.alert = a, !.sev = s]
        ELSE NotRaising]

FreeIds == {a \in AlertIds : alertRow[a].state = "none"}

Inserting == {p \in Producers : raising[p].pc \in {"insert", "again"}}

\* Raise validates its input and looks the open alert of the key up.  None:
\* the row is inserted in a later step of the transaction.
Raise(p, k, s, auds) ==
    /\ raising[p].pc = "idle"
    /\ OpenFor(k) = {} \/ k = NoKey
    /\ Cardinality(FreeIds) > Cardinality(Inserting)
    /\ raising' = [raising EXCEPT ![p] =
           [NotRaising EXCEPT !.pc = "insert", !.key = k, !.sev = s, !.aud = auds, !.tries = 1]]
    /\ calm' = calm \ {k}
    /\ UNCHANGED <<alertRow, userState, acting, reopened, seen, crossed>>

\* Mutant: an escalation leaves the alert read.
UpdateOpenKeepsRead(p, a, s, auds) ==
    /\ alertRow' = [alertRow EXCEPT ![a].sev = s, ![a].aud = @ \cup auds, ![a].old = FALSE]
    /\ UNCHANGED <<userState, crossed>>
    /\ RaiseReturns(p, a, s, FALSE, s > alertRow[a].sev)

\* The open alert takes the repeat's severity; a worse one makes it unread for
\* everyone.  Its row is locked, so lookup and update are one step.
UpdateOpen(p, a, s, auds) ==
    /\ alertRow' = [alertRow EXCEPT ![a].sev = s, ![a].aud = @ \cup auds, ![a].old = FALSE]
    /\ userState' = IF s > alertRow[a].sev
                    THEN [u \in Users |-> [userState[u] EXCEPT ![a].read = FALSE]]
                    ELSE userState
    /\ crossed' = IF s > alertRow[a].sev THEN crossed \ (Users \X {a}) ELSE crossed
    /\ RaiseReturns(p, a, s, FALSE, s > alertRow[a].sev)

RaiseRepeat(p, k, s, auds) ==
    /\ raising[p].pc = "idle"
    /\ k # NoKey
    /\ \E a \in OpenFor(k) : UpdateOpen(p, a, s, auds)
    /\ calm' = calm \ {k}
    /\ UNCHANGED <<acting, reopened, seen>>

\* Mutant: the table has no unique index over the open alerts of a key.
OpenDedupeKeyMissing(k) == FALSE

\* The partial unique index on dedupe_key where resolved_at is null.
OpenDedupeKeyTaken(k) == k # NoKey /\ OpenFor(k) # {}

InsertRow(p, a) ==
    LET r == raising[p] IN
    /\ alertRow' = [alertRow EXCEPT ![a] =
           [state |-> "open", key |-> r.key, sev |-> r.sev, aud |-> r.aud, old |-> FALSE]]
    /\ RaiseReturns(p, a, r.sev, TRUE, FALSE)

RaiseInsert(p) ==
    /\ raising[p].pc = "insert"
    /\ ~OpenDedupeKeyTaken(raising[p].key)
    /\ \E a \in FreeIds : (\A b \in FreeIds : a <= b) /\ InsertRow(p, a)
    /\ UNCHANGED <<userState, acting, calm, reopened, seen, crossed>>

\* The loser of the race looks up again, once, and then finds the winner's row
\* (or, when that was resolved meanwhile, inserts after all).
RaiseRetries(p) ==
    LET r == raising[p] IN
    /\ r.pc = "insert"
    /\ OpenDedupeKeyTaken(r.key)
    /\ r.tries = 1
    /\ raising' = [raising EXCEPT ![p].pc = "again", ![p].tries = 2]
    /\ UNCHANGED <<alertRow, userState, acting, calm, reopened, seen, crossed>>

RaiseAgain(p) ==
    LET r == raising[p] IN
    /\ r.pc = "again"
    /\ \/ /\ OpenFor(r.key) = {}
          /\ raising' = [raising EXCEPT ![p].pc = "insert"]
          /\ UNCHANGED <<alertRow, userState, crossed>>
       \/ \E a \in OpenFor(r.key) : UpdateOpen(p, a, r.sev, r.aud)
    /\ UNCHANGED <<acting, calm, reopened, seen>>

\* "lost the dedupe race twice": the caller gets an error.
RaiseLosesTwice(p) ==
    /\ raising[p].pc = "insert"
    /\ OpenDedupeKeyTaken(raising[p].key)
    /\ raising[p].tries = 2
    /\ raising' = [raising EXCEPT ![p] = NotRaising]
    /\ UNCHANGED <<alertRow, userState, acting, calm, reopened, seen, crossed>>

CloseAll(closing) ==
    alertRow' = [a \in AlertIds |->
        IF a \in closing THEN [alertRow[a] EXCEPT !.state = "cleared"] ELSE alertRow[a]]

NotInFlight(k) == \A p \in Producers : raising[p].pc \in {"insert", "again"} => raising[p].key # k

\* The condition cleared: its open alert is closed.
ResolveCondition(k) ==
    /\ OpenFor(k) # {}
    /\ CloseAll(OpenFor(k))
    /\ calm' = calm \cup {x \in {k} : NotInFlight(x)}
    /\ UNCHANGED <<userState, raising, acting, reopened, seen, crossed>>

\* A producer with one alert per thing closes all but those it still sees.
ResolveConditionsExcept(keep) ==
    /\ \E k \in Keys \ keep : OpenFor(k) # {}
    /\ CloseAll(UNION {OpenFor(k) : k \in Keys \ keep})
    /\ calm' = calm \cup {k \in Keys \ keep : NotInFlight(k)}
    /\ UNCHANGED <<userState, raising, acting, reopened, seen, crossed>>

-----------------------------------------------------------------------------
(* People.  A request names one alert, or a selection worked through one   *)
(* by one, and changes each in three statements: the change, its audit     *)
(* record and, when that fails, the change's undo.                         *)

Kinds == {"read", "unread", "dismiss", "resolve"}

\* GET /alerts: the person sees what is visible to them, as it is now.
HandleAlerts(v) ==
    /\ seen' = [seen EXCEPT ![v] =
           [a \in AlertIds |-> IF FindVisible(v, a) THEN alertRow[a].sev ELSE @[a]]]
    /\ seen' # seen
    /\ UNCHANGED <<alertRow, userState, raising, acting, calm, reopened, crossed>>

\* The alerts some page of the person's has shown, at that time or before.
Shown(v) == {a \in AlertIds : seen[v][a] > 0}

Asks(v, kind, pc, chosen) ==
    /\ acting[v].pc = "idle"
    /\ acting' = [acting EXCEPT ![v] = [NotActing EXCEPT !.pc = pc, !.kind = kind, !.todo = chosen]]
    /\ UNCHANGED <<alertRow, userState, raising, calm, reopened, seen, crossed>>

\* POST /alerts/{id}/read, /unread, /dismiss and /resolve.
HandleAlertAction(v, kind, a) == a \in Shown(v) /\ Asks(v, kind, "next", {a})

\* POST /alerts/bulk.
HandleAlertsBulk(v, kind, chosen) ==
    /\ kind # "resolve"
    /\ chosen \subseteq Shown(v) /\ Cardinality(chosen) > 1
    /\ Asks(v, kind, "next", chosen)

\* POST /alerts/mark-all-read; it does nothing for the SuperAdmin.
HandleAlertsMarkAllRead(u) == u \in Users /\ Asks(u, "read", "all", {})

\* The alert is looked up as the actor sees it.  One that is not visible is
\* skipped; the SuperAdmin has no state of its own to change; resolving asks
\* for the right to.
Visible(v, a) ==
    LET op == acting[v]
        goes == /\ FindVisible(v, a)
                /\ IF op.kind = "resolve" THEN MayResolve(v, a) ELSE v # SuperAdmin
    IN
    /\ op.pc = "next"
    /\ a \in op.todo
    /\ acting' = [acting EXCEPT ![v] =
           IF goes THEN [op EXCEPT !.pc = "apply", !.todo = @ \ {a}, !.ids = {a}]
           ELSE IF op.todo = {a} THEN NotActing ELSE [op EXCEPT !.todo = @ \ {a}]]
    /\ UNCHANGED <<alertRow, userState, raising, calm, reopened, seen, crossed>>

Mark(m, kind) ==
    [read      |-> kind = "read" \/ (kind # "unread" /\ m.read),
     dismissed |-> kind = "dismiss" \/ (kind # "restore" /\ m.dismissed)]

\* One statement on v's marks of the alerts ids: "read", "unread", "dismiss",
\* or "restore" of a dismissal.
WriteMarks(v, kind, ids) ==
    /\ userState' = [userState EXCEPT ![v] =
           [a \in AlertIds |-> IF a \in ids THEN Mark(@[a], kind) ELSE @[a]]]
    /\ crossed' = IF kind # "read" THEN {x \in crossed : userState'[x[1]][x[2]].read}
                  ELSE crossed \cup {<<v, a>> : a \in {b \in ids : seen[v][b] < alertRow[b].sev}}

\* MarkAllRead finds and marks what is unread in one statement, shown or not.
MarkAllRead(u) ==
    LET ids == UnreadAlerts(u) IN
    /\ acting[u].pc = "all"
    /\ WriteMarks(u, "read", ids)
    /\ acting' = [acting EXCEPT ![u] =
           IF ids = {} THEN NotActing ELSE [@ EXCEPT !.pc = "audit", !.ids = ids]]
    /\ UNCHANGED <<alertRow, raising, calm, reopened, seen>>

Finished(op) == IF op.todo = {} THEN NotActing ELSE [op EXCEPT !.pc = "next", !.ids = {}]

\* Whether the change changes anything: MarkRead, MarkUnread, Dismiss and
\* ResolveByUser each answer false otherwise, and nothing is audited.
Changes(v, kind, a) ==
    CASE kind = "read"    -> Stored(a) /\ ~userState[v][a].read
      [] kind = "unread"  -> Stored(a) /\ userState[v][a].read
      [] kind = "dismiss" -> Stored(a) /\ ~userState[v][a].dismissed
      [] kind = "resolve" -> IsOpen(a)

\* The mark of an alert deleted meanwhile breaks the foreign key, and that
\* error ends the request, what is left of a selection included.
Dangling(kind, a) == kind \in {"read", "dismiss"} /\ ~Stored(a)

Apply(v, a) ==
    LET op == acting[v] IN
    /\ op.pc = "apply"
    /\ a \in op.ids
    /\ acting' = [acting EXCEPT ![v] =
           IF Changes(v, op.kind, a) THEN [op EXCEPT !.pc = "audit"]
           ELSE IF Dangling(op.kind, a) THEN NotActing ELSE Finished(op)]
    /\ IF op.kind = "resolve"
       THEN /\ alertRow' = IF IsOpen(a) THEN [alertRow EXCEPT ![a].state = "user"] ELSE alertRow
            /\ UNCHANGED <<userState, crossed>>
       ELSE /\ WriteMarks(v, op.kind, {b \in {a} : Changes(v, op.kind, b)})
            /\ UNCHANGED alertRow
    /\ UNCHANGED <<raising, calm, reopened, seen>>

\* A lookup or a statement fails: the request ends with an error.
RequestFails(v) ==
    /\ acting[v].pc \in {"next", "apply", "all"}
    /\ acting' = [acting EXCEPT ![v] = NotActing]
    /\ UNCHANGED <<alertRow, userState, raising, calm, reopened, seen, crossed>>

AuditWritten(v) ==
    /\ acting[v].pc = "audit"
    /\ acting' = [acting EXCEPT ![v] = Finished(acting[v])]
    /\ UNCHANGED <<alertRow, userState, raising, calm, reopened, seen, crossed>>

AuditFails(v) ==
    /\ acting[v].pc = "audit"
    /\ acting' = [acting EXCEPT ![v].pc = "revert"]
    /\ UNCHANGED <<alertRow, userState, raising, calm, reopened, seen, crossed>>

\* Reopen is refused by the unique index when the condition was raised anew.
Reopen(a) ==
    LET ok == Stored(a) /\ ~OpenDedupeKeyTaken(alertRow[a].key) IN
    /\ alertRow' = IF ok THEN [alertRow EXCEPT ![a].state = "open"] ELSE alertRow
    /\ reopened' = IF ok THEN reopened \cup {a} ELSE reopened

\* What undoes a change of marks.
Opposite(kind) == CASE kind = "read" -> "unread" [] kind = "unread" -> "read" [] OTHER -> "restore"

\* Each undo is done, one alert after the other; the rest of a selection is not.
Undone(v, a) ==
    LET op == acting[v] IN
    acting' = [acting EXCEPT ![v] = IF op.ids = {a} THEN NotActing ELSE [op EXCEPT !.ids = @ \ {a}]]

\* The undo of an unaudited change of one alert.
Revert(v, a) ==
    LET op == acting[v] IN
    /\ op.pc = "revert"
    /\ a \in op.ids
    /\ Undone(v, a)
    /\ IF op.kind = "resolve"
       THEN Reopen(a) /\ UNCHANGED <<userState, crossed>>
       ELSE /\ WriteMarks(v, Opposite(op.kind), {b \in {a} : Stored(b)})
            /\ UNCHANGED <<alertRow, reopened>>
    /\ UNCHANGED <<raising, calm, seen>>

\* The undo itself fails: the unaudited change stays, and the error says so.
RevertFails(v, a) ==
    /\ acting[v].pc = "revert"
    /\ a \in acting[v].ids
    /\ Undone(v, a)
    /\ UNCHANGED <<alertRow, userState, raising, calm, reopened, seen, crossed>>

-----------------------------------------------------------------------------
(* Retention.                                                              *)

\* Time: months pass without the alert being raised again.
Ages(a) ==
    /\ Stored(a) /\ ~alertRow[a].old
    /\ alertRow' = [alertRow EXCEPT ![a].old = TRUE]
    /\ UNCHANGED <<userState, raising, acting, calm, reopened, seen, crossed>>

\* Every alert not raised within the retention period goes, open ones too,
\* with its audiences and per-user state.
ExpireOnce ==
    LET expired == {a \in AlertIds : Stored(a) /\ alertRow[a].old} IN
    /\ expired # {}
    /\ alertRow' = [a \in AlertIds |->
           IF a \in expired THEN [NoRow EXCEPT !.state = "gone"] ELSE alertRow[a]]
    /\ userState' = [u \in Users |->
           [a \in AlertIds |-> IF a \in expired THEN Fresh ELSE userState[u][a]]]
    /\ UNCHANGED <<raising, acting, calm, reopened, seen, crossed>>

-----------------------------------------------------------------------------
\* Calls from outside begin ...
ProducerCalls ==
    \/ \E p \in Producers, k \in Keys \cup {NoKey}, s \in Severities, auds \in AudienceSets :
          Raise(p, k, s, auds) \/ RaiseRepeat(p, k, s, auds)
    \/ \E k \in Keys : ResolveCondition(k)
    \/ \E keep \in SUBSET Keys : ResolveConditionsExcept(keep)

Requests ==
    \E v \in Actors :
        \/ \E kind \in Kinds : \/ \E a \in AlertIds : HandleAlertAction(v, kind, a)
                               \/ \E chosen \in SUBSET AlertIds : HandleAlertsBulk(v, kind, chosen)
        \/ HandleAlertsMarkAllRead(v)

\* ... and go on.
RaiseSteps ==
    \E p \in Producers : RaiseInsert(p) \/ RaiseRetries(p) \/ RaiseAgain(p) \/ RaiseLosesTwice(p)

RequestSteps ==
    \E v \in Actors :
        \/ \E a \in AlertIds : Visible(v, a) \/ Apply(v, a) \/ Revert(v, a) \/ RevertFails(v, a)
        \/ HandleAlerts(v) \/ MarkAllRead(v)
        \/ RequestFails(v) \/ AuditWritten(v) \/ AuditFails(v)

-----------------------------------------------------------------------------
(* PROPERTIES                                                              *)

AlertRows == [state : States, key : Keys \cup {NoKey}, sev : Severities, aud : SUBSET UNION AudienceSets, old : BOOLEAN]
Raises == [pc : {"idle", "insert", "again", "notify", "telling"}, key : Keys \cup {NoKey}, sev : Severities,
           aud : SUBSET UNION AudienceSets, tries : Nat, alert : AlertIds]
Actions == [pc : {"idle", "next", "all", "apply", "audit", "revert"}, kind : Kinds, todo : SUBSET AlertIds, ids : SUBSET AlertIds]

\* The state is of the types of the tables, the producers and the requests.
AlertTypes ==
    /\ alertRow \in [AlertIds -> AlertRows]
    /\ userState \in [Users -> [AlertIds -> [read : BOOLEAN, dismissed : BOOLEAN]]]
    /\ raising \in [Producers -> Raises]
    /\ acting \in [Actors -> Actions]
    /\ calm \subseteq Keys
    /\ reopened \subseteq AlertIds
    /\ seen \in [Actors -> [AlertIds -> Nat]]
    /\ crossed \subseteq Actors \X AlertIds

\* A dedupe key never has two open alerts, and a condition that was resolved
\* with no raise of it begun or under way since has none open, except one that
\* the undo of a person's unaudited resolution reopened meanwhile: Raise's
\* lookup, its insert and its retry, ResolveByDedupeKey and Reopen interleave.
OneOpenPerCondition ==
    \A k \in Keys : /\ Cardinality(OpenFor(k)) <= 1
                    /\ k \in calm => OpenFor(k) \subseteq reopened

\* Whoever has an alert marked read was shown its present severity or a worse
\* one, unless the mark was written over an escalation: a request, or the undo
\* of one, that was on its way while the alert got worse, or "mark all read"
\* reaching what no page had shown.  An escalation after the mark is written
\* takes it away, whatever other requests and undos are under way (raiseOnce,
\* userStateChange).
ReadWasSeen ==
    \A u \in Users, a \in AlertIds :
        userState[u][a].read => seen[u][a] >= alertRow[a].sev \/ <<u, a>> \in crossed

-----------------------------------------------------------------------------
(* CLAIMS OF THE SOURCE THAT THE CODE DOES NOT KEEP                        *)

\* The claim of SCHEMA.md, "A repeat at a higher severity also makes the alert
\* unread again for everyone", read as it matters to a person: an alert shown to
\* them, and worse now than shown, is not marked read (raiseOnce, MarkRead).
EscalatedIsUnread ==
    \A u \in Users, a \in AlertIds :
        userState[u][a].read => seen[u][a] = 0 \/ seen[u][a] >= alertRow[a].sev
=============================================================================
