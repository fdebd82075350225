-------------------------------- MODULE Email --------------------------------
(***************************************************************************)
(* Email about alerts: internal/email over the email_queue and             *)
(* email_digest_items tables, composed with the inbox of Alerts.  Raising  *)
(* an alert queues a message for everyone who wants it at once and puts it *)
(* on the waiting list of everyone who wants a digest; the scheduler's     *)
(* digest jobs turn waiting lists into messages; one worker delivers the   *)
(* queue through an SMTP relay, with a lease on what it claims, retries    *)
(* and a last day.  The server may die at any step.                        *)
(*                                                                         *)
(* Left out: the wording of messages, addresses and their validation, the  *)
(* backoff table (a retry is due some time later) and the relay's dialect  *)
(* (an attempt is accepted, refused for good, or fails for now, and it may *)
(* have been accepted although no answer came back).                       *)
(***************************************************************************)
EXTENDS Alerts, Sequences

CONSTANTS
    MaxMails,     \* BOUND: as many messages as are ever queued
    MaxAttempts,  \* attempts after which a failing message is given up on
    BatchSize,    \* messages one pass of the worker claims
    MaxUnsure,    \* BOUND: deliveries of a message the worker or queue misses
    MaxCrashes    \* BOUND: times the server dies

ASSUME EmailAssumption ==
    /\ MaxMails \in Nat \ {0}
    /\ MaxAttempts \in Nat \ {0}
    /\ BatchSize \in Nat \ {0}
    /\ MaxUnsure \in Nat
    /\ MaxCrashes \in Nat

VARIABLES
    emailOn,   \* email_settings.enabled
    prefs,     \* each user's delivery, lowest severity and address
    queue,     \* email_queue
    waiting,   \* email_digest_items: severity (0: no row) and age
    telling,   \* the recipients a raise has still to serve, per producer
    worker,    \* the delivery worker
    digester,  \* the two digest jobs: the users left, one user's digest
    choosing,  \* each person's change of preferences
    crashes,
    delivered, \* history: times the relay accepted each message
    unsure,    \* history: deliveries the worker or the queue never learnt of
    owed       \* history: severity of the news a user's digest has not told

emailVars == <<emailOn, prefs, queue, waiting, telling, worker, digester, choosing,
               crashes, delivered, unsure, owed>>

MailIds == 1..MaxMails

Digests == {"hourly", "daily"}
Deliveries == {"off", "immediate"} \cup Digests

NoMail == [status |-> "none", to |-> CHOOSE u \in Users : TRUE, attempts |-> 0,
           due |-> FALSE, old |-> FALSE]
NoItem == [sev |-> 0, old |-> FALSE]
Resting == [pc |-> "idle", batch |-> <<>>, outcome |-> "none"]
NotDigesting == [pc |-> "idle", users |-> {}, user |-> CHOOSE u \in Users : TRUE,
                 pref |-> [delivery |-> "off", min |-> 1, addr |-> FALSE], read |-> [a \in AlertIds |-> 0],
                 list |-> {}]
NotChoosing == [pc |-> "idle", delivery |-> "off", min |-> 1]

EmailInit ==
    /\ queue = [m \in MailIds |-> NoMail]
    /\ waiting = [u \in Users |-> [a \in AlertIds |-> NoItem]]
    /\ telling = [p \in Producers |-> {}]
    /\ worker = Resting
    /\ digester = [d \in Digests |-> NotDigesting]
    /\ choosing = [u \in Users |-> NotChoosing]
    /\ crashes = 0
    /\ delivered = [m \in MailIds |-> 0]
    /\ unsure = [m \in MailIds |-> 0]
    /\ owed = [u \in Users |-> [a \in AlertIds |-> 0]]

-----------------------------------------------------------------------------
(* The queue.                                                              *)

Pending(m) == queue[m].status = "pending"

Unused == {m \in MailIds : queue[m].status = "none"}

\* A message is queued due at once, in the order of ids.
Enqueue(u) ==
    LET m == CHOOSE x \in Unused : \A y \in Unused : x <= y
    IN queue' = [queue EXCEPT ![m] =
           [status |-> "pending", to |-> u, attempts |-> 0, due |-> TRUE, old |-> FALSE]]

\* Time: a lease or a backoff runs out.
Due(m) ==
    /\ Pending(m) /\ ~queue[m].due
    /\ queue' = [queue EXCEPT ![m].due = TRUE]
    /\ UNCHANGED <<alertVars, emailOn, prefs, waiting, telling, worker, digester, choosing, crashes, delivered, unsure, owed>>

\* Time: a pending message gets a day old, a finished one a month.
MailAges(m) ==
    /\ queue[m].status \in {"pending", "sent", "failed"} /\ ~queue[m].old
    /\ queue' = [queue EXCEPT ![m].old = TRUE]
    /\ UNCHANGED <<alertVars, emailOn, prefs, waiting, telling, worker, digester, choosing, crashes, delivered, unsure, owed>>

\* The hourly purge removes finished messages past their retention.
DeleteOlderThan ==
    LET finished == {m \in MailIds : queue[m].status \in {"sent", "failed"} /\ queue[m].old} IN
    /\ finished # {}
    /\ queue' = [m \in MailIds |-> IF m \in finished THEN [NoMail EXCEPT !.status = "gone"] ELSE queue[m]]
    /\ UNCHANGED <<alertVars, emailOn, prefs, waiting, telling, worker, digester, choosing, crashes, delivered, unsure, owed>>

-----------------------------------------------------------------------------
(* The worker.                                                             *)

\* Mutant: only what was attempted is given up on.
FailAttemptedOlderThan(q) ==
    [m \in MailIds |-> IF q[m].status = "pending" /\ q[m].old /\ q[m].attempts > 0
                       THEN [q[m] EXCEPT !.status = "failed", !.old = FALSE] ELSE q[m]]

FailOlderThan(q) ==
    [m \in MailIds |-> IF q[m].status = "pending" /\ q[m].old
                       THEN [q[m] EXCEPT !.status = "failed", !.old = FALSE] ELSE q[m]]

\* A pass reads the settings and gives up on what is a day old, even while
\* email is off; then it claims only if email was on.
ProcessOnce ==
    /\ worker.pc = "idle"
    /\ queue' = FailOlderThan(queue)
    /\ worker' = [worker EXCEPT !.pc = IF emailOn THEN "claim" ELSE "idle"]
    /\ UNCHANGED <<alertVars, emailOn, prefs, waiting, telling, digester, choosing, crashes, delivered, unsure, owed>>

\* The first BatchSize due messages in id order.
Oldest(S) == {m \in S : Cardinality({x \in S : x < m}) < BatchSize}
InOrder(S) == [i \in 1..Cardinality(S) |-> CHOOSE m \in S : Cardinality({x \in S : x < m}) = i - 1]

\* Claim counts an attempt and leases each message.
Claim ==
    LET batch == Oldest({m \in MailIds : Pending(m) /\ queue[m].due}) IN
    /\ worker.pc = "claim"
    /\ queue' = [m \in MailIds |->
           IF m \in batch THEN [queue[m] EXCEPT !.attempts = @ + 1, !.due = FALSE] ELSE queue[m]]
    /\ worker' = [Resting EXCEPT !.pc = IF batch = {} THEN "idle" ELSE "send", !.batch = InOrder(batch)]
    /\ UNCHANGED <<alertVars, emailOn, prefs, waiting, telling, digester, choosing, crashes, delivered, unsure, owed>>

Outcomes == {"accepted", "refused", "failing", "unheard"}

\* One attempt: the relay accepts, refuses for good, or it fails for now.  A
\* connection that breaks after the end of the message, before the relay's
\* answer, is an error like any other: unheard, although the relay has it.
Send(outcome) ==
    LET m == Head(worker.batch) IN
    /\ worker.pc = "send"
    /\ outcome = "unheard" => unsure[m] < MaxUnsure
    /\ worker' = [worker EXCEPT !.pc = "mark", !.outcome = outcome]
    /\ delivered' = IF outcome \in {"accepted", "unheard"} THEN [delivered EXCEPT ![m] = @ + 1] ELSE delivered
    /\ unsure' = IF outcome = "unheard" THEN [unsure EXCEPT ![m] = @ + 1] ELSE unsure
    /\ UNCHANGED <<alertVars, emailOn, prefs, queue, waiting, telling, digester, choosing, crashes, owed>>

NextInBatch == [worker EXCEPT !.batch = Tail(@), !.outcome = "none",
                              !.pc = IF Len(worker.batch) = 1 THEN "idle" ELSE "send"]

\* Mutant: a delivered message is put back like one that failed for now.
MarkedForgetsDelivery(m, outcome) ==
    IF outcome = "refused" THEN [queue[m] EXCEPT !.status = "failed"] ELSE queue[m]

\* MarkSent; MarkFailed for a refusal and for the last attempt; MarkRetry
\* otherwise, due again after the backoff.
Marked(m, outcome) ==
    CASE outcome = "accepted" -> [queue[m] EXCEPT !.status = "sent", !.old = FALSE]
      [] outcome = "refused" \/ (outcome # "accepted" /\ queue[m].attempts >= MaxAttempts)
            -> [queue[m] EXCEPT !.status = "failed", !.old = FALSE]
      [] OTHER -> queue[m]

\* deliver records the outcome of the attempt.
Deliver ==
    LET m == Head(worker.batch) IN
    /\ worker.pc = "mark"
    /\ queue' = [queue EXCEPT ![m] = Marked(m, worker.outcome)]
    /\ worker' = NextInBatch
    /\ UNCHANGED <<alertVars, emailOn, prefs, waiting, telling, digester, choosing, crashes, delivered, unsure, owed>>

LostRecord(m) ==
    unsure' = IF worker.outcome = "accepted" THEN [unsure EXCEPT ![m] = @ + 1] ELSE unsure

\* The outcome cannot be written: logged, and the lease decides, even after
\* the last attempt.  (BOUND: but not after one attempt more.)
DeliverUnrecorded ==
    LET m == Head(worker.batch) IN
    /\ worker.pc = "mark"
    /\ queue[m].attempts <= MaxAttempts
    /\ worker.outcome = "accepted" => unsure[m] < MaxUnsure
    /\ LostRecord(m)
    /\ worker' = NextInBatch
    /\ UNCHANGED <<alertVars, emailOn, prefs, queue, waiting, telling, digester, choosing, crashes, delivered, owed>>

-----------------------------------------------------------------------------
(* Telling people about an alert.                                          *)

\* Everyone the alert is addressed to now who has an address and wants this
\* severity by email.
RecipientsForAlert(a, sev) ==
    {u \in Users : /\ prefs[u].addr
                   /\ prefs[u].delivery # "off"
                   /\ prefs[u].min <= sev
                   /\ \E x \in alertRow[a].aud : AddressedTo(u, x)}

\* AlertRaised decides who hears of it, with the severity Raise returned and the
\* deliveries read now.
AlertRaised(p) ==
    LET r == raising[p]
        rcpts == IF emailOn THEN RecipientsForAlert(r.alert, r.sev) ELSE {}
    IN
    /\ raising[p].pc = "notify"
    /\ telling' = [telling EXCEPT ![p] = {<<u, prefs[u].delivery, r.sev>> : u \in rcpts}]
    /\ raising' = [raising EXCEPT ![p] = IF rcpts = {} THEN NotRaising ELSE [@ EXCEPT !.pc = "telling"]]
    /\ UNCHANGED <<alertRow, userState, acting, calm, reopened, seen, crossed>>
    /\ UNCHANGED <<emailOn, prefs, queue, waiting, worker, digester, choosing, crashes, delivered, unsure, owed>>

ToldOne(p, r) ==
    /\ telling' = [telling EXCEPT ![p] = @ \ {r}]
    /\ raising' = [raising EXCEPT ![p] = IF telling[p] = {r} THEN NotRaising ELSE @]
    /\ UNCHANGED <<alertRow, userState, acting, calm, reopened, seen, crossed>>

Worse(x, y) == IF x > y THEN x ELSE y

\* A repeat at a higher severity updates the waiting row and keeps its age.
AddDigestItem(u, a, sev) ==
    /\ waiting' = [waiting EXCEPT ![u][a].sev = Worse(@, sev)]
    /\ owed' = [owed EXCEPT ![u][a] = Worse(@, sev)]

TellOne(p) ==
    \E r \in telling[p] :
        /\ raising[p].pc = "telling"
        /\ ToldOne(p, r)
        /\ IF r[2] = "immediate"
           THEN /\ Unused # {}
                /\ Enqueue(r[1])
                /\ UNCHANGED <<waiting, owed>>
           ELSE /\ IF Stored(raising[p].alert)
                   THEN AddDigestItem(r[1], raising[p].alert, r[3])
                   ELSE UNCHANGED <<waiting, owed>>
                /\ UNCHANGED queue
        /\ UNCHANGED <<emailOn, prefs, worker, digester, choosing, crashes, delivered, unsure>>

\* A recipient that cannot be written, or the ten seconds run out: logged.
TellFails(p) ==
    \E r \in telling[p] :
        /\ raising[p].pc = "telling"
        /\ ToldOne(p, r)
        /\ UNCHANGED <<emailOn, prefs, queue, waiting, worker, digester, choosing, crashes, delivered, unsure, owed>>

-----------------------------------------------------------------------------
(* Preferences and settings.                                               *)

\* Off and immediate drop what waits for a digest.
SetPreferences(u, d, min) ==
    /\ prefs' = [prefs EXCEPT ![u].delivery = d, ![u].min = min]
    /\ IF d \in Digests THEN UNCHANGED <<waiting, owed>>
       ELSE /\ waiting' = [waiting EXCEPT ![u] = [a \in AlertIds |-> NoItem]]
            /\ owed' = [owed EXCEPT ![u] = [a \in AlertIds |-> 0]]

\* A new choice is written, the old one remembered.
SetMyPreferences(u, d, min) ==
    /\ choosing[u].pc = "idle"
    /\ <<prefs[u].delivery, prefs[u].min>> # <<d, min>>
    /\ SetPreferences(u, d, min)
    /\ choosing' = [choosing EXCEPT ![u] = [pc |-> "audit", delivery |-> prefs[u].delivery, min |-> prefs[u].min]]
    /\ UNCHANGED <<alertVars, emailOn, queue, telling, worker, digester, crashes, delivered, unsure>>

\* The audit record is written; or neither it nor the undo is, and the choice
\* stays all the same.
SetMyPreferencesEnds(u) ==
    /\ choosing[u].pc = "audit"
    /\ choosing' = [choosing EXCEPT ![u] = NotChoosing]
    /\ UNCHANGED <<alertVars, emailOn, prefs, queue, waiting, telling, worker, digester, crashes, delivered, unsure, owed>>

\* The audit record fails: the old choice is put back, what was dropped is not,
\* and what came meanwhile goes if the old choice was no digest.
SetMyPreferencesUndone(u) ==
    /\ choosing[u].pc = "audit"
    /\ SetPreferences(u, choosing[u].delivery, choosing[u].min)
    /\ choosing' = [choosing EXCEPT ![u] = NotChoosing]
    /\ UNCHANGED <<alertVars, emailOn, queue, telling, worker, digester, crashes, delivered, unsure>>

SwitchEmail ==
    /\ emailOn' = ~emailOn
    /\ UNCHANGED <<alertVars, prefs, queue, waiting, telling, worker, digester, choosing, crashes, delivered, unsure, owed>>

-----------------------------------------------------------------------------
(* Digests.                                                                *)

\* Time: an item has waited two days.
ItemAges(u, a) ==
    /\ waiting[u][a].sev > 0 /\ ~waiting[u][a].old
    /\ waiting' = [waiting EXCEPT ![u][a].old = TRUE]
    /\ UNCHANGED <<alertVars, emailOn, prefs, queue, telling, worker, digester, choosing, crashes, delivered, unsure, owed>>

Waits(w, u, a) == w[u][a].sev > 0

Digester(mode, d) == digester' = [digester EXCEPT ![mode] = d]

\* The hourly and the daily job run beside each other.  Each begins only when
\* email is on ...
RunDigest(mode) ==
    /\ digester[mode].pc = "idle"
    /\ emailOn
    /\ Digester(mode, [NotDigesting EXCEPT !.pc = "drop"])
    /\ UNCHANGED <<alertVars, emailOn, prefs, queue, waiting, telling, worker, choosing, crashes, delivered, unsure, owed>>

\* ... drops what waited too long, for everyone and both digests ...
DeleteDigestItemsOlderThan(mode) ==
    /\ digester[mode].pc = "drop"
    /\ waiting' = [u \in Users |-> [a \in AlertIds |-> IF waiting[u][a].old THEN NoItem ELSE waiting[u][a]]]
    /\ owed' = [u \in Users |-> [a \in AlertIds |-> IF waiting[u][a].old THEN 0 ELSE owed[u][a]]]
    /\ Digester(mode, [NotDigesting EXCEPT !.pc = "list"])
    /\ UNCHANGED <<alertVars, emailOn, prefs, queue, telling, worker, choosing, crashes, delivered, unsure>>

\* (a failure to is logged)
DropFails(mode) ==
    /\ digester[mode].pc = "drop"
    /\ Digester(mode, [NotDigesting EXCEPT !.pc = "list"])
    /\ UNCHANGED <<alertVars, emailOn, prefs, queue, waiting, telling, worker, choosing, crashes, delivered, unsure, owed>>

\* ... and lists who has items and prefers this digest; if it cannot, it ends.
UsersWithDigestItems(mode) ==
    LET users == {u \in Users : prefs[u].delivery = mode /\ \E a \in AlertIds : Waits(waiting, u, a)} IN
    /\ digester[mode].pc = "list"
    /\ \E us \in {users, {}} :
          Digester(mode, [NotDigesting EXCEPT !.pc = IF us = {} THEN "idle" ELSE "user", !.users = us])
    /\ UNCHANGED <<alertVars, emailOn, prefs, queue, waiting, telling, worker, choosing, crashes, delivered, unsure, owed>>

\* digestFor, one person: their preference is read ...
DigestGet(mode, u) ==
    /\ digester[mode].pc = "user"
    /\ u \in digester[mode].users
    /\ Digester(mode, [digester[mode] EXCEPT !.pc = "pending", !.users = @ \ {u}, !.user = u, !.pref = prefs[u]])
    /\ UNCHANGED <<alertVars, emailOn, prefs, queue, waiting, telling, worker, choosing, crashes, delivered, unsure, owed>>

\* ... then what waits: the open, undismissed items they want are listed.
PendingDigest(mode) ==
    LET d == digester[mode]
        u == d.user
        wanted(a) == /\ IsOpen(a) /\ ~userState[u][a].dismissed
                     /\ waiting[u][a].sev >= d.pref.min
        list == {a \in AlertIds : Waits(waiting, u, a) /\ wanted(a)}
        sends == d.pref.addr /\ d.pref.delivery = mode /\ list # {}
    IN
    /\ d.pc = "pending"
    /\ Digester(mode, [d EXCEPT !.pc = IF sends THEN "queue" ELSE "clear",
                        !.read = [a \in AlertIds |-> waiting[u][a].sev],
                        !.list = IF sends THEN list ELSE {}])
    /\ UNCHANGED <<alertVars, emailOn, prefs, queue, waiting, telling, worker, choosing, crashes, delivered, unsure, owed>>

\* The message is queued before the items go ...
QueueDigest(mode) ==
    LET d == digester[mode] IN
    /\ d.pc = "queue"
    /\ Unused # {}
    /\ Enqueue(d.user)
    /\ Digester(mode, [d EXCEPT !.pc = "clear"])
    /\ owed' = [owed EXCEPT ![d.user] = [a \in AlertIds |->
           IF a \in d.list /\ @[a] <= d.read[a] THEN 0 ELSE @[a]]]
    /\ UNCHANGED <<alertVars, emailOn, prefs, waiting, telling, worker, choosing, crashes, delivered, unsure>>

NextUser(mode) ==
    Digester(mode, [digester[mode] EXCEPT !.pc = IF digester[mode].users = {} THEN "idle" ELSE "user"])

\* ... and if it cannot be, or nothing can be read, they wait for the next
\* digest.
QueueDigestFails(mode) ==
    /\ digester[mode].pc \in {"pending", "queue"}
    /\ NextUser(mode)
    /\ UNCHANGED <<alertVars, emailOn, prefs, queue, waiting, telling, worker, choosing, crashes, delivered, unsure, owed>>

\* Mutant: everything the user has waiting goes, whatever the digest read.
DeleteAllDigestItems(mode, u) == {a \in AlertIds : waiting[u][a].sev > 0}

\* The items named are those the digest read, whatever became of them since.
DeleteDigestItems(mode, u) == {a \in AlertIds : digester[mode].read[a] > 0}

\* News the digest left out on purpose is settled as well: an alert that was
\* closed or dismissed when it was read, or not wanted.
ClearDigest(mode) ==
    LET d == digester[mode]
        ids == DeleteDigestItems(mode, d.user)
    IN
    /\ d.pc = "clear"
    /\ waiting' = [waiting EXCEPT ![d.user] = [a \in AlertIds |-> IF a \in ids THEN NoItem ELSE @[a]]]
    /\ owed' = [owed EXCEPT ![d.user] = [a \in AlertIds |-> IF @[a] <= d.read[a] THEN 0 ELSE @[a]]]
    /\ NextUser(mode)
    /\ UNCHANGED <<alertVars, emailOn, prefs, queue, telling, worker, choosing, crashes, delivered, unsure>>

\* The delete fails: logged, and the next digest repeats the items.
ClearDigestFails(mode) ==
    /\ digester[mode].pc = "clear"
    /\ NextUser(mode)
    /\ UNCHANGED <<alertVars, emailOn, prefs, queue, waiting, telling, worker, choosing, crashes, delivered, unsure, owed>>

-----------------------------------------------------------------------------
(* Faults.                                                                 *)

\* The server dies: the worker's batch stays leased, a digest stays half done,
\* raises and their notices end where they are.
Crash ==
    /\ crashes < MaxCrashes
    /\ crashes' = crashes + 1
    /\ worker' = Resting
    /\ IF worker.pc = "mark" THEN LostRecord(Head(worker.batch)) ELSE UNCHANGED unsure
    /\ digester' = [d \in Digests |-> NotDigesting]
    /\ choosing' = [u \in Users |-> NotChoosing]
    /\ telling' = [p \in Producers |-> {}]
    /\ raising' = [p \in Producers |-> NotRaising]
    /\ acting' = [v \in Actors |-> NotActing]
    /\ UNCHANGED <<alertRow, userState, calm, reopened, seen, crossed>>
    /\ UNCHANGED <<emailOn, prefs, queue, waiting, delivered, owed>>

\* Alerts past their retention take their waiting digest items along.
ExpireAlerts ==
    /\ ExpireOnce
    /\ waiting' = [u \in Users |-> [a \in AlertIds |-> IF alertRow[a].old THEN NoItem ELSE waiting[u][a]]]
    /\ owed' = [u \in Users |-> [a \in AlertIds |-> IF alertRow[a].old THEN 0 ELSE owed[u][a]]]
    /\ UNCHANGED <<emailOn, prefs, queue, telling, worker, digester, choosing, crashes, delivered, unsure>>

-----------------------------------------------------------------------------
Work ==
    \/ ProcessOnce \/ Claim \/ Deliver \/ DeliverUnrecorded
    \/ \E o \in Outcomes : Send(o)

Digest ==
    \E mode \in Digests :
        \/ RunDigest(mode) \/ DeleteDigestItemsOlderThan(mode) \/ DropFails(mode)
        \/ UsersWithDigestItems(mode)
        \/ \E u \in Users : DigestGet(mode, u)
        \/ PendingDigest(mode) \/ QueueDigest(mode) \/ QueueDigestFails(mode)
        \/ ClearDigest(mode) \/ ClearDigestFails(mode)

Choose ==
    \E u \in Users :
        \/ \E d \in Deliveries, s \in Severities : SetMyPreferences(u, d, s)
        \/ SetMyPreferencesEnds(u) \/ SetMyPreferencesUndone(u)

Tell == \E p \in Producers : AlertRaised(p) \/ TellOne(p) \/ TellFails(p)

\* The worker ticks every ten seconds for as long as the server runs, each
\* send is bounded by a timeout, and time passes.
Delivers ==
    /\ WF_emailVars(ProcessOnce)
    /\ WF_emailVars(Claim)
    /\ WF_emailVars(\E o \in Outcomes : Send(o))
    /\ WF_emailVars(Deliver \/ DeliverUnrecorded)
    /\ \A m \in MailIds : WF_emailVars(Due(m)) /\ WF_emailVars(MailAges(m))

Preferences == [delivery : Deliveries, min : Severities, addr : BOOLEAN]

InboxMoves == ProducerCalls \/ Requests \/ RaiseSteps \/ RequestSteps \/ \E a \in AlertIds : Ages(a)

EmailNext ==
    \/ InboxMoves /\ UNCHANGED emailVars
    \/ Tell \/ Work \/ Digest \/ Choose \/ SwitchEmail \/ Crash \/ DeleteOlderThan \/ ExpireAlerts
    \/ \E m \in MailIds : Due(m) \/ MailAges(m)
    \/ \E u \in Users, a \in AlertIds : ItemAges(u, a)

EmailSpec ==
    /\ Init /\ EmailInit
    /\ emailOn \in BOOLEAN /\ prefs \in [Users -> Preferences]
    /\ [][EmailNext]_<<alertVars, emailVars>>

-----------------------------------------------------------------------------
(* PROPERTIES                                                              *)

Mails == [status : {"none", "pending", "sent", "failed", "gone"}, to : Users \cup {NoMail.to}, attempts : Nat,
          due : BOOLEAN, old : BOOLEAN]
Workers == [pc : {"idle", "claim", "send", "mark"}, batch : Seq(MailIds), outcome : {"none"} \cup Outcomes]
Items == [sev : Nat, old : BOOLEAN]
Digesters == [pc : {"idle", "drop", "list", "user", "pending", "queue", "clear"}, users : SUBSET Users,
              user : Users \cup {NotDigesting.user}, pref : Preferences, read : [AlertIds -> Nat], list : SUBSET AlertIds]
Choices == [pc : {"idle", "audit"}, delivery : Deliveries, min : Severities]

QueueTypes ==
    /\ queue \in [MailIds -> Mails]
    /\ worker \in Workers
    /\ delivered \in [MailIds -> Nat]
    /\ unsure \in [MailIds -> Nat]

NewsTypes ==
    /\ emailOn \in BOOLEAN
    /\ prefs \in [Users -> Preferences]
    /\ waiting \in [Users -> [AlertIds -> Items]]
    /\ telling \in [Producers -> SUBSET (Users \X Deliveries \X Severities)]
    /\ digester \in [Digests -> Digesters]
    /\ choosing \in [Users -> Choices]
    /\ crashes \in Nat
    /\ owed \in [Users -> [AlertIds -> Nat]]

\* The state is of the types of the tables, the worker and the digest jobs.
EmailTypes == QueueTypes /\ NewsTypes

\* The relay gets a message again only after a delivery the queue does not know
\* of: the relay's answer was lost, the record of it could not be written or the
\* server died before it.  Claims, leases, retries, restarts and purges never
\* repeat a recorded delivery (Claim, deliver, MarkSent).
MailSentOnce == \A m \in MailIds : delivered[m] <= 1 + unsure[m]

\* Every queued message ends as sent or given up on, with email on or off, a
\* relay that fails and servers that die in the middle of a batch.
MailSettles == \A m \in MailIds : Pending(m) ~> ~Pending(m)

NewsLost(u, a) == owed[u][a] > waiting[u][a].sev

\* News put on a digest's waiting list stays there until a digest told it or
\* the rules dropped it, unless it came in, as a repeat of a waiting item, after
\* the digest under way had read that item (digestFor, DeleteDigestItems).
DigestNewsKept ==
    [][\A u \in Users, a \in AlertIds :
          NewsLost(u, a)' => \/ NewsLost(u, a)
                             \/ \E mode \in Digests :
                                   /\ digester[mode].pc = "clear" /\ digester[mode].user = u
                                   /\ digester[mode].read[a] \in 1..(owed[u][a] - 1)]_emailVars
=============================================================================
