------------------------------ MODULE Sessions ------------------------------
(***************************************************************************)
(* Signing in and staying in: the login limiter and the setup gate, the    *)
(* AD, local and break-glass logins, the signed session cookie, and        *)
(* RequireSession with its recheck of the AD access group.  A session is   *)
(* only its cookie: the server keeps none, and a browser's requests travel *)
(* side by side, each with the cookie of the moment it was sent; a cookie  *)
(* it is given travels with the response.  Every call to the directory or  *)
(* the database is a step, which may fail.                                 *)
(*                                                                         *)
(* Left out: passwords and signatures as such (a right password and a      *)
(* cookie the server signed), CSRF tokens, what an admitted request does,  *)
(* and the wait for the limiter's mutex after it has read the clock.       *)
(***************************************************************************)
EXTENDS Integers, FiniteSets, Sequences

CONSTANTS
    People,        \* browsers, each of one person
    Directory,     \* the people with an AD identity
    LocalOnly,     \* the people with a local-only account; others use break-glass
    Visits,        \* BOUND: requests under way at the same time
    Lifetime,      \* sessionDuration
    Interval,      \* authRecheckInterval
    Window,        \* the limiter's window ...
    MaxTries,      \* ... and attempts per window
    LastInstant    \* BOUND: on the clock

ASSUME SessionsAssumption ==
    /\ People # {} /\ Directory \subseteq People /\ LocalOnly \subseteq People \ Directory
    /\ {Lifetime, Interval, Window, MaxTries} \subseteq Nat \ {0}
    /\ LastInstant \in Nat

VARIABLES
    instant,
    credential,  \* the break-glass credential is set
    gate,        \* setupGate.complete
    group,       \* people in the AD access group
    outSince,    \* history: when someone last left it
    account,     \* users rows of AD people, with the cached DN
    jar,         \* each browser's session cookie
    visit,       \* logins and requests under way
    bucket,      \* loginRateLimiter.buckets ...
    lastSweep,   \* ... and when they were last swept
    tries        \* history: attempts let through per source, when and in which window

sessionVars == <<instant, credential, gate, group, outSince, account, jar, visit, bucket, lastSweep, tries>>

\* born and asked are history: when the login was, when the directory answered.
NoCookie == [kind |-> "none", exp |-> 0, verified |-> 0, asked |-> 0, born |-> 0]
NoVisit == [pc |-> "idle", who |-> CHOOSE p \in People : TRUE, dn |-> "moved", cookie |-> NoCookie, sets |-> FALSE,
            at |-> 0, asked |-> 0, held |-> FALSE]
NoBucket == [count |-> 0, start |-> 0]
DNs == {"norow", "nodn", "current", "moved"}

SessionsInit ==
    /\ instant = 0
    /\ credential \in BOOLEAN
    /\ gate = FALSE
    /\ group = Directory
    /\ outSince = [p \in People |-> 0]
    /\ account \in [Directory -> DNs]
    /\ jar = [p \in People |-> NoCookie]
    /\ visit = [v \in Visits |-> NoVisit]
    /\ bucket = [p \in People |-> NoBucket]
    /\ lastSweep = -Window
    /\ tries = [p \in People |-> <<>>]

-----------------------------------------------------------------------------
(* The world.                                                              *)

Clock ==
    /\ instant < LastInstant
    /\ instant' = instant + 1
    /\ UNCHANGED <<credential, gate, group, outSince, account, jar, visit, bucket, lastSweep, tries>>

\* sparky-server setup, in another terminal.
Setup ==
    /\ ~credential
    /\ credential' = TRUE
    /\ UNCHANGED <<instant, gate, group, outSince, account, jar, visit, bucket, lastSweep, tries>>

LeavesGroup(p) ==
    /\ p \in group
    /\ group' = group \ {p}
    /\ outSince' = [outSince EXCEPT ![p] = instant]
    /\ UNCHANGED <<instant, credential, gate, account, jar, visit, bucket, lastSweep, tries>>

JoinsGroup(p) ==
    /\ p \in Directory \ group
    /\ group' = group \cup {p}
    /\ UNCHANGED <<instant, credential, gate, outSince, account, jar, visit, bucket, lastSweep, tries>>

\* The person's directory entry is moved: a DN cached, or in the hands of a
\* request, names nobody.
Moves(p) ==
    /\ p \in Directory
    /\ account' = [account EXCEPT ![p] = IF @ = "current" THEN "moved" ELSE @]
    /\ visit' = [v \in Visits |-> IF visit[v].who = p THEN [visit[v] EXCEPT !.dn = "moved"] ELSE visit[v]]
    /\ UNCHANGED <<instant, credential, gate, group, outSince, jar, bucket, lastSweep, tries>>

-----------------------------------------------------------------------------
(* Logins.                                                                 *)

\* Until the credential has once been seen set, every request asks again.
SetupGate ==
    /\ gate \/ credential
    /\ gate' = TRUE

\* sweepLocked, on the way in and once per window, drops the buckets whose
\* window is over.
SweepDue == instant - lastSweep >= Window
SweepLocked == [p \in People |-> IF SweepDue /\ instant - bucket[p].start >= Window THEN NoBucket ELSE bucket[p]]

\* A fixed window from its first attempt.
WindowOver(b) == b = NoBucket \/ instant - b.start >= Window
Counted(b) == IF WindowOver(b) THEN [count |-> 1, start |-> instant] ELSE [count |-> b.count + 1, start |-> b.start]

\* Mutant: one attempt too many.
AdmitsOneMore(b) == WindowOver(b) \/ b.count <= MaxTries

\* loginRateLimiter.allow.
Admits(b) == WindowOver(b) \/ b.count < MaxTries

Allow(p) ==
    /\ Admits(SweepLocked[p])
    /\ bucket' = [SweepLocked EXCEPT ![p] = Counted(@)]
    /\ lastSweep' = IF SweepDue THEN instant ELSE lastSweep

\* The gate, then the limiter; the attempt may still be refused by whoever
\* checks the password.
HandleLogin(v, p) ==
    /\ visit[v] = NoVisit
    /\ SetupGate
    /\ Allow(p)
    /\ tries' = [tries EXCEPT ![p] = Append(@, [at |-> instant, window |-> bucket'[p].start])]
    /\ visit' = [visit EXCEPT ![v].pc = IF p \in Directory THEN "authenticate" ELSE "password", ![v].who = p]
    /\ UNCHANGED <<instant, credential, group, outSince, account, jar>>

LoginLimited(p) ==
    /\ SetupGate
    /\ ~Admits(SweepLocked[p])
    /\ bucket' = SweepLocked
    /\ lastSweep' = IF SweepDue THEN instant ELSE lastSweep
    /\ UNCHANGED <<instant, credential, group, outSince, account, jar, visit, tries>>

Ends(v) == visit' = [visit EXCEPT ![v] = NoVisit]

\* Anything along the way may fail: a wrong password, the directory or the
\* database out of reach, a cookie that cannot be signed.
LoginFails(v) ==
    /\ visit[v].pc \in {"authenticate", "password", "find", "create", "update", "sign"}
    /\ Ends(v)
    /\ UNCHANGED <<instant, credential, gate, group, outSince, account, jar, bucket, lastSweep, tries>>

\* Authenticate: the right password of someone in the access group.
Authenticate(v) ==
    LET p == visit[v].who IN
    /\ visit[v].pc = "authenticate"
    /\ p \in group
    /\ visit' = [visit EXCEPT ![v].pc = "find", ![v].dn = "current", ![v].asked = instant]
    /\ UNCHANGED <<instant, credential, gate, group, outSince, account, jar, bucket, lastSweep, tries>>

FindByADSID(v) ==
    /\ visit[v].pc = "find"
    /\ visit' = [visit EXCEPT ![v].pc = IF account[visit[v].who] = "norow" THEN "create" ELSE "update"]
    /\ UNCHANGED <<instant, credential, gate, group, outSince, account, jar, bucket, lastSweep, tries>>

\* Create, at the tier read_only: a second login that found no row either meets
\* the unique SID and fails.
CreateUser(v) ==
    LET p == visit[v].who IN
    /\ visit[v].pc = "create" /\ account[p] = "norow"
    /\ account' = [account EXCEPT ![p] = visit[v].dn]
    /\ visit' = [visit EXCEPT ![v].pc = "sign"]
    /\ UNCHANGED <<instant, credential, gate, group, outSince, jar, bucket, lastSweep, tries>>

\* UpdateLastLogin refreshes the cached DN.
UpdateLastLogin(v) ==
    LET p == visit[v].who IN
    /\ visit[v].pc = "update"
    /\ account' = [account EXCEPT ![p] = visit[v].dn]
    /\ visit' = [visit EXCEPT ![v].pc = "sign"]
    /\ UNCHANGED <<instant, credential, gate, group, outSince, jar, bucket, lastSweep, tries>>

\* session.New: verified now, though the directory answered earlier.
New(asked) == [kind |-> "ad", exp |-> instant + Lifetime, verified |-> instant, asked |-> asked, born |-> instant]
NewLocal == [kind |-> "local", exp |-> instant + Lifetime, verified |-> 0, asked |-> 0, born |-> instant]
NewSuperAdmin == [kind |-> "super", exp |-> instant + Lifetime, verified |-> 0, asked |-> 0, born |-> instant]

\* The answer carries a cookie, or clears the browser's.
Answers(v, c) == visit' = [visit EXCEPT ![v].pc = "answer", ![v].cookie = c]

\* The memberships and the address are refreshed, whatever comes of it.
SignSession(v) ==
    /\ visit[v].pc = "sign"
    /\ Answers(v, New(visit[v].asked))
    /\ UNCHANGED <<instant, credential, gate, group, outSince, account, jar, bucket, lastSweep, tries>>

\* LocalLoginService: the hash of the row that has the name.
LocalLogin(v) ==
    LET p == visit[v].who IN
    /\ visit[v].pc = "password" /\ p \in LocalOnly
    /\ Answers(v, NewLocal)
    /\ UNCHANGED <<instant, credential, gate, group, outSince, account, jar, bucket, lastSweep, tries>>

BreakGlassLogin(v) ==
    LET p == visit[v].who IN
    /\ visit[v].pc = "password" /\ p \notin LocalOnly /\ credential
    /\ Answers(v, NewSuperAdmin)
    /\ UNCHANGED <<instant, credential, gate, group, outSince, account, jar, bucket, lastSweep, tries>>

\* Logging out only takes the browser's copy; what is under way goes on.
HandleLogout(v, p) ==
    /\ visit[v] = NoVisit
    /\ jar[p] # NoCookie
    /\ SetupGate
    /\ visit' = [visit EXCEPT ![v] = [NoVisit EXCEPT !.pc = "answer", !.who = p]]
    /\ UNCHANGED <<instant, credential, group, outSince, account, jar, bucket, lastSweep, tries>>

-----------------------------------------------------------------------------
(* RequireSession.                                                         *)

\* Verify: signed by the server, and not past its expiry.
Verified(c) == c # NoCookie /\ instant <= c.exp

\* Only AD sessions go stale.
Stale(c) == c.kind = "ad" /\ instant - c.verified >= Interval

\* A request that is not let in is sent to the login page; it changes nothing.
RequireSession(v, p) ==
    /\ visit[v] = NoVisit
    /\ SetupGate
    /\ Verified(jar[p])
    /\ visit' = [visit EXCEPT ![v] = [NoVisit EXCEPT !.pc = IF Stale(jar[p]) THEN "lookup" ELSE "admitted",
                                                     !.who = p, !.cookie = jar[p], !.at = instant]]
    /\ UNCHANGED <<instant, credential, group, outSince, account, jar, bucket, lastSweep, tries>>

\* forceLogout clears the browser's cookie, whichever it holds by then.
ForceLogout(v) == Answers(v, NoCookie)

\* recheckAccessGroup begins with the user's row: without one, without a cached
\* DN, or when it cannot be read, the session is over.
RecheckLookup(v) ==
    /\ visit[v].pc = "lookup"
    /\ \/ /\ account[visit[v].who] \in {"current", "moved"}
          /\ visit' = [visit EXCEPT ![v].pc = "recheck", ![v].dn = account[visit[v].who]]
       \/ ForceLogout(v)
    /\ UNCHANGED <<instant, credential, gate, group, outSince, account, jar, bucket, lastSweep, tries>>

\* Mutant: a directory that does not answer counts as an answer.
RecheckUnreachableTrusts(v) ==
    /\ visit[v].pc = "recheck"
    /\ visit' = [visit EXCEPT ![v].pc = "admitted", ![v].held = TRUE, ![v].sets = TRUE,
                              ![v].cookie = [@ EXCEPT !.verified = instant, !.asked = instant]]
    /\ UNCHANGED <<instant, credential, gate, group, outSince, account, jar, bucket, lastSweep, tries>>

\* The directory cannot be asked: the request goes on, the session as it was.
RecheckUnreachable(v) ==
    /\ visit[v].pc = "recheck"
    /\ visit' = [visit EXCEPT ![v].pc = "admitted", ![v].held = TRUE]
    /\ UNCHANGED <<instant, credential, gate, group, outSince, account, jar, bucket, lastSweep, tries>>

\* IsInAccessGroup answers for the DN that was read.
RecheckAnswered(v) ==
    LET p == visit[v].who IN
    /\ visit[v].pc = "recheck"
    /\ IF p \in group /\ visit[v].dn = "current"
       THEN visit' = [visit EXCEPT ![v].pc = "resign", ![v].asked = instant]
       ELSE ForceLogout(v)
    /\ UNCHANGED <<instant, credential, gate, group, outSince, account, jar, bucket, lastSweep, tries>>

\* A new cookie with the old expiry, verified now; if it cannot be signed the
\* request goes on with the session as it was.
Refreshed(v) == [visit[v].cookie EXCEPT !.verified = instant, !.asked = visit[v].asked]

Resign(v) ==
    /\ visit[v].pc = "resign"
    /\ \/ visit' = [visit EXCEPT ![v].pc = "admitted", ![v].cookie = Refreshed(v), ![v].sets = TRUE]
       \/ visit' = [visit EXCEPT ![v].pc = "admitted"]
    /\ UNCHANGED <<instant, credential, gate, group, outSince, account, jar, bucket, lastSweep, tries>>

\* The browser reads the response's cookie, as early as the handler begins to
\* write ...
CookieArrives(v) ==
    /\ visit[v].pc = "answer" \/ visit[v].sets
    /\ jar' = [jar EXCEPT ![visit[v].who] = visit[v].cookie]
    /\ visit' = [visit EXCEPT ![v] = IF visit[v].pc = "answer" THEN NoVisit ELSE [visit[v] EXCEPT !.sets = FALSE]]
    /\ UNCHANGED <<instant, credential, gate, group, outSince, account, bucket, lastSweep, tries>>

\* ... and the handler has run; or the response was lost.
Responds(v) ==
    /\ visit[v].pc \in {"answer", "admitted"}
    /\ Ends(v)
    /\ UNCHANGED <<instant, credential, gate, group, outSince, account, jar, bucket, lastSweep, tries>>

-----------------------------------------------------------------------------
SignIns == \E p \in People : LoginLimited(p) \/ \E v \in Visits : HandleLogin(v, p)

Browsing == \E v \in Visits, p \in People : RequireSession(v, p) \/ HandleLogout(v, p)

DirectoryChanges == \E p \in Directory : LeavesGroup(p) \/ JoinsGroup(p) \/ Moves(p)

SessionSteps ==
    \E v \in Visits :
        \/ LoginFails(v) \/ Authenticate(v) \/ FindByADSID(v) \/ CreateUser(v) \/ UpdateLastLogin(v)
        \/ SignSession(v) \/ LocalLogin(v) \/ BreakGlassLogin(v)
        \/ RecheckLookup(v) \/ RecheckUnreachable(v) \/ RecheckAnswered(v) \/ Resign(v) \/ CookieArrives(v) \/ Responds(v)

SessionsSpec ==
    /\ SessionsInit
    /\ [][Clock \/ Setup \/ SignIns \/ Browsing \/ DirectoryChanges \/ SessionSteps]_sessionVars

-----------------------------------------------------------------------------
(* PROPERTIES                                                              *)

Cookies == [kind : {"none", "ad", "local", "super"}, exp : Nat, verified : Nat, asked : Nat, born : Nat]
VisitStates == [pc : {"idle", "authenticate", "password", "find", "create", "update", "sign", "lookup", "recheck", "resign", "admitted", "answer"},
                who : People, dn : {"current", "moved"}, cookie : Cookies, sets : BOOLEAN, at : Nat, asked : Nat, held : BOOLEAN]

Attempts == [at : Nat, window : Nat]

\* The state is of the types of the directory, the tables, the cookies and the
\* limiter.
SessionsTypes ==
    /\ instant \in Nat /\ credential \in BOOLEAN /\ gate \in BOOLEAN
    /\ group \subseteq Directory /\ outSince \in [People -> Nat] /\ account \in [Directory -> DNs]
    /\ jar \in [People -> Cookies] /\ visit \in [Visits -> VisitStates]
    /\ bucket \in [People -> [count : Nat, start : Nat]] /\ lastSweep \in Int
    /\ tries \in [People -> Seq(Attempts)]

\* How long someone has been out of the access group at an instant.
OutFor(p, t) == IF p \in group THEN 0 ELSE t - outSince[p]

\* The limiter's fixed windows let through, within any stretch as long as its
\* window, fewer than twice the attempts it is set to, also when the sweep has
\* dropped a bucket in between (loginRateLimiter.allow, sweepLocked).
AttemptsLimited ==
    \A p \in People, t \in 0..LastInstant :
        Cardinality({i \in DOMAIN tries[p] : t <= tries[p][i].at /\ tries[p][i].at < t + Window}) < 2 * MaxTries

\* However sign-ins, requests of one browser, logouts, rechecks and changes of
\* the directory overlap: a request that is let in came within one session
\* lifetime of the login it descends from, through however many rechecks, and
\* an AD one from someone who had then been out of the access group for less
\* than one recheck interval and the time between the directory's answer and
\* the stamp on the cookie, unless the directory could not be asked for this
\* very request (RequireSession, recheckAccessGroup).
AdmittedIsCurrent ==
    \A v \in Visits : LET r == visit[v] IN
        r.pc = "admitted" =>
            /\ r.at - r.cookie.born <= Lifetime
            /\ r.cookie.kind = "ad" /\ ~r.held =>
                  OutFor(r.who, r.at) < Interval + (r.cookie.verified - r.cookie.asked)
=============================================================================
