---------------------------- MODULE AccessProofs ----------------------------
(***************************************************************************)
(* Proofs about signing in and staying in, for any people, requests,       *)
(* lifetimes, intervals, limits and bound on the clock; and about what     *)
(* people change through the pages and its audit record, for any people,   *)
(* groups, rows and requests.                                              *)
(***************************************************************************)
EXTENDS Sessions, Administration, SequenceTheorems, FiniteSetTheorems, TLAPS

(* Sessions.                                                               *)

\* p was in the access group at t: p is in it now, or left no earlier.
SinceIn(p, t) == t <= instant /\ (p \notin group => t <= outSince[p])

\* What is certain of p's cookie: its expiry is one lifetime after the login,
\* and the directory's answer comes before its stamp.
CookieGood(p, c) ==
    /\ c.kind = "none" => c = NoCookie
    /\ c.kind # "none" => /\ c.exp = c.born + Lifetime
                          /\ c.kind = "ad" => c.asked <= c.verified /\ SinceIn(p, c.asked)

\* The group part of what is said of an admitted request.
InLately(r) ==
    r.cookie.kind = "ad" /\ ~r.held => OutFor(r.who, r.at) < Interval + (r.cookie.verified - r.cookie.asked)

VisitGood(r) ==
    /\ r.pc \in {"find", "create", "update", "sign", "resign"} => SinceIn(r.who, r.asked)
    /\ r.pc \in {"lookup", "recheck", "resign", "admitted"} =>
          r.cookie.kind # "none" /\ CookieGood(r.who, r.cookie) /\ r.at <= r.cookie.exp /\ r.at <= instant
    /\ r.pc = "resign" => r.at <= r.asked
    /\ r.pc = "admitted" => InLately(r)
    /\ r.pc = "answer" => CookieGood(r.who, r.cookie)
    /\ r.sets => r.pc = "admitted"

JarGood == \A p \in People : CookieGood(p, jar[p])
VisitsGood == \A v \in Visits : VisitGood(visit[v])

\* The attempts of one source s: each lies in its window, windows do not
\* overlap, begin with an attempt and have no more than they may.
InWindow(s, w) == {i \in DOMAIN s : s[i].window = w}
Windowed(s) ==
    /\ \A i \in DOMAIN s : s[i].window <= s[i].at /\ s[i].at < s[i].window + Window
    /\ \A i, j \in DOMAIN s : s[i].window < s[j].window => s[i].window + Window <= s[j].window
    /\ \A i \in DOMAIN s : \E j \in DOMAIN s : s[j].window = s[i].window /\ s[j].at = s[j].window
    /\ \A w \in Nat : Cardinality(InWindow(s, w)) <= MaxTries

\* Bucket b is of the last window; without one every window is over.
BucketLast(s, b) ==
    /\ b.start <= instant
    /\ \A i \in DOMAIN s : s[i].window <= b.start
    /\ Cardinality(InWindow(s, b.start)) = b.count
    /\ b.count > 0
WindowsOver(s) == \A i \in DOMAIN s : s[i].window + Window <= instant
AttemptsGood(s, b) == Windowed(s) /\ IF b = NoBucket THEN WindowsOver(s) ELSE BucketLast(s, b)

LimiterGood == \A p \in People : AttemptsGood(tries[p], bucket[p])

SessionsInv == SessionsTypes /\ JarGood /\ VisitsGood /\ LimiterGood

\* The constants are numbers.
LEMMA Numbers == /\ Lifetime \in Nat \ {0} /\ Interval \in Nat \ {0} /\ Window \in Nat \ {0} /\ MaxTries \in Nat \ {0}
                 /\ LastInstant \in Nat
  BY SessionsAssumption

\* Each attempt has its instants.
LEMMA AttemptsAre ==
    ASSUME NEW s \in Seq(Attempts) PROVE \A i \in DOMAIN s : s[i].at \in Nat /\ s[i].window \in Nat
  <1>1. \A i \in DOMAIN s : s[i] \in Attempts
      OBVIOUS
  <1> QED BY <1>1 DEF Attempts

\* No cookie, and no request under way.
LEMMA NoneGood ==
    /\ NoCookie \in Cookies /\ NoCookie.kind = "none"
    /\ NoVisit \in VisitStates /\ NoVisit.pc = "idle" /\ NoVisit.held = FALSE /\ NoVisit.sets = FALSE
  <1>1. NoCookie \in Cookies /\ NoCookie.kind = "none"
      BY DEF NoCookie, Cookies
  <1>2. (CHOOSE p \in People : TRUE) \in People
      BY SessionsAssumption
  <1> QED BY <1>1, <1>2 DEF NoVisit, VisitStates

\* At first nobody is in.
LEMMA SessionsInitInv == SessionsInit => SessionsInv
  <1> SUFFICES ASSUME SessionsInit PROVE SessionsInv
      OBVIOUS
  <1> USE DEF SessionsInit
  <1>1. NoBucket \in [count : Nat, start : Nat]
      BY DEF NoBucket
  <1>2. SessionsTypes
      <2>1. tries \in [People -> Seq(Attempts)]
          <3>1. <<>> \in Seq(Attempts)
              OBVIOUS
          <3> QED BY <3>1
      <2>2. bucket \in [People -> [count : Nat, start : Nat]]
          BY <1>1
      <2>3. lastSweep \in Int
          BY Numbers
      <2> QED BY <2>1, <2>2, <2>3, NoneGood DEF SessionsTypes
  <1>3. JarGood /\ VisitsGood
      BY NoneGood DEF JarGood, VisitsGood, CookieGood, VisitGood
  <1>4. LimiterGood
      <2>1. \A w \in Nat : InWindow(<<>>, w) = {}
          BY DEF InWindow
      <2>2. Cardinality({}) = 0
          BY FS_EmptySet
      <2>3. DOMAIN <<>> = {} /\ 0 <= MaxTries
          BY Numbers
      <2>4. ASSUME NEW s, s = <<>> PROVE AttemptsGood(s, NoBucket)
          BY <2>1, <2>2, <2>3, <2>4 DEF AttemptsGood, Windowed, WindowsOver
      <2> QED BY <2>4 DEF LimiterGood
  <1> QED BY <1>2, <1>3, <1>4 DEF SessionsInv

\* Time passes, someone leaves or joins the group: who was in it at some time
\* still was, and an admitted request is no later than before.
LEMMA WorldMoves ==
    ASSUME SessionsInv, Clock \/ (\E p \in Directory : LeavesGroup(p) \/ JoinsGroup(p))
    PROVE SessionsInv'
  <1>1. SessionsTypes
      BY DEF SessionsInv
  <1>2. UNCHANGED <<credential, gate, account, jar, visit, bucket, lastSweep, tries>>
      BY DEF Clock, LeavesGroup, JoinsGroup
  <1>3. instant' \in Nat /\ instant <= instant'
      BY <1>1 DEF Clock, LeavesGroup, JoinsGroup, SessionsTypes
  <1>4. \A p \in People : p \in group' \/ (p \notin group /\ outSince'[p] = outSince[p]) \/ outSince'[p] = instant
      BY <1>1 DEF Clock, LeavesGroup, JoinsGroup, SessionsTypes
  <1>5. SessionsTypes'
      <2>1. group' \subseteq Directory
          BY <1>1 DEF Clock, LeavesGroup, JoinsGroup, SessionsTypes
      <2>2. outSince' \in [People -> Nat]
          BY <1>1 DEF Clock, LeavesGroup, JoinsGroup, SessionsTypes
      <2> QED BY <1>1, <1>2, <1>3, <2>1, <2>2 DEF SessionsTypes
  <1>6. ASSUME NEW p \in People, NEW t \in Nat, SinceIn(p, t) PROVE SinceIn(p, t)'
      BY <1>1, <1>3, <1>4, <1>6 DEF SinceIn, SessionsTypes
  <1>7. ASSUME NEW p \in People, NEW c \in Cookies, CookieGood(p, c) PROVE CookieGood(p, c)'
      <2>1. c.asked \in Nat
          BY DEF Cookies
      <2> QED BY <1>6, <1>7, <2>1 DEF CookieGood
  <1>8. ASSUME NEW r \in VisitStates, VisitGood(r) PROVE VisitGood(r)'
      <2>1. /\ r.who \in People /\ r.cookie \in Cookies /\ r.at \in Nat /\ r.asked \in Nat
            /\ r.cookie.asked \in Nat /\ r.cookie.verified \in Nat /\ r.cookie.exp \in Nat
          BY DEF VisitStates, Cookies
      <2>2. r.pc = "admitted" => InLately(r)'
          <3> SUFFICES ASSUME r.pc = "admitted", r.cookie.kind = "ad", ~r.held
                       PROVE (OutFor(r.who, r.at) < Interval + (r.cookie.verified - r.cookie.asked))'
              BY DEF InLately
          <3>1. OutFor(r.who, r.at) < Interval + (r.cookie.verified - r.cookie.asked)
              BY <1>8 DEF VisitGood, InLately
          <3>2. r.cookie.asked <= r.cookie.verified /\ r.at <= instant
              BY <1>8, <2>1 DEF VisitGood, CookieGood
          <3>3. instant \in Nat /\ outSince[r.who] \in Nat
              BY <1>1, <2>1 DEF SessionsTypes
          <3> QED BY <1>4, <2>1, <3>1, <3>2, <3>3, Numbers DEF OutFor
      <2>3. r.at <= instant => r.at <= instant'
          BY <1>1, <1>3, <2>1 DEF SessionsTypes
      <2> QED BY <1>6, <1>7, <1>8, <2>1, <2>2, <2>3 DEF VisitGood
  <1>9. JarGood'
      BY <1>1, <1>2, <1>7 DEF SessionsInv, JarGood, SessionsTypes
  <1>10. VisitsGood'
      BY <1>1, <1>2, <1>8 DEF SessionsInv, VisitsGood, SessionsTypes
  <1>11. LimiterGood'
      <2> SUFFICES ASSUME NEW p \in People, NEW s, NEW b, s = tries'[p], b = bucket'[p] PROVE AttemptsGood(s, b)'
          BY DEF LimiterGood
      <2>1. AttemptsGood(s, b)
          BY <1>2 DEF SessionsInv, LimiterGood
      <2>2. s \in Seq(Attempts) /\ b \in [count : Nat, start : Nat] /\ instant \in Nat
          BY <1>1, <1>2 DEF SessionsTypes
      <2>3. \A i \in DOMAIN s : s[i].at \in Nat /\ s[i].window \in Nat
          BY <2>2, AttemptsAre
      <2>4. b.start \in Nat
          BY <2>2
      <2>5. WindowsOver(s) => WindowsOver(s)'
          BY <1>3, <2>2, <2>3, Numbers DEF WindowsOver
      <2>6. BucketLast(s, b) => BucketLast(s, b)'
          BY <1>3, <2>2, <2>4 DEF BucketLast
      <2>7. Windowed(s) => Windowed(s)'
          BY DEF Windowed
      <2> QED BY <2>1, <2>5, <2>6, <2>7 DEF AttemptsGood
  <1> QED BY <1>5, <1>9, <1>10, <1>11 DEF SessionsInv

\* One request moves, with what its person's browser gets.
LEMMA VisitMoves ==
    ASSUME SessionsInv, NEW v \in Visits, NEW r \in VisitStates, VisitGood(r), visit' = [visit EXCEPT ![v] = r],
           jar' = jar \/ (\E p \in People, c \in Cookies : CookieGood(p, c) /\ jar' = [jar EXCEPT ![p] = c]),
           gate' \in BOOLEAN, account' \in [Directory -> DNs], LimiterGood',
           bucket' \in [People -> [count : Nat, start : Nat]], lastSweep' \in Int, tries' \in [People -> Seq(Attempts)],
           UNCHANGED <<instant, credential, group, outSince>>
    PROVE SessionsInv'
  <1>1. SessionsTypes
      BY DEF SessionsInv
  <1>2. jar' \in [People -> Cookies] /\ \A p \in People : \A c : c = jar'[p] => CookieGood(p, c)
      <2>1. CASE jar' = jar
          BY <1>1, <2>1 DEF SessionsInv, JarGood, SessionsTypes
      <2>2. CASE jar' # jar
          <3>1. PICK p \in People, c \in Cookies : CookieGood(p, c) /\ jar' = [jar EXCEPT ![p] = c]
              BY <2>2
          <3>2. jar' \in [People -> Cookies] /\ \A q \in People : jar'[q] = IF q = p THEN c ELSE jar[q]
              BY <1>1, <3>1 DEF SessionsTypes
          <3> QED BY <3>1, <3>2 DEF SessionsInv, JarGood
      <2> QED BY <2>1, <2>2
  <1>3. SessionsTypes'
      BY <1>1, <1>2 DEF SessionsTypes
  <1>4. JarGood'
      BY <1>2 DEF JarGood, CookieGood, SinceIn
  <1>5. \A u \in Visits : visit'[u] = IF u = v THEN r ELSE visit[u]
      BY <1>1 DEF SessionsTypes
  <1>6. VisitsGood'
      <2> SUFFICES ASSUME NEW u \in Visits, NEW x, x = visit'[u] PROVE VisitGood(x)'
          BY DEF VisitsGood
      <2>1. VisitGood(x)
          BY <1>5 DEF SessionsInv, VisitsGood
      <2> QED BY <2>1 DEF VisitGood, CookieGood, SinceIn, InLately, OutFor
  <1> QED BY <1>3, <1>4, <1>6 DEF SessionsInv

\* The limiter is left alone.
LEMMA LimiterStays ==
    ASSUME SessionsInv, UNCHANGED <<instant, bucket, lastSweep, tries>>
    PROVE /\ LimiterGood' /\ bucket' \in [People -> [count : Nat, start : Nat]] /\ lastSweep' \in Int
          /\ tries' \in [People -> Seq(Attempts)]
  BY DEF SessionsInv, SessionsTypes, LimiterGood, AttemptsGood, Windowed, WindowsOver, BucketLast

\* What is known of a request under way, and of when it asked.
LEMMA VisitKnown ==
    ASSUME SessionsInv, NEW v \in Visits, NEW r, r = visit[v]
    PROVE /\ r \in VisitStates /\ VisitGood(r) /\ r.who \in People /\ r.cookie \in Cookies
          /\ r.at \in Nat /\ r.asked \in Nat /\ r.held \in BOOLEAN
          /\ r.cookie.asked \in Nat /\ r.cookie.verified \in Nat /\ r.cookie.exp \in Nat /\ r.cookie.born \in Nat
          /\ instant \in Nat /\ outSince[r.who] \in Nat
  <1>1. r \in VisitStates /\ VisitGood(r) /\ instant \in Nat /\ outSince \in [People -> Nat]
      BY DEF SessionsInv, SessionsTypes, VisitsGood
  <1>2. r.who \in People /\ r.cookie \in Cookies /\ r.at \in Nat /\ r.asked \in Nat /\ r.held \in BOOLEAN
      BY <1>1 DEF VisitStates
  <1> QED BY <1>1, <1>2 DEF Cookies

\* A request ends.
LEMMA EndsKeeps ==
    ASSUME SessionsInv, NEW v \in Visits, Ends(v),
           UNCHANGED <<instant, credential, gate, group, outSince, account, jar, bucket, lastSweep, tries>>
    PROVE SessionsInv'
  <1>1. VisitGood(NoVisit)
      BY NoneGood DEF VisitGood
  <1>2. gate' \in BOOLEAN /\ account' \in [Directory -> DNs]
      BY DEF SessionsInv, SessionsTypes
  <1> QED BY <1>1, <1>2, NoneGood, LimiterStays, VisitMoves DEF Ends

\* A request is answered with a cookie, or with the browser's cleared.
LEMMA AnswersKeeps ==
    ASSUME SessionsInv, NEW v \in Visits, NEW c \in Cookies, CookieGood(visit[v].who, c), Answers(v, c),
           visit[v].pc # "admitted",
           UNCHANGED <<instant, credential, gate, group, outSince, account, jar, bucket, lastSweep, tries>>
    PROVE SessionsInv'
  <1>1. PICK r : r = visit[v]
      OBVIOUS
  <1>2. r \in VisitStates /\ VisitGood(r) /\ visit \in [Visits -> VisitStates]
      BY <1>1, VisitKnown DEF SessionsInv, SessionsTypes
  <1> DEFINE x == [r EXCEPT !.pc = "answer", !.cookie = c]
  <1>3. visit' = [visit EXCEPT ![v] = x]
      BY <1>1, <1>2 DEF Answers
  <1>4. x \in VisitStates /\ x.pc = "answer" /\ x.who = r.who /\ x.cookie = c /\ x.sets = r.sets
      BY <1>2 DEF VisitStates
  <1> HIDE DEF x
  <1>5. VisitGood(x)
      BY <1>1, <1>2, <1>4 DEF VisitGood
  <1>6. gate' \in BOOLEAN /\ account' \in [Directory -> DNs]
      BY DEF SessionsInv, SessionsTypes
  <1> QED BY <1>3, <1>4, <1>5, <1>6, LimiterStays, VisitMoves

\* The steps of a login, until its cookie is signed.
LEMMA LoginStepsKeep ==
    ASSUME SessionsInv, NEW v \in Visits,
           LoginFails(v) \/ Authenticate(v) \/ FindByADSID(v) \/ CreateUser(v) \/ UpdateLastLogin(v)
    PROVE SessionsInv'
  <1>1. CASE LoginFails(v)
      BY <1>1, EndsKeeps DEF LoginFails
  <1>2. CASE Authenticate(v) \/ FindByADSID(v) \/ CreateUser(v) \/ UpdateLastLogin(v)
      <2>1. PICK r : r = visit[v]
          OBVIOUS
      <2>2. /\ r \in VisitStates /\ VisitGood(r) /\ instant \in Nat /\ visit \in [Visits -> VisitStates]
            /\ account \in [Directory -> DNs] /\ gate \in BOOLEAN /\ r.dn \in {"current", "moved"}
          BY <2>1, VisitKnown DEF SessionsInv, SessionsTypes, VisitStates
      <2>3. UNCHANGED <<instant, credential, gate, group, outSince, jar, bucket, lastSweep, tries>>
          BY <1>2 DEF Authenticate, FindByADSID, CreateUser, UpdateLastLogin
      <2>4. account' \in [Directory -> DNs]
          BY <1>2, <2>1, <2>2 DEF Authenticate, FindByADSID, CreateUser, UpdateLastLogin, DNs
      <2>5. PICK pc \in {"find", "create", "update", "sign"}, n \in {"current", "moved"}, t \in Nat :
               visit' = [visit EXCEPT ![v] = [r EXCEPT !.pc = pc, !.dn = n, !.asked = t]] /\ SinceIn(r.who, t) /\ ~r.sets
          <3>1. CASE Authenticate(v)
              <4>1. visit' = [visit EXCEPT ![v] = [r EXCEPT !.pc = "find", !.dn = "current", !.asked = instant]]
                  BY <2>1, <2>2, <3>1 DEF Authenticate
              <4>2. SinceIn(r.who, instant) /\ ~r.sets
                  BY <2>1, <2>2, <3>1 DEF Authenticate, SinceIn, VisitGood
              <4> QED BY <2>2, <4>1, <4>2
          <3>2. CASE FindByADSID(v) \/ CreateUser(v) \/ UpdateLastLogin(v)
              <4>1. SinceIn(r.who, r.asked) /\ r.asked \in Nat /\ ~r.sets
                  BY <2>1, <2>2, <3>2, VisitKnown DEF FindByADSID, CreateUser, UpdateLastLogin, VisitGood
              <4>2. PICK pc \in {"create", "update", "sign"} : visit' = [visit EXCEPT ![v].pc = pc]
                  BY <3>2 DEF FindByADSID, CreateUser, UpdateLastLogin
              <4>3. visit' = [visit EXCEPT ![v] = [r EXCEPT !.pc = pc]]
                  BY <2>1, <2>2, <4>2
              <4>4. [r EXCEPT !.pc = pc] = [r EXCEPT !.pc = pc, !.dn = r.dn, !.asked = r.asked]
                  BY <2>2 DEF VisitStates
              <4> QED BY <2>2, <4>1, <4>2, <4>3, <4>4
          <3> QED BY <1>2, <3>1, <3>2
      <2> DEFINE x == [r EXCEPT !.pc = pc, !.dn = n, !.asked = t]
      <2>6. x \in VisitStates /\ x.pc = pc /\ x.asked = t /\ x.who = r.who /\ x.sets = r.sets
          BY <2>2 DEF VisitStates
      <2>7. visit' = [visit EXCEPT ![v] = x]
          BY <2>5
      <2> HIDE DEF x
      <2>8. VisitGood(x)
          BY <2>5, <2>6 DEF VisitGood
      <2> QED BY <2>2, <2>3, <2>4, <2>6, <2>7, <2>8, LimiterStays, VisitMoves
  <1> QED BY <1>1, <1>2

\* The cookie of a login is signed.
LEMMA CookiesKeep ==
    ASSUME SessionsInv, NEW v \in Visits, SignSession(v) \/ LocalLogin(v) \/ BreakGlassLogin(v)
    PROVE SessionsInv'
  <1>1. PICK r : r = visit[v]
      OBVIOUS
  <1>2. r.who \in People /\ r.asked \in Nat /\ VisitGood(r) /\ instant \in Nat
      BY <1>1, VisitKnown
  <1>3. instant + Lifetime \in Nat
      BY <1>2, Numbers
  <1>4. New(r.asked) \in Cookies /\ NewLocal \in Cookies /\ NewSuperAdmin \in Cookies
      BY <1>2, <1>3 DEF New, NewLocal, NewSuperAdmin, Cookies
  <1>5. CookieGood(r.who, NewLocal) /\ CookieGood(r.who, NewSuperAdmin)
      BY DEF CookieGood, NewLocal, NewSuperAdmin
  <1>6. r.pc = "sign" => CookieGood(r.who, New(r.asked))
      BY <1>2 DEF CookieGood, New, VisitGood, SinceIn
  <1>7. \E c \in Cookies : CookieGood(r.who, c) /\ Answers(v, c)
      BY <1>1, <1>4, <1>5, <1>6 DEF SignSession, LocalLogin, BreakGlassLogin
  <1>8. r.pc # "admitted" /\ UNCHANGED <<instant, credential, gate, group, outSince, account, jar, bucket, lastSweep, tries>>
      BY <1>1 DEF SignSession, LocalLogin, BreakGlassLogin
  <1> QED BY <1>1, <1>7, <1>8, AnswersKeeps

\* The browser reads its cookie.
LEMMA ArrivesKeeps == ASSUME SessionsInv, NEW v \in Visits, CookieArrives(v) PROVE SessionsInv'
  <1>1. PICK r : r = visit[v]
      OBVIOUS
  <1>2. UNCHANGED <<instant, credential, gate, group, outSince, account, bucket, lastSweep, tries>>
      BY DEF CookieArrives
  <1>3. /\ r \in VisitStates /\ VisitGood(r) /\ r.who \in People /\ r.cookie \in Cookies
        /\ gate' \in BOOLEAN /\ account' \in [Directory -> DNs]
      BY <1>1, <1>2, VisitKnown DEF SessionsInv, SessionsTypes
  <1>4. CookieGood(r.who, r.cookie) /\ jar' = [jar EXCEPT ![r.who] = r.cookie]
      BY <1>1, <1>3 DEF CookieArrives, VisitGood
  <1> DEFINE x == IF r.pc = "answer" THEN NoVisit ELSE [r EXCEPT !.sets = FALSE]
  <1>5. visit' = [visit EXCEPT ![v] = x]
      BY <1>1 DEF CookieArrives
  <1>6. x \in VisitStates /\ VisitGood(x)
      <2>1. CASE r.pc = "answer"
          <3>1. x = NoVisit
              BY <2>1
          <3> HIDE DEF x
          <3> QED BY <3>1, NoneGood DEF VisitGood
      <2>2. CASE r.pc # "answer"
          <3>1. /\ x \in VisitStates /\ x.pc = r.pc /\ x.who = r.who /\ x.cookie = r.cookie /\ x.at = r.at
                /\ x.asked = r.asked /\ x.held = r.held /\ x.sets = FALSE
              BY <1>3, <2>2 DEF VisitStates
          <3> HIDE DEF x
          <3> QED BY <1>3, <3>1 DEF VisitGood, InLately
      <2> QED BY <2>1, <2>2
  <1> HIDE DEF x
  <1> QED BY <1>2, <1>3, <1>4, <1>5, <1>6, LimiterStays, VisitMoves

\* A request of a browser is let in, or rechecked first.
LEMMA RequireKeeps == ASSUME SessionsInv, NEW v \in Visits, NEW p \in People, RequireSession(v, p) PROVE SessionsInv'
  <1>1. PICK c : c = jar[p]
      OBVIOUS
  <1>2. c \in Cookies /\ CookieGood(p, c) /\ instant \in Nat /\ outSince[p] \in Nat
      BY <1>1 DEF SessionsInv, SessionsTypes, JarGood
  <1>3. c.asked \in Nat /\ c.verified \in Nat /\ c.exp \in Nat
      BY <1>2 DEF Cookies
  <1>4. c.kind # "none" /\ instant <= c.exp
      BY <1>1, <1>2 DEF RequireSession, Verified, CookieGood
  <1>5. PICK pc \in {"lookup", "admitted"} :
            /\ visit' = [visit EXCEPT ![v] = [NoVisit EXCEPT !.pc = pc, !.who = p, !.cookie = c, !.at = instant]]
            /\ pc = "admitted" => ~Stale(c)
      BY <1>1 DEF RequireSession
  <1> DEFINE x == [NoVisit EXCEPT !.pc = pc, !.who = p, !.cookie = c, !.at = instant]
  <1>6. x \in VisitStates /\ x.pc = pc /\ x.who = p /\ x.cookie = c /\ x.at = instant /\ x.sets = FALSE
      BY <1>2, NoneGood DEF VisitStates
  <1> HIDE DEF x
  <1>7. pc = "admitted" => InLately(x)
      <2> SUFFICES ASSUME pc = "admitted", c.kind = "ad" PROVE OutFor(p, instant) < Interval + (c.verified - c.asked)
          BY <1>6 DEF InLately
      <2>1. instant - c.verified < Interval
          BY <1>2, <1>3, <1>5, Numbers DEF Stale
      <2>2. c.asked <= c.verified /\ (p \notin group => c.asked <= outSince[p])
          BY <1>2 DEF CookieGood, SinceIn
      <2> QED BY <1>2, <1>3, <2>1, <2>2, Numbers DEF OutFor
  <1>8. VisitGood(x)
      BY <1>2, <1>4, <1>6, <1>7 DEF VisitGood
  <1>9. gate' \in BOOLEAN /\ UNCHANGED <<instant, credential, group, outSince, account, jar, bucket, lastSweep, tries>>
      BY DEF RequireSession, SetupGate
  <1>10. account' \in [Directory -> DNs]
      BY <1>9 DEF SessionsInv, SessionsTypes
  <1>11. visit' = [visit EXCEPT ![v] = x]
      BY <1>5 DEF x
  <1> QED BY <1>6, <1>8, <1>9, <1>10, <1>11, LimiterStays, VisitMoves

\* A recheck begins, cannot ask, or is answered.
LEMMA RechecksKeep ==
    ASSUME SessionsInv, NEW v \in Visits,
           RecheckLookup(v) \/ RecheckUnreachable(v) \/ RecheckAnswered(v) \/ Responds(v)
    PROVE SessionsInv'
  <1>1. PICK r : r = visit[v]
      OBVIOUS
  <1>2. UNCHANGED <<instant, credential, gate, group, outSince, account, jar, bucket, lastSweep, tries>>
      BY DEF RecheckLookup, RecheckUnreachable, RecheckAnswered, Responds
  <1>3. /\ r \in VisitStates /\ VisitGood(r) /\ visit \in [Visits -> VisitStates] /\ instant \in Nat
        /\ gate' \in BOOLEAN /\ account' \in [Directory -> DNs]
      BY <1>1, <1>2, VisitKnown DEF SessionsInv, SessionsTypes
  <1>4. ASSUME ForceLogout(v), r.pc # "admitted" PROVE SessionsInv'
      <2>1. NoCookie \in Cookies /\ CookieGood(r.who, NoCookie)
          BY NoneGood DEF CookieGood
      <2> QED BY <1>1, <1>2, <1>4, <2>1, AnswersKeeps DEF ForceLogout
  <1>5. ASSUME NEW x \in VisitStates, VisitGood(x), visit' = [visit EXCEPT ![v] = x] PROVE SessionsInv'
      BY <1>2, <1>3, <1>5, LimiterStays, VisitMoves
  <1>6. CASE RecheckLookup(v)
      <2>1. CASE \E n \in {"current", "moved"} : visit' = [visit EXCEPT ![v].pc = "recheck", ![v].dn = n]
          <3>0. PICK n \in {"current", "moved"} : visit' = [visit EXCEPT ![v].pc = "recheck", ![v].dn = n]
              BY <2>1
          <3> DEFINE x == [r EXCEPT !.pc = "recheck", !.dn = n]
          <3>1. visit' = [visit EXCEPT ![v] = x]
              BY <1>1, <1>3, <3>0
          <3>2. x \in VisitStates /\ x.pc = "recheck" /\ x.who = r.who /\ x.cookie = r.cookie /\ x.at = r.at /\ x.sets = r.sets
              BY <1>3 DEF VisitStates
          <3> HIDE DEF x
          <3>3. VisitGood(x)
              BY <1>1, <1>3, <1>6, <3>2 DEF VisitGood, RecheckLookup
          <3> QED BY <1>5, <3>1, <3>2, <3>3
      <2>2. CASE ForceLogout(v)
          BY <1>1, <1>4, <1>6, <2>2 DEF RecheckLookup
      <2> QED BY <1>6, <2>1, <2>2 DEF RecheckLookup
  <1>7. CASE RecheckUnreachable(v)
      <2> DEFINE x == [r EXCEPT !.pc = "admitted", !.held = TRUE]
      <2>1. visit' = [visit EXCEPT ![v] = x]
          BY <1>1, <1>3, <1>7 DEF RecheckUnreachable
      <2>2. x \in VisitStates /\ x.pc = "admitted" /\ x.who = r.who /\ x.cookie = r.cookie /\ x.at = r.at /\ x.held = TRUE
          BY <1>3 DEF VisitStates
      <2> HIDE DEF x
      <2>3. VisitGood(x)
          BY <1>1, <1>3, <1>7, <2>2 DEF VisitGood, RecheckUnreachable, InLately
      <2> QED BY <1>5, <2>1, <2>2, <2>3
  <1>8. CASE RecheckAnswered(v)
      <2>1. CASE r.who \in group /\ r.dn = "current"
          <3> DEFINE x == [r EXCEPT !.pc = "resign", !.asked = instant]
          <3>1. visit' = [visit EXCEPT ![v] = x]
              BY <1>1, <1>3, <1>8, <2>1 DEF RecheckAnswered
          <3>2. /\ x \in VisitStates /\ x.pc = "resign" /\ x.who = r.who /\ x.cookie = r.cookie /\ x.at = r.at
                /\ x.asked = instant /\ x.sets = r.sets
              BY <1>3 DEF VisitStates
          <3> HIDE DEF x
          <3>3. VisitGood(x)
              BY <1>1, <1>3, <1>8, <2>1, <3>2 DEF VisitGood, RecheckAnswered, SinceIn
          <3> QED BY <1>5, <3>1, <3>2, <3>3
      <2>2. CASE ~(r.who \in group /\ r.dn = "current")
          BY <1>1, <1>4, <1>8, <2>2 DEF RecheckAnswered
      <2> QED BY <2>1, <2>2
  <1>9. CASE Responds(v)
      BY <1>2, <1>9, EndsKeeps DEF Responds
  <1> QED BY <1>6, <1>7, <1>8, <1>9

\* The recheck's cookie is signed, or the request goes on with the old one: the
\* person was in the group when the directory was asked, after the request came.
LEMMA ResignKeeps == ASSUME SessionsInv, NEW v \in Visits, Resign(v) PROVE SessionsInv'
  <1>1. PICK r : r = visit[v]
      OBVIOUS
  <1>2. UNCHANGED <<instant, credential, gate, group, outSince, account, jar, bucket, lastSweep, tries>> /\ r.pc = "resign"
      BY <1>1 DEF Resign
  <1>3. /\ r \in VisitStates /\ VisitGood(r) /\ visit \in [Visits -> VisitStates] /\ instant \in Nat
        /\ gate' \in BOOLEAN /\ account' \in [Directory -> DNs]
        /\ r.who \in People /\ r.cookie \in Cookies /\ r.at \in Nat /\ r.asked \in Nat /\ outSince[r.who] \in Nat
        /\ r.cookie.asked \in Nat /\ r.cookie.verified \in Nat
      BY <1>1, <1>2, VisitKnown DEF SessionsInv, SessionsTypes
  <1>4. /\ SinceIn(r.who, r.asked) /\ r.at <= r.asked /\ r.cookie.kind # "none" /\ CookieGood(r.who, r.cookie)
        /\ r.at <= r.cookie.exp /\ r.at <= instant
      BY <1>2, <1>3 DEF VisitGood
  <1>5. OutFor(r.who, r.at) <= 0
      BY <1>3, <1>4 DEF OutFor, SinceIn
  <1>6. OutFor(r.who, r.at) \in Int
      BY <1>3 DEF OutFor
  <1>7. ASSUME NEW c \in Cookies, CookieGood(r.who, c), c.kind # "none", c.exp = r.cookie.exp,
               NEW b \in BOOLEAN, NEW x, x = [r EXCEPT !.pc = "admitted", !.cookie = c, !.sets = b]
        PROVE x \in VisitStates /\ VisitGood(x)
      <2>1. /\ x \in VisitStates /\ x.pc = "admitted" /\ x.who = r.who /\ x.cookie = c /\ x.at = r.at
          BY <1>3, <1>7 DEF VisitStates
      <2>2. c.kind = "ad" => c.asked <= c.verified /\ c.asked \in Nat /\ c.verified \in Nat
          BY <1>7 DEF CookieGood, Cookies
      <2>3. InLately(x)
          BY <1>5, <1>6, <2>1, <2>2, Numbers DEF InLately
      <2> QED BY <1>4, <1>7, <2>1, <2>3 DEF VisitGood
  <1> DEFINE d == [r.cookie EXCEPT !.verified = instant, !.asked = r.asked]
  <1>8. /\ d \in Cookies /\ d.kind = r.cookie.kind /\ d.exp = r.cookie.exp /\ d.born = r.cookie.born
        /\ d.verified = instant /\ d.asked = r.asked
      BY <1>3 DEF Cookies
  <1>9. Refreshed(v) = d
      BY <1>1 DEF Refreshed
  <1> HIDE DEF d
  <1>10. CookieGood(r.who, d)
      BY <1>4, <1>8 DEF CookieGood, SinceIn
  <1>11. CASE visit' = [visit EXCEPT ![v].pc = "admitted", ![v].cookie = d, ![v].sets = TRUE]
      <2> DEFINE x == [r EXCEPT !.pc = "admitted", !.cookie = d, !.sets = TRUE]
      <2>1. visit' = [visit EXCEPT ![v] = x]
          BY <1>1, <1>3, <1>11
      <2>2. x \in VisitStates /\ VisitGood(x)
          BY <1>4, <1>7, <1>8, <1>10
      <2> HIDE DEF x
      <2> QED BY <1>2, <1>3, <2>1, <2>2, LimiterStays, VisitMoves
  <1>12. CASE visit' = [visit EXCEPT ![v].pc = "admitted"]
      <2> DEFINE x == [r EXCEPT !.pc = "admitted", !.cookie = r.cookie, !.sets = r.sets]
      <2>1. visit' = [visit EXCEPT ![v] = x]
          <3>1. [r EXCEPT !.pc = "admitted"] = x
              BY <1>3 DEF VisitStates
          <3>2. visit' = [visit EXCEPT ![v] = [r EXCEPT !.pc = "admitted"]]
              BY <1>1, <1>3, <1>12
          <3> QED BY <3>1, <3>2
      <2>2. x \in VisitStates /\ VisitGood(x)
          <3>1. r.sets \in BOOLEAN
              BY <1>3 DEF VisitStates
          <3> QED BY <1>3, <1>4, <1>7, <3>1
      <2> HIDE DEF x
      <2> QED BY <1>2, <1>3, <2>1, <2>2, LimiterStays, VisitMoves
  <1> QED BY <1>1, <1>9, <1>11, <1>12 DEF Resign

\* e is s and the attempt a, at n; and how many each window has then.
Adds(s, a, e, n) == e = Append(s, a) /\ n = Len(s) + 1
Added(s, a, e, n) ==
    /\ e \in Seq(Attempts) /\ DOMAIN e = DOMAIN s \cup {n} /\ n \notin DOMAIN s
    /\ e[n] = a /\ \A i \in DOMAIN s : e[i] = s[i]
    /\ \A w \in Nat :
          /\ Cardinality(InWindow(s, w)) \in Nat
          /\ w = a.window => Cardinality(InWindow(e, w)) = Cardinality(InWindow(s, w)) + 1
          /\ w # a.window => InWindow(e, w) = InWindow(s, w)

\* One more attempt.
LEMMA AttemptAdded ==
    ASSUME NEW s \in Seq(Attempts), NEW a \in Attempts, NEW e, NEW n, Adds(s, a, e, n)
    PROVE Added(s, a, e, n)
  <1> USE DEF Adds
  <1>1. e \in Seq(Attempts) /\ Len(e) = n /\ e[n] = a /\ Len(s) \in Nat
      BY AppendProperties
  <1>2. DOMAIN s = 1..Len(s) /\ DOMAIN e = 1..n /\ \A i \in 1..Len(s) : e[i] = s[i]
      BY <1>1, AppendProperties
  <1>3. DOMAIN e = DOMAIN s \cup {n} /\ n \notin DOMAIN s
      BY <1>1, <1>2
  <1>4. IsFiniteSet(DOMAIN s)
      BY <1>1, <1>2, FS_Interval
  <1>5. \A w \in Nat : IsFiniteSet(InWindow(s, w)) /\ Cardinality(InWindow(s, w)) \in Nat
      <2> TAKE w \in Nat
      <2>1. InWindow(s, w) \subseteq DOMAIN s
          BY DEF InWindow
      <2>2. IsFiniteSet(InWindow(s, w))
          BY <1>4, <2>1, FS_Subset
      <2> QED BY <2>2, FS_CardinalityType
  <1>6. \A w \in Nat : w # a.window => InWindow(e, w) = InWindow(s, w)
      BY <1>1, <1>2, <1>3 DEF InWindow
  <1>7. ASSUME NEW t \in Nat, t = a.window
        PROVE Cardinality(InWindow(e, t)) = Cardinality(InWindow(s, t)) + 1
      <2>1. InWindow(e, t) = InWindow(s, t) \cup {n} /\ n \notin InWindow(s, t)
          BY <1>1, <1>2, <1>3, <1>7 DEF InWindow
      <2>2. Cardinality(InWindow(s, t) \cup {n}) = Cardinality(InWindow(s, t)) + 1
          BY <1>5, <2>1, FS_AddElement
      <2> QED BY <2>1, <2>2
  <1> QED BY <1>1, <1>2, <1>3, <1>5, <1>6, <1>7 DEF Added

\* What the sweep leaves: it drops only buckets whose window is over.
LEMMA SweptGood ==
    ASSUME SessionsInv, NEW p \in People, NEW s, NEW d, s = tries[p], d = SweepLocked[p]
    PROVE d \in [count : Nat, start : Nat] /\ AttemptsGood(s, d)
  <1>1. PICK b : b = bucket[p]
      OBVIOUS
  <1>2. AttemptsGood(s, b) /\ s \in Seq(Attempts) /\ b \in [count : Nat, start : Nat] /\ instant \in Nat
      BY <1>1 DEF SessionsInv, LimiterGood, SessionsTypes
  <1>3. b.start \in Nat /\ \A i \in DOMAIN s : s[i].window \in Nat
      BY <1>2, AttemptsAre
  <1>4. d = b \/ (d = NoBucket /\ instant - b.start >= Window)
      BY <1>1 DEF SweepLocked
  <1>5. NoBucket \in [count : Nat, start : Nat]
      BY DEF NoBucket
  <1>6. instant - b.start >= Window => WindowsOver(s)
      BY <1>2, <1>3, Numbers DEF AttemptsGood, WindowsOver, BucketLast
  <1> QED BY <1>2, <1>4, <1>5, <1>6 DEF AttemptsGood

\* That stays so while the clock stands still.
LEMMA AttemptsStay ==
    ASSUME NEW s, NEW d, AttemptsGood(s, d), UNCHANGED instant PROVE AttemptsGood(s, d)'
  <1>1. Windowed(s) => Windowed(s)'
      BY DEF Windowed
  <1>2. WindowsOver(s) => WindowsOver(s)'
      BY DEF WindowsOver
  <1>3. BucketLast(s, d) => BucketLast(s, d)'
      BY DEF BucketLast
  <1> QED BY <1>1, <1>2, <1>3 DEF AttemptsGood

\* The limiter lets an attempt through: in a new window once the last is over,
\* or as one more of the last window's.
LEMMA AllowKeeps ==
    ASSUME SessionsInv, NEW p \in People, Allow(p), UNCHANGED instant,
           tries' = [tries EXCEPT ![p] = Append(@, [at |-> instant, window |-> bucket'[p].start])]
    PROVE /\ LimiterGood' /\ bucket' \in [People -> [count : Nat, start : Nat]]
          /\ tries' \in [People -> Seq(Attempts)]
  <1>1. SessionsTypes
      BY DEF SessionsInv
  <1>2. PICK s, b : s = tries[p] /\ b = SweepLocked[p]
      OBVIOUS
  <1>3. /\ s \in Seq(Attempts) /\ b \in [count : Nat, start : Nat] /\ instant \in Nat
        /\ SweepLocked \in [People -> [count : Nat, start : Nat]] /\ tries \in [People -> Seq(Attempts)]
      <2>1. SweepLocked = [q \in People |-> SweepLocked[q]]
          BY DEF SweepLocked
      <2>2. \A q \in People : SweepLocked[q] \in [count : Nat, start : Nat]
          BY SweptGood
      <2> QED BY <1>1, <1>2, <2>1, <2>2 DEF SessionsTypes
  <1>4. b.count \in Nat /\ b.start \in Nat
      BY <1>3
  <1>5. AttemptsGood(s, b)
      BY <1>2, SweptGood
  <1>6. Windowed(s)
      BY <1>5 DEF AttemptsGood
  <1>7. \A i \in DOMAIN s : s[i].at \in Nat /\ s[i].window \in Nat
      BY <1>3, AttemptsAre
  <1>8. ASSUME NEW c \in [count : Nat, start : Nat], NEW e, bucket' = [SweepLocked EXCEPT ![p] = c],
               e = Append(s, [at |-> instant, window |-> c.start]), AttemptsGood(e, c)
        PROVE /\ LimiterGood' /\ bucket' \in [People -> [count : Nat, start : Nat]]
              /\ tries' \in [People -> Seq(Attempts)]
      <2>1. bucket' \in [People -> [count : Nat, start : Nat]] /\ \A q \in People : bucket'[q] = IF q = p THEN c ELSE SweepLocked[q]
          BY <1>3, <1>8
      <2>2. c.start \in Nat
          OBVIOUS
      <2>3. [at |-> instant, window |-> c.start] \in Attempts
          BY <1>3, <2>2 DEF Attempts
      <2>4. e \in Seq(Attempts)
          BY <1>3, <1>8, <2>3, AppendProperties
      <2>5. tries' = [tries EXCEPT ![p] = e]
          BY <1>2, <1>8, <2>1
      <2>6. tries' \in [People -> Seq(Attempts)] /\ \A q \in People : tries'[q] = IF q = p THEN e ELSE tries[q]
          BY <1>3, <2>4, <2>5
      <2>7. LimiterGood'
          <3> SUFFICES ASSUME NEW q \in People, NEW y, NEW d, y = tries'[q], d = bucket'[q] PROVE AttemptsGood(y, d)'
              BY DEF LimiterGood
          <3>1. AttemptsGood(y, d)
              BY <1>8, <2>1, <2>6, SweptGood
          <3> QED BY <3>1, AttemptsStay
      <2> QED BY <2>1, <2>6, <2>7
  <1>9. CASE b = NoBucket \/ instant - b.start >= Window
      <2> DEFINE c == [count |-> 1, start |-> instant]
                 a == [at |-> instant, window |-> instant]
                 e == Append(s, a)
                 n == Len(s) + 1
      <2>1. c \in [count : Nat, start : Nat] /\ c.count = 1 /\ c.start = instant
          BY <1>3
      <2>2. a \in Attempts /\ a.at = instant /\ a.window = instant
          BY <1>3 DEF Attempts
      <2>3. bucket' = [SweepLocked EXCEPT ![p] = c]
          BY <1>2, <1>9 DEF Allow, Counted, WindowOver
      <2>4. a = [at |-> instant, window |-> c.start]
          OBVIOUS
      <2> HIDE DEF c, a
      <2>5. /\ DOMAIN e = DOMAIN s \cup {n} /\ n \notin DOMAIN s
            /\ e[n] = a /\ \A i \in DOMAIN s : e[i] = s[i]
            /\ \A w \in Nat : w # instant => InWindow(e, w) = InWindow(s, w)
            /\ Cardinality(InWindow(e, instant)) = Cardinality(InWindow(s, instant)) + 1
            /\ Cardinality(InWindow(s, instant)) \in Nat
          <3>1. Adds(s, a, e, n)
              BY DEF Adds
          <3> HIDE DEF e, n
          <3>2. Added(s, a, e, n)
              BY <1>3, <2>2, <3>1, AttemptAdded
          <3>3. instant = a.window /\ instant \in Nat
              BY <1>3, <1>4, <2>2
          <3> QED BY <3>2, <3>3 DEF Added
      <2> HIDE DEF e, n
      <2>6. \A i \in DOMAIN s : s[i].window + Window <= instant
          BY <1>3, <1>4, <1>5, <1>7, <1>9, Numbers DEF AttemptsGood, WindowsOver, BucketLast
      <2>7. InWindow(s, instant) = {}
          BY <1>3, <1>7, <2>6, Numbers DEF InWindow
      <2>8. Cardinality(InWindow(e, instant)) = 1
          BY <2>5, <2>7, FS_EmptySet
      <2>9. Windowed(e)
          <3>1. \A i \in DOMAIN e : e[i].window <= e[i].at /\ e[i].at < e[i].window + Window
              <4> SUFFICES ASSUME NEW i \in DOMAIN e PROVE e[i].window <= e[i].at /\ e[i].at < e[i].window + Window
                  OBVIOUS
              <4>1. CASE i = n
                  BY <1>3, <2>2, <2>5, <4>1, Numbers
              <4>2. CASE i # n
                  BY <1>6, <2>5, <4>2 DEF Windowed
              <4> QED BY <4>1, <4>2
          <3>2. \A i, j \in DOMAIN e : e[i].window < e[j].window => e[i].window + Window <= e[j].window
              <4> SUFFICES ASSUME NEW i \in DOMAIN e, NEW j \in DOMAIN e, e[i].window < e[j].window
                           PROVE e[i].window + Window <= e[j].window
                  OBVIOUS
              <4>1. i # n
                  <5>1. \A k \in DOMAIN e : e[k].window \in Nat /\ e[k].window <= instant
                      <6> SUFFICES ASSUME NEW k \in DOMAIN e PROVE e[k].window \in Nat /\ e[k].window <= instant
                          OBVIOUS
                      <6>1. CASE k = n
                          BY <1>3, <2>2, <2>5, <6>1
                      <6>2. CASE k # n
                          <7>1. k \in DOMAIN s /\ e[k] = s[k]
                              BY <2>5, <6>2
                          <7>2. PICK x \in Nat : x = s[k].window
                              BY <1>7, <7>1
                          <7>3. x + Window <= instant
                              BY <2>6, <7>1, <7>2
                          <7> QED BY <1>3, <7>1, <7>2, <7>3, Numbers
                      <6> QED BY <6>1, <6>2
                  <5>2. e[i].window \in Nat /\ e[j].window \in Nat /\ e[j].window <= instant
                      BY <5>1
                  <5>3. e[i].window # instant
                      BY <1>3, <5>2
                  <5> QED BY <2>2, <2>5, <5>3
              <4>2. CASE j = n
                  BY <2>2, <2>5, <2>6, <4>1, <4>2
              <4>3. CASE j # n
                  BY <1>6, <2>5, <4>1, <4>3 DEF Windowed
              <4> QED BY <4>2, <4>3
          <3>3. \A i \in DOMAIN e : \E j \in DOMAIN e : e[j].window = e[i].window /\ e[j].at = e[j].window
              BY <1>6, <2>2, <2>5 DEF Windowed
          <3>4. \A w \in Nat : Cardinality(InWindow(e, w)) <= MaxTries
              BY <1>6, <2>5, <2>8, Numbers DEF Windowed
          <3> QED BY <3>1, <3>2, <3>3, <3>4 DEF Windowed
      <2>10. BucketLast(e, c)
          BY <1>3, <1>7, <2>1, <2>2, <2>5, <2>6, <2>8, Numbers DEF BucketLast
      <2>11. AttemptsGood(e, c)
          BY <2>1, <2>9, <2>10 DEF AttemptsGood, NoBucket
      <2> QED BY <1>8, <2>1, <2>3, <2>4, <2>11 DEF e
  <1>10. CASE ~(b = NoBucket \/ instant - b.start >= Window)
      <2> DEFINE c == [count |-> b.count + 1, start |-> b.start]
                 a == [at |-> instant, window |-> b.start]
                 e == Append(s, a)
                 n == Len(s) + 1
      <2>1. c \in [count : Nat, start : Nat] /\ c.count = b.count + 1 /\ c.start = b.start
          BY <1>3, <1>4
      <2>2. a \in Attempts /\ a.at = instant /\ a.window = b.start
          BY <1>3, <1>4 DEF Attempts
      <2>3. bucket' = [SweepLocked EXCEPT ![p] = c] /\ b.count < MaxTries
          BY <1>2, <1>3, <1>10 DEF Allow, Admits, Counted, WindowOver
      <2>4. a = [at |-> instant, window |-> c.start]
          BY <2>1
      <2> HIDE DEF c, a
      <2>5. /\ DOMAIN e = DOMAIN s \cup {n} /\ n \notin DOMAIN s
            /\ e[n] = a /\ \A i \in DOMAIN s : e[i] = s[i]
            /\ \A w \in Nat : w # b.start => InWindow(e, w) = InWindow(s, w)
            /\ Cardinality(InWindow(e, b.start)) = Cardinality(InWindow(s, b.start)) + 1
            /\ Cardinality(InWindow(s, b.start)) \in Nat
          <3>1. Adds(s, a, e, n)
              BY DEF Adds
          <3> HIDE DEF e, n
          <3>2. Added(s, a, e, n)
              BY <1>3, <2>2, <3>1, AttemptAdded
          <3>3. b.start = a.window /\ b.start \in Nat
              BY <1>3, <1>4, <2>2
          <3> QED BY <3>2, <3>3 DEF Added
      <2> HIDE DEF e, n
      <2>6. BucketLast(s, b)
          BY <1>5, <1>10 DEF AttemptsGood
      <2>7. instant < b.start + Window /\ b.start <= instant
          BY <1>3, <1>4, <1>10, <2>6, Numbers DEF BucketLast
      <2>8. Cardinality(InWindow(e, b.start)) = b.count + 1
          BY <2>5, <2>6 DEF BucketLast
      <2>9. \E j \in DOMAIN s : s[j].window = b.start /\ s[j].at = s[j].window
          <3>1. InWindow(s, b.start) # {}
              <4>1. Cardinality(InWindow(s, b.start)) = b.count /\ b.count # 0
                  BY <1>4, <2>6 DEF BucketLast
              <4>2. PICK g : g = InWindow(s, b.start)
                  OBVIOUS
              <4>3. g = {} => Cardinality(g) = 0
                  BY FS_EmptySet
              <4> QED BY <4>1, <4>2, <4>3
          <3>2. PICK i \in DOMAIN s : s[i].window = b.start
              BY <3>1 DEF InWindow
          <3> QED BY <1>6, <3>2 DEF Windowed
      <2>10. Windowed(e)
          <3>1. \A i \in DOMAIN e : e[i].window <= e[i].at /\ e[i].at < e[i].window + Window
              BY <1>3, <1>6, <2>2, <2>5, <2>7 DEF Windowed
          <3>2. \A i, j \in DOMAIN e : e[i].window < e[j].window => e[i].window + Window <= e[j].window
              <4> SUFFICES ASSUME NEW i \in DOMAIN e, NEW j \in DOMAIN e, e[i].window < e[j].window
                           PROVE e[i].window + Window <= e[j].window
                  OBVIOUS
              <4>1. PICK k \in DOMAIN s : e[i].window = s[k].window
                  BY <2>2, <2>5, <2>9
              <4>2. PICK l \in DOMAIN s : e[j].window = s[l].window
                  BY <2>2, <2>5, <2>9
              <4> QED BY <1>6, <4>1, <4>2 DEF Windowed
          <3>3. \A i \in DOMAIN e : \E j \in DOMAIN e : e[j].window = e[i].window /\ e[j].at = e[j].window
              BY <1>6, <2>2, <2>5, <2>9 DEF Windowed
          <3>4. \A w \in Nat : Cardinality(InWindow(e, w)) <= MaxTries
              BY <1>4, <1>6, <2>3, <2>5, <2>8, Numbers DEF Windowed
          <3> QED BY <3>1, <3>2, <3>3, <3>4 DEF Windowed
      <2>11. BucketLast(e, c)
          BY <1>3, <1>4, <1>7, <2>1, <2>2, <2>5, <2>6, <2>7, <2>8 DEF BucketLast
      <2>12. AttemptsGood(e, c)
          <3>1. c # NoBucket
              BY <1>4, <2>1 DEF NoBucket
          <3> QED BY <2>10, <2>11, <3>1 DEF AttemptsGood
      <2> QED BY <1>8, <2>1, <2>3, <2>4, <2>12 DEF e
  <1> QED BY <1>9, <1>10

\* A login attempt passes the gate and the limiter.
LEMMA LoginKeeps == ASSUME SessionsInv, NEW v \in Visits, NEW p \in People, HandleLogin(v, p) PROVE SessionsInv'
  <1>1. /\ visit[v] = NoVisit /\ Allow(p) /\ gate' \in BOOLEAN
        /\ tries' = [tries EXCEPT ![p] = Append(@, [at |-> instant, window |-> bucket'[p].start])]
        /\ UNCHANGED <<instant, credential, group, outSince, account, jar>>
        /\ lastSweep' \in Int
      BY DEF HandleLogin, SetupGate, Allow, SessionsInv, SessionsTypes
  <1>2. /\ LimiterGood' /\ bucket' \in [People -> [count : Nat, start : Nat]]
        /\ tries' \in [People -> Seq(Attempts)]
      BY <1>1, AllowKeeps
  <1>3. visit \in [Visits -> VisitStates] /\ account' \in [Directory -> DNs]
      BY <1>1 DEF SessionsInv, SessionsTypes
  <1>4. PICK pc \in {"authenticate", "password"} : visit' = [visit EXCEPT ![v].pc = pc, ![v].who = p]
      BY DEF HandleLogin
  <1> DEFINE x == [NoVisit EXCEPT !.pc = pc, !.who = p]
  <1>5. visit' = [visit EXCEPT ![v] = x]
      BY <1>1, <1>3, <1>4
  <1>6. x \in VisitStates /\ x.pc = pc /\ x.sets = FALSE
      BY NoneGood DEF VisitStates
  <1> HIDE DEF x
  <1>7. VisitGood(x)
      BY <1>6 DEF VisitGood
  <1> QED BY <1>1, <1>2, <1>3, <1>5, <1>6, <1>7, VisitMoves

\* The limiter refuses an attempt; its sweep stays.
LEMMA LimitedKeeps == ASSUME SessionsInv, NEW p \in People, LoginLimited(p) PROVE SessionsInv'
  <1>1. SessionsTypes /\ UNCHANGED <<instant, credential, group, outSince, account, jar, visit, tries>>
      BY DEF SessionsInv, LoginLimited
  <1>2. bucket' = [q \in People |-> SweepLocked[q]]
      BY DEF LoginLimited, SweepLocked
  <1>3. bucket' \in [People -> [count : Nat, start : Nat]]
      BY <1>2, SweptGood
  <1>4. gate' \in BOOLEAN /\ lastSweep' \in Int
      BY <1>1 DEF LoginLimited, SetupGate, SessionsTypes
  <1>5. SessionsTypes'
      BY <1>1, <1>3, <1>4 DEF SessionsTypes
  <1>6. JarGood' /\ VisitsGood'
      BY <1>1 DEF SessionsInv, JarGood, VisitsGood, VisitGood, CookieGood, SinceIn, InLately, OutFor
  <1>7. LimiterGood'
      <2> SUFFICES ASSUME NEW q \in People, NEW s, NEW d, s = tries'[q], d = bucket'[q] PROVE AttemptsGood(s, d)'
          BY DEF LimiterGood
      <2>1. AttemptsGood(s, d)
          BY <1>1, <1>2, SweptGood
      <2> QED BY <1>1, <2>1, AttemptsStay
  <1> QED BY <1>5, <1>6, <1>7 DEF SessionsInv

\* A browser logs out.
LEMMA LogoutKeeps == ASSUME SessionsInv, NEW v \in Visits, NEW p \in People, HandleLogout(v, p) PROVE SessionsInv'
  <1>1. gate' \in BOOLEAN /\ UNCHANGED <<instant, credential, group, outSince, account, jar, bucket, lastSweep, tries>>
      BY DEF HandleLogout, SetupGate
  <1>2. account' \in [Directory -> DNs]
      BY <1>1 DEF SessionsInv, SessionsTypes
  <1> DEFINE x == [NoVisit EXCEPT !.pc = "answer", !.who = p]
  <1>3. visit' = [visit EXCEPT ![v] = x]
      BY DEF HandleLogout
  <1>4. x \in VisitStates /\ x.pc = "answer" /\ x.sets = FALSE /\ x.cookie = NoCookie
      BY NoneGood DEF VisitStates, NoVisit
  <1> HIDE DEF x
  <1>5. VisitGood(x)
      BY <1>4, NoneGood DEF VisitGood, CookieGood
  <1> QED BY <1>1, <1>2, <1>3, <1>4, <1>5, LimiterStays, VisitMoves

\* The credential is set, or someone's entry moves: a request's DN goes stale.
LEMMA RestKeeps ==
    ASSUME SessionsInv, Setup \/ (\E p \in Directory : Moves(p))
    PROVE SessionsInv'
  <1>1. SessionsTypes /\ UNCHANGED <<instant, group, outSince, jar, bucket, lastSweep, tries>>
      BY DEF SessionsInv, Setup, Moves
  <1>2. credential' \in BOOLEAN /\ gate' \in BOOLEAN
      BY <1>1 DEF Setup, Moves, SessionsTypes
  <1>3. account' \in [Directory -> DNs]
      BY <1>1 DEF Setup, Moves, SessionsTypes, DNs
  <1>4. /\ visit' = [v \in Visits |-> visit'[v]]
        /\ \A v \in Visits : visit'[v] = visit[v] \/ visit'[v] = [visit[v] EXCEPT !.dn = "moved"]
      BY <1>1 DEF Setup, Moves, SessionsTypes
  <1>5. ASSUME NEW v \in Visits, NEW x, x = visit'[v] PROVE x \in VisitStates /\ VisitGood(x)
      <2>1. PICK r : r = visit[v]
          OBVIOUS
      <2>2. r \in VisitStates /\ VisitGood(r)
          BY <2>1, VisitKnown
      <2>3. CASE x = r
          BY <2>2, <2>3
      <2>4. CASE x = [r EXCEPT !.dn = "moved"]
          <3>1. /\ x \in VisitStates /\ x.pc = r.pc /\ x.who = r.who /\ x.cookie = r.cookie /\ x.at = r.at
                /\ x.asked = r.asked /\ x.held = r.held /\ x.sets = r.sets
              BY <2>2, <2>4 DEF VisitStates
          <3> QED BY <2>2, <3>1 DEF VisitGood, InLately
      <2> QED BY <1>4, <1>5, <2>1, <2>3, <2>4
  <1>6. SessionsTypes'
      <2>1. visit' \in [Visits -> VisitStates]
          BY <1>4, <1>5
      <2> QED BY <1>1, <1>2, <1>3, <2>1 DEF SessionsTypes
  <1>7. JarGood'
      BY <1>1 DEF SessionsInv, JarGood, CookieGood, SinceIn
  <1>8. VisitsGood'
      <2> SUFFICES ASSUME NEW v \in Visits, NEW x, x = visit'[v] PROVE VisitGood(x)'
          BY DEF VisitsGood
      <2>1. VisitGood(x)
          BY <1>5
      <2> QED BY <1>1, <2>1 DEF VisitGood, CookieGood, SinceIn, InLately, OutFor
  <1>9. LimiterGood'
      BY <1>1, LimiterStays
  <1> QED BY <1>6, <1>7, <1>8, <1>9 DEF SessionsInv

\* The inductive invariant of sign-ins and sessions, through every step of the
\* browsers, the directory, the limiter and the clock.
THEOREM SessionsInvariance == SessionsSpec => []SessionsInv
  <1>1. SessionsInit => SessionsInv
      BY SessionsInitInv
  <1>2. SessionsInv /\ [Clock \/ Setup \/ SignIns \/ Browsing \/ DirectoryChanges \/ SessionSteps]_sessionVars
        => SessionsInv'
      <2> SUFFICES ASSUME SessionsInv,
                          [Clock \/ Setup \/ SignIns \/ Browsing \/ DirectoryChanges \/ SessionSteps]_sessionVars
                   PROVE SessionsInv'
          OBVIOUS
      <2>1. CASE Clock
          BY <2>1, WorldMoves
      <2>2. CASE Setup
          BY <2>2, RestKeeps
      <2>3. CASE SignIns
          BY <2>3, LoginKeeps, LimitedKeeps DEF SignIns
      <2>4. CASE Browsing
          BY <2>4, RequireKeeps, LogoutKeeps DEF Browsing
      <2>5. CASE DirectoryChanges
          BY <2>5, WorldMoves, RestKeeps DEF DirectoryChanges
      <2>6. CASE SessionSteps
          BY <2>6, LoginStepsKeep, CookiesKeep, ArrivesKeeps, RechecksKeep, ResignKeeps DEF SessionSteps
      <2>7. CASE UNCHANGED sessionVars
          <3>1. SessionsTypes'
              BY <2>7 DEF sessionVars, SessionsInv, SessionsTypes
          <3>2. JarGood'
              BY <2>7 DEF sessionVars, SessionsInv, JarGood, CookieGood, SinceIn
          <3>3. VisitsGood'
              BY <2>7 DEF sessionVars, SessionsInv, VisitsGood, VisitGood, CookieGood, SinceIn, InLately, OutFor
          <3>4. LimiterGood'
              BY <2>7 DEF sessionVars, SessionsInv, LimiterGood, AttemptsGood, WindowsOver, BucketLast
          <3> QED BY <3>1, <3>2, <3>3, <3>4 DEF SessionsInv
      <2> QED BY <2>1, <2>2, <2>3, <2>4, <2>5, <2>6, <2>7
  <1> QED BY <1>1, <1>2, PTL DEF SessionsSpec

\* The types of cookies, requests, rows, buckets and attempts hold.
THEOREM SessionsTypeCorrect == SessionsSpec => []SessionsTypes
  <1>1. SessionsInv => SessionsTypes
      BY DEF SessionsInv
  <1> QED BY <1>1, SessionsInvariance, PTL

\* A request RequireSession lets in is within one lifetime of its login, and an
\* AD one of someone lately in the access group, however many rechecks, logouts
\* and sign-ins overlap.
THEOREM AdmittedRequestsAreCurrent == SessionsSpec => []AdmittedIsCurrent
  <1>1. SessionsInv => AdmittedIsCurrent
      <2> SUFFICES ASSUME SessionsInv, NEW v \in Visits, NEW r, r = visit[v], r.pc = "admitted"
                   PROVE r.at - r.cookie.born <= Lifetime /\ InLately(r)
          BY DEF AdmittedIsCurrent, InLately
      <2>1. VisitGood(r) /\ r.at \in Nat /\ r.cookie.exp \in Nat /\ r.cookie.born \in Nat
          BY VisitKnown
      <2>2. r.at <= r.cookie.exp /\ r.cookie.exp = r.cookie.born + Lifetime
          BY <2>1 DEF VisitGood, CookieGood
      <2> QED BY <2>1, <2>2, Numbers DEF VisitGood
  <1> QED BY <1>1, SessionsInvariance, PTL

\* What windows that do not overlap allow in a stretch as long as one: it meets
\* two of them at most, and the attempt that opens the earlier one lies before it.
LEMMA WindowsLimit ==
    ASSUME NEW s \in Seq(Attempts), Windowed(s), NEW t \in Nat, NEW A,
           A = {i \in DOMAIN s : t <= s[i].at /\ s[i].at < t + Window}
    PROVE Cardinality(A) < 2 * MaxTries
  <1>1. \A i \in DOMAIN s : s[i].at \in Nat /\ s[i].window \in Nat
      BY AttemptsAre
  <1>2. IsFiniteSet(DOMAIN s)
      BY FS_Interval
  <1>3. \A S : S \subseteq DOMAIN s => IsFiniteSet(S) /\ Cardinality(S) \in Nat
      BY <1>2, FS_Subset, FS_CardinalityType
  <1>4. \A w \in Nat : InWindow(s, w) \subseteq DOMAIN s /\ Cardinality(InWindow(s, w)) <= MaxTries
      BY DEF InWindow, Windowed
  <1>5. A \subseteq DOMAIN s
      OBVIOUS
  <1>6. \A i \in A : i \in DOMAIN s /\ s[i].window < t + Window /\ t < s[i].window + Window
      <2> SUFFICES ASSUME NEW i \in A PROVE i \in DOMAIN s /\ s[i].window < t + Window /\ t < s[i].window + Window
          OBVIOUS
      <2>1. i \in DOMAIN s /\ t <= s[i].at /\ s[i].at < t + Window
          OBVIOUS
      <2>2. s[i].window <= s[i].at /\ s[i].at < s[i].window + Window
          BY <2>1 DEF Windowed
      <2>3. PICK a \in Nat, w \in Nat : a = s[i].at /\ w = s[i].window
          BY <1>1, <2>1
      <2> QED BY <2>1, <2>2, <2>3, Numbers
  <1>7. CASE A = {}
      <2>1. Cardinality(A) = 0
          BY <1>7, FS_EmptySet
      <2> QED BY <2>1, Numbers
  <1>8. CASE A # {} /\ \A i, j \in A : s[i].window = s[j].window
      <2>1. PICK i \in A : TRUE
          BY <1>8
      <2>2. PICK w \in Nat : w = s[i].window
          BY <1>1, <1>5, <2>1
      <2>3. A \subseteq InWindow(s, w)
          BY <1>5, <1>8, <2>1, <2>2 DEF InWindow
      <2>4. Cardinality(A) <= Cardinality(InWindow(s, w))
          BY <1>3, <1>4, <2>3, FS_Subset
      <2>5. Cardinality(A) \in Nat /\ Cardinality(InWindow(s, w)) \in Nat /\ Cardinality(InWindow(s, w)) <= MaxTries
          BY <1>3, <1>4, <1>5
      <2> QED BY <2>4, <2>5, Numbers
  <1>9. CASE \E i, j \in A : s[i].window # s[j].window
      <2>1. PICK i \in A, j \in A : s[i].window < s[j].window
          BY <1>1, <1>5, <1>9
      <2>2. PICK w \in Nat, z \in Nat : w = s[i].window /\ z = s[j].window
          BY <1>1, <1>5, <2>1
      <2>3. w + Window <= z /\ z < t + Window /\ t < w + Window
          BY <1>5, <1>6, <2>1, <2>2 DEF Windowed
      <2>4. PICK k \in DOMAIN s : s[k].window = w /\ s[k].at = w
          BY <1>5, <2>1, <2>2 DEF Windowed
      <2>5. k \notin A
          BY <2>2, <2>3, <2>4, Numbers
      <2> DEFINE B == InWindow(s, w) \ {k}
                 C == InWindow(s, z)
      <2>6. ASSUME NEW l \in A PROVE s[l].window \in {w, z}
          <3>1. PICK x \in Nat : x = s[l].window
              BY <1>1, <1>5
          <3>2. /\ x < w => x + Window <= w
                /\ w < x => w + Window <= x
                /\ x < z => x + Window <= z
                /\ z < x => z + Window <= x
              BY <1>5, <2>1, <2>2, <3>1 DEF Windowed
          <3>3. x < t + Window /\ t < x + Window
              BY <1>6, <3>1
          <3>0. \A a, b, c, d, n \in Nat : ~(a + n <= b /\ b + n <= c /\ c < d + n /\ d < a + n)
              OBVIOUS
          <3>4. ~(x < w)
              BY <2>3, <3>0, <3>2, <3>3, Numbers
          <3>5. ~(w < x /\ x < z)
              BY <2>3, <3>0, <3>2, <3>3, Numbers
          <3>6. ~(z < x)
              <4>1. t < z
                  BY <2>2, <2>3, Numbers
              <4>2. z < x => z < t
                  BY <2>2, <3>1, <3>2, <3>3, Numbers
              <4> QED BY <2>2, <4>1, <4>2
          <3>7. x = w \/ x = z
              BY <2>2, <2>3, <3>1, <3>4, <3>5, <3>6, Numbers
          <3> QED BY <3>1, <3>7
      <2>7. A \subseteq B \cup C
          BY <1>5, <2>5, <2>6 DEF InWindow
      <2>8. B \subseteq DOMAIN s /\ C \subseteq DOMAIN s /\ InWindow(s, w) \subseteq DOMAIN s /\ k \in InWindow(s, w)
          BY <1>4, <2>2, <2>4 DEF InWindow
      <2>9. Cardinality(B) = Cardinality(InWindow(s, w)) - 1
          BY <1>3, <2>8, FS_RemoveElement
      <2>10. IsFiniteSet(B) /\ IsFiniteSet(C) /\ Cardinality(B) \in Nat /\ Cardinality(C) \in Nat
          BY <1>3, <2>8
      <2>11. Cardinality(InWindow(s, w)) <= MaxTries /\ Cardinality(C) <= MaxTries /\ Cardinality(InWindow(s, w)) \in Nat
          BY <1>3, <1>4, <2>2, <2>8
      <2> HIDE DEF B, C
      <2>12. B \cup C \subseteq DOMAIN s /\ B \cap C \subseteq DOMAIN s
          BY <2>8
      <2>13. Cardinality(B \cup C) = Cardinality(B) + Cardinality(C) - Cardinality(B \cap C)
          BY <2>10, FS_Union
      <2>14. Cardinality(B \cap C) \in Nat /\ IsFiniteSet(B \cup C) /\ Cardinality(B \cup C) \in Nat
          BY <1>3, <2>12
      <2>15. Cardinality(A) <= Cardinality(B \cup C) /\ Cardinality(A) \in Nat
          BY <1>3, <1>5, <2>7, <2>14, FS_Subset
      <2>16. \A n, u, b, c, o, x, m \in Nat :
                n <= u /\ u = b + c - o /\ b = x - 1 /\ x <= m /\ c <= m => n < 2 * m
          OBVIOUS
      <2> QED BY <2>9, <2>10, <2>11, <2>13, <2>14, <2>15, <2>16, Numbers
  <1> QED BY <1>7, <1>8, <1>9

\* The limiter lets fewer than twice its attempts through in any stretch as long
\* as its window, sweeps included.
THEOREM LoginAttemptsAreLimited == SessionsSpec => []AttemptsLimited
  <1>1. SessionsInv => AttemptsLimited
      <2> SUFFICES ASSUME SessionsInv, NEW p \in People, NEW t \in 0..LastInstant, NEW s, s = tries[p], NEW A,
                          A = {i \in DOMAIN s : t <= s[i].at /\ s[i].at < t + Window}
                   PROVE Cardinality(A) < 2 * MaxTries
          BY DEF AttemptsLimited
      <2>1. s \in Seq(Attempts) /\ Windowed(s)
          BY DEF SessionsInv, SessionsTypes, LimiterGood, AttemptsGood
      <2>2. t \in Nat
          BY Numbers
      <2> QED BY <2>1, <2>2, WindowsLimit
  <1> QED BY <1>1, SessionsInvariance, PTL


-----------------------------------------------------------------------------
(* Administration.                                                         *)

\* Where a request has read what it decides on; where it has changed the row and
\* not recorded it; where the change may still be put back.
PastCheck == FormPCs \ {"idle", "service"}
Unrecorded == {"backfill", "match", "cache", "prune", "audit"}
Changed == Unrecorded \cup {"undo"}

\* A request is about the kind of row of its operation and writes a value of it.
FormFits(f) ==
    /\ f.op \in {"map", "unmap"} <=> f.key[1] = "mapping"
    /\ f.op \in {"add member", "remove member"} <=> f.key[1] = "member"
    /\ f.op \in {"create group", "rename group", "delete group"} <=> f.key[1] = "group"
    /\ f.op \in {"map", "add member"} => f.to = "yes"
    /\ f.op \in {"unmap", "remove member", "delete group"} => f.to = Absent
    /\ f.op \in {"create group", "rename group"} => f.to # Absent
    /\ f.op = "rename group" /\ f.pc \in PastCheck => f.from # Absent
    /\ f.pc \in {"backfill", "match", "cache"} => f.op = "map"
    /\ f.key[1] = "tier" => f.op \in {"elevate", "create account"}
    /\ f.op = "create account" => f.key[2] \in LocalStaff
    /\ f.pc = "undo" => Undoes(f.op)
FormsFit == \A r \in Forms : FormFits(form[r])

\* A row that is there, or was written, was created, and one never created has
\* been recorded as absent with everything that belongs to it.
MadeKnown ==
    /\ \A k \in RowKeys : Exists(k) => k \in made
    /\ \A r \in Forms : form[r].pc \in Changed => form[r].key \in made
    /\ \A k \in RowKeys \ made : \A q \in RowKeys : Subject(q) = k => Absent \in ever[q]

\* A tier is changed only once its account was there.
TiersMade == \A r \in Forms : form[r].pc \in PastCheck /\ form[r].op = "elevate" => form[r].key \in made

\* Of requests about one subject that are past their check, two cross.
Apart ==
    \A r, q \in Forms :
        /\ form[r].pc \in PastCheck /\ form[q].pc \in PastCheck
        /\ Subject(form[r].key) = Subject(form[q].key) /\ Subject(form[r].key) \notin crossed
        => r = q

\* Without crossings, a row is what the log says or what the one request under
\* way wrote, which would put back what the log says.
Clean(k) == Subject(k) \notin kept \cup crossed
Accounted(k) ==
    Clean(k) => value[k] = said[k] \/ \E r \in Forms : form[r].pc \in Changed /\ k \in Recorded(form[r])
Exact(f) ==
    Clean(f.key) =>
        /\ f.pc = "write" => value[f.key] = f.from
        /\ f.pc \in Changed =>
              /\ \A k \in Recorded(f) : value[k] = f.to
              /\ Undoes(f.op) => said[f.key] = UndoValue(f)
              /\ f.op = "create group" => \A k \in RowKeys : Subject(k) = f.key => said[k] = Absent
LogExact == (\A k \in RowKeys : Accounted(k)) /\ \A r \in Forms : Exact(form[r])

\* With crossings, and one record lost at most: a value was recorded, or some
\* request, other than the one of S, is about to record it.
Vouched(forms, log, k, v, S) ==
    v \in log[k] \/ \E q \in Forms \ S : forms[q].pc \in Unrecorded /\ k \in Recorded(forms[q]) /\ forms[q].to = v
OneUndo ==
    /\ lapses = 0 => \A r \in Forms : form[r].pc # "undo"
    /\ lapses = 1 => \A r, q \in Forms : form[r].pc = "undo" /\ form[q].pc = "undo" => r = q
ValueKnown(k) ==
    lapses <= 1 /\ Subject(k) \notin kept =>
        \/ Vouched(form, ever, k, value[k], {})
        \/ \E r \in Forms : form[r].pc = "undo" /\ k \in Recorded(form[r])
UndoKnown(r) ==
    LET f == form[r] IN
    Subject(f.key) \notin kept /\ Undoes(f.op) =>
        /\ lapses = 0 /\ f.pc = "write" => Vouched(form, ever, f.key, f.from, {r})
        /\ (lapses = 0 /\ f.pc \in Unrecorded) \/ (lapses = 1 /\ f.pc = "undo") =>
              /\ Vouched(form, ever, f.key, UndoValue(f), {r})
              /\ f.op = "create group" => \A k \in RowKeys : Subject(k) = f.key => Absent \in ever[k]
LogKnown == OneUndo /\ (\A k \in RowKeys : ValueKnown(k)) /\ \A r \in Forms : UndoKnown(r)

\* The cache, and what is on its way into it, is of people who were in the group.
CacheKnown ==
    /\ inAd \subseteq wasIn /\ cached \subseteq wasIn
    /\ \A r \in Forms : form[r].pc \in {"match", "cache"} => \A u \in form[r].found : <<u, form[r].key[3]>> \in wasIn
    /\ \A u \in Staff : refresh[u].pc = "replace" => \A d \in refresh[u].dns : <<u, d>> \in wasIn

AdministrationInv ==
    AdministrationTypes /\ FormsFit /\ MadeKnown /\ TiersMade /\ Apart /\ LogExact /\ LogKnown /\ CacheKnown

\* The keys there are.
LEMMA KeyFacts ==
    /\ \A u \in Staff, x \in {"tier", "password", "display", "theme"} : <<x, u, None>> \in RowKeys
    /\ \A x \in {"default theme", "log retention", "alert retention"} : <<x, None, None>> \in RowKeys
    /\ \A g \in AppGroups : <<"group", g, None>> \in RowKeys
    /\ \A g \in AppGroups, d \in AdGroups : <<"mapping", g, d>> \in RowKeys
    /\ \A g \in AppGroups, u \in Staff : <<"member", g, u>> \in RowKeys
    /\ \A p \in Profiles : <<"profile", p, None>> \in RowKeys
    /\ \A n \in Nodes, x \in {"node", "comment", "interface"} : <<x, n, None>> \in RowKeys
  <1>1. /\ {"tier", "password", "display", "theme"} \X Staff \X {None} \subseteq RowKeys
        /\ {"default theme", "log retention", "alert retention"} \X {None} \X {None} \subseteq RowKeys
        /\ {"group"} \X AppGroups \X {None} \subseteq RowKeys
        /\ {"mapping"} \X AppGroups \X AdGroups \subseteq RowKeys
        /\ {"member"} \X AppGroups \X Staff \subseteq RowKeys
        /\ {"profile"} \X Profiles \X {None} \subseteq RowKeys
        /\ {"node", "comment", "interface"} \X Nodes \X {None} \subseteq RowKeys
      BY DEF RowKeys
  <1>2. /\ \A u \in Staff, x \in {"tier", "password", "display", "theme"} : <<x, u, None>> \in RowKeys
        /\ \A x \in {"default theme", "log retention", "alert retention"} : <<x, None, None>> \in RowKeys
      BY <1>1
  <1>3. /\ \A g \in AppGroups : <<"group", g, None>> \in RowKeys
        /\ \A g \in AppGroups, d \in AdGroups : <<"mapping", g, d>> \in RowKeys
      BY <1>1
  <1>4. /\ \A g \in AppGroups, u \in Staff : <<"member", g, u>> \in RowKeys
        /\ \A p \in Profiles : <<"profile", p, None>> \in RowKeys
      BY <1>1
  <1>5. \A n \in Nodes, x \in {"node", "comment", "interface"} : <<x, n, None>> \in RowKeys
      BY <1>1
  <1> QED BY <1>2, <1>3, <1>4, <1>5

\* What a key belongs to.
LEMMA SubjectFacts ==
    \A k \in RowKeys :
        /\ Subject(k) \in RowKeys /\ Subject(Subject(k)) = Subject(k)
        /\ k[1] \notin {"mapping", "member"} => Subject(k) = k
        /\ k[1] \in {"mapping", "member"} => Subject(k)[1] = "group" /\ Subject(k) # k
        /\ k[1] = "mapping" => k[3] \in AdGroups
  <1> SUFFICES ASSUME NEW k \in RowKeys
               PROVE  /\ Subject(k) \in RowKeys /\ Subject(Subject(k)) = Subject(k)
                      /\ k[1] \notin {"mapping", "member"} => Subject(k) = k
                      /\ k[1] \in {"mapping", "member"} => Subject(k)[1] = "group" /\ Subject(k) # k
                      /\ k[1] = "mapping" => k[3] \in AdGroups
      OBVIOUS
  <1>1. CASE k[1] \notin {"mapping", "member"}
      BY <1>1 DEF Subject
  <1>2. CASE k[1] \in {"mapping", "member"}
      <2>1. k \in ({"mapping"} \X AppGroups \X AdGroups) \cup ({"member"} \X AppGroups \X Staff)
          BY <1>2 DEF RowKeys
      <2>2. k[2] \in AppGroups /\ (k[1] = "mapping" => k[3] \in AdGroups)
          BY <2>1
      <2>5. Subject(k) = <<"group", k[2], None>>
          BY <1>2 DEF Subject
      <2>6. Subject(k) \in RowKeys
          BY <2>2, <2>5, KeyFacts
      <2>7. Subject(k)[1] = "group"
          BY <2>5
      <2>8. Subject(Subject(k)) = Subject(k)
          BY <2>7 DEF Subject
      <2> QED BY <1>2, <2>2, <2>6, <2>7, <2>8
  <1> QED BY <1>1, <1>2

\* A record is about rows of its request's subject.
LEMMA RecordedFacts ==
    ASSUME NEW f \in FormStates, FormFits(f)
    PROVE  f.key \in Recorded(f) /\ \A k \in Recorded(f) : k \in RowKeys /\ Subject(k) = Subject(f.key)
  <1>1. f.key \in RowKeys
      BY DEF FormStates
  <1>2. f.op = "delete group" => Subject(f.key) = f.key
      BY <1>1, SubjectFacts DEF FormFits
  <1> QED BY <1>1, <1>2 DEF Recorded

\* What a request writes is what its record will say.
LEMMA WritesRecorded ==
    ASSUME NEW f \in FormStates, FormFits(f), NEW k \in RowKeys
    PROVE  Written(f.key, f.to)[k] = IF k \in Recorded(f) THEN f.to ELSE value[k]
  <1>1. (f.key[1] = "group" /\ f.to = Absent) <=> f.op = "delete group"
      BY DEF FormFits
  <1> QED BY <1>1 DEF Written, Recorded

\* What an undo writes: the row, and with a created group its rows.
LEMMA WritesBack ==
    ASSUME NEW f \in FormStates, FormFits(f), f.pc = "undo", NEW k \in RowKeys
    PROVE  Written(f.key, UndoValue(f))[k] =
               IF k = f.key \/ (f.op = "create group" /\ Subject(k) = f.key) THEN UndoValue(f) ELSE value[k]
  <1>1. (f.key[1] = "group" /\ UndoValue(f) = Absent) <=> f.op = "create group"
      BY DEF FormFits, UndoValue, Undoes, PastCheck, FormPCs, Absent
  <1> QED BY <1>1 DEF Written

\* What it takes to write a row.
LEMMA WritableFacts ==
    ASSUME NEW k \in RowKeys, NEW v
    PROVE  /\ k[1] \in {"mapping", "member"} /\ v # Absent => (Writable(k, v) <=> Exists(Subject(k)) /\ ~Exists(k))
           /\ k[1] \in {"group", "mapping", "member"} /\ v = Absent => (Writable(k, v) <=> Exists(k))
           /\ k[1] = "group" /\ v # Absent /\ Writable(k, v) => (k \in made => Exists(k))
  BY DEF Writable

\* What an undo would put back, by what was done.
LEMMA UndoFacts ==
    ASSUME NEW f
    PROVE  /\ f.op \in {"create group", "map", "add member"} => UndoValue(f) = Absent
           /\ f.op \in {"unmap", "remove member"} => UndoValue(f) = "yes"
           /\ f.op \notin {"create group", "map", "add member", "unmap", "remove member"} => UndoValue(f) = f.from
  BY DEF UndoValue

\* The rest of the state while only requests move.
RowsStay == UNCHANGED <<value, made, said, ever, lapses>>
DirectoryStays == UNCHANGED <<cached, inAd, refresh, wasIn>>

\* A request arrives at the service.
Arrived(r, g) ==
    /\ form[r].pc = "idle" /\ g \in FormStates /\ g.pc = "service" /\ FormFits(g)
    /\ form' = [form EXCEPT ![r] = g]
    /\ RowsStay /\ DirectoryStays /\ UNCHANGED <<crossed, kept>>

\* An empty slot has its type.
LEMMA NoFormFits == NoForm \in FormStates /\ FormFits(NoForm) /\ NoForm.pc = "idle"
  <1>1. <<"default theme", None, None>> \in RowKeys
      BY KeyFacts
  <1>2. NoForm \in FormStates
      BY <1>1 DEF NoForm, FormStates, FormPCs, Ops, Contents, Tiers
  <1>3. NoForm.key[1] = "default theme"
      BY DEF NoForm
  <1> QED BY <1>2, <1>3 DEF NoForm, FormFits, PastCheck, FormPCs

\* Who asks is a user or the break-glass account, and what is asked fits.
LEMMA ArrivesFits ==
    ASSUME AdministrationTypes, NEW r \in Forms, NEW who \in Staff \cup {BreakGlass}, NEW op \in Ops, NEW key \in RowKeys,
           NEW to \in Contents, Arrives(r, who, op, key, to),
           op \in {"map", "unmap"} <=> key[1] = "mapping",
           op \in {"add member", "remove member"} <=> key[1] = "member",
           op \in {"create group", "rename group", "delete group"} <=> key[1] = "group",
           op \in {"map", "add member"} => to = "yes",
           op \in {"unmap", "remove member", "delete group"} => to = Absent,
           op \in {"create group", "rename group"} => to # Absent,
           key[1] = "tier" => op \in {"elevate", "create account"},
           op = "create account" => key[2] \in LocalStaff
    PROVE  \E g : Arrived(r, g)
  <1> DEFINE g == [NoForm EXCEPT !.pc = "service", !.op = op, !.who = who, !.tier = ActorFromIdentity(who), !.key = key, !.to = to]
  <1>1. ActorFromIdentity(who) \in Contents
      BY KeyFacts DEF ActorFromIdentity, AdministrationTypes, RowsFit, Contents, Tiers
  <1>2. g \in FormStates /\ g.pc = "service" /\ g.op = op /\ g.key = key /\ g.to = to
      BY <1>1, NoFormFits DEF FormStates, NoForm, FormPCs
  <1>3. FormFits(g)
      BY <1>2 DEF FormFits, PastCheck, FormPCs
  <1>4. form' = [form EXCEPT ![r] = g] /\ form[r].pc = "idle"
      BY NoFormFits DEF Arrives
  <1>5. RowsStay /\ DirectoryStays /\ UNCHANGED <<crossed, kept>>
      BY DEF Arrives, RowsStay, DirectoryStays, directoryVars, historyVars
  <1> HIDE DEF g
  <1> QED BY <1>2, <1>3, <1>4, <1>5 DEF Arrived

\* So do all the handlers.
LEMMA HandlersArrive ==
    ASSUME AdministrationTypes, NEW r \in Forms, NEW who \in Staff \cup {BreakGlass},
           UserForms(r, who) \/ SettingForms(r, who) \/ RegistryForms(r, who) \/ GroupForms(r, who)
    PROVE  \E g : Arrived(r, g)
  <1>0. Absent \notin Values /\ LocalStaff \subseteq Staff
      BY AdministrationAssumption DEF Absent
  <1>1. CASE HandleElevateUser(r, who) \/ HandleCreateLocalAccount(r, who)
      <2>1. PICK u \in Staff, t \in Tiers, op \in {"elevate", "create account"} :
                Arrives(r, who, op, <<"tier", u, None>>, t) /\ (op = "create account" => u \in LocalStaff)
          BY <1>0, <1>1 DEF HandleElevateUser, HandleCreateLocalAccount
      <2> DEFINE k == <<"tier", u, None>>
      <2>2. k \in RowKeys /\ k[1] = "tier" /\ k[2] = u
          BY <2>1, KeyFacts
      <2>3. op \in Ops /\ t \in Contents
          BY <2>1 DEF Ops, Contents, Tiers
      <2>4. Arrives(r, who, op, k, t)
          BY <2>1
      <2> HIDE DEF k
      <2> QED BY <2>1, <2>2, <2>3, <2>4, ArrivesFits
  <1>2. CASE HandleResetLocalAccountPassword(r, who) \/ HandleUpdateDisplayName(r, who) \/ HandleChangeOwnPassword(r, who)
             \/ HandleUpdateTheme(r, who)
      <2>1. PICK u \in Staff, v \in Values, x \in {"password", "display", "theme"}, op \in {"reset password", "own", "own theme"} :
                Arrives(r, who, op, <<x, u, None>>, v)
          BY <1>0, <1>2 DEF HandleResetLocalAccountPassword, HandleUpdateDisplayName, HandleChangeOwnPassword, HandleUpdateTheme
      <2> DEFINE k == <<x, u, None>>
      <2>2. k \in RowKeys /\ k[1] = x
          BY <2>1, KeyFacts
      <2>3. op \in Ops /\ v \in Contents
          BY <2>1 DEF Ops, Contents, Tiers
      <2>4. Arrives(r, who, op, k, v)
          BY <2>1
      <2> HIDE DEF k
      <2> QED BY <2>1, <2>2, <2>3, <2>4, ArrivesFits
  <1>3. CASE HandleUpdateDefaultTheme(r, who) \/ HandleUpdateContainerLogRetention(r, who) \/ HandleUpdateAlertRetention(r, who)
      <2>1. PICK v \in Values, x \in {"default theme", "log retention", "alert retention"} :
                Arrives(r, who, "setting", <<x, None, None>>, v)
          BY <1>3 DEF HandleUpdateDefaultTheme, HandleUpdateContainerLogRetention, HandleUpdateAlertRetention
      <2> DEFINE k == <<x, None, None>>
      <2>2. k \in RowKeys /\ k[1] = x
          BY <2>1, KeyFacts
      <2>3. "setting" \in Ops /\ v \in Contents
          BY <2>1 DEF Ops, Contents, Tiers
      <2>4. Arrives(r, who, "setting", k, v)
          BY <2>1
      <2> HIDE DEF k
      <2> QED BY <2>1, <2>2, <2>3, <2>4, ArrivesFits
  <1>4. CASE HandleCreateGroup(r, who) \/ HandleRenameGroup(r, who)
      <2>1. PICK g \in AppGroups, v \in Values, op \in {"create group", "rename group"} :
                Arrives(r, who, op, <<"group", g, None>>, v)
          BY <1>4 DEF HandleCreateGroup, HandleRenameGroup
      <2> DEFINE k == <<"group", g, None>>
      <2>2. k \in RowKeys /\ k[1] = "group"
          BY <2>1, KeyFacts
      <2>3. op \in Ops /\ v \in Contents
          BY <2>1 DEF Ops, Contents, Tiers
      <2>4. Arrives(r, who, op, k, v)
          BY <2>1
      <2> HIDE DEF k
      <2> QED BY <1>0, <2>1, <2>2, <2>3, <2>4, ArrivesFits
  <1>5. CASE HandleDeleteGroup(r, who)
      <2>1. PICK g \in AppGroups : Arrives(r, who, "delete group", <<"group", g, None>>, Absent)
          BY <1>5 DEF HandleDeleteGroup
      <2> DEFINE k == <<"group", g, None>>
      <2>2. k \in RowKeys /\ k[1] = "group"
          BY <2>1, KeyFacts
      <2>3. "delete group" \in Ops /\ Absent \in Contents
          BY <2>1 DEF Ops, Contents, Tiers
      <2>4. Arrives(r, who, "delete group", k, Absent)
          BY <2>1
      <2> HIDE DEF k
      <2> QED BY <2>1, <2>2, <2>3, <2>4, ArrivesFits
  <1>6. CASE HandleMapADGroup(r, who) \/ HandleUnmapADGroup(r, who)
      <2>1. PICK g \in AppGroups, d \in AdGroups, op \in {"map", "unmap"}, v \in {"yes", Absent} :
                Arrives(r, who, op, <<"mapping", g, d>>, v) /\ (op = "map" => v = "yes") /\ (op = "unmap" => v = Absent)
          BY <1>6 DEF HandleMapADGroup, HandleUnmapADGroup
      <2> DEFINE k == <<"mapping", g, d>>
      <2>2. k \in RowKeys /\ k[1] = "mapping"
          BY <2>1, KeyFacts
      <2>3. op \in Ops /\ v \in Contents
          BY <2>1 DEF Ops, Contents, Tiers
      <2>4. Arrives(r, who, op, k, v)
          BY <2>1
      <2> HIDE DEF k
      <2> QED BY <2>1, <2>2, <2>3, <2>4, ArrivesFits
  <1>7. CASE HandleAddGroupMember(r, who) \/ HandleRemoveGroupMember(r, who)
      <2>1. PICK g \in AppGroups, u \in Staff, op \in {"add member", "remove member"}, v \in {"yes", Absent} :
                /\ Arrives(r, who, op, <<"member", g, u>>, v)
                /\ (op = "add member" => v = "yes") /\ (op = "remove member" => v = Absent)
          BY <1>7 DEF HandleAddGroupMember, HandleRemoveGroupMember
      <2> DEFINE k == <<"member", g, u>>
      <2>2. k \in RowKeys /\ k[1] = "member"
          BY <2>1, KeyFacts
      <2>3. op \in Ops /\ v \in Contents
          BY <2>1 DEF Ops, Contents, Tiers
      <2>4. Arrives(r, who, op, k, v)
          BY <2>1
      <2> HIDE DEF k
      <2> QED BY <2>1, <2>2, <2>3, <2>4, ArrivesFits
  <1>8. CASE HandleCreateProfile(r, who) \/ HandleUpdateProfile(r, who) \/ HandleDeleteProfile(r, who)
      <2>1. PICK p \in Profiles, v \in Values \cup {Absent}, op \in {"create profile", "update profile", "delete profile"} :
                Arrives(r, who, op, <<"profile", p, None>>, v)
          BY <1>8 DEF HandleCreateProfile, HandleUpdateProfile, HandleDeleteProfile
      <2> DEFINE k == <<"profile", p, None>>
      <2>2. k \in RowKeys /\ k[1] = "profile"
          BY <2>1, KeyFacts
      <2>3. op \in Ops /\ v \in Contents
          BY <2>1 DEF Ops, Contents, Tiers
      <2>4. Arrives(r, who, op, k, v)
          BY <2>1
      <2> HIDE DEF k
      <2> QED BY <2>1, <2>2, <2>3, <2>4, ArrivesFits
  <1>9. CASE HandleRegisterNode(r, who) \/ HandleUpdateNode(r, who) \/ HandleUpdateNodeComment(r, who)
      <2>1. PICK n \in Nodes, v \in Values \cup {Absent}, op \in {"register node", "set interface", "set comment"},
                 x \in {"node", "interface", "comment"} : Arrives(r, who, op, <<x, n, None>>, v)
          BY <1>9 DEF HandleRegisterNode, HandleUpdateNode, HandleUpdateNodeComment
      <2> DEFINE k == <<x, n, None>>
      <2>2. k \in RowKeys /\ k[1] = x
          BY <2>1, KeyFacts
      <2>3. op \in Ops /\ v \in Contents
          BY <2>1 DEF Ops, Contents, Tiers
      <2>4. Arrives(r, who, op, k, v)
          BY <2>1
      <2> HIDE DEF k
      <2> QED BY <2>1, <2>2, <2>3, <2>4, ArrivesFits
  <1> QED BY <1>1, <1>2, <1>3, <1>4, <1>5, <1>6, <1>7, <1>8, <1>9 DEF UserForms, SettingForms, RegistryForms, GroupForms

\* A service that lets a request through has read the row, and a group that is
\* renamed, or an account whose tier changes, is there.
Checked(r) ==
    /\ form[r].pc = "service" /\ (form[r].op \in {"rename group", "elevate"} => Exists(form[r].key))
    /\ Permitted(r, TRUE)

\* Every service does.
LEMMA ServicesCheck ==
    ASSUME NEW r \in Forms,
           \/ ElevateTier(r) \/ CreateLocalAccount(r) \/ ResetLocalAccountPassword(r) \/ UpdateOwnAccount(r)
           \/ UpdateOwnTheme(r) \/ UpdateDefaultTheme(r) \/ UpdateContainerLogRetention(r) \/ UpdateAlertRetention(r)
           \/ CreateGroup(r) \/ RenameGroup(r) \/ DeleteGroup(r)
           \/ MapADGroup(r) \/ UnmapADGroup(r) \/ AddLocalMember(r) \/ RemoveLocalMember(r)
           \/ CreateProfile(r) \/ UpdateProfile(r) \/ DeleteProfile(r)
           \/ RegisterNode(r) \/ SetDefaultTransferInterface(r) \/ SetComment(r)
    PROVE  Checked(r)
  <1>1. form[r].pc = "service" /\ \E rule : Permitted(r, rule)
      BY DEF Reading, ElevateTier, CreateLocalAccount, ResetLocalAccountPassword, UpdateOwnAccount, UpdateOwnTheme,
             SettingRead, UpdateDefaultTheme, UpdateContainerLogRetention, UpdateAlertRetention, CreateGroup, RenameGroup, DeleteGroup, MapADGroup, UnmapADGroup, AddLocalMember,
             RemoveLocalMember, CreateProfile, UpdateProfile, DeleteProfile, RegisterNode,
             SetDefaultTransferInterface, SetComment
  <1>2. (form[r].op = "rename group" => RenameGroup(r)) /\ (form[r].op = "elevate" => ElevateTier(r))
      BY DEF Reading, ElevateTier, CreateLocalAccount, ResetLocalAccountPassword, UpdateOwnAccount, UpdateOwnTheme,
             SettingRead, UpdateDefaultTheme, UpdateContainerLogRetention, UpdateAlertRetention, CreateGroup, RenameGroup, DeleteGroup, MapADGroup, UnmapADGroup, AddLocalMember,
             RemoveLocalMember, CreateProfile, UpdateProfile, DeleteProfile, RegisterNode,
             SetDefaultTransferInterface, SetComment
  <1>3. RenameGroup(r) \/ ElevateTier(r) => Exists(form[r].key)
      BY DEF RenameGroup, ElevateTier, Permitted
  <1>4. Permitted(r, TRUE)
      BY <1>1 DEF Permitted
  <1> QED BY <1>1, <1>2, <1>3, <1>4 DEF Checked

\* One request moves and no other.
LEMMA OneMoves ==
    ASSUME AdministrationTypes, FormsFit, NEW r \in Forms, NEW g \in FormStates, FormFits(g), form' = [form EXCEPT ![r] = g]
    PROVE  /\ form' \in [Forms -> FormStates] /\ FormsFit'
           /\ \A q \in Forms : form'[q] = IF q = r THEN g ELSE form[q]
  <1>1. form' \in [Forms -> FormStates] /\ \A q \in Forms : form'[q] = IF q = r THEN g ELSE form[q]
      BY DEF AdministrationTypes
  <1>2. \A q \in Forms : FormFits(form'[q])
      BY <1>1 DEF FormsFit
  <1> QED BY <1>1, <1>2 DEF FormsFit

\* A request moves on without a change of what it is about.
LEMMA NextPC ==
    ASSUME NEW f \in FormStates, FormFits(f), NEW pc \in FormPCs, f.pc \in PastCheck, pc \in {"backfill", "match", "cache"} => f.op = "map",
           pc = "undo" => Undoes(f.op)
    PROVE  /\ [f EXCEPT !.pc = pc] \in FormStates /\ FormFits([f EXCEPT !.pc = pc])
           /\ [f EXCEPT !.pc = pc].pc = pc /\ [f EXCEPT !.pc = pc].key = f.key /\ [f EXCEPT !.pc = pc].op = f.op
           /\ [f EXCEPT !.pc = pc].from = f.from /\ [f EXCEPT !.pc = pc].to = f.to /\ [f EXCEPT !.pc = pc].found = f.found
  <1> DEFINE g == [f EXCEPT !.pc = pc]
  <1>1. g \in FormStates /\ g.pc = pc /\ g.key = f.key /\ g.op = f.op /\ g.from = f.from /\ g.to = f.to /\ g.found = f.found
      BY DEF FormStates
  <1> HIDE DEF g
  <1>2. FormFits(g)
      BY <1>1 DEF FormFits
  <1> QED BY <1>1, <1>2 DEF g

\* Two requests that differ in nothing the records are about.
Same(f, g) == g.op = f.op /\ g.key = f.key /\ g.from = f.from /\ g.to = f.to

\* What the steps of the requests do to their request, apart from the rows.
FormEnds(r) == form' = [form EXCEPT ![r] = NoForm]
FormMoves(r, pcs) ==
    \E g \in FormStates : FormFits(g) /\ Same(form[r], g) /\ g.pc \in pcs /\ form' = [form EXCEPT ![r] = g]

\* A checked request has read its row.
Reads(r) ==
    \E g \in FormStates :
        /\ FormFits(g) /\ g.op = form[r].op /\ g.key = form[r].key /\ g.to = form[r].to
        /\ g.pc = "write" /\ g.from = value[g.key] /\ form' = [form EXCEPT ![r] = g]

\* Every request that is let through does.
LEMMA CheckedReads ==
    ASSUME AdministrationTypes, FormsFit, NEW r \in Forms, Checked(r) PROVE Reads(r)
  <1> DEFINE f == form[r]
             g == [f EXCEPT !.pc = "write", !.from = value[f.key]]
  <1>1. f \in FormStates /\ FormFits(f)
      BY DEF AdministrationTypes, FormsFit
  <1>2. f.key \in RowKeys /\ value[f.key] \in Contents
      BY <1>1 DEF AdministrationTypes, RowsFit, FormStates
  <1>3. form' = [form EXCEPT ![r] = g]
      BY <1>1 DEF Checked, Permitted, AdministrationTypes
  <1>4. f.op = "rename group" => value[f.key] # Absent
      BY DEF Checked, Exists
  <1> HIDE DEF f
  <1>5. g \in FormStates /\ g.pc = "write" /\ g.from = value[f.key] /\ g.key = f.key /\ g.op = f.op /\ g.to = f.to
      BY <1>1, <1>2 DEF FormStates, FormPCs
  <1> HIDE DEF g
  <1>6. FormFits(g)
      BY <1>1, <1>4, <1>5 DEF FormFits
  <1> QED BY <1>3, <1>5, <1>6 DEF Reads, f

\* Every later step moves its request on or ends it.
LEMMA FormsMove ==
    ASSUME AdministrationTypes, FormsFit, NEW r \in Forms
    PROVE  /\ Write(r) => FormEnds(r) \/ FormMoves(r, Unrecorded)
           /\ GroupMemberDNs(r) \/ FindIDsByLDAPDNs(r) \/ ReplaceMembersOfDN(r) => FormMoves(r, Unrecorded)
           /\ PruneUnmappedMemberships(r) => IF form[r].pc = "prune" THEN FormMoves(r, {"audit"}) ELSE FormEnds(r)
           /\ RecordFails(r) => IF Undoes(form[r].op) THEN FormMoves(r, {"undo"}) ELSE FormEnds(r)
           /\ Undo(r) => IF form[r].op = "map" THEN FormMoves(r, {"prune undone"}) ELSE FormEnds(r)
  <1> DEFINE f == form[r]
  <1>1. f \in FormStates /\ FormFits(f) /\ form \in [Forms -> FormStates]
      BY DEF AdministrationTypes, FormsFit
  <1>2. ASSUME NEW pc \in PastCheck, f.pc \in PastCheck, pc \in {"backfill", "match", "cache"} => f.op = "map", pc = "undo" => Undoes(f.op)
        PROVE  /\ form' = [form EXCEPT ![r].pc = pc] => FormMoves(r, {pc})
               /\ form' = [form EXCEPT ![r] = [f EXCEPT !.pc = pc]] => FormMoves(r, {pc})
      <2>1. pc \in FormPCs
          BY DEF PastCheck
      <2>2. [form EXCEPT ![r].pc = pc] = [form EXCEPT ![r] = [f EXCEPT !.pc = pc]]
          OBVIOUS
      <2> QED BY <1>1, <1>2, <2>1, <2>2, NextPC DEF FormMoves, Same
  <1> USE DEF PastCheck, FormPCs, Unrecorded
  <1>3. Write(r) => FormEnds(r) \/ FormMoves(r, Unrecorded)
      <2> SUFFICES ASSUME Write(r), ~FormEnds(r) PROVE FormMoves(r, Unrecorded)
          OBVIOUS
      <2>1. PICK pc : /\ pc \in {"backfill", "prune", "audit"} /\ (pc = "backfill" => f.op = "map")
                      /\ form' = [form EXCEPT ![r].pc = pc]
          BY DEF Write, FormEnds
      <2>2. FormMoves(r, {pc})
          BY <1>2, <2>1 DEF Write
      <2> QED BY <2>1, <2>2 DEF FormMoves
  <1>4. GroupMemberDNs(r) \/ FindIDsByLDAPDNs(r) => FormMoves(r, Unrecorded)
      <2> SUFFICES ASSUME GroupMemberDNs(r) \/ FindIDsByLDAPDNs(r) PROVE FormMoves(r, Unrecorded)
          OBVIOUS
      <2>1. CASE form' = [form EXCEPT ![r].pc = "audit"]
          <3>1. FormMoves(r, {"audit"})
              BY <1>2, <2>1 DEF GroupMemberDNs, FindIDsByLDAPDNs
          <3> QED BY <3>1 DEF FormMoves
      <2>2. CASE form' # [form EXCEPT ![r].pc = "audit"]
          <3>1. PICK pc \in {"match", "cache"}, x \in SUBSET Staff : form' = [form EXCEPT ![r].pc = pc, ![r].found = x]
              <4>1. CASE GroupMemberDNs(r)
                  BY <2>2, <4>1 DEF GroupMemberDNs
              <4>2. CASE FindIDsByLDAPDNs(r)
                  <5>1. f.found \subseteq Staff
                      BY <1>1 DEF FormStates
                  <5> QED BY <2>2, <4>2, <5>1 DEF FindIDsByLDAPDNs
              <4> QED BY <4>1, <4>2
          <3> DEFINE g == [f EXCEPT !.pc = pc, !.found = x]
          <3>2. f.pc \in {"backfill", "match"}
              BY DEF GroupMemberDNs, FindIDsByLDAPDNs
          <3>3. form' = [form EXCEPT ![r] = g]
              BY <3>1, <1>1
          <3> HIDE DEF f
          <3>4. g \in FormStates /\ g.pc = pc /\ Same(f, g)
              BY <1>1, <3>1 DEF FormStates, Same
          <3> HIDE DEF g
          <3>5. FormFits(g)
              BY <1>1, <3>1, <3>2, <3>4 DEF FormFits, Same
          <3> QED BY <3>1, <3>3, <3>4, <3>5 DEF FormMoves, f
      <2> QED BY <2>1, <2>2
  <1>5. ReplaceMembersOfDN(r) => FormMoves(r, Unrecorded)
      <2>1. ReplaceMembersOfDN(r) => FormMoves(r, {"audit"})
          BY <1>2 DEF ReplaceMembersOfDN
      <2> QED BY <2>1 DEF FormMoves
  <1>6. PruneUnmappedMemberships(r) => IF f.pc = "prune" THEN FormMoves(r, {"audit"}) ELSE FormEnds(r)
      BY <1>2 DEF PruneUnmappedMemberships, FormEnds
  <1>7. RecordFails(r) => IF Undoes(f.op) THEN FormMoves(r, {"undo"}) ELSE FormEnds(r)
      BY <1>2 DEF RecordFails, FormEnds
  <1>8. Undo(r) => IF f.op = "map" THEN FormMoves(r, {"prune undone"}) ELSE FormEnds(r)
      BY <1>2 DEF Undo, FormEnds
  <1> QED BY <1>3, <1>4, <1>5, <1>6, <1>7, <1>8

\* A statement keeps the tables in order.
LEMMA WritesFit ==
    ASSUME AdministrationTypes, NEW k \in RowKeys, NEW v \in Contents, Writable(k, v), value' = Written(k, v),
           k[1] \in {"mapping", "member"} => v \in {"yes", Absent}
    PROVE  RowsFit'
  <1>1. /\ value \in [RowKeys -> Contents]
        /\ \A q \in RowKeys : q[1] \in {"mapping", "member"} =>
               value[q] \in {"yes", Absent} /\ (value[q] # Absent => value[Subject(q)] # Absent)
      BY DEF AdministrationTypes, RowsFit, Exists
  <1>2. \A q \in RowKeys :
            value'[q] = IF q = k \/ (k[1] = "group" /\ v = Absent /\ Subject(q) = k) THEN v ELSE value[q]
      BY DEF Written
  <1>3. value' \in [RowKeys -> Contents]
      BY <1>1 DEF Written
  <1>4. ASSUME NEW q \in RowKeys, q[1] \in {"mapping", "member"}
        PROVE  value'[q] \in {"yes", Absent} /\ (value'[q] # Absent => value'[Subject(q)] # Absent)
      <2>1. Subject(q) \in RowKeys /\ Subject(q)[1] = "group" /\ Subject(q) # q /\ Subject(Subject(q)) = Subject(q)
          BY <1>4, SubjectFacts
      <2>2. CASE q = k
          <3>1. v # Absent => value[Subject(q)] # Absent
              BY <1>4, <2>2, WritableFacts DEF Exists
          <3> QED BY <1>2, <1>4, <2>1, <2>2, <3>1
      <2>3. CASE q # k
          <3>1. CASE Subject(q) = k
              BY <1>1, <1>2, <1>4, <2>1, <2>3, <3>1
          <3>2. CASE Subject(q) # k
              BY <1>1, <1>2, <1>4, <2>1, <2>3, <3>2
          <3> QED BY <3>1, <3>2
      <2> QED BY <2>2, <2>3
  <1> QED BY <1>3, <1>4 DEF RowsFit, Exists

\* Steps of the requests keep the types.
LEMMA RequestsKeepTypes ==
    ASSUME AdministrationTypes, FormsFit, NEW r \in Forms,
           \/ \E g : Arrived(r, g)
           \/ Refused(r) \/ Checked(r) \/ Write(r) \/ GroupMemberDNs(r) \/ FindIDsByLDAPDNs(r) \/ ReplaceMembersOfDN(r)
           \/ PruneUnmappedMemberships(r) \/ Record(r) \/ RecordFails(r) \/ Undo(r) \/ UndoFails(r)
    PROVE  AdministrationTypes' /\ FormsFit'
  <1> DEFINE f == form[r]
  <1>1. f \in FormStates /\ FormFits(f) /\ f.key \in RowKeys /\ Subject(f.key) \in RowKeys /\ f.to \in Contents /\ f.from \in Contents
      BY SubjectFacts DEF AdministrationTypes, FormsFit, FormStates
  <1>0. /\ made \subseteq RowKeys /\ lapses \in Nat /\ said \in [RowKeys -> Contents] /\ ever \in [RowKeys -> SUBSET Contents]
        /\ crossed \subseteq RowKeys /\ kept \subseteq RowKeys /\ cached \subseteq Staff \X AdGroups
        /\ \A q \in Forms : form[q].key \in RowKeys
      BY DEF AdministrationTypes, FormStates
  <1>2. \E g \in FormStates : FormFits(g) /\ form' = [form EXCEPT ![r] = g]
      <2>1. CASE \E g : Arrived(r, g)
          BY <2>1 DEF Arrived
      <2>2. CASE Checked(r)
          BY <2>2, CheckedReads DEF Reads
      <2>3. CASE Refused(r) \/ Record(r) \/ UndoFails(r)
          BY <2>3, NoFormFits DEF Refused, Record, UndoFails
      <2>4. CASE Write(r) \/ GroupMemberDNs(r) \/ FindIDsByLDAPDNs(r) \/ ReplaceMembersOfDN(r) \/ PruneUnmappedMemberships(r) \/ RecordFails(r) \/ Undo(r)
          <3>1. FormEnds(r) \/ \E S : FormMoves(r, S)
              BY <2>4, FormsMove
          <3> QED BY <3>1, NoFormFits DEF FormEnds, FormMoves
      <2> QED BY <2>1, <2>2, <2>3, <2>4
  <1>3. form' \in [Forms -> FormStates] /\ FormsFit'
      BY <1>2, OneMoves
  <1>4. RowsFit'
      <2>1. CASE value' = value
          BY <2>1 DEF AdministrationTypes, RowsFit, Exists
      <2>2. CASE value' # value /\ Write(r)
          <3>1. Writable(f.key, f.to) /\ value' = Written(f.key, f.to)
              BY <2>2 DEF Write
          <3>2. f.key[1] \in {"mapping", "member"} => f.to \in {"yes", Absent}
              BY <1>1 DEF FormFits
          <3> QED BY <1>1, <3>1, <3>2, WritesFit
      <2>3. CASE value' # value /\ Undo(r)
          <3>1. Writable(f.key, UndoValue(f)) /\ value' = Written(f.key, UndoValue(f))
              BY <2>3 DEF Undo
          <3>2. /\ UndoValue(f) \in Contents
                /\ f.key[1] \in {"mapping", "member"} => UndoValue(f) \in {"yes", Absent}
              BY <1>1, UndoFacts DEF FormFits, Contents
          <3> QED BY <1>1, <3>1, <3>2, WritesFit
      <2> QED BY <2>1, <2>2, <2>3 DEF Arrived, RowsStay, Refused, Checked, Permitted, GroupMemberDNs, FindIDsByLDAPDNs, ReplaceMembersOfDN,
                    PruneUnmappedMemberships, Record, RecordFails, UndoFails
  <1>5. UNCHANGED <<inAd, wasIn, refresh>> /\ cached' \subseteq Staff \X AdGroups
      <2>1. UNCHANGED <<inAd, wasIn, refresh>>
          BY DEF Arrived, DirectoryStays, Refused, Checked, Permitted, Write, GroupMemberDNs, FindIDsByLDAPDNs, ReplaceMembersOfDN,
                 PruneUnmappedMemberships, Record, RecordFails, Undo, UndoFails, directoryVars
      <2>2. CASE ReplaceMembersOfDN(r)
          <3>1. f.key[3] \in AdGroups /\ f.found \subseteq Staff
              BY <1>1, <2>2, SubjectFacts DEF ReplaceMembersOfDN, FormFits, FormStates
          <3>2. PICK S, d : S \subseteq Staff /\ d \in AdGroups /\ cached' \subseteq cached \cup {<<u, d>> : u \in S}
              BY <2>2, <3>1 DEF ReplaceMembersOfDN
          <3>3. \A u \in S : <<u, d>> \in Staff \X AdGroups
              BY <3>2
          <3> QED BY <1>0, <2>1, <3>2, <3>3
      <2>3. CASE ~ReplaceMembersOfDN(r)
          <3>1. cached' \subseteq cached
              BY <2>3 DEF Arrived, DirectoryStays, Refused, Checked, Permitted, Write, GroupMemberDNs, FindIDsByLDAPDNs,
                     PruneUnmappedMemberships, Record, RecordFails, Undo, UndoFails, directoryVars
          <3> QED BY <1>0, <2>1, <3>1
      <2> QED BY <2>1, <2>2, <2>3
  <1>6. made' \subseteq RowKeys /\ lapses' \in Nat
      <2>1. made' = made \/ made' = made \cup {f.key}
          BY DEF Arrived, RowsStay, Refused, Checked, Permitted, Write, GroupMemberDNs, FindIDsByLDAPDNs,
                 ReplaceMembersOfDN, PruneUnmappedMemberships, Record, RecordFails, Undo, UndoFails
      <2>2. lapses' = lapses \/ lapses' = lapses + 1
          BY DEF Arrived, RowsStay, Refused, Checked, Permitted, Write, GroupMemberDNs, FindIDsByLDAPDNs,
                 ReplaceMembersOfDN, PruneUnmappedMemberships, Record, RecordFails, Undo, UndoFails, historyVars
      <2> QED BY <1>0, <1>1, <2>1, <2>2
  <1>7. said' \in [RowKeys -> Contents] /\ ever' \in [RowKeys -> SUBSET Contents]
      <2>1. CASE Record(r)
          BY <1>0, <1>1, <2>1 DEF Record
      <2>2. CASE ~Record(r)
          <3>1. UNCHANGED <<said, ever>>
              BY <2>2 DEF Arrived, RowsStay, Refused, Checked, Permitted, Write, GroupMemberDNs, FindIDsByLDAPDNs,
                     ReplaceMembersOfDN, PruneUnmappedMemberships, RecordFails, Undo, UndoFails, historyVars
          <3> QED BY <1>0, <3>1
      <2> QED BY <2>1, <2>2
  <1>8. crossed' \subseteq RowKeys
      <2>1. \A q \in Forms : Subject(form[q].key) \in RowKeys
          BY <1>0, SubjectFacts
      <2>2. crossed' = crossed \/ Checked(r)
          BY DEF Arrived, Refused, Write, GroupMemberDNs, FindIDsByLDAPDNs, ReplaceMembersOfDN, PruneUnmappedMemberships, Record,
                 RecordFails, Undo, UndoFails, historyVars
      <2>3. CASE Checked(r)
          <3>1. \A k \in crossed' : k \in crossed \/ \E q \in Forms : k = Subject(form[q].key)
              BY <2>3 DEF Checked, Permitted
          <3> QED BY <1>0, <2>1, <3>1
      <2> QED BY <1>0, <2>2, <2>3
  <1>9. kept' \subseteq RowKeys
      BY <1>0, <1>1 DEF Arrived, Refused, Checked, Permitted, Write, GroupMemberDNs, FindIDsByLDAPDNs,
             ReplaceMembersOfDN, PruneUnmappedMemberships, Record, RecordFails, Undo, UndoFails, historyVars
  <1> QED BY <1>3, <1>4, <1>5, <1>6, <1>7, <1>8, <1>9 DEF AdministrationTypes

\* So do the directory, the sign-ins and a crash.
LEMMA DirectoryKeepsTypes ==
    ASSUME AdministrationTypes, FormsFit,
           \/ RefreshSteps \/ ServerDies \/ \E u \in Staff : RefreshUser(u) \/ \E d \in AdGroups : AdChanges(u, d)
    PROVE  AdministrationTypes' /\ FormsFit'
  <1>1. CASE ServerDies
      <2>1. form' \in [Forms -> FormStates] /\ \A r \in Forms : FormFits(form'[r])
          BY <1>1, NoFormFits DEF ServerDies
      <2>2. \A r \in Forms : Subject(form[r].key) \in RowKeys
          BY SubjectFacts DEF AdministrationTypes, FormStates
      <2>3. kept' \subseteq RowKeys
          BY <1>1, <2>2 DEF ServerDies, AdministrationTypes
      <2>4. refresh' \in [Staff -> Refreshes]
          BY <1>1 DEF ServerDies, Refreshes
      <2> QED BY <1>1, <2>1, <2>3, <2>4 DEF ServerDies, AdministrationTypes, FormsFit, RowsFit, Exists
  <1>2. CASE ~ServerDies
      <2>1. UNCHANGED <<value, made, form, said, ever, lapses, crossed, kept>>
          BY <1>2 DEF RefreshSteps, MemberOf, ReplaceUserMemberships, RefreshUser, AdChanges, historyVars
      <2>0. /\ cached \subseteq Staff \X AdGroups /\ inAd \subseteq Staff \X AdGroups /\ wasIn \subseteq Staff \X AdGroups
            /\ refresh \in [Staff -> Refreshes]
          BY DEF AdministrationTypes, Refreshes
      <2>2. refresh' \in [Staff -> Refreshes]
          <3>1. refresh' = refresh \/ \E u \in Staff, x \in Refreshes : refresh' = [refresh EXCEPT ![u] = x]
              <4>1. [pc |-> "idle", dns |-> {}] \in Refreshes /\ [pc |-> "ask", dns |-> MappedDNs] \in Refreshes
                  BY DEF Refreshes, MappedDNs
              <4>2. \A u \in Staff : [pc |-> "replace", dns |-> {d \in refresh[u].dns : <<u, d>> \in inAd}] \in Refreshes
                  BY <2>0 DEF Refreshes
              <4> QED BY <1>2, <4>1, <4>2 DEF RefreshSteps, MemberOf, ReplaceUserMemberships, RefreshUser, AdChanges
          <3> QED BY <2>0, <3>1
      <2>3. cached' \subseteq Staff \X AdGroups
          <3>1. \/ cached' = cached
                \/ \E u \in Staff : cached' \subseteq cached \cup {<<u, d>> : d \in refresh[u].dns}
              BY <1>2 DEF RefreshSteps, MemberOf, ReplaceUserMemberships, RefreshUser, AdChanges
          <3>2. \A u \in Staff : \A d \in refresh[u].dns : <<u, d>> \in Staff \X AdGroups
              BY <2>0 DEF Refreshes
          <3> QED BY <2>0, <3>1, <3>2
      <2>4. inAd' \subseteq Staff \X AdGroups /\ wasIn' \subseteq Staff \X AdGroups
          <3>1. \/ inAd' = inAd /\ wasIn' = wasIn
                \/ \E u \in Staff, d \in AdGroups : inAd' \subseteq inAd \cup {<<u, d>>} /\ wasIn' = wasIn \cup inAd'
              BY <1>2 DEF RefreshSteps, MemberOf, ReplaceUserMemberships, RefreshUser, AdChanges
          <3> QED BY <2>0, <3>1
      <2> QED BY <2>1, <2>2, <2>3, <2>4 DEF AdministrationTypes, Refreshes, FormsFit, RowsFit, Exists
  <1> QED BY <1>1, <1>2

\* What the records are about is the same.
LEMMA SameFacts ==
    ASSUME NEW f, NEW g, Same(f, g) PROVE Recorded(g) = Recorded(f) /\ UndoValue(g) = UndoValue(f)
  BY DEF Same, Recorded, UndoValue

\* A step at which no row and no record changes: a request that holds no change
\* arrives or ends, or one moves on towards its record.
Quiet(r) ==
    /\ RowsStay /\ crossed \subseteq crossed' /\ kept \subseteq kept'
    /\ \E g \in FormStates :
         /\ FormFits(g) /\ form' = [form EXCEPT ![r] = g]
         /\ \/ g.pc \in {"idle", "service"} /\ form[r].pc \notin Changed
            \/ Same(form[r], g) /\ form[r].pc \in Unrecorded /\ g.pc \in Unrecorded

\* It keeps what is known of the rows and the log.
LEMMA QuietKeeps ==
    ASSUME AdministrationInv, NEW r \in Forms, Quiet(r)
    PROVE  MadeKnown' /\ Apart' /\ LogExact' /\ LogKnown'
  <1>1. PICK g \in FormStates :
            /\ FormFits(g) /\ form' = [form EXCEPT ![r] = g]
            /\ \/ g.pc \in {"idle", "service"} /\ form[r].pc \notin Changed
               \/ Same(form[r], g) /\ form[r].pc \in Unrecorded /\ g.pc \in Unrecorded
      BY DEF Quiet
  <1>2. \A q \in Forms : form'[q] = IF q = r THEN g ELSE form[q]
      BY <1>1, OneMoves DEF AdministrationInv
  <1>3. \A q \in Forms : form'[q].pc \in PastCheck => form[q].pc \in PastCheck /\ form'[q].key = form[q].key
      BY <1>1, <1>2 DEF PastCheck, FormPCs, Unrecorded, Same
  <1>4. \A q \in Forms : form'[q].pc \in Changed => form[q].pc \in Changed /\ form'[q].key = form[q].key
      BY <1>1, <1>2 DEF Changed, Unrecorded, Same
  <1>5. \A q \in Forms : form[q].pc \in Changed => form'[q].pc \in Changed
      BY <1>1, <1>2 DEF Changed
  <1>6. \A q \in Forms : form[q].pc \in Changed =>
            /\ form[q].pc \in Unrecorded <=> form'[q].pc \in Unrecorded
            /\ form[q].pc = "undo" <=> form'[q].pc = "undo"
            /\ Same(form[q], form'[q])
            /\ Recorded(form'[q]) = Recorded(form[q]) /\ UndoValue(form'[q]) = UndoValue(form[q])
      BY <1>1, <1>2, SameFacts DEF Changed, Unrecorded, Same
  <1>7. \A q \in Forms : form'[q].pc = "write" => form'[q] = form[q]
      BY <1>1, <1>2 DEF Unrecorded
  <1>8. UNCHANGED <<value, made, said, ever, lapses>> /\ crossed \subseteq crossed' /\ kept \subseteq kept'
      BY DEF Quiet, RowsStay
  <1>9. MadeKnown'
      BY <1>4, <1>8 DEF AdministrationInv, MadeKnown, Exists
  <1>10. Apart'
      BY <1>3, <1>8 DEF AdministrationInv, Apart
  <1>11. LogExact'
      <2>1. \A k \in RowKeys : Accounted(k)'
          BY <1>5, <1>6, <1>8 DEF AdministrationInv, LogExact, Accounted, Clean
      <2>2. ASSUME NEW q \in Forms PROVE Exact(form[q])'
          <3>1. Exact(form[q])
              BY DEF AdministrationInv, LogExact
          <3>2. CASE form'[q].pc \in Changed
              BY <1>4, <1>6, <1>8, <3>1, <3>2 DEF Exact, Clean, Changed, Unrecorded, Same
          <3>3. CASE form'[q].pc = "write"
              BY <1>7, <1>8, <3>1, <3>3 DEF Exact, Clean, Changed, Unrecorded
          <3> QED BY <3>2, <3>3 DEF Exact
      <2> QED BY <2>1, <2>2 DEF LogExact
  <1>12. LogKnown'
      <2>1. OneUndo'
          BY <1>4, <1>6, <1>8 DEF AdministrationInv, LogKnown, OneUndo, Changed
      <2>2. \A k \in RowKeys : \A v, S : Vouched(form, ever, k, v, S) => Vouched(form', ever', k, v, S)
          BY <1>6, <1>8 DEF Vouched, Changed, Same
      <2>3. ASSUME NEW k \in RowKeys PROVE ValueKnown(k)'
          <3>1. ValueKnown(k)
              BY DEF AdministrationInv, LogKnown
          <3>2. Vouched(form, ever, k, value[k], {}) => Vouched(form', ever', k, value'[k], {})
              BY <1>8, <2>2
          <3> QED BY <1>6, <1>8, <3>1, <3>2 DEF ValueKnown, Changed
      <2>4. ASSUME NEW q \in Forms PROVE UndoKnown(q)'
          <3>1. UndoKnown(q)
              BY DEF AdministrationInv, LogKnown
          <3>2. CASE form'[q].pc \in Changed
              <4>1. form[q].pc \in Changed /\ form'[q].key = form[q].key /\ form[q].key \in RowKeys
                  BY <1>4, <3>2 DEF AdministrationInv, AdministrationTypes, FormStates
              <4>2. Vouched(form, ever, form[q].key, UndoValue(form[q]), {q}) =>
                        Vouched(form', ever', form'[q].key, UndoValue(form'[q]), {q})
                  BY <1>6, <2>2, <4>1
              <4> QED BY <1>6, <1>8, <3>1, <3>2, <4>1, <4>2 DEF UndoKnown, Changed, Unrecorded, Same
          <3>3. CASE form'[q].pc = "write"
              <4>1. form'[q] = form[q] /\ form[q].key \in RowKeys
                  BY <1>7, <3>3 DEF AdministrationInv, AdministrationTypes, FormStates
              <4>2. Vouched(form, ever, form[q].key, form[q].from, {q}) =>
                        Vouched(form', ever', form'[q].key, form'[q].from, {q})
                  BY <2>2, <4>1
              <4> QED BY <1>8, <3>1, <3>3, <4>1, <4>2 DEF UndoKnown, Unrecorded
          <3> QED BY <3>2, <3>3 DEF UndoKnown, Changed
      <2> QED BY <2>1, <2>3, <2>4 DEF LogKnown
  <1> QED BY <1>9, <1>10, <1>11, <1>12

\* A write that goes through.
Wrote(r) ==
    LET f == form[r] IN
    /\ f.pc = "write" /\ Writable(f.key, f.to) /\ (f.op = "create group" => f.key \notin made)
    /\ value' = Written(f.key, f.to) /\ made' = made \cup {f.key} /\ UNCHANGED <<said, ever, lapses, crossed, kept>>
    /\ FormMoves(r, Unrecorded)

\* Which steps are quiet, and that every other write goes through.
LEMMA QuietSteps ==
    ASSUME AdministrationTypes, FormsFit, NEW r \in Forms
    PROVE  /\ (\E g : Arrived(r, g)) \/ Refused(r) \/ GroupMemberDNs(r) \/ FindIDsByLDAPDNs(r) \/ ReplaceMembersOfDN(r) \/ PruneUnmappedMemberships(r) => Quiet(r)
           /\ Write(r) => Quiet(r) \/ Wrote(r)
  <1>1. (\E g : Arrived(r, g)) => Quiet(r)
      BY DEF Arrived, Quiet, Changed, Unrecorded
  <1>2. ASSUME FormEnds(r), form[r].pc \notin Changed, RowsStay, UNCHANGED <<crossed, kept>> PROVE Quiet(r)
      BY <1>2, NoFormFits DEF FormEnds, Quiet
  <1>3. ASSUME NEW S, FormMoves(r, S), S \subseteq Unrecorded, form[r].pc \in Unrecorded, RowsStay, UNCHANGED <<crossed, kept>>
        PROVE  Quiet(r)
      BY <1>3 DEF FormMoves, Quiet
  <1>4. Refused(r) => Quiet(r)
      BY <1>2 DEF Refused, FormEnds, RowsStay, historyVars, Changed, Unrecorded
  <1>5. GroupMemberDNs(r) \/ FindIDsByLDAPDNs(r) \/ ReplaceMembersOfDN(r) => Quiet(r)
      <2>1. GroupMemberDNs(r) \/ FindIDsByLDAPDNs(r) \/ ReplaceMembersOfDN(r) => RowsStay /\ UNCHANGED <<crossed, kept>> /\ form[r].pc \in Unrecorded
          BY DEF GroupMemberDNs, FindIDsByLDAPDNs, ReplaceMembersOfDN, RowsStay, historyVars, Unrecorded
      <2> QED BY <1>3, <2>1, FormsMove
  <1>6. PruneUnmappedMemberships(r) => Quiet(r)
      <2>1. PruneUnmappedMemberships(r) => RowsStay /\ UNCHANGED <<crossed, kept>> /\ form[r].pc \in {"prune", "prune undone"}
          BY DEF PruneUnmappedMemberships, RowsStay, historyVars
      <2>2. {"audit"} \subseteq Unrecorded
          BY DEF Unrecorded
      <2>3. PruneUnmappedMemberships(r) /\ form[r].pc = "prune" => Quiet(r)
          BY <1>3, <2>1, <2>2, FormsMove DEF Unrecorded
      <2>4. PruneUnmappedMemberships(r) /\ form[r].pc = "prune undone" => Quiet(r)
          BY <1>2, <2>1, FormsMove DEF Changed, Unrecorded
      <2> QED BY <2>1, <2>3, <2>4
  <1>7. Write(r) => Quiet(r) \/ Wrote(r)
      <2> SUFFICES ASSUME Write(r) PROVE Quiet(r) \/ Wrote(r)
          OBVIOUS
      <2>1. CASE FormEnds(r)
          <3>1. form'[r] = NoForm /\ form[r].pc = "write"
              BY <2>1 DEF FormEnds, Write, AdministrationTypes
          <3>2. ASSUME NEW pc, form' = [form EXCEPT ![r].pc = pc], pc \in Unrecorded PROVE FALSE
              <4>1. form \in [Forms -> FormStates]
                  BY DEF AdministrationTypes
              <4>2. form'[r].pc = pc
                  BY <3>2, <4>1 DEF FormStates
              <4> QED BY <3>1, <3>2, <4>2, NoFormFits DEF Unrecorded
          <3>3. UNCHANGED <<value, made>> /\ UNCHANGED historyVars
              BY <3>2 DEF Write, Unrecorded
          <3> QED BY <1>2, <2>1, <3>1, <3>3 DEF RowsStay, historyVars, Changed, Unrecorded
      <2>2. CASE ~FormEnds(r)
          <3>1. FormMoves(r, Unrecorded)
              BY <2>2, FormsMove
          <3> QED BY <2>2, <3>1 DEF Write, Wrote, FormEnds, historyVars
      <2> QED BY <2>1, <2>2
  <1> QED BY <1>1, <1>4, <1>5, <1>6, <1>7

\* What every request is about.
LEMMA FormsRecorded ==
    ASSUME AdministrationTypes, FormsFit
    PROVE  \A q \in Forms : /\ form[q] \in FormStates /\ FormFits(form[q]) /\ form[q].key \in RowKeys
                            /\ form[q].key \in Recorded(form[q])
                            /\ \A k \in Recorded(form[q]) : k \in RowKeys /\ Subject(k) = Subject(form[q].key)
  BY RecordedFacts DEF AdministrationTypes, FormsFit, FormStates

\* The check of a request.
LEMMA CheckKeeps ==
    ASSUME AdministrationInv, NEW r \in Forms, Checked(r)
    PROVE  MadeKnown' /\ Apart' /\ LogExact' /\ LogKnown'
  <1>0. AdministrationTypes /\ FormsFit
      BY DEF AdministrationInv
  <1>1. PICK g \in FormStates :
            /\ FormFits(g) /\ g.op = form[r].op /\ g.key = form[r].key /\ g.to = form[r].to
            /\ g.pc = "write" /\ g.from = value[g.key] /\ form' = [form EXCEPT ![r] = g]
      BY <1>0, CheckedReads DEF Reads
  <1>2. \A q \in Forms : form'[q] = IF q = r THEN g ELSE form[q]
      BY <1>0, <1>1, OneMoves
  <1>3. form[r].pc = "service" /\ UNCHANGED <<value, made, said, ever, lapses, kept>> /\ crossed \subseteq crossed'
      BY DEF Checked, Permitted
  <1>4. \A q \in Forms : form'[q].pc \in Changed \/ form[q].pc \in Changed => q # r /\ form'[q] = form[q]
      BY <1>1, <1>2, <1>3 DEF Changed, Unrecorded
  <1>5. MadeKnown'
      BY <1>3, <1>4 DEF AdministrationInv, MadeKnown, Exists
  <1>6. Apart'
      <2> SUFFICES ASSUME NEW p \in Forms, NEW q \in Forms, form'[p].pc \in PastCheck, form'[q].pc \in PastCheck,
                          Subject(form'[p].key) = Subject(form'[q].key), Subject(form'[p].key) \notin crossed'
                   PROVE  p = q
          BY DEF Apart
      <2>1. \A x \in Forms \ {r} : form[x].pc \in PastCheck /\ Subject(form[x].key) = Subject(form[r].key) =>
                Subject(form[r].key) \in crossed'
          BY DEF Checked, Permitted, PastCheck
      <2>2. CASE p # r /\ q # r
          BY <1>2, <1>3, <2>2 DEF AdministrationInv, Apart
      <2>3. CASE p = r \/ q = r
          BY <1>1, <1>2, <2>1, <2>3
      <2> QED BY <2>2, <2>3
  <1>7. LogExact'
      <2>1. \A k \in RowKeys : Accounted(k)'
          BY <1>3, <1>4 DEF AdministrationInv, LogExact, Accounted, Clean
      <2>2. ASSUME NEW q \in Forms PROVE Exact(form[q])'
          <3>1. CASE q = r
              BY <1>1, <1>2, <1>3, <3>1 DEF Exact, Changed, Unrecorded
          <3>2. CASE q # r
              <4>1. Exact(form[q]) /\ form'[q] = form[q]
                  BY <1>2, <3>2 DEF AdministrationInv, LogExact
              <4> QED BY <1>3, <4>1 DEF Exact, Clean
          <3> QED BY <3>1, <3>2
      <2> QED BY <2>1, <2>2 DEF LogExact
  <1>8. LogKnown'
      <2>1. OneUndo'
          BY <1>3, <1>4 DEF AdministrationInv, LogKnown, OneUndo, Changed
      <2>2. \A k \in RowKeys : \A v : Vouched(form, ever, k, v, {}) => Vouched(form', ever', k, v, {r})
          BY <1>3, <1>4 DEF Vouched, Changed
      <2>3. \A k \in RowKeys : \A v, S : Vouched(form, ever, k, v, S) => Vouched(form', ever', k, v, S)
          BY <1>3, <1>4 DEF Vouched, Changed
      <2>4. ASSUME NEW k \in RowKeys PROVE ValueKnown(k)'
          <3>1. ValueKnown(k) /\ (Vouched(form, ever, k, value[k], {}) => Vouched(form', ever', k, value'[k], {}))
              BY <1>3, <2>3 DEF AdministrationInv, LogKnown
          <3> QED BY <1>3, <1>4, <3>1 DEF ValueKnown, Changed
      <2>5. ASSUME NEW q \in Forms PROVE UndoKnown(q)'
          <3>1. CASE q = r
              <4>1. g.key \in RowKeys /\ ValueKnown(g.key)
                  BY DEF FormStates, AdministrationInv, LogKnown
              <4>2. lapses = 0 /\ Subject(g.key) \notin kept => Vouched(form, ever, g.key, value[g.key], {})
                  BY <4>1 DEF AdministrationInv, LogKnown, OneUndo, ValueKnown
              <4>3. lapses = 0 /\ Subject(g.key) \notin kept => Vouched(form', ever', g.key, g.from, {r})
                  BY <1>1, <2>2, <4>1, <4>2
              <4>4. form'[q] = g /\ (lapses' = 0 /\ Subject(g.key) \notin kept' => Vouched(form', ever', g.key, g.from, {q}))
                  BY <1>2, <1>3, <3>1, <4>3
              <4> QED BY <1>1, <4>4 DEF UndoKnown, Unrecorded
          <3>2. CASE q # r
              <4>1. UndoKnown(q) /\ form'[q] = form[q] /\ form[q].key \in RowKeys
                  BY <1>2, <3>2 DEF AdministrationInv, LogKnown, AdministrationTypes, FormStates
              <4>2. \A v : Vouched(form, ever, form[q].key, v, {q}) => Vouched(form', ever', form[q].key, v, {q})
                  BY <2>3, <4>1
              <4> QED BY <1>3, <4>1, <4>2 DEF UndoKnown
          <3> QED BY <3>1, <3>2
      <2> QED BY <2>1, <2>4, <2>5 DEF LogKnown
  <1> QED BY <1>5, <1>6, <1>7, <1>8

\* What was there before a write whose undo does not go by what was read.
LEMMA BeforeWrite ==
    ASSUME AdministrationInv, NEW r \in Forms, Wrote(r)
    PROVE  /\ form[r].op \in {"create group", "map", "add member", "unmap", "remove member"} => value[form[r].key] = UndoValue(form[r])
           /\ form[r].op = "create group" => \A k \in RowKeys : Subject(k) = form[r].key => value[k] = Absent
  <1> DEFINE f == form[r]
  <1>1. f \in FormStates /\ FormFits(f) /\ f.key \in RowKeys
      BY FormsRecorded DEF AdministrationInv
  <1>2. RowsFit /\ (f.key \notin made => ~Exists(f.key))
      BY <1>1 DEF AdministrationInv, AdministrationTypes, MadeKnown
  <1>3. Writable(f.key, f.to) /\ (f.op = "create group" => ~Exists(f.key))
      BY <1>2 DEF Wrote
  <1>4. f.op \in {"map", "add member"} => ~Exists(f.key)
      <2>1. f.op \in {"map", "add member"} => f.key[1] \in {"mapping", "member"} /\ f.to # Absent
          BY <1>1 DEF FormFits, Absent
      <2> QED BY <1>1, <1>3, <2>1, WritableFacts
  <1>5. f.op \in {"unmap", "remove member"} => value[f.key] = "yes"
      <2>1. f.op \in {"unmap", "remove member"} => f.key[1] \in {"mapping", "member"} /\ f.to = Absent
          BY <1>1 DEF FormFits
      <2>2. f.op \in {"unmap", "remove member"} => Exists(f.key)
          BY <1>1, <1>3, <2>1, WritableFacts
      <2> QED BY <1>1, <1>2, <2>1, <2>2 DEF RowsFit, Exists
  <1>6. f.op \in {"create group", "map", "add member", "unmap", "remove member"} => value[f.key] = UndoValue(f)
      BY <1>3, <1>4, <1>5, UndoFacts DEF Exists
  <1>7. ASSUME f.op = "create group", NEW k \in RowKeys, Subject(k) = f.key PROVE value[k] = Absent
      BY <1>2, <1>3, <1>7, SubjectFacts DEF RowsFit, Exists
  <1> QED BY <1>6, <1>7

\* A request that writes holds the only change of a subject nobody else has crossed.
LEMMA AloneBefore ==
    ASSUME AdministrationInv, NEW r \in Forms, form[r].pc = "write", Clean(form[r].key), NEW k \in RowKeys,
           Subject(k) = Subject(form[r].key)
    PROVE  value[k] = said[k]
  <1>1. Clean(k) /\ Accounted(k) /\ Subject(form[r].key) \notin crossed
      BY DEF Clean, AdministrationInv, LogExact
  <1>2. ASSUME NEW q \in Forms, form[q].pc \in Changed, k \in Recorded(form[q]) PROVE FALSE
      <2>1. Subject(form[q].key) = Subject(form[r].key)
          BY <1>2, FormsRecorded DEF AdministrationInv
      <2>2. form[q].pc \in PastCheck /\ form[r].pc \in PastCheck
          BY <1>2 DEF Changed, Unrecorded, PastCheck, FormPCs
      <2>3. q = r
          BY <1>1, <2>1, <2>2 DEF AdministrationInv, Apart
      <2> QED BY <1>2, <2>3 DEF Changed, Unrecorded
  <1> QED BY <1>1, <1>2 DEF Accounted

\* A write.
LEMMA WroteKeeps ==
    ASSUME AdministrationInv, NEW r \in Forms, Wrote(r)
    PROVE  MadeKnown' /\ Apart' /\ LogExact' /\ LogKnown'
  <1> DEFINE f == form[r]
  <1>0. AdministrationTypes /\ FormsFit
      BY DEF AdministrationInv
  <1>1. PICK g \in FormStates : FormFits(g) /\ Same(f, g) /\ g.pc \in Unrecorded /\ form' = [form EXCEPT ![r] = g]
      BY DEF Wrote, FormMoves
  <1>2. \A q \in Forms : form'[q] = IF q = r THEN g ELSE form[q]
      BY <1>0, <1>1, OneMoves
  <1>3. /\ \A q \in Forms : form[q].key \in RowKeys /\ \A k \in Recorded(form[q]) : k \in RowKeys /\ Subject(k) = Subject(form[q].key)
        /\ f \in FormStates /\ FormFits(f) /\ f.key \in Recorded(f)
      BY <1>0, FormsRecorded
  <1>4. /\ f.pc = "write" /\ UNCHANGED <<said, ever, lapses, crossed, kept>> /\ made' = made \cup {f.key}
        /\ f.op = "create group" => f.key \notin made
      BY DEF Wrote
  <1>5. \A k \in RowKeys : value'[k] = IF k \in Recorded(f) THEN f.to ELSE value[k]
      BY <1>3, WritesRecorded DEF Wrote
  <1>6. Recorded(g) = Recorded(f) /\ UndoValue(g) = UndoValue(f) /\ g.key = f.key /\ g.op = f.op /\ g.to = f.to
      BY <1>1, SameFacts DEF Same
  <1>7. \A q \in Forms : form[q].pc \in Changed => q # r /\ form'[q] = form[q]
      BY <1>2, <1>4 DEF Changed, Unrecorded
  <1>8. MadeKnown'
      <2>1. \A k \in RowKeys : value'[k] # Absent => k \in made'
          <3>1. \A k \in RowKeys : k \in Recorded(f) => k = f.key \/ f.to = Absent
              BY <1>3 DEF Recorded, FormFits
          <3> QED BY <1>4, <1>5, <3>1 DEF AdministrationInv, MadeKnown, Exists
      <2>2. \A q \in Forms : form'[q].pc \in Changed => form'[q].key \in made'
          BY <1>2, <1>4, <1>6 DEF AdministrationInv, MadeKnown
      <2> QED BY <1>4, <2>1, <2>2 DEF AdministrationInv, MadeKnown, Exists
  <1>9. Apart'
      <2>1. \A q \in Forms : form'[q].key = form[q].key /\ (form'[q].pc \in PastCheck <=> form[q].pc \in PastCheck)
          BY <1>1, <1>2, <1>4, <1>6 DEF PastCheck, FormPCs, Unrecorded
      <2> QED BY <1>4, <2>1 DEF AdministrationInv, Apart
  <1>10. LogExact'
      <2>1. ASSUME NEW k \in RowKeys PROVE Accounted(k)'
          <3>1. CASE k \in Recorded(f)
              BY <1>1, <1>2, <1>6, <3>1 DEF Accounted, Changed
          <3>2. CASE k \notin Recorded(f)
              <4>1. Accounted(k) /\ value'[k] = value[k]
                  BY <1>5, <3>2 DEF AdministrationInv, LogExact
              <4> QED BY <1>4, <1>7, <4>1 DEF Accounted, Clean
          <3> QED BY <3>1, <3>2
      <2>2. ASSUME NEW q \in Forms PROVE Exact(form[q])'
          <3>1. CASE q = r
              <4> SUFFICES ASSUME Clean(f.key) PROVE
                      /\ \A k \in Recorded(f) : value'[k] = f.to
                      /\ Undoes(f.op) => said[f.key] = UndoValue(f)
                      /\ f.op = "create group" => \A k \in RowKeys : Subject(k) = f.key => said[k] = Absent
                  BY <1>1, <1>2, <1>4, <1>6, <3>1 DEF Exact, Clean, Unrecorded
              <4>1. \A k \in RowKeys : Subject(k) = Subject(f.key) => value[k] = said[k]
                  BY <1>4, AloneBefore
              <4>2. \A k \in Recorded(f) : value'[k] = f.to
                  BY <1>3, <1>5
              <4>3. Undoes(f.op) => said[f.key] = UndoValue(f)
                  <5>1. value[f.key] = f.from
                      BY <1>4 DEF AdministrationInv, LogExact, Exact
                  <5> QED BY <1>3, <4>1, <5>1, BeforeWrite, UndoFacts
              <4>4. f.op = "create group" => \A k \in RowKeys : Subject(k) = f.key => said[k] = Absent
                  <5>1. f.op = "create group" => Subject(f.key) = f.key
                      BY <1>3, SubjectFacts DEF FormFits
                  <5> QED BY <4>1, <5>1, BeforeWrite
              <4> QED BY <4>2, <4>3, <4>4
          <3>2. CASE q # r
              <4>1. form'[q] = form[q] /\ Exact(form[q])
                  BY <1>2, <3>2 DEF AdministrationInv, LogExact
              <4> SUFFICES ASSUME Clean(form[q].key), form[q].pc \in Changed \cup {"write"}
                           PROVE  \A k \in RowKeys : Subject(k) = Subject(form[q].key) => value'[k] = value[k]
                  <5>1. \A k \in Recorded(form[q]) : k \in RowKeys /\ Subject(k) = Subject(form[q].key)
                      BY <1>3
                  <5>2. form[q].key \in RowKeys
                      BY <1>3
                  <5> QED BY <1>4, <4>1, <5>1, <5>2 DEF Exact, Clean
              <4>2. Subject(form[q].key) # Subject(f.key)
                  <5>1. form[q].pc \in PastCheck /\ f.pc \in PastCheck
                      BY <1>4 DEF Changed, Unrecorded, PastCheck, FormPCs
                  <5> QED BY <3>2, <5>1 DEF Clean, AdministrationInv, Apart
              <4> QED BY <1>3, <1>5, <4>2
          <3> QED BY <3>1, <3>2
      <2> QED BY <2>1, <2>2 DEF LogExact
  <1>11. LogKnown'
      <2>1. OneUndo'
          <3>1. \A q \in Forms : form'[q].pc = "undo" => form[q].pc = "undo"
              BY <1>1, <1>2 DEF Unrecorded
          <3> QED BY <1>4, <3>1 DEF AdministrationInv, LogKnown, OneUndo
      <2>2. \A k \in RowKeys : \A v, S : Vouched(form, ever, k, v, S) => Vouched(form', ever', k, v, S)
          BY <1>4, <1>7 DEF Vouched, Changed
      <2>3. \A k \in RowKeys : \A v : Vouched(form, ever, k, v, {}) => Vouched(form', ever', k, v, {r})
          BY <1>4, <1>7 DEF Vouched, Changed
      <2>4. ASSUME NEW k \in RowKeys PROVE ValueKnown(k)'
          <3>1. CASE k \in Recorded(f)
              <4>1. Vouched(form', ever', k, value'[k], {})
                  BY <1>1, <1>2, <1>5, <1>6, <3>1 DEF Vouched
              <4> QED BY <4>1 DEF ValueKnown
          <3>2. CASE k \notin Recorded(f)
              <4>1. ValueKnown(k) /\ (Vouched(form, ever, k, value[k], {}) => Vouched(form', ever', k, value'[k], {}))
                  BY <1>5, <2>2, <3>2 DEF AdministrationInv, LogKnown
              <4> QED BY <1>4, <1>7, <4>1 DEF ValueKnown, Changed
          <3> QED BY <3>1, <3>2
      <2>5. ASSUME NEW q \in Forms PROVE UndoKnown(q)'
          <3>1. CASE q = r
              <4>0. f.key \in RowKeys
                  BY <1>3
              <4> SUFFICES ASSUME lapses = 0, Subject(f.key) \notin kept, Undoes(f.op)
                           PROVE  /\ Vouched(form', ever', f.key, UndoValue(f), {r})
                                  /\ f.op = "create group" => \A k \in RowKeys : Subject(k) = f.key => Absent \in ever[k]
                  <5>1. form'[q] = g /\ g.pc # "write" /\ g.pc # "undo"
                      BY <1>1, <1>2, <3>1 DEF Unrecorded
                  <5> HIDE DEF f
                  <5> QED BY <1>4, <1>6, <3>1, <5>1 DEF UndoKnown
              <4>1. Vouched(form, ever, f.key, value[f.key], {})
                  BY <4>0 DEF AdministrationInv, LogKnown, OneUndo, ValueKnown
              <4>2. Vouched(form, ever, f.key, f.from, {r})
                  BY <1>4 DEF AdministrationInv, LogKnown, UndoKnown
              <4>3. Vouched(form', ever', f.key, value[f.key], {r}) /\ Vouched(form', ever', f.key, f.from, {r})
                  BY <2>2, <2>3, <4>0, <4>1, <4>2
              <4>4. UndoValue(f) = value[f.key] \/ UndoValue(f) = f.from
                  BY BeforeWrite, UndoFacts
              <4>5. f.op = "create group" => \A k \in RowKeys : Subject(k) = f.key => Absent \in ever[k]
                  BY <1>4, <4>0 DEF AdministrationInv, MadeKnown
              <4> QED BY <4>3, <4>4, <4>5
          <3>2. CASE q # r
              <4>1. UndoKnown(q) /\ form'[q] = form[q] /\ form[q].key \in RowKeys
                  BY <1>2, <1>3, <3>2 DEF AdministrationInv, LogKnown
              <4>2. \A v : Vouched(form, ever, form[q].key, v, {q}) => Vouched(form', ever', form[q].key, v, {q})
                  BY <2>2, <4>1
              <4> QED BY <1>4, <4>1, <4>2 DEF UndoKnown
          <3> QED BY <3>1, <3>2
      <2> QED BY <2>1, <2>4, <2>5 DEF LogKnown
  <1> QED BY <1>8, <1>9, <1>10, <1>11

\* A record that is written.
LEMMA RecordKeeps ==
    ASSUME AdministrationInv, NEW r \in Forms, Record(r)
    PROVE  MadeKnown' /\ Apart' /\ LogExact' /\ LogKnown'
  <1> DEFINE f == form[r]
  <1>0. AdministrationTypes /\ FormsFit
      BY DEF AdministrationInv
  <1>1. \A q \in Forms : form'[q] = IF q = r THEN NoForm ELSE form[q]
      BY <1>0, NoFormFits, OneMoves DEF Record
  <1>2. /\ \A q \in Forms : form[q].key \in RowKeys /\ \A k \in Recorded(form[q]) : k \in RowKeys /\ Subject(k) = Subject(form[q].key)
        /\ \A q \in Forms : form[q].op = "create group" => Subject(form[q].key) = form[q].key
      BY <1>0, FormsRecorded, SubjectFacts DEF FormFits
  <1>3. f.pc = "audit" /\ UNCHANGED <<value, made, lapses, crossed, kept>>
      BY DEF Record
  <1>4. \A k \in RowKeys : /\ said'[k] = IF k \in Recorded(f) THEN f.to ELSE said[k]
                           /\ ever'[k] = IF k \in Recorded(f) THEN ever[k] \cup {f.to} ELSE ever[k]
      BY DEF Record
  <1>5. \A q \in Forms : form'[q].pc # "idle" => q # r /\ form'[q] = form[q]
      BY <1>1, NoFormFits
  <1>6. MadeKnown'
      BY <1>3, <1>4, <1>5 DEF AdministrationInv, MadeKnown, Exists, Changed, Unrecorded
  <1>7. Apart'
      BY <1>3, <1>5 DEF AdministrationInv, Apart, PastCheck
  <1>8. LogExact'
      <2>1. ASSUME NEW k \in RowKeys, Clean(k)
            PROVE  value[k] = said'[k] \/ \E q \in Forms : form'[q].pc \in Changed /\ k \in Recorded(form'[q])
          <3>1. CASE k \in Recorded(f)
              <4>1. Clean(f.key) /\ Exact(f)
                  BY <1>2, <2>1, <3>1 DEF Clean, AdministrationInv, LogExact
              <4> QED BY <1>3, <1>4, <3>1, <4>1 DEF Exact, Changed, Unrecorded
          <3>2. CASE k \notin Recorded(f)
              <4>1. value[k] = said[k] \/ \E q \in Forms : form[q].pc \in Changed /\ k \in Recorded(form[q])
                  BY <2>1 DEF AdministrationInv, LogExact, Accounted
              <4> QED BY <1>1, <1>4, <3>2, <4>1
          <3> QED BY <3>1, <3>2
      <2>2. ASSUME NEW q \in Forms PROVE Exact(form[q])'
          <3>1. CASE q = r
              BY <1>1, <3>1, NoFormFits DEF Exact, Changed, Unrecorded
          <3>2. CASE q # r
              <4>1. form'[q] = form[q] /\ Exact(form[q])
                  BY <1>1, <3>2 DEF AdministrationInv, LogExact
              <4> SUFFICES ASSUME Clean(form[q].key), form[q].pc \in Changed
                           PROVE  \A k \in RowKeys : Subject(k) = Subject(form[q].key) => said'[k] = said[k]
                  <5>1. form[q].key \in RowKeys /\ (form[q].op = "create group" => Subject(form[q].key) = form[q].key)
                      BY <1>2
                  <5> QED BY <1>3, <4>1, <5>1 DEF Exact, Clean
              <4>2. Subject(form[q].key) # Subject(f.key)
                  <5>1. form[q].pc \in PastCheck /\ f.pc \in PastCheck
                      BY <1>3 DEF Changed, Unrecorded, PastCheck, FormPCs
                  <5> QED BY <3>2, <5>1 DEF Clean, AdministrationInv, Apart
              <4> QED BY <1>2, <1>4, <4>2
          <3> QED BY <3>1, <3>2
      <2>3. \A k \in RowKeys : Accounted(k)'
          BY <1>3, <2>1 DEF Accounted, Clean
      <2> QED BY <2>2, <2>3 DEF LogExact
  <1>9. LogKnown'
      <2>1. OneUndo'
          BY <1>3, <1>5 DEF AdministrationInv, LogKnown, OneUndo
      <2>2. ASSUME NEW k \in RowKeys, NEW v, NEW S, Vouched(form, ever, k, v, S) PROVE Vouched(form', ever', k, v, S)
          <3>1. CASE v \in ever[k]
              BY <1>4, <3>1 DEF Vouched
          <3>2. CASE \E q \in Forms \ S : form[q].pc \in Unrecorded /\ k \in Recorded(form[q]) /\ form[q].to = v
              BY <1>1, <1>4, <3>2 DEF Vouched
          <3> QED BY <2>2, <3>1, <3>2 DEF Vouched
      <2>3. ASSUME NEW k \in RowKeys PROVE ValueKnown(k)'
          <3>1. ValueKnown(k) /\ (Vouched(form, ever, k, value[k], {}) => Vouched(form', ever', k, value'[k], {}))
              BY <1>3, <2>2 DEF AdministrationInv, LogKnown
          <3>2. \A q \in Forms : form[q].pc = "undo" => form'[q] = form[q]
              BY <1>1, <1>3
          <3> QED BY <1>3, <3>1, <3>2 DEF ValueKnown
      <2>4. ASSUME NEW q \in Forms PROVE UndoKnown(q)'
          <3>1. CASE q = r
              BY <1>1, <3>1, NoFormFits DEF UndoKnown, Unrecorded
          <3>2. CASE q # r
              <4>1. UndoKnown(q) /\ form'[q] = form[q] /\ form[q].key \in RowKeys
                  BY <1>1, <1>2, <3>2 DEF AdministrationInv, LogKnown
              <4>2. \A v : Vouched(form, ever, form[q].key, v, {q}) => Vouched(form', ever', form[q].key, v, {q})
                  BY <2>2, <4>1
              <4>3. \A k \in RowKeys : ever[k] \subseteq ever'[k]
                  BY <1>4
              <4> QED BY <1>3, <4>1, <4>2, <4>3 DEF UndoKnown
          <3> QED BY <3>1, <3>2
      <2> QED BY <2>1, <2>3, <2>4 DEF LogKnown
  <1> QED BY <1>6, <1>7, <1>8, <1>9

\* A record that fails, with something to put back.
Lapses(r) ==
    /\ form[r].pc = "audit" /\ lapses' = lapses + 1 /\ UNCHANGED <<value, made, said, ever, crossed, kept>>
    /\ FormMoves(r, {"undo"})

\* The undo that follows is the only one after a first failure, and what it will
\* put back is in the log.
LEMMA LapseKeeps ==
    ASSUME AdministrationInv, NEW r \in Forms, Lapses(r)
    PROVE  MadeKnown' /\ Apart' /\ LogExact' /\ LogKnown'
  <1> DEFINE f == form[r]
  <1>0. AdministrationTypes /\ FormsFit /\ lapses \in Nat
      BY DEF AdministrationInv, AdministrationTypes
  <1>1. PICK g \in FormStates : FormFits(g) /\ Same(f, g) /\ g.pc = "undo" /\ form' = [form EXCEPT ![r] = g]
      BY DEF Lapses, FormMoves
  <1>2. \A q \in Forms : form'[q] = IF q = r THEN g ELSE form[q]
      BY <1>0, <1>1, OneMoves
  <1>3. f.pc = "audit" /\ lapses' = lapses + 1 /\ UNCHANGED <<value, made, said, ever, crossed, kept>>
      BY DEF Lapses
  <1>4. \A q \in Forms : /\ form'[q].pc \in PastCheck <=> form[q].pc \in PastCheck
                         /\ form'[q].pc \in Changed <=> form[q].pc \in Changed
                         /\ form'[q].pc = "write" <=> form[q].pc = "write"
                         /\ Same(form[q], form'[q])
      BY <1>1, <1>2, <1>3 DEF PastCheck, FormPCs, Changed, Unrecorded, Same
  <1>5. \A q \in Forms : Recorded(form'[q]) = Recorded(form[q]) /\ UndoValue(form'[q]) = UndoValue(form[q])
      BY <1>4, SameFacts
  <1>6. MadeKnown' /\ Apart'
      BY <1>3, <1>4 DEF AdministrationInv, MadeKnown, Apart, Exists, Same
  <1>7. LogExact'
      <2>1. \A k \in RowKeys : Accounted(k)'
          BY <1>3, <1>4, <1>5 DEF AdministrationInv, LogExact, Accounted, Clean
      <2>2. ASSUME NEW q \in Forms PROVE Exact(form[q])'
          <3>1. Exact(form[q])
              BY DEF AdministrationInv, LogExact
          <3> QED BY <1>3, <1>4, <1>5, <3>1 DEF Exact, Clean, Same
      <2> QED BY <2>1, <2>2 DEF LogExact
  <1>8. LogKnown'
      <2>1. lapses' # 0 /\ (lapses' <= 1 => lapses = 0) /\ (lapses' = 1 => lapses = 0)
          BY <1>0, <1>3
      <2>2. lapses = 0 => \A q \in Forms : form[q].pc # "undo"
          BY DEF AdministrationInv, LogKnown, OneUndo
      <2>3. OneUndo'
          BY <1>0, <1>2, <2>1, <2>2 DEF OneUndo
      <2>4. ASSUME NEW k \in RowKeys, NEW v, Vouched(form, ever, k, v, {})
            PROVE  Vouched(form', ever', k, v, {}) \/ k \in Recorded(f)
          BY <1>2, <1>3, <2>4 DEF Vouched
      <2>5. ASSUME NEW k \in RowKeys, NEW v, Vouched(form, ever, k, v, {r}) PROVE Vouched(form', ever', k, v, {r})
          BY <1>2, <1>3, <2>5 DEF Vouched
      <2>6. ASSUME NEW k \in RowKeys PROVE ValueKnown(k)'
          <3> SUFFICES ASSUME lapses = 0, Subject(k) \notin kept
                       PROVE  \/ Vouched(form', ever', k, value'[k], {})
                              \/ \E q \in Forms : form'[q].pc = "undo" /\ k \in Recorded(form'[q])
              BY <1>3, <2>1 DEF ValueKnown
          <3>1. Vouched(form, ever, k, value[k], {})
              BY <2>2 DEF AdministrationInv, LogKnown, ValueKnown
          <3>2. Vouched(form', ever', k, value'[k], {}) \/ k \in Recorded(f)
              BY <1>3, <2>4, <3>1
          <3> QED BY <1>1, <1>2, <1>5, <3>2
      <2>7. ASSUME NEW q \in Forms PROVE UndoKnown(q)'
          <3>1. CASE q = r
              <4>1. form'[q] = g /\ g.key = f.key /\ g.op = f.op /\ UndoValue(g) = UndoValue(f) /\ f.key \in RowKeys /\ g.pc = "undo"
                  BY <1>0, <1>1, <1>2, <3>1, SameFacts, FormsRecorded DEF Same
              <4> SUFFICES ASSUME lapses = 0, Subject(f.key) \notin kept, Undoes(f.op)
                           PROVE  /\ Vouched(form', ever', f.key, UndoValue(f), {r})
                                  /\ f.op = "create group" => \A k \in RowKeys : Subject(k) = f.key => Absent \in ever[k]
                  <5> HIDE DEF f
                  <5> QED BY <1>3, <2>1, <3>1, <4>1 DEF UndoKnown
              <4>2. /\ Vouched(form, ever, f.key, UndoValue(f), {r})
                    /\ f.op = "create group" => \A k \in RowKeys : Subject(k) = f.key => Absent \in ever[k]
                  BY <1>3 DEF AdministrationInv, LogKnown, UndoKnown, Unrecorded
              <4> QED BY <2>5, <4>1, <4>2
          <3>2. CASE q # r
              BY <1>2, <2>1, <2>2, <3>2 DEF UndoKnown
          <3> QED BY <3>1, <3>2
      <2> QED BY <2>3, <2>6, <2>7 DEF LogKnown
  <1> QED BY <1>6, <1>7, <1>8

\* A change that stays without a record.
Abandons(r) ==
    /\ form[r].pc \in {"audit", "undo"} /\ kept' = kept \cup {Subject(form[r].key)} /\ lapses' \in {lapses, lapses + 1}
    /\ UNCHANGED <<value, made, said, ever, crossed>>
    /\ FormEnds(r) \/ FormMoves(r, {"prune undone"})

\* Its subject is out of account from then on.
LEMMA AbandonKeeps ==
    ASSUME AdministrationInv, NEW r \in Forms, Abandons(r)
    PROVE  MadeKnown' /\ Apart' /\ LogExact' /\ LogKnown'
  <1> DEFINE f == form[r]
  <1>0. AdministrationTypes /\ FormsFit /\ lapses \in Nat
      BY DEF AdministrationInv, AdministrationTypes
  <1>1. PICK g \in FormStates : /\ FormFits(g) /\ form' = [form EXCEPT ![r] = g]
                                /\ g.pc = "idle" \/ (g.pc = "prune undone" /\ g.key = f.key)
      BY NoFormFits DEF Abandons, FormEnds, FormMoves, Same
  <1>2. \A q \in Forms : form'[q] = IF q = r THEN g ELSE form[q]
      BY <1>0, <1>1, OneMoves
  <1>3. /\ f.pc \in {"audit", "undo"} /\ kept' = kept \cup {Subject(f.key)} /\ lapses' \in {lapses, lapses + 1}
        /\ UNCHANGED <<value, made, said, ever, crossed>>
      BY DEF Abandons
  <1>4. /\ \A q \in Forms : form'[q].pc \in PastCheck => form[q].pc \in PastCheck /\ form'[q].key = form[q].key
        /\ \A q \in Forms : form'[q].pc \in Changed \cup {"write"} => q # r /\ form'[q] = form[q]
      BY <1>1, <1>2, <1>3 DEF PastCheck, FormPCs, Changed, Unrecorded
  <1>5. /\ \A q \in Forms : form[q].key \in RowKeys /\ \A k \in Recorded(form[q]) : k \in RowKeys /\ Subject(k) = Subject(form[q].key)
        /\ \A k : Subject(k) \notin kept' => Subject(k) \notin kept /\ Subject(k) # Subject(f.key)
      BY <1>0, <1>3, FormsRecorded
  <1>6. \A q \in Forms : \A k \in Recorded(form[q]) : Subject(k) \notin kept' => q # r /\ form'[q] = form[q]
      BY <1>2, <1>5
  <1>7. MadeKnown' /\ Apart'
      <2>1. MadeKnown'
          BY <1>3, <1>4 DEF AdministrationInv, MadeKnown, Exists
      <2> QED BY <1>3, <1>4, <2>1 DEF AdministrationInv, Apart
  <1>8. LogExact'
      <2>1. ASSUME NEW k \in RowKeys PROVE Accounted(k)'
          <3>1. Accounted(k)
              BY DEF AdministrationInv, LogExact
          <3> QED BY <1>3, <1>5, <1>6, <3>1 DEF Accounted, Clean
      <2>2. ASSUME NEW q \in Forms PROVE Exact(form[q])'
          <3>1. CASE form'[q].pc \in Changed \cup {"write"}
              <4>1. form'[q] = form[q] /\ Exact(form[q])
                  BY <1>4, <3>1 DEF AdministrationInv, LogExact
              <4> QED BY <1>3, <1>5, <4>1 DEF Exact, Clean
          <3>2. CASE form'[q].pc \notin Changed \cup {"write"}
              BY <3>2 DEF Exact
          <3> QED BY <3>1, <3>2
      <2> QED BY <2>1, <2>2 DEF LogExact
  <1>9. LogKnown'
      <2>1. /\ lapses' = 0 => lapses = 0
            /\ lapses' = 1 => lapses = 0 \/ lapses = 1
            /\ lapses' <= 1 => lapses <= 1
          BY <1>0, <1>3
      <2>2. OneUndo
          BY DEF AdministrationInv, LogKnown
      <2>3. OneUndo'
          <3>1. \A q \in Forms : form'[q].pc = "undo" => form[q].pc = "undo"
              BY <1>4 DEF Changed
          <3> QED BY <2>1, <2>2, <3>1 DEF OneUndo
      <2>4. ASSUME NEW k \in RowKeys, NEW v, NEW S, Subject(k) \notin kept', Vouched(form, ever, k, v, S)
            PROVE  Vouched(form', ever', k, v, S)
          BY <1>3, <1>6, <2>4 DEF Vouched
      <2>5. ASSUME NEW k \in RowKeys PROVE ValueKnown(k)'
          <3> SUFFICES ASSUME lapses' <= 1, Subject(k) \notin kept'
                       PROVE  \/ Vouched(form', ever', k, value'[k], {})
                              \/ \E q \in Forms : form'[q].pc = "undo" /\ k \in Recorded(form'[q])
              BY DEF ValueKnown
          <3>1. \/ Vouched(form, ever, k, value[k], {})
                \/ \E q \in Forms : form[q].pc = "undo" /\ k \in Recorded(form[q])
              BY <1>5, <2>1 DEF AdministrationInv, LogKnown, ValueKnown
          <3> QED BY <1>3, <1>6, <2>4, <3>1
      <2>6. ASSUME NEW q \in Forms PROVE UndoKnown(q)'
          <3>1. CASE form'[q].pc \in Changed \cup {"write"}
              <4>1. form'[q] = form[q] /\ UndoKnown(q) /\ form[q].key \in RowKeys
                  BY <1>4, <1>5, <3>1 DEF AdministrationInv, LogKnown
              <4>2. Subject(form[q].key) \notin kept' =>
                        \A v : Vouched(form, ever, form[q].key, v, {q}) => Vouched(form', ever', form[q].key, v, {q})
                  BY <2>4, <4>1
              <4>3. lapses' = 1 /\ form[q].pc = "undo" => lapses = 1
                  BY <2>1, <2>2 DEF OneUndo
              <4> QED BY <1>3, <1>5, <2>1, <4>1, <4>2, <4>3 DEF UndoKnown
          <3>2. CASE form'[q].pc \notin Changed \cup {"write"}
              BY <3>2 DEF UndoKnown, Changed
          <3> QED BY <3>1, <3>2
      <2> QED BY <2>3, <2>5, <2>6 DEF LogKnown
  <1> QED BY <1>7, <1>8, <1>9

\* The rows are back as the request would have them.
PutBack(f, k) == k = f.key \/ (f.op = "create group" /\ Subject(k) = f.key)
PutsBack(r) ==
    /\ form[r].pc = "undo" /\ UNCHANGED <<made, said, ever, lapses, crossed, kept>>
    /\ \A k \in RowKeys : value'[k] = IF PutBack(form[r], k) THEN UndoValue(form[r]) ELSE value[k]
    /\ FormEnds(r) \/ FormMoves(r, {"prune undone"})

\* An undo puts the rows back, finds them so, or leaves the change.
LEMMA UndoPutsBack ==
    ASSUME AdministrationInv, NEW r \in Forms, Undo(r) PROVE PutsBack(r) \/ Abandons(r)
  <1> DEFINE f == form[r]
             v == UndoValue(f)
  <1>0. AdministrationTypes /\ FormsFit /\ RowsFit
      BY DEF AdministrationInv, AdministrationTypes
  <1>1. f \in FormStates /\ FormFits(f) /\ f.key \in RowKeys /\ f.pc = "undo"
      BY <1>0, FormsRecorded DEF Undo
  <1>2. (FormEnds(r) \/ FormMoves(r, {"prune undone"})) /\ UNCHANGED <<made, said, ever, lapses, crossed>>
      BY <1>0, FormsMove DEF Undo
  <1>3. CASE Writable(f.key, v)
      <2>1. \A k \in RowKeys : value'[k] = IF PutBack(f, k) THEN v ELSE value[k]
          BY <1>1, <1>3, WritesBack DEF Undo, PutBack
      <2>2. kept' = kept
          BY <1>3 DEF Undo
      <2> QED BY <1>1, <1>2, <2>1, <2>2 DEF PutsBack
  <1>4. CASE ~Writable(f.key, v) /\ v = Absent
      <2>1. value' = value /\ kept' = kept
          BY <1>4 DEF Undo
      <2>2. value[f.key] = Absent
          BY <1>4 DEF Writable, Exists
      <2>3. ASSUME NEW k \in RowKeys, f.op = "create group", Subject(k) = f.key PROVE value[k] = Absent
          BY <1>0, <2>2, <2>3, SubjectFacts DEF RowsFit, Exists
      <2> QED BY <1>1, <1>2, <1>4, <2>1, <2>2, <2>3 DEF PutsBack, PutBack
  <1>5. CASE ~Writable(f.key, v) /\ v # Absent /\ f.key[1] = "member" /\ Exists(f.key)
      <2>1. value' = value /\ kept' = kept
          BY <1>5 DEF Undo
      <2>2. f.op = "remove member" /\ value[f.key] = "yes"
          <3>1. f.op \in {"add member", "remove member"}
              BY <1>1, <1>5 DEF FormFits
          <3>2. value[f.key] = "yes"
              BY <1>0, <1>1, <1>5 DEF RowsFit, Exists
          <3> QED BY <1>5, <3>1, <3>2, UndoFacts
      <2>3. v = "yes"
          BY <2>2, UndoFacts
      <2> QED BY <1>1, <1>2, <2>1, <2>2, <2>3 DEF PutsBack, PutBack
  <1>6. CASE ~Writable(f.key, v) /\ v # Absent /\ ~(f.key[1] = "member" /\ Exists(f.key))
      <2>1. value' = value /\ kept' = kept \cup {Subject(f.key)}
          BY <1>6 DEF Undo
      <2> QED BY <1>1, <1>2, <2>1 DEF Abandons
  <1> QED BY <1>3, <1>4, <1>5, <1>6

\* An undo that goes through.
LEMMA UndoKeeps ==
    ASSUME AdministrationInv, NEW r \in Forms, PutsBack(r)
    PROVE  MadeKnown' /\ Apart' /\ LogExact' /\ LogKnown'
  <1> DEFINE f == form[r]
  <1>0. AdministrationTypes /\ FormsFit /\ lapses \in Nat
      BY DEF AdministrationInv, AdministrationTypes
  <1>1. PICK g \in FormStates : /\ FormFits(g) /\ form' = [form EXCEPT ![r] = g]
                                /\ g.pc = "idle" \/ (g.pc = "prune undone" /\ g.key = f.key)
      BY NoFormFits DEF PutsBack, FormEnds, FormMoves, Same
  <1>2. \A q \in Forms : form'[q] = IF q = r THEN g ELSE form[q]
      BY <1>0, <1>1, OneMoves
  <1>3. /\ f.pc = "undo" /\ UNCHANGED <<made, said, ever, lapses, crossed, kept>>
        /\ \A k \in RowKeys : value'[k] = IF PutBack(f, k) THEN UndoValue(f) ELSE value[k]
      BY DEF PutsBack
  <1>4. /\ \A q \in Forms : form'[q].pc \in PastCheck => form[q].pc \in PastCheck /\ form'[q].key = form[q].key
        /\ \A q \in Forms : form'[q].pc \in Changed \cup {"write"} => q # r /\ form'[q] = form[q]
      BY <1>1, <1>2, <1>3 DEF PastCheck, FormPCs, Changed, Unrecorded
  <1>5. \A q \in Forms : form[q].key \in RowKeys /\ \A k \in Recorded(form[q]) : k \in RowKeys /\ Subject(k) = Subject(form[q].key)
      BY <1>0, FormsRecorded
  <1>6. f \in FormStates /\ FormFits(f) /\ Undoes(f.op) /\ Recorded(f) \subseteq {f.key}
      <2>1. f \in FormStates /\ FormFits(f)
          BY <1>0, FormsRecorded
      <2>2. Undoes(f.op) /\ f.op # "delete group"
          BY <1>3, <2>1 DEF FormFits, Undoes
      <2> QED BY <2>1, <2>2 DEF Recorded
  <1>7. f.op = "create group" => Subject(f.key) = f.key /\ UndoValue(f) = Absent
      BY <1>5, <1>6, SubjectFacts, UndoFacts DEF FormFits
  <1>8. \A k \in RowKeys : PutBack(f, k) => Subject(k) = Subject(f.key)
      BY <1>7 DEF PutBack
  <1>9. MadeKnown' /\ Apart'
      <2>1. \A k \in RowKeys : value'[k] # Absent => k \in made
          <3>1. f.key \in made
              BY <1>3 DEF AdministrationInv, MadeKnown, Changed
          <3> QED BY <1>3, <1>7, <3>1 DEF AdministrationInv, MadeKnown, Exists, PutBack
      <2>2. MadeKnown'
          BY <1>3, <1>4, <2>1 DEF AdministrationInv, MadeKnown, Exists
      <2> QED BY <1>3, <1>4, <2>2 DEF AdministrationInv, Apart
  <1>10. LogExact'
      <2>1. ASSUME NEW k \in RowKeys, Clean(k)
            PROVE  value'[k] = said[k] \/ \E q \in Forms : form'[q].pc \in Changed /\ k \in Recorded(form'[q])
          <3>1. CASE PutBack(f, k)
              <4>1. Clean(f.key) /\ Exact(f) /\ f.pc \in Changed
                  BY <1>3, <1>8, <2>1, <3>1 DEF Clean, AdministrationInv, LogExact, Changed
              <4>2. /\ said[f.key] = UndoValue(f)
                    /\ f.op = "create group" => \A x \in RowKeys : Subject(x) = f.key => said[x] = Absent
                  BY <1>6, <4>1 DEF Exact
              <4> QED BY <1>3, <1>7, <3>1, <4>2 DEF PutBack
          <3>2. CASE ~PutBack(f, k)
              <4>1. value[k] = said[k] \/ \E q \in Forms : form[q].pc \in Changed /\ k \in Recorded(form[q])
                  BY <2>1 DEF AdministrationInv, LogExact, Accounted
              <4>2. k \notin Recorded(f)
                  BY <1>6, <3>2 DEF PutBack
              <4> QED BY <1>2, <1>3, <3>2, <4>1, <4>2
          <3> QED BY <3>1, <3>2
      <2>2. ASSUME NEW q \in Forms PROVE Exact(form[q])'
          <3>1. CASE form'[q].pc \in Changed \cup {"write"}
              <4>1. q # r /\ form'[q] = form[q] /\ Exact(form[q])
                  BY <1>4, <3>1 DEF AdministrationInv, LogExact
              <4> SUFFICES ASSUME Clean(form[q].key)
                           PROVE  \A k \in RowKeys : Subject(k) = Subject(form[q].key) => value'[k] = value[k]
                  <5>1. form[q].key \in RowKeys /\ \A k \in Recorded(form[q]) : k \in RowKeys /\ Subject(k) = Subject(form[q].key)
                      BY <1>5
                  <5> QED BY <1>3, <4>1, <5>1 DEF Exact, Clean
              <4>2. Subject(form[q].key) # Subject(f.key)
                  <5>1. form[q].pc \in PastCheck /\ f.pc \in PastCheck
                      BY <1>3, <3>1, <4>1 DEF Changed, Unrecorded, PastCheck, FormPCs
                  <5> QED BY <4>1, <5>1 DEF Clean, AdministrationInv, Apart
              <4> QED BY <1>3, <1>8, <4>2
          <3>2. CASE form'[q].pc \notin Changed \cup {"write"}
              BY <3>2 DEF Exact
          <3> QED BY <3>1, <3>2
      <2>3. \A k \in RowKeys : Accounted(k)'
          BY <1>3, <2>1 DEF Accounted, Clean
      <2> QED BY <2>2, <2>3 DEF LogExact
  <1>11. LogKnown'
      <2>1. OneUndo /\ lapses # 0 /\ (lapses <= 1 => lapses = 1)
          BY <1>0, <1>3 DEF AdministrationInv, LogKnown, OneUndo
      <2>2. OneUndo'
          BY <1>3, <1>4, <2>1 DEF OneUndo, Changed
      <2>3. ASSUME NEW k \in RowKeys, NEW v, NEW S, Vouched(form, ever, k, v, S)
            PROVE  Vouched(form', ever', k, v, S)
          BY <1>2, <1>3, <2>3 DEF Vouched, Unrecorded
      <2>4. ASSUME NEW k \in RowKeys, NEW v, Vouched(form, ever, k, v, {r})
            PROVE  Vouched(form', ever', k, v, {})
          BY <1>2, <1>3, <2>4 DEF Vouched, Unrecorded
      <2>5. ASSUME NEW k \in RowKeys PROVE ValueKnown(k)'
          <3> SUFFICES ASSUME lapses = 1, Subject(k) \notin kept
                       PROVE  Vouched(form', ever', k, value'[k], {})
              BY <1>3, <2>1 DEF ValueKnown
          <3>1. CASE PutBack(f, k)
              <4>1. Subject(f.key) \notin kept
                  BY <1>8, <3>1
              <4>2. /\ Vouched(form, ever, f.key, UndoValue(f), {r})
                    /\ f.op = "create group" => \A x \in RowKeys : Subject(x) = f.key => Absent \in ever[x]
                  BY <1>3, <1>6, <4>1 DEF AdministrationInv, LogKnown, UndoKnown
              <4>3. CASE k = f.key
                  BY <1>3, <2>4, <3>1, <4>2, <4>3
              <4>4. CASE k # f.key
                  BY <1>3, <1>7, <3>1, <4>2, <4>4 DEF PutBack, Vouched
              <4> QED BY <4>3, <4>4
          <3>2. CASE ~PutBack(f, k)
              <4>1. ValueKnown(k) /\ k \notin Recorded(f)
                  BY <1>6, <3>2 DEF PutBack, AdministrationInv, LogKnown
              <4>2. \A q \in Forms : form[q].pc = "undo" => q = r
                  BY <1>3, <2>1 DEF OneUndo
              <4>3. Vouched(form, ever, k, value[k], {})
                  BY <4>1, <4>2 DEF ValueKnown
              <4> QED BY <1>3, <2>3, <3>2, <4>3
          <3> QED BY <3>1, <3>2
      <2>6. ASSUME NEW q \in Forms PROVE UndoKnown(q)'
          <3>1. CASE form'[q].pc \in Changed \cup {"write"}
              <4>1. form'[q] = form[q] /\ UndoKnown(q) /\ form[q].key \in RowKeys
                  BY <1>4, <1>5, <3>1 DEF AdministrationInv, LogKnown
              <4>2. \A v : Vouched(form, ever, form[q].key, v, {q}) => Vouched(form', ever', form[q].key, v, {q})
                  BY <2>3, <4>1
              <4> QED BY <1>3, <4>1, <4>2 DEF UndoKnown
          <3>2. CASE form'[q].pc \notin Changed \cup {"write"}
              BY <3>2 DEF UndoKnown, Changed
          <3> QED BY <3>1, <3>2
      <2> QED BY <2>2, <2>5, <2>6 DEF LogKnown
  <1> QED BY <1>9, <1>10, <1>11

\* A crash ends all requests, and leaves what they had changed out of account.
LEMMA CrashKeeps ==
    ASSUME AdministrationInv, ServerDies
    PROVE  MadeKnown' /\ Apart' /\ LogExact' /\ LogKnown'
  <1>0. AdministrationTypes /\ FormsFit
      BY DEF AdministrationInv
  <1>1. \A q \in Forms : form'[q].pc = "idle"
      BY NoFormFits DEF ServerDies
  <1>2. UNCHANGED <<value, made, said, ever, lapses, crossed>>
      BY DEF ServerDies
  <1>3. kept \subseteq kept' /\ \A q \in Forms : form[q].pc \in Changed => Subject(form[q].key) \in kept'
      BY DEF ServerDies, Changed, Unrecorded
  <1>4. \A q \in Forms : \A k \in Recorded(form[q]) : Subject(k) \notin kept' => form[q].pc \notin Changed
      BY <1>0, <1>3, FormsRecorded
  <1>5. MadeKnown'
      BY <1>1, <1>2 DEF AdministrationInv, MadeKnown, Exists, Changed, Unrecorded
  <1>6. Apart'
      BY <1>1 DEF Apart, PastCheck
  <1>7. LogExact'
      <2>1. ASSUME NEW k \in RowKeys PROVE Accounted(k)'
          <3>1. Accounted(k)
              BY DEF AdministrationInv, LogExact
          <3> QED BY <1>2, <1>3, <1>4, <3>1 DEF Accounted, Clean
      <2>2. \A q \in Forms : Exact(form[q])'
          BY <1>1 DEF Exact, Changed, Unrecorded
      <2> QED BY <2>1, <2>2 DEF LogExact
  <1>8. LogKnown'
      <2>1. ASSUME NEW k \in RowKeys PROVE ValueKnown(k)'
          <3>1. ValueKnown(k)
              BY DEF AdministrationInv, LogKnown
          <3>2. Subject(k) \notin kept' /\ Vouched(form, ever, k, value[k], {}) => Vouched(form', ever', k, value'[k], {})
              BY <1>2, <1>4 DEF Vouched, Changed
          <3> QED BY <1>2, <1>3, <1>4, <3>1, <3>2 DEF ValueKnown, Changed
      <2>2. \A q \in Forms : UndoKnown(q)'
          BY <1>1 DEF UndoKnown, Unrecorded
      <2>3. OneUndo'
          BY <1>1 DEF OneUndo
      <2> QED BY <2>1, <2>2, <2>3 DEF LogKnown
  <1> QED BY <1>5, <1>6, <1>7, <1>8

\* Steps of the directory, and no step at all.
LEMMA OtherStepsKeep ==
    ASSUME AdministrationInv, UNCHANGED <<value, made, form, said, ever, lapses, crossed, kept>>
    PROVE  MadeKnown' /\ Apart' /\ LogExact' /\ LogKnown'
  <1>1. MadeKnown' /\ Apart'
      BY DEF AdministrationInv, MadeKnown, Apart, Exists
  <1>2. LogExact'
      BY DEF AdministrationInv, LogExact, Accounted, Exact, Clean
  <1>3. LogKnown'
      BY DEF AdministrationInv, LogKnown, OneUndo, ValueKnown, UndoKnown
  <1> QED BY <1>1, <1>2, <1>3

\* Where a request's step leaves it at the cache, the directory has answered.
LEMMA FoundIsIn ==
    ASSUME AdministrationTypes, FormsFit, CacheKnown, NEW r \in Forms,
           \/ \E g : Arrived(r, g)
           \/ Refused(r) \/ Checked(r) \/ Write(r) \/ GroupMemberDNs(r) \/ FindIDsByLDAPDNs(r) \/ ReplaceMembersOfDN(r)
           \/ PruneUnmappedMemberships(r) \/ Record(r) \/ RecordFails(r) \/ Undo(r) \/ UndoFails(r)
    PROVE  /\ \A q \in Forms \ {r} : form'[q] = form[q]
           /\ form'[r].pc \in {"match", "cache"} => \A u \in form'[r].found : <<u, form'[r].key[3]>> \in wasIn
  <1> DEFINE f == form[r]
  <1>1. form \in [Forms -> FormStates] /\ f \in FormStates
      BY DEF AdministrationTypes
  <1>2. \A q \in Forms \ {r} : form'[q] = form[q]
      BY <1>1 DEF Arrived, Refused, Checked, Permitted, Write, GroupMemberDNs, FindIDsByLDAPDNs, ReplaceMembersOfDN,
             PruneUnmappedMemberships, Record, RecordFails, Undo, UndoFails
  <1>3. ASSUME NEW g, form' = [form EXCEPT ![r] = g] PROVE form'[r] = g
      BY <1>1, <1>3
  <1>4. CASE (\E g : Arrived(r, g)) \/ Refused(r) \/ Checked(r) \/ Record(r) \/ UndoFails(r)
      <2>1. form'[r].pc \notin {"match", "cache"}
          <3>1. (\E g : Arrived(r, g)) => form'[r].pc = "service"
              BY <1>3 DEF Arrived
          <3>2. Refused(r) \/ Record(r) \/ UndoFails(r) => form'[r].pc = "idle"
              BY <1>3, NoFormFits DEF Refused, Record, UndoFails
          <3>3. Checked(r) => form'[r].pc = "write"
              BY <1>3, CheckedReads DEF Reads
          <3> QED BY <1>4, <3>1, <3>2, <3>3
      <2> QED BY <1>2, <2>1
  <1>5. CASE PruneUnmappedMemberships(r) \/ RecordFails(r) \/ Undo(r)
      <2>1. form'[r].pc \notin {"match", "cache"}
          <3>1. FormEnds(r) => form'[r].pc = "idle"
              BY <1>3, NoFormFits DEF FormEnds
          <3>2. \A pc : FormMoves(r, {pc}) => form'[r].pc = pc
              BY <1>3 DEF FormMoves
          <3>3. FormEnds(r) \/ FormMoves(r, {"audit"}) \/ FormMoves(r, {"undo"}) \/ FormMoves(r, {"prune undone"})
              BY <1>5, FormsMove
          <3> QED BY <3>1, <3>2, <3>3
      <2> QED BY <1>2, <2>1
  <1>6. CASE Write(r) \/ ReplaceMembersOfDN(r)
      <2>1. form'[r].pc \notin {"match", "cache"}
          <3>1. CASE form' = [form EXCEPT ![r] = NoForm]
              BY <1>3, <3>1, NoFormFits
          <3>2. CASE form' # [form EXCEPT ![r] = NoForm]
              <4>1. PICK pc : form' = [form EXCEPT ![r].pc = pc] /\ pc \in {"backfill", "prune", "audit"}
                  BY <1>6, <3>2 DEF Write, ReplaceMembersOfDN
              <4>2. form'[r].pc = pc
                  BY <1>1, <4>1 DEF FormStates
              <4> QED BY <4>1, <4>2
          <3> QED BY <3>1, <3>2
      <2> QED BY <1>2, <2>1
  <1>7. CASE GroupMemberDNs(r)
      <2> DEFINE x == {u \in Staff \ LocalStaff : <<u, f.key[3]>> \in inAd}
      <2>1. CASE form' = [form EXCEPT ![r].pc = "audit"]
          <3>1. form'[r].pc = "audit"
              BY <1>1, <2>1 DEF FormStates
          <3> QED BY <1>2, <3>1
      <2>2. CASE form' = [form EXCEPT ![r].pc = "match", ![r].found = x]
          <3>1. \A u \in x : <<u, f.key[3]>> \in wasIn
              BY DEF CacheKnown
          <3> HIDE DEF x
          <3>2. form'[r].found = x /\ form'[r].key = f.key
              BY <1>1, <2>2 DEF FormStates
          <3> QED BY <1>2, <3>1, <3>2
      <2> QED BY <1>7, <2>1, <2>2 DEF GroupMemberDNs
  <1>8. CASE FindIDsByLDAPDNs(r)
      <2>1. CASE form' = [form EXCEPT ![r].pc = "audit"]
          <3>1. form'[r].pc = "audit"
              BY <1>1, <2>1 DEF FormStates
          <3> QED BY <1>2, <3>1
      <2>2. CASE form' # [form EXCEPT ![r].pc = "audit"]
          <3>1. PICK x \in SUBSET f.found : form' = [form EXCEPT ![r].pc = "cache", ![r].found = x]
              BY <1>8, <2>2 DEF FindIDsByLDAPDNs
          <3>2. form'[r].found = x /\ form'[r].key = f.key
              BY <1>1, <3>1 DEF FormStates
          <3>3. f.pc = "match"
              BY <1>8 DEF FindIDsByLDAPDNs
          <3> QED BY <1>2, <3>1, <3>2, <3>3 DEF CacheKnown
      <2> QED BY <2>1, <2>2
  <1> QED BY <1>4, <1>5, <1>6, <1>7, <1>8

\* Requests leave in the cache only people who were in the group.
LEMMA RequestsKeepCache ==
    ASSUME AdministrationInv, NEW r \in Forms,
           \/ \E g : Arrived(r, g)
           \/ Refused(r) \/ Checked(r) \/ Write(r) \/ GroupMemberDNs(r) \/ FindIDsByLDAPDNs(r) \/ ReplaceMembersOfDN(r)
           \/ PruneUnmappedMemberships(r) \/ Record(r) \/ RecordFails(r) \/ Undo(r) \/ UndoFails(r)
    PROVE  CacheKnown'
  <1>0. AdministrationTypes /\ FormsFit /\ CacheKnown
      BY DEF AdministrationInv
  <1>1. UNCHANGED <<inAd, wasIn, refresh>>
      BY DEF Arrived, DirectoryStays, Refused, Checked, Permitted, Write, GroupMemberDNs, FindIDsByLDAPDNs, ReplaceMembersOfDN,
             PruneUnmappedMemberships, Record, RecordFails, Undo, UndoFails, directoryVars
  <1>2. cached' \subseteq wasIn
      <2>1. CASE ReplaceMembersOfDN(r)
          BY <1>0, <2>1 DEF ReplaceMembersOfDN, CacheKnown
      <2>2. CASE ~ReplaceMembersOfDN(r)
          <3>1. cached' \subseteq cached
              BY <2>2 DEF Arrived, DirectoryStays, Refused, Checked, Permitted, Write, GroupMemberDNs, FindIDsByLDAPDNs,
                     PruneUnmappedMemberships, Record, RecordFails, Undo, UndoFails, directoryVars
          <3> QED BY <1>0, <3>1 DEF CacheKnown
      <2> QED BY <2>1, <2>2
  <1>3. \A q \in Forms : form'[q].pc \in {"match", "cache"} => \A u \in form'[q].found : <<u, form'[q].key[3]>> \in wasIn
      BY <1>0, FoundIsIn DEF CacheKnown
  <1> QED BY <1>0, <1>1, <1>2, <1>3 DEF CacheKnown

\* So do the directory, the sign-ins and a crash.
LEMMA DirectoryKeepsCache ==
    ASSUME AdministrationInv,
           \/ RefreshSteps \/ ServerDies \/ \E u \in Staff : RefreshUser(u) \/ \E d \in AdGroups : AdChanges(u, d)
    PROVE  CacheKnown'
  <1>0. CacheKnown /\ refresh \in [Staff -> Refreshes]
      BY DEF AdministrationInv, AdministrationTypes, Refreshes
  <1>1. wasIn \subseteq wasIn' /\ inAd' \subseteq wasIn'
      BY <1>0 DEF RefreshSteps, ServerDies, MemberOf, ReplaceUserMemberships, RefreshUser, AdChanges, CacheKnown
  <1>2. cached' \subseteq wasIn'
      <2>1. CASE \E u \in Staff : ReplaceUserMemberships(u)
          BY <1>0, <1>1, <2>1 DEF ReplaceUserMemberships, CacheKnown
      <2>2. CASE ~\E u \in Staff : ReplaceUserMemberships(u)
          <3>1. cached' = cached
              BY <2>2 DEF RefreshSteps, ServerDies, MemberOf, RefreshUser, AdChanges
          <3> QED BY <1>0, <1>1, <3>1 DEF CacheKnown
      <2> QED BY <2>1, <2>2
  <1>3. \A q \in Forms : form'[q].pc \in {"match", "cache"} => form'[q] = form[q]
      BY NoFormFits DEF RefreshSteps, ServerDies, MemberOf, ReplaceUserMemberships, RefreshUser, AdChanges
  <1>4. ASSUME NEW u \in Staff, refresh'[u].pc = "replace" PROVE \A d \in refresh'[u].dns : <<u, d>> \in wasIn'
      <2>1. CASE refresh'[u] = refresh[u]
          BY <1>0, <1>1, <1>4, <2>1 DEF CacheKnown
      <2>2. CASE refresh'[u] # refresh[u]
          <3>1. MemberOf(u)
              <4>1. ~ServerDies /\ refresh' # refresh
                  BY <1>4, <2>2 DEF ServerDies
              <4>2. PICK x \in Staff : RefreshUser(x) \/ MemberOf(x) \/ ReplaceUserMemberships(x)
                  BY <4>1 DEF RefreshSteps, AdChanges
              <4>3. x = u
                  BY <1>0, <2>2, <4>2 DEF RefreshUser, MemberOf, ReplaceUserMemberships
              <4> QED BY <1>0, <1>4, <4>2, <4>3 DEF RefreshUser, ReplaceUserMemberships
          <3>2. refresh'[u].dns = {d \in refresh[u].dns : <<u, d>> \in inAd} /\ inAd \subseteq wasIn
              BY <1>0, <1>4, <3>1 DEF MemberOf, CacheKnown
          <3> QED BY <1>1, <3>2
      <2> QED BY <2>1, <2>2
  <1> QED BY <1>0, <1>1, <1>2, <1>3, <1>4 DEF CacheKnown

\* Requests and the directory leave an account that was there in place.
LEMMA TiersStay ==
    ASSUME AdministrationInv, NEW r \in Forms,
           \/ \E g : Arrived(r, g)
           \/ Refused(r) \/ Checked(r) \/ Write(r) \/ GroupMemberDNs(r) \/ FindIDsByLDAPDNs(r) \/ ReplaceMembersOfDN(r)
           \/ PruneUnmappedMemberships(r) \/ Record(r) \/ RecordFails(r) \/ Undo(r) \/ UndoFails(r)
    PROVE  TiersMade'
  <1>0. AdministrationTypes /\ FormsFit /\ TiersMade /\ MadeKnown /\ form \in [Forms -> FormStates]
      BY DEF AdministrationInv, AdministrationTypes
  <1>1. made \subseteq made'
      BY DEF Arrived, RowsStay, Refused, Checked, Permitted, Write, GroupMemberDNs, FindIDsByLDAPDNs, ReplaceMembersOfDN,
             PruneUnmappedMemberships, Record, RecordFails, Undo, UndoFails
  <1>2. \A q \in Forms \ {r} : form'[q] = form[q]
      BY <1>0, FoundIsIn DEF AdministrationInv
  <1>3. ASSUME form'[r].pc \in PastCheck, form'[r].op = "elevate" PROVE form'[r].key \in made
      <2>1. CASE Checked(r)
          <3>1. PICK g \in FormStates : g.op = form[r].op /\ g.key = form[r].key /\ form' = [form EXCEPT ![r] = g]
              BY <1>0, <2>1, CheckedReads DEF Reads
          <3>2. form'[r] = g
              BY <1>0, <3>1
          <3>3. form[r].key \in RowKeys /\ Exists(form[r].key)
              BY <1>0, <1>3, <2>1, <3>1, <3>2 DEF Checked, FormStates
          <3> QED BY <1>0, <3>1, <3>2, <3>3 DEF MadeKnown
      <2>2. CASE (\E g : Arrived(r, g)) \/ Refused(r) \/ Record(r) \/ UndoFails(r)
          <3>1. form'[r].pc \in {"idle", "service"}
              BY <1>0, <2>2, NoFormFits DEF Arrived, Refused, Record, UndoFails
          <3> QED BY <1>3, <3>1 DEF PastCheck
      <2>3. CASE Write(r) \/ GroupMemberDNs(r) \/ FindIDsByLDAPDNs(r) \/ ReplaceMembersOfDN(r) \/ PruneUnmappedMemberships(r)
                 \/ RecordFails(r) \/ Undo(r)
          <3>1. form[r].pc \in PastCheck
              BY <2>3 DEF Write, GroupMemberDNs, FindIDsByLDAPDNs, ReplaceMembersOfDN, PruneUnmappedMemberships,
                     RecordFails, Undo, PastCheck, FormPCs
          <3>2. FormEnds(r) \/ \E S : FormMoves(r, S)
              BY <1>0, <2>3, FormsMove
          <3>3. CASE FormEnds(r)
              BY <1>0, <1>3, <3>3, NoFormFits DEF FormEnds, PastCheck
          <3>4. CASE \E S : FormMoves(r, S)
              <4>1. PICK g \in FormStates : Same(form[r], g) /\ form' = [form EXCEPT ![r] = g]
                  BY <3>4 DEF FormMoves
              <4>2. form'[r] = g
                  BY <1>0, <4>1
              <4> QED BY <1>0, <1>3, <3>1, <4>1, <4>2 DEF TiersMade, Same
          <3> QED BY <3>2, <3>3, <3>4
      <2> QED BY <2>1, <2>2, <2>3
  <1> QED BY <1>0, <1>1, <1>2, <1>3 DEF TiersMade

\* A first login makes an account no request can be about.
LEMMA FirstLoginKeeps == ASSUME AdministrationInv, NEW u \in Staff, FirstLogin(u) PROVE AdministrationInv'
  <1>0. AdministrationTypes /\ FormsFit /\ MadeKnown /\ TiersMade /\ LogExact /\ LogKnown
      BY DEF AdministrationInv
  <1>1. PICK k : k = <<"tier", u, None>>
      OBVIOUS
  <1>2. k \in RowKeys /\ k[1] = "tier" /\ k[2] = u /\ Subject(k) = k
      BY <1>1, KeyFacts DEF Subject
  <1>3. /\ k \notin made /\ u \notin LocalStaff /\ made' = made \cup {k}
        /\ UNCHANGED <<form, cached, inAd, refresh, wasIn, lapses, crossed, kept>>
      BY <1>1 DEF FirstLogin, directoryVars
  <1>4. /\ value \in [RowKeys -> Contents] /\ said \in [RowKeys -> Contents] /\ ever \in [RowKeys -> SUBSET Contents]
        /\ "read_only" \in Contents /\ "read_only" # Absent
      BY <1>0 DEF AdministrationTypes, RowsFit, Contents, Tiers, Absent
  <1>5. /\ value' \in [RowKeys -> Contents] /\ said' \in [RowKeys -> Contents] /\ ever' \in [RowKeys -> SUBSET Contents]
        /\ \A q \in RowKeys : /\ value'[q] = IF q = k THEN "read_only" ELSE value[q]
                              /\ said'[q] = IF q = k THEN "read_only" ELSE said[q]
                              /\ ever'[q] = IF q = k THEN ever[q] \cup {"read_only"} ELSE ever[q]
      BY <1>1, <1>2, <1>4 DEF FirstLogin
  <1>6. \A r \in Forms : form[r].pc \in PastCheck => form[r].key # k
      BY <1>0, <1>2, <1>3 DEF FormsFit, FormFits, TiersMade
  <1>7. /\ \A r \in Forms : form[r].pc \in Changed \cup {"write"} => form[r].pc \in PastCheck
        /\ \A r \in Forms : form[r].pc \in Changed => k \notin Recorded(form[r])
      <2>1. \A r \in Forms : form[r].pc \in Changed \cup {"write"} => form[r].pc \in PastCheck
          BY DEF Changed, Unrecorded, PastCheck, FormPCs
      <2> QED BY <1>2, <1>6, <2>1 DEF Recorded
  <1>8. AdministrationTypes' /\ FormsFit'
      <2>1. \A q \in RowKeys : q[1] \in {"mapping", "member"} =>
                value'[q] \in {"yes", Absent} /\ (value'[q] # Absent => value'[Subject(q)] # Absent)
          BY <1>0, <1>2, <1>4, <1>5, SubjectFacts DEF AdministrationTypes, RowsFit, Exists
      <2>2. RowsFit'
          BY <1>5, <2>1 DEF RowsFit, Exists
      <2> QED BY <1>0, <1>2, <1>3, <1>5, <2>2 DEF AdministrationTypes, FormsFit, Refreshes
  <1>9. MadeKnown' /\ TiersMade'
      BY <1>0, <1>2, <1>3, <1>5 DEF MadeKnown, TiersMade, Exists
  <1>10. Apart' /\ CacheKnown'
      BY <1>3 DEF AdministrationInv, Apart, CacheKnown
  <1>11. LogExact'
      <2>1. ASSUME NEW q \in RowKeys PROVE Accounted(q)'
          BY <1>0, <1>3, <1>5 DEF LogExact, Accounted, Clean
      <2>2. ASSUME NEW r \in Forms PROVE Exact(form[r])'
          <3>1. Exact(form[r]) /\ form[r].key \in RowKeys /\ \A q \in Recorded(form[r]) : q \in RowKeys
              BY <1>0, FormsRecorded DEF LogExact
          <3>2. CASE form[r].pc \in Changed \cup {"write"}
              <4>1. form[r].key # k /\ Subject(k) # form[r].key /\ (form[r].pc \in Changed => k \notin Recorded(form[r]))
                  BY <1>2, <1>6, <1>7, <3>2
              <4>2. CASE form[r].pc = "write"
                  BY <1>3, <1>5, <3>1, <4>1, <4>2 DEF Exact, Clean, Changed, Unrecorded
              <4>3. CASE form[r].pc \in Changed
                  BY <1>3, <1>5, <3>1, <4>1, <4>3 DEF Exact, Clean, Changed, Unrecorded
              <4> QED BY <3>2, <4>2, <4>3
          <3>3. CASE form[r].pc \notin Changed \cup {"write"}
              BY <1>3, <3>3 DEF Exact
          <3> QED BY <3>2, <3>3
      <2> QED BY <2>1, <2>2 DEF LogExact
  <1>12. LogKnown'
      <2>1. \A q \in RowKeys : \A v, S : Vouched(form, ever, q, v, S) => Vouched(form', ever', q, v, S)
          BY <1>3, <1>5 DEF Vouched
      <2>2. ASSUME NEW q \in RowKeys PROVE ValueKnown(q)'
          <3>1. CASE q = k
              BY <1>5, <3>1 DEF ValueKnown, Vouched
          <3>2. CASE q # k
              <4>1. value'[q] = value[q]
                  BY <1>5, <3>2
              <4>2. Vouched(form, ever, q, value[q], {}) => Vouched(form', ever', q, value'[q], {})
                  BY <2>1, <4>1
              <4> QED BY <1>0, <1>3, <4>2 DEF LogKnown, ValueKnown
          <3> QED BY <3>1, <3>2
      <2>3. ASSUME NEW r \in Forms PROVE UndoKnown(r)'
          <3>1. UndoKnown(r) /\ form[r].key \in RowKeys
              BY <1>0, FormsRecorded DEF LogKnown
          <3>2. /\ Vouched(form, ever, form[r].key, form[r].from, {r}) => Vouched(form', ever', form'[r].key, form'[r].from, {r})
                /\ Vouched(form, ever, form[r].key, UndoValue(form[r]), {r}) => Vouched(form', ever', form'[r].key, UndoValue(form'[r]), {r})
              BY <1>3, <2>1, <3>1
          <3>3. \A q \in RowKeys : Absent \in ever[q] => Absent \in ever'[q]
              BY <1>5
          <3> QED BY <1>3, <3>1, <3>2, <3>3 DEF UndoKnown
      <2>4. OneUndo'
          BY <1>0, <1>3 DEF LogKnown, OneUndo
      <2> QED BY <2>2, <2>3, <2>4 DEF LogKnown
  <1> QED BY <1>8, <1>9, <1>10, <1>11, <1>12 DEF AdministrationInv

\* Whatever was set up before the server starts is what the log begins with.
LEMMA AdministrationStarts ==
    ASSUME RowsFit, inAd \subseteq (Staff \ LocalStaff) \X AdGroups, AdministrationInit
    PROVE  AdministrationInv
  <1>1. \A r \in Forms : form[r] = NoForm
      BY DEF AdministrationInit
  <1>2. AdministrationTypes
      <2>1. form \in [Forms -> FormStates] /\ refresh \in [Staff -> Refreshes]
          BY NoFormFits DEF AdministrationInit, Refreshes
      <2>2. inAd \subseteq Staff \X AdGroups /\ wasIn \subseteq Staff \X AdGroups /\ cached \subseteq Staff \X AdGroups
          BY DEF AdministrationInit
      <2>3. said \in [RowKeys -> Contents] /\ ever \in [RowKeys -> SUBSET Contents]
          BY DEF AdministrationInit, RowsFit
      <2> QED BY <2>1, <2>2, <2>3 DEF AdministrationInit, AdministrationTypes
  <1>3. FormsFit
      BY <1>1, NoFormFits DEF FormsFit
  <1>4. \A r \in Forms : form[r].pc = "idle"
      BY <1>1, NoFormFits
  <1>5. /\ said = value /\ lapses = 0 /\ cached = {} /\ wasIn = inAd
        /\ \A k \in RowKeys : ever[k] = {value[k]} /\ (k \in made <=> value[k] # Absent)
      BY DEF AdministrationInit
  <1>6. MadeKnown
      <2>1. ASSUME NEW k \in RowKeys \ made, NEW q \in RowKeys, Subject(q) = k PROVE Absent \in ever[q]
          BY <1>5, <2>1, SubjectFacts DEF RowsFit, Exists
      <2> QED BY <1>4, <1>5, <2>1 DEF MadeKnown, Exists, Changed, Unrecorded
  <1>7. Apart
      BY <1>4 DEF Apart, PastCheck
  <1>8. LogExact
      BY <1>4, <1>5 DEF LogExact, Accounted, Exact, Changed, Unrecorded
  <1>9. LogKnown
      BY <1>4, <1>5 DEF LogKnown, OneUndo, ValueKnown, UndoKnown, Vouched, Unrecorded
  <1>10. CacheKnown
      <2>1. \A u \in Staff : refresh[u].pc = "idle"
          BY DEF AdministrationInit
      <2> QED BY <1>4, <1>5, <2>1 DEF CacheKnown
  <1>11. TiersMade
      BY <1>4 DEF TiersMade, PastCheck
  <1> QED BY <1>2, <1>3, <1>6, <1>7, <1>8, <1>9, <1>10, <1>11 DEF AdministrationInv

\* The steps of a request, by what they do to the rows and the log.
LEMMA RequestsKeep ==
    ASSUME AdministrationInv, NEW r \in Forms,
           \/ \E g : Arrived(r, g)
           \/ Refused(r) \/ Checked(r) \/ Write(r) \/ GroupMemberDNs(r) \/ FindIDsByLDAPDNs(r) \/ ReplaceMembersOfDN(r)
           \/ PruneUnmappedMemberships(r) \/ Record(r) \/ RecordFails(r) \/ Undo(r) \/ UndoFails(r)
    PROVE  AdministrationInv'
  <1>0. AdministrationTypes /\ FormsFit
      BY DEF AdministrationInv
  <1>1. AdministrationTypes' /\ FormsFit' /\ CacheKnown'
      BY <1>0, RequestsKeepTypes, RequestsKeepCache
  <1>2. RecordFails(r) => Lapses(r) \/ Abandons(r)
      <2>1. RecordFails(r) => IF Undoes(form[r].op) THEN FormMoves(r, {"undo"}) ELSE FormEnds(r)
          BY <1>0, FormsMove
      <2> QED BY <2>1 DEF RecordFails, Lapses, Abandons
  <1>3. UndoFails(r) => Abandons(r)
      BY DEF UndoFails, Abandons, FormEnds
  <1>4. Undo(r) => PutsBack(r) \/ Abandons(r)
      BY UndoPutsBack
  <1>5. Quiet(r) \/ Checked(r) \/ Wrote(r) \/ Record(r) \/ Lapses(r) \/ Abandons(r) \/ PutsBack(r)
      BY <1>0, <1>2, <1>3, <1>4, QuietSteps
  <1>6. MadeKnown' /\ Apart' /\ LogExact' /\ LogKnown'
      BY <1>5, QuietKeeps, CheckKeeps, WroteKeeps, RecordKeeps, LapseKeeps, AbandonKeeps, UndoKeeps
  <1> QED BY <1>1, <1>6, TiersStay DEF AdministrationInv

\* The invariant of the administration.
THEOREM AdministrationInvariance == AdministrationSpec => []AdministrationInv
  <1>1. ASSUME RowsFit, inAd \subseteq (Staff \ LocalStaff) \X AdGroups, AdministrationInit PROVE AdministrationInv
      BY <1>1, AdministrationStarts
  <1>2. ASSUME AdministrationInv, [AdministrationNext]_adminVars PROVE AdministrationInv'
      <2>0. AdministrationTypes /\ FormsFit
          BY <1>2 DEF AdministrationInv
      <2>1. CASE UNCHANGED adminVars
          <3>1. UNCHANGED <<value, made, form, said, ever, lapses, crossed, kept>> /\ UNCHANGED <<cached, inAd, refresh, wasIn>>
              BY <2>1 DEF adminVars
          <3>2. MadeKnown' /\ Apart' /\ LogExact' /\ LogKnown'
              BY <1>2, <3>1, OtherStepsKeep
          <3>3. AdministrationTypes' /\ FormsFit' /\ TiersMade' /\ CacheKnown'
              BY <1>2, <3>1 DEF AdministrationInv, AdministrationTypes, FormsFit, TiersMade, CacheKnown, RowsFit, Exists
          <3> QED BY <3>2, <3>3 DEF AdministrationInv
      <2>2. CASE \E r \in Forms, who \in Staff \cup {BreakGlass} :
                     UserForms(r, who) \/ SettingForms(r, who) \/ RegistryForms(r, who) \/ GroupForms(r, who)
          <3>1. \E r \in Forms : \E g : Arrived(r, g)
              BY <2>0, <2>2, HandlersArrive
          <3> QED BY <1>2, <3>1, RequestsKeep
      <2>3. CASE FormSteps
          <3>1. \E r \in Forms :
                    \/ Refused(r) \/ Checked(r) \/ Write(r) \/ GroupMemberDNs(r) \/ FindIDsByLDAPDNs(r) \/ ReplaceMembersOfDN(r)
                    \/ PruneUnmappedMemberships(r) \/ Record(r) \/ RecordFails(r) \/ Undo(r) \/ UndoFails(r)
              BY <2>3, ServicesCheck DEF FormSteps
          <3> QED BY <1>2, <3>1, RequestsKeep
      <2>4. CASE RefreshSteps \/ ServerDies \/ \E u \in Staff : RefreshUser(u) \/ \E d \in AdGroups : AdChanges(u, d)
          <3>1. AdministrationTypes' /\ FormsFit' /\ CacheKnown'
              BY <1>2, <2>0, <2>4, DirectoryKeepsTypes, DirectoryKeepsCache
          <3>2. MadeKnown' /\ Apart' /\ LogExact' /\ LogKnown'
              <4>1. CASE ServerDies
                  BY <1>2, <4>1, CrashKeeps
              <4>2. CASE ~ServerDies
                  <5>1. UNCHANGED <<value, made, form, said, ever, lapses, crossed, kept>>
                      BY <2>4, <4>2 DEF RefreshSteps, MemberOf, ReplaceUserMemberships, RefreshUser, AdChanges, historyVars
                  <5> QED BY <1>2, <5>1, OtherStepsKeep
              <4> QED BY <4>1, <4>2
          <3>3. TiersMade'
              <4>1. CASE ServerDies
                  BY <4>1, NoFormFits DEF ServerDies, TiersMade, PastCheck
              <4>2. CASE ~ServerDies
                  BY <1>2, <2>4, <4>2 DEF AdministrationInv, TiersMade, RefreshSteps, MemberOf, ReplaceUserMemberships, RefreshUser, AdChanges
              <4> QED BY <4>1, <4>2
          <3> QED BY <3>1, <3>2, <3>3 DEF AdministrationInv
      <2>5. CASE \E u \in Staff : FirstLogin(u)
          BY <1>2, <2>5, FirstLoginKeeps
      <2> QED BY <1>2, <2>1, <2>2, <2>3, <2>4, <2>5 DEF AdministrationNext
  <1> QED BY <1>1, <1>2, PTL DEF AdministrationSpec

\* The rows, the requests, the cache and the histories have their types.
THEOREM AdministrationTypeCorrect == AdministrationSpec => []AdministrationTypes
  BY AdministrationInvariance, PTL DEF AdministrationInv

\* Once no request is under way, what is in place is what the audit log says,
\* and nobody belongs to a group without a record of it, with the exceptions
\* AccessWasGranted names: whatever requests ran at once, for any number of
\* people, groups and requests.
THEOREM AccessWasAlwaysGranted == AdministrationSpec => []AccessWasGranted
  <1>1. ASSUME AdministrationInv PROVE AccessWasGranted
      <2> SUFFICES ASSUME \A r \in Forms : form[r].pc = "idle"
                   PROVE  /\ \A k \in RowKeys : Subject(k) \notin kept =>
                                /\ Subject(k) \notin crossed => value[k] = said[k]
                                /\ lapses <= 1 => value[k] \in ever[k]
                          /\ \A g \in AppGroups : <<"group", g, None>> \notin kept /\ lapses <= 1 =>
                                \A u \in Members(g) :
                                    \/ "yes" \in ever[<<"member", g, u>>]
                                    \/ \E d \in AdGroups : "yes" \in ever[<<"mapping", g, d>>] /\ <<u, d>> \in wasIn
          BY DEF AccessWasGranted
      <2>1. ASSUME NEW k \in RowKeys, Subject(k) \notin kept
            PROVE  /\ Subject(k) \notin crossed => value[k] = said[k]
                   /\ lapses <= 1 => value[k] \in ever[k]
          <3>1. Accounted(k) /\ ValueKnown(k)
              BY <1>1 DEF AdministrationInv, LogExact, LogKnown
          <3> QED BY <2>1, <3>1 DEF Accounted, Clean, ValueKnown, Vouched, Changed, Unrecorded
      <2>2. ASSUME NEW g \in AppGroups, <<"group", g, None>> \notin kept, lapses <= 1, NEW u \in Members(g)
            PROVE  \/ "yes" \in ever[<<"member", g, u>>]
                   \/ \E d \in AdGroups : "yes" \in ever[<<"mapping", g, d>>] /\ <<u, d>> \in wasIn
          <3>1. RowsFit /\ cached \subseteq wasIn
              BY <1>1 DEF AdministrationInv, AdministrationTypes, CacheKnown
          <3>2. ASSUME NEW k \in RowKeys, k[1] \in {"mapping", "member"}, k[2] = g, Exists(k) PROVE "yes" \in ever[k]
              <4>1. Subject(k) = <<"group", g, None>>
                  BY <3>2 DEF Subject
              <4>2. value[k] = "yes"
                  BY <3>1, <3>2 DEF RowsFit, Exists
              <4> QED BY <2>1, <2>2, <4>1, <4>2
          <3>3. u \in Staff /\ (Exists(<<"member", g, u>>) \/ \E d \in AdGroups : Exists(<<"mapping", g, d>>) /\ <<u, d>> \in cached)
              BY <2>2 DEF Members
          <3>4. CASE Exists(<<"member", g, u>>)
              <4>1. <<"member", g, u>> \in RowKeys
                  BY <3>3, KeyFacts
              <4> QED BY <3>2, <3>4, <4>1
          <3>5. ASSUME NEW d \in AdGroups, Exists(<<"mapping", g, d>>), <<u, d>> \in cached
                PROVE  "yes" \in ever[<<"mapping", g, d>>] /\ <<u, d>> \in wasIn
              <4>1. <<"mapping", g, d>> \in RowKeys
                  BY KeyFacts
              <4> QED BY <3>1, <3>2, <3>5, <4>1
          <3> QED BY <3>3, <3>4, <3>5
      <2> QED BY <2>1, <2>2
  <1> QED BY <1>1, AdministrationInvariance, PTL
=============================================================================
