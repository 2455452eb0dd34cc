--------------------------- MODULE FileActivityProofs ---------------------------
(***************************************************************************)
(* Whatever happens to a file while its changes are dealt with, and        *)
(* whatever fails, no activity is posted again once its time is stored,    *)
(* and none is missed.                                                     *)
(*                                                                         *)
(* Neither property is inductive: both speak of what has been posted only. *)
(* ClockInv orders the times at Google, BumpInv relates them to the file's *)
(* ModifiedTime and to the change, OnceInv bounds what was posted by the   *)
(* stored time, and CoverInv says where each activity is that the user has *)
(* not got: still to be asked for, in hand, or after a new change.         *)
(***************************************************************************)
EXTENDS FileActivity, FiniteSetTheorems, WellFoundedInduction, TLAPS

\* The user has got a post for the activity, or has opened the file since, or the
\* code gave it up, or overlooked it.
Seen(t) == t \in notified \cup summed \/ t < viewed \/ t \in cut \cup overlooked
SeenUpTo(x) == \A t \in Time : log[t] \in Posted /\ t <= x => Seen(t)

\* The webhook's place tells how far the loop is.
LoopInv ==
    /\ ActivityTypeOK
    /\ at = "query" => queries < MaxQueries
    /\ at = "report" => activities # {}

\* Google's clock, the webhook's copies of its times, and what is posted of it.
ClockInv ==
    /\ modified <= now /\ viewed <= now /\ changed <= now
    /\ lastActivity <= now /\ lastActivityTime <= now
    /\ file.modified <= modified /\ file.viewed <= viewed /\ file.time <= now
    /\ \A t \in Time : log[t] # "none" => t <= now /\ t # viewed /\ t # file.viewed
    /\ \A t \in activities : log[t] \in Listed
    /\ \A t \in notified : log[t] \in Posted

\* Only what is quiet is after ModifiedTime, at Google and in the change in hand, and
\* everything that happened is before the time of the change.
BumpInv ==
    /\ \A t \in Time \ quiet : log[t] \in Posted => t <= modified
    /\ at = "check" => \A t \in Time \ quiet :
          log[t] \in Posted /\ t <= file.time => t <= file.modified
    /\ changed # 0 => \A t \in Time : log[t] \in Posted => t <= changed
    /\ at # "idle" /\ changed = 0 => \A t \in Time : log[t] \in Posted => t <= file.time

\* Of what is not quiet: what was posted is not after ModifiedTime, what is settled is
\* not after the stored time.  And all that is in hand is after it.
OnceInv ==
    /\ again \subseteq quiet
    /\ \A t \in settled \ quiet : t <= lastActivity
    /\ at \in {"check", "query", "report"} => \A t \in notified \ quiet : t <= file.modified
    /\ at \in {"query", "report"} =>
          /\ lastActivity <= lastActivityTime
          /\ \A t \in activities : lastActivityTime < t
    /\ at = "store" => \A t \in (settled \cup (activities \cap notified)) \ quiet :
          t <= lastActivityTime

\* It happened after the change in hand was listed, and after all that was found.
Fresh(t) == changed # 0 /\ file.modified < t /\ \A a \in activities : a < t

CoverInv ==
    /\ overlooked \subseteq quiet
    /\ SeenUpTo(lastActivity)
    /\ at \in {"query", "report", "store"} => SeenUpTo(lastActivityTime)
    /\ at = "query" => \A t \in Time : log[t] \in Posted =>
          Seen(t) \/ t \in activities \/ t < older \/ Fresh(t)
    /\ at = "report" => \A t \in Time : log[t] \in Posted =>
          Seen(t) \/ t \in activities \/ Fresh(t)
    /\ at \in {"store", "idle"} /\ changed = 0 => SeenUpTo(MaxTime)

Inv == LoopInv /\ ClockInv /\ BumpInv /\ OnceInv /\ CoverInv

-----------------------------------------------------------------------------
(* Sets of times.                                                          *)

\* A set of numbers that is not empty has a least one.
LEMMA LeastExists ==
    ASSUME NEW S \in SUBSET Nat, S # {}
    PROVE  \E x \in S : \A y \in S : x <= y
<1> DEFINE R == OpToRel(<, Nat)
<1>1. \A x, y \in Nat : y < x => <<y, x>> \in R
    BY DEF OpToRel
<1>2. IsWellFoundedOn(R, Nat)
    BY NatLessThanWellFounded
<1> HIDE DEF R
<1>3. PICK x \in S : \A y \in S : ~ (<<y, x>> \in R)
    BY <1>2, WFMin
<1>4. \A y \in S : ~ (y < x)
    BY <1>1, <1>3
<1> QED BY <1>4

\* So a bounded one has a greatest.
LEMMA GreatestExists ==
    ASSUME NEW n \in Nat, NEW S \in SUBSET (0 .. n), S # {}
    PROVE  \E x \in S : \A y \in S : y <= x
<1> DEFINE T == {m \in Nat : n - m \in S}
<1>1. T # {}
    <2>1. PICK s \in S : TRUE
        OBVIOUS
    <2>2. n - s \in Nat /\ n - (n - s) = s
        OBVIOUS
    <2> QED BY <2>1, <2>2
<1>2. PICK m \in T : \A k \in T : m <= k
    <2> HIDE DEF T
    <2>1. T \in SUBSET Nat
        BY DEF T
    <2> QED BY <1>1, <2>1, LeastExists
<1>3. \A y \in S : n - y \in T
    <2> TAKE y \in S
    <2>1. n - y \in Nat /\ n - (n - y) = y
        OBVIOUS
    <2> QED BY <2>1
<1>4. n - m \in S /\ \A y \in S : y <= n - m
    BY <1>2, <1>3
<1> QED BY <1>4

\* What Max and Min return.
LEMMA MaxOfTimes ==
    ASSUME NEW S \in SUBSET Time, S # {}
    PROVE  Max(S) \in S /\ \A t \in S : t <= Max(S)
<1>1. MaxTime \in Nat /\ S \in SUBSET (0 .. MaxTime)
    BY TimeAssumption DEF Time
<1>2. \E x \in S : \A y \in S : x >= y
    BY <1>1, GreatestExists DEF Time
<1>3. Max(S) \in S /\ \A y \in S : Max(S) >= y
    BY <1>2 DEF Max
<1> QED BY <1>1, <1>3

\* A set of times has a least one.
LEMMA MinOfTimes ==
    ASSUME NEW S \in SUBSET Time, S # {}
    PROVE  Min(S) \in S /\ \A t \in S : Min(S) <= t
<1>1. S \in SUBSET Nat
    BY TimeAssumption DEF Time
<1>2. \E x \in S : \A y \in S : x =< y
    BY <1>1, LeastExists
<1> QED BY <1>2 DEF Min

\* The newest of a set are newer than the others, and there is one if there are any.
LEMMA NewestAreNewest ==
    ASSUME NEW S \in SUBSET Time, NEW n \in Nat \ {0}
    PROVE  /\ NewestOf(S, n) \subseteq S
           /\ \A t \in S \ NewestOf(S, n), u \in NewestOf(S, n) : t < u
           /\ S # {} => NewestOf(S, n) # {}
<1>1. MaxTime \in Nat /\ Time \subseteq Nat
    BY TimeAssumption DEF Time
<1>2. \A t \in S : IsFiniteSet({u \in S : u > t}) /\ Cardinality({u \in S : u > t}) \in Nat
    <2>1. IsFiniteSet(Time)
        BY <1>1, FS_Interval DEF Time
    <2> TAKE t \in S
    <2>2. {u \in S : u > t} \in SUBSET Time
        OBVIOUS
    <2> QED BY <2>1, <2>2, FS_Subset, FS_CardinalityType
<1>3. ASSUME NEW t \in S \ NewestOf(S, n), NEW u \in NewestOf(S, n), ~(t < u)
      PROVE  FALSE
    <2>0. t \in S /\ u \in S /\ t \in Nat /\ u \in Nat /\ u <= t
        BY <1>1, <1>3 DEF NewestOf
    <2>1. {v \in S : v > t} \in SUBSET {v \in S : v > u}
        <3>1. \A v \in S : v > t => v > u
            BY <1>1, <2>0
        <3> QED BY <3>1
    <2>2. Cardinality({v \in S : v > t}) <= Cardinality({v \in S : v > u})
        BY <1>2, <2>0, <2>1, FS_Subset
    <2> QED BY <1>2, <2>0, <2>2 DEF NewestOf
<1>4. ASSUME S # {}
      PROVE  NewestOf(S, n) # {}
    <2>0. S \in SUBSET (0 .. MaxTime)
        BY <1>1 DEF Time
    <2>1. PICK t \in S : \A u \in S : u <= t
        BY <1>1, <1>4, <2>0, GreatestExists
    <2>2. {u \in S : u > t} = {}
        <3>1. \A u \in S : ~ (u > t)
            BY <1>1, <2>1
        <3> QED BY <3>1
    <2>3. Cardinality({u \in S : u > t}) < n
        BY <2>2, FS_EmptySet
    <2> QED BY <2>3 DEF NewestOf
<1> QED BY <1>3, <1>4 DEF NewestOf

\* A page of Google's answer.
LEMMA PageFacts ==
    ASSUME ActivityTypeOK
    PROVE  /\ Remaining \in SUBSET Time /\ Page \subseteq Remaining
           /\ \A t \in Remaining \ Page, u \in Page : t < u
           /\ Remaining # {} => Page # {} /\ Min(Page) \in Page /\ \A t \in Page : Min(Page) <= t
<1>1. Remaining \in SUBSET Time
    BY TimeAssumption DEF ActivityTypeOK, Remaining, Time
<1>2. (IF latest THEN 1 ELSE QueryPage) \in Nat \ {0}
    BY TimeAssumption
<1>3. /\ Page \subseteq Remaining
      /\ \A t \in Remaining \ Page, u \in Page : t < u
      /\ Remaining # {} => Page # {}
    BY <1>1, <1>2, NewestAreNewest DEF Page
<1> QED BY <1>1, <1>3, MinOfTimes

-----------------------------------------------------------------------------
(* Types.                                                                  *)

\* LoopInv holds at the start.
LEMMA LoopInit == ActivityInit => LoopInv
<1> SUFFICES ASSUME ActivityInit
             PROVE  LoopInv
    OBVIOUS
<1>1. 1 \in Time /\ 0 \in Time0 /\ FirstViews \subseteq Time0
    BY TimeAssumption DEF Time, Time0
<1>2. /\ log \in [Time -> Kind \cup {"none"}]
      /\ file \in [modified : Time, viewed : Time0, time : Time]
      /\ now \in Time /\ modified \in Time /\ viewed \in Time0 /\ changed \in Time0
      /\ lastActivity \in Time0 /\ lastActivityTime \in Time0
    BY <1>1 DEF ActivityInit
<1>3. older \in 1 .. MaxTime + 1 /\ queries \in 0 .. MaxQueries
    BY TimeAssumption DEF ActivityInit
<1>4. latest \in BOOLEAN
    BY DEF ActivityInit
<1> QED BY <1>2, <1>3, <1>4 DEF ActivityInit, LoopInv, ActivityTypeOK

\* Every step keeps LoopInv.
LEMMA LoopStep ==
    ASSUME LoopInv, [ActivityNext]_activityVars
    PROVE  LoopInv'
<1> USE TimeAssumption DEF LoopInv, ActivityTypeOK, google, reading, reports, Time, Time0
<1>1. ASSUME NEW k \in Kinds, Happen(k)
      PROVE  LoopInv'
    <2>1. k \in Kind
        BY KindAssumption
    <2>2. /\ now' \in Time /\ changed' \in Time0
          /\ modified' \in Time /\ quiet' \subseteq Time
        <3>1. now + 1 \in Time /\ now' = now + 1 /\ changed' = now + 1
            BY <1>1 DEF Happen
        <3>2. modified' = now + 1 \/ UNCHANGED modified
            BY <1>1 DEF Happen
        <3>3. UNCHANGED quiet \/ quiet' = quiet \cup {now + 1}
            BY <1>1 DEF Happen
        <3>4. 1 .. MaxTime \subseteq 0 .. MaxTime
            OBVIOUS
        <3>5. quiet' \subseteq Time
            BY <3>1, <3>3
        <3> QED BY <3>1, <3>2, <3>4, <3>5
    <2>3. log' \in [Time -> Kind \cup {"none"}]
        BY <1>1, <2>1 DEF Happen
    <2>4. UNCHANGED <<viewed, lastActivity, at, reading, reports>>
        BY <1>1 DEF Happen
    <2> QED BY <2>2, <2>3, <2>4
<1>2. CASE View
    BY <1>2 DEF View
<1>3. CASE ChangesList
    BY <1>3 DEF ChangesList
<1>4. CASE Skip
    <2>1. file.viewed + 1 .. file.time \subseteq Time
        OBVIOUS
    <2>2. overlooked' \subseteq Time
        BY <1>4, <2>1 DEF Skip
    <2> QED BY <1>4, <2>2 DEF Skip
<1>5. CASE GetLastActivity
    BY <1>5 DEF GetLastActivity
<1>6. CASE GetLastActivityFails
    <2>1. 1 .. now \subseteq Time
        OBVIOUS
    <2>2. cut' \subseteq Time
        BY <1>6, <2>1 DEF GetLastActivityFails
    <2> QED BY <1>6, <2>2 DEF GetLastActivityFails
<1>7. CASE Query
    <2>1. Remaining \subseteq Time /\ Page \subseteq Remaining
        BY PageFacts
    <2>2. activities' \subseteq Time /\ cut' \subseteq Time
        BY <1>7, <2>1 DEF Query
    <2>3. older' \in 1 .. MaxTime + 1
        <3>1. Remaining # Page => Min(Page) \in Time
            BY PageFacts
        <3> QED BY <1>7, <3>1 DEF Query
    <2>4. /\ queries' \in 0 .. MaxQueries /\ at' \in {"idle", "query", "report"}
          /\ at' = "query" => queries' < MaxQueries
          /\ at' = "report" => activities' # {}
        BY <1>7 DEF Query, EndQueries
    <2> QED BY <1>7, <2>2, <2>3, <2>4 DEF Query
<1>8. CASE QueryFails
    <2>1. Remaining \subseteq Time
        BY PageFacts
    <2>2. cut' \subseteq Time
        BY <1>8, <2>1 DEF QueryFails
    <2>3. /\ queries' \in 0 .. MaxQueries /\ at' \in {"idle", "query", "report"}
          /\ at' = "query" => queries' < MaxQueries
          /\ at' = "report" => activities # {}
        BY <1>8 DEF QueryFails, EndQueries
    <2> QED BY <1>8, <2>2, <2>3 DEF QueryFails
<1>9. CASE Report
    <2>1. Max(activities) \in Time
        BY <1>9, MaxOfTimes DEF Report
    <2>2. /\ notified' \subseteq Time /\ summed' \subseteq Time /\ cut' \subseteq Time
          /\ again' \subseteq settled /\ notified \subseteq notified'
        BY <1>9 DEF Report, PostOne, Post, Delivered
    <2>3. lastActivityTime' \in Time0
        BY <1>9, <2>1 DEF Report
    <2> QED BY <1>9, <2>2, <2>3 DEF Report
<1>10. CASE StoreLastActivity
    BY <1>10 DEF StoreLastActivity
<1>11. CASE Crash
    BY <1>11 DEF Crash
<1>12. CASE UNCHANGED activityVars
    BY <1>12 DEF activityVars, Remaining
<1> QED
    BY <1>1, <1>2, <1>3, <1>4, <1>5, <1>6, <1>7, <1>8, <1>9, <1>10, <1>11, <1>12 DEF ActivityNext

-----------------------------------------------------------------------------
(* Times.                                                                  *)

\* The times at Google are ordered at the start.
LEMMA ClockInit == ActivityInit => ClockInv /\ BumpInv
BY TimeAssumption DEF ActivityInit, ClockInv, BumpInv, Posted, Time

\* Every step keeps ClockInv.
LEMMA ClockStep ==
    ASSUME LoopInv, ClockInv, [ActivityNext]_activityVars
    PROVE  ClockInv'
<1> USE TimeAssumption DEF LoopInv, ActivityTypeOK, ClockInv, google, reading, reports, Time, Time0
<1>1. ASSUME NEW k \in Kinds, Happen(k)
      PROVE  ClockInv'
    <2>1. k \in Kind /\ k # "none"
        BY KindAssumption DEF Kind
    <2>2. now' = now + 1 /\ now + 1 \in Time /\ now + 1 # viewed /\ now + 1 # file.viewed
        BY <1>1 DEF Happen
    <2>3. \A t \in Time : t # now + 1 => log'[t] = log[t]
        BY <1>1 DEF Happen
    <2>4. now + 1 \notin activities /\ now + 1 \notin notified
        BY DEF Listed, Posted
    <2> QED BY <1>1, <2>2, <2>3, <2>4 DEF Happen
<1>2. CASE View
    BY <1>2 DEF View
<1>3. CASE ChangesList
    BY <1>3 DEF ChangesList
<1>4. CASE Skip
    BY <1>4 DEF Skip
<1>5. CASE GetLastActivity
    BY <1>5 DEF GetLastActivity
<1>6. CASE GetLastActivityFails
    BY <1>6 DEF GetLastActivityFails
<1>7. CASE Query
    BY <1>7 DEF Query
<1>8. CASE QueryFails
    BY <1>8 DEF QueryFails
<1>9. CASE Report
    <2>1. Max(activities) \in activities
        BY <1>9, MaxOfTimes DEF Report
    <2>2. lastActivityTime' <= now
        <3>1. Max(activities) <= now
            BY <2>1 DEF Listed
        <3>2. file.modified <= now
            OBVIOUS
        <3>3. lastActivityTime' \in {file.modified, Max(activities)}
            BY <1>9 DEF Report
        <3> QED BY <3>1, <3>2, <3>3
    <2>3. \A t \in notified' : log[t] \in Posted
        BY <1>9 DEF Report, PostOne, Post, Delivered
    <2> QED BY <1>9, <2>2, <2>3 DEF Report
<1>10. CASE StoreLastActivity
    BY <1>10 DEF StoreLastActivity
<1>11. CASE Crash
    BY <1>11 DEF Crash
<1>12. CASE UNCHANGED activityVars
    BY <1>12 DEF activityVars
<1> QED
    BY <1>1, <1>2, <1>3, <1>4, <1>5, <1>6, <1>7, <1>8, <1>9, <1>10, <1>11, <1>12 DEF ActivityNext

\* Every step keeps BumpInv.
LEMMA BumpStep ==
    ASSUME LoopInv, ClockInv, BumpInv, [ActivityNext]_activityVars
    PROVE  BumpInv'
<1> USE TimeAssumption DEF LoopInv, ActivityTypeOK, ClockInv, BumpInv, google, reading, reports,
                           Time, Time0
<1>1. ASSUME NEW k \in Kinds, Happen(k)
      PROVE  BumpInv'
    <2>1. now + 1 \in Time /\ now \in Time /\ file.time <= now
        BY <1>1 DEF Happen
    <2>2. /\ \/ modified' = now + 1 /\ quiet' = quiet
             \/ quiet' = quiet \cup {now + 1} /\ modified' = modified
          /\ modified <= now /\ modified \in Time
        BY <1>1 DEF Happen
    <2>3. \A t \in Time : log'[t] \in Posted => t = now + 1 \/ (log[t] \in Posted /\ t <= now)
        <3>1. \A t \in Time : t # now + 1 => log'[t] = log[t]
            BY <1>1 DEF Happen
        <3>2. \A t \in Time : log[t] \in Posted => t <= now
            BY DEF Posted
        <3> QED BY <3>1, <3>2
    <2>4. changed' = now + 1 /\ UNCHANGED <<at, file>>
        BY <1>1 DEF Happen
    <2>5. \A t \in Time \ quiet' : log'[t] \in Posted => t <= modified'
        BY <2>1, <2>2, <2>3
    <2>6. at = "check" => \A t \in Time \ quiet' :
            log'[t] \in Posted /\ t <= file.time => t <= file.modified
        BY <2>1, <2>2, <2>3
    <2>7. \A t \in Time : log'[t] \in Posted => t <= changed'
        BY <2>1, <2>3, <2>4
    <2> QED BY <2>1, <2>4, <2>5, <2>6, <2>7
<1>2. CASE View
    <2>1. \A t \in Time : log[t] \in Posted => t <= now
        BY DEF Posted
    <2> QED BY <1>2, <2>1 DEF View
<1>3. CASE ChangesList
    BY <1>3 DEF ChangesList
<1>4. CASE Crash
    BY <1>4 DEF Crash
<1>5. CASE UNCHANGED <<log, modified, quiet, changed, file>> /\ at' # "check"
           /\ (at' # "idle" => at # "idle")
    BY <1>5
<1>6. CASE UNCHANGED activityVars
    BY <1>6 DEF activityVars
<1>7. Skip \/ GetLastActivity \/ GetLastActivityFails \/ Query \/ QueryFails \/ Report
        \/ StoreLastActivity
      => UNCHANGED <<log, modified, quiet, changed, file>> /\ at' # "check"
         /\ (at' # "idle" => at # "idle")
    BY DEF Skip, GetLastActivity, GetLastActivityFails, Query, QueryFails, EndQueries, Report,
           StoreLastActivity
<1> QED BY <1>1, <1>2, <1>3, <1>4, <1>5, <1>6, <1>7 DEF ActivityNext

-----------------------------------------------------------------------------
(* Nothing is posted again.                                                *)

\* Nothing has been posted at the start.
LEMMA OnceInit == ActivityInit => OnceInv
BY DEF ActivityInit, OnceInv

\* Every step keeps OnceInv.
LEMMA OnceStep ==
    ASSUME LoopInv, ClockInv, BumpInv, OnceInv, [ActivityNext]_activityVars
    PROVE  OnceInv'
<1> USE TimeAssumption DEF LoopInv, ActivityTypeOK, ClockInv, OnceInv, google, reading, reports,
                             Time, Time0
<1>1. ASSUME NEW k \in Kinds, Happen(k)
      PROVE  OnceInv'
    BY <1>1 DEF Happen
<1>2. CASE View
    BY <1>2 DEF View
<1>3. CASE ChangesList
    BY <1>3 DEF ChangesList, BumpInv
<1>4. CASE Skip
    BY <1>4 DEF Skip, AlreadyViewed
<1>5. CASE GetLastActivity
    BY <1>5 DEF GetLastActivity
<1>6. CASE GetLastActivityFails
    BY <1>6 DEF GetLastActivityFails
<1>7. CASE Query
    <2>1. \A t \in Page : t \in Time /\ lastActivityTime < t
        BY PageFacts DEF Remaining
    <2>2. \A t \in activities' : lastActivityTime < t
        BY <1>7, <2>1 DEF Query
    <2> QED BY <1>7, <2>2 DEF Query, EndQueries
<1>8. CASE QueryFails
    BY <1>8 DEF QueryFails, EndQueries
<1>9. CASE Report
    <2>1. /\ lastActivityTime < Max(activities) /\ Max(activities) \in Time
          /\ \A t \in activities : t <= Max(activities)
        BY <1>9, MaxOfTimes DEF Report
    <2>2. \A t \in settled \ quiet :
            t \notin activities /\ t <= Max(activities) /\ t <= file.modified
        BY <1>9, <2>1 DEF Report
    <2>3. CASE Cardinality(activities) > Many
        <3>1. notified' = notified /\ again' = again /\ lastActivityTime' = file.modified
            BY <1>9, <2>3 DEF Report, PostOne
        <3>2. \A t \in notified \ quiet : t <= file.modified
            BY <1>9 DEF Report
        <3> QED BY <1>9, <2>2, <3>1, <3>2 DEF Report
    <2>4. CASE ~(Cardinality(activities) > Many)
        <3>1. lastActivityTime' = Max(activities)
            BY <1>9, <2>4 DEF Report
        <3>2. PICK posts \in SUBSET activities : again' = again \cup (settled \cap posts)
            BY <1>9, <2>4 DEF Report, Post, Delivered
        <3>3. again' \subseteq quiet
            BY <2>2, <3>2
        <3> QED BY <1>9, <2>1, <2>2, <3>1, <3>3 DEF Report
    <2> QED BY <2>3, <2>4
<1>10. CASE StoreLastActivity
    <2>1. \A t \in settled' \ quiet : t <= lastActivity'
        <3>1. CASE /\ lastActivity' = lastActivityTime
                   /\ settled' = settled \cup (activities \cap notified)
            BY <1>10, <3>1 DEF StoreLastActivity
        <3>2. CASE UNCHANGED <<lastActivity, settled>>
            BY <3>2
        <3> QED BY <1>10, <3>1, <3>2 DEF StoreLastActivity
    <2>2. at' = "idle" /\ UNCHANGED <<again, quiet>>
        BY <1>10 DEF StoreLastActivity
    <2> QED BY <2>1, <2>2
<1>11. CASE Crash
    BY <1>11 DEF Crash
<1>12. CASE UNCHANGED activityVars
    BY <1>12 DEF activityVars
<1> QED
    BY <1>1, <1>2, <1>3, <1>4, <1>5, <1>6, <1>7, <1>8, <1>9, <1>10, <1>11, <1>12 DEF ActivityNext

-----------------------------------------------------------------------------
(* Nothing is missed.                                                      *)

\* CoverInv holds at the start.
LEMMA CoverInit == ActivityInit => CoverInv
BY DEF ActivityInit, CoverInv, SeenUpTo, Posted

\* What has been seen stays seen.
LEMMA SeenStays ==
    ASSUME LoopInv, ClockInv, [ActivityNext]_activityVars, NEW t \in Time, Seen(t)
    PROVE  Seen(t)'
<1> USE DEF Seen, google, reading, reports
<1>1. CASE View
    <2>1. viewed <= viewed' /\ viewed \in Nat /\ viewed' \in Nat /\ t \in Nat
        BY <1>1, TimeAssumption DEF View, LoopInv, ActivityTypeOK, ClockInv, Time, Time0
    <2> QED BY <1>1, <2>1 DEF View
<1>2. CASE Report
    BY <1>2 DEF Report, PostOne, Post
<1>3. CASE Query \/ QueryFails \/ Skip \/ GetLastActivityFails
    BY <1>3 DEF Query, QueryFails, Skip, GetLastActivityFails
<1>4. CASE UNCHANGED <<viewed, notified, summed, cut, overlooked>>
    BY <1>4
<1> QED
    BY <1>1, <1>2, <1>3, <1>4 DEF ActivityNext, activityVars, Happen, ChangesList, GetLastActivity,
       StoreLastActivity, Crash

\* It is enough that the stored time, or the new one, passes over nothing unseen,
\* and that the places keep their own conditions.
LEMMA CoverStep ==
    ASSUME LoopInv, ClockInv, BumpInv, CoverInv, [ActivityNext]_activityVars
    PROVE  CoverInv'
<1>0. /\ \A t \in Time : Seen(t) => Seen(t)'
      /\ \A t \in Time : log[t] \in Posted => t <= now /\ t \in Nat
    BY SeenStays, TimeAssumption DEF ClockInv, Posted, Time
<1> USE TimeAssumption DEF LoopInv, ActivityTypeOK, ClockInv, CoverInv, SeenUpTo, google, reading,
                             reports, Time, Time0
<1>1. ASSUME NEW k \in Kinds, Happen(k)
      PROVE  CoverInv'
    <2>1. \A t \in Time : t <= now => log'[t] = log[t]
        BY <1>1 DEF Happen
    <2>2. \A t \in Time : t = now + 1 \/ t <= now \/ log'[t] = log[t]
        BY <1>1 DEF Happen
    <2>3. changed' = now + 1 /\ changed' # 0 /\ \A t \in Time : Seen(t)' <=> Seen(t)
        BY <1>1 DEF Happen, Seen
    <2>4. \A t \in Time : Fresh(t) => Fresh(t)'
        BY <1>1, <2>3 DEF Happen, Fresh
    <2>5. \A t \in Time : t = now + 1 => Fresh(t)'
        BY <1>1, <2>3 DEF Happen, Fresh, Listed
    <2>6. \A t \in Time : log'[t] \in Posted => t = now + 1 \/ (log[t] \in Posted /\ t <= now)
        BY <1>0, <2>2, <2>1
    <2>7. /\ UNCHANGED <<lastActivity, lastActivityTime, at, activities, older, overlooked>>
          /\ quiet \subseteq quiet'
        BY <1>1 DEF Happen
    <2>8. \A x \in Time0 : x <= now /\ SeenUpTo(x) => SeenUpTo(x)'
        BY <2>3, <2>6
    <2>9. SeenUpTo(lastActivity)' /\ (at \in {"query", "report", "store"} =>
                                         SeenUpTo(lastActivityTime)')
        BY <2>7, <2>8
    <2>10. at = "query" => \A t \in Time : log'[t] \in Posted =>
              Seen(t)' \/ t \in activities \/ t < older \/ Fresh(t)'
        BY <2>3, <2>4, <2>5, <2>6
    <2>11. at = "report" => \A t \in Time : log'[t] \in Posted =>
              Seen(t)' \/ t \in activities \/ Fresh(t)'
        BY <2>3, <2>4, <2>5, <2>6
    <2> QED BY <2>3, <2>7, <2>9, <2>10, <2>11
<1>2. CASE View
    <2>1. changed' = 0 => changed = 0
        BY <1>2 DEF View
    <2>2. \A t \in Time : Fresh(t) => Fresh(t)'
        BY <1>2, <2>1 DEF View, Fresh
    <2> QED BY <1>0, <1>2, <2>1, <2>2 DEF View
<1>3. CASE ChangesList
    BY <1>0, <1>3 DEF ChangesList, BumpInv
<1>4. CASE Skip
    <2>1. \A t \in Time : log[t] \in Posted /\ t <= file.viewed => Seen(t)
        BY <1>0 DEF Seen, Posted
    <2>2. changed = 0 => \A t \in Time : log[t] \in Posted => Seen(t)'
        <3>1. ASSUME changed = 0, NEW t \in Time, log[t] \in Posted, file.viewed < t
              PROVE  t \in overlooked'
            <4>1. t \in file.viewed + 1 .. file.time
                BY <1>4, <3>1 DEF BumpInv, Skip
            <4> QED BY <1>4, <3>1, <4>1 DEF Skip
        <3> QED BY <1>0, <2>1, <3>1 DEF Seen
    <2>3. overlooked' \subseteq quiet
        <3>1. ASSUME NEW t \in file.viewed + 1 .. file.time, log[t] \in Posted, t \notin quiet
              PROVE  FALSE
            <4>1. t \in Time /\ file.modified < t /\ t <= file.time
                BY <1>4, <3>1 DEF Skip, AlreadyViewed
            <4> QED BY <1>4, <3>1, <4>1 DEF BumpInv, Skip
        <3> QED BY <1>4, <3>1 DEF Skip
    <2>4. lastActivity' = file.viewed \/ UNCHANGED lastActivity
        BY <1>4 DEF Skip
    <2>5. SeenUpTo(lastActivity)'
        BY <1>0, <1>4, <2>1, <2>4 DEF Skip
    <2> QED BY <1>4, <2>2, <2>3, <2>5 DEF Skip
<1>5. CASE GetLastActivity
    <2>1. \A t \in Time : log[t] \in Posted /\ t <= file.viewed => Seen(t)
        BY <1>0 DEF Seen, Posted
    <2>2. SeenUpTo(lastActivityTime)'
        BY <1>0, <1>5, <2>1 DEF GetLastActivity
    <2>3. \A t \in Time : t < older'
        BY <1>5 DEF GetLastActivity
    <2> QED BY <1>0, <1>5, <2>2, <2>3 DEF GetLastActivity
<1>6. CASE GetLastActivityFails
    <2>1. \A t \in Time : log[t] \in Posted => Seen(t)'
        BY <1>0, <1>6 DEF GetLastActivityFails, Seen, Posted
    <2> QED BY <1>6, <2>1 DEF GetLastActivityFails
<1>7. CASE Query
    <2>1. UNCHANGED <<log, lastActivity, lastActivityTime, changed, file>> /\ at = "query"
        BY <1>7 DEF Query
    <2>2. \A t \in Time : log[t] \in Posted /\ ~Seen(t)' =>
            t \in activities \/ t \in Remaining \/ (Fresh(t) /\ older <= t)
        BY <1>0, <2>1 DEF Remaining, Posted
    <2>3. \A t \in Page : log[t] \in Posted => t \in activities'
        BY <1>7 DEF Query, Posted, Listed
    <2>4. \A t \in Remaining \ Page : Seen(t)' \/ (at' = "query" /\ t < older')
        <3>1. CASE at' = "query"
            <4>1. older' = Min(Page) /\ Remaining # Page
                BY <1>7, <3>1 DEF Query, EndQueries
            <4> QED BY <3>1, <4>1, PageFacts
        <3>2. CASE at' # "query"
            BY <1>7, <3>2 DEF Query, Seen
        <3> QED BY <3>1, <3>2
    <2>5. \A t \in Time : Fresh(t) /\ older <= t => Fresh(t)'
        <3>1. \A a \in activities' : a \in activities \/ (a < older /\ a \in Time)
            BY <1>7, PageFacts DEF Query, Remaining
        <3>2. \A t \in Time, a \in Time : older <= t /\ a < older => a < t
            OBVIOUS
        <3> QED BY <2>1, <3>1, <3>2 DEF Fresh
    <2>6. /\ at' \in {"idle", "query", "report"}
          /\ at' = "idle" => activities' = {}
          /\ activities \subseteq activities' /\ UNCHANGED <<overlooked, quiet>>
        BY <1>7 DEF Query, EndQueries
    <2>7. \A t \in Time : log[t] \in Posted /\ ~Seen(t)' =>
            t \in activities' \/ Fresh(t)' \/ (at' = "query" /\ t < older')
        BY <2>2, <2>3, <2>4, <2>5, <2>6
    <2>8. \A t \in Time : Fresh(t)' => changed # 0
        BY <2>1 DEF Fresh
    <2>9. SeenUpTo(lastActivity)' /\ SeenUpTo(lastActivityTime)'
        BY <1>0, <2>1
    <2>10. at' = "idle" /\ changed' = 0 => SeenUpTo(MaxTime)'
        BY <2>1, <2>6, <2>7, <2>8
    <2>11. at' = "report" => \A t \in Time : log'[t] \in Posted =>
              Seen(t)' \/ t \in activities' \/ Fresh(t)'
        BY <2>1, <2>7
    <2>12. at' = "query" => \A t \in Time : log'[t] \in Posted =>
              Seen(t)' \/ t \in activities' \/ t < older' \/ Fresh(t)'
        BY <2>1, <2>7
    <2> QED BY <2>6, <2>9, <2>10, <2>11, <2>12
<1>8. CASE QueryFails
    <2>1. UNCHANGED <<log, lastActivity, lastActivityTime, changed, file, activities, older>>
        BY <1>8 DEF QueryFails
    <2>2. \A t \in Time : log[t] \in Posted /\ ~Seen(t)' =>
            t \in activities \/ t \in Remaining \/ Fresh(t)
        BY <1>0, <1>8 DEF QueryFails, Remaining, Posted
    <2>3. at' # "query" => \A t \in Remaining : Seen(t)'
        BY <1>8 DEF QueryFails, Seen
    <2>4. at' \in {"idle", "query", "report"} /\ (at' = "idle" => activities = {})
        BY <1>8 DEF QueryFails, EndQueries
    <2>5. \A t \in Time : (Fresh(t)' <=> Fresh(t)) /\ (Fresh(t) => changed # 0)
        BY <2>1 DEF Fresh
    <2>6. \A t \in Remaining : t < older
        BY DEF Remaining
    <2> QED BY <1>0, <1>8, <2>1, <2>2, <2>3, <2>4, <2>5, <2>6 DEF QueryFails
<1>9. CASE Report
    <2>1. \A t \in activities : log[t] \in Posted => Seen(t)'
        BY <1>9 DEF Report, PostOne, Post, Delivered, Seen
    <2>2. \A t \in Time : log[t] \in Posted /\ ~Seen(t)' => Fresh(t)
        BY <1>0, <1>9, <2>1 DEF Report
    <2>3. \A t \in Time : Fresh(t) => changed # 0 /\ lastActivityTime' < t
        <3>1. Max(activities) \in activities
            BY <1>9, MaxOfTimes DEF Report
        <3> QED BY <1>9, <3>1 DEF Report, Fresh
    <2>4. UNCHANGED <<log, lastActivity, changed, overlooked, quiet>> /\ at' = "store"
        BY <1>9 DEF Report
    <2>5. SeenUpTo(lastActivity)'
        BY <1>0, <2>4
    <2>6. lastActivityTime' \in Time0
        BY LoopStep
    <2>7. SeenUpTo(lastActivityTime)'
        BY <2>2, <2>3, <2>4, <2>6
    <2>8. changed' = 0 => SeenUpTo(MaxTime)'
        BY <2>2, <2>3, <2>4
    <2> QED BY <2>4, <2>5, <2>7, <2>8
<1>10. CASE StoreLastActivity
    <2>1. \A t \in Time : Seen(t)' <=> Seen(t)
        BY <1>10 DEF StoreLastActivity, Seen
    <2> QED BY <1>10, <2>1 DEF StoreLastActivity
<1>11. CASE Crash
    BY <1>0, <1>11 DEF Crash
<1>12. CASE UNCHANGED activityVars
    BY <1>0, <1>12 DEF activityVars, Fresh
<1> QED
    BY <1>1, <1>2, <1>3, <1>4, <1>5, <1>6, <1>7, <1>8, <1>9, <1>10, <1>11, <1>12 DEF ActivityNext

-----------------------------------------------------------------------------
(* The theorems.                                                           *)

\* The handler's variables, the stored time and Google's times stay in their types,
\* and the loop within its turns (api.go: handleDriveWatchNotifications).
THEOREM FileActivityTypes == ActivitySpec => []ActivityTypeOK
<1>1. ActivitySpec => []LoopInv
    BY LoopInit, LoopStep, PTL DEF ActivitySpec
<1>2. LoopInv => ActivityTypeOK
    BY DEF LoopInv
<1> QED BY <1>1, <1>2, PTL

\* The invariants hold throughout.
LEMMA InvHolds == ActivitySpec => []Inv
<1>1. ActivityInit => Inv
    BY LoopInit, ClockInit, OnceInit, CoverInit DEF Inv
<1>2. Inv /\ [ActivityNext]_activityVars => Inv'
    BY LoopStep, ClockStep, BumpStep, OnceStep, CoverStep DEF Inv
<1> QED BY <1>1, <1>2, PTL DEF ActivitySpec

\* With any kinds of activity, pages and failures, no activity that moved ModifiedTime
\* is posted by itself again once its time has been stored (api.go:637, 699).
THEOREM FileActivityNotifiedOnce == ActivitySpec => []NotifiedOnce
<1>1. Inv => NotifiedOnce
    BY DEF Inv, OnceInv, NotifiedOnce
<1> QED BY <1>1, InvHolds, PTL

\* Likewise each comment and share is posted, seen by the user, or given up where the
\* code gives up; and the change that is taken as seen (api.go:636) hides nothing that
\* moved ModifiedTime.
THEOREM FileActivityNothingMissed == ActivitySpec => []NothingMissed
<1>1. Inv => NothingMissed
    BY TimeAssumption DEF Inv, CoverInv, SeenUpTo, Seen, NothingMissed, Time
<1> QED BY <1>1, InvHolds, PTL
=============================================================================
