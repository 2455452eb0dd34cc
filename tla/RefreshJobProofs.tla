---------------------------- MODULE RefreshJobProofs ----------------------------
(***************************************************************************)
(* A run of the job misses no record that is due and gives none to two     *)
(* workers, but where the keys have moved between its pages, with any      *)
(* number of keys, pages, users and workers.                               *)
(*                                                                         *)
(* The properties speak of the end of a run, or of two workers.  PageInv   *)
(* says on which side of the pages listed so far each key is, HandInv that *)
(* a record that was listed once is in one place only, OwedInv where a     *)
(* record is that is still to be served: on a page to come, on the page at *)
(* hand, or with a worker.                                                 *)
(***************************************************************************)
EXTENDS RefreshJob, FiniteSetTheorems, TLAPS

\* Where the main goroutine is, and what the run has then.
RunInv ==
    /\ jpc # "idle" => ~ran
    /\ jpc # "send" => batch = {}
    /\ jpc = "idle" => page = 0 /\ listed = {} /\ owed = {}
    /\ \A w \in Worker : wpc[w] = "free" => inHand[w] = NoKey
    /\ jpc = "idle" => \A w \in Worker : wpc[w] = "free"
    /\ jpc = "send" \/ (jpc = "list" /\ page # 0) => listed # {}

\* How many keys the pages listed so far hold.
ListedSoFar == IF jpc = "list" THEN page * PerPage ELSE (page + 1) * PerPage

\* A key that was listed stays on the pages listed so far, unless one is stored before
\* it.
PageInv == jpc \in {"list", "send"} => \A k \in listed \ raised : Before(k) < ListedSoFar

\* What is at hand was listed; a record that was listed once is in one place only.
HandInv ==
    /\ batch \subseteq listed
    /\ \A w \in Worker : inHand[w] # NoKey => inHand[w] \in listed
    /\ \A w \in Worker : inHand[w] \in batch => inHand[w] \in raised
    /\ OneWorkerPerUser

\* A record that was due when the run began and is still to be served.
OwedInv ==
    /\ \A w \in Worker : inHand[w] # NoKey => inHand[w] \in served
    /\ \A k \in owed \ served : Due(k)
    /\ \A k \in owed \ lowered :
        /\ k \in listed => k \in batch \cup served
        /\ k \notin listed /\ jpc \in {"list", "send"} => ListedSoFar <= Before(k)
        /\ jpc = "wait" /\ ~cutShort => k \in listed

-----------------------------------------------------------------------------
(* The order of the keys.                                                  *)

KeySet == present \subseteq Keys

\* The keys are numbers, and there are finitely many.
LEMMA KeysFinite ==
    ASSUME KeySet
    PROVE  IsFiniteSet(present) /\ present \in SUBSET Nat /\ Keys \in SUBSET Nat
<1>1. NKeys \in Nat
    BY KeyAssumption
<1>2. IsFiniteSet(Keys)
    BY <1>1, FS_Interval DEF Keys
<1>3. Keys \in SUBSET Nat
    BY <1>1 DEF Keys
<1>4. present \in SUBSET Keys
    BY DEF KeySet
<1>5. IsFiniteSet(present)
    BY <1>2, <1>4, FS_Subset
<1> QED BY <1>3, <1>4, <1>5

\* The places of n keys.
LEMMA PlacesFinite ==
    ASSUME NEW n \in Nat
    PROVE  IsFiniteSet(0 .. n - 1) /\ Cardinality(0 .. n - 1) = n
<1> DEFINE last == n - 1
<1>1. last \in Int /\ 0 \in Int /\ n = last + 1 /\ last >= -1
    OBVIOUS
<1> HIDE DEF last
<1>2. IsFiniteSet(0 .. last)
    BY <1>1, FS_Interval
<1>3. Cardinality(0 .. last) = IF 0 > last THEN 0 ELSE last - 0 + 1
    BY <1>1, FS_Interval
<1>4. Cardinality(0 .. last) = n
    BY <1>1, <1>3
<1> QED BY <1>2, <1>4 DEF last

\* The place of a key is a number.
LEMMA BeforeTyped == ASSUME KeySet, NEW k PROVE Before(k) \in Nat
<1>1. {j \in present : j < k} \in SUBSET present
    OBVIOUS
<1> QED BY <1>1, KeysFinite, FS_Subset, FS_CardinalityType DEF Before

\* Each place below a stored key's is a stored key's.
LEMMA BeforeOnto ==
    ASSUME KeySet, NEW k \in present, NEW m \in Nat, m <= Before(k)
    PROVE  \E j \in present : Before(j) = m
<1> DEFINE places == 0 .. Cardinality(present) - 1
           before == [j \in present |-> Before(j)]
<1>1. Cardinality(present) \in Nat /\ IsFiniteSet(present) /\ \A j \in present : j \in Nat
    BY KeysFinite, FS_CardinalityType
<1>2. IsFiniteSet(places) /\ Cardinality(places) = Cardinality(present)
    BY <1>1, PlacesFinite
<1>3. ASSUME NEW j \in present PROVE Before(j) < Cardinality(present)
    <2>1. {i \in present : i < j} \in SUBSET (present \ {j})
        BY <1>1
    <2>2. IsFiniteSet(present \ {j}) /\ Cardinality(present \ {j}) = Cardinality(present) - 1
        BY <1>1, FS_RemoveElement
    <2>3. Before(j) <= Cardinality(present \ {j})
        BY <2>1, <2>2, FS_Subset DEF Before
    <2> QED BY <1>1, <2>2, <2>3, BeforeTyped
<1>4. ASSUME NEW i \in present, NEW j \in present, i < j PROVE Before(i) < Before(j)
    <2> DEFINE S == {x \in present : x < i}
               T == {x \in present : x < j}
    <2>1. S \in SUBSET present /\ T \in SUBSET present /\ i \notin S
        BY <1>1
    <2>2. IsFiniteSet(S) /\ IsFiniteSet(T)
        BY <1>1, <2>1, FS_Subset
    <2>3. S \cup {i} \in SUBSET T
        <3>1. \A x \in S \cup {i} : x \in present /\ x < j
            BY <1>1, <1>4
        <3> QED BY <3>1
    <2> HIDE DEF S, T
    <2>4. Cardinality(S \cup {i}) = Cardinality(S) + 1
        BY <2>1, <2>2, FS_AddElement
    <2>5. Cardinality(S \cup {i}) <= Cardinality(T)
        BY <2>2, <2>3, FS_Subset
    <2>6. Cardinality(S) \in Nat /\ Cardinality(T) \in Nat
        BY <2>2, FS_CardinalityType
    <2> QED BY <2>4, <2>5, <2>6 DEF S, T, Before
<1>5. before \in [present -> places]
    BY <1>1, <1>3, BeforeTyped
<1>6. \A i, j \in present : before[i] = before[j] => i = j
    <2> SUFFICES ASSUME NEW i \in present, NEW j \in present, i # j
                 PROVE  Before(i) # Before(j)
        OBVIOUS
    <2>1. i < j \/ j < i
        BY <1>1
    <2> QED BY <1>4, <2>1, BeforeTyped
<1>7. before \in Injection(present, places)
    BY <1>5, <1>6 DEF Injection, IsInjective
<1>8. before \in Surjection(present, places)
    BY <1>1, <1>2, <1>7, FS_Injection
<1>9. m \in places
    BY <1>1, <1>3, BeforeTyped
<1>10. PICK j \in present : before[j] = m
    BY <1>8, <1>9 DEF Surjection
<1> QED BY <1>10

\* Where a key goes, those after it move down; those before it stay.
LEMMA RemoveBefore ==
    ASSUME KeySet, NEW x, present' = present \ {x}, NEW k \in Keys
    PROVE  /\ Before(k)' \in Nat /\ Before(k)' <= Before(k)
           /\ x \notin present \/ k <= x => Before(k)' = Before(k)
<1> DEFINE S == {j \in present : j < k}
<1>1. IsFiniteSet(S) /\ S \in SUBSET present
    BY KeysFinite, FS_Subset
<1>2. {j \in present' : j < k} = S \ {x}
    OBVIOUS
<1>3. IsFiniteSet(S \ {x}) /\ Cardinality(S \ {x}) <= Cardinality(S)
    BY <1>1, FS_Subset
<1>4. x \notin present \/ k <= x => S \ {x} = S
    BY KeysFinite
<1> HIDE DEF S
<1>5. Before(k)' = Cardinality(S \ {x}) /\ Before(k) = Cardinality(S)
    BY <1>2 DEF Before, S
<1> QED BY <1>3, <1>4, <1>5, FS_CardinalityType

\* Where a key comes, those after it move up; those before it stay.
LEMMA InsertBefore ==
    ASSUME KeySet, NEW x \in Keys, present' = present \cup {x}, NEW k \in Keys
    PROVE  /\ Before(k)' \in Nat /\ Before(k) <= Before(k)'
           /\ x \in present \/ k <= x => Before(k)' = Before(k)
<1> DEFINE S == {j \in present : j < k}
           T == {j \in present' : j < k}
<1>1. IsFiniteSet(present') /\ S \in SUBSET T /\ T \in SUBSET present'
    BY KeysFinite, FS_AddElement
<1>2. IsFiniteSet(T)
    BY <1>1, FS_Subset
<1>3. x \in present \/ k <= x => T = S
    BY KeysFinite
<1> HIDE DEF S, T
<1>4. Before(k)' = Cardinality(T) /\ Before(k) = Cardinality(S)
    BY DEF Before, S, T
<1>5. Cardinality(S) <= Cardinality(T) /\ Cardinality(T) \in Nat
    BY <1>1, <1>2, FS_Subset, FS_CardinalityType
<1> QED BY <1>3, <1>4, <1>5

\* The pages follow one another.
LEMMA PagesFollow ==
    ASSUME NEW p \in Nat
    PROVE  /\ p * PerPage \in Nat /\ (p + 1) * PerPage \in Nat
           /\ (p + 1) * PerPage = p * PerPage + PerPage
           /\ p * PerPage < (p + 1) * PerPage /\ 0 * PerPage = 0
BY IntervalAssumption

\* Behind an empty page there is no key.
LEMMA EmptyIsLast ==
    ASSUME KeySet, NEW p \in Nat, KVList(p) = {}, NEW k \in present
    PROVE  Before(k) < p * PerPage
<1> SUFFICES ASSUME p * PerPage <= Before(k)
             PROVE  FALSE
    BY BeforeTyped, PagesFollow
<1>1. PICK j \in present : Before(j) = p * PerPage
    BY BeforeOnto, PagesFollow
<1>2. j \in KVList(p)
    BY <1>1, PagesFollow DEF KVList
<1> QED BY <1>2

-----------------------------------------------------------------------------
(* Types, and the places.                                                  *)

\* The first run finds the variables in their types.
LEMMA JobStarts == JobInit => JobTypeOK /\ RunInv
<1> SUFFICES ASSUME JobInit
             PROVE  JobTypeOK /\ RunInv
    OBVIOUS
<1>1. present \subseteq Keys
    BY KeyAssumption DEF JobInit, Keys
<1>2. expires \in [Records -> Nat]
    BY IntervalAssumption DEF JobInit
<1>3. interval \in 0 .. MaxInterval /\ page \in Nat
    BY IntervalAssumption DEF JobInit
<1> QED BY <1>1, <1>2, <1>3 DEF JobInit, JobTypeOK, RunInv

\* What the keys' coming and going does to the types.
StoreTyped == /\ present \subseteq Keys /\ owed \subseteq Records \cap present
              /\ raised \subseteq listed /\ lowered \subseteq Keys
              /\ listed \subseteq Keys /\ served \subseteq Records

\* A key that goes leaves the types as they are.
LEMMA RemoveTyped == ASSUME StoreTyped, NEW k, Remove(k) PROVE StoreTyped'
BY DEF StoreTyped, Remove

\* And so does one that comes.
LEMMA InsertTyped ==
    ASSUME StoreTyped, NEW k \in Keys, Insert(k), owed' \subseteq owed
    PROVE  StoreTyped'
BY DEF StoreTyped, Insert

\* Every step keeps the types.
LEMMA JobTypeStep ==
    ASSUME JobTypeOK, RunInv, [JobNext]_jobVars
    PROVE  JobTypeOK'
<1> USE DEF JobTypeOK, clock, store, workers, shifts, others
<1>0. StoreTyped /\ Records \subseteq Keys
    BY KeyAssumption DEF StoreTyped, Keys
<1>1. CASE JobStart
    BY <1>1 DEF JobStart
<1>2. CASE JobList
    <2>1. KVList(page) \subseteq Keys /\ ListKeys(page) \subseteq Records
        BY DEF KVList, ListKeys
    <2> QED BY <1>2, <2>1 DEF JobList
<1>3. CASE JobRead
    <2>1. PICK k \in batch : Read(k) /\ batch' = batch \ {k}
        BY <1>3 DEF JobRead
    <2>2. /\ wpc' \in [Worker -> {"free", "stop", "start"}]
          /\ inHand' \in [Worker -> Records \cup {NoKey}]
          /\ owed' \subseteq owed /\ served' \subseteq Records
        BY <2>1 DEF Read, HandTo, MMUserID
    <2> QED BY <1>3, <2>1, <2>2 DEF JobRead
<1>4. CASE JobPageDone
    BY <1>4 DEF JobPageDone
<1>5. CASE JobEnd
    BY <1>5 DEF JobEnd
<1>6. ASSUME NEW w \in Worker, WorkerStop(w)
      PROVE  JobTypeOK'
    <2>1. StoreTyped'
        <3>1. CASE Remove(inHand[w])
            BY <1>0, <3>1, RemoveTyped
        <3>2. CASE UNCHANGED <<store, owed, served, shifts>>
            BY <1>0, <3>2 DEF StoreTyped
        <3> QED BY <1>6, <3>1, <3>2 DEF WorkerStop
    <2>2. expires' \in [Records -> Nat]
        BY <1>6 DEF WorkerStop
    <2>3. UNCHANGED cutShort
        BY <1>6 DEF WorkerStop, Remove
    <2> QED BY <1>6, <2>1, <2>2, <2>3 DEF WorkerStop, StoreTyped
<1>7. ASSUME NEW w \in Worker, WorkerStart(w)
      PROVE  JobTypeOK'
    <2>1. StoreTyped'
        <3>1. CASE inHand[w] # NoKey /\ Insert(inHand[w])
            BY <1>0, <1>7, <3>1, InsertTyped DEF WorkerStart
        <3>2. CASE UNCHANGED <<store, owed, served, shifts>>
            BY <1>0, <3>2 DEF StoreTyped
        <3> QED BY <1>7, <3>1, <3>2 DEF WorkerStart
    <2>2. expires' \in [Records -> Nat]
        BY <1>7, IntervalAssumption DEF WorkerStart
    <2>3. UNCHANGED cutShort
        BY <1>7 DEF WorkerStart, Insert
    <2> QED BY <1>7, <2>1, <2>2, <2>3 DEF WorkerStart, StoreTyped
<1>8. CASE Tick
    <2>1. interval' \in 0 .. MaxInterval
        BY <1>8, IntervalAssumption DEF Tick
    <2> QED BY <1>8, <2>1 DEF Tick
<1>9. ASSUME NEW k \in Records, UserStop(k)
      PROVE  JobTypeOK'
    <2>1. StoreTyped' /\ UNCHANGED cutShort
        BY <1>0, <1>9, RemoveTyped DEF UserStop, Remove
    <2> QED BY <1>9, <2>1 DEF UserStop, StoreTyped
<1>10. ASSUME NEW k \in Records, UserStart(k)
       PROVE  JobTypeOK'
    <2>1. StoreTyped' /\ UNCHANGED cutShort
        BY <1>0, <1>10, InsertTyped DEF UserStart, Insert
    <2>2. expires' \in [Records -> Nat]
        BY <1>10, IntervalAssumption DEF UserStart
    <2> QED BY <1>10, <2>1, <2>2 DEF UserStart, StoreTyped
<1>11. ASSUME NEW k \in Keys, WebhookStore(k) \/ OtherKey(k)
       PROVE  JobTypeOK'
    <2>1. StoreTyped'
        BY <1>0, <1>11, RemoveTyped, InsertTyped DEF WebhookStore, OtherKey
    <2>2. UNCHANGED <<others, expires, cutShort>>
        BY <1>11 DEF WebhookStore, OtherKey, Remove, Insert
    <2> QED BY <2>1, <2>2 DEF StoreTyped
<1>12. CASE UNCHANGED jobVars
    BY <1>12 DEF jobVars
<1> QED
    BY <1>0, <1>1, <1>2, <1>3, <1>4, <1>5, <1>6, <1>7, <1>8, <1>9, <1>10, <1>11, <1>12
    DEF JobNext, Main, WorkerStep

\* Every step keeps RunInv.
LEMMA RunStep ==
    ASSUME JobTypeOK, RunInv, [JobNext]_jobVars
    PROVE  RunInv'
<1> USE DEF JobTypeOK, RunInv, clock, store, workers, shifts, others
<1>1. CASE JobStart
    BY <1>1 DEF JobStart
<1>2. CASE JobList
    <2>1. batch' = {} \/ listed' # {}
        BY <1>2 DEF JobList, ListKeys
    <2> QED BY <1>2, <2>1 DEF JobList
<1>3. CASE JobRead
    BY <1>3 DEF JobRead, Read, HandTo
<1>4. CASE JobPageDone
    BY <1>4 DEF JobPageDone
<1>5. CASE JobEnd
    BY <1>5 DEF JobEnd
<1>6. ASSUME NEW w \in Worker, WorkerStop(w)
      PROVE  RunInv'
    BY <1>6 DEF WorkerStop, Remove
<1>7. ASSUME NEW w \in Worker, WorkerStart(w)
      PROVE  RunInv'
    BY <1>7 DEF WorkerStart, Insert
<1>8. CASE Tick
    BY <1>8 DEF Tick
<1>9. ASSUME NEW k \in Keys \cup Records,
             UserStop(k) \/ UserStart(k) \/ WebhookStore(k) \/ OtherKey(k)
      PROVE  RunInv'
    BY <1>9 DEF UserStop, UserStart, WebhookStore, OtherKey, Remove, Insert
<1>10. CASE UNCHANGED jobVars
    BY <1>10 DEF jobVars
<1> QED
    BY <1>1, <1>2, <1>3, <1>4, <1>5, <1>6, <1>7, <1>8, <1>9, <1>10
    DEF JobNext, Main, WorkerStep

-----------------------------------------------------------------------------
(* The keys and the pages.                                                 *)

\* Whatever else a step does, it changes the keys in one of these ways, outside of the
\* main goroutine's own steps.
KeyStep ==
    /\ UNCHANGED <<clock, jpc, page, batch, served, cutShort>>
    /\ \/ \E k : Remove(k)
       \/ (\E k \in Keys : Insert(k)) /\ owed' \subseteq owed
       \/ UNCHANGED <<present, owed, shifts>>

\* The workers' steps and everybody else's change the keys in one of these ways.
LEMMA OtherSteps ==
    ASSUME JobTypeOK, [JobNext]_jobVars
    PROVE  JobStart \/ Main \/ Tick \/ KeyStep
<1> USE DEF KeyStep, clock, store, workers, shifts, others
<1>0. Records \subseteq Keys
    BY KeyAssumption DEF Keys
<1>1. ASSUME NEW w \in Worker, WorkerStop(w)
      PROVE  KeyStep
    BY <1>1 DEF WorkerStop, Remove
<1>2. ASSUME NEW w \in Worker, WorkerStart(w)
      PROVE  KeyStep
    <2>1. inHand[w] # NoKey => inHand[w] \in Keys
        BY <1>0 DEF JobTypeOK
    <2> QED BY <1>2, <2>1 DEF WorkerStart, Insert
<1>3. ASSUME NEW k \in Keys, UserStop(k) \/ UserStart(k) \/ WebhookStore(k) \/ OtherKey(k)
      PROVE  KeyStep
    BY <1>3 DEF UserStop, UserStart, WebhookStore, OtherKey, Remove, Insert
<1>4. CASE UNCHANGED jobVars
    BY <1>4 DEF jobVars
<1> QED BY <1>0, <1>1, <1>2, <1>3, <1>4 DEF JobNext, WorkerStep

\* Every step keeps PageInv.
LEMMA PageStep ==
    ASSUME JobTypeOK, RunInv, PageInv, [JobNext]_jobVars
    PROVE  PageInv'
<1> USE DEF JobTypeOK, PageInv, ListedSoFar
<1>0. KeySet /\ page \in Nat
    BY DEF KeySet
<1>1. CASE JobStart
    BY <1>1 DEF JobStart, RunInv, shifts, store
<1>2. CASE JobList
    <2>1. UNCHANGED <<present, page, raised>>
        BY <1>2 DEF JobList, store
    <2>2. CASE jpc' = "send"
        <3>1. listed' = listed \cup KVList(page) /\ jpc = "list"
            BY <1>2, <2>2 DEF JobList
        <3>2. \A k \in listed' \ raised : Before(k) < (page + 1) * PerPage
            <4> TAKE k \in listed' \ raised
            <4>1. CASE k \in listed
                BY <1>0, <3>1, <4>1, BeforeTyped, PagesFollow
            <4>2. CASE k \in KVList(page)
                BY <4>2 DEF KVList
            <4> QED BY <3>1, <4>1, <4>2
        <3>3. \A k : Before(k)' = Before(k)
            BY <2>1 DEF Before
        <3> QED BY <2>1, <2>2, <3>2, <3>3
    <2>3. CASE jpc' # "send"
        BY <1>2, <2>3 DEF JobList
    <2> QED BY <2>2, <2>3
<1>3. CASE JobRead
    BY <1>3 DEF JobRead, store, shifts, Before
<1>4. CASE JobPageDone
    BY <1>4 DEF JobPageDone, store, shifts, Before
<1>5. CASE JobEnd
    BY <1>5 DEF JobEnd
<1>6. CASE Tick
    BY <1>6 DEF Tick, store, shifts, Before
<1>7. CASE KeyStep
    <2>1. UNCHANGED <<jpc, page>>
        BY <1>7 DEF KeyStep
    <2>2. ASSUME NEW k \in listed' \ raised', jpc \in {"list", "send"}
          PROVE  Before(k)' < ListedSoFar
        <3>1. k \in Keys /\ k \in listed \ raised /\ Before(k) < ListedSoFar
            BY <1>7, <2>2 DEF KeyStep, Remove, Insert, shifts
        <3>2. Before(k)' \in Nat /\ Before(k)' <= Before(k)
            <4>1. ASSUME NEW x, Remove(x) PROVE Before(k)' \in Nat /\ Before(k)' <= Before(k)
                BY <1>0, <3>1, <4>1, RemoveBefore, BeforeTyped DEF Remove
            <4>2. ASSUME NEW x \in Keys, Insert(x)
                  PROVE  Before(k)' \in Nat /\ Before(k)' <= Before(k)
                <5>1. x \in present \/ ~(x < k)
                    BY <2>2, <3>1, <4>2 DEF Insert
                <5>2. x \in present \/ k <= x
                    BY <1>0, <3>1, <5>1, KeysFinite
                <5> QED BY <1>0, <3>1, <4>2, <5>2, InsertBefore, BeforeTyped DEF Insert
            <4>3. CASE UNCHANGED present
                <5>1. Before(k)' = Before(k)
                    BY <4>3 DEF Before
                <5>2. Before(k) \in Nat
                    BY <1>0, BeforeTyped
                <5> QED BY <5>1, <5>2
            <4> QED BY <1>7, <4>1, <4>2, <4>3 DEF KeyStep
        <3> QED BY <1>0, <3>1, <3>2, BeforeTyped, PagesFollow
    <2> QED BY <2>1, <2>2
<1> QED BY <1>1, <1>2, <1>3, <1>4, <1>5, <1>6, <1>7, OtherSteps DEF Main

-----------------------------------------------------------------------------
(* One worker for each record.                                             *)

\* Every step keeps HandInv.
LEMMA HandStep ==
    ASSUME JobTypeOK, RunInv, PageInv, HandInv, [JobNext]_jobVars
    PROVE  HandInv'
<1> USE DEF JobTypeOK, HandInv, OneWorkerPerUser, clock, store, workers, shifts, others
<1>0. NoKey \notin Records /\ Records \subseteq Keys
    BY KeyAssumption DEF Keys
<1>1. CASE JobStart \/ JobPageDone \/ Tick
    BY <1>1 DEF JobStart, JobPageDone, Tick
<1>2. CASE JobList
    <2>1. UNCHANGED <<inHand, raised>> /\ listed \subseteq listed'
        BY <1>2 DEF JobList
    <2>2. batch' \subseteq listed'
        BY <1>2 DEF JobList, ListKeys
    <2>3. ASSUME NEW w \in Worker, inHand[w] \in batch', inHand[w] \notin raised
          PROVE  FALSE
        <3>1. inHand[w] \in KVList(page)
            <4>1. batch = {}
                BY <1>2 DEF JobList, RunInv
            <4> QED BY <1>2, <2>3, <4>1 DEF JobList, ListKeys
        <3>2. inHand[w] \in listed
            BY <1>0, <2>3, <1>2, <3>1 DEF KVList, JobList, RunInv, ListKeys
        <3>3. Before(inHand[w]) < page * PerPage
            BY <1>2, <2>3, <3>2 DEF PageInv, ListedSoFar, JobList
        <3>4. page * PerPage <= Before(inHand[w])
            BY <3>1 DEF KVList
        <3>5. Before(inHand[w]) \in Nat /\ page * PerPage \in Nat
            BY BeforeTyped, PagesFollow DEF KeySet
        <3> QED BY <3>3, <3>4, <3>5
    <2> QED BY <2>1, <2>2, <2>3
<1>3. CASE JobRead
    <2>1. PICK k \in batch : Read(k) /\ batch' = batch \ {k}
        BY <1>3 DEF JobRead
    <2>2. UNCHANGED <<listed, raised>>
        BY <1>3 DEF JobRead
    <2>3. ASSUME NEW w \in Worker, HandTo(w, MMUserID(k))
          PROVE  HandInv'
        <3>1. /\ inHand'[w] \in {k, NoKey}
              /\ \A v \in Worker \ {w} : inHand'[v] = inHand[v]
            BY <2>3 DEF HandTo, MMUserID
        <3>2. \A v \in Worker : inHand[v] = k => k \in raised
            BY <2>1
        <3> QED BY <1>0, <2>1, <2>2, <3>1, <3>2
    <2>4. CASE UNCHANGED inHand
        BY <2>1, <2>2, <2>4
    <2> QED BY <2>1, <2>3, <2>4 DEF Read
<1>4. CASE JobEnd
    <2>1. \A w \in Worker : inHand'[w] = NoKey
        BY <1>4 DEF JobEnd, RunInv
    <2>2. batch' = {}
        BY <1>4 DEF JobEnd, RunInv
    <2> QED BY <2>1, <2>2
<1>5. ASSUME NEW w \in Worker, WorkerStep(w)
      PROVE  HandInv'
    <2>1. \A v \in Worker : inHand'[v] = inHand[v] \/ inHand'[v] = NoKey
        BY <1>5 DEF WorkerStep, WorkerStop, WorkerStart
    <2>2. UNCHANGED <<batch, listed>> /\ raised \subseteq raised'
        BY <1>5 DEF WorkerStep, WorkerStop, WorkerStart, Remove, Insert
    <2> QED BY <1>0, <2>1, <2>2
<1>6. ASSUME NEW k \in Keys, UserStop(k) \/ UserStart(k) \/ WebhookStore(k) \/ OtherKey(k)
      PROVE  HandInv'
    <2>1. UNCHANGED <<batch, inHand, listed>> /\ raised \subseteq raised'
        BY <1>6 DEF UserStop, UserStart, WebhookStore, OtherKey, Remove, Insert
    <2> QED BY <2>1
<1>7. CASE UNCHANGED jobVars
    BY <1>7 DEF jobVars
<1> QED BY <1>0, <1>1, <1>2, <1>3, <1>4, <1>5, <1>6, <1>7 DEF JobNext, Main

-----------------------------------------------------------------------------
(* Every record that is due.                                               *)

\* What is owed stays due, for time does not pass during a run and a record is stored
\* anew only by whoever has it in hand, or where there is none.
LEMMA DueStays ==
    ASSUME JobTypeOK, RunInv, OwedInv, [JobNext]_jobVars
    PROVE  /\ \A w \in Worker : inHand'[w] # NoKey => inHand'[w] \in served'
           /\ \A k \in owed' \ served' : Due(k)'
<1> USE DEF JobTypeOK, OwedInv, clock, store, workers, shifts, others
<1>0. NoKey \notin Records /\ Records \subseteq Keys
    BY KeyAssumption DEF Keys
<1>1. ASSUME NEW k, UNCHANGED <<unit, interval>>, expires'[k] = expires[k], Due(k)
      PROVE  Due(k)'
    BY <1>1 DEF Due
<1>2. CASE JobStart
    BY <1>2 DEF JobStart, Due
<1>3. CASE JobList \/ JobPageDone
    BY <1>1, <1>3 DEF JobList, JobPageDone
<1>4. CASE JobRead
    <2>1. PICK k \in batch : Read(k)
        BY <1>4 DEF JobRead
    <2>2. \A w \in Worker : inHand'[w] # NoKey => inHand'[w] \in served'
        BY <1>0, <2>1 DEF Read, HandTo, MMUserID
    <2>3. owed' \subseteq owed /\ served \subseteq served'
        BY <2>1 DEF Read
    <2> QED BY <1>1, <1>4, <2>2, <2>3 DEF JobRead
<1>5. CASE JobEnd
    <2>1. owed' = {} /\ \A w \in Worker : inHand'[w] = NoKey
        BY <1>5 DEF JobEnd, RunInv
    <2> QED BY <2>1
<1>6. CASE Tick
    <2>1. UNCHANGED <<inHand, served>> /\ owed' = {}
        BY <1>6 DEF Tick, RunInv
    <2> QED BY <2>1
<1>7. ASSUME NEW w \in Worker, WorkerStop(w)
      PROVE  /\ \A v \in Worker : inHand'[v] # NoKey => inHand'[v] \in served'
             /\ \A k \in owed' \ served' : Due(k)'
    <2>1. UNCHANGED <<unit, interval, inHand, served>>
        BY <1>7 DEF WorkerStop, Remove
    <2>2. \A k \in owed' \ served : k \in owed /\ k \in Records /\ expires'[k] = expires[k]
        BY <1>7 DEF WorkerStop, Remove
    <2> QED BY <1>1, <2>1, <2>2
<1>8. ASSUME NEW w \in Worker, WorkerStart(w)
      PROVE  /\ \A v \in Worker : inHand'[v] # NoKey => inHand'[v] \in served'
             /\ \A k \in owed' \ served' : Due(k)'
    <2>1. UNCHANGED <<unit, interval, owed, served>>
        BY <1>8 DEF WorkerStart, Insert
    <2>2. \A v \in Worker : inHand'[v] # NoKey => inHand'[v] = inHand[v]
        BY <1>8 DEF WorkerStart
    <2>3. \A k \in owed \ served : expires'[k] = expires[k]
        BY <1>8 DEF WorkerStart
    <2> QED BY <1>1, <2>1, <2>2, <2>3
<1>9. ASSUME NEW k \in Records, UserStop(k) \/ UserStart(k)
      PROVE  /\ \A v \in Worker : inHand'[v] # NoKey => inHand'[v] \in served'
             /\ \A x \in owed' \ served' : Due(x)'
    <2>1. UNCHANGED <<unit, interval, inHand, served>>
        BY <1>9 DEF UserStop, UserStart, Remove, Insert
    <2>2. \A x \in owed' : x \in owed /\ x # k /\ expires'[x] = expires[x]
        BY <1>9 DEF UserStop, UserStart, Remove
    <2> QED BY <1>1, <2>1, <2>2
<1>10. ASSUME NEW k \in Keys, WebhookStore(k) \/ OtherKey(k)
       PROVE  /\ \A v \in Worker : inHand'[v] # NoKey => inHand'[v] \in served'
              /\ \A x \in owed' \ served' : Due(x)'
    <2>1. UNCHANGED <<unit, interval, inHand, served, expires>> /\ owed' \subseteq owed
        BY <1>10 DEF WebhookStore, OtherKey, Remove, Insert
    <2> QED BY <1>1, <2>1
<1>11. CASE UNCHANGED jobVars
    BY <1>1, <1>11 DEF jobVars
<1> QED
    BY <1>0, <1>2, <1>3, <1>4, <1>5, <1>6, <1>7, <1>8, <1>9, <1>10, <1>11
    DEF JobNext, Main, WorkerStep

\* Where a record is that is owed and that no key has left behind.
Place(k) ==
    /\ k \in listed => k \in batch \cup served
    /\ k \notin listed /\ jpc \in {"list", "send"} => ListedSoFar <= Before(k)
    /\ jpc = "wait" /\ ~cutShort => k \in listed

\* Every step keeps OwedInv.
LEMMA OwedStep ==
    ASSUME JobTypeOK, RunInv, OwedInv, [JobNext]_jobVars
    PROVE  OwedInv'
<1> USE DEF JobTypeOK
<1>0. KeySet /\ page \in Nat /\ Records \subseteq Keys
    BY KeyAssumption DEF KeySet, Keys
<1>1. \A k \in owed \ lowered : Place(k)
    BY DEF OwedInv, Place
<1> SUFFICES ASSUME NEW k \in owed' \ lowered'
             PROVE  Place(k)'
    BY DueStays DEF OwedInv, Place
<1>2. CASE JobStart
    <2>1. k \in Keys /\ listed' = {} /\ jpc' = "list" /\ page' = 0 /\ UNCHANGED present
        BY <1>0, <1>2 DEF JobStart, RunInv, shifts, store
    <2>2. Before(k)' \in Nat
        BY <1>0, <2>1, BeforeTyped DEF Before
    <2> QED BY <2>1, <2>2, PagesFollow DEF Place, ListedSoFar
<1>3. CASE JobList
    <2>1. /\ Place(k) /\ k \in Records \cap present /\ jpc = "list" /\ batch = {}
          /\ UNCHANGED <<present, page, served>>
        BY <1>1, <1>3 DEF JobList, RunInv, store
    <2>2. CASE jpc' = "wait" /\ cutShort' = TRUE /\ UNCHANGED <<batch, listed>>
        BY <2>1, <2>2 DEF Place
    <2>3. CASE /\ batch' = ListKeys(page) /\ listed' = listed \cup KVList(page)
               /\ jpc' = (IF batch' = {} THEN "wait" ELSE "send")
               /\ cutShort' = (batch' = {} /\ KVList(page) # {})
        <3>1. CASE k \in listed
            BY <2>1, <2>3, <3>1 DEF Place
        <3>2. CASE k \notin listed
            <4>1. page * PerPage <= Before(k)
                BY <2>1, <3>2 DEF Place, ListedSoFar
            <4>2. CASE k \in KVList(page)
                BY <2>1, <2>3, <4>2 DEF Place, ListKeys
            <4>3. CASE k \notin KVList(page)
                <5>1. (page + 1) * PerPage <= Before(k)
                    BY <1>0, <2>1, <4>1, <4>3, BeforeTyped, PagesFollow DEF KVList
                <5>2. KVList(page) # {}
                    BY <1>0, <2>1, <4>1, EmptyIsLast, BeforeTyped, PagesFollow
                <5>3. Before(k)' = Before(k)
                    BY <2>1 DEF Before
                <5>4. jpc' = "wait" => cutShort'
                    BY <2>3, <5>2
                <5> QED BY <2>1, <2>3, <3>2, <4>3, <5>1, <5>3, <5>4 DEF Place, ListedSoFar
            <4> QED BY <4>2, <4>3
        <3> QED BY <3>1, <3>2
    <2> QED BY <1>3, <2>2, <2>3 DEF JobList
<1>4. CASE JobRead
    <2>1. PICK x \in batch : Read(x) /\ batch' = batch \ {x}
        BY <1>4 DEF JobRead
    <2>2. k \in owed \ lowered /\ served \subseteq served'
        BY <1>4, <2>1 DEF JobRead, Read, shifts
    <2>3. k = x => k \in served'
        BY <2>1, <2>2 DEF Read, OwedInv
    <2>4. UNCHANGED <<jpc, page, present, listed, cutShort>>
        BY <1>4 DEF JobRead, store, shifts
    <2>5. Before(k)' = Before(k)
        BY <2>4 DEF Before
    <2> QED BY <1>1, <2>1, <2>2, <2>3, <2>4, <2>5 DEF Place, ListedSoFar
<1>5. CASE JobPageDone
    <2>1. /\ k \in owed \ lowered /\ jpc = "send" /\ jpc' = "list" /\ page' = page + 1
          /\ UNCHANGED <<present, batch, served, listed>>
        BY <1>5 DEF JobPageDone, store, shifts
    <2>2. Before(k)' = Before(k)
        BY <2>1 DEF Before
    <2> QED BY <1>1, <2>1, <2>2 DEF Place, ListedSoFar
<1>6. CASE JobEnd \/ Tick
    BY <1>6 DEF JobEnd, Tick, RunInv
<1>7. CASE KeyStep
    <2>1. UNCHANGED <<jpc, page, batch, served, cutShort, listed>>
        BY <1>7 DEF KeyStep, Remove, Insert, shifts
    <2>2. k \in owed \ lowered /\ k \in Keys
        BY <1>0, <1>7 DEF KeyStep, Remove, Insert, shifts
    <2>3. ASSUME k \notin listed, jpc \in {"list", "send"}
          PROVE  ListedSoFar <= Before(k)'
        <3>1. ListedSoFar <= Before(k)
            BY <1>1, <2>2, <2>3 DEF Place
        <3>2. ListedSoFar \in Nat /\ Before(k) \in Nat
            BY <1>0, BeforeTyped, PagesFollow DEF ListedSoFar
        <3>3. ASSUME NEW x, Remove(x) PROVE ListedSoFar <= Before(k)'
            <4>1. CASE listed = {}
                <5>1. ListedSoFar = 0
                    BY <2>3, <4>1, PagesFollow DEF RunInv, ListedSoFar
                <5>2. Before(k)' \in Nat
                    BY <1>0, <2>2, <3>3, RemoveBefore DEF Remove
                <5> QED BY <5>1, <5>2
            <4>2. CASE listed # {}
                <5>1. x \in present => ~(x < k)
                    BY <2>2, <2>3, <3>3, <4>2 DEF Remove
                <5>2. x \notin present \/ k <= x
                    BY <1>0, <2>2, <5>1, KeysFinite
                <5> QED BY <1>0, <2>2, <3>1, <3>3, <5>2, RemoveBefore DEF Remove
            <4> QED BY <4>1, <4>2
        <3>4. ASSUME NEW x \in Keys, Insert(x) PROVE ListedSoFar <= Before(k)'
            BY <1>0, <2>2, <3>1, <3>2, <3>4, InsertBefore DEF Insert
        <3>5. CASE UNCHANGED present
            BY <3>1, <3>5 DEF Before
        <3> QED BY <1>7, <3>3, <3>4, <3>5 DEF KeyStep
    <2> QED BY <1>1, <2>1, <2>2, <2>3 DEF Place, ListedSoFar
<1> QED BY <1>2, <1>3, <1>4, <1>5, <1>6, <1>7, OtherSteps DEF Main

-----------------------------------------------------------------------------
(* The theorems.                                                           *)

\* The types and RunInv hold throughout.
LEMMA JobTyped == JobSpec => [](JobTypeOK /\ RunInv)
<1>1. JobTypeOK /\ RunInv /\ [JobNext]_jobVars => (JobTypeOK /\ RunInv)'
    BY JobTypeStep, RunStep
<1> QED BY <1>1, JobStarts, PTL DEF JobSpec

\* The job's page, its batch and what the workers hold keep their types, with any
\* number of keys and pages (plugin.go: refreshDriveWatchChannels).
THEOREM RefreshJobTypes == JobSpec => []JobTypeOK
BY JobTyped, PTL

\* With any number of pages, keys and workers, two workers renew one user's channel at
\* once only if a key before his was stored after his had been listed
\* (plugin.go:105-128).
THEOREM RefreshOneWorkerPerUser == JobSpec => []OneWorkerPerUser
<1>1. JobInit => PageInv /\ HandInv
    BY DEF JobInit, PageInv, HandInv, OneWorkerPerUser
<1>2. JobTypeOK /\ RunInv /\ PageInv /\ HandInv /\ [JobNext]_jobVars => (PageInv /\ HandInv)'
    BY PageStep, HandStep
<1>3. HandInv => OneWorkerPerUser
    BY DEF HandInv
<1> QED BY <1>1, <1>2, <1>3, JobTyped, PTL DEF JobSpec

\* With any number of pages, a run that ends has handed every record that was due to a
\* worker, unless its page slipped by, or a page held no record, or the listing failed
\* (plugin.go:105-128).
THEOREM RefreshEveryDueServed == JobSpec => []EveryDueServed
<1>1. JobInit => OwedInv
    BY DEF JobInit, OwedInv
<1>2. JobTypeOK /\ RunInv /\ OwedInv /\ [JobNext]_jobVars => OwedInv'
    BY OwedStep
<1>3. JobTypeOK /\ RunInv /\ OwedInv => EveryDueServed
    BY DEF RunInv, OwedInv, EveryDueServed
<1> QED BY <1>1, <1>2, <1>3, JobTyped, PTL DEF JobSpec
=============================================================================
