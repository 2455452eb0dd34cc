--------------------------- MODULE RequestProofs ----------------------------
(***************************************************************************)
(* What is proved of what users ask for one request at a time: files       *)
(* (FileCreation), uploads and replies (Uploads) and the text utilities    *)
(* (Texts), for every server, page size, limit, set of files and text, and *)
(* any number of requests.                                                 *)
(*                                                                         *)
(* The properties speak of what a request has come to.  The invariants     *)
(* Accounts, UploadFiles, ReplyTally and StretchInv say what it has done   *)
(* at each place on the way there.                                         *)
(***************************************************************************)
EXTENDS FileCreation, Uploads, Texts, FiniteSetTheorems, SequenceTheorems, WellFoundedInduction,
        TLAPS

-----------------------------------------------------------------------------
(* The order of a channel's members.                                       *)

\* A member's place among the members.
LEMMA RankTyped ==
    ASSUME NEW S \in SUBSET Nat, IsFiniteSet(S), NEW u \in S
    PROVE  Rank(u, S) \in 0 .. Cardinality(S) - 1
<1>1. {v \in S : v < u} \in SUBSET (S \ {u})
    OBVIOUS
<1>2. IsFiniteSet(S \ {u}) /\ Cardinality(S \ {u}) = Cardinality(S) - 1
    BY FS_RemoveElement
<1>3. IsFiniteSet({v \in S : v < u})
    BY <1>1, <1>2, FS_Subset
<1>4. Cardinality({v \in S : v < u}) <= Cardinality(S \ {u})
    BY <1>1, <1>2, FS_Subset
<1> QED BY <1>2, <1>3, <1>4, FS_CardinalityType DEF Rank

\* Who is before another has an earlier place.
LEMMA RankOrders ==
    ASSUME NEW S \in SUBSET Nat, IsFiniteSet(S), NEW u \in S, NEW v \in S, u < v
    PROVE  Rank(u, S) < Rank(v, S)
<1> DEFINE before(w) == {x \in S : x < w}
<1>0. \A x \in S : x \in Nat
    OBVIOUS
<1>1. before(u) \in SUBSET S /\ before(v) \in SUBSET S
    OBVIOUS
<1>2. IsFiniteSet(before(u)) /\ IsFiniteSet(before(v))
    BY <1>1, FS_Subset
<1>3. u \notin before(u) /\ u \in before(v)
    BY <1>0
<1>4. \A x \in before(u) : x \in before(v)
    BY <1>0
<1>5. before(u) \cup {u} \in SUBSET before(v)
    BY <1>3, <1>4
<1> HIDE DEF before
<1>6. Cardinality(before(u) \cup {u}) = Cardinality(before(u)) + 1
    BY <1>2, <1>3, FS_AddElement
<1>7. Cardinality(before(u) \cup {u}) <= Cardinality(before(v))
    BY <1>2, <1>5, FS_Subset
<1>8. Cardinality(before(u)) \in Nat /\ Cardinality(before(v)) \in Nat
    BY <1>2, FS_CardinalityType
<1> QED BY <1>6, <1>7, <1>8 DEF Rank, before

\* Somebody has each place.
LEMMA RankOnto ==
    ASSUME NEW S \in SUBSET Nat, IsFiniteSet(S), NEW k \in 0 .. Cardinality(S) - 1
    PROVE  \E u \in S : Rank(u, S) = k
<1> DEFINE places == 0 .. Cardinality(S) - 1
           ranks == [u \in S |-> Rank(u, S)]
<1>1. Cardinality(S) \in Nat
    BY FS_CardinalityType
<1>2. IsFiniteSet(places) /\ Cardinality(places) = Cardinality(S)
    <2> DEFINE last == Cardinality(S) - 1
    <2>1. last \in Int /\ 0 \in Int /\ Cardinality(S) = last + 1 /\ last >= -1
        BY <1>1
    <2> HIDE DEF last
    <2>2. IsFiniteSet(0 .. last) /\ Cardinality(0 .. last) = last + 1
        BY <2>1, FS_Interval
    <2> QED BY <2>1, <2>2 DEF last
<1>3. ranks \in [S -> places]
    BY RankTyped
<1>4. \A u, v \in S : ranks[u] = ranks[v] => u = v
    <2> SUFFICES ASSUME NEW u \in S, NEW v \in S, u # v PROVE Rank(u, S) # Rank(v, S)
        OBVIOUS
    <2>1. u < v \/ v < u
        OBVIOUS
    <2> QED BY <2>1, RankOrders, RankTyped
<1>5. ranks \in Injection(S, places)
    BY <1>3, <1>4 DEF Injection, IsInjective
<1>6. ranks \in Surjection(S, places)
    BY <1>2, <1>5, FS_Injection
<1>7. PICK u \in S : ranks[u] = k
    BY <1>6 DEF Surjection
<1> QED BY <1>7

\* The sequence of a set's members holds all of them and nobody else.
LEMMA InOrderLists ==
    ASSUME NEW S \in SUBSET Nat, IsFiniteSet(S)
    PROVE  /\ InOrder(S) \in Seq(S)
           /\ \A u \in S : \E i \in 1 .. Len(InOrder(S)) : InOrder(S)[i] = u
<1>1. Cardinality(S) \in Nat
    BY FS_CardinalityType
<1>2. \A i \in 1 .. Cardinality(S) :
          InOrder(S)[i] \in S /\ Rank(InOrder(S)[i], S) = i - 1
    <2> TAKE i \in 1 .. Cardinality(S)
    <2>1. \E u \in S : Rank(u, S) = i - 1
        BY <1>1, RankOnto
    <2> QED BY <2>1 DEF InOrder
<1>3. InOrder(S) \in Seq(S) /\ Len(InOrder(S)) = Cardinality(S)
    BY <1>1, <1>2 DEF InOrder
<1>4. ASSUME NEW u \in S PROVE \E i \in 1 .. Len(InOrder(S)) : InOrder(S)[i] = u
    <2>1. Rank(u, S) + 1 \in 1 .. Cardinality(S)
        BY <1>1, RankTyped
    <2> DEFINE v == InOrder(S)[Rank(u, S) + 1]
    <2>2. v \in S /\ Rank(v, S) = Rank(u, S) + 1 - 1 /\ Rank(u, S) \in Int
        BY <1>2, <2>1, RankTyped
    <2> HIDE DEF v
    <2>3. v < u \/ v = u \/ u < v
        BY <2>2
    <2>4. v = u
        BY <2>2, <2>3, RankOrders, RankTyped
    <2> QED BY <2>1, <2>4, <1>3 DEF v
<1> QED BY <1>3, <1>4

\* Whoever joins moves nobody to an earlier place.
LEMMA RankGrows ==
    ASSUME NEW S \in SUBSET Nat, IsFiniteSet(S), NEW w \in Nat, NEW u \in S
    PROVE  Rank(u, S) <= Rank(u, S \cup {w})
<1>1. {v \in S : v < u} \in SUBSET {v \in S \cup {w} : v < u}
    OBVIOUS
<1>2. {v \in S \cup {w} : v < u} \in SUBSET (S \cup {w}) /\ IsFiniteSet(S \cup {w})
    BY FS_AddElement
<1>3. IsFiniteSet({v \in S \cup {w} : v < u})
    BY <1>2, FS_Subset
<1> QED BY <1>1, <1>3, FS_Subset DEF Rank

\* What is used of division by the page size.
LEMMA DivGrows ==
    ASSUME NEW a \in Nat, NEW b \in Nat, NEW d \in Nat \ {0}, a <= b
    PROVE  /\ a \div d \in Nat /\ a \div d <= b \div d /\ a \div d <= a
           /\ \A q \in Nat : q <= a \div d => q * d <= a
           /\ \A q \in Nat : (q * d) \div d = q
           /\ \A q \in Nat : q * d \in Nat
<1>1. a \div d \in Nat
    OBVIOUS
<1>2. a \div d <= b \div d
    OBVIOUS
<1>3. a \div d <= a
    OBVIOUS
<1>4. \A q \in Nat : q <= a \div d => q * d <= a
    OBVIOUS
<1>5. \A q \in Nat : (q * d) \div d = q
    OBVIOUS
<1>6. \A q \in Nat : q * d \in Nat
    OBVIOUS
<1> QED BY <1>1, <1>2, <1>3, <1>4, <1>5, <1>6

-----------------------------------------------------------------------------
(* Outsiders.                                                              *)

\* A request that nobody in the channel made does not pass the first check, where
\* whoever is in the channel has been there since the submission.
Outside ==
    /\ pc = "check" /\ Owner \in members => was
    /\ request.channel /\ ~was => pc \in {"idle", "check"}

\* The handler passes CheckMember only for a member.
LEMMA OutsideStep ==
    Outside /\ OnlyMembersCreate /\ [Next]_vars => Outside' /\ OnlyMembersCreate'
<1> SUFFICES ASSUME Outside, OnlyMembersCreate, [Next]_vars
             PROVE  Outside' /\ OnlyMembersCreate'
    OBVIOUS
<1> USE DEF environment, results, locals, Reply
<1>1. ASSUME NEW u \in User, Join(u) PROVE Outside' /\ OnlyMembersCreate'
    BY <1>1 DEF Join, Outside, OnlyMembersCreate
<1>2. ASSUME NEW u \in User, Leave(u) PROVE Outside' /\ OnlyMembersCreate'
    BY <1>2 DEF Leave, Outside, OnlyMembersCreate
<1>3. ASSUME NEW r \in Request, Submit(r) PROVE Outside' /\ OnlyMembersCreate'
    BY <1>3 DEF Submit, Outside, OnlyMembersCreate
<1>4. CASE CheckMember
    <2>1. UNCHANGED <<members, was, created, access, posted, request>>
        BY <1>4 DEF CheckMember
    <2>2. pc' = "idle" \/ (pc' = "create" /\ (request.channel => was))
        BY <1>4 DEF CheckMember, Outside
    <2> QED BY <2>1, <2>2 DEF Outside, OnlyMembersCreate
<1>5. CASE CreateFile \/ List \/ NewDriveService \/ Grant \/ Tell \/ Send
    <2>1. pc \in {"create", "list", "service", "grant", "send"}
        BY <1>5 DEF CreateFile, List, NewDriveService, Grant, Tell, Send
    <2>2. request.channel => was
        BY <2>1 DEF Outside
    <2>3. UNCHANGED <<members, was, request>>
        BY <1>5 DEF CreateFile, List, NewDriveService, Grant, Tell, Send
    <2>4. pc' # "check"
        BY <1>5, <2>1 DEF CreateFile, List, NewDriveService, Grant, Tell, Send, Name
    <2> QED BY <2>2, <2>3, <2>4 DEF Outside, OnlyMembersCreate
<1>6. CASE UNCHANGED vars
    BY <1>6 DEF vars, Outside, OnlyMembersCreate
<1> QED
    BY <1>1, <1>2, <1>3, <1>4, <1>5, <1>6 DEF Next, Handle

\* "This check must happen before file creation to prevent orphaned files"
\* (api.go:394): in a channel of any size, whoever joins and leaves and whatever
\* fails, a document is created, shared or posted only by somebody who was in the
\* channel at some time of the request.
THEOREM OutsidersCreateNothing == Spec => []OnlyMembersCreate
<1>1. Init => Outside /\ OnlyMembersCreate
    BY DEF Init, Outside, OnlyMembersCreate, environment, results
<1>2. Outside /\ OnlyMembersCreate /\ [Next]_vars => (Outside /\ OnlyMembersCreate)'
    BY OutsideStep
<1> QED BY <1>1, <1>2, PTL DEF Spec

-----------------------------------------------------------------------------
(* Types.                                                                  *)

\* The loop over permissions starts at the first of them.
NextFresh == pc \in {"check", "create", "list", "service"} => next = 0

\* A channel has finitely many members.
LEMMA MembersFinite ==
    ASSUME TypeOK
    PROVE  /\ members \in SUBSET Nat /\ IsFiniteSet(members)
           /\ Cardinality(members) \in Nat /\ Cardinality(User) \in Nat
           /\ Cardinality(members) <= Cardinality(User)
BY UserAssumption, FS_Subset, FS_CardinalityType DEF TypeOK

\* A page with somebody on it is one of the pages there can be.
LEMMA PageBound ==
    ASSUME TypeOK, UsersInChannel # {}
    PROVE  page + 1 \in 0 .. Cardinality(User)
<1>1. PICK u \in members : Rank(u, members) \div PerPage = page
    BY DEF UsersInChannel
<1>2. Rank(u, members) \in 0 .. Cardinality(members) - 1
    BY MembersFinite, RankTyped
<1>3. Rank(u, members) \div PerPage <= Rank(u, members)
    BY <1>2, MembersFinite, DivGrows, NumberAssumption
<1> QED BY <1>1, <1>2, <1>3, MembersFinite DEF TypeOK

\* The invited on a page are listed, and they can be granted access.
LEMMA PageLists ==
    ASSUME TypeOK
    PROVE  LET invited == {u \in UsersInChannel : Invited(u)}
           IN  /\ InOrder(invited) \in Seq({u \in User : Invited(u)})
               /\ \A u \in invited :
                      \E i \in 1 .. Len(InOrder(invited)) : InOrder(invited)[i] = u
<1> DEFINE invited == {u \in UsersInChannel : Invited(u)}
<1>1. invited \in SUBSET members
    BY DEF UsersInChannel
<1>2. invited \in SUBSET Nat /\ IsFiniteSet(invited)
    BY <1>1, MembersFinite, FS_Subset
<1>3. invited \in SUBSET {u \in User : Invited(u)}
    BY <1>1 DEF TypeOK
<1> HIDE DEF invited
<1>4. /\ InOrder(invited) \in Seq(invited)
      /\ \A u \in invited :
             \E i \in 1 .. Len(InOrder(invited)) : InOrder(invited)[i] = u
    BY <1>2, InOrderLists
<1>5. InOrder(invited) \in Seq({u \in User : Invited(u)})
    BY <1>3, <1>4
<1> QED BY <1>4, <1>5 DEF invited

\* The empty list is a list of permissions.
LEMMA NoPermissions == <<>> \in Seq(Grantee) /\ Len(<<>>) = 0 /\ 0 \in 0 .. 0
OBVIOUS

\* The first request finds the variables in their types.
LEMMA TypesInit == Init => TypeOK /\ NextFresh
<1> SUFFICES ASSUME Init PROVE TypeOK /\ NextFresh
    OBVIOUS
<1>1. page \in 0 .. Cardinality(User)
    BY UserAssumption, FS_CardinalityType DEF Init
<1>2. permissions \in Seq(Grantee) /\ next \in 0 .. Len(permissions)
    BY NoPermissions DEF Init
<1>3. request \in Request
    BY DEF Init, Request
<1> QED BY <1>1, <1>2, <1>3 DEF Init, TypeOK, NextFresh, Answer

\* Every step keeps them there, and the loop over permissions in its place.
LEMMA TypesStep == TypeOK /\ NextFresh /\ [Next]_vars => TypeOK' /\ NextFresh'
<1> SUFFICES ASSUME TypeOK, NextFresh, [Next]_vars PROVE TypeOK' /\ NextFresh'
    OBVIOUS
<1> USE DEF environment, results, locals, Reply, Answer
<1>0. Cardinality(User) \in Nat
    BY UserAssumption, FS_CardinalityType
<1>1. ASSUME NEW u \in User, Join(u) PROVE TypeOK' /\ NextFresh'
    BY <1>1 DEF Join, TypeOK, NextFresh
<1>2. ASSUME NEW u \in User, Leave(u) PROVE TypeOK' /\ NextFresh'
    BY <1>2 DEF Leave, TypeOK, NextFresh
<1>3. ASSUME NEW r \in Request, Submit(r) PROVE TypeOK' /\ NextFresh'
    <2>1. permissions' \in Seq(Grantee) /\ next' \in 0 .. Len(permissions')
        BY <1>3, NoPermissions DEF Submit
    <2>2. page' \in 0 .. Cardinality(User)
        BY <1>0, <1>3 DEF Submit
    <2>3. was' \in BOOLEAN
        BY <1>3 DEF Submit
    <2>4. members' \subseteq User /\ stayed' \subseteq members'
        BY <1>3 DEF Submit, TypeOK
    <2>5. /\ access' = {} /\ named' = {} /\ denied' = {} /\ without' = {}
          /\ pc' = "check" /\ answer' = "none" /\ next' = 0
          /\ created' = FALSE /\ posted' = FALSE /\ excused' = FALSE
          /\ permissionError' = FALSE /\ request' \in Request
        BY <1>3 DEF Submit
    <2> QED BY <2>1, <2>2, <2>3, <2>4, <2>5 DEF TypeOK, NextFresh
<1>4. CASE CheckMember
    BY <1>4 DEF CheckMember, TypeOK, NextFresh
<1>5. CASE CreateFile
    <2>0. Anyone \in Grantee
        BY DEF Grantee
    <2>1. permissions' \in Seq(Grantee) /\ Len(permissions') \in Nat
        BY <1>5, <2>0 DEF CreateFile
    <2>2. next' = 0 /\ next' \in 0 .. Len(permissions')
        BY <1>5, <2>1 DEF CreateFile, NextFresh
    <2> QED BY <1>5, <2>1, <2>2 DEF CreateFile, TypeOK, NextFresh
<1>6. CASE List
    <2>1. next' = 0 /\ pc' \in {"list", "service"} /\ UNCHANGED <<members, results, request>>
          /\ UNCHANGED <<permissionError, without, answer, was, stayed, denied>>
        BY <1>6 DEF List, NextFresh
    <2>2. excused' \in BOOLEAN
        BY <1>6 DEF List, TypeOK
    <2>3. permissions' \in Seq(Grantee) /\ page' \in 0 .. Cardinality(User)
        <3>1. CASE UNCHANGED <<permissions, page>>
            BY <3>1 DEF TypeOK
        <3>2. CASE /\ UsersInChannel # {} /\ page' = page + 1
                   /\ permissions' =
                         permissions \o InOrder({u \in UsersInChannel : Invited(u)})
            <4> DEFINE more == InOrder({u \in UsersInChannel : Invited(u)})
            <4>1. more \in Seq({u \in User : Invited(u)})
                BY PageLists
            <4> HIDE DEF more
            <4>2. more \in Seq(Grantee)
                BY <4>1 DEF Grantee
            <4>3. permissions' = permissions \o more
                BY <3>2 DEF more
            <4>4. permissions \in Seq(Grantee)
                BY DEF TypeOK
            <4>5. permissions' \in Seq(Grantee)
                BY <4>2, <4>3, <4>4
            <4> QED BY <3>2, <4>5, PageBound
        <3> QED BY <1>6, <3>1, <3>2 DEF List
    <2>4. next' \in 0 .. Len(permissions')
        BY <2>1, <2>3
    <2> QED BY <2>1, <2>2, <2>3, <2>4 DEF TypeOK, NextFresh
<1>7. CASE NewDriveService
    BY <1>7 DEF NewDriveService, TypeOK, NextFresh
<1>8. CASE Grant
    <2>1. permissions[next + 1] \in Grantee /\ next + 1 \in 0 .. Len(permissions)
        <3>1. permissions \in Seq(Grantee) /\ next \in 0 .. Len(permissions)
            BY DEF TypeOK
        <3>2. next < Len(permissions) /\ Len(permissions) \in Nat
            BY <1>8, <3>1 DEF Grant
        <3> QED BY <3>1, <3>2
    <2>2. UNCHANGED <<members, was, stayed, created, posted, named, request, page,
                      permissions, excused>>
        BY <1>8 DEF Grant
    <2>3. pc' \in {"grant", "idle"} /\ answer' \in Answer /\ next' \in 0 .. Len(permissions)
        BY <1>8, <2>1 DEF Grant, Name, TypeOK
    <2>4. access' \subseteq Grantee /\ denied' \subseteq Grantee
        BY <1>8, <2>1 DEF Grant, Created, Fails, TypeOK
    <2>5. without' \subseteq Grantee
        BY <1>8, <2>1 DEF Grant, Name, TypeOK
    <2>6. permissionError' \in BOOLEAN
        BY <1>8 DEF Grant, TypeOK
    <2> QED BY <2>2, <2>3, <2>4, <2>5, <2>6 DEF TypeOK, NextFresh
<1>9. CASE Tell
    BY <1>9 DEF Tell, TypeOK, NextFresh
<1>10. CASE Send
    BY <1>10 DEF Send, TypeOK, NextFresh, Request
<1>11. CASE UNCHANGED vars
    BY <1>11 DEF vars, TypeOK, NextFresh
<1> QED
    BY <1>1, <1>2, <1>3, <1>4, <1>5, <1>6, <1>7, <1>8, <1>9, <1>10, <1>11 DEF Next, Handle

\* The types of FileCreation (server/plugin/create.go, api.go): among them, that the
\* handler reads no page beyond the members there are and no permission beyond its
\* list, whatever channel, page size and limit.
THEOREM FileCreationTypes == Spec => []TypeOK
BY TypesInit, TypesStep, PTL DEF Spec

-----------------------------------------------------------------------------
(* Every member is accounted for.                                          *)

OnList(u) == \E i \in 1 .. Len(permissions) : permissions[i] = u

\* What the handler has dealt with so far, of those who stay: while it lists, all
\* who are on the pages it has read; in the loop over permissions, all before i.
ForMembers ==
    request.access = "members" =>
        /\ pc \in {"check", "create"} => page = 0
        /\ \A i \in 1 .. Len(permissions) : permissions[i] \in User
Listing ==
    request.access = "members" /\ ~excused =>
        /\ pc = "list" =>
               \A u \in stayed :
                   Invited(u) /\ Rank(u, members) \div PerPage < page => OnList(u)
        /\ pc \in {"service", "grant"} => \A u \in stayed : Invited(u) => OnList(u)
Granting ==
    request.access = "members" /\ ~excused =>
        /\ pc = "grant" => \A i \in 1 .. next : permissions[i] \in access \cup without
        /\ pc = "send" => \A u \in stayed : Invited(u) => u \in access \cup named
Accounts == ForMembers /\ Listing /\ Granting /\ EveryMemberAccounted

\* After the first empty page there is no other: somebody has each place before the
\* last one's.
LEMMA LastPage ==
    ASSUME TypeOK, request.channel, UsersInChannel = {}, NEW u \in members
    PROVE  Rank(u, members) \div PerPage < page
<1>1. Rank(u, members) \in 0 .. Cardinality(members) - 1
    BY MembersFinite, RankTyped
<1>2. page \in Nat /\ PerPage \in Nat \ {0}
    BY NumberAssumption, MembersFinite DEF TypeOK
<1>3. SUFFICES ASSUME page <= Rank(u, members) \div PerPage PROVE FALSE
    BY <1>1, <1>2, MembersFinite, DivGrows
<1>4. page * PerPage \in 0 .. Cardinality(members) - 1
    BY <1>1, <1>2, <1>3, MembersFinite, DivGrows
<1>5. PICK v \in members : Rank(v, members) = page * PerPage
    BY <1>4, MembersFinite, RankOnto
<1>6. (page * PerPage) \div PerPage = page
    BY <1>2, DivGrows
<1> QED BY <1>5, <1>6 DEF UsersInChannel

\* Nobody who joins moves one who is there to a page that has been read.
LEMMA JoinAccounts ==
    ASSUME TypeOK, Accounts, NEW w \in User, Join(w)
    PROVE  Accounts'
<1> USE DEF environment, results, locals
<1>1. UNCHANGED <<request, pc, permissions, next, page, without, answer, stayed, access,
                  named, excused>>
      /\ members' = members \cup {w}
    BY DEF Join
<1>2. ASSUME NEW u \in stayed
      PROVE  Rank(u, members) \div PerPage <= Rank(u, members') \div PerPage
             /\ Rank(u, members) \div PerPage \in Nat
             /\ Rank(u, members') \div PerPage \in Nat
    <2>1. u \in members /\ w \in Nat
        BY UserAssumption DEF TypeOK
    <2>2. Rank(u, members) <= Rank(u, members')
        BY <1>1, <2>1, MembersFinite, RankGrows
    <2>3. members' \in SUBSET Nat /\ IsFiniteSet(members') /\ u \in members'
        BY <1>1, <2>1, MembersFinite, FS_AddElement
    <2>4. Cardinality(members') \in Nat
        BY <2>3, FS_CardinalityType
    <2>5. Rank(u, members) \in Nat /\ Rank(u, members') \in Nat
        BY <2>1, <2>3, <2>4, MembersFinite, RankTyped
    <2> QED BY <2>2, <2>5, DivGrows, NumberAssumption
<1>3. page \in Nat
    BY MembersFinite DEF TypeOK
<1>4. Listing'
    <2>1. ASSUME request.access = "members", ~excused, pc = "list", NEW u \in stayed, Invited(u),
                 Rank(u, members') \div PerPage < page
          PROVE  OnList(u)
        <3>1. Rank(u, members) \div PerPage < page
            BY <1>2, <1>3, <2>1
        <3> QED BY <2>1, <3>1 DEF Accounts, Listing
    <2> QED BY <1>1, <2>1 DEF Accounts, Listing, OnList
<1> QED BY <1>1, <1>4 DEF Accounts, ForMembers, Granting, EveryMemberAccounted

\* One who leaves is owed nothing; he does not move the others while the handler
\* has read no page, and later the list counts as slipped.
LEMMA LeaveAccounts ==
    ASSUME TypeOK, Accounts, NEW w \in User, Leave(w)
    PROVE  Accounts'
<1> USE DEF environment, results, locals
<1>1. UNCHANGED <<request, pc, permissions, next, page, without, answer, access, named>>
      /\ stayed' \subseteq stayed /\ members' = members \ {w}
      /\ excused' = (excused \/ (pc = "list" /\ page > 0))
    BY DEF Leave
<1>2. Listing'
    <2> SUFFICES ASSUME request.access = "members", ~excused'
                 PROVE  /\ pc = "list" =>
                               \A u \in stayed' :
                                   Invited(u) /\ Rank(u, members') \div PerPage < page =>
                                       OnList(u)
                        /\ pc \in {"service", "grant"} =>
                               \A u \in stayed' : Invited(u) => OnList(u)
        BY <1>1 DEF Listing, OnList
    <2>1. ~excused
        BY <1>1
    <2>2. ASSUME pc = "list", NEW u \in stayed', Rank(u, members') \div PerPage < page
          PROVE  FALSE
        <3>1. page \in Nat
            BY MembersFinite DEF TypeOK
        <3>2. ~(page > 0)
            BY <1>1, <2>2
        <3>3. page = 0
            BY <3>1, <3>2
        <3>4. members' \in SUBSET Nat /\ IsFiniteSet(members')
            BY <1>1, MembersFinite, FS_RemoveElement
        <3>5. u \in members' /\ Cardinality(members') \in Nat
            BY <3>4, FS_CardinalityType DEF Leave, TypeOK
        <3>6. Rank(u, members') \in Nat
            BY <3>4, <3>5, RankTyped
        <3>7. Rank(u, members') \div PerPage \in Nat
            BY <3>6, DivGrows, NumberAssumption
        <3> QED BY <2>2, <3>7, <3>3
    <2> QED BY <1>1, <2>1, <2>2 DEF Accounts, Listing
<1>3. Granting' /\ EveryMemberAccounted'
    BY <1>1 DEF Accounts, Granting, EveryMemberAccounted
<1> QED BY <1>1, <1>2, <1>3 DEF Accounts, ForMembers

\* A page is read: whoever is on it and invited is on the list.
LEMMA ListAccounts ==
    ASSUME TypeOK, Accounts, List
    PROVE  Accounts'
<1> USE DEF environment, results, locals
<1>1. UNCHANGED <<request, members, stayed, access, named, next, without, answer>>
      /\ pc = "list" /\ pc' \in {"list", "service"}
    BY DEF List
<1>2. CASE /\ UsersInChannel # {} /\ page' = page + 1 /\ UNCHANGED <<pc, excused>>
           /\ permissions' = permissions \o InOrder({u \in UsersInChannel : Invited(u)})
    <2> DEFINE invited == {u \in UsersInChannel : Invited(u)}
               more == InOrder(invited)
    <2>1. /\ more \in Seq({u \in User : Invited(u)})
          /\ \A u \in invited : \E i \in 1 .. Len(more) : more[i] = u
        BY PageLists
    <2>2. permissions \in Seq(Grantee)
        BY DEF TypeOK
    <2>3. \A u \in UsersInChannel : Invited(u) => u \in invited
        OBVIOUS
    <2> HIDE DEF invited, more
    <2>4. permissions' = permissions \o more
        BY <1>2 DEF more, invited
    <2>5. /\ Len(permissions') = Len(permissions) + Len(more)
          /\ Len(permissions) \in Nat /\ Len(more) \in Nat
          /\ \A i \in 1 .. Len(permissions) : permissions'[i] = permissions[i]
          /\ \A i \in 1 .. Len(more) : permissions'[Len(permissions) + i] = more[i]
          /\ \A i \in 1 .. Len(permissions') :
                 permissions'[i] = IF i <= Len(permissions) THEN permissions[i]
                                   ELSE more[i - Len(permissions)]
        BY <2>1, <2>2, <2>4
    <2>6. \A u : OnList(u) => OnList(u)'
        BY <2>5 DEF OnList
    <2>7. \A u \in invited : OnList(u)'
        <3> TAKE u \in invited
        <3>1. PICK i \in 1 .. Len(more) : more[i] = u
            BY <2>1
        <3>2. Len(permissions) + i \in 1 .. Len(permissions')
            BY <2>5
        <3> QED BY <2>5, <3>1, <3>2 DEF OnList
    <2>8. Listing'
        <3> SUFFICES ASSUME request.access = "members", ~excused,
                            NEW u \in stayed, Invited(u),
                            Rank(u, members) \div PerPage < page + 1
                     PROVE  OnList(u)'
            BY <1>1, <1>2 DEF Listing
        <3>1. CASE Rank(u, members) \div PerPage < page
            BY <1>1, <2>6, <3>1 DEF Accounts, Listing
        <3>2. CASE Rank(u, members) \div PerPage = page
            <4>1. u \in members /\ request.channel
                BY <1>2 DEF TypeOK, UsersInChannel
            <4>2. u \in UsersInChannel
                BY <3>2, <4>1 DEF UsersInChannel
            <4> QED BY <2>3, <2>7, <4>2
        <3>3. Rank(u, members) \div PerPage \in Nat /\ page \in Nat
            <4>1. u \in members
                BY DEF TypeOK
            <4>2. Rank(u, members) \in Nat
                BY <4>1, MembersFinite, RankTyped
            <4> QED BY <4>2, DivGrows, NumberAssumption, MembersFinite DEF TypeOK
        <3> QED BY <3>1, <3>2, <3>3
    <2>9. ForMembers'
        <3> SUFFICES ASSUME request.access = "members", NEW i \in 1 .. Len(permissions')
                     PROVE  permissions'[i] \in User
            BY <1>1, <1>2 DEF ForMembers
        <3>1. CASE i <= Len(permissions)
            BY <2>5, <3>1 DEF Accounts, ForMembers
        <3>2. CASE ~(i <= Len(permissions))
            <4>1. i - Len(permissions) \in 1 .. Len(more)
                BY <2>5, <3>2
            <4>2. more[i - Len(permissions)] \in User
                BY <2>1, <4>1
            <4> QED BY <2>5, <3>2, <4>2
        <3> QED BY <3>1, <3>2
    <2> QED BY <1>1, <1>2, <2>8, <2>9 DEF Accounts, Granting, EveryMemberAccounted
<1>3. CASE /\ pc' = "service" /\ UNCHANGED <<permissions, page>>
           /\ excused' = (excused \/ UsersInChannel # {} \/ ~request.channel)
    <2>1. Listing'
        <3> SUFFICES ASSUME request.access = "members", ~excused',
                            NEW u \in stayed, Invited(u)
                     PROVE  OnList(u)'
            BY <1>1, <1>3 DEF Listing
        <3>1. request.channel /\ UsersInChannel = {} /\ u \in members
            BY <1>3 DEF TypeOK
        <3>2. Rank(u, members) \div PerPage < page
            BY <3>1, LastPage
        <3>3. OnList(u)
            BY <1>1, <1>3, <3>2 DEF Accounts, Listing
        <3> QED BY <1>3, <3>3 DEF OnList
    <2> QED BY <1>1, <1>3, <2>1 DEF Accounts, ForMembers, Granting, EveryMemberAccounted
<1> QED BY <1>2, <1>3 DEF List

\* One turn of the loop: the grantee at i gets access or is noted to have none.
LEMMA GrantAccounts ==
    ASSUME TypeOK, Accounts, Grant
    PROVE  Accounts'
<1> USE DEF environment, results, locals
<1> DEFINE g == permissions[next + 1]
<1>1. UNCHANGED <<request, members, stayed, permissions, page, named, excused>>
      /\ pc = "grant" /\ pc' \in {"grant", "idle"} /\ next < Len(permissions)
    BY DEF Grant, Name, Reply
<1>2. next \in Nat /\ next + 1 \in 1 .. Len(permissions)
    <2>1. next \in 0 .. Len(permissions) /\ Len(permissions) \in Nat
        BY DEF TypeOK
    <2> QED BY <1>1, <2>1
<1>3. ASSUME request.access = "members"
      PROVE  /\ next' = next + 1 /\ UNCHANGED <<pc, answer>>
             /\ access \subseteq access' /\ without \subseteq without'
             /\ g \in access' \cup without'
    <2>1. g # Anyone
        BY <1>2, <1>3, AnyoneAssumption DEF Accounts, ForMembers
    <2> HIDE DEF g
    <2>2. CASE Name(g) /\ UNCHANGED <<access, denied, permissionError>>
        BY <2>1, <2>2 DEF Name
    <2>3. CASE Created(g) /\ next' = next + 1 /\ UNCHANGED <<pc, permissionError, without, answer>>
        BY <2>3 DEF Created
    <2>4. CASE Fails(g) /\ Name(g)
        BY <2>1, <2>4 DEF Fails, Name
    <2> QED BY <2>2, <2>3, <2>4 DEF Grant, g
<1>4. Granting'
    <2> SUFFICES ASSUME request.access = "members", ~excused, NEW i \in 1 .. next + 1
                 PROVE  permissions[i] \in access' \cup without'
        BY <1>1, <1>3 DEF Granting
    <2>1. CASE i = next + 1
        BY <1>3, <2>1
    <2>2. CASE i \in 1 .. next
        BY <1>1, <1>3, <2>2 DEF Accounts, Granting
    <2> QED BY <1>2, <2>1, <2>2
<1> QED BY <1>1, <1>3, <1>4 DEF Accounts, ForMembers, Listing, OnList, EveryMemberAccounted

\* The end of the loop: who has no access is named, or the message was lost.
LEMMA TellAccounts ==
    ASSUME TypeOK, Accounts, Tell
    PROVE  Accounts'
<1> USE DEF environment, results, locals
<1>1. UNCHANGED <<request, members, stayed, permissions, page, next, access, without>>
      /\ pc = "grant" /\ pc' \in {"send", "idle"} /\ next = Len(permissions)
    BY DEF Tell, Reply
<1>2. ASSUME request.access = "members", ~excused', NEW u \in stayed, Invited(u)
      PROVE  u \in access' \cup named'
    <2>1. ~excused /\ named' = named \cup without
        BY <1>2 DEF Tell
    <2>2. PICK i \in 1 .. Len(permissions) : permissions[i] = u
        BY <1>1, <1>2, <2>1 DEF Accounts, Listing, OnList
    <2>3. u \in access \cup without
        BY <1>1, <1>2, <2>1, <2>2 DEF Accounts, Granting
    <2> QED BY <1>1, <2>1, <2>3
<1>3. EveryMemberAccounted' /\ Granting'
    BY <1>1, <1>2 DEF EveryMemberAccounted, Granting
<1> QED BY <1>1, <1>3 DEF Accounts, ForMembers, Listing

\* Every step keeps Accounts.
LEMMA AccountsStep ==
    TypeOK /\ NextFresh /\ Accounts /\ [Next]_vars => Accounts'
<1> SUFFICES ASSUME TypeOK, NextFresh, Accounts, [Next]_vars PROVE Accounts'
    OBVIOUS
<1> USE DEF environment, results, locals, Reply
<1>1. ASSUME NEW r \in Request, Submit(r) PROVE Accounts'
    <2>1. pc' = "check" /\ page' = 0 /\ Len(permissions') = 0
        BY <1>1 DEF Submit
    <2>2. ForMembers'
        BY <2>1 DEF ForMembers
    <2>3. Listing' /\ Granting' /\ EveryMemberAccounted'
        BY <2>1 DEF Listing, Granting, EveryMemberAccounted
    <2> QED BY <2>2, <2>3 DEF Accounts
<1>2. CASE CheckMember
    BY <1>2 DEF CheckMember, Accounts, ForMembers, Listing, Granting, EveryMemberAccounted
<1>3. CASE CreateFile
    <2>1. UNCHANGED <<request, members, stayed, page, next, excused>> /\ pc = "create"
          /\ (\/ pc' = "idle" /\ answer' = "failed"
              \/ pc' = (IF request.access = "members" THEN "list" ELSE "service"))
        BY <1>3 DEF CreateFile
    <2>2. request.access = "members" => page' = 0 /\ Len(permissions') = 0
        BY <1>3 DEF CreateFile, Accounts, ForMembers
    <2>3. ASSUME request.access = "members", NEW u \in stayed
          PROVE  ~(Rank(u, members) \div PerPage < 0)
        <3>1. u \in members
            BY DEF TypeOK
        <3>2. Rank(u, members) \in Nat
            BY <3>1, MembersFinite, RankTyped
        <3> QED BY <3>2, DivGrows, NumberAssumption
    <2>4. Listing'
        BY <2>1, <2>2, <2>3 DEF Listing
    <2>5. ForMembers'
        BY <2>1, <2>2 DEF ForMembers
    <2>6. Granting' /\ EveryMemberAccounted'
        BY <2>1 DEF Granting, EveryMemberAccounted
    <2> QED BY <2>4, <2>5, <2>6 DEF Accounts
<1>4. CASE NewDriveService
    <2>1. UNCHANGED <<request, members, stayed, permissions, page, next, access, named, without>>
          /\ pc = "service" /\ next = 0
        BY <1>4 DEF NewDriveService, NextFresh
    <2>2. (pc' = "grant" /\ UNCHANGED <<answer, excused>>) \/ (pc' = "idle" /\ excused')
        BY <1>4 DEF NewDriveService
    <2>3. ForMembers' /\ EveryMemberAccounted'
        BY <2>1, <2>2 DEF Accounts, ForMembers, EveryMemberAccounted
    <2>4. Listing'
        BY <2>1, <2>2 DEF Accounts, Listing, OnList
    <2>5. Granting'
        BY <2>1, <2>2 DEF Granting
    <2> QED BY <2>3, <2>4, <2>5 DEF Accounts
<1>5. CASE Send
    <2>1. UNCHANGED <<request, members, stayed, permissions, page, next, access, named, without,
                      excused>>
          /\ pc = "send" /\ pc' = "idle"
        BY <1>5 DEF Send
    <2> QED BY <2>1 DEF Accounts, ForMembers, Listing, Granting, EveryMemberAccounted
<1>6. CASE UNCHANGED vars
    BY <1>6 DEF vars, Accounts, ForMembers, Listing, OnList, Granting, EveryMemberAccounted
<1> QED
    BY <1>1, <1>2, <1>3, <1>4, <1>5, <1>6, JoinAccounts, LeaveAccounts, ListAccounts,
       GrantAccounts, TellAccounts DEF Next, Handle

\* "Continue through the permissions loop when we encounter an error so we can inform
\* the user who wasn't granted access" (create.go:155): for any channel, page size
\* and limit, whoever joins and leaves between any two calls and whatever Google
\* refuses, each member who stayed has access or was named to the owner.
THEOREM EveryMemberIsAccountedFor == Spec => []EveryMemberAccounted
<1>1. Init => TypeOK /\ NextFresh /\ Accounts
    <2>1. Init => Accounts
        BY DEF Init, Accounts, ForMembers, Listing, Granting, EveryMemberAccounted
    <2> QED BY <2>1, TypesInit
<1>2. TypeOK /\ NextFresh /\ Accounts /\ [Next]_vars => (TypeOK /\ NextFresh /\ Accounts)'
    BY TypesStep, AccountsStep
<1>3. Accounts => EveryMemberAccounted
    BY DEF Accounts
<1> QED BY <1>1, <1>2, <1>3, PTL DEF Spec

-----------------------------------------------------------------------------
(* Uploads and replies.                                                    *)

\* A post's files in some order: each of them once.
LEMMA SetToSeqLists ==
    ASSUME NEW S, IsFiniteSet(S)
    PROVE  /\ SetToSeq(S) \in Seq(S)
           /\ \A i, j \in 1 .. Len(SetToSeq(S)) : SetToSeq(S)[i] = SetToSeq(S)[j] => i = j
           /\ \A x \in S : \E i \in 1 .. Len(SetToSeq(S)) : SetToSeq(S)[i] = x
<1> DEFINE n == Cardinality(S)
           s == SetToSeq(S)
<1>1. n \in Nat /\ ExistsBijection(1 .. n, S)
    BY FS_CardinalityType
<1> HIDE DEF n
<1>2. \E f \in [1 .. n -> S] : IsInjective(f)
    BY <1>1 DEF ExistsBijection, Bijection, Injection
<1>3. s \in [1 .. n -> S] /\ IsInjective(s)
    BY <1>2 DEF SetToSeq, n
<1> HIDE DEF s
<1>4. s \in Injection(1 .. n, S)
    BY <1>3 DEF Injection
<1>5. Cardinality(1 .. n) = Cardinality(S)
    <2>1. Cardinality(1 .. n) = IF 1 > n THEN 0 ELSE n - 1 + 1
        BY <1>1, FS_Interval
    <2> QED BY <1>1, <2>1 DEF n
<1>6. s \in Surjection(1 .. n, S)
    BY <1>4, <1>5, FS_Injection
<1>7. s \in Seq(S) /\ Len(s) = n /\ DOMAIN s = 1 .. n
    BY <1>1, <1>3
<1>8. \A i, j \in 1 .. Len(s) : s[i] = s[j] => i = j
    BY <1>3, <1>7 DEF IsInjective
<1>9. \A x \in S : \E i \in 1 .. Len(s) : s[i] = x
    BY <1>6, <1>7 DEF Surjection
<1> QED BY <1>7, <1>8, <1>9 DEF s

OfKinds == OneFile \cup AllFiles \cup CommentReply

\* What a submission of each kind holds.
LEMMA Kinds ==
    ASSUME NEW r \in OfKinds
    PROVE  /\ r.kind \in {"one", "all", "reply"}
           /\ r.kind = "reply" => r.dialog \in Dialog
           /\ r.kind # "reply" => r.files \in SUBSET File /\ IsFiniteSet(r.files)
           /\ r.kind = "one" => r.files # {}
<1>1. r.kind # "reply" => r.files \in SUBSET File
    BY DEF OfKinds, OneFile, AllFiles, CommentReply
<1>2. r.kind # "reply" => IsFiniteSet(r.files)
    BY <1>1, UploadsAssumption, FS_Subset
<1> QED BY <1>1, <1>2 DEF OfKinds, OneFile, AllFiles, CommentReply, Dialog

-----------------------------------------------------------------------------
\* Where a request is in its handler, and that an answer ends it.
UploadPlaces ==
    /\ place = "post" => submitted.kind = "all"
    /\ place \in {"info", "create"} => submitted.kind # "reply"
    /\ place \in {"reply", "message"} => submitted.kind = "reply"
    /\ place # "idle" => response = "none"
    /\ place = "service" /\ submitted.kind = "one" => fileIDs # <<>>
    /\ place = "create" => fileIDs # <<>>

\* The reply dialogs submitted bound all that is counted of a comment; one that is
\* being answered has not been counted yet.
Answered(count) ==
    /\ \A c \in Comment : count[c] <= sent
    /\ place # "idle" /\ submitted.kind = "reply" => \A c \in Comment : count[c] + 1 <= sent
UploadCounts ==
    /\ Answered(threads) /\ Answered(half) /\ Answered(errors)
    /\ \A c \in Comment : replies[c] <= sent
    /\ place \in {"service", "reply"} /\ submitted.kind = "reply" =>
           \A c \in Comment : replies[c] + 1 <= sent

UploadTypes == UploadsTypeOK /\ UploadPlaces /\ UploadCounts

\* The types hold at the start.
LEMMA UploadTypesInit == UploadsInit => UploadTypes
<1> SUFFICES ASSUME UploadsInit PROVE UploadTypes
    OBVIOUS
<1>1. MaxRequests \in Nat
    BY UploadsAssumption
<1>2. submitted \in AllFiles
    BY DEF UploadsInit, AllFiles
<1>3. fileIDs \in Seq(File)
    BY DEF UploadsInit
<1>4. UploadsTypeOK
    BY <1>1, <1>2, <1>3 DEF UploadsInit, UploadsTypeOK, Response
<1>5. UploadPlaces
    BY DEF UploadsInit, UploadPlaces
<1>6. UploadCounts
    BY DEF UploadsInit, UploadCounts, Answered
<1> QED BY <1>4, <1>5, <1>6 DEF UploadTypes

\* One more of something.
LEMMA OneMore ==
    ASSUME NEW S, NEW count \in [S -> Nat], NEW x
    PROVE  /\ [count EXCEPT ![x] = @ + 1] \in [S -> Nat]
           /\ \A s \in S :
                 [count EXCEPT ![x] = @ + 1][s] = IF s = x THEN count[s] + 1 ELSE count[s]
<1> DEFINE more == [count EXCEPT ![x] = @ + 1]
<1>1. DOMAIN more = S /\ more = [s \in S |-> more[s]]
    OBVIOUS
<1>2. \A s \in S : more[s] = IF s = x THEN count[s] + 1 ELSE count[s]
    OBVIOUS
<1> HIDE DEF more
<1>3. \A s \in S : more[s] \in Nat
    BY <1>2
<1>4. more \in [S -> Nat]
    BY <1>1, <1>3
<1> QED BY <1>2, <1>4 DEF more

\* A tally may grow by one where it is below the bound.
LEMMA OneMoreAnswered ==
    ASSUME NEW n \in 0 .. MaxRequests, NEW count \in [Comment -> 0 .. MaxRequests], NEW x,
           \A c \in Comment : count[c] + 1 <= n
    PROVE  /\ [count EXCEPT ![x] = @ + 1] \in [Comment -> 0 .. MaxRequests]
           /\ \A c \in Comment : [count EXCEPT ![x] = @ + 1][c] <= n
<1>1. count \in [Comment -> Nat] /\ n \in Nat /\ MaxRequests \in Nat /\ n <= MaxRequests
    BY UploadsAssumption
<1> DEFINE more == [count EXCEPT ![x] = @ + 1]
<1>2. more \in [Comment -> Nat]
      /\ \A c \in Comment : more[c] = IF c = x THEN count[c] + 1 ELSE count[c]
    BY <1>1, OneMore
<1> HIDE DEF more
<1>3. \A c \in Comment : more[c] <= n /\ more[c] \in 0 .. MaxRequests
    BY <1>1, <1>2
<1> QED BY <1>2, <1>3 DEF more

\* What an answer counts: a reply's "half" and "failed" for its comment.
LEMMA Responds ==
    ASSUME UploadTypes, NEW r \in {"", "failed", "half"}, Respond(r), place # "idle"
    PROVE  /\ place' = "idle" /\ response' = r /\ sent' = sent
           /\ half' \in [Comment -> 0 .. MaxRequests] /\ errors' \in [Comment -> 0 .. MaxRequests]
           /\ \A c \in Comment : half'[c] <= sent /\ errors'[c] <= sent
           /\ \A c \in Comment :
                 half'[c] = IF submitted.kind = "reply" /\ r = "half"
                               /\ c = submitted.dialog.comment
                            THEN half[c] + 1 ELSE half[c]
           /\ \A c \in Comment :
                 errors'[c] = IF submitted.kind = "reply" /\ r = "failed"
                                 /\ c = submitted.dialog.comment
                              THEN errors[c] + 1 ELSE errors[c]
<1>1. place' = "idle" /\ response' = r /\ sent' = sent
    BY DEF Respond
<1>2. sent \in 0 .. MaxRequests /\ MaxRequests \in Nat
      /\ half \in [Comment -> 0 .. MaxRequests] /\ errors \in [Comment -> 0 .. MaxRequests]
    BY UploadsAssumption DEF UploadTypes, UploadsTypeOK
<1>3. CASE submitted.kind = "reply" /\ r = "half"
    <2>1. half' = [half EXCEPT ![submitted.dialog.comment] = @ + 1] /\ errors' = errors
        BY <1>3 DEF Respond
    <2>2. \A c \in Comment : half[c] + 1 <= sent /\ errors[c] <= sent
        BY <1>3 DEF UploadTypes, UploadCounts, Answered
    <2>3. \A c \in Comment :
             half'[c] = IF c = submitted.dialog.comment THEN half[c] + 1 ELSE half[c]
        BY <1>2, <2>1
    <2>4. half' \in [Comment -> 0 .. MaxRequests] /\ \A c \in Comment : half'[c] <= sent
        BY <1>2, <2>1, <2>2, OneMoreAnswered
    <2> QED BY <1>1, <1>2, <1>3, <2>1, <2>2, <2>3, <2>4
<1>4. CASE submitted.kind = "reply" /\ r = "failed"
    <2>1. errors' = [errors EXCEPT ![submitted.dialog.comment] = @ + 1] /\ half' = half
        BY <1>4 DEF Respond
    <2>2. \A c \in Comment : errors[c] + 1 <= sent /\ half[c] <= sent
        BY <1>4 DEF UploadTypes, UploadCounts, Answered
    <2>3. \A c \in Comment :
             errors'[c] = IF c = submitted.dialog.comment THEN errors[c] + 1 ELSE errors[c]
        BY <1>2, <2>1
    <2>4. errors' \in [Comment -> 0 .. MaxRequests] /\ \A c \in Comment : errors'[c] <= sent
        BY <1>2, <2>1, <2>2, OneMoreAnswered
    <2> QED BY <1>1, <1>2, <1>4, <2>1, <2>2, <2>3, <2>4
<1>5. CASE ~(submitted.kind = "reply" /\ r \in {"half", "failed"})
    <2>1. half' = half /\ errors' = errors
        BY <1>5 DEF Respond
    <2>2. \A c \in Comment : half[c] <= sent /\ errors[c] <= sent
        BY DEF UploadTypes, UploadCounts, Answered
    <2> QED BY <1>1, <1>2, <1>5, <2>1, <2>2
<1> QED BY <1>3, <1>4, <1>5

\* The types after an answer, whose other effects are what it is told.
LEMMA RespondTypes ==
    ASSUME UploadTypes, NEW r \in {"", "failed", "half"}, Respond(r), place # "idle",
           stored' \in [File -> Nat], replies' \in [Comment -> 0 .. MaxRequests],
           threads' \in [Comment -> 0 .. MaxRequests],
           \A c \in Comment : replies'[c] <= sent /\ threads'[c] <= sent,
           dialogs' \subseteq Dialog, fileIDs' \in Seq(File), submitted' = submitted
    PROVE  UploadTypes'
<1>1. UploadsTypeOK'
    BY Responds DEF UploadTypes, UploadsTypeOK, Response
<1>2. UploadPlaces' /\ UploadCounts'
    BY Responds DEF UploadPlaces, UploadCounts, Answered
<1> QED BY <1>1, <1>2 DEF UploadTypes

\* The types after a step to another place, which counts no answer.
LEMMA GotoTypes ==
    ASSUME UploadTypes, NEW label \in {"post", "service", "info", "create", "reply", "message"},
           Goto(label), place # "idle",
           stored' \in [File -> Nat],
           UNCHANGED <<replies, threads, dialogs, submitted>>, fileIDs' \in Seq(File),
           label \in {"service", "reply"} /\ submitted.kind = "reply" => place = "service",
           UploadPlaces'
    PROVE  UploadTypes'
<1>1. UploadsTypeOK'
    BY DEF Goto, history, UploadTypes, UploadsTypeOK
<1>2. UploadCounts'
    BY DEF Goto, history, UploadTypes, UploadCounts, Answered
<1> QED BY <1>1, <1>2 DEF UploadTypes

\* Every step keeps the types.
LEMMA UploadTypesStep == UploadTypes /\ [UploadsNext]_uploadVars => UploadTypes'
<1> SUFFICES ASSUME UploadTypes, [UploadsNext]_uploadVars PROVE UploadTypes'
    OBVIOUS
<1> USE DEF drive, mattermost
<1>a. /\ sent \in 0 .. MaxRequests /\ MaxRequests \in Nat
      /\ stored \in [File -> Nat] /\ fileIDs \in Seq(File) /\ dialogs \subseteq Dialog
      /\ replies \in [Comment -> 0 .. MaxRequests] /\ threads \in [Comment -> 0 .. MaxRequests]
      /\ half \in [Comment -> 0 .. MaxRequests] /\ errors \in [Comment -> 0 .. MaxRequests]
      /\ submitted \in OfKinds /\ UploadPlaces /\ UploadCounts
    BY UploadsAssumption DEF UploadTypes, UploadsTypeOK, OfKinds
<1>b. \A c \in Comment : threads[c] <= sent /\ replies[c] <= sent
    BY <1>a DEF UploadCounts, Answered
<1>1. ASSUME NEW c \in Comment, OpenReplyDialog(c) PROVE UploadTypes'
    <2>1. [comment |-> c, root |-> c] \in Dialog
        BY DEF Dialog
    <2> QED BY <1>1, <2>1
            DEF OpenReplyDialog, history, UploadTypes, UploadsTypeOK, UploadPlaces, UploadCounts,
                Answered
<1>2. ASSUME NEW r \in OfKinds, SubmitDialog(r) PROVE UploadTypes'
    <2>1. fileIDs' \in Seq(File) /\ (r.kind = "one" => fileIDs' # <<>>)
        <3>1. CASE r.kind = "one"
            <4>1. SetToSeq(r.files) \in Seq(r.files) /\ r.files \in SUBSET File
                  /\ \E x \in r.files : TRUE
                BY <3>1, Kinds, SetToSeqLists
            <4>2. SetToSeq(r.files) # <<>>
                BY <3>1, <4>1, Kinds, SetToSeqLists
            <4>3. SetToSeq(r.files) \in Seq(File)
                BY <4>1
            <4> QED BY <1>2, <3>1, <4>2, <4>3 DEF SubmitDialog
        <3> QED BY <1>2, <3>1 DEF SubmitDialog
    <2>2. stored' \in [File -> Nat] /\ submitted' = r /\ response' = "none"
          /\ UNCHANGED <<replies, threads, dialogs, half, errors>>
        BY <1>2 DEF SubmitDialog
    <2>3. sent' = (IF r.kind = "reply" THEN sent + 1 ELSE sent) /\ sent' \in 0 .. MaxRequests
        BY <1>2, <1>a DEF SubmitDialog
    <2>4. place' \in {"post", "info", "service"}
          /\ (place' = "service" <=> r.kind = "reply")
          /\ (place' = "post" <=> r.kind = "all")
        BY <1>2, Kinds DEF SubmitDialog
    <2>5. UploadsTypeOK'
        BY <1>a, <2>1, <2>2, <2>3, <2>4 DEF UploadsTypeOK, Response, OfKinds
    <2>6. UploadPlaces'
        BY <2>1, <2>2, <2>4 DEF UploadPlaces
    <2>7. UploadCounts'
        BY <1>a, <2>2, <2>3, <2>4 DEF UploadCounts, Answered
    <2> QED BY <2>5, <2>6, <2>7 DEF UploadTypes
<1>3. CASE GetPost
    <2>0. place = "post" /\ submitted.kind # "reply"
        BY <1>3, <1>a DEF GetPost, UploadPlaces
    <2>1. CASE Goto("service") /\ fileIDs' = SetToSeq(submitted.files)
        <3>1. SetToSeq(submitted.files) \in Seq(submitted.files)
              /\ submitted.files \in SUBSET File
            BY <1>a, <2>0, Kinds, SetToSeqLists
        <3>2. fileIDs' \in Seq(File)
            BY <2>1, <3>1
        <3>3. UploadPlaces'
            BY <2>0, <2>1, <1>3, <1>a DEF UploadPlaces, Goto, GetPost
        <3> QED BY <1>3, <2>0, <2>1, <1>a, <3>2, <3>3, GotoTypes DEF GetPost
    <2>2. CASE Breaks("mattermost") /\ UNCHANGED fileIDs
        BY <1>3, <2>0, <2>2, <1>a, <1>b, RespondTypes DEF GetPost, Breaks
    <2> QED BY <1>3, <2>1, <2>2 DEF GetPost
<1>4. CASE GetDriveService
    <2>0. place = "service" /\ UNCHANGED <<stored, replies, threads, dialogs, fileIDs, submitted>>
        BY <1>4 DEF GetDriveService
    <2> DEFINE label == CASE submitted.kind = "one" -> "create"
                          [] submitted.kind = "all" -> "info"
                          [] submitted.kind = "reply" -> "reply"
    <2>1. CASE Goto(label)
        <3>1. /\ label \in {"create", "info", "reply"}
              /\ label = "reply" <=> submitted.kind = "reply"
              /\ label = "create" <=> submitted.kind = "one"
            BY <1>a, Kinds
        <3> HIDE DEF label
        <3>2. UploadPlaces'
            BY <2>0, <2>1, <3>1, <1>a DEF UploadPlaces, Goto
        <3> QED BY <2>0, <2>1, <1>a, <3>1, <3>2, GotoTypes
    <2>2. CASE Breaks("google")
        BY <2>0, <2>2, <1>a, <1>b, RespondTypes DEF Breaks
    <2> QED BY <1>4, <2>1, <2>2 DEF GetDriveService
<1>5. CASE GetFile
    <2>0. place = "info" /\ UNCHANGED <<stored, replies, threads, dialogs, fileIDs, submitted>>
          /\ submitted.kind # "reply"
        BY <1>5, <1>a DEF GetFile, UploadPlaces
    <2> DEFINE label == IF submitted.kind = "one" THEN "service" ELSE "create"
    <2>1. CASE fileIDs # <<>> /\ Goto(label)
        <3>1. UploadPlaces'
            BY <2>0, <2>1, <1>a DEF UploadPlaces, Goto
        <3> QED BY <2>0, <2>1, <1>a, <3>1, GotoTypes
    <2>2. ASSUME NEW r \in {"", "failed"}, Respond(r) PROVE UploadTypes'
        BY <2>0, <2>2, <1>a, <1>b, RespondTypes
    <2> QED BY <1>5, <2>1, <2>2 DEF GetFile, Breaks
<1>6. CASE CreateDriveFile
    <2>0. place = "create" /\ UNCHANGED <<replies, threads, dialogs, submitted>>
          /\ submitted.kind # "reply" /\ fileIDs # <<>>
        BY <1>6, <1>a DEF CreateDriveFile, UploadPlaces
    <2>1. stored' \in [File -> Nat]
        <3>1. Store \/ UNCHANGED stored
            BY <1>6 DEF CreateDriveFile
        <3>2. ASSUME Store PROVE stored' \in [File -> Nat]
            BY <1>a, <3>2, OneMore DEF Store
        <3> QED BY <1>a, <3>1, <3>2
    <2>2. CASE Goto("info") /\ fileIDs' = Tail(fileIDs)
        <3>1. UploadPlaces'
            BY <2>0, <2>2, <1>a DEF UploadPlaces, Goto
        <3>2. fileIDs' \in Seq(File)
            BY <2>0, <2>2, <1>a
        <3> QED BY <2>0, <2>1, <2>2, <3>1, <3>2, GotoTypes
    <2>3. CASE Breaks("google") /\ UNCHANGED fileIDs
        BY <2>0, <2>1, <2>3, <1>a, <1>b, RespondTypes DEF Breaks
    <2> QED BY <1>6, <2>2, <2>3 DEF CreateDriveFile
<1>7. CASE CreateReply
    <2>0. place = "reply" /\ UNCHANGED <<stored, threads, dialogs, fileIDs, submitted>>
          /\ submitted.kind = "reply"
        BY <1>7, <1>a DEF CreateReply, UploadPlaces
    <2>1. \A c \in Comment : replies[c] + 1 <= sent
        BY <2>0, <1>a DEF UploadCounts
    <2>2. replies' \in [Comment -> 0 .. MaxRequests] /\ \A c \in Comment : replies'[c] <= sent
        <3>1. AddReply \/ UNCHANGED replies
            BY <1>7 DEF CreateReply
        <3>2. ASSUME AddReply
              PROVE  replies' \in [Comment -> 0 .. MaxRequests]
                     /\ \A c \in Comment : replies'[c] <= sent
            BY <1>a, <2>1, <3>2, OneMoreAnswered DEF AddReply
        <3> QED BY <1>a, <1>b, <3>1, <3>2
    <2>3. CASE Goto("message")
        <3>1. UploadsTypeOK'
            BY <2>0, <2>2, <2>3, <1>a
               DEF Goto, history, UploadTypes, UploadsTypeOK, OfKinds
        <3>2. UploadPlaces'
            BY <2>0, <2>3, <1>a DEF UploadPlaces, Goto
        <3>3. UploadCounts'
            BY <2>0, <2>2, <2>3, <1>a DEF UploadCounts, Answered, Goto, history
        <3> QED BY <3>1, <3>2, <3>3 DEF UploadTypes
    <2>4. CASE Breaks("google")
        BY <2>0, <2>2, <2>4, <1>a, <1>b, RespondTypes DEF Breaks
    <2> QED BY <1>7, <2>3, <2>4 DEF CreateReply
<1>8. CASE CreatePost
    <2>0. place = "message" /\ UNCHANGED <<stored, replies, fileIDs, submitted>>
          /\ submitted.kind = "reply"
        BY <1>8, <1>a DEF CreatePost, UploadPlaces
    <2>1. \A c \in Comment : threads[c] + 1 <= sent
        BY <2>0, <1>a DEF UploadCounts, Answered
    <2>2. CASE /\ threads' = [threads EXCEPT ![submitted.dialog.root] = @ + 1]
               /\ Respond("") /\ dialogs' = dialogs \ {submitted.dialog}
        <3>1. threads' \in [Comment -> 0 .. MaxRequests]
              /\ \A c \in Comment : threads'[c] <= sent
            BY <2>1, <2>2, <1>a, OneMoreAnswered
        <3> QED BY <2>0, <2>2, <3>1, <1>a, <1>b, RespondTypes
    <2>3. CASE Respond("half") /\ UNCHANGED mattermost
        BY <2>0, <2>3, <1>a, <1>b, RespondTypes
    <2> QED BY <1>8, <2>2, <2>3 DEF CreatePost
<1>9. CASE UNCHANGED uploadVars
    BY <1>9 DEF uploadVars, UploadTypes, UploadsTypeOK, UploadPlaces, UploadCounts, Answered
<1> QED
    BY <1>1, <1>2, <1>3, <1>4, <1>5, <1>6, <1>7, <1>8, <1>9 DEF UploadsNext, OfKinds

\* The types of Uploads (server/plugin/api.go): no count of a comment passes the
\* replies that were sent.
THEOREM UploadsTypes == UploadsSpec => []UploadsTypeOK
<1>1. UploadTypes => UploadsTypeOK
    BY DEF UploadTypes
<1> QED BY <1>1, UploadTypesInit, UploadTypesStep, PTL DEF UploadsSpec

-----------------------------------------------------------------------------
(* All files, and each once.                                               *)

Left(f) == \E i \in 1 .. Len(fileIDs) : fileIDs[i] = f

\* In the loop, exactly the files no longer in the list have been stored, and no file
\* is in it twice; before the post is read, none is stored.
FilesApart ==
    submitted.kind # "reply" /\ place # "idle" =>
        /\ \A i, j \in 1 .. Len(fileIDs) : fileIDs[i] = fileIDs[j] => i = j
        /\ \A f \in File : Left(f) => stored[f] = 0 /\ f \in submitted.files
        /\ IF place = "post" THEN \A f \in File : stored[f] = 0
           ELSE \A f \in submitted.files : ~Left(f) => stored[f] = 1
UploadFiles == FilesApart /\ UploadedMeansAll

\* What is left when the first of the files has been dealt with.
LEMMA TailLeaves ==
    ASSUME fileIDs \in Seq(File), fileIDs # <<>>, fileIDs' = Tail(fileIDs),
           \A i, j \in 1 .. Len(fileIDs) : fileIDs[i] = fileIDs[j] => i = j
    PROVE  /\ Left(Head(fileIDs)) /\ Head(fileIDs) \in File
           /\ \A i, j \in 1 .. Len(fileIDs') : fileIDs'[i] = fileIDs'[j] => i = j
           /\ \A f : Left(f)' <=> Left(f) /\ f # Head(fileIDs)
<1>1. /\ Len(fileIDs) \in Nat \ {0} /\ Head(fileIDs) = fileIDs[1]
      /\ Len(fileIDs') = Len(fileIDs) - 1
      /\ \A i \in 1 .. Len(fileIDs') : fileIDs'[i] = fileIDs[i + 1]
    OBVIOUS
<1>2. Left(Head(fileIDs)) /\ Head(fileIDs) \in File
    BY <1>1 DEF Left
<1>3. \A i, j \in 1 .. Len(fileIDs') : fileIDs'[i] = fileIDs'[j] => i = j
    BY <1>1
<1>4. ASSUME NEW f, Left(f)' PROVE Left(f) /\ f # Head(fileIDs)
    <2>1. PICK i \in 1 .. Len(fileIDs') : fileIDs'[i] = f
        BY <1>4 DEF Left
    <2>2. i + 1 \in 1 .. Len(fileIDs) /\ fileIDs[i + 1] = f /\ i + 1 # 1
        BY <1>1, <2>1
    <2>3. 1 \in 1 .. Len(fileIDs)
        BY <1>1
    <2> QED BY <1>1, <2>2, <2>3 DEF Left
<1>5. ASSUME NEW f, Left(f), f # Head(fileIDs) PROVE Left(f)'
    <2>1. PICK i \in 1 .. Len(fileIDs) : fileIDs[i] = f
        BY <1>5 DEF Left
    <2>2. i - 1 \in 1 .. Len(fileIDs') /\ fileIDs'[i - 1] = fileIDs[(i - 1) + 1]
        BY <1>1, <1>5, <2>1
    <2>3. (i - 1) + 1 = i
        BY <2>1
    <2> QED BY <2>1, <2>2, <2>3 DEF Left
<1> QED BY <1>2, <1>3, <1>4, <1>5

\* Every step keeps UploadFiles.
LEMMA UploadFilesStep ==
    UploadTypes /\ UploadFiles /\ [UploadsNext]_uploadVars => UploadFiles'
<1> SUFFICES ASSUME UploadTypes, UploadFiles, [UploadsNext]_uploadVars PROVE UploadFiles'
    OBVIOUS
<1> USE DEF drive, mattermost, history
<1>a. /\ stored \in [File -> Nat] /\ fileIDs \in Seq(File)
      /\ submitted \in OfKinds /\ UploadPlaces
    BY DEF UploadTypes, UploadsTypeOK, OfKinds
\* A step that ends the request with an error, or is about a reply, or about no request.
<1>b. ASSUME UNCHANGED <<stored, submitted>>,
             (place' = "idle" /\ response' # "") \/ UNCHANGED <<place, response, fileIDs>>
      PROVE  UploadFiles'
    BY <1>b DEF UploadFiles, FilesApart, UploadedMeansAll, Left
<1>c. ASSUME submitted.kind = "reply", submitted' = submitted PROVE UploadFiles'
    BY <1>c DEF UploadFiles, FilesApart, UploadedMeansAll
\* A step to another place of the loop.
<1>d. ASSUME UNCHANGED <<stored, submitted, fileIDs, response>>,
             place \notin {"idle", "post"}, place' \notin {"idle", "post"}
      PROVE  UploadFiles'
    BY <1>d DEF UploadFiles, FilesApart, UploadedMeansAll, Left
<1>1. ASSUME NEW c \in Comment, OpenReplyDialog(c) PROVE UploadFiles'
    BY <1>1, <1>b DEF OpenReplyDialog
<1>2. ASSUME NEW r \in OfKinds, SubmitDialog(r) PROVE UploadFiles'
    <2>1. stored' = [f \in File |-> 0] /\ submitted' = r /\ response' = "none"
          /\ (place' = "post" <=> r.kind = "all")
          /\ fileIDs' = (IF r.kind = "one" THEN SetToSeq(r.files) ELSE <<>>)
        BY <1>2, Kinds DEF SubmitDialog
    <2>2. UploadedMeansAll'
        BY <2>1, Kinds DEF UploadedMeansAll
    <2>3. CASE r.kind = "one"
        <3>1. /\ SetToSeq(r.files) \in Seq(r.files)
              /\ \A i, j \in 1 .. Len(SetToSeq(r.files)) :
                     SetToSeq(r.files)[i] = SetToSeq(r.files)[j] => i = j
              /\ \A x \in r.files : \E i \in 1 .. Len(SetToSeq(r.files)) :
                     SetToSeq(r.files)[i] = x
            BY <2>3, Kinds, SetToSeqLists
        <3>2. \A f \in File : Left(f)' => f \in r.files
            BY <2>1, <2>3, <3>1 DEF Left
        <3>3. \A f \in r.files : Left(f)'
            BY <2>1, <2>3, <3>1 DEF Left
        <3>4. FilesApart'
            BY <2>1, <2>3, <3>1, <3>2, <3>3, Kinds DEF FilesApart
        <3> QED BY <2>2, <3>4 DEF UploadFiles
    <2>4. CASE r.kind # "one"
        <3>1. Len(fileIDs') = 0
            BY <2>1, <2>4
        <3>2. \A f : ~Left(f)'
            BY <3>1 DEF Left
        <3>3. r.kind # "reply" => place' = "post"
            BY <2>1, <2>4, Kinds
        <3>4. FilesApart'
            BY <2>1, <3>1, <3>2, <3>3 DEF FilesApart
        <3> QED BY <2>2, <3>4 DEF UploadFiles
    <2> QED BY <2>3, <2>4
<1>3. CASE GetPost
    <2>0. place = "post" /\ UNCHANGED <<stored, submitted>> /\ submitted.kind = "all"
        BY <1>3, <1>a DEF GetPost, UploadPlaces
    <2>1. CASE Goto("service") /\ fileIDs' = SetToSeq(submitted.files)
        <3> DEFINE ids == SetToSeq(submitted.files)
        <3>1. /\ ids \in Seq(submitted.files) /\ submitted.files \in SUBSET File
              /\ \A i, j \in 1 .. Len(ids) : ids[i] = ids[j] => i = j
              /\ \A x \in submitted.files : \E i \in 1 .. Len(ids) : ids[i] = x
            BY <1>a, <2>0, Kinds, SetToSeqLists
        <3>2. fileIDs' = ids
            BY <2>1
        <3> HIDE DEF ids
        <3>3. \A f \in File : Left(f)' => f \in submitted.files
            BY <3>1, <3>2 DEF Left
        <3>4. \A f \in submitted.files : Left(f)'
            BY <3>1, <3>2 DEF Left
        <3>5. \A f \in File : stored[f] = 0
            BY <2>0 DEF UploadFiles, FilesApart
        <3>6. FilesApart'
            BY <2>0, <2>1, <3>1, <3>2, <3>3, <3>4, <3>5 DEF FilesApart, Goto
        <3> QED BY <2>0, <2>1, <3>6 DEF UploadFiles, UploadedMeansAll, Goto
    <2>2. CASE Breaks("mattermost")
        BY <1>b, <2>0, <2>2 DEF Breaks, Respond
    <2> QED BY <1>3, <2>1, <2>2 DEF GetPost
<1>4. CASE GetDriveService
    <2>0. place = "service" /\ UNCHANGED <<stored, fileIDs, submitted>>
        BY <1>4 DEF GetDriveService
    <2>1. ASSUME NEW label \in {"create", "info", "reply"}, Goto(label) PROVE UploadFiles'
        BY <1>d, <2>0, <2>1 DEF Goto
    <2>2. CASE Breaks("google")
        BY <1>b, <2>0, <2>2 DEF Breaks, Respond
    <2>3. submitted.kind \in {"one", "all", "reply"}
        BY <1>a, Kinds
    <2> QED BY <1>4, <2>1, <2>2, <2>3 DEF GetDriveService
<1>5. CASE GetFile
    <2>0. place = "info" /\ UNCHANGED <<stored, fileIDs, submitted>> /\ submitted.kind # "reply"
        BY <1>5, <1>a DEF GetFile, UploadPlaces
    <2>1. ASSUME NEW label \in {"service", "create"}, Goto(label) PROVE UploadFiles'
        BY <1>d, <2>0, <2>1 DEF Goto
    <2>2. CASE Breaks("mattermost")
        BY <1>b, <2>0, <2>2 DEF Breaks, Respond
    <2>3. CASE fileIDs = <<>> /\ Respond("")
        <3>1. \A f : ~Left(f)
            <4>1. Len(fileIDs) = 0
                BY <2>3
            <4> QED BY <4>1 DEF Left
        <3>2. \A f \in submitted.files : stored[f] = 1
            BY <2>0, <3>1 DEF UploadFiles, FilesApart
        <3> QED BY <2>0, <2>3, <3>2 DEF UploadFiles, FilesApart, UploadedMeansAll, Respond
    <2> QED BY <1>5, <2>1, <2>2, <2>3 DEF GetFile
<1>6. CASE CreateDriveFile
    <2>0. place = "create" /\ UNCHANGED submitted /\ submitted.kind # "reply"
          /\ fileIDs # <<>> /\ response = "none"
        BY <1>6, <1>a DEF CreateDriveFile, UploadPlaces
    <2>1. /\ \A i, j \in 1 .. Len(fileIDs) : fileIDs[i] = fileIDs[j] => i = j
          /\ \A f \in File : Left(f) => stored[f] = 0 /\ f \in submitted.files
          /\ \A f \in submitted.files : ~Left(f) => stored[f] = 1
        BY <2>0 DEF UploadFiles, FilesApart
    <2>2. Left(Head(fileIDs)) /\ Head(fileIDs) \in File
        BY <1>a, <2>0 DEF Left
    <2>3. ASSUME Store
          PROVE  \A f \in File :
                    stored'[f] = IF f = Head(fileIDs) THEN 1 ELSE stored[f]
        BY <1>a, <2>1, <2>2, <2>3, OneMore DEF Store
    <2>4. submitted.files \in SUBSET File
        BY <1>a, <2>0, Kinds
    <2>5. ASSUME Store \/ UNCHANGED stored
          PROVE  \A f \in File : stored'[f] <= (IF f \in submitted.files THEN 1 ELSE 0)
        BY <1>a, <2>0, <2>1, <2>2, <2>3, <2>5 DEF UploadFiles, UploadedMeansAll
    <2>6. CASE Store /\ Goto("info") /\ fileIDs' = Tail(fileIDs)
        <3>1. /\ \A i, j \in 1 .. Len(fileIDs') : fileIDs'[i] = fileIDs'[j] => i = j
              /\ \A f : Left(f)' <=> Left(f) /\ f # Head(fileIDs)
            BY <1>a, <2>0, <2>1, <2>6, TailLeaves
        <3>2. \A f \in File : Left(f)' => stored'[f] = 0 /\ f \in submitted.files
            BY <2>1, <2>3, <2>6, <3>1
        <3>3. \A f \in submitted.files : ~Left(f)' => stored'[f] = 1
            BY <2>1, <2>3, <2>4, <2>6, <3>1
        <3>4. FilesApart'
            BY <2>0, <2>6, <3>1, <3>2, <3>3 DEF FilesApart, Goto
        <3> QED BY <2>0, <2>5, <2>6, <3>4 DEF UploadFiles, UploadedMeansAll, Goto
    <2>7. CASE Breaks("google") /\ (Store \/ UNCHANGED stored)
        BY <2>0, <2>5, <2>7 DEF UploadFiles, FilesApart, UploadedMeansAll, Breaks, Respond
    <2> QED BY <1>6, <2>6, <2>7 DEF CreateDriveFile
<1>7. CASE CreateReply
    BY <1>7, <1>a, <1>c DEF CreateReply, UploadPlaces
<1>8. CASE CreatePost
    BY <1>8, <1>a, <1>c DEF CreatePost, UploadPlaces
<1>9. CASE UNCHANGED uploadVars
    BY <1>9, <1>b DEF uploadVars
<1> QED
    BY <1>1, <1>2, <1>3, <1>4, <1>5, <1>6, <1>7, <1>8, <1>9 DEF UploadsNext, OfKinds

\* "Successfully uploaded all files in Google Drive." (api.go:947): for any number of
\* files, whatever fails and however often the user tries again, it is said only when
\* each is there, and no request stores one twice.
THEOREM UploadedIsAll == UploadsSpec => []UploadedMeansAll
<1>1. UploadsInit => UploadTypes /\ UploadFiles
    <2>1. UploadsInit => UploadFiles
        BY DEF UploadsInit, UploadFiles, FilesApart, UploadedMeansAll
    <2> QED BY <2>1, UploadTypesInit
<1>2. UploadTypes /\ UploadFiles /\ [UploadsNext]_uploadVars => (UploadTypes /\ UploadFiles)'
    BY UploadTypesStep, UploadFilesStep
<1>3. UploadFiles => UploadedMeansAll
    BY DEF UploadFiles
<1> QED BY <1>1, <1>2, <1>3, PTL DEF UploadsSpec

-----------------------------------------------------------------------------
(* Every reply is accounted for.                                           *)

\* A dialog's State is the post of its own comment.
OwnThreads ==
    /\ \A d \in dialogs : d.root = d.comment
    /\ submitted.kind = "reply" => submitted.dialog.root = submitted.dialog.comment

\* Between CreateReply and CreatePost the reply is at Google and not yet told of.
Pending(c) == place = "message" /\ c = submitted.dialog.comment
ReplyTally ==
    \A c \in Comment :
        /\ Pending(c) => threads[c] + half[c] + 1 <= replies[c]
        /\ threads[c] + half[c] <= replies[c]
        /\ replies[c] <= threads[c] + half[c] + errors[c] + (IF Pending(c) THEN 1 ELSE 0)

\* Every step keeps ReplyTally.
LEMMA ReplyTallyStep ==
    UploadTypes /\ OwnThreads /\ ReplyTally /\ [UploadsNext]_uploadVars
        => OwnThreads' /\ ReplyTally'
<1> SUFFICES ASSUME UploadTypes, OwnThreads, ReplyTally, [UploadsNext]_uploadVars
             PROVE  OwnThreads' /\ ReplyTally'
    OBVIOUS
<1> USE DEF drive, mattermost, history
<1>a. /\ submitted \in OfKinds /\ UploadPlaces /\ dialogs \subseteq Dialog
      /\ replies \in [Comment -> Nat] /\ threads \in [Comment -> Nat]
      /\ half \in [Comment -> Nat] /\ errors \in [Comment -> Nat]
    BY UploadsAssumption DEF UploadTypes, UploadsTypeOK, OfKinds
\* A step outside the handler of replies, or one of it that posts and adds nothing.
<1>b. ASSUME UNCHANGED <<replies, threads, half, errors>>, place # "message", place' # "message"
      PROVE  ReplyTally'
    BY <1>b DEF ReplyTally, Pending
<1>c. ASSUME UNCHANGED <<replies, threads>>, place # "message", place # "idle", Respond("failed")
      PROVE  ReplyTally'
    <2>1. \A c \in Comment : half'[c] = half[c] /\ errors'[c] \in {errors[c], errors[c] + 1}
        BY <1>c, Responds
    <2>2. place' = "idle"
        BY <1>c DEF Respond
    <2> QED BY <1>a, <1>c, <2>1, <2>2 DEF ReplyTally, Pending
<1>d. ASSUME UNCHANGED <<dialogs, submitted>> PROVE OwnThreads'
    BY <1>d DEF OwnThreads
<1>1. ASSUME NEW c \in Comment, OpenReplyDialog(c) PROVE OwnThreads' /\ ReplyTally'
    BY <1>1 DEF OpenReplyDialog, OwnThreads, ReplyTally, Pending
<1>2. ASSUME NEW r \in OfKinds, SubmitDialog(r) PROVE OwnThreads' /\ ReplyTally'
    <2>1. UNCHANGED <<replies, threads, half, errors, dialogs>> /\ place = "idle"
          /\ place' # "message" /\ submitted' = r
          /\ (r.kind = "reply" => r.dialog \in dialogs)
        BY <1>2, Kinds DEF SubmitDialog
    <2> QED BY <1>b, <2>1 DEF OwnThreads
<1>3. CASE GetPost
    <2>1. /\ UNCHANGED <<replies, threads, dialogs, submitted>> /\ place = "post"
          /\ Goto("service") \/ Respond("failed")
        BY <1>3 DEF GetPost, Breaks
    <2> QED BY <1>b, <1>c, <1>d, <2>1 DEF Goto
<1>4. CASE GetDriveService
    <2>1. /\ UNCHANGED <<replies, threads, dialogs, submitted>> /\ place = "service"
          /\ (\E label \in {"create", "info", "reply"} : Goto(label)) \/ Respond("failed")
        BY <1>4, <1>a, Kinds DEF GetDriveService, Breaks
    <2> QED BY <1>b, <1>c, <1>d, <2>1 DEF Goto
<1>5. CASE GetFile
    <2>1. /\ UNCHANGED <<replies, threads, dialogs, submitted>> /\ place = "info"
          /\ submitted.kind # "reply"
          /\ \/ \E label \in {"service", "create"} : Goto(label)
             \/ Respond("failed")
             \/ Respond("")
        BY <1>5, <1>a DEF GetFile, Breaks, UploadPlaces
    <2>2. ASSUME Respond("") PROVE UNCHANGED <<half, errors>> /\ place' = "idle"
        BY <2>2 DEF Respond
    <2> QED BY <1>b, <1>c, <1>d, <2>1, <2>2 DEF Goto
<1>6. CASE CreateDriveFile
    <2>1. /\ UNCHANGED <<replies, threads, dialogs, submitted>> /\ place = "create"
          /\ Goto("info") \/ Respond("failed")
        BY <1>6 DEF CreateDriveFile, Breaks
    <2> QED BY <1>b, <1>c, <1>d, <2>1 DEF Goto
<1>7. CASE CreateReply
    <2>0. UNCHANGED <<threads, dialogs, submitted>> /\ place = "reply"
          /\ submitted.kind = "reply"
        BY <1>7, <1>a DEF CreateReply, UploadPlaces
    <2> DEFINE comment == submitted.dialog.comment
    <2>1. ASSUME AddReply
          PROVE  \A c \in Comment :
                    replies'[c] = IF c = comment THEN replies[c] + 1 ELSE replies[c]
        BY <1>a, <2>1, OneMore DEF AddReply
    <2> HIDE DEF comment
    <2>2. CASE AddReply /\ Goto("message")
        <3>1. \A c \in Comment : ~Pending(c) /\ (Pending(c)' <=> c = comment)
            BY <2>0, <2>2 DEF Pending, Goto, comment
        <3>2. UNCHANGED <<half, errors>>
            BY <2>2 DEF Goto
        <3> QED BY <1>a, <1>d, <2>0, <2>1, <2>2, <3>1, <3>2 DEF ReplyTally
    <2>3. CASE Respond("failed") /\ (AddReply \/ UNCHANGED replies)
        <3>1. \A c \in Comment :
                 /\ half'[c] = half[c]
                 /\ errors'[c] = IF c = comment THEN errors[c] + 1 ELSE errors[c]
            BY <2>0, <2>3, Responds DEF comment
        <3>2. \A c \in Comment :
                 replies'[c] = replies[c] \/ (c = comment /\ replies'[c] = replies[c] + 1)
            BY <2>1, <2>3
        <3>3. \A c \in Comment : ~Pending(c) /\ ~Pending(c)'
            BY <2>0, <2>3 DEF Pending, Respond
        <3> QED BY <1>a, <1>d, <2>0, <3>1, <3>2, <3>3 DEF ReplyTally
    <2> QED BY <1>7, <2>2, <2>3 DEF CreateReply, Breaks
<1>8. CASE CreatePost
    <2>0. UNCHANGED <<replies, submitted>> /\ place = "message" /\ submitted.kind = "reply"
          /\ submitted.dialog.root = submitted.dialog.comment
        BY <1>8, <1>a DEF CreatePost, UploadPlaces, OwnThreads
    <2> DEFINE comment == submitted.dialog.comment
    <2>1. \A c \in Comment : Pending(c) <=> c = comment
        BY <2>0 DEF Pending
    <2>2. CASE /\ threads' = [threads EXCEPT ![submitted.dialog.root] = @ + 1]
               /\ Respond("") /\ dialogs' = dialogs \ {submitted.dialog}
        <3>1. \A c \in Comment :
                 threads'[c] = IF c = comment THEN threads[c] + 1 ELSE threads[c]
            BY <1>a, <2>0, <2>2, OneMore
        <3>2. UNCHANGED <<half, errors>> /\ place' = "idle"
            BY <2>2 DEF Respond
        <3>3. OwnThreads'
            BY <2>0, <2>2 DEF OwnThreads
        <3>4. \A c \in Comment : ~Pending(c)'
            BY <3>2 DEF Pending
        <3> HIDE DEF comment
        <3> QED BY <1>a, <2>0, <2>1, <3>1, <3>2, <3>3, <3>4 DEF ReplyTally
    <2>3. CASE Respond("half") /\ UNCHANGED mattermost
        <3>1. \A c \in Comment :
                 /\ half'[c] = IF c = comment THEN half[c] + 1 ELSE half[c]
                 /\ errors'[c] = errors[c]
            BY <2>0, <2>3, Responds
        <3>2. \A c \in Comment : ~Pending(c)'
            BY <2>3 DEF Pending, Respond
        <3> HIDE DEF comment
        <3>3. UNCHANGED <<threads, dialogs>>
            BY <2>3
        <3> QED BY <1>a, <1>d, <2>0, <2>1, <3>1, <3>2, <3>3 DEF ReplyTally
    <2> QED BY <1>8, <2>2, <2>3 DEF CreatePost
<1>9. CASE UNCHANGED uploadVars
    BY <1>9 DEF uploadVars, OwnThreads, ReplyTally, Pending
<1> QED
    BY <1>1, <1>2, <1>3, <1>4, <1>5, <1>6, <1>7, <1>8, <1>9 DEF UploadsNext, OfKinds

\* "Comment created but failed to create post" (api.go:837): for any comments and any
\* number of replies, whatever is lost on the way, every reply at Google is accounted
\* for in its comment's own thread, by that answer or by an error, and none that is
\* not there is told of.
THEOREM EveryReplyAccounted == UploadsSpec => []RepliesAccounted
<1>1. UploadsInit => UploadTypes /\ OwnThreads /\ ReplyTally
    <2>1. UploadsInit => OwnThreads
        BY DEF UploadsInit, OwnThreads
    <2>2. UploadsInit => ReplyTally
        BY DEF UploadsInit, ReplyTally, Pending
    <2> QED BY <2>1, <2>2, UploadTypesInit
<1>2. UploadTypes /\ OwnThreads /\ ReplyTally /\ [UploadsNext]_uploadVars
          => (UploadTypes /\ OwnThreads /\ ReplyTally)'
    BY UploadTypesStep, ReplyTallyStep
<1>3. UploadTypes /\ OwnThreads /\ ReplyTally => RepliesAccounted
    <2> SUFFICES ASSUME UploadTypes, ReplyTally, place = "idle" \/ submitted.kind # "reply",
                        NEW c \in Comment
                 PROVE  /\ threads[c] + half[c] <= replies[c]
                        /\ replies[c] <= threads[c] + half[c] + errors[c]
        BY DEF RepliesAccounted
    <2>1. ~Pending(c)
        BY DEF Pending, UploadTypes, UploadPlaces
    <2>2. /\ replies[c] \in Int /\ threads[c] \in Int /\ half[c] \in Int /\ errors[c] \in Int
        BY UploadsAssumption DEF UploadTypes, UploadsTypeOK
    <2> QED BY <2>1, <2>2 DEF ReplyTally
<1> QED BY <1>1, <1>2, <1>3, PTL DEF UploadsSpec

-----------------------------------------------------------------------------
(* Stretches.                                                              *)

\* What the loop's variables are.
TextsTyped ==
    /\ line \in Seq(Token) /\ Len(line) > 0 /\ line[1] = Slash
    /\ split \in Seq(Seq(Token)) /\ current \in Seq(Token) /\ inQuotes \in BOOLEAN

\* The quotes before a place, and the beginnings up to a place, are numbers.
LEMMA StretchesTyped ==
    ASSUME NEW s \in Seq(Token)
    PROVE  /\ \A i \in 1 .. Len(s) + 1 : QuotesBefore(s, i) \in Nat
           /\ IsFiniteSet(Begins(s)) /\ Cardinality(Begins(s)) \in Nat
           /\ \A i \in Begins(s) : Place(s, i) \in 1 .. Cardinality(Begins(s))
<1>1. ASSUME NEW i \in 1 .. Len(s) + 1
      PROVE  QuotesBefore(s, i) \in Nat
    <2>1. IsFiniteSet(1 .. i - 1)
        BY FS_Interval
    <2>2. {j \in 1 .. i - 1 : s[j] = Quote} \subseteq 1 .. i - 1
        OBVIOUS
    <2>3. IsFiniteSet({j \in 1 .. i - 1 : s[j] = Quote})
        BY <2>1, <2>2, FS_Subset
    <2> QED BY <2>3, FS_CardinalityType DEF QuotesBefore
<1>2. IsFiniteSet(1 .. Len(s))
    BY FS_Interval
<1>3. Begins(s) \subseteq 1 .. Len(s)
    BY DEF Begins
<1>4. IsFiniteSet(Begins(s)) /\ Cardinality(Begins(s)) \in Nat
    BY <1>2, <1>3, FS_Subset, FS_CardinalityType
<1>5. ASSUME NEW i \in Begins(s)
      PROVE  Place(s, i) \in 1 .. Cardinality(Begins(s))
    <2> DEFINE B == {j \in Begins(s) : j <= i}
    <2>1. B \subseteq Begins(s)
        OBVIOUS
    <2>2. i \in B
        BY <1>3
    <2> HIDE DEF B
    <2>3. IsFiniteSet(B) /\ Cardinality(B) <= Cardinality(Begins(s)) /\ Cardinality(B) \in Nat
        BY <1>4, <2>1, FS_Subset, FS_CardinalityType
    <2>4. Cardinality(B) # 0
        BY <2>2, <2>3, FS_EmptySet
    <2>5. Cardinality(B) \in 1 .. Cardinality(Begins(s))
        BY <1>4, <2>3, <2>4
    <2> QED BY <2>5 DEF Place, B
<1> QED BY <1>1, <1>4, <1>5

\* One more character leaves alone what is before it.
LEMMA AppendQuotes ==
    ASSUME NEW s \in Seq(Token), NEW c \in Token
    PROVE  /\ \A i \in 1 .. Len(s) + 1 : QuotesBefore(Append(s, c), i) = QuotesBefore(s, i)
           /\ QuotesBefore(Append(s, c), Len(s) + 2) =
                  QuotesBefore(s, Len(s) + 1) + (IF c = Quote THEN 1 ELSE 0)
<1> DEFINE n == Len(s)
           t == Append(s, c)
           Q(r, i) == {j \in 1 .. i - 1 : r[j] = Quote}
<1>1. n \in Nat /\ Len(t) = n + 1 /\ t[n + 1] = c /\ \A j \in 1 .. n : t[j] = s[j]
    OBVIOUS
<1> HIDE DEF n, t
<1>2. \A i \in 1 .. n + 1 : Q(t, i) = Q(s, i)
    BY <1>1
<1>3. IsFiniteSet(Q(s, n + 1)) /\ Cardinality(Q(s, n + 1)) \in Nat
    <2>1. IsFiniteSet(1 .. (n + 1) - 1)
        BY <1>1, FS_Interval
    <2>2. Q(s, n + 1) \subseteq 1 .. (n + 1) - 1
        OBVIOUS
    <2> HIDE DEF Q
    <2> QED BY <2>1, <2>2, FS_Subset, FS_CardinalityType
<1>4. CASE c = Quote
    <2>1. Q(t, n + 2) = Q(s, n + 1) \cup {n + 1}
        BY <1>1, <1>4
    <2>2. n + 1 \notin Q(s, n + 1)
        BY <1>1
    <2> HIDE DEF Q
    <2>3. Cardinality(Q(t, n + 2)) = Cardinality(Q(s, n + 1)) + 1
        BY <1>3, <2>1, <2>2, FS_AddElement
    <2> QED BY <1>2, <1>4, <2>3 DEF Q, n, t, QuotesBefore
<1>5. CASE c # Quote
    <2>1. Q(t, n + 2) = Q(s, n + 1)
        BY <1>1, <1>5
    <2> HIDE DEF Q
    <2>2. Cardinality(Q(t, n + 2)) = Cardinality(Q(s, n + 1)) + 0
        BY <1>3, <2>1
    <2> QED BY <1>2, <1>5, <2>2 DEF Q, n, t, QuotesBefore
<1> QED BY <1>4, <1>5

\* Nor does it move what is set apart.
LEMMA AppendApart ==
    ASSUME NEW s \in Seq(Token), NEW c \in Token
    PROVE  /\ \A i \in 1 .. Len(s) : Apart(Append(s, c), i) <=> Apart(s, i)
           /\ Apart(Append(s, c), Len(s) + 1) <=>
                  c \in Space /\ QuotesBefore(s, Len(s) + 1) % 2 = 0
<1>1. /\ \A i \in 1 .. Len(s) : Append(s, c)[i] = s[i] /\ i \in 1 .. Len(s) + 1
      /\ Append(s, c)[Len(s) + 1] = c /\ Len(s) + 1 \in 1 .. Len(s) + 1
    OBVIOUS
<1> QED BY <1>1, AppendQuotes DEF Apart

\* Nor the stretches before it: it goes on with the last one, or begins or ends one.
LEMMA AppendBegins ==
    ASSUME NEW s \in Seq(Token), Len(s) > 0, NEW c \in Token
    PROVE  LET t == Append(s, c)
               n == Len(s)
           IN  /\ Begins(t) = Begins(s) \cup
                      (IF ~Apart(t, n + 1) /\ Apart(s, n) THEN {n + 1} ELSE {})
               /\ \A i \in Begins(s) : Place(t, i) = Place(s, i)
               /\ n + 1 \in Begins(t) =>
                      /\ Place(t, n + 1) = Cardinality(Begins(s)) + 1
                      /\ Cardinality(Begins(t)) = Cardinality(Begins(s)) + 1
               /\ \A i, j \in 1 .. n : Text(t, i, j) = Text(s, i, j)
               /\ \A i, j \in 1 .. n : Ends(t, i, j) => Ends(s, i, j)
               /\ \A i \in 1 .. n : Ends(t, i, n) => Apart(t, n + 1)
<1> DEFINE n == Len(s)
           t == Append(s, c)
<1>1. n \in Nat \ {0} /\ Len(t) = n + 1 /\ t[n + 1] = c /\ \A j \in 1 .. n : t[j] = s[j]
    OBVIOUS
<1>2. \A i \in 1 .. n : Apart(t, i) <=> Apart(s, i)
    BY AppendApart
<1>3. IsFiniteSet(Begins(s)) /\ Cardinality(Begins(s)) \in Nat
    BY StretchesTyped
<1>4. Begins(s) \subseteq 1 .. n
    BY DEF Begins
<1> HIDE DEF n, t
<1>5. Begins(t) = Begins(s) \cup (IF ~Apart(t, n + 1) /\ Apart(s, n) THEN {n + 1} ELSE {})
    <2>1. \A i \in 1 .. n : i \in Begins(t) <=> i \in Begins(s)
        <3> TAKE i \in 1 .. n
        <3>1. i \in 1 .. n + 1 /\ (i > 1 => i - 1 \in 1 .. n)
            BY <1>1
        <3> QED BY <1>1, <1>2, <3>1 DEF Begins, n
    <2>2. n + 1 \in Begins(t) <=> ~Apart(t, n + 1) /\ Apart(s, n)
        <3>1. n + 1 \in 1 .. n + 1 /\ n + 1 > 1 /\ (n + 1) - 1 = n /\ n \in 1 .. n
            BY <1>1
        <3>2. n + 1 \in Begins(t) <=> ~Apart(t, n + 1) /\ Apart(t, n)
            BY <1>1, <3>1 DEF Begins
        <3> QED BY <1>2, <3>1, <3>2
    <2>3. Begins(t) \subseteq 1 .. n + 1
        BY <1>1 DEF Begins
    <2>4. \A i \in 1 .. n + 1 : i \in 1 .. n \/ i = n + 1
        BY <1>1
    <2>5. n + 1 \notin 1 .. n
        BY <1>1
    <2> QED BY <1>4, <2>1, <2>2, <2>3, <2>4, <2>5
<1>6. ASSUME NEW i \in Begins(s)
      PROVE  Place(t, i) = Place(s, i)
    <2>1. i \in 1 .. n /\ ~(n + 1 <= i)
        BY <1>1, <1>4
    <2>2. {j \in Begins(t) : j <= i} = {j \in Begins(s) : j <= i}
        BY <1>5, <2>1
    <2> QED BY <2>2 DEF Place
<1>7. ASSUME n + 1 \in Begins(t)
      PROVE  /\ Place(t, n + 1) = Cardinality(Begins(s)) + 1
             /\ Cardinality(Begins(t)) = Cardinality(Begins(s)) + 1
    <2>1. n + 1 \notin Begins(s) /\ \A j \in Begins(s) \cup {n + 1} : j <= n + 1
        BY <1>1, <1>4
    <2>2. Begins(t) = Begins(s) \cup {n + 1}
        BY <1>5, <1>7, <2>1
    <2>3. {j \in Begins(t) : j <= n + 1} = Begins(t)
        BY <2>1, <2>2
    <2>4. Cardinality(Begins(t)) = Cardinality(Begins(s)) + 1
        BY <1>3, <2>1, <2>2, FS_AddElement
    <2> QED BY <2>3, <2>4 DEF Place
<1>8. ASSUME NEW i \in 1 .. n, NEW j \in 1 .. n
      PROVE  Text(t, i, j) = Text(s, i, j)
    <2>1. \A k \in 1 .. j - i + 1 : t[i + k - 1] = s[i + k - 1]
        BY <1>1
    <2> QED BY <2>1 DEF Text
<1>9. ASSUME NEW i \in 1 .. n, NEW j \in 1 .. n, Ends(t, i, j)
      PROVE  Ends(s, i, j)
    <2>1. \A k \in i .. j : k \in 1 .. n
        BY <1>1
    <2>2. j < n => j + 1 \in 1 .. n /\ j < n + 1
        BY <1>1
    <2>3. j < Len(t) => Apart(t, j + 1)
        BY <1>9 DEF Ends
    <2>4. \A k \in i .. j : ~Apart(t, k)
        BY <1>9 DEF Ends
    <2>5. \A k \in i .. j : ~Apart(s, k)
        BY <1>2, <2>1, <2>4
    <2>6. j < Len(s) => Apart(s, j + 1)
        BY <1>1, <1>2, <2>2, <2>3 DEF n
    <2> QED BY <2>5, <2>6 DEF Ends
<1>10. \A i \in 1 .. n : Ends(t, i, n) => Apart(t, n + 1)
    BY <1>1 DEF Ends
<1> QED BY <1>5, <1>6, <1>7, <1>8, <1>9, <1>10 DEF n, t
-----------------------------------------------------------------------------
(* The words.                                                              *)

\* The words that have ended are the stretches that have, and current is the text of
\* the last stretch so far.
QuotesInv == inQuotes <=> QuotesBefore(line, Len(line) + 1) % 2 = 1
NoWord ==
    /\ Apart(line, Len(line)) /\ ~inQuotes
    /\ Len(split) = Cardinality(Begins(line))
Onset == Len(line) - Len(current) + 1
Word ==
    /\ Onset \in Begins(line)
    /\ \A k \in Onset .. Len(line) : ~Apart(line, k)
    /\ current = Text(line, Onset, Len(line))
    /\ Place(line, Onset) = Len(split) + 1
    /\ Cardinality(Begins(line)) = Len(split) + 1
Ended ==
    \A i \in Begins(line) : \A j \in i .. Len(line) - 1 :
        Ends(line, i, j) => /\ Place(line, i) \in 1 .. Len(split)
                            /\ split[Place(line, i)] = Text(line, i, j)
StretchInv ==
    /\ TextsTyped /\ QuotesInv /\ Ended
    /\ current = <<>> => NoWord
    /\ current # <<>> => Word

\* The last stretch so far is where current is.
LEMMA LastStretch ==
    ASSUME StretchInv, NEW i \in Begins(line), \A k \in i .. Len(line) : ~Apart(line, k)
    PROVE  current # <<>> /\ i = Onset
<1> DEFINE n == Len(line)
<1>1. n \in Nat /\ n > 0 /\ Begins(line) \subseteq 1 .. n
    BY DEF StretchInv, TextsTyped, Begins
<1>2. n \in i .. n
    BY <1>1
<1>3. current # <<>>
    BY <1>2 DEF StretchInv, NoWord
<1>4. /\ Onset \in Begins(line)
      /\ \A k \in Onset .. n : ~Apart(line, k)
    BY <1>3 DEF StretchInv, Word
<1>5. \A b \in Begins(line) : b > 1 => Apart(line, b - 1)
    BY DEF Begins
<1> HIDE DEF n
<1>6. \A b \in Begins(line) : b \in 1 .. n /\ b - 1 < b
    BY <1>1
<1>7. ASSUME i < Onset PROVE FALSE
    <2>1. Onset > 1 /\ Onset - 1 \in i .. n
        BY <1>1, <1>4, <1>6, <1>7
    <2> QED BY <1>4, <1>5, <2>1 DEF n
<1>8. ASSUME Onset < i PROVE FALSE
    <2>1. i > 1 /\ i - 1 \in Onset .. n
        BY <1>1, <1>4, <1>6, <1>8
    <2> QED BY <1>4, <1>5, <2>1
<1>9. i \in Nat /\ Onset \in Nat
    BY <1>1, <1>4, <1>6
<1> HIDE DEF Onset
<1> QED BY <1>3, <1>7, <1>8, <1>9

\* So each stretch has its word.
LEMMA StretchWords ==
    ASSUME StretchInv
    PROVE  /\ Len(parseCommand) = Cardinality(Begins(line))
           /\ \A i \in Begins(line) : \A j \in i .. Len(line) :
                 Ends(line, i, j) => /\ Place(line, i) \in 1 .. Len(parseCommand)
                                     /\ parseCommand[Place(line, i)] = Text(line, i, j)
<1>1. split \in Seq(Seq(Token)) /\ current \in Seq(Token) /\ Len(split) \in Nat
    BY DEF StretchInv, TextsTyped
<1>2. parseCommand \in Seq(Seq(Token)) /\ Len(parseCommand) = Cardinality(Begins(line))
    BY <1>1 DEF parseCommand, StretchInv, NoWord, Word
<1>3. \A k \in 1 .. Len(split) : k \in 1 .. Len(parseCommand) /\ parseCommand[k] = split[k]
    BY <1>1 DEF parseCommand
<1>4. ASSUME NEW i \in Begins(line), NEW j \in i .. Len(line), Ends(line, i, j)
      PROVE  /\ Place(line, i) \in 1 .. Len(parseCommand)
             /\ parseCommand[Place(line, i)] = Text(line, i, j)
    <2>1. i \in 1 .. Len(line) /\ Len(line) \in Nat
        BY DEF Begins, StretchInv, TextsTyped
    <2>2. CASE j = Len(line)
        <3>1. current # <<>> /\ i = Onset
            BY <1>4, <2>2, LastStretch DEF Ends
        <3>2. Place(line, i) = Len(split) + 1 /\ current = Text(line, i, j)
            BY <2>2, <3>1 DEF StretchInv, Word
        <3>3. parseCommand = Append(split, current)
            BY <3>1 DEF parseCommand
        <3>4. /\ Len(split) + 1 \in 1 .. Len(parseCommand)
              /\ parseCommand[Len(split) + 1] = current
            BY <1>1, <3>3
        <3> QED BY <3>2, <3>4
    <2>3. CASE j # Len(line)
        <3>1. j \in i .. Len(line) - 1
            BY <2>1, <2>3
        <3>2. /\ Place(line, i) \in 1 .. Len(split)
              /\ split[Place(line, i)] = Text(line, i, j)
            BY <1>4, <3>1 DEF StretchInv, Ended
        <3> QED BY <1>3, <3>2
    <2> QED BY <2>2, <2>3
<1> QED BY <1>2, <1>4
\* A step reads one character.
LEMMA MoreReads ==
    ASSUME TextsTyped, NEW c \in Token, More(c)
    PROVE  /\ TextsTyped'
           /\ Len(line') = Len(line) + 1 /\ Len(line) \in Nat \ {0}
           /\ line' = Append(line, c) /\ line'[Len(line) + 1] = c
<1>1. line' = Append(line, c) /\ line \in Seq(Token) /\ Len(line) > 0 /\ line[1] = Slash
    BY DEF More, TextsTyped
<1>2. line' \in Seq(Token) /\ Len(line') > 0 /\ line'[1] = Slash
    BY <1>1
<1>3. "blank" \in Token
    BY TokenAssumption DEF Token
<1>4. parseCommand \in Seq(Seq(Token))
    BY DEF parseCommand, TextsTyped
<1>5. split' \in Seq(Seq(Token)) /\ current' \in Seq(Token) /\ inQuotes' \in BOOLEAN
    <2>1. split' = split \/ split' = parseCommand
        BY DEF More, Read
    <2>2. current' = Append(current, "blank") \/ current' = <<>> \/ current' = Append(current, c)
        BY DEF More, Read
    <2>3. inQuotes' = inQuotes \/ inQuotes' = ~inQuotes
        BY Zenon DEF More, Read
    <2>4. inQuotes' \in BOOLEAN
        BY <2>3, Zenon DEF TextsTyped
    <2>5. current' \in Seq(Token)
        <3>1. current \in Seq(Token)
            BY DEF TextsTyped
        <3>2. \A x \in Token : Append(current, x) \in Seq(Token)
            BY <3>1
        <3>3. Append(current, "blank") \in Seq(Token)
            BY <1>3, <3>2, Zenon
        <3>4. <<>> \in Seq(Token)
            OBVIOUS
        <3> QED BY <2>2, <3>2, <3>3, <3>4, Zenon
    <2> QED BY <1>4, <2>1, <2>4, <2>5 DEF TextsTyped
<1>6. TextsTyped'
    BY <1>2, <1>5 DEF TextsTyped
<1> QED BY <1>1, <1>6

\* The loop counts quotes.
LEMMA QuotesStep ==
    ASSUME TextsTyped, QuotesInv, NEW c \in Token, More(c)
    PROVE  QuotesInv'
<1>1. QuotesBefore(line', Len(line') + 1) =
          QuotesBefore(line, Len(line) + 1) + (IF c = Quote THEN 1 ELSE 0)
    <2>1. Len(line') + 1 = Len(line) + 2
        BY MoreReads
    <2> QED BY <2>1, MoreReads, AppendQuotes DEF TextsTyped
<1>2. QuotesBefore(line, Len(line) + 1) \in Nat
    <2>1. Len(line) + 1 \in 1 .. Len(line) + 1
        BY MoreReads
    <2> QED BY <2>1, StretchesTyped DEF TextsTyped
<1>3. \A q \in Nat : (q + 1) % 2 = 1 <=> ~(q % 2 = 1)
    OBVIOUS
<1>4. CASE c = Quote
    <2>1. inQuotes' = ~inQuotes
        BY <1>4, TokenAssumption DEF More, Read
    <2>2. QuotesBefore(line', Len(line') + 1) = QuotesBefore(line, Len(line) + 1) + 1
        BY <1>1, <1>4
    <2>3. (QuotesBefore(line, Len(line) + 1) + 1) % 2 = 1
              <=> ~(QuotesBefore(line, Len(line) + 1) % 2 = 1)
        BY <1>2, <1>3
    <2>4. inQuotes \in BOOLEAN
        BY DEF TextsTyped
    <2> QED BY <2>1, <2>2, <2>3, <2>4, Zenon DEF QuotesInv
<1>5. CASE c # Quote
    <2>1. inQuotes' = inQuotes
        BY <1>5 DEF More, Read
    <2>2. QuotesBefore(line', Len(line') + 1) = QuotesBefore(line, Len(line) + 1)
        BY <1>1, <1>2, <1>5
    <2> QED BY <2>1, <2>2, Zenon DEF QuotesInv
<1> QED BY <1>4, <1>5

\* A character that does not end a word goes on with one, or begins one.
LEMMA WordStep ==
    ASSUME StretchInv, NEW c \in Token, More(c), inQuotes \/ c \notin Space
    PROVE  /\ ~Apart(line', Len(line) + 1)
           /\ split' = split /\ current' # <<>> /\ Word'
<1> DEFINE n == Len(line)
           x == IF c \in Space THEN "blank" ELSE c
<1>1. /\ TextsTyped /\ line \in Seq(Token) /\ n \in Nat \ {0} /\ Len(line') = n + 1
      /\ line' = Append(line, c) /\ line'[n + 1] = c
      /\ current \in Seq(Token) /\ split \in Seq(Seq(Token))
    BY MoreReads DEF StretchInv, TextsTyped
<1>2. split' = split /\ current' = Append(current, x)
    BY DEF More, Read
<1>3. ~Apart(line', n + 1)
    <2>1. c \in Space => QuotesBefore(line, n + 1) % 2 = 1
        BY DEF StretchInv, QuotesInv
    <2> QED BY <1>1, <2>1, AppendApart
<1>4. /\ Begins(line') = Begins(line) \cup (IF Apart(line, n) THEN {n + 1} ELSE {})
      /\ \A i \in Begins(line) : Place(line', i) = Place(line, i)
      /\ n + 1 \in Begins(line') =>
             /\ Place(line', n + 1) = Cardinality(Begins(line)) + 1
             /\ Cardinality(Begins(line')) = Cardinality(Begins(line)) + 1
      /\ \A i, j \in 1 .. n : Text(line', i, j) = Text(line, i, j)
    <2>1. Len(line) > 0
        BY <1>1
    <2>2. /\ Begins(line') = Begins(line) \cup
                 (IF ~Apart(line', n + 1) /\ Apart(line, n) THEN {n + 1} ELSE {})
          /\ \A i \in Begins(line) : Place(line', i) = Place(line, i)
          /\ n + 1 \in Begins(line') =>
                 /\ Place(line', n + 1) = Cardinality(Begins(line)) + 1
                 /\ Cardinality(Begins(line')) = Cardinality(Begins(line)) + 1
          /\ \A i, j \in 1 .. n : Text(line', i, j) = Text(line, i, j)
        <3>1. line' = Append(line, c) /\ line \in Seq(Token) /\ Len(line) > 0
            BY <1>1, <2>1
        <3> QED BY <3>1, AppendBegins
    <2> QED BY <1>3, <2>2
<1>5. \A i \in 1 .. n : Apart(line', i) <=> Apart(line, i)
    BY <1>1, AppendApart
<1>6. Len(split) \in Nat /\ Len(current) \in Nat /\ Len(current') = Len(current) + 1
    BY <1>1, <1>2
<1> HIDE DEF n
<1>7. CASE current = <<>>
    <2>1. Apart(line, n) /\ Len(split) = Cardinality(Begins(line))
        BY <1>7 DEF StretchInv, NoWord, n
    <2>2. Onset' = n + 1
        BY <1>1, <1>2, <1>7 DEF Onset
    <2>3. Onset' \in Begins(line')
        BY <1>4, <2>1, <2>2
    <2>4. \A k \in n + 1 .. n + 1 : ~Apart(line', k)
        BY <1>1, <1>3
    <2>5. current' = Text(line', n + 1, n + 1)
        <3>1. current' = <<x>>
            BY <1>2, <1>7
        <3>2. Text(line', n + 1, n + 1) = [k \in 1 .. 1 |-> x]
            <4>1. (n + 1) - (n + 1) + 1 = 1 /\ \A k \in 1 .. 1 : line'[(n + 1) + k - 1] = c
                BY <1>1
            <4> QED BY <4>1 DEF Text
        <3>3. <<x>> = [k \in 1 .. 1 |-> x]
            OBVIOUS
        <3> QED BY <3>1, <3>2, <3>3
    <2>6. /\ Place(line', n + 1) = Len(split) + 1
          /\ Cardinality(Begins(line')) = Len(split) + 1
        BY <1>4, <2>1, <2>2, <2>3
    <2>7. Word'
        BY <1>1, <1>2, <2>2, <2>3, <2>4, <2>5, <2>6 DEF Word
    <2>8. current' # <<>>
        BY <1>6
    <2> QED BY <1>2, <1>3, <2>7, <2>8 DEF n
<1>8. CASE current # <<>>
    <2>1. /\ Onset \in Begins(line)
          /\ \A k \in Onset .. n : ~Apart(line, k)
          /\ current = Text(line, Onset, n)
          /\ Place(line, Onset) = Len(split) + 1
          /\ Cardinality(Begins(line)) = Len(split) + 1
        BY <1>8 DEF StretchInv, Word, n
    <2>2. Onset \in 1 .. n
        BY <2>1 DEF Begins, n
    <2>3. Onset' = Onset
        BY <1>1, <1>6 DEF Onset, n
    <2>4. ~Apart(line, n)
        BY <1>1, <2>1, <2>2
    <2>5. Begins(line') = Begins(line)
        BY <1>4, <2>4
    <2>6. \A k \in Onset .. n + 1 : ~Apart(line', k)
        <3>1. \A k \in Onset .. n + 1 : k = n + 1 \/ (k \in 1 .. n /\ k \in Onset .. n)
            BY <1>1, <2>2
        <3> QED BY <1>3, <1>5, <2>1, <3>1
    <2>7. current' = Text(line', Onset, n + 1)
        <3>1. Len(current) = n - Onset + 1 /\ \A k \in 1 .. n - Onset + 1 : current[k] =
                  IF line'[Onset + k - 1] \in Space THEN "blank" ELSE line'[Onset + k - 1]
            <4>1. Len(current) = n - Onset + 1
                BY <1>1, <1>6, <2>2 DEF Onset, n
            <4>2. current = Text(line', Onset, n)
                <5>1. n \in 1 .. n
                    BY <1>1
                <5> QED BY <1>4, <2>1, <2>2, <5>1
            <4> HIDE DEF Onset
            <4> QED BY <4>1, <4>2 DEF Text
        <3> HIDE DEF Onset
        <3>2. (n + 1) - Onset + 1 = (n - Onset + 1) + 1 /\ n - Onset + 1 \in Nat
              /\ Onset + ((n - Onset + 1) + 1) - 1 = n + 1
            BY <1>1, <2>2
        <3> DEFINE m == n - Onset + 1
        <3>3. /\ current' \in Seq(Token \cup {x}) /\ Len(current') = m + 1
              /\ current'[m + 1] = x /\ \A k \in 1 .. m : current'[k] = current[k]
            BY <1>1, <1>2, <3>1
        <3>4. \A k \in 1 .. m + 1 : current'[k] =
                  IF line'[Onset + k - 1] \in Space THEN "blank" ELSE line'[Onset + k - 1]
            <4>1. \A k \in 1 .. m + 1 : k \in 1 .. m \/ k = m + 1
                BY <3>2
            <4>2. line'[Onset + (m + 1) - 1] = c
                BY <1>1, <3>2
            <4> HIDE DEF m
            <4>3. \A k \in 1 .. m : current'[k] =
                      IF line'[Onset + k - 1] \in Space THEN "blank" ELSE line'[Onset + k - 1]
                BY <3>1, <3>3 DEF m
            <4> QED BY <3>3, <4>1, <4>2, <4>3
        <3>5. current' = [k \in 1 .. m + 1 |-> current'[k]]
            BY <3>3
        <3>6. Text(line', Onset, n + 1) = [k \in 1 .. m + 1 |->
                  IF line'[Onset + k - 1] \in Space THEN "blank" ELSE line'[Onset + k - 1]]
            BY <3>2 DEF Text
        <3> HIDE DEF m
        <3> QED BY <3>4, <3>5, <3>6
    <2>8. Place(line', Onset) = Len(split) + 1
        BY <1>4, <2>1
    <2>9. Word'
        BY <1>1, <1>2, <2>1, <2>3, <2>5, <2>6, <2>7, <2>8 DEF Word
    <2>10. current' # <<>>
        BY <1>6
    <2> QED BY <1>2, <1>3, <2>9, <2>10 DEF n
<1> QED BY <1>7, <1>8
\* White space outside of quotes ends the word, if there is one.
LEMMA SpaceStep ==
    ASSUME StretchInv, NEW c \in Space, More(c), ~inQuotes
    PROVE  /\ Apart(line', Len(line) + 1) /\ current' = <<>> /\ NoWord'
           /\ split' = parseCommand
<1> DEFINE n == Len(line)
<1>1. c \in Token
    BY DEF Token
<1>2. /\ TextsTyped /\ line \in Seq(Token) /\ n \in Nat \ {0} /\ Len(line') = n + 1
      /\ line' = Append(line, c) /\ line'[n + 1] = c
    BY <1>1, MoreReads DEF StretchInv, TextsTyped
<1>3. split' = parseCommand /\ current' = <<>> /\ inQuotes' = inQuotes
    BY DEF More, Read
<1>4. Apart(line', n + 1)
    <2>1. QuotesBefore(line, n + 1) \in Nat
        <3>1. n + 1 \in 1 .. Len(line) + 1
            BY <1>2
        <3> QED BY <1>2, <3>1, StretchesTyped
    <2>2. ~(QuotesBefore(line, n + 1) % 2 = 1)
        BY DEF StretchInv, QuotesInv
    <2>3. \A q \in Nat : q % 2 = 1 \/ q % 2 = 0
        OBVIOUS
    <2>4. QuotesBefore(line, n + 1) % 2 = 0
        BY <2>1, <2>2, <2>3
    <2> QED BY <1>1, <1>2, <2>4, AppendApart
<1>5. Begins(line') = Begins(line)
    <2>1. line' = Append(line, c) /\ line \in Seq(Token) /\ Len(line) > 0
        BY <1>2
    <2>2. Begins(line') = Begins(line) \cup
              (IF ~Apart(line', n + 1) /\ Apart(line, n) THEN {n + 1} ELSE {})
        BY <1>1, <2>1, AppendBegins
    <2> QED BY <1>4, <2>2
<1>6. Len(parseCommand) = Cardinality(Begins(line))
    BY StretchWords
<1> QED BY <1>2, <1>3, <1>4, <1>5, <1>6 DEF NoWord

\* What has ended stays as it is.
LEMMA EndedStep ==
    ASSUME StretchInv, NEW c \in Token, More(c)
    PROVE  Ended'
<1> DEFINE n == Len(line)
<1>1. /\ line \in Seq(Token) /\ n \in Nat \ {0} /\ Len(line') = n + 1
      /\ line' = Append(line, c)
    BY MoreReads DEF StretchInv, TextsTyped
<1>2. /\ Begins(line') \subseteq Begins(line) \cup {n + 1}
      /\ \A i \in Begins(line) : Place(line', i) = Place(line, i)
      /\ \A i, j \in 1 .. n : Text(line', i, j) = Text(line, i, j)
      /\ \A i, j \in 1 .. n : Ends(line', i, j) => Ends(line, i, j)
      /\ \A i \in 1 .. n : Ends(line', i, n) => Apart(line', n + 1)
    <2>1. line' = Append(line, c) /\ line \in Seq(Token) /\ Len(line) > 0
        BY <1>1
    <2>2. Begins(line') = Begins(line) \cup
              (IF ~Apart(line', n + 1) /\ Apart(line, n) THEN {n + 1} ELSE {})
        BY <2>1, AppendBegins
    <2>3. Begins(line') \subseteq Begins(line) \cup {n + 1}
        BY <2>2
    <2> HIDE DEF n
    <2>4. /\ \A i \in Begins(line) : Place(line', i) = Place(line, i)
          /\ \A i, j \in 1 .. n : Text(line', i, j) = Text(line, i, j)
          /\ \A i, j \in 1 .. n : Ends(line', i, j) => Ends(line, i, j)
          /\ \A i \in 1 .. n : Ends(line', i, n) => Apart(line', n + 1)
        BY <2>1, AppendBegins DEF n
    <2> QED BY <2>3, <2>4
<1>3. SUFFICES ASSUME NEW i \in Begins(line'), NEW j \in i .. Len(line') - 1,
                      Ends(line', i, j)
               PROVE  /\ Place(line', i) \in 1 .. Len(split')
                      /\ split'[Place(line', i)] = Text(line', i, j)
    BY DEF Ended
<1>4. Begins(line) \subseteq 1 .. n
    BY DEF Begins
<1> HIDE DEF n
<1>5. i \in 1 .. n /\ j \in 1 .. n /\ i \in Begins(line) /\ j \in i .. n
    <2>1. i \in Begins(line) \cup {n + 1}
        BY <1>2
    <2>2. i \in 1 .. n + 1
        BY <1>1, <1>4, <2>1
    <2>3. j \in i .. n
        BY <1>1
    <2>4. i <= n
        BY <1>1, <2>2, <2>3
    <2> QED BY <1>1, <2>1, <2>2, <2>3, <2>4
<1>6. Ends(line, i, j) /\ Place(line', i) = Place(line, i) /\ Text(line', i, j) = Text(line, i, j)
    BY <1>2, <1>3, <1>5
<1>7. CASE c \in Space /\ ~inQuotes
    <2>1. split' = parseCommand
        BY <1>7, SpaceStep
    <2>2. /\ Place(line, i) \in 1 .. Len(parseCommand)
          /\ parseCommand[Place(line, i)] = Text(line, i, j)
        BY <1>5, <1>6, StretchWords DEF n
    <2> QED BY <1>6, <2>1, <2>2
<1>8. CASE inQuotes \/ c \notin Space
    <2>1. split' = split /\ ~Apart(line', n + 1)
        BY <1>8, WordStep DEF n
    <2>2. j # n
        BY <1>2, <1>3, <1>5, <2>1
    <2>3. j \in i .. n - 1
        BY <1>1, <1>5, <2>2
    <2>4. /\ Place(line, i) \in 1 .. Len(split)
          /\ split[Place(line, i)] = Text(line, i, j)
        BY <1>5, <1>6, <2>3 DEF StretchInv, Ended, n
    <2> QED BY <1>6, <2>1, <2>4
<1> QED BY <1>7, <1>8

\* The first token is a word of its own so far.
LEMMA StretchInit == TextsInit => StretchInv
<1> SUFFICES ASSUME TextsInit PROVE StretchInv
    OBVIOUS
<1>1. line = <<Slash>> /\ split = <<>> /\ current = <<Slash>> /\ inQuotes = FALSE
    BY DEF TextsInit
<1>2. Slash \in Token /\ Slash \notin Space /\ Slash # Quote
    BY TokenAssumption DEF Token
<1>3. TextsTyped
    <2>1. <<Slash>> \in Seq(Token) /\ Len(<<Slash>>) = 1 /\ <<Slash>>[1] = Slash
        BY <1>2
    <2>2. <<>> \in Seq(Seq(Token))
        OBVIOUS
    <2>3. line \in Seq(Token) /\ current \in Seq(Token) /\ split \in Seq(Seq(Token))
        BY <1>1, <2>1, <2>2, Zenon
    <2>4. Len(line) > 0 /\ line[1] = Slash
        BY <1>1, <2>1
    <2> QED BY <1>1, <2>3, <2>4 DEF TextsTyped
<1>4. Len(line) = 1 /\ line[1] = Slash /\ Len(current) = 1 /\ Onset = 1
    BY <1>1 DEF Onset
<1>5. QuotesInv
    <2>1. {j \in 1 .. 2 - 1 : line[j] = Quote} = {}
        BY <1>2, <1>4
    <2>2. QuotesBefore(line, 2) = 0
        BY <2>1, FS_EmptySet DEF QuotesBefore
    <2> QED BY <1>1, <1>4, <2>2 DEF QuotesInv
<1>6. ~Apart(line, 1)
    BY <1>2, <1>4 DEF Apart
<1>7. Begins(line) = {1}
    BY <1>4, <1>6 DEF Begins
<1>8. Cardinality(Begins(line)) = 1 /\ Place(line, 1) = 1
    <2>1. {j \in Begins(line) : j <= 1} = {1}
        BY <1>7
    <2>2. Cardinality({1}) = 1
        BY FS_Singleton
    <2> QED BY <1>7, <2>1, <2>2 DEF Place
<1>9. current = Text(line, 1, 1)
    BY <1>1, <1>2 DEF Text
<1>10. Word
    BY <1>1, <1>4, <1>6, <1>7, <1>8, <1>9 DEF Word
<1>11. Ended
    BY <1>4, <1>7 DEF Ended
<1>12. current # <<>>
    BY <1>1
<1> QED BY <1>3, <1>5, <1>10, <1>11, <1>12 DEF StretchInv

\* Every character keeps StretchInv.
LEMMA StretchStep == StretchInv /\ [TextsNext]_textVars => StretchInv'
<1> SUFFICES ASSUME StretchInv, [TextsNext]_textVars PROVE StretchInv'
    OBVIOUS
<1>1. CASE UNCHANGED textVars
    BY <1>1 DEF textVars, StretchInv, TextsTyped, QuotesInv, Ended, NoWord, Word, Onset
<1>2. ASSUME NEW c \in Token, More(c) PROVE StretchInv'
    <2>1. TextsTyped' /\ QuotesInv' /\ Ended'
        BY <1>2, MoreReads, QuotesStep, EndedStep DEF StretchInv
    <2>2. CASE c \in Space /\ ~inQuotes
        BY <1>2, <2>1, <2>2, SpaceStep DEF StretchInv
    <2>3. CASE inQuotes \/ c \notin Space
        BY <1>2, <2>1, <2>3, WordStep DEF StretchInv
    <2> QED BY <2>2, <2>3
<1> QED BY <1>1, <1>2 DEF TextsNext

\* The words of an input of any length are its stretches (parseCommand, command.go:90).
THEOREM WordsAreRight == TextsSpec => []WordsAreStretches
<1>1. StretchInv => WordsAreStretches
    BY StretchWords DEF WordsAreStretches
<1> QED BY <1>1, StretchInit, StretchStep, PTL DEF TextsSpec
-----------------------------------------------------------------------------
(* The dispatch.                                                           *)

\* A set of numbers that is not empty has a least one.
LEMMA LeastExists ==
    ASSUME NEW S \in SUBSET Nat, S # {}
    PROVE  \E x \in S : \A y \in S : x <= y
<1> DEFINE R == OpToRel(<, Nat)
<1>1. \A x, y \in Nat : y < x => <<y, x>> \in R
    BY DEF OpToRel
<1>2. IsWellFoundedOn(R, Nat)
    BY NatLessThanWellFounded
<1> HIDE DEF R
<1>3. PICK x \in S : \A y \in S : ~ (<<y, x>> \in R)
    BY <1>2, WFMin
<1>4. \A y \in S : ~ (y < x)
    BY <1>1, <1>3
<1> QED BY <1>4

\* Every stretch ends.
LEMMA StretchEnds ==
    ASSUME NEW s \in Seq(Token), NEW i \in Begins(s)
    PROVE  \E j \in i .. Len(s) : Ends(s, i, j)
<1>1. i \in 1 .. Len(s) /\ Len(s) \in Nat /\ ~Apart(s, i)
    BY DEF Begins
<1> DEFINE S == {j \in i .. Len(s) : j = Len(s) \/ Apart(s, j + 1)}
<1>2. S \in SUBSET Nat /\ Len(s) \in S
    BY <1>1
<1>3. PICK j \in S : \A k \in S : j <= k
    <2> HIDE DEF S
    <2> QED BY <1>2, LeastExists
<1>4. j \in i .. Len(s) /\ (j = Len(s) \/ Apart(s, j + 1))
    OBVIOUS
<1>5. \A k \in i .. j : ~Apart(s, k)
    <2> SUFFICES ASSUME NEW k \in i .. j, Apart(s, k) PROVE FALSE
        OBVIOUS
    <2>1. k # i
        BY <1>1
    <2>2. k - 1 \in i .. Len(s) /\ ~(j <= k - 1) /\ (k - 1) + 1 = k
        BY <1>1, <1>4, <2>1
    <2>3. k - 1 \in S
        BY <2>2
    <2> QED BY <1>3, <2>2, <2>3
<1>6. Ends(s, i, j)
    BY <1>1, <1>4, <1>5 DEF Ends
<1> QED BY <1>4, <1>6

\* The stretch after another, if there is one.
LEMMA NextBegins ==
    ASSUME NEW s \in Seq(Token), NEW i \in Begins(s), Place(s, i) < Cardinality(Begins(s))
    PROVE  \E b \in Begins(s) : /\ i < b /\ Place(s, b) = Place(s, i) + 1
                                /\ \A x \in Begins(s) : x <= i \/ b <= x
<1>1. Begins(s) \subseteq 1 .. Len(s) /\ Len(s) \in Nat /\ IsFiniteSet(Begins(s))
    BY StretchesTyped DEF Begins
<1> DEFINE S == {b \in Begins(s) : i < b}
           B(k) == {j \in Begins(s) : j <= k}
<1>2. \A x \in Begins(s) : x \in Nat
    BY <1>1
<1>3. S # {}
    <2> SUFFICES ASSUME S = {} PROVE FALSE
        OBVIOUS
    <2>1. B(i) = Begins(s)
        BY <1>2
    <2>2. Place(s, i) = Cardinality(Begins(s))
        BY <2>1 DEF Place
    <2> QED BY <2>2, StretchesTyped
<1>4. S \in SUBSET Nat
    BY <1>2
<1>5. PICK b \in S : \A x \in S : b <= x
    <2> HIDE DEF S
    <2> QED BY <1>3, <1>4, LeastExists
<1>6. b \in Begins(s) /\ i < b
    OBVIOUS
<1>7. \A x \in Begins(s) : x <= i \/ b <= x
    BY <1>2, <1>5
<1>8. B(b) = B(i) \cup {b} /\ b \notin B(i)
    BY <1>2, <1>6, <1>7
<1>9. IsFiniteSet(B(i))
    <2>1. B(i) \subseteq Begins(s)
        OBVIOUS
    <2> QED BY <1>1, <2>1, FS_Subset
<1> HIDE DEF B, S
<1>10. Cardinality(B(b)) = Cardinality(B(i)) + 1
    BY <1>8, <1>9, FS_AddElement
<1> QED BY <1>6, <1>7, <1>10 DEF B, Place

\* What is between two stretches is white space.
LEMMA GapIsSpace ==
    ASSUME NEW s \in Seq(Token), NEW p \in 1 .. Len(s), NEW b \in Begins(s), p < b,
           Apart(s, p), \A x \in Begins(s) : x < p \/ b <= x
    PROVE  \A k \in p .. b - 1 : s[k] \in Space
<1>1. b \in 1 .. Len(s) /\ Len(s) \in Nat
    BY DEF Begins
<1> DEFINE S == {k \in p .. b - 1 : ~Apart(s, k)}
<1>2. S = {}
    <2> SUFFICES ASSUME S # {} PROVE FALSE
        OBVIOUS
    <2>1. S \in SUBSET Nat
        BY <1>1
    <2>2. PICK k \in S : \A m \in S : k <= m
        <3> HIDE DEF S
        <3> QED BY <2>1, LeastExists
    <2>3. k \in p .. b - 1 /\ ~Apart(s, k)
        OBVIOUS
    <2>4. k # p
        BY <2>3
    <2>5. k \in 1 .. Len(s) /\ k - 1 \in p .. b - 1 /\ ~(k <= k - 1) /\ ~(k < p) /\ ~(b <= k)
        BY <1>1, <2>3, <2>4
    <2>6. Apart(s, k - 1)
        BY <2>2, <2>5
    <2>7. k \in Begins(s)
        BY <2>3, <2>5, <2>6 DEF Begins
    <2> QED BY <2>5, <2>7
<1> QED BY <1>2 DEF Apart

\* A stretch whose text is one word that is not white space is that word alone.
LEMMA OneWord ==
    ASSUME NEW s \in Seq(Token), NEW i \in 1 .. Len(s), NEW j \in i .. Len(s), NEW name,
           name \notin Space, Text(s, i, j) = <<name>>
    PROVE  j = i /\ s[i] = name
<1>1. Len(s) \in Nat /\ i \in Nat /\ j \in Nat /\ j - i + 1 \in Nat
    OBVIOUS
<1>2. Len(Text(s, i, j)) = j - i + 1
    BY <1>1 DEF Text
<1>3. Len(<<name>>) = 1 /\ <<name>>[1] = name
    OBVIOUS
<1>4. j = i
    BY <1>1, <1>2, <1>3
<1>5. Text(s, i, i)[1] = IF s[i] \in Space THEN "blank" ELSE s[i]
    <2>1. 1 \in 1 .. i - i + 1 /\ i + 1 - 1 = i
        BY <1>1
    <2> QED BY <2>1 DEF Text
<1>6. name # "blank"
    BY TokenAssumption
<1> QED BY <1>3, <1>4, <1>5, <1>6

\* Conversely, such a word alone has the text of itself.
LEMMA WordAlone ==
    ASSUME NEW s \in Seq(Token), NEW i \in 1 .. Len(s), s[i] \notin Space
    PROVE  Text(s, i, i) = <<s[i]>>
<1>1. i - i + 1 = 1 /\ \A k \in 1 .. 1 : s[i + k - 1] = s[i]
    OBVIOUS
<1>2. Text(s, i, i) = [k \in 1 .. 1 |-> s[i]]
    BY <1>1 DEF Text
<1> QED BY <1>2
\* The three words that start or stop notifications.
Three(name) ==
    /\ Len(parseCommand) >= 3
    /\ parseCommand[1] = <<Slash>> /\ parseCommand[2] = <<"notifications">>
    /\ parseCommand[3] = <<name>>

\* What ExecuteCommand and handleNotifications look at.
LEMMA CarriedThree ==
    ASSUME NEW name \in {"start", "stop"}
    PROVE  Carried = name <=> Three(name)
<1>1. name \notin Actions /\ "notifications" \in Actions
    BY DEF Actions
<1>2. ASSUME Carried = name PROVE Three(name)
    <2>1. Is(parseCommand, 1, Slash)
        BY <1>2 DEF Carried
    <2>2. \E a \in Actions : Is(parseCommand, 2, a)
        BY <1>2, <2>1 DEF Carried
    <2>3. Is(parseCommand, 2, "notifications")
        <3> SUFFICES ASSUME ~Is(parseCommand, 2, "notifications") PROVE FALSE
            OBVIOUS
        <3>1. Carried = CHOOSE a \in Actions : Is(parseCommand, 2, a)
            BY <2>1, <2>2 DEF Carried
        <3>2. Carried \in Actions
            BY <2>2, <3>1
        <3> QED BY <1>1, <1>2, <3>2
    <2>4. Is(parseCommand, 3, name)
        BY <1>2, <2>1, <2>2, <2>3 DEF Carried
    <2> QED BY <2>1, <2>3, <2>4 DEF Is, Three
<1>3. ASSUME Three(name) PROVE Carried = name
    <2>1. /\ Is(parseCommand, 1, Slash) /\ Is(parseCommand, 2, "notifications")
          /\ Is(parseCommand, 3, name)
        BY <1>3 DEF Is, Three
    <2>2. name = "stop" => ~Is(parseCommand, 3, "start")
        <3>1. <<"stop">> # <<"start">>
            <4>1. <<"stop">>[1] = "stop" /\ <<"start">>[1] = "start"
                OBVIOUS
            <4> QED BY <4>1
        <3> QED BY <1>3, <3>1 DEF Three, Is
    <2>3. ~(\A a \in Actions : ~Is(parseCommand, 2, a))
        BY <1>1, <2>1
    <2> QED BY <2>1, <2>2, <2>3 DEF Carried
<1> QED BY <1>2, <1>3

\* Three such words stand where they should.
LEMMA WordsStand ==
    ASSUME StretchInv, NEW name \in {"start", "stop"}, Three(name)
    PROVE  \E i, j \in 1 .. Len(line) :
               /\ 2 < i /\ i + 1 < j
               /\ line[1] = Slash /\ line[i] = "notifications" /\ line[j] = name
               /\ \A k \in 2 .. j - 1 : k = i \/ line[k] \in Space
               /\ j < Len(line) => line[j + 1] \in Space
<1>1. /\ line \in Seq(Token) /\ Len(line) \in Nat \ {0} /\ line[1] = Slash
      /\ Len(parseCommand) = Cardinality(Begins(line))
      /\ Begins(line) \subseteq 1 .. Len(line)
    BY StretchWords DEF StretchInv, TextsTyped, Begins
<1>2. /\ Slash \notin Space /\ "notifications" \notin Space /\ name \notin Space
    BY TokenAssumption
<1>3. ASSUME NEW i \in Begins(line), NEW word, word \notin Space,
             parseCommand[Place(line, i)] = <<word>>
      PROVE  /\ line[i] = word
             /\ i < Len(line) => Apart(line, i + 1)
    <2>1. PICK j \in i .. Len(line) : Ends(line, i, j)
        BY <1>1, StretchEnds
    <2>2. Text(line, i, j) = <<word>>
        BY <1>3, <2>1, StretchWords
    <2>3. j = i /\ line[i] = word
        BY <1>1, <1>3, <2>2, OneWord
    <2> QED BY <2>1, <2>3 DEF Ends
<1>4. ASSUME NEW i \in Begins(line), Place(line, i) < Cardinality(Begins(line)),
             i < Len(line) => Apart(line, i + 1)
      PROVE  \E b \in Begins(line) :
                 /\ i + 1 < b /\ Place(line, b) = Place(line, i) + 1
                 /\ \A k \in i + 1 .. b - 1 : line[k] \in Space
    <2>1. PICK b \in Begins(line) :
              /\ i < b /\ Place(line, b) = Place(line, i) + 1
              /\ \A x \in Begins(line) : x <= i \/ b <= x
        BY <1>1, <1>4, NextBegins
    <2>2. i \in 1 .. Len(line) /\ b \in 1 .. Len(line)
        BY <1>1
    <2>3. i + 1 \in 1 .. Len(line) /\ i < Len(line)
        BY <2>1, <2>2
    <2>4. Apart(line, i + 1) /\ ~Apart(line, b)
        BY <1>4, <2>3 DEF Begins
    <2>5. i + 1 < b
        BY <2>1, <2>2, <2>4
    <2>6. \A x \in Begins(line) : x < i + 1 \/ b <= x
        BY <1>1, <2>1, <2>2
    <2>7. \A k \in i + 1 .. b - 1 : line[k] \in Space
        BY <1>1, <2>3, <2>4, <2>5, <2>6, GapIsSpace
    <2> QED BY <2>1, <2>5, <2>7
<1>5. 1 \in Begins(line) /\ Place(line, 1) = 1
    <2>1. ~Apart(line, 1)
        BY <1>1, <1>2 DEF Apart
    <2>2. 1 \in Begins(line)
        BY <1>1, <2>1 DEF Begins
    <2>3. {x \in Begins(line) : x <= 1} = {1}
        BY <1>1, <2>2
    <2>4. Cardinality({1}) = 1
        BY FS_Singleton
    <2> QED BY <2>2, <2>3, <2>4 DEF Place
<1>6. 1 < Len(line) => Apart(line, 1 + 1)
    BY <1>2, <1>3, <1>5 DEF Three
<1>7. Cardinality(Begins(line)) \in Nat /\ Cardinality(Begins(line)) >= 3
    BY <1>1, StretchesTyped DEF Three
<1>8. PICK i \in Begins(line) :
          /\ 1 + 1 < i /\ Place(line, i) = 1 + 1
          /\ \A k \in 1 + 1 .. i - 1 : line[k] \in Space
    BY <1>4, <1>5, <1>6, <1>7
<1>9. line[i] = "notifications" /\ (i < Len(line) => Apart(line, i + 1))
    BY <1>2, <1>3, <1>8 DEF Three
<1>10. PICK j \in Begins(line) :
          /\ i + 1 < j /\ Place(line, j) = 2 + 1
          /\ \A k \in i + 1 .. j - 1 : line[k] \in Space
    BY <1>4, <1>7, <1>8, <1>9
<1>11. line[j] = name /\ (j < Len(line) => Apart(line, j + 1))
    BY <1>2, <1>3, <1>10 DEF Three
<1>12. i \in 1 .. Len(line) /\ j \in 1 .. Len(line)
    BY <1>1
<1>13. \A k \in 2 .. j - 1 : k = i \/ k \in 1 + 1 .. i - 1 \/ k \in i + 1 .. j - 1
    BY <1>12
<1>14. j < Len(line) => line[j + 1] \in Space
    BY <1>11 DEF Apart
<1>15. 2 < i
    BY <1>8
<1> QED BY <1>1, <1>8, <1>9, <1>10, <1>11, <1>12, <1>13, <1>14, <1>15
\* Before the end of three words that stand where they should there is no quote.
LEMMA NoQuotes ==
    ASSUME NEW s \in Seq(Token), NEW j \in 1 .. Len(s), \A k \in 1 .. j : s[k] # Quote
    PROVE  \A k \in 1 .. Len(s) : k <= j + 1 => (Apart(s, k) <=> s[k] \in Space)
<1> SUFFICES ASSUME NEW k \in 1 .. Len(s), k <= j + 1
             PROVE  Apart(s, k) <=> s[k] \in Space
    OBVIOUS
<1>1. {m \in 1 .. k - 1 : s[m] = Quote} = {}
    OBVIOUS
<1>2. QuotesBefore(s, k) = 0
    BY <1>1, FS_EmptySet DEF QuotesBefore
<1>3. 0 % 2 = 0
    OBVIOUS
<1> QED BY <1>2, <1>3 DEF Apart

\* Words that stand so are the first three.
LEMMA StandingWords ==
    ASSUME StretchInv, NEW name \in {"start", "stop"},
           NEW i \in 1 .. Len(line), NEW j \in 1 .. Len(line), 2 < i, i + 1 < j,
           line[1] = Slash, line[i] = "notifications", line[j] = name,
           \A k \in 2 .. j - 1 : k = i \/ line[k] \in Space,
           j < Len(line) => line[j + 1] \in Space
    PROVE  Three(name)
<1>1. /\ line \in Seq(Token) /\ Len(line) \in Nat \ {0}
      /\ Begins(line) \subseteq 1 .. Len(line)
    BY DEF StretchInv, TextsTyped, Begins
<1>2. /\ \A x \in {Slash, "notifications", name} : x \notin Space /\ x # Quote
      /\ Quote \notin Space
    BY TokenAssumption
<1>3. \A k \in 1 .. j : k = 1 \/ k = i \/ k = j \/ (k \in 2 .. j - 1 /\ line[k] \in Space)
    BY <1>1
<1>4. \A k \in 1 .. j : line[k] # Quote
    BY <1>2, <1>3
<1>5. \A k \in 1 .. Len(line) : k <= j + 1 => (Apart(line, k) <=> line[k] \in Space)
    BY <1>1, <1>4, NoQuotes
<1>6. \A k \in 1 .. j : ~Apart(line, k) <=> k \in {1, i, j}
    <2>1. \A k \in 1 .. j : k \in 1 .. Len(line) /\ k <= j + 1
        BY <1>1
    <2>2. \A k \in 1 .. j : line[k] \in Space <=> k \notin {1, i, j}
        BY <1>2, <1>3
    <2> QED BY <1>5, <2>1, <2>2
<1>7. \A k \in 1 .. j : k \in Begins(line) <=> k \in {1, i, j}
    <2>1. \A k \in 1 .. j : k \in 1 .. Len(line) /\ (k > 1 => k - 1 \in 1 .. j)
        BY <1>1
    <2>2. i - 1 \notin {1, i, j} /\ j - 1 \notin {1, i, j} /\ ~(1 > 1)
        BY <1>1
    <2>3. \A k \in {1, i, j} : k > 1 => Apart(line, k - 1)
        BY <1>6, <2>1, <2>2
    <2> QED BY <1>6, <2>1, <2>3 DEF Begins
<1>8. \A k \in {1, i, j} : k \in 1 .. j /\ k \in 1 .. Len(line) /\ k \in Begins(line)
    BY <1>1, <1>7
<1>9. \A k \in {1, i, j} : Ends(line, k, k)
    <2> SUFFICES ASSUME NEW k \in {1, i, j} PROVE Ends(line, k, k)
        OBVIOUS
    <2>1. \A m \in k .. k : ~Apart(line, m)
        <3>1. \A m \in k .. k : m = k
            BY <1>8
        <3> QED BY <1>6, <1>8, <3>1
    <2>2. k < Len(line) => Apart(line, k + 1)
        <3>1. CASE k = j
            <4>1. j < Len(line) => j + 1 \in 1 .. Len(line) /\ j + 1 <= j + 1
                BY <1>1
            <4> QED BY <1>5, <3>1, <4>1
        <3>2. CASE k # j
            <4>1. k + 1 \in 1 .. j /\ k + 1 \notin {1, i, j}
                BY <1>1, <3>2
            <4> QED BY <1>6, <4>1
        <3> QED BY <3>1, <3>2
    <2> QED BY <2>1, <2>2 DEF Ends
<1>10. Place(line, 1) = 1 /\ Place(line, i) = 2 /\ Place(line, j) = 3
    <2>1. \A k \in {1, i, j} : {x \in Begins(line) : x <= k} = {x \in {1, i, j} : x <= k}
        <3> SUFFICES ASSUME NEW k \in {1, i, j}, NEW x, x \in Begins(line) \/ x \in {1, i, j}
                     PROVE  x \in Begins(line) /\ x <= k <=> x \in {1, i, j} /\ x <= k
            OBVIOUS
        <3>1. x \in 1 .. Len(line)
            BY <1>1, <1>8
        <3>2. x <= k => x \in 1 .. j
            BY <1>8, <3>1
        <3> QED BY <1>7, <3>2
    <2>2. /\ {x \in {1, i, j} : x <= 1} = {1}
          /\ {x \in {1, i, j} : x <= i} = {1} \cup {i}
          /\ {x \in {1, i, j} : x <= j} = ({1} \cup {i}) \cup {j}
        BY <1>1
    <2>3. IsFiniteSet({1}) /\ Cardinality({1}) = 1
        BY FS_Singleton
    <2>4. i \notin {1} /\ j \notin {1} \cup {i}
        BY <1>1
    <2>5. IsFiniteSet({1} \cup {i}) /\ Cardinality({1} \cup {i}) = 1 + 1
        BY <2>3, <2>4, FS_AddElement
    <2>6. Cardinality(({1} \cup {i}) \cup {j}) = (1 + 1) + 1
        BY <2>4, <2>5, FS_AddElement
    <2>7. /\ {x \in Begins(line) : x <= 1} = {1}
          /\ {x \in Begins(line) : x <= i} = {1} \cup {i}
          /\ {x \in Begins(line) : x <= j} = ({1} \cup {i}) \cup {j}
        BY <2>1, <2>2
    <2>8. Place(line, 1) = 1
        BY <2>3, <2>7 DEF Place
    <2>9. Place(line, i) = 1 + 1
        BY <2>5, <2>7, Zenon DEF Place
    <2>10. Place(line, j) = (1 + 1) + 1
        BY <2>6, <2>7, Zenon DEF Place
    <2> QED BY <2>8, <2>9, <2>10
<1>11. ASSUME NEW k \in {1, i, j}
       PROVE  /\ Place(line, k) <= Len(parseCommand)
              /\ parseCommand[Place(line, k)] = <<line[k]>>
    <2>1. k \in k .. Len(line) /\ k \in Begins(line) /\ Ends(line, k, k)
        BY <1>1, <1>8, <1>9
    <2>2. /\ Place(line, k) \in 1 .. Len(parseCommand)
          /\ parseCommand[Place(line, k)] = Text(line, k, k)
        BY <2>1, StretchWords
    <2>3. line[k] \notin Space
        BY <1>2
    <2>4. Text(line, k, k) = <<line[k]>>
        BY <1>1, <1>8, <2>3, WordAlone
    <2>5. Len(parseCommand) \in Nat
        BY <1>1, StretchWords, StretchesTyped
    <2> QED BY <2>2, <2>4, <2>5
<1>12. /\ parseCommand[1] = <<Slash>> /\ parseCommand[2] = <<"notifications">>
       /\ parseCommand[3] = <<name>> /\ 3 <= Len(parseCommand)
    BY <1>10, <1>11
<1>13. Len(parseCommand) \in Nat
    BY <1>1, StretchWords, StretchesTyped
<1> QED BY <1>12, <1>13 DEF Three

\* For an input of any length: notifications are started or stopped exactly by the
\* three words (ExecuteCommand, handleNotifications, command.go:140-170).
THEOREM OnlyNamedCarried == TextsSpec => []OnlyNamedIsCarried
<1>1. StretchInv => OnlyNamedIsCarried
    BY CarriedThree, WordsStand, StandingWords DEF OnlyNamedIsCarried
<1> QED BY <1>1, StretchInit, StretchStep, PTL DEF TextsSpec

-----------------------------------------------------------------------------
(* LastN.                                                                  *)

\* Sequences with the same members are the same.
LEMMA SameSequence ==
    ASSUME NEW S, NEW s \in Seq(S), NEW t \in Seq(S), Len(s) = Len(t),
           \A i \in 1 .. Len(s) : s[i] = t[i]
    PROVE  s = t
OBVIOUS

\* How the lengths add up: L characters, of which the last n are kept.
LEMMA LastNLengths ==
    ASSUME NEW L \in Nat, NEW n \in Nat
    PROVE  LET kept == IF n < L THEN n ELSE L
               rest == L - kept
               masked == IF rest < 3 THEN rest ELSE 3
               first == IF L > n + 3 THEN L - n - 2 ELSE 1
           IN  /\ kept \in Nat /\ rest \in Nat /\ masked \in Nat
               /\ first \in Nat /\ 1 <= first
               /\ rest + kept = L
               /\ L + 1 = first + masked + kept
               /\ first + masked = rest + 1
               /\ \A i \in 1 .. masked + kept : i - 1 < masked + kept - n <=> i <= masked
OBVIOUS

\* The last characters are kept, the three before them masked.
LEMMA LastNCuts ==
    ASSUME NEW s \in Seq(Token), NEW n \in Nat
    PROVE  LET kept == IF n < Len(s) THEN n ELSE Len(s)
               rest == Len(s) - kept
               masked == IF rest < 3 THEN rest ELSE 3
           IN  LastN(s, n) = [i \in 1 .. masked |-> "star"] \o SubSeq(s, rest + 1, Len(s))
<1> DEFINE kept == IF n < Len(s) THEN n ELSE Len(s)
           rest == Len(s) - kept
           masked == IF rest < 3 THEN rest ELSE 3
           first == IF Len(s) > n + 3 THEN Len(s) - n - 2 ELSE 1
           out == SubSeq(s, first, Len(s))
           stars == [i \in 1 .. masked |-> "star"]
           last == SubSeq(s, rest + 1, Len(s))
           result == [i \in 1 .. Len(out) |-> IF i - 1 < Len(out) - n THEN "star" ELSE out[i]]
           Char == Token \cup {"star"}
<1>1. LastN(s, n) = result
    <2>1. ~(n < 0)
        OBVIOUS
    <2> QED BY <2>1, Zenon DEF LastN
<1>2. Len(s) \in Nat /\ \A i \in 1 .. Len(s) : s[i] \in Token
    OBVIOUS
<1>3. /\ kept \in Nat /\ rest \in Nat /\ masked \in Nat /\ first \in Nat /\ 1 <= first
      /\ rest + kept = Len(s)
      /\ Len(s) + 1 = first + masked + kept
      /\ first + masked = rest + 1
      /\ \A i \in 1 .. masked + kept : i - 1 < masked + kept - n <=> i <= masked
    BY <1>2, LastNLengths
<1> HIDE DEF kept, rest, masked, first, out, stars, last, result
<1>4. /\ last \in Seq(Char) /\ Len(last) = kept
      /\ \A i \in 1 .. kept : last[i] = s[rest + i]
    <2>1. rest + 1 \in Int /\ Len(s) \in Int /\ \A i \in rest + 1 .. Len(s) : s[i] \in Char
        BY <1>2, <1>3
    <2>2. /\ last \in Seq(Char)
          /\ Len(last) = IF rest + 1 <= Len(s) THEN Len(s) - (rest + 1) + 1 ELSE 0
          /\ \A i \in 1 .. Len(s) - (rest + 1) + 1 : last[i] = s[(rest + 1) + i - 1]
        <3> HIDE DEF Char
        <3> QED BY <2>1, SubSeqProperties DEF last
    <2>3. Len(last) = kept /\ Len(s) - (rest + 1) + 1 = kept
        BY <1>2, <1>3, <2>2
    <2>4. \A i \in 1 .. kept : (rest + 1) + i - 1 = rest + i
        BY <1>3
    <2> QED BY <2>2, <2>3, <2>4
<1>5. /\ Len(out) = masked + kept
      /\ \A i \in 1 .. masked + kept : out[i] = s[first + i - 1] /\ s[first + i - 1] \in Token
    <2>1. first \in Int /\ Len(s) \in Int /\ \A i \in first .. Len(s) : s[i] \in Token
        BY <1>2, <1>3
    <2>2. /\ Len(out) = IF first <= Len(s) THEN Len(s) - first + 1 ELSE 0
          /\ \A i \in 1 .. Len(s) - first + 1 : out[i] = s[first + i - 1]
        BY <2>1, SubSeqProperties DEF out
    <2>3. Len(out) = masked + kept
        BY <1>2, <1>3, <2>2
    <2>4. \A i \in 1 .. masked + kept : first + i - 1 \in 1 .. Len(s)
        BY <1>2, <1>3
    <2>5. Len(s) - first + 1 = masked + kept
        BY <1>2, <1>3
    <2>6. \A i \in 1 .. masked + kept : out[i] = s[first + i - 1]
        BY <2>2, <2>5
    <2> QED BY <1>2, <1>3, <2>3, <2>4, <2>6
<1>6. stars \in Seq(Char) /\ Len(stars) = masked /\ \A i \in 1 .. masked : stars[i] = "star"
    BY <1>3 DEF stars
<1>7. /\ result \in Seq(Char) /\ Len(result) = masked + kept
      /\ \A i \in 1 .. masked + kept :
            result[i] = IF i <= masked THEN "star" ELSE s[first + i - 1]
    <2>1. result
            = [i \in 1 .. masked + kept |-> IF i - 1 < masked + kept - n THEN "star" ELSE out[i]]
        BY <1>3, <1>5 DEF result
    <2>2. \A i \in 1 .. masked + kept :
              result[i] = IF i <= masked THEN "star" ELSE s[first + i - 1]
        BY <1>3, <1>5, <2>1
    <2>3. \A i \in 1 .. masked + kept : result[i] \in Char
        BY <1>3, <1>5, <2>2
    <2>4. masked + kept \in Nat
        BY <1>3
    <2> HIDE DEF Char
    <2>5. result \in [1 .. masked + kept -> Char]
        BY <2>1, <2>3
    <2> QED BY <2>2, <2>4, <2>5
<1>8. /\ stars \o last \in Seq(Char) /\ Len(stars \o last) = masked + kept
      /\ \A i \in 1 .. masked + kept :
            (stars \o last)[i] = IF i <= masked THEN stars[i] ELSE last[i - masked]
    <2> HIDE DEF Char
    <2>1. /\ stars \o last \in Seq(Char)
          /\ Len(stars \o last) = Len(stars) + Len(last)
          /\ \A i \in 1 .. Len(stars) + Len(last) :
                (stars \o last)[i] = IF i <= Len(stars) THEN stars[i] ELSE last[i - Len(stars)]
        BY <1>3, <1>4, <1>6, ConcatProperties
    <2> QED BY <1>3, <1>4, <1>6, <2>1
<1>9. ASSUME NEW i \in 1 .. masked + kept PROVE result[i] = (stars \o last)[i]
    <2>1. CASE i <= masked
        BY <1>3, <1>6, <1>7, <1>8, <2>1
    <2>2. CASE ~(i <= masked)
        <3>1. i - masked \in 1 .. kept /\ rest + (i - masked) = first + i - 1
            BY <1>3, <2>2
        <3>2. (stars \o last)[i] = last[i - masked] /\ result[i] = s[first + i - 1]
            BY <1>3, <1>7, <1>8, <2>2
        <3>3. last[i - masked] = s[rest + (i - masked)]
            BY <1>3, <1>4, <3>1
        <3> QED BY <3>1, <3>2, <3>3
    <2> QED BY <2>1, <2>2
<1>10. result = stars \o last
    <2> HIDE DEF Char
    <2> QED BY <1>3, <1>7, <1>8, <1>9, SameSequence
<1> QED BY <1>1, <1>10 DEF kept, rest, masked, stars, last

\* "LastN returns the last n characters of a string, with the rest replaced by *.  At
\* most 3 characters are replaced.  The rest is cut off." (utils.go:88): for a string
\* of any length.
THEOREM LastNIsRight == TextsSpec => []LastNKeepsLast
<1>1. StretchInv => line \in Seq(Token)
    BY DEF StretchInv, TextsTyped
<1>2. line \in Seq(Token) => LastNKeepsLast
    <2>1. ASSUME line \in Seq(Token), NEW n \in -1 .. MaxLength, n < 0
          PROVE  LastN(line, n)
                    = [i \in 1 .. 0 |-> "star"] \o SubSeq(line, Len(line) + 1, Len(line))
        <3>1. SubSeq(line, Len(line) + 1, Len(line)) = <<>>
            BY <2>1, SubSeqEmpty
        <3>2. [i \in 1 .. 0 |-> "star"] = <<>>
            OBVIOUS
        <3>3. LastN(line, n) = <<>>
            BY <2>1 DEF LastN
        <3> QED BY <3>1, <3>2, <3>3
    <2>2. ASSUME line \in Seq(Token), NEW n \in -1 .. MaxLength, ~(n < 0)
          PROVE  LET kept == IF n < Len(line) THEN n ELSE Len(line)
                     rest == Len(line) - kept
                     masked == IF rest < 3 THEN rest ELSE 3
                 IN  LastN(line, n)
                       = [i \in 1 .. masked |-> "star"] \o SubSeq(line, rest + 1, Len(line))
        <3>1. n \in Nat
            BY <2>2, TokenAssumption
        <3> QED BY <2>2, <3>1, LastNCuts
    <2>3. ASSUME line \in Seq(Token) PROVE Len(line) - 0 = Len(line)
        BY <2>3
    <2> QED BY <2>1, <2>2, <2>3 DEF LastNKeepsLast
<1> QED BY <1>1, <1>2, StretchInit, StretchStep, PTL DEF TextsSpec

=============================================================================
