------------------------------- MODULE ApiProofs -------------------------------
(***************************************************************************)
(* Proofs about modules Api and Images, for any users, ids, pictures,      *)
(* number of requests and length of a page.                                *)
(***************************************************************************)
EXTENDS Api, FiniteSetTheorems, WellFoundedInduction, TLAPS

-----------------------------------------------------------------------------
(* One id for each uid                                                     *)

RequestsAreIndexed == request = [i \in Uploads |-> request[i]]

IdsAreUsers == idOf \in [Uids -> Users \cup {NoUser}]

IdsAreDistinct == \A x, y \in Uids : idOf[x] = idOf[y] /\ idOf[x] # NoUser => x = y

AnswersAreStored ==
    \A i \in Uploads : Answered(i, "registered") =>
        /\ request[i].uid \in Uids
        /\ request[i].id = idOf[request[i].uid]
        /\ request[i].id # NoUser

IdIInv == RequestsAreIndexed /\ IdsAreUsers /\ IdsAreDistinct /\ AnswersAreStored

\* A request that goes on to anything but the answer of POST /users.
LEMMA OthersKeepIds ==
    ASSUME IdIInv, NEW i \in Uploads, NEW g, Becomes(i, g), UNCHANGED idOf,
           g.at # "answered" \/ g.result # "registered"
    PROVE  IdIInv'
<1> USE DEF IdIInv, Becomes
<1>1. RequestsAreIndexed' /\ \A j \in Uploads : request'[j] = IF j = i THEN g ELSE request[j]
  BY DEF RequestsAreIndexed
<1>2. AnswersAreStored'
  BY <1>1 DEF AnswersAreStored, Answered, Serving
<1> QED BY <1>1, <1>2 DEF IdsAreUsers, IdsAreDistinct

LEMMA CreateUserKeepsIds ==
    ASSUME IdIInv, NEW i \in Uploads, CreateUser(i)
    PROVE  IdIInv'
<1> PICK uid \in Uids, id \in Users :
      LET stored == IF idOf[uid] = NoUser THEN id ELSE idOf[uid]
      IN  IF idOf[uid] = NoUser /\ id \in Ids
          THEN Answers(i, "failed") /\ UNCHANGED idOf
          ELSE /\ idOf' = [idOf EXCEPT ![uid] = stored]
               /\ Becomes(i, [at |-> "answered", result |-> "registered", uid |-> uid,
                              id |-> SavedId(id, stored)])
  BY DEF CreateUser
<1> DEFINE stored == IF idOf[uid] = NoUser THEN id ELSE idOf[uid]
           answer == [at |-> "answered", result |-> "registered", uid |-> uid, id |-> stored]
<1>1. CASE idOf[uid] = NoUser /\ id \in Ids
  <2>1. Becomes(i, [at |-> "answered", result |-> "failed"]) /\ UNCHANGED idOf
    BY <1>1 DEF Answers
  <2> QED BY <2>1, OthersKeepIds
<1>2. CASE ~(idOf[uid] = NoUser /\ id \in Ids)
  <2>1. idOf' = [idOf EXCEPT ![uid] = stored] /\ Becomes(i, answer)
    BY <1>2 DEF SavedId
  <2>2. /\ RequestsAreIndexed'
        /\ \A j \in Uploads : request'[j] = IF j = i THEN answer ELSE request[j]
    BY <2>1 DEF IdIInv, RequestsAreIndexed, Becomes
  <2>3. stored \in Users /\ stored # NoUser
    BY ApiAssumption DEF IdIInv, IdsAreUsers
  <2>4. \A x \in Uids : idOf'[x] = IF x = uid THEN stored ELSE idOf[x]
    BY <2>1 DEF IdIInv, IdsAreUsers
  <2>5. IdsAreUsers'
    BY <2>1, <2>3 DEF IdIInv, IdsAreUsers
  <2>6. \A x \in Uids : x # uid => idOf[x] # stored
    BY <1>2, <2>3 DEF IdIInv, IdsAreDistinct, Ids
  <2>7. IdsAreDistinct'
    BY <2>4, <2>6 DEF IdIInv, IdsAreDistinct
  <2>8. AnswersAreStored'
    <3> SUFFICES ASSUME NEW j \in Uploads, Answered(j, "registered")'
                 PROVE  /\ request'[j].uid \in Uids
                        /\ request'[j].id = idOf'[request'[j].uid]
                        /\ request'[j].id # NoUser
      BY DEF AnswersAreStored
    <3>1. CASE j = i
      BY <3>1, <2>2, <2>3, <2>4
    <3>2. CASE j # i
      <4>1. /\ request[j].uid \in Uids
            /\ request[j].id = idOf[request[j].uid]
            /\ request[j].id # NoUser
            /\ request'[j] = request[j]
        BY <3>2, <2>2 DEF IdIInv, AnswersAreStored, Answered, Serving
      <4> QED BY <4>1, <2>4
    <3> QED BY <3>1, <3>2
  <2> QED BY <2>2, <2>5, <2>7, <2>8 DEF IdIInv
<1> QED BY <1>1, <1>2

LEMMA NextKeepsIds ==
    ASSUME IdIInv, [ApiNext]_apiVars
    PROVE  IdIInv'
<1>1. CASE UNCHANGED apiVars
  BY <1>1 DEF apiVars, IdIInv, RequestsAreIndexed, IdsAreUsers, IdsAreDistinct,
              AnswersAreStored, Answered, Serving
<1>2. CASE UNCHANGED <<idOf, request>>
  BY <1>2 DEF IdIInv, RequestsAreIndexed, IdsAreUsers, IdsAreDistinct,
              AnswersAreStored, Answered, Serving
<1>3. ASSUME NEW i \in Uploads, Arrive(i)
      PROVE  IdIInv'
  <2>1. UNCHANGED idOf
    BY <1>3 DEF Arrive
  <2>2. \E g : Becomes(i, g) /\ (g.at # "answered" \/ g.result # "registered")
    <3>1. CASE Becomes(i, [at |-> "public"])
      BY <3>1
    <3>2. ASSUME NEW user \in Admins, Becomes(i, [at |-> "protected", user |-> user])
          PROVE  \E g : Becomes(i, g) /\ (g.at # "answered" \/ g.result # "registered")
      BY <3>2
    <3>3. ASSUME NEW uid \in Uids, Becomes(i, [at |-> "dialing", uid |-> uid])
          PROVE  \E g : Becomes(i, g) /\ (g.at # "answered" \/ g.result # "registered")
      BY <3>3
    <3>4. CASE Answers(i, "unauthorized")
      BY <3>4 DEF Answers
    <3> QED BY <1>3, <3>1, <3>2, <3>3, <3>4 DEF Arrive
  <2> QED BY <2>1, <2>2, OthersKeepIds
<1>4. ASSUME NEW i \in Uploads, Serve(i), ~GoOnUploading(i), ~CreateUser(i)
      PROVE  IdIInv'
  <2>1. UNCHANGED idOf
    BY <1>4 DEF Serve, Dial, Verify, FindByUID, Reply, RefuseLogin, BeginUpload,
                EndUpload, CountRows, SelectPage, ListFails
  <2>2. \E g : Becomes(i, g) /\ (g.at # "answered" \/ g.result # "registered")
    <3>1. CASE Dial(i) \/ Verify(i) \/ FindByUID(i)
      BY <3>1 DEF Dial, Verify, FindByUID, Answers
    <3>2. CASE Reply(i) \/ RefuseLogin(i)
      BY <3>2 DEF Reply, RefuseLogin, Answers
    <3>3. CASE BeginUpload(i) \/ EndUpload(i)
      BY <3>3 DEF BeginUpload, EndUpload, Answers
    <3>4. CASE CountRows(i) \/ SelectPage(i) \/ ListFails(i)
      BY <3>4 DEF CountRows, SelectPage, ListFails, Answers
    <3> QED BY <1>4, <3>1, <3>2, <3>3, <3>4 DEF Serve
  <2> QED BY <2>1, <2>2, OthersKeepIds
<1>5. ASSUME NEW i \in Uploads, GoOnUploading(i)
      PROVE  IdIInv'
  BY <1>2, <1>5 DEF GoOnUploading
<1> QED BY <1>1, <1>2, <1>3, <1>4, <1>5, CreateUserKeepsIds
        DEF ApiNext, Join, AuthServiceChanges

\* The user has one id, whatever registrations overlap.
THEOREM UidsHaveOneId == ApiSpec => []OneIdPerUid
<1>1. ApiInit => IdIInv
  <2> SUFFICES ASSUME ApiInit PROVE IdIInv
    OBVIOUS
  <2>1. idOf \in [Uids -> Users \cup {NoUser}]
    BY ApiAssumption DEF ApiInit
  <2>2. IdsAreDistinct
    BY ApiAssumption DEF ApiInit, IdsAreDistinct
  <2>3. /\ request = [i \in Uploads |-> request[i]]
        /\ \A i \in Uploads : request[i] = [at |-> "none"]
    BY DEF ApiInit
  <2> QED BY <2>1, <2>2, <2>3 DEF IdIInv, RequestsAreIndexed, IdsAreUsers,
                                  AnswersAreStored, Answered, Serving
<1>2. IdIInv => OneIdPerUid
  BY DEF IdIInv, AnswersAreStored, IdsAreDistinct, OneIdPerUid
<1> QED BY <1>1, <1>2, NextKeepsIds, PTL DEF ApiSpec

-----------------------------------------------------------------------------
(* The listing                                                             *)

CountsAreOld ==
    \A i \in Uploads : Serving(i, "counted") =>
        request[i].total \in Nat /\ request[i].total =< Cardinality(rows)

PageIInv ==
    RequestsAreIndexed /\ IsFiniteSet(rows) /\ CountsAreOld /\ PagesAreNotOverpromised

\* The greater of a number and 0, and the lesser of two numbers.
LEMMA MaxOfZero == ASSUME NEW n \in Nat PROVE Max({0, n}) = n
BY DEF Max

LEMMA MinOfTwo ==
    ASSUME NEW m \in Nat, NEW n \in Nat
    PROVE  Min({m, n}) = IF m =< n THEN m ELSE n
BY DEF Min

\* The first page has all rows, or is full.
LEMMA FirstPage ==
    ASSUME IsFiniteSet(rows)
    PROVE  PageLength(1) = IF PerPage =< Cardinality(rows) THEN PerPage ELSE Cardinality(rows)
<1>1. Cardinality(rows) \in Nat /\ PerPage \in Nat
  BY FS_CardinalityType, ApiAssumption
<1>2. Offset(1) = 0
  BY <1>1 DEF Offset
<1>3. Cardinality(rows) - Offset(1) = Cardinality(rows)
  BY <1>1, <1>2
<1> QED BY <1>1, <1>3, MaxOfZero, MinOfTwo DEF PageLength

\* One page needs a row, two need more rows than fit on one.
LEMMA PagesNeedRows ==
    ASSUME NEW total \in Nat
    PROVE  /\ Pages(total) > 0 => total > 0
           /\ Pages(total) > 1 => total > PerPage
<1>1. PerPage \in Nat /\ PerPage > 0
  BY ApiAssumption
<1>2. ASSUME total = 0 PROVE Pages(total) = 0
  BY <1>1, <1>2 DEF Pages
<1>3. ASSUME total > 0, total =< PerPage PROVE Pages(total) = 1
  BY <1>1, <1>3 DEF Pages
<1> QED BY <1>1, <1>2, <1>3

LEMMA RowsChangeInJoins ==
    ASSUME [ApiNext]_apiVars
    PROVE  rows' = rows \/ \E u : JoinSaves(u)
<1>1. CASE UNCHANGED apiVars \/ AuthServiceChanges
  BY <1>1 DEF apiVars, imageVars, AuthServiceChanges
<1>2. CASE Join
  BY <1>2 DEF Join
<1>3. ASSUME NEW i \in Uploads, Arrive(i)
      PROVE  rows' = rows
  BY <1>3 DEF Arrive, imageVars
<1>4. ASSUME NEW i \in Uploads, Serve(i)
      PROVE  rows' = rows
  <2>1. CASE GoOnUploading(i)
    BY <2>1 DEF GoOnUploading, UploadStep, SaveStream, SaveProfile, Open, Copy,
                UploadReturns, UploadFails
  <2>2. CASE BeginUpload(i)
    BY <2>2 DEF BeginUpload, StreamUpdateHandler, ProfileHandler, Request
  <2>3. CASE Dial(i) \/ Verify(i) \/ FindByUID(i) \/ Reply(i) \/ RefuseLogin(i)
    BY <2>3 DEF Dial, Verify, FindByUID, Reply, RefuseLogin, imageVars
  <2>4. CASE CreateUser(i) \/ EndUpload(i) \/ CountRows(i) \/ SelectPage(i) \/ ListFails(i)
    BY <2>4 DEF CreateUser, EndUpload, CountRows, SelectPage, ListFails, imageVars
  <2> QED BY <1>4, <2>1, <2>2, <2>3, <2>4 DEF Serve
<1> QED BY <1>1, <1>2, <1>3, <1>4 DEF ApiNext

LEMMA RowsGrow ==
    ASSUME IsFiniteSet(rows), [ApiNext]_apiVars
    PROVE  IsFiniteSet(rows') /\ Cardinality(rows) =< Cardinality(rows')
<1>1. CASE rows' = rows
  BY <1>1, FS_CardinalityType
<1>2. ASSUME NEW u, JoinSaves(u)
      PROVE  IsFiniteSet(rows') /\ Cardinality(rows) =< Cardinality(rows')
  <2>1. IsFiniteSet(rows \cup {u})
    BY FS_AddElement
  <2>2. Cardinality(rows \cup {u}) \in {Cardinality(rows), Cardinality(rows) + 1}
    BY FS_AddElement
  <2>3. Cardinality(rows) \in Nat
    BY FS_CardinalityType
  <2>4. Cardinality(rows) =< Cardinality(rows \cup {u})
    BY <2>2, <2>3
  <2>5. rows' = rows \cup {u}
    BY <1>2 DEF JoinSaves
  <2> QED BY <2>1, <2>4, <2>5
<1>3. rows' = rows \/ \E u : JoinSaves(u)
  BY RowsChangeInJoins
<1> QED BY <1>1, <1>2, <1>3

\* What one request does to the listing: nothing, a count, or a page.
LEMMA RequestKeepsPages ==
    ASSUME PageIInv, [ApiNext]_apiVars, NEW i \in Uploads, NEW g, Becomes(i, g),
           \/ g.at # "counted" /\ (g.at # "answered" \/ g.result # "listed")
           \/ g.at = "counted" /\ g.total = Cardinality(rows)
           \/ /\ g.at = "answered" /\ Serving(i, "counted")
              /\ g.pages = Pages(request[i].total) /\ g.listed = PageLength(1)
    PROVE  PageIInv'
<1>1. /\ RequestsAreIndexed'
      /\ \A j \in Uploads : request'[j] = IF j = i THEN g ELSE request[j]
  BY DEF PageIInv, RequestsAreIndexed, Becomes
<1>2. /\ IsFiniteSet(rows')
      /\ Cardinality(rows) \in Nat /\ Cardinality(rows') \in Nat
      /\ Cardinality(rows) =< Cardinality(rows')
  BY RowsGrow, FS_CardinalityType DEF PageIInv
<1>3. CountsAreOld'
  BY <1>1, <1>2 DEF PageIInv, CountsAreOld, Serving
<1>4. ASSUME g.at = "answered", g.result = "listed"
      PROVE  /\ g.pages > 0 => g.listed > 0
             /\ g.pages > 1 => g.listed = PerPage
  <2>1. Serving(i, "counted") /\ g.pages = Pages(request[i].total) /\ g.listed = PageLength(1)
    BY <1>4
  <2>2. request[i].total \in Nat /\ request[i].total =< Cardinality(rows)
    BY <2>1 DEF PageIInv, CountsAreOld
  <2> QED BY <1>2, <2>1, <2>2, PagesNeedRows, FirstPage, ApiAssumption DEF PageIInv
<1>5. PagesAreNotOverpromised'
  BY <1>1, <1>4 DEF PageIInv, PagesAreNotOverpromised, Answered, Serving
<1> QED BY <1>1, <1>2, <1>3, <1>5 DEF PageIInv

LEMMA NextKeepsPages ==
    ASSUME PageIInv, [ApiNext]_apiVars
    PROVE  PageIInv'
<1> DEFINE Lists(i, g) ==
      \/ g.at # "counted" /\ (g.at # "answered" \/ g.result # "listed")
      \/ g.at = "counted" /\ g.total = Cardinality(rows)
      \/ /\ g.at = "answered" /\ Serving(i, "counted")
         /\ g.pages = Pages(request[i].total) /\ g.listed = PageLength(1)
<1>1. CASE UNCHANGED request
  <2>1. IsFiniteSet(rows') /\ Cardinality(rows') \in Nat
        /\ Cardinality(rows) \in Nat /\ Cardinality(rows) =< Cardinality(rows')
    BY RowsGrow, FS_CardinalityType DEF PageIInv
  <2> QED BY <1>1, <2>1 DEF PageIInv, RequestsAreIndexed, CountsAreOld,
                            PagesAreNotOverpromised, Answered, Serving
<1>2. ASSUME NEW i \in Uploads, Arrive(i)
      PROVE  \E g : Becomes(i, g) /\ Lists(i, g)
  <2>1. CASE Becomes(i, [at |-> "public"])
    BY <2>1
  <2>2. ASSUME NEW user \in Admins, Becomes(i, [at |-> "protected", user |-> user])
        PROVE  \E g : Becomes(i, g) /\ Lists(i, g)
    BY <2>2
  <2>3. ASSUME NEW uid \in Uids, Becomes(i, [at |-> "dialing", uid |-> uid])
        PROVE  \E g : Becomes(i, g) /\ Lists(i, g)
    BY <2>3
  <2>4. CASE Answers(i, "unauthorized")
    BY <2>4 DEF Answers
  <2> QED BY <1>2, <2>1, <2>2, <2>3, <2>4 DEF Arrive
<1>3. ASSUME NEW i \in Uploads, Serve(i), ~GoOnUploading(i)
      PROVE  \E g : Becomes(i, g) /\ Lists(i, g)
  <2>1. CASE Dial(i) \/ Verify(i) \/ FindByUID(i)
    BY <2>1 DEF Dial, Verify, FindByUID, Answers
  <2>2. CASE Reply(i) \/ RefuseLogin(i)
    BY <2>2 DEF Reply, RefuseLogin, Answers
  <2>3. CASE CreateUser(i)
    BY <2>3 DEF CreateUser, Answers
  <2>4. CASE BeginUpload(i) \/ EndUpload(i)
    BY <2>4 DEF BeginUpload, EndUpload, Answers
  <2>5. CASE CountRows(i)
    BY <2>5 DEF CountRows
  <2>6. CASE SelectPage(i)
    BY <2>6 DEF SelectPage
  <2>7. CASE ListFails(i)
    BY <2>7 DEF ListFails, Answers
  <2> QED BY <1>3, <2>1, <2>2, <2>3, <2>4, <2>5, <2>6, <2>7 DEF Serve
<1>4. ASSUME NEW i \in Uploads, NEW g, Becomes(i, g), Lists(i, g)
      PROVE  PageIInv'
  BY <1>4, RequestKeepsPages
<1>5. CASE Join \/ AuthServiceChanges \/ UNCHANGED apiVars \/ \E i \in Uploads : GoOnUploading(i)
  BY <1>1, <1>5 DEF Join, AuthServiceChanges, apiVars, GoOnUploading
<1> QED BY <1>2, <1>3, <1>4, <1>5 DEF ApiNext

\* A page is never emptier than the number of pages promises, although the
\* two come from different statements.
THEOREM PagesKeepPromises == ApiSpec => []PagesAreNotOverpromised
<1>1. ApiInit => PageIInv
  <2> SUFFICES ASSUME ApiInit PROVE PageIInv
    OBVIOUS
  <2>1. /\ request = [i \in Uploads |-> request[i]]
        /\ \A i \in Uploads : request[i] = [at |-> "none"]
    BY DEF ApiInit
  <2>2. IsFiniteSet(rows)
    BY FS_EmptySet DEF ApiInit, ImagesInit
  <2> QED BY <2>1, <2>2 DEF PageIInv, RequestsAreIndexed, CountsAreOld,
                            PagesAreNotOverpromised, Answered, Serving
<1>2. PageIInv => PagesAreNotOverpromised
  BY DEF PageIInv
<1> QED BY <1>1, <1>2, NextKeepsPages, PTL DEF ApiSpec

-----------------------------------------------------------------------------
(* Paths                                                                   *)
(*                                                                         *)
(* What idPartition returns is proved by induction over its loop.  The     *)
(* induction is over the members of a set, not over a predicate.           *)

\* A set of numbers has a least one.
LEMMA LeastNatural ==
    ASSUME NEW T, T \subseteq Nat, T # {}
    PROVE  \E x \in T : \A y \in T : x =< y
<1> DEFINE R == OpToRel(<, Nat)
<1>1. IsWellFoundedOn(R, Nat)
  BY NatLessThanWellFounded
<1>2. \A x, y \in Nat : x < y => <<x, y>> \in R
  BY DEF OpToRel
<1> HIDE DEF R
<1>3. \E x \in T : \A y \in T : ~(<<y, x>> \in R)
  BY <1>1, WFMin
<1>4. PICK x \in T : \A y \in T : ~(<<y, x>> \in R)
  BY <1>3
<1>5. ASSUME NEW y \in T PROVE x =< y
  <2>1. ~(y < x)
    BY <1>2, <1>4
  <2> QED BY <2>1
<1> QED BY <1>5

\* Induction, for a set instead of a predicate.
LEMMA SetInduction ==
    ASSUME NEW S, 0 \in S, \A n \in Nat : n \in S => n + 1 \in S
    PROVE  \A n \in Nat : n \in S
<1> SUFFICES ASSUME {n \in Nat : n \notin S} # {} PROVE FALSE
  OBVIOUS
<1>1. PICK x \in {n \in Nat : n \notin S} : \A y \in {n \in Nat : n \notin S} : x =< y
  BY LeastNatural
<1>2. x # 0 /\ x - 1 \in Nat /\ x \in Nat
  BY <1>1
<1>3. x - 1 \in S
  BY <1>1, <1>2
<1> QED BY <1>1, <1>2, <1>3

\* The body of the recursive function in Scan.
ScanRound(idStr, f, pos) ==
    IF pos = 0
    THEN [parts |-> <<>>, acc |-> <<>>, tailLen |-> Len(idStr), broken |-> FALSE]
    ELSE ScanStep(idStr, f[pos - 1], pos)

\* The recursion of Scan defines a function, whatever its length.
LEMMA ScanExists ==
    ASSUME NEW idStr, NEW n \in Nat
    PROVE  \E f : f = [pos \in 0 .. n |-> ScanRound(idStr, f, pos)]
<1> DEFINE S == {k \in Nat : \E f : f = [pos \in 0 .. k |-> ScanRound(idStr, f, pos)]}
<1>1. 0 \in S
  <2> DEFINE f == [pos \in 0 .. 0 |-> ScanRound(idStr, 0, 0)]
  <2>1. f = [pos \in 0 .. 0 |-> ScanRound(idStr, f, pos)]
    <3>1. \A pos \in 0 .. 0 : pos = 0 /\ ScanRound(idStr, 0, 0) = ScanRound(idStr, f, 0)
      BY DEF ScanRound
    <3> QED BY <3>1
  <2> QED BY <2>1
<1>2. ASSUME NEW k \in Nat, k \in S PROVE k + 1 \in S
  <2>1. PICK f : f = [pos \in 0 .. k |-> ScanRound(idStr, f, pos)]
    BY <1>2
  <2> DEFINE g == [pos \in 0 .. k + 1 |-> IF pos = k + 1 THEN ScanRound(idStr, f, k + 1) ELSE f[pos]]
  <2>2. ASSUME NEW pos \in 0 .. k + 1 PROVE ScanRound(idStr, f, pos) = ScanRound(idStr, g, pos)
    <3>1. pos # 0 => pos - 1 \in 0 .. k + 1 /\ pos - 1 # k + 1
      OBVIOUS
    <3>2. pos # 0 => g[pos - 1] = f[pos - 1]
      BY <3>1
    <3> QED BY <3>2 DEF ScanRound
  <2>3. \A pos \in 0 .. k + 1 : pos = k + 1 \/ pos \in 0 .. k
    OBVIOUS
  <2>4. \A pos \in 0 .. k + 1 : g[pos] = ScanRound(idStr, f, pos)
    BY <2>1, <2>3
  <2>5. g = [pos \in 0 .. k + 1 |-> ScanRound(idStr, g, pos)]
    BY <2>2, <2>4
  <2> HIDE DEF g
  <2>6. \E h : h = [pos \in 0 .. k + 1 |-> ScanRound(idStr, h, pos)]
    BY <2>5
  <2> QED BY <2>6
<1> HIDE DEF S
<1>3. n \in S
  BY <1>1, <1>2, SetInduction
<1> QED BY <1>3 DEF S

\* Scan is that function.
LEMMA ScanIs ==
    ASSUME NEW D, NEW idStr \in Seq(D)
    PROVE  Scan(idStr) = [pos \in 0 .. Len(idStr) |-> ScanRound(idStr, Scan(idStr), pos)]
<1>1. \E f : f = [pos \in 0 .. Len(idStr) |-> ScanRound(idStr, f, pos)]
  BY ScanExists, Len(idStr) \in Nat
<1>2. Scan(idStr) = CHOOSE f : f = [pos \in 0 .. Len(idStr) |-> ScanRound(idStr, f, pos)]
  BY DEF Scan, ScanRound
<1> QED BY <1>1, <1>2


\* Strings of digits.
Word == Seq(0 .. 9)

\* w is what idStr has after its first characters, from of them.
Spells(w, idStr, from) ==
    /\ w \in Word
    /\ \A d \in 1 .. Len(w) : w[d] = idStr[from + d]

\* Parts of three characters each, from the beginning of the string.
FullParts(parts, idStr) ==
    /\ parts \in Seq(Word)
    /\ \A k \in 1 .. Len(parts) :
         Len(parts[k]) = 3 /\ Spells(parts[k], idStr, 3 * (k - 1))

\* The parts of a string whose last part is shorter.
CutParts(parts, idStr) ==
    \E full \in Seq(Word), w \in Word :
        /\ parts = Append(full, w)
        /\ FullParts(full, idStr)
        /\ Spells(w, idStr, 3 * Len(full))
        /\ Len(w) \in 1 .. 2
        /\ Len(idStr) = 3 * Len(full) + Len(w)

\* The state of the loop after pos characters.
Goes(idStr, s, pos) ==
    /\ FullParts(s.parts, idStr)
    /\ Spells(s.acc, idStr, 3 * Len(s.parts))
    /\ s.tailLen = Len(idStr) - 3 * Len(s.parts)
    /\ pos = 3 * Len(s.parts) + Len(s.acc)
    /\ Len(s.acc) \in 0 .. 2
    /\ s.tailLen \in 1 .. 2 => Len(s.acc) = 0

\* The invariant of the loop; broken says that it has left by break.
ScanInv(idStr, s, pos) ==
    /\ s = [parts |-> s.parts, acc |-> s.acc, tailLen |-> s.tailLen, broken |-> s.broken]
    /\ s.broken \in BOOLEAN
    /\ s.broken => CutParts(s.parts, idStr)
    /\ ~s.broken => Goes(idStr, s, pos)

\* A part ends at the characters whose number is a multiple of three.
LEMMA PartEnds ==
    ASSUME NEW q \in Nat, NEW r \in 1 .. 3
    PROVE  (3 * q + r) % 3 = 0 <=> r = 3
  OBVIOUS

\* What the arithmetic of the loop comes to.
LEMMA PartGrows ==
    ASSUME NEW q \in Nat, NEW r \in 0 .. 2, NEW len \in Nat
    PROVE  /\ r + 1 \in 1 .. 3
           /\ 3 * q + r + 1 = 3 * q + (r + 1)
           /\ 3 * (q + 1) = 3 * q + 3
           /\ len - 3 * q - 3 = len - 3 * (q + 1)
           /\ imgPartLen = 3 /\ 1 .. (imgPartLen - 1) = 1 .. 2
  BY DEF imgPartLen

\* One more character of the string.
LEMMA WordAppend ==
    ASSUME NEW w, NEW idStr \in Word, NEW from \in Nat, Spells(w, idStr, from),
           from + Len(w) + 1 \in 1 .. Len(idStr)
    PROVE  LET x == Append(w, idStr[from + Len(w) + 1])
           IN  Spells(x, idStr, from) /\ Len(x) = Len(w) + 1
<1> DEFINE c == idStr[from + Len(w) + 1]
<1>1. c \in 0 .. 9 /\ w \in Seq(0 .. 9)
  BY DEF Spells, Word
<1> DEFINE x == Append(w, c)
<1>2. x \in Word /\ Len(x) = Len(w) + 1 /\ Len(w) \in Nat
  BY <1>1 DEF Word
<1>3. \A d \in 1 .. Len(w) + 1 : x[d] = IF d = Len(w) + 1 THEN c ELSE w[d]
  BY <1>1
<1> HIDE DEF x
<1>4. ASSUME NEW d \in 1 .. Len(x) PROVE x[d] = idStr[from + d]
  <2>1. CASE d = Len(w) + 1
    <3>1. from + d = from + Len(w) + 1
      BY <1>2, <2>1
    <3> QED BY <1>2, <1>3, <2>1, <3>1
  <2>2. CASE d \in 1 .. Len(w)
    BY <1>2, <1>3, <2>2 DEF Spells
  <2> QED BY <1>2, <2>1, <2>2
<1> QED BY <1>2, <1>4 DEF Spells, x

\* The rest of the string.
LEMMA WordTail ==
    ASSUME NEW idStr \in Word, NEW from \in Nat, from < Len(idStr)
    PROVE  LET w == SubSeq(idStr, from + 1, Len(idStr))
           IN  Spells(w, idStr, from) /\ Len(w) = Len(idStr) - from
<1> DEFINE w == SubSeq(idStr, from + 1, Len(idStr))
<1>1. w \in Word /\ Len(w) = Len(idStr) - from
  BY DEF Word
<1>2. \A d \in 1 .. Len(idStr) - from : w[d] = idStr[from + d]
  BY DEF Word
<1> QED BY <1>1, <1>2 DEF Spells

\* One more full part.
LEMMA PartsAppend ==
    ASSUME NEW parts, NEW w, NEW idStr, FullParts(parts, idStr),
           Len(w) = 3, Spells(w, idStr, 3 * Len(parts))
    PROVE  FullParts(Append(parts, w), idStr) /\ Len(Append(parts, w)) = Len(parts) + 1
<1> DEFINE x == Append(parts, w)
<1>1. parts \in Seq(Word) /\ w \in Word
  BY DEF FullParts, Spells
<1>2. x \in Seq(Word) /\ Len(x) = Len(parts) + 1 /\ Len(parts) \in Nat
  BY <1>1
<1>3. \A k \in 1 .. Len(parts) + 1 : x[k] = IF k = Len(parts) + 1 THEN w ELSE parts[k]
  BY <1>1
<1> HIDE DEF x
<1>4. ASSUME NEW k \in 1 .. Len(x)
      PROVE  Len(x[k]) = 3 /\ Spells(x[k], idStr, 3 * (k - 1))
  <2>1. CASE k = Len(parts) + 1
    <3>1. 3 * (k - 1) = 3 * Len(parts)
      BY <1>2, <2>1
    <3> QED BY <1>2, <1>3, <2>1, <3>1
  <2>2. CASE k \in 1 .. Len(parts)
    <3>1. x[k] = parts[k]
      BY <1>2, <1>3, <2>2
    <3> QED BY <2>2, <3>1 DEF FullParts
  <2> QED BY <1>2, <2>1, <2>2
<1> QED BY <1>2, <1>4 DEF FullParts, x

\* The loop begins right, ...
LEMMA ScanStart ==
    ASSUME NEW idStr \in Word, NEW f
    PROVE  ScanInv(idStr, ScanRound(idStr, f, 0), 0)
<1> DEFINE s == ScanRound(idStr, f, 0)
<1>1. s = [parts |-> <<>>, acc |-> <<>>, tailLen |-> Len(idStr), broken |-> FALSE]
  BY DEF ScanRound
<1>2. FullParts(<<>>, idStr)
  BY DEF FullParts
<1>3. Spells(<<>>, idStr, 3 * 0)
  BY DEF Spells, Word
<1>4. Len(idStr) \in Nat
  BY DEF Word
<1>5. /\ s.parts = <<>> /\ s.acc = <<>> /\ s.tailLen = Len(idStr) /\ s.broken = FALSE
      /\ s = [parts |-> s.parts, acc |-> s.acc, tailLen |-> s.tailLen, broken |-> s.broken]
  BY <1>1
<1> HIDE DEF s
<1>6. Goes(idStr, s, 0)
  <2>1. Len(s.parts) = 0 /\ Len(s.acc) = 0
    BY <1>5
  <2>2. s.tailLen = Len(idStr) - 3 * 0 /\ 0 = 3 * 0 + 0 /\ 0 \in 0 .. 2
    BY <1>4, <1>5
  <2> QED BY <1>2, <1>3, <1>5, <2>1, <2>2 DEF Goes
<1>7. ScanInv(idStr, s, 0)
  BY <1>5, <1>6 DEF ScanInv
<1> QED BY <1>7 DEF s

\* ... each round keeps it right, ...
LEMMA ScanKeeps ==
    ASSUME NEW idStr \in Word, NEW pos \in 1 .. Len(idStr),
           NEW s, ScanInv(idStr, s, pos - 1)
    PROVE  ScanInv(idStr, ScanStep(idStr, s, pos), pos)
<1>1. CASE s.broken
  BY <1>1 DEF ScanStep, ScanInv
<1>2. CASE ~s.broken
  <2> DEFINE acc == Append(s.acc, idStr[pos])
             tail == SubSeq(idStr, pos, Len(idStr))
             n == Len(s.parts)
             len == Len(idStr)
             a == Len(s.acc)
  <2>1. PICK parts, old, left :
          s = [parts |-> parts, acc |-> old, tailLen |-> left, broken |-> FALSE]
    BY <1>2 DEF ScanInv
  <2>2. s.parts = parts /\ s.acc = old /\ s.tailLen = left /\ s.broken = FALSE
    BY <2>1
  <2>3. FullParts(parts, idStr) /\ parts \in Seq(Word)
    BY <1>2, <2>2 DEF ScanInv, Goes, FullParts
  <2>4. Spells(old, idStr, 3 * n) /\ old \in Word
    BY <1>2, <2>2 DEF ScanInv, Goes, Spells
  <2>5. n \in Nat /\ a \in Nat /\ len \in Nat /\ n = Len(parts) /\ a = Len(old) /\ pos \in Nat
    BY <2>2, <2>3, <2>4 DEF Word
  <2>6. /\ left = len - 3 * n
        /\ pos - 1 = 3 * n + a
        /\ a \in 0 .. 2
        /\ left \in 1 .. 2 => a = 0
    BY <1>2, <2>2 DEF ScanInv, Goes
  <2>7. 1 =< pos /\ pos =< len
    BY <2>5
  <2> HIDE DEF n, a, len
  <2>8. pos = 3 * n + a + 1 /\ 3 * n \in Nat
    BY <2>5, <2>6
  <2>9. Spells(acc, idStr, 3 * n) /\ Len(acc) = a + 1
    BY <2>2, <2>4, <2>5, <2>7, <2>8, WordAppend DEF len
  <2> HIDE DEF acc
  <2>10. pos = 3 * n + Len(acc) /\ Len(acc) \in 1 .. 3
    <3>1. a + 1 \in 1 .. 3 /\ 3 * n + a + 1 = 3 * n + (a + 1)
      BY <2>5, <2>6, PartGrows
    <3>2. pos = 3 * n + (a + 1)
      BY <2>8, <3>1
    <3> QED BY <2>9, <3>1, <3>2
  <2>11. pos % 3 = 0 <=> Len(acc) = 3
    BY <2>5, <2>10, PartEnds
  <2>12. CASE pos % 3 = 0
    <3> DEFINE more == Append(parts, acc)
               t == [parts |-> more, acc |-> <<>>, tailLen |-> left - 3, broken |-> FALSE]
    <3>1. ScanStep(idStr, s, pos) = t
      BY <2>1, <2>2, <2>12 DEF ScanStep, imgPartLen, acc
    <3>2. FullParts(more, idStr) /\ Len(more) = n + 1
      BY <2>3, <2>5, <2>9, <2>11, <2>12, PartsAppend
    <3>3. Spells(<<>>, idStr, 3 * (n + 1)) /\ Len(<<>>) = 0
      BY DEF Spells, Word
    <3>4. left - 3 = len - 3 * (n + 1) /\ pos = 3 * (n + 1) + 0 /\ 0 \in 0 .. 2
      <4>1. left - 3 = len - 3 * (n + 1)
        BY <2>5, <2>6, PartGrows
      <4>2. pos = 3 * n + 3
        BY <2>5, <2>10, <2>11, <2>12
      <4>3. pos = 3 * (n + 1) + 0
        BY <2>5, <4>2
      <4> QED BY <4>1, <4>3
    <3> HIDE DEF more
    <3>5. /\ t.parts = more /\ t.acc = <<>> /\ t.tailLen = left - 3 /\ t.broken = FALSE
          /\ t = [parts |-> t.parts, acc |-> t.acc, tailLen |-> t.tailLen, broken |-> t.broken]
      OBVIOUS
    <3> HIDE DEF t
    <3>6. Goes(idStr, t, pos)
      BY <3>2, <3>3, <3>4, <3>5 DEF Goes, len
    <3> QED BY <3>1, <3>5, <3>6 DEF ScanInv
  <2>13. CASE pos % 3 # 0 /\ left \in 1 .. 2
    <3> DEFINE more == Append(parts, tail)
               t == [parts |-> more, acc |-> old, tailLen |-> left, broken |-> TRUE]
    <3>1. ScanStep(idStr, s, pos) = t
      BY <2>1, <2>2, <2>5, <2>6, <2>13, PartGrows DEF ScanStep
    <3>2. pos = 3 * n + 1 /\ 3 * n < len
      BY <2>5, <2>6, <2>7, <2>8, <2>13
    <3>3. Spells(tail, idStr, 3 * n) /\ Len(tail) = len - 3 * n
      BY <2>8, <3>2, WordTail DEF len
    <3> HIDE DEF tail
    <3>4. Len(tail) \in 1 .. 2 /\ len = 3 * n + Len(tail)
      BY <2>5, <2>6, <2>13, <3>3
    <3>5. CutParts(more, idStr)
      BY <2>3, <2>5, <3>3, <3>4 DEF CutParts, Spells, len
    <3> HIDE DEF more
    <3>6. /\ t.parts = more /\ t.broken = TRUE
          /\ t = [parts |-> t.parts, acc |-> t.acc, tailLen |-> t.tailLen, broken |-> t.broken]
      OBVIOUS
    <3> HIDE DEF t
    <3> QED BY <3>1, <3>5, <3>6 DEF ScanInv
  <2>14. CASE pos % 3 # 0 /\ left \notin 1 .. 2
    <3> DEFINE t == [parts |-> parts, acc |-> acc, tailLen |-> left, broken |-> FALSE]
    <3>1. ScanStep(idStr, s, pos) = t
      BY <2>1, <2>2, <2>5, <2>6, <2>14, PartGrows DEF ScanStep, acc
    <3>2. Len(acc) \in 0 .. 2
      BY <2>10, <2>11, <2>14
    <3>3. /\ t.parts = parts /\ t.acc = acc /\ t.tailLen = left /\ t.broken = FALSE
          /\ t = [parts |-> t.parts, acc |-> t.acc, tailLen |-> t.tailLen, broken |-> t.broken]
      OBVIOUS
    <3> HIDE DEF t
    <3>4. Goes(idStr, t, pos)
      BY <2>3, <2>5, <2>6, <2>9, <2>10, <2>14, <3>2, <3>3 DEF Goes, len
    <3> QED BY <3>1, <3>3, <3>4 DEF ScanInv
  <2> QED BY <2>12, <2>13, <2>14
<1> QED BY <1>1, <1>2

\* ... and at the end nothing of the string is left.
LEMMA ScanEnds ==
    ASSUME NEW idStr \in Word, Len(idStr) > 0, NEW s, ScanInv(idStr, s, Len(idStr))
    PROVE  \/ CutParts(s.parts, idStr)
           \/ FullParts(s.parts, idStr) /\ Len(idStr) = 3 * Len(s.parts)
<1>1. CASE s.broken
  BY <1>1 DEF ScanInv
<1>2. CASE ~s.broken
  <2>1. /\ FullParts(s.parts, idStr)
        /\ Len(s.parts) \in Nat
        /\ s.tailLen = Len(idStr) - 3 * Len(s.parts)
        /\ Len(idStr) = 3 * Len(s.parts) + Len(s.acc)
        /\ Len(s.acc) \in 0 .. 2
        /\ s.tailLen \in 1 .. 2 => Len(s.acc) = 0
    BY <1>2 DEF ScanInv, Goes, FullParts
  <2>2. Len(s.acc) = 0
    BY <2>1
  <2> QED BY <2>1, <2>2
<1> QED BY <1>1, <1>2

\* What PathsSpellIds says of one path.
Spelling(parts, idStr) ==
    /\ parts \in Seq(Word)
    /\ Len(parts) > 0
    /\ \A k \in DOMAIN parts : Len(parts[k]) \in 1 .. 3
    /\ \A k \in DOMAIN parts : k < Len(parts) => Len(parts[k]) = 3
    /\ Len(idStr) = 3 * (Len(parts) - 1) + Len(parts[Len(parts)])
    /\ \A k \in DOMAIN parts : \A d \in 1 .. Len(parts[k]) :
          parts[k][d] = idStr[3 * (k - 1) + d]

\* The parts of a string spell it.
LEMMA PartitionSpells ==
    ASSUME NEW idStr \in Word, Len(idStr) > 0
    PROVE  Spelling(Partition(idStr), idStr)
<1> DEFINE len == Len(idStr)
           scan == Scan(idStr)
           S == {n \in Nat : n =< len => ScanInv(idStr, scan[n], n)}
<1>1. len \in Nat
  BY DEF Word
<1>2. scan = [pos \in 0 .. len |-> ScanRound(idStr, scan, pos)]
  BY ScanIs DEF Word
<1> HIDE DEF scan
<1>3. 0 \in S
  BY <1>1, <1>2, ScanStart
<1>4. ASSUME NEW n \in Nat, n \in S PROVE n + 1 \in S
  <2> SUFFICES ASSUME n + 1 =< len PROVE ScanInv(idStr, scan[n + 1], n + 1)
    OBVIOUS
  <2>1. ScanInv(idStr, scan[n], n)
    BY <1>1, <1>4
  <2>2. n + 1 \in 0 .. len /\ n + 1 \in 1 .. len /\ n + 1 # 0 /\ n = (n + 1) - 1
    BY <1>1
  <2>3. scan[n + 1] = ScanStep(idStr, scan[n], n + 1)
    BY <1>2, <2>2 DEF ScanRound
  <2> QED BY <2>1, <2>2, <2>3, ScanKeeps
<1>5. ScanInv(idStr, scan[len], len)
  <2> HIDE DEF S
  <2>1. len \in S
    BY <1>1, <1>3, <1>4, SetInduction
  <2> QED BY <1>1, <2>1 DEF S
<1> DEFINE parts == scan[len].parts
<1>6. Partition(idStr) = parts
  BY DEF Partition, scan
<1>7. \/ CutParts(parts, idStr)
      \/ FullParts(parts, idStr) /\ len = 3 * Len(parts)
  BY <1>5, ScanEnds
<1> HIDE DEF parts
<1>8. CASE FullParts(parts, idStr) /\ len = 3 * Len(parts)
  <2>1. Len(parts) \in Nat /\ parts \in Seq(Word) /\ DOMAIN parts = 1 .. Len(parts)
    BY <1>8 DEF FullParts
  <2>2. Len(parts) > 0 /\ Len(parts[Len(parts)]) = 3
    BY <1>8, <2>1 DEF FullParts
  <2> QED BY <1>6, <1>8, <2>1, <2>2 DEF FullParts, Spells, Spelling
<1>9. CASE CutParts(parts, idStr)
  <2>1. PICK full \in Seq(Word), w \in Word :
          /\ parts = Append(full, w)
          /\ FullParts(full, idStr)
          /\ Spells(w, idStr, 3 * Len(full))
          /\ Len(w) \in 1 .. 2
          /\ Len(idStr) = 3 * Len(full) + Len(w)
    BY <1>9 DEF CutParts
  <2> DEFINE n == Len(full)
  <2>2. /\ n \in Nat /\ parts \in Seq(Word) /\ Len(parts) = n + 1
        /\ DOMAIN parts = 1 .. n + 1
        /\ \A k \in 1 .. n + 1 : parts[k] = IF k = n + 1 THEN w ELSE full[k]
    BY <2>1
  <2>3. ASSUME NEW k \in 1 .. n + 1
        PROVE  /\ Len(parts[k]) \in 1 .. 3
               /\ k < n + 1 => Len(parts[k]) = 3
               /\ \A d \in 1 .. Len(parts[k]) : parts[k][d] = idStr[3 * (k - 1) + d]
    <3>1. CASE k = n + 1
      <4>1. 3 * (k - 1) = 3 * n
        BY <2>2, <3>1
      <4> QED BY <2>1, <2>2, <3>1, <4>1 DEF Spells
    <3>2. CASE k \in 1 .. n
      <4>1. parts[k] = full[k]
        BY <2>2, <3>2
      <4> QED BY <2>1, <3>2, <4>1 DEF FullParts, Spells
    <3> QED BY <2>2, <3>1, <3>2
  <2>4. len = 3 * (Len(parts) - 1) + Len(parts[Len(parts)])
    <3>1. parts[n + 1] = w /\ Len(parts) = n + 1 /\ (n + 1) - 1 = n
      BY <2>2
    <3> QED BY <2>1, <3>1
  <2>5. Len(parts) > 0 /\ \A k \in DOMAIN parts : k < Len(parts) => k < n + 1
    BY <2>2
  <2>6. /\ \A k \in DOMAIN parts : Len(parts[k]) \in 1 .. 3
        /\ \A k \in DOMAIN parts : k < Len(parts) => Len(parts[k]) = 3
        /\ \A k \in DOMAIN parts : \A d \in 1 .. Len(parts[k]) :
              parts[k][d] = idStr[3 * (k - 1) + d]
    BY <2>2, <2>3, <2>5
  <2> HIDE DEF n
  <2> QED BY <1>6, <2>2, <2>4, <2>5, <2>6 DEF Spelling
<1> QED BY <1>7, <1>8, <1>9


\* The digits of a padded id.
LEMMA PaddedIs ==
    ASSUME NEW id \in Word
    PROVE  /\ Padded(id) \in Word
           /\ Len(Padded(id)) = IF Len(id) < 9 THEN 9 ELSE Len(id)
           /\ \A i \in 1 .. Len(Padded(id)) :
                Padded(id)[i] = IF Len(id) < 9
                                THEN IF i =< 9 - Len(id) THEN 0 ELSE id[i - (9 - Len(id))]
                                ELSE id[i]
<1>1. Len(id) \in Nat /\ id \in Seq(0 .. 9)
  BY DEF Word
<1>2. CASE ~(Len(id) < 9)
  BY <1>1, <1>2 DEF Padded
<1>3. CASE Len(id) < 9
  <2> DEFINE n == 9 - Len(id)
             z == [i \in 1 .. n |-> 0]
  <2>1. n \in Nat /\ n + Len(id) = 9
    BY <1>1, <1>3
  <2> HIDE DEF n
  <2>2. z \in Seq(0 .. 9) /\ Len(z) = n
    BY <2>1
  <2>3. z \o id \in Seq(0 .. 9) /\ Len(z \o id) = 9
    BY <1>1, <2>1, <2>2
  <2>4. \A i \in 1 .. 9 : (z \o id)[i] = IF i =< n THEN z[i] ELSE id[i - n]
    BY <1>1, <2>1, <2>2
  <2>5. \A i \in 1 .. 9 : i =< n => z[i] = 0
    BY <2>1
  <2> HIDE DEF z
  <2>6. Padded(id) = z \o id
    BY <1>3 DEF Padded, n, z
  <2> QED BY <1>3, <2>3, <2>4, <2>5, <2>6 DEF Word, n
<1> QED BY <1>2, <1>3

\* Numbers are padded to different strings, unless they are the same.
\* Where the zeros before a shorter number meet a digit of a longer one.
LEMMA PaddingMeets ==
    ASSUME NEW x \in Nat, NEW y \in Nat, x > 0, y > 0, x < y,
           (IF x < 9 THEN 9 ELSE x) = IF y < 9 THEN 9 ELSE y
    PROVE  LET i == 10 - y
           IN  /\ x < 9 /\ (y < 9 \/ y = 9)
               /\ i \in 1 .. 9 /\ i =< 9 - x /\ ~(i =< 9 - y) /\ i - (9 - y) = 1
               /\ y = 9 => i = 1 /\ ~(y < 9)
  OBVIOUS

LEMMA PaddingIsInjective ==
    ASSUME NEW a \in Word, NEW b \in Word, Len(a) > 0, Len(b) > 0, a[1] # 0, b[1] # 0,
           Padded(a) = Padded(b)
    PROVE  a = b
<1>1. Len(a) \in Nat /\ Len(b) \in Nat
  BY DEF Word
<1>2. Len(a) = Len(b)
  <2>1. ASSUME NEW x \in Word, NEW y \in Word, Len(x) > 0, Len(y) > 0, y[1] # 0,
               Padded(x) = Padded(y), Len(x) < Len(y)
        PROVE  FALSE
    <3> DEFINE i == 10 - Len(y)
               lx == Len(x)
               ly == Len(y)
    <3>1. lx \in Nat /\ ly \in Nat /\ lx > 0 /\ ly > 0 /\ lx < ly
      BY <2>1 DEF Word
    <3>2. /\ lx < 9 /\ (ly < 9 \/ ly = 9)
          /\ i \in 1 .. 9 /\ i =< 9 - lx /\ ~(i =< 9 - ly) /\ i - (9 - ly) = 1
          /\ ly = 9 => i = 1 /\ ~(ly < 9)
      <4>1. (IF lx < 9 THEN 9 ELSE lx) = IF ly < 9 THEN 9 ELSE ly
        BY <2>1, PaddedIs
      <4> HIDE DEF lx
      <4> QED BY <3>1, <4>1, PaddingMeets
    <3> HIDE DEF i
    <3>3. Len(Padded(x)) = 9
      BY <3>2, PaddedIs
    <3>4. Padded(x)[i] = 0
      BY <3>2, <3>3, PaddedIs
    <3>5. i \in 1 .. Len(Padded(y))
      BY <2>1, <3>2, <3>3
    <3>6. CASE ly < 9
      <4>1. Padded(y)[i] = y[i - (9 - Len(y))]
        BY <3>2, <3>5, <3>6, PaddedIs
      <4> QED BY <2>1, <3>2, <3>4, <4>1
    <3>7. CASE ly = 9
      <4>1. Padded(y)[i] = y[i] /\ i = 1
        BY <3>2, <3>5, <3>7, PaddedIs
      <4> QED BY <2>1, <3>4, <4>1
    <3> QED BY <3>2, <3>6, <3>7
  <2>2. ~(Len(a) < Len(b)) /\ ~(Len(b) < Len(a))
    BY <2>1
  <2> QED BY <1>1, <2>2
<1>3. ASSUME NEW i \in 1 .. Len(a) PROVE a[i] = b[i]
  <2>1. CASE ~(Len(a) < 9)
    BY <1>1, <1>2, <2>1, PaddedIs
  <2>2. CASE Len(a) < 9
    <3> DEFINE j == i + (9 - Len(a))
    <3>1. j \in 1 .. 9 /\ ~(j =< 9 - Len(a)) /\ j - (9 - Len(a)) = i
      BY <1>1, <2>2
    <3> HIDE DEF j
    <3>2. Len(Padded(a)) = 9 /\ Len(Padded(b)) = 9 /\ Len(b) < 9
      BY <1>2, <2>2, PaddedIs
    <3>3. Padded(a)[j] = a[i] /\ Padded(b)[j] = b[i]
      BY <1>2, <2>2, <3>1, <3>2, PaddedIs
    <3> QED BY <3>3
  <2> QED BY <2>1, <2>2
<1> QED BY <1>2, <1>3 DEF Word

\* Parts spell one string only.
LEMMA SpellingIsUnique ==
    ASSUME NEW parts, NEW a \in Word, NEW b \in Word, Spelling(parts, a), Spelling(parts, b)
    PROVE  a = b
<1> DEFINE n == Len(parts)
           l == Len(parts[n])
<1>1. n \in Nat /\ n > 0 /\ DOMAIN parts = 1 .. n
  BY DEF Spelling
<1>2. l \in 1 .. 3 /\ Len(a) = 3 * (n - 1) + l /\ Len(b) = 3 * (n - 1) + l
  BY <1>1 DEF Spelling
<1>3. ASSUME NEW i \in 1 .. Len(a) PROVE a[i] = b[i]
  <2>1. Len(a) \in Nat /\ i \in Nat /\ 1 =< i /\ i =< 3 * (n - 1) + l
    <3>1. Len(a) \in Nat
      BY DEF Word
    <3> HIDE DEF n, l
    <3> QED BY <1>2, <3>1
  <2> HIDE DEF n, l
  <2>2. PICK q \in Nat, d \in 1 .. 3 : i = 3 * q + d
    <3> DEFINE q == (i - 1) \div 3
    <3>1. q \in Nat /\ 3 * q =< i - 1 /\ i - 1 < 3 * q + 3
      BY <2>1
    <3> HIDE DEF q
    <3>2. i - 3 * q \in 1 .. 3 /\ i = 3 * q + (i - 3 * q)
      BY <2>1, <3>1
    <3> QED BY <3>1, <3>2
  <2>3. q + 1 \in 1 .. n /\ (q + 1 = n => d =< l)
    <3>1. q =< n - 1
      BY <1>1, <1>2, <2>1, <2>2
    <3> QED BY <1>1, <1>2, <2>1, <2>2, <3>1
  <2>4. d \in 1 .. Len(parts[q + 1])
    <3>1. CASE q + 1 = n
      BY <1>2, <2>3, <3>1 DEF l
    <3>2. CASE q + 1 < n
      BY <1>1, <2>3, <3>2 DEF Spelling, n
    <3> QED BY <1>1, <2>2, <2>3, <3>1, <3>2
  <2>5. i = 3 * ((q + 1) - 1) + d
    BY <2>2
  <2> QED BY <1>1, <2>3, <2>4, <2>5 DEF Spelling
<1> HIDE DEF n, l
<1>4. Len(a) = Len(b)
  BY <1>2
<1> QED BY <1>3, <1>4 DEF Word

\* idPartition of every id that a row or a profile may have.
LEMMA PathsAreSpelled ==
    ASSUME NEW id \in Word
    PROVE  Spelling(Partition(Padded(id)), Padded(id))
<1>1. Padded(id) \in Word /\ Len(Padded(id)) > 0
  <2>1. Len(id) \in Nat
    BY DEF Word
  <2>2. Padded(id) \in Word /\ Len(Padded(id)) = IF Len(id) < 9 THEN 9 ELSE Len(id)
    BY PaddedIs
  <2> QED BY <2>1, <2>2
<1> QED BY <1>1, PartitionSpells

-----------------------------------------------------------------------------
(* Uploads                                                                 *)

UploadIds == {SessionId(u) : u \in Users} \cup {ProfileId, <<>>}

LEMMA IdsAreWords == \A id \in UploadIds : id \in Word
<1>1. \A u \in Users : SessionId(u) \in Word
  BY ImagesAssumption DEF Word
<1>2. ProfileId \in Word /\ <<>> \in Word
  BY DEF ProfileId, Word
<1> QED BY <1>1, <1>2 DEF UploadIds

\* Two rows of sessions have two paths, since no id begins with a zero.
LEMMA RowsHaveTheirOwnPaths ==
    \A u, v \in Users : IdPartition[SessionId(u)] = IdPartition[SessionId(v)] => u = v
<1> SUFFICES ASSUME NEW u \in Users, NEW v \in Users,
                    IdPartition[SessionId(u)] = IdPartition[SessionId(v)]
             PROVE  u = v
  OBVIOUS
<1> DEFINE a == SessionId(u)
           b == SessionId(v)
<1>1. a \in Word /\ b \in Word /\ Len(a) > 0 /\ Len(b) > 0 /\ a[1] # 0 /\ b[1] # 0
  BY ImagesAssumption DEF Word
<1>2. Partition(Padded(a)) = Partition(Padded(b))
  BY DEF IdPartition
<1> HIDE DEF a, b
<1>3. Padded(a) \in Word /\ Padded(b) \in Word
  BY <1>1, PaddedIs
<1>4. Padded(a) = Padded(b)
  BY <1>1, <1>2, <1>3, PathsAreSpelled, SpellingIsUnique
<1>5. a = b
  BY <1>1, <1>4, PaddingIsInjective
<1> QED BY <1>5, ImagesAssumption DEF a, b

Paths == [kind : Kinds, parts : {IdPartition[id] : id \in UploadIds}, ext : Exts]

Running == [at : States \ {"none"}, kind : Kinds, user : Users, id : UploadIds, ext : Exts,
            size : 1 .. MaxSize, written : 0 .. MaxSize, path : Paths \cup {NoPath}]

UploadsOK == upload \in [Uploads -> {[at |-> "none"]} \cup Running]

TablesOK ==
    /\ rows \in SUBSET Users
    /\ filename \in [Users -> Exts \cup {NoExt}]
    /\ savedBy \in [Users -> 0 .. MaxUploads]

FilesOK ==
    /\ files = [p \in DOMAIN files |-> files[p]]
    /\ \A p \in DOMAIN files : files[p] \in Seq(Uploads) /\ Len(files[p]) =< MaxSize

\* A cover has the id of a row, or no id.
IdsOK ==
    \A i \in Uploads : upload[i].at # "none" /\ upload[i].kind = "stream" =>
        \/ upload[i].id = <<>>
        \/ upload[i].id = SessionId(upload[i].user) /\ upload[i].user \in rows

\* The file is opened after Save, under the path of the id.
ProgressOf(i) ==
    /\ upload[i].at \in {"found", "saved"} => upload[i].path = NoPath /\ upload[i].written = 0
    /\ upload[i].at \in {"copying", "done"} => upload[i].path # NoPath
    /\ upload[i].written =< upload[i].size
    /\ upload[i].path # NoPath => /\ upload[i].path = PathOf(i)
                                  /\ upload[i].id # <<>>
                                  /\ upload[i].path \in DOMAIN files
                                  /\ upload[i].written =< Len(files[upload[i].path])

ProgressOK == \A i \in Uploads : upload[i].at # "none" => ProgressOf(i)

\* A chunk is from a request that has opened the file it is in.
ChunksOK ==
    \A p \in DOMAIN files : \A k \in DOMAIN files[p] :
        /\ upload[files[p][k]].at # "none"
        /\ upload[files[p][k]].path = p
        /\ p # NoPath

\* The file name in a row is that of the request which has saved it.
SaversOK ==
    \A u \in Users : savedBy[u] # 0 =>
        /\ upload[savedBy[u]].at \notin {"none", "found"}
        /\ upload[savedBy[u]].kind = "stream"
        /\ upload[savedBy[u]].id = SessionId(u)
        /\ upload[savedBy[u]].ext = filename[u]

UploadIInv ==
    UploadsOK /\ TablesOK /\ FilesOK /\ IdsOK /\ ProgressOK /\ ChunksOK /\ SaversOK

\* Request i goes on with r; what it has been asked for stays the same.
Proceeds(i, r) ==
    /\ upload[i] \in Running
    /\ r \in Running
    /\ upload' = [upload EXCEPT ![i] = r]
    /\ r.kind = upload[i].kind /\ r.user = upload[i].user /\ r.ext = upload[i].ext
    /\ r.size = upload[i].size
    /\ r.id = upload[i].id \/ (r.kind = "profile" /\ upload[i].path = NoPath)
    /\ (r.path = upload[i].path \/ upload[i].path = NoPath)
    /\ r.at # "found"

LEMMA ProceedsOK ==
    ASSUME UploadIInv, NEW i \in Uploads, NEW r, Proceeds(i, r)
    PROVE  UploadsOK' /\ \A j \in Uploads : upload'[j] = IF j = i THEN r ELSE upload[j]
BY DEF UploadIInv, UploadsOK, Proceeds

\* A chunk keeps its writer.
LEMMA ProceedsKeepsChunk ==
    ASSUME UploadIInv, NEW i \in Uploads, NEW r, Proceeds(i, r),
           NEW p \in DOMAIN files, NEW k \in DOMAIN files[p]
    PROVE  /\ upload'[files[p][k]].at # "none"
           /\ upload'[files[p][k]].path = p
           /\ p # NoPath
<1>1. \A j \in Uploads : upload'[j] = IF j = i THEN r ELSE upload[j]
  BY ProceedsOK
<1>2. files[p][k] \in Uploads
  BY DEF UploadIInv, FilesOK
<1>3. upload[files[p][k]].at # "none" /\ upload[files[p][k]].path = p /\ p # NoPath
  BY DEF UploadIInv, ChunksOK
<1>4. r.at # "none"
  BY DEF Proceeds, Running
<1> QED BY <1>1, <1>2, <1>3, <1>4 DEF Proceeds

LEMMA ProceedsKeepsChunks ==
    ASSUME UploadIInv, NEW i \in Uploads, NEW r, Proceeds(i, r), UNCHANGED files
    PROVE  FilesOK' /\ ChunksOK'
BY ProceedsKeepsChunk DEF UploadIInv, FilesOK, ChunksOK

\* Rows keep the requests that have saved them.
LEMMA ProceedsKeepsSavers ==
    ASSUME UploadIInv, NEW i \in Uploads, NEW r, Proceeds(i, r),
           NEW u \in Users, savedBy[u] # 0, savedBy'[u] = savedBy[u], filename'[u] = filename[u]
    PROVE  /\ upload'[savedBy'[u]].at \notin {"none", "found"}
           /\ upload'[savedBy'[u]].kind = "stream"
           /\ upload'[savedBy'[u]].id = SessionId(u)
           /\ upload'[savedBy'[u]].ext = filename'[u]
<1>1. \A j \in Uploads : upload'[j] = IF j = i THEN r ELSE upload[j]
  BY ProceedsOK
<1>2. savedBy[u] \in Uploads
  BY DEF UploadIInv, TablesOK, Uploads
<1>3. r.at \notin {"none", "found"}
  BY DEF Proceeds, Running
<1> QED BY <1>1, <1>2, <1>3 DEF Proceeds, UploadIInv, SaversOK

\* The steps that change the request only.
LEMMA QuietStepKeepsUploads ==
    ASSUME UploadIInv, NEW i \in Uploads, NEW r, Proceeds(i, r),
           UNCHANGED <<rows, filename, savedBy, files>>, r.path = upload[i].path,
           r.written = upload[i].written,
           r.at \in {"copying", "done"} => upload[i].at = "copying",
           r.at = "saved" => upload[i].at = "found"
    PROVE  UploadIInv'
<1>1. UploadsOK' /\ \A j \in Uploads : upload'[j] = IF j = i THEN r ELSE upload[j]
  BY ProceedsOK
<1>2. TablesOK'
  BY DEF UploadIInv, TablesOK
<1>3. IdsOK'
  BY <1>1 DEF UploadIInv, IdsOK, Proceeds, Running
<1>4. ProgressOK'
  <2> SUFFICES ASSUME NEW j \in Uploads, upload'[j].at # "none"
               PROVE  ProgressOf(j)'
    BY DEF ProgressOK
  <2>1. CASE j # i
    BY <1>1, <2>1 DEF UploadIInv, ProgressOK, ProgressOf, PathOf
  <2>2. CASE j = i
    <3>1. upload[i].at # "none" /\ upload'[i] = r /\ ProgressOf(i)
      BY <1>1, <2>2 DEF UploadIInv, ProgressOK, Proceeds, Running
    <3>2. upload[i].path # NoPath => PathOf(i)' = PathOf(i) /\ r.id = upload[i].id
      BY <3>1 DEF PathOf, Proceeds
    <3>3. r.at \in {"found", "saved"} => upload[i].at = "found"
      BY DEF Proceeds
    <3> QED BY <2>2, <3>1, <3>2, <3>3 DEF ProgressOf, Proceeds
  <2> QED BY <2>1, <2>2
<1>5. SaversOK'
  BY ProceedsKeepsSavers DEF SaversOK
<1> QED BY <1>1, <1>2, <1>3, <1>4, <1>5, ProceedsKeepsChunks DEF UploadIInv

LEMMA SaveStreamKeepsUploads ==
    ASSUME UploadIInv, NEW i \in Uploads, SaveStream(i)
    PROVE  UploadIInv' /\ \E r : Proceeds(i, r)
<1> DEFINE r == [upload[i] EXCEPT !.at = "saved"]
<1>1. upload[i] \in Running
  BY DEF SaveStream, At, UploadIInv, UploadsOK
<1>2. /\ Proceeds(i, r)
      /\ r.at = "saved" /\ r.id = upload[i].id /\ r.path = upload[i].path
      /\ r.written = upload[i].written
  <2>1. r \in Running
    BY <1>1 DEF Running, States
  <2>2. /\ r.at = "saved"
        /\ r.kind = upload[i].kind /\ r.user = upload[i].user /\ r.ext = upload[i].ext
        /\ r.size = upload[i].size /\ r.id = upload[i].id /\ r.path = upload[i].path
        /\ r.written = upload[i].written
    BY <1>1 DEF Running
  <2>3. upload' = [upload EXCEPT ![i] = r]
    BY DEF SaveStream
  <2> HIDE DEF r
  <2> QED BY <1>1, <2>1, <2>2, <2>3 DEF Proceeds
<1>3. UploadsOK' /\ \A j \in Uploads : upload'[j] = IF j = i THEN r ELSE upload[j]
  BY <1>2, ProceedsOK
<1>4. UNCHANGED <<rows, files>> /\ upload[i].kind = "stream" /\ upload[i].at = "found"
  BY DEF SaveStream, At
<1>5. TablesOK'
  BY <1>1, <1>4 DEF UploadIInv, TablesOK, SaveStream, Running, Uploads
<1>6. IdsOK'
  BY <1>2, <1>3, <1>4 DEF UploadIInv, IdsOK, Proceeds
<1>7. ProgressOK'
  BY <1>2, <1>3, <1>4 DEF UploadIInv, ProgressOK, ProgressOf, Proceeds, PathOf
<1>8. SaversOK'
  <2> SUFFICES ASSUME NEW u \in Users, savedBy'[u] # 0
               PROVE  /\ upload'[savedBy'[u]].at \notin {"none", "found"}
                      /\ upload'[savedBy'[u]].kind = "stream"
                      /\ upload'[savedBy'[u]].id = SessionId(u)
                      /\ upload'[savedBy'[u]].ext = filename'[u]
    BY DEF SaversOK
  <2>1. CASE u \in RowsWith(upload[i].id)
    <3>1. savedBy'[u] = i /\ filename'[u] = upload[i].ext /\ SessionId(u) = upload[i].id
      BY <2>1 DEF SaveStream, RowsWith
    <3> QED BY <1>2, <1>3, <1>4, <3>1 DEF Proceeds
  <2>2. CASE u \notin RowsWith(upload[i].id)
    <3>1. savedBy'[u] = savedBy[u] /\ filename'[u] = filename[u]
      BY <2>2 DEF SaveStream
    <3> QED BY <1>2, <3>1, ProceedsKeepsSavers
  <2> QED BY <2>1, <2>2
<1> QED BY <1>2, <1>3, <1>4, <1>5, <1>6, <1>7, <1>8, ProceedsKeepsChunks DEF UploadIInv

LEMMA SaveProfileKeepsUploads ==
    ASSUME UploadIInv, NEW i \in Uploads, SaveProfile(i)
    PROVE  UploadIInv' /\ \E r : Proceeds(i, r)
<1> DEFINE r == [upload[i] EXCEPT !.at = "saved", !.id = ProfileId]
<1>1. upload[i] \in Running /\ upload[i].at = "found" /\ upload[i].kind = "profile"
  BY DEF SaveProfile, At, UploadIInv, UploadsOK
<1>2. ProfileId \in UploadIds
  BY DEF UploadIds
<1>3. upload[i].path = NoPath
  BY <1>1 DEF UploadIInv, ProgressOK, ProgressOf
<1>4. /\ Proceeds(i, r) /\ r.at = "saved" /\ r.path = upload[i].path
      /\ r.written = upload[i].written
  BY <1>1, <1>2, <1>3 DEF Proceeds, SaveProfile, Running, States
<1> QED BY <1>1, <1>4, QuietStepKeepsUploads DEF SaveProfile

LEMMA EndKeepsUploads ==
    ASSUME UploadIInv, NEW i \in Uploads, UploadReturns(i) \/ UploadFails(i)
    PROVE  UploadIInv' /\ \E r : Proceeds(i, r)
<1>1. upload[i] \in Running
  BY DEF UploadReturns, UploadFails, At, UploadIInv, UploadsOK
<1>2. ASSUME NEW at \in {"done", "failed"}, upload' = [upload EXCEPT ![i].at = at],
             UNCHANGED <<rows, filename, savedBy, files>>,
             at = "done" => upload[i].at = "copying"
      PROVE  UploadIInv' /\ \E r : Proceeds(i, r)
  <2> DEFINE r == [upload[i] EXCEPT !.at = at]
  <2>1. /\ Proceeds(i, r) /\ r.at = at /\ r.path = upload[i].path
        /\ r.written = upload[i].written
    <3>1. r \in Running
      BY <1>1 DEF Running, States
    <3>2. /\ r.at = at
          /\ r.kind = upload[i].kind /\ r.user = upload[i].user /\ r.ext = upload[i].ext
          /\ r.size = upload[i].size /\ r.id = upload[i].id /\ r.path = upload[i].path
          /\ r.written = upload[i].written
      BY <1>1 DEF Running
    <3>3. upload' = [upload EXCEPT ![i] = r]
      BY <1>2
    <3> HIDE DEF r
    <3> QED BY <1>1, <3>1, <3>2, <3>3 DEF Proceeds
  <2> QED BY <1>2, <2>1, QuietStepKeepsUploads
<1> QED BY <1>2 DEF UploadReturns, UploadFails, At

LEMMA OpenKeepsUploads ==
    ASSUME UploadIInv, NEW i \in Uploads, Open(i)
    PROVE  UploadIInv' /\ \E r : Proceeds(i, r)
<1> DEFINE path == PathOf(i)
           r == [upload[i] EXCEPT !.at = "copying", !.path = path]
<1>1. upload[i] \in Running /\ upload[i].at = "saved" /\ upload[i].id # <<>>
  BY DEF Open, At, IsPositive, UploadIInv, UploadsOK
<1>2. upload[i].path = NoPath /\ upload[i].written = 0
  BY <1>1 DEF UploadIInv, ProgressOK, ProgressOf
<1>3. path \in Paths
  BY <1>1 DEF PathOf, Paths, Running
<1>4. path # NoPath
  BY <1>3 DEF Paths, NoPath, Kinds
<1>5. /\ r \in Running /\ r.at = "copying" /\ r.path = path
      /\ r.kind = upload[i].kind /\ r.user = upload[i].user /\ r.ext = upload[i].ext
      /\ r.size = upload[i].size /\ r.id = upload[i].id /\ r.written = upload[i].written
  BY <1>1, <1>3 DEF Running, States
<1>6. upload' = [upload EXCEPT ![i] = r]
  BY DEF Open
<1>7. UNCHANGED <<rows, filename, savedBy>>
  BY DEF Open
<1>8. /\ FilesOK'
      /\ DOMAIN files \subseteq DOMAIN files' /\ path \in DOMAIN files'
      /\ \A p \in DOMAIN files : files'[p] = files[p]
      /\ \A p \in DOMAIN files' : p \notin DOMAIN files => files'[p] = <<>>
  <2>1. CASE path \in DOMAIN files
    BY <2>1 DEF Open, Create, UploadIInv, FilesOK
  <2>2. CASE path \notin DOMAIN files
    <3>1. files' = [p \in DOMAIN files \cup {path} |-> IF p = path THEN <<>> ELSE files[p]]
      BY <2>2 DEF Open, Create
    <3>2. <<>> \in Seq(Uploads) /\ Len(<<>>) =< MaxSize
      BY ImagesAssumption
    <3> QED BY <2>2, <3>1, <3>2 DEF UploadIInv, FilesOK
  <2> QED BY <2>1, <2>2
<1> HIDE DEF path, r
<1>9. Proceeds(i, r)
  BY <1>1, <1>2, <1>5, <1>6 DEF Proceeds
<1>10. UploadsOK' /\ \A j \in Uploads : upload'[j] = IF j = i THEN r ELSE upload[j]
  BY <1>9, ProceedsOK
<1>11. IdsOK'
  BY <1>1, <1>5, <1>7, <1>10 DEF UploadIInv, IdsOK
<1>12. ProgressOK'
  <2> SUFFICES ASSUME NEW j \in Uploads, upload'[j].at # "none"
               PROVE  ProgressOf(j)'
    BY DEF ProgressOK
  <2>1. CASE j # i
    BY <1>8, <1>10, <2>1 DEF UploadIInv, ProgressOK, ProgressOf, PathOf
  <2>2. CASE j = i
    <3>1. upload'[i] = r /\ PathOf(i)' = path
      BY <1>5, <1>10, <2>2 DEF PathOf, path
    <3>2. Len(files'[path]) \in Nat /\ r.written =< r.size
      BY <1>1, <1>2, <1>5, <1>8 DEF FilesOK, Running
    <3> QED BY <1>1, <1>2, <1>4, <1>5, <1>8, <2>2, <3>1, <3>2 DEF ProgressOf
  <2> QED BY <2>1, <2>2
<1>13. ChunksOK'
  <2> SUFFICES ASSUME NEW p \in DOMAIN files', NEW k \in DOMAIN files'[p]
               PROVE  /\ upload'[files'[p][k]].at # "none"
                      /\ upload'[files'[p][k]].path = p
                      /\ p # NoPath
    BY DEF ChunksOK
  <2>1. p \in DOMAIN files
    BY <1>8
  <2> QED BY <1>8, <1>9, <2>1, ProceedsKeepsChunk
<1>14. SaversOK'
  BY <1>7, <1>9, ProceedsKeepsSavers DEF SaversOK
<1> QED BY <1>7, <1>8, <1>9, <1>10, <1>11, <1>12, <1>13, <1>14 DEF UploadIInv, TablesOK

\* A chunk written over, or at the end.
LEMMA OverwriteOK ==
    ASSUME NEW chunks \in Seq(Uploads), NEW i \in Uploads, NEW at \in 1 .. (Len(chunks) + 1)
    PROVE  LET written == Overwrite(chunks, at, i)
           IN  /\ written \in Seq(Uploads)
               /\ Len(written) = IF at =< Len(chunks) THEN Len(chunks) ELSE at
               /\ \A k \in DOMAIN written :
                    written[k] = i \/ (k \in DOMAIN chunks /\ written[k] = chunks[k])
<1>1. Max({Len(chunks), at}) = IF at =< Len(chunks) THEN Len(chunks) ELSE at
  BY DEF Max
<1>2. DOMAIN Overwrite(chunks, at, i) = 1 .. (IF at =< Len(chunks) THEN Len(chunks) ELSE at)
  BY <1>1 DEF Overwrite
<1>3. \A k \in DOMAIN Overwrite(chunks, at, i) :
        Overwrite(chunks, at, i)[k] = IF k = at THEN i ELSE chunks[k]
  BY DEF Overwrite
<1>4. \A k \in DOMAIN Overwrite(chunks, at, i) : k # at => k \in DOMAIN chunks
  BY <1>2
<1>5. Overwrite(chunks, at, i) \in [1 .. (IF at =< Len(chunks) THEN Len(chunks) ELSE at) -> Uploads]
  BY <1>2, <1>3, <1>4 DEF Overwrite
<1> QED BY <1>2, <1>3, <1>4, <1>5

LEMMA CopyKeepsUploads ==
    ASSUME UploadIInv, NEW i \in Uploads, Copy(i)
    PROVE  UploadIInv' /\ \E r : Proceeds(i, r)
<1> DEFINE r == [upload[i] EXCEPT !.written = @ + 1]
           path == upload[i].path
           chunks == Overwrite(files[path], upload[i].written + 1, i)
<1>1. upload[i] \in Running /\ upload[i].at = "copying" /\ upload[i].written < upload[i].size
  BY DEF Copy, At, UploadIInv, UploadsOK
<1>2. ProgressOf(i)
  BY <1>1 DEF UploadIInv, ProgressOK
<1>3. /\ upload[i].written \in Nat /\ upload[i].size \in Nat /\ upload[i].size =< MaxSize
      /\ upload[i].written + 1 \in 0 .. MaxSize
  BY <1>1, ImagesAssumption DEF Running
<1>4. /\ r \in Running /\ r.at = "copying" /\ r.path = path
      /\ r.kind = upload[i].kind /\ r.user = upload[i].user /\ r.ext = upload[i].ext
      /\ r.size = upload[i].size /\ r.id = upload[i].id /\ r.written = upload[i].written + 1
  BY <1>1, <1>3 DEF Running
<1>5. upload' = [upload EXCEPT ![i] = r]
  BY DEF Copy
<1>6. UNCHANGED <<rows, filename, savedBy>>
  BY DEF Copy
<1>7. path \in DOMAIN files /\ path # NoPath
  BY <1>1, <1>2 DEF ProgressOf
<1>8. files[path] \in Seq(Uploads) /\ Len(files[path]) \in Nat /\ Len(files[path]) =< MaxSize
  BY <1>7 DEF UploadIInv, FilesOK
<1>9. upload[i].written + 1 \in 1 .. (Len(files[path]) + 1)
  BY <1>1, <1>2, <1>3, <1>8 DEF ProgressOf
<1>10. /\ chunks \in Seq(Uploads)
       /\ Len(chunks) = IF upload[i].written + 1 =< Len(files[path]) THEN Len(files[path])
                        ELSE upload[i].written + 1
       /\ \A k \in DOMAIN chunks :
            chunks[k] = i \/ (k \in DOMAIN files[path] /\ chunks[k] = files[path][k])
  BY <1>8, <1>9, OverwriteOK
<1>11. files' = [files EXCEPT ![path] = chunks]
  BY DEF Copy
<1> HIDE DEF r, path, chunks
<1>12. DOMAIN files' = DOMAIN files
       /\ \A p \in DOMAIN files : files'[p] = IF p = path THEN chunks ELSE files[p]
  BY <1>7, <1>11
<1>13. Len(chunks) =< MaxSize /\ Len(files[path]) =< Len(chunks)
       /\ upload[i].written + 1 =< Len(chunks)
  BY <1>3, <1>8, <1>10
<1>14. FilesOK'
  BY <1>10, <1>11, <1>12, <1>13 DEF UploadIInv, FilesOK
<1>15. Proceeds(i, r)
  BY <1>1, <1>4, <1>5 DEF Proceeds, path
<1>16. UploadsOK' /\ \A j \in Uploads : upload'[j] = IF j = i THEN r ELSE upload[j]
  BY <1>15, ProceedsOK
<1>17. IdsOK'
  BY <1>1, <1>4, <1>6, <1>16 DEF UploadIInv, IdsOK
<1>18. ProgressOK'
  <2> SUFFICES ASSUME NEW j \in Uploads, upload'[j].at # "none"
               PROVE  ProgressOf(j)'
    BY DEF ProgressOK
  <2>1. CASE j # i
    <3>1. upload'[j] = upload[j] /\ PathOf(j)' = PathOf(j) /\ ProgressOf(j)
      BY <1>16, <2>1 DEF UploadIInv, ProgressOK, PathOf
    <3>2. upload[j] \in Running
      BY <2>1, <3>1 DEF UploadIInv, UploadsOK
    <3>3. CASE upload[j].path = NoPath
      BY <3>1, <3>3 DEF ProgressOf
    <3>4. CASE upload[j].path # NoPath
      <4>1. /\ upload[j].path \in DOMAIN files
            /\ upload[j].written =< Len(files[upload[j].path])
        BY <3>1, <3>4 DEF ProgressOf
      <4>2. CASE upload[j].path # path
        BY <1>12, <3>1, <4>1, <4>2 DEF ProgressOf
      <4>3. CASE upload[j].path = path
        <5>1. upload[j].written \in Nat /\ Len(chunks) \in Nat
          BY <1>10, <3>2 DEF Running
        <5>2. upload[j].written =< Len(files'[upload[j].path])
          BY <1>8, <1>12, <1>13, <4>1, <4>3, <5>1
        <5> QED BY <1>12, <3>1, <4>1, <5>2 DEF ProgressOf
      <4> QED BY <4>2, <4>3
    <3> QED BY <3>3, <3>4
  <2>2. CASE j = i
    <3>1. upload'[i] = r /\ PathOf(i)' = PathOf(i)
      BY <1>4, <1>16 DEF PathOf
    <3>2. r.written =< Len(files'[path]) /\ r.written =< r.size
      BY <1>1, <1>3, <1>4, <1>7, <1>12, <1>13
    <3>3. path = PathOf(i) /\ upload[i].id # <<>>
      BY <1>2, <1>7 DEF ProgressOf, path
    <3> QED BY <1>4, <1>7, <1>12, <2>2, <3>1, <3>2, <3>3 DEF ProgressOf
  <2> QED BY <2>1, <2>2
<1>19. ChunksOK'
  <2> SUFFICES ASSUME NEW p \in DOMAIN files, NEW k \in DOMAIN files'[p]
               PROVE  /\ upload'[files'[p][k]].at # "none"
                      /\ upload'[files'[p][k]].path = p
                      /\ p # NoPath
    BY <1>12 DEF ChunksOK
  <2>1. CASE k \in DOMAIN files[p] /\ files'[p][k] = files[p][k]
    BY <1>15, <2>1, ProceedsKeepsChunk
  <2>2. CASE p = path /\ files'[p][k] = i
    BY <1>4, <1>7, <1>16, <2>2
  <2> QED BY <1>10, <1>12, <2>1, <2>2
<1>20. SaversOK'
  BY <1>6, <1>15, ProceedsKeepsSavers DEF SaversOK
<1> QED BY <1>6, <1>14, <1>15, <1>16, <1>17, <1>18, <1>19, <1>20 DEF UploadIInv, TablesOK

\* A request begins with a picture of one of the users.
LEMMA RequestKeepsUploads ==
    ASSUME UploadIInv, NEW i \in Uploads, NEW kind \in Kinds, NEW u \in Users, NEW id \in UploadIds,
           NEW ext \in Exts, NEW size \in 1 .. MaxSize, Request(i, kind, u, id, ext, size),
           kind = "stream" => id = <<>> \/ (id = SessionId(u) /\ u \in rows)
    PROVE  UploadIInv' /\ upload'[i].at # "none" /\ upload'[i].user = u
                       /\ \A j \in Uploads : j # i => upload'[j] = upload[j]
<1> DEFINE r == [at |-> "found", kind |-> kind, user |-> u, id |-> id, ext |-> ext,
                 size |-> size, written |-> 0, path |-> NoPath]
<1>1. size \in Nat /\ 0 \in 0 .. MaxSize
  BY ImagesAssumption
<1>2. r \in Running
  BY <1>1 DEF Running, States
<1>3. upload' = [upload EXCEPT ![i] = r] /\ upload[i].at = "none"
      /\ UNCHANGED <<rows, filename, savedBy, files>>
  BY DEF Request
<1>4. UploadsOK' /\ \A j \in Uploads : upload'[j] = IF j = i THEN r ELSE upload[j]
  BY <1>2, <1>3 DEF UploadIInv, UploadsOK
<1>5. IdsOK'
  BY <1>3, <1>4 DEF UploadIInv, IdsOK
<1>6. ProgressOK'
  BY <1>1, <1>3, <1>4 DEF UploadIInv, ProgressOK, ProgressOf, PathOf
<1>7. ChunksOK'
  <2> SUFFICES ASSUME NEW p \in DOMAIN files, NEW k \in DOMAIN files[p]
               PROVE  /\ upload'[files[p][k]].at # "none"
                      /\ upload'[files[p][k]].path = p
                      /\ p # NoPath
    BY <1>3 DEF ChunksOK
  <2>1. files[p][k] \in Uploads
    BY DEF UploadIInv, FilesOK
  <2>2. upload[files[p][k]].at # "none" /\ upload[files[p][k]].path = p /\ p # NoPath
    BY DEF UploadIInv, ChunksOK
  <2> QED BY <1>3, <1>4, <2>1, <2>2
<1>8. SaversOK'
  <2> SUFFICES ASSUME NEW u2 \in Users, savedBy[u2] # 0
               PROVE  /\ upload'[savedBy[u2]].at \notin {"none", "found"}
                      /\ upload'[savedBy[u2]].kind = "stream"
                      /\ upload'[savedBy[u2]].id = SessionId(u2)
                      /\ upload'[savedBy[u2]].ext = filename[u2]
    BY <1>3 DEF SaversOK
  <2>1. savedBy[u2] \in Uploads
    BY DEF UploadIInv, TablesOK, Uploads
  <2> QED BY <1>3, <1>4, <2>1 DEF UploadIInv, SaversOK
<1>9. TablesOK' /\ FilesOK'
  BY <1>3 DEF UploadIInv, TablesOK, FilesOK
<1> QED BY <1>4, <1>5, <1>6, <1>7, <1>8, <1>9 DEF UploadIInv

LEMMA JoinKeepsUploads ==
    ASSUME UploadIInv, NEW u \in Users, JoinSaves(u)
    PROVE  UploadIInv'
<1>1. UNCHANGED <<upload, filename, savedBy, files>> /\ rows' = rows \cup {u}
  BY DEF JoinSaves
<1>2. UploadsOK' /\ FilesOK' /\ ChunksOK' /\ SaversOK'
  BY <1>1 DEF UploadIInv, UploadsOK, FilesOK, ChunksOK, SaversOK
<1>3. TablesOK' /\ IdsOK'
  BY <1>1 DEF UploadIInv, TablesOK, IdsOK
<1>4. ProgressOK'
  BY <1>1 DEF UploadIInv, ProgressOK, ProgressOf, PathOf
<1> QED BY <1>2, <1>3, <1>4 DEF UploadIInv

-----------------------------------------------------------------------------
(* Requests that upload                                                    *)

\* What the goroutine of a request may be, an upload aside.
GoroutineOK(g) ==
    /\ g.at \in Places
    /\ g.at \in {"dialing", "verifying", "finding"} => g.uid \in Uids
    /\ g.at \in {"protected", "uploading"} => g.user \in Users
    /\ g.at = "answered" => g.result \in Results

RequestsOK ==
    \A i \in Uploads :
        /\ GoroutineOK(request[i])
        /\ Serving(i, "uploading") => upload[i].at # "none" /\ upload[i].user = request[i].user

ApiIInv == IdIInv /\ UploadIInv /\ RequestsOK /\ authUp \in BOOLEAN

\* A request that goes on while no picture does.
LEMMA BecomesKeepsRequests ==
    ASSUME ApiIInv, NEW i \in Uploads, NEW g, Becomes(i, g), UNCHANGED upload,
           GoroutineOK(g), g.at # "uploading"
    PROVE  RequestsOK'
<1>1. \A j \in Uploads : request'[j] = IF j = i THEN g ELSE request[j]
  BY DEF ApiIInv, IdIInv, RequestsAreIndexed, Becomes
<1> QED BY <1>1 DEF ApiIInv, RequestsOK, Serving, GoroutineOK

LEMMA ServeKeepsRequests ==
    ASSUME ApiIInv, NEW i \in Uploads, Arrive(i) \/ Serve(i),
           ~GoOnUploading(i), ~BeginUpload(i)
    PROVE  RequestsOK'
<1> DEFINE Next(g) == Becomes(i, g) /\ GoroutineOK(g) /\ g.at # "uploading"
<1>1. UNCHANGED upload
  <2>1. CASE Arrive(i) \/ Dial(i) \/ Verify(i) \/ FindByUID(i)
    BY <2>1 DEF Arrive, Dial, Verify, FindByUID, imageVars
  <2>2. CASE Reply(i) \/ RefuseLogin(i) \/ CreateUser(i) \/ EndUpload(i)
    BY <2>2 DEF Reply, RefuseLogin, CreateUser, EndUpload, imageVars
  <2>3. CASE CountRows(i) \/ SelectPage(i) \/ ListFails(i)
    BY <2>3 DEF CountRows, SelectPage, ListFails, imageVars
  <2> QED BY <2>1, <2>2, <2>3 DEF Serve
<1>2. GoroutineOK(request[i])
  BY DEF ApiIInv, RequestsOK
<1>3. ASSUME NEW result \in Results, Answers(i, result)
      PROVE  \E g : Next(g)
  BY <1>3 DEF Answers, GoroutineOK, Places
<1>4. CASE Arrive(i)
  <2>1. ASSUME Becomes(i, [at |-> "public"])
        PROVE  \E g : Next(g)
    BY <2>1 DEF GoroutineOK, Places
  <2>2. ASSUME NEW user \in Admins, Becomes(i, [at |-> "protected", user |-> user])
        PROVE  \E g : Next(g)
    BY <2>2, ApiAssumption DEF GoroutineOK, Places
  <2>3. ASSUME NEW uid \in Uids, Becomes(i, [at |-> "dialing", uid |-> uid])
        PROVE  \E g : Next(g)
    BY <2>3 DEF GoroutineOK, Places
  <2>4. ASSUME Answers(i, "unauthorized")
        PROVE  \E g : Next(g)
    BY <1>3, <2>4 DEF Results
  <2>5. \E g : Next(g)
    BY <1>4, <2>1, <2>2, <2>3, <2>4 DEF Arrive
  <2> QED BY <1>1, <2>5, BecomesKeepsRequests
<1>5. CASE Dial(i) \/ Verify(i)
  <2>1. request[i].uid \in Uids
    BY <1>2, <1>5 DEF GoroutineOK, Dial, Verify, Serving
  <2>2. ASSUME NEW at \in {"verifying", "finding"}, Becomes(i, [at |-> at, uid |-> request[i].uid])
        PROVE  \E g : Next(g)
    BY <2>1, <2>2 DEF GoroutineOK, Places
  <2>3. \E g : Next(g)
    BY <1>3, <1>5, <2>2 DEF Dial, Verify, Results
  <2> QED BY <1>1, <2>3, BecomesKeepsRequests
<1>6. CASE FindByUID(i)
  <2>1. request[i].uid \in Uids
    BY <1>2, <1>6 DEF GoroutineOK, FindByUID, Serving
  <2>2. ASSUME NEW user \in Users, Becomes(i, [at |-> "protected", user |-> user])
        PROVE  \E g : Next(g)
    BY <2>2 DEF GoroutineOK, Places
  <2>3. idOf[request[i].uid] \in Users \cup {NoUser}
    BY <2>1 DEF ApiIInv, IdIInv, IdsAreUsers
  <2>4. \E g : Next(g)
    BY <1>3, <1>6, <2>2, <2>3 DEF FindByUID, Results
  <2> QED BY <1>1, <2>4, BecomesKeepsRequests
<1>7. CASE CreateUser(i)
  <2>1. ASSUME NEW uid, NEW id,
               Becomes(i, [at |-> "answered", result |-> "registered", uid |-> uid, id |-> id])
        PROVE  \E g : Next(g)
    BY <2>1 DEF GoroutineOK, Places, Results
  <2>2. \E g : Next(g)
    BY <1>3, <1>7, <2>1 DEF CreateUser, Results
  <2> QED BY <1>1, <2>2, BecomesKeepsRequests
<1>8. CASE Reply(i) \/ RefuseLogin(i) \/ EndUpload(i) \/ ListFails(i)
  <2>1. \E result \in Results : Answers(i, result)
    BY <1>8 DEF Reply, RefuseLogin, EndUpload, ListFails, Results
  <2> QED BY <1>1, <1>3, <2>1, BecomesKeepsRequests
<1>9. CASE CountRows(i) \/ SelectPage(i)
  <2>1. ASSUME NEW total, Becomes(i, [at |-> "counted", total |-> total])
        PROVE  \E g : Next(g)
    BY <2>1 DEF GoroutineOK, Places
  <2>2. ASSUME NEW pages, NEW listed,
               Becomes(i, [at |-> "answered", result |-> "listed", pages |-> pages, listed |-> listed])
        PROVE  \E g : Next(g)
    BY <2>2 DEF GoroutineOK, Places, Results
  <2>3. \E g : Next(g)
    BY <1>9, <2>1, <2>2 DEF CountRows, SelectPage
  <2> QED BY <1>1, <2>3, BecomesKeepsRequests
<1> QED BY <1>4, <1>5, <1>6, <1>7, <1>8, <1>9 DEF Serve

LEMMA BeginUploadKeepsImages ==
    ASSUME ApiIInv, NEW i \in Uploads, BeginUpload(i)
    PROVE  UploadIInv' /\ RequestsOK'
<1> DEFINE g == [at |-> "uploading", user |-> request[i].user]
<1>1. Serving(i, "protected") /\ request[i].user \in Users
  BY DEF BeginUpload, Serving, ApiIInv, RequestsOK, GoroutineOK
<1>2. PICK ext \in Exts, size \in 1 .. MaxSize :
        \/ StreamUpdateHandler(i, request[i].user, ext, size)
        \/ ProfileHandler(i, request[i].user, ext, size)
  BY DEF BeginUpload
<1>3. \A kind \in Kinds, id \in UploadIds :
        /\ Request(i, kind, request[i].user, id, ext, size)
        /\ kind = "stream" =>
             id = <<>> \/ (id = SessionId(request[i].user) /\ request[i].user \in rows)
        => /\ UploadIInv' /\ upload'[i].at # "none" /\ upload'[i].user = request[i].user
           /\ \A j \in Uploads : j # i => upload'[j] = upload[j]
  BY <1>1, RequestKeepsUploads DEF ApiIInv
<1>4. /\ UploadIInv' /\ upload'[i].at # "none" /\ upload'[i].user = request[i].user
      /\ \A j \in Uploads : j # i => upload'[j] = upload[j]
  <2>1. CASE StreamUpdateHandler(i, request[i].user, ext, size)
    <3>1. "stream" \in Kinds /\ <<>> \in UploadIds /\ SessionId(request[i].user) \in UploadIds
      BY <1>1 DEF Kinds, UploadIds
    <3> QED BY <1>3, <2>1, <3>1 DEF StreamUpdateHandler
  <2>2. CASE ProfileHandler(i, request[i].user, ext, size)
    <3>1. "profile" \in Kinds /\ <<>> \in UploadIds
      BY DEF Kinds, UploadIds
    <3> QED BY <1>3, <2>2, <3>1 DEF ProfileHandler
  <2> QED BY <1>2, <2>1, <2>2
<1>5. \A j \in Uploads : request'[j] = IF j = i THEN g ELSE request[j]
  BY DEF ApiIInv, IdIInv, RequestsAreIndexed, BeginUpload, Becomes
<1>6. GoroutineOK(g)
  BY <1>1 DEF GoroutineOK, Places
<1> QED BY <1>4, <1>5, <1>6 DEF ApiIInv, RequestsOK, Serving, GoroutineOK

LEMMA GoOnUploadingKeepsImages ==
    ASSUME ApiIInv, NEW i \in Uploads, GoOnUploading(i)
    PROVE  UploadIInv' /\ RequestsOK'
<1>1. UploadIInv' /\ \E r : Proceeds(i, r)
  BY SaveStreamKeepsUploads, SaveProfileKeepsUploads, OpenKeepsUploads, CopyKeepsUploads,
     EndKeepsUploads DEF ApiIInv, GoOnUploading, UploadStep
<1>2. PICK r : Proceeds(i, r)
  BY <1>1
<1>3. \A j \in Uploads : upload'[j] = IF j = i THEN r ELSE upload[j]
  BY <1>2, ProceedsOK DEF ApiIInv
<1>4. r.at # "none" /\ r.user = upload[i].user
  BY <1>2 DEF Proceeds, Running
<1>5. UNCHANGED request
  BY DEF GoOnUploading
<1> QED BY <1>1, <1>3, <1>4, <1>5 DEF ApiIInv, RequestsOK, Serving, GoroutineOK

LEMMA ApiIInvInductive ==
    ASSUME ApiIInv, [ApiNext]_apiVars
    PROVE  ApiIInv'
<1>1. IdIInv'
  BY NextKeepsIds DEF ApiIInv
<1>2. CASE UNCHANGED apiVars \/ AuthServiceChanges
  <2>1. UNCHANGED <<imageVars, idOf, request>> /\ authUp' \in BOOLEAN
    BY <1>2 DEF apiVars, AuthServiceChanges, ApiIInv
  <2>2. UploadIInv'
    BY <2>1 DEF imageVars, ApiIInv, UploadIInv, UploadsOK, TablesOK, FilesOK, IdsOK,
                ProgressOK, ProgressOf, PathOf, ChunksOK, SaversOK
  <2> QED BY <1>1, <2>1, <2>2 DEF imageVars, ApiIInv, RequestsOK, Serving, GoroutineOK
<1>3. CASE Join
  <2>1. PICK u \in Ids : JoinSaves(u)
    BY <1>3 DEF Join
  <2>2. u \in Users
    BY <2>1 DEF Ids, ApiIInv, IdIInv, IdsAreUsers
  <2>3. UploadIInv'
    BY <2>1, <2>2, JoinKeepsUploads DEF ApiIInv
  <2>4. UNCHANGED <<upload, request, authUp>>
    BY <1>3, <2>1 DEF Join, JoinSaves
  <2> QED BY <1>1, <2>3, <2>4 DEF ApiIInv, RequestsOK, Serving, GoroutineOK
<1>4. ASSUME NEW i \in Uploads, Arrive(i) \/ Serve(i)
      PROVE  ApiIInv'
  <2>1. UNCHANGED authUp
    <3>1. CASE Arrive(i) \/ Dial(i) \/ Verify(i) \/ FindByUID(i) \/ Reply(i) \/ RefuseLogin(i)
      BY <3>1 DEF Arrive, Dial, Verify, FindByUID, Reply, RefuseLogin
    <3>2. CASE CreateUser(i) \/ BeginUpload(i) \/ GoOnUploading(i) \/ EndUpload(i)
      BY <3>2 DEF CreateUser, BeginUpload, GoOnUploading, EndUpload
    <3>3. CASE CountRows(i) \/ SelectPage(i) \/ ListFails(i)
      BY <3>3 DEF CountRows, SelectPage, ListFails
    <3> QED BY <1>4, <3>1, <3>2, <3>3 DEF Serve
  <2>2. CASE BeginUpload(i)
    BY <1>1, <2>1, <2>2, BeginUploadKeepsImages DEF ApiIInv
  <2>3. CASE GoOnUploading(i)
    BY <1>1, <2>1, <2>3, GoOnUploadingKeepsImages DEF ApiIInv
  <2>4. CASE ~BeginUpload(i) /\ ~GoOnUploading(i)
    <3>1. RequestsOK'
      BY <1>4, <2>4, ServeKeepsRequests
    <3>2. UNCHANGED imageVars
      <4>1. CASE Arrive(i) \/ Dial(i) \/ Verify(i) \/ FindByUID(i)
        BY <4>1 DEF Arrive, Dial, Verify, FindByUID
      <4>2. CASE Reply(i) \/ RefuseLogin(i) \/ CreateUser(i) \/ EndUpload(i)
        BY <4>2 DEF Reply, RefuseLogin, CreateUser, EndUpload
      <4>3. CASE CountRows(i) \/ SelectPage(i) \/ ListFails(i)
        BY <4>3 DEF CountRows, SelectPage, ListFails
      <4> QED BY <1>4, <2>4, <4>1, <4>2, <4>3 DEF Serve
    <3>3. UploadIInv'
      BY <3>2 DEF imageVars, ApiIInv, UploadIInv, UploadsOK, TablesOK, FilesOK, IdsOK,
                  ProgressOK, ProgressOf, PathOf, ChunksOK, SaversOK
    <3> QED BY <1>1, <2>1, <3>1, <3>3 DEF ApiIInv
  <2> QED BY <2>2, <2>3, <2>4
<1> QED BY <1>2, <1>3, <1>4 DEF ApiNext

LEMMA ApiInitially == ASSUME ApiInit PROVE ApiIInv
<1>1. /\ request = [i \in Uploads |-> request[i]]
      /\ \A i \in Uploads : request[i] = [at |-> "none"]
  BY DEF ApiInit
<1>2. IdIInv
  <2>1. idOf \in [Uids -> Users \cup {NoUser}] /\ IdsAreDistinct
    BY ApiAssumption DEF ApiInit, IdsAreDistinct
  <2> QED BY <1>1, <2>1 DEF IdIInv, RequestsAreIndexed, IdsAreUsers,
                            AnswersAreStored, Answered, Serving
<1>3. RequestsOK
  BY <1>1 DEF RequestsOK, GoroutineOK, Serving, Places
<1>4. UploadIInv
  <2>1. upload = [i \in Uploads |-> [at |-> "none"]] /\ files = [p \in {} |-> <<>>]
    BY DEF ApiInit, ImagesInit
  <2>2. UploadsOK /\ IdsOK /\ ProgressOK
    BY <2>1 DEF UploadsOK, IdsOK, ProgressOK
  <2>3. FilesOK /\ ChunksOK
    BY <2>1 DEF FilesOK, ChunksOK
  <2>4. TablesOK /\ SaversOK
    BY ImagesAssumption DEF ApiInit, ImagesInit, TablesOK, SaversOK
  <2> QED BY <2>2, <2>3, <2>4 DEF UploadIInv
<1>5. authUp \in BOOLEAN
  BY Zenon DEF ApiInit
<1> QED BY <1>2, <1>3, <1>4, <1>5 DEF ApiIInv

(* Whatever the requests do, however they overlap with each other and with *)
(* joins, requests, tables and files stay of their types.                  *)
THEOREM ApiTypes == ApiSpec => []ApiTypeOK
<1>1. ApiInit => ApiIInv
  BY ApiInitially
<1>2. ApiIInv /\ [ApiNext]_apiVars => ApiIInv'
  BY ApiIInvInductive
<1>3. ApiIInv => ApiTypeOK
  <2> SUFFICES ASSUME ApiIInv PROVE ApiTypeOK
    OBVIOUS
  <2>1. \A i \in Uploads : upload[i].at # "none" => upload[i].id \in Seq(0 .. 9)
    <3>1. \A id \in UploadIds : id \in Seq(0 .. 9)
      <4>1. ProfileId \in Seq(0 .. 9)
        BY DEF ProfileId
      <4>2. <<>> \in Seq(0 .. 9)
        OBVIOUS
      <4> QED BY <4>1, <4>2, ImagesAssumption DEF UploadIds
    <3> QED BY <3>1 DEF ApiIInv, UploadIInv, UploadsOK, Running
  <2>2. \A i \in Uploads : upload[i].at # "none" =>
          /\ upload[i].user \in Users
          /\ upload[i].kind \in Kinds
          /\ upload[i].ext \in Exts
          /\ upload[i].size \in 1 .. MaxSize
          /\ upload[i].written \in 0 .. upload[i].size
          /\ upload[i].path # NoPath => upload[i].path \in DOMAIN files
    BY ImagesAssumption DEF ApiIInv, UploadIInv, UploadsOK, ProgressOK, ProgressOf, Running
  <2>3. \A i \in Uploads : upload[i].at \in States
    BY DEF ApiIInv, UploadIInv, UploadsOK, Running, States
  <2>4. ImagesTypeOK
    BY <2>1, <2>2, <2>3 DEF ImagesTypeOK, ApiIInv, UploadIInv, TablesOK, FilesOK
  <2> QED BY <2>4 DEF ApiTypeOK, ApiIInv, IdIInv, IdsAreUsers, RequestsOK, GoroutineOK, Serving
<1> QED BY <1>1, <1>2, <1>3, PTL DEF ApiSpec

(* Whatever requests overlap, and however many there are, the file name in *)
(* the row of a session leads to a file once the request that wrote it has *)
(* opened its own.                                                         *)
THEOREM RowsPointToFiles == ApiSpec => []RowsLeadToFiles
<1>1. ApiInit => ApiIInv
  BY ApiInitially
<1>2. ApiIInv /\ [ApiNext]_apiVars => ApiIInv'
  BY ApiIInvInductive
<1>3. ApiIInv => RowsLeadToFiles
  <2> SUFFICES ASSUME ApiIInv, NEW u \in Users, savedBy[u] # 0,
                      upload[savedBy[u]].at \in {"copying", "done"}
               PROVE  \E p \in DOMAIN files :
                        /\ p.kind = "stream"
                        /\ p.parts = IdPartition[SessionId(u)]
                        /\ p.ext = filename[u]
    BY DEF RowsLeadToFiles
  <2> DEFINE i == savedBy[u]
  <2>1. i \in Uploads
    BY DEF ApiIInv, UploadIInv, TablesOK, Uploads
  <2>2. upload[i].kind = "stream" /\ upload[i].id = SessionId(u) /\ upload[i].ext = filename[u]
    BY DEF ApiIInv, UploadIInv, SaversOK
  <2>3. upload[i].path = PathOf(i) /\ PathOf(i) \in DOMAIN files
    BY <2>1 DEF ApiIInv, UploadIInv, ProgressOK, ProgressOf
  <2> QED BY <2>2, <2>3 DEF PathOf
<1> QED BY <1>1, <1>2, <1>3, PTL DEF ApiSpec

(* The path under which an upload writes spells the id of its row, for ids *)
(* of any number of digits: idPartition neither loses nor repeats a digit. *)
THEOREM PathsAreOfIds == ApiSpec => []PathsSpellIds
<1>1. ApiInit => ApiIInv
  BY ApiInitially
<1>2. ApiIInv /\ [ApiNext]_apiVars => ApiIInv'
  BY ApiIInvInductive
<1>3. ApiIInv => PathsSpellIds
  <2> SUFFICES ASSUME ApiIInv, NEW i \in Opened
               PROVE  LET parts == upload[i].path.parts
                          id == Padded(upload[i].id)
                      IN  /\ \A k \in DOMAIN parts : Len(parts[k]) \in 1 .. 3
                          /\ \A k \in DOMAIN parts : k < Len(parts) => Len(parts[k]) = 3
                          /\ Len(id) = (Len(parts) - 1) * 3 + Len(parts[Len(parts)])
                          /\ \A k \in DOMAIN parts : \A d \in DOMAIN parts[k] :
                               parts[k][d] = id[(k - 1) * 3 + d]
    BY DEF PathsSpellIds, imgPartLen
  <2> DEFINE parts == upload[i].path.parts
             id == Padded(upload[i].id)
  <2>1. i \in Uploads /\ upload[i].at # "none" /\ upload[i].path # NoPath
    BY DEF Opened
  <2>2. upload[i] \in Running
    BY <2>1 DEF ApiIInv, UploadIInv, UploadsOK
  <2>3. upload[i].id \in UploadIds
    BY <2>2 DEF Running
  <2>4. parts = Partition(id)
    <3>1. upload[i].path = PathOf(i)
      BY <2>1 DEF ApiIInv, UploadIInv, ProgressOK, ProgressOf
    <3>2. parts = IdPartition[upload[i].id]
      BY <3>1 DEF PathOf
    <3>3. IdPartition[upload[i].id] = Partition(Padded(upload[i].id))
      BY <2>3 DEF IdPartition, UploadIds
    <3> QED BY <3>2, <3>3
  <2>5. Spelling(parts, id)
    BY <2>3, <2>4, IdsAreWords, PathsAreSpelled
  <2> HIDE DEF parts, id
  <2>6. \A k \in DOMAIN parts : DOMAIN parts[k] = 1 .. Len(parts[k])
    BY <2>5 DEF Spelling, Word
  <2>7. \A k \in DOMAIN parts : k \in Nat /\ (k - 1) * 3 = 3 * (k - 1)
    BY <2>5 DEF Spelling
  <2>8. Len(parts) \in Nat /\ 3 * (Len(parts) - 1) = (Len(parts) - 1) * 3
    BY <2>5 DEF Spelling
  <2>9. \A k \in DOMAIN parts : \A d \in DOMAIN parts[k] :
          parts[k][d] = id[(k - 1) * 3 + d]
    BY <2>5, <2>6, <2>7 DEF Spelling
  <2> QED BY <2>5, <2>8, <2>9 DEF Spelling, parts, id
<1> QED BY <1>1, <1>2, <1>3, PTL DEF ApiSpec

(* No overlap of requests puts a picture of one user under the path of     *)
(* another, for idPartition tells the ids of rows apart.                   *)
THEOREM CoversStayApart == ApiSpec => []CoversBelongToOneUser
<1>1. ApiInit => ApiIInv
  BY ApiInitially
<1>2. ApiIInv /\ [ApiNext]_apiVars => ApiIInv'
  BY ApiIInvInductive
<1>3. ApiIInv => CoversBelongToOneUser
  <2> SUFFICES ASSUME ApiIInv, NEW p \in DOMAIN files, p.kind = "stream",
                      NEW k \in DOMAIN files[p], NEW l \in DOMAIN files[p]
               PROVE  /\ upload[files[p][k]].user = upload[files[p][l]].user
                      /\ upload[files[p][k]].user \in rows
    BY DEF CoversBelongToOneUser
  <2>1. \A m \in DOMAIN files[p] :
          /\ upload[files[p][m]].user \in Users
          /\ upload[files[p][m]].user \in rows
          /\ p.parts = IdPartition[SessionId(upload[files[p][m]].user)]
    <3> SUFFICES ASSUME NEW m \in DOMAIN files[p]
                 PROVE  /\ upload[files[p][m]].user \in Users
                        /\ upload[files[p][m]].user \in rows
                        /\ p.parts = IdPartition[SessionId(upload[files[p][m]].user)]
      OBVIOUS
    <3> DEFINE i == files[p][m]
    <3>1. i \in Uploads
      BY DEF ApiIInv, UploadIInv, FilesOK
    <3>2. upload[i].at # "none" /\ upload[i].path = p /\ p # NoPath
      BY DEF ApiIInv, UploadIInv, ChunksOK
    <3>3. upload[i].user \in Users
      BY <3>1, <3>2 DEF ApiIInv, UploadIInv, UploadsOK, Running
    <3>4. p = PathOf(i) /\ upload[i].id # <<>>
      BY <3>1, <3>2 DEF ApiIInv, UploadIInv, ProgressOK, ProgressOf
    <3>5. upload[i].kind = "stream" /\ p.parts = IdPartition[upload[i].id]
      BY <3>4 DEF PathOf
    <3>6. upload[i].id = SessionId(upload[i].user) /\ upload[i].user \in rows
      BY <3>1, <3>2, <3>4, <3>5 DEF ApiIInv, UploadIInv, IdsOK
    <3> QED BY <3>3, <3>5, <3>6
  <2> QED BY <2>1, RowsHaveTheirOwnPaths
<1> QED BY <1>1, <1>2, <1>3, PTL DEF ApiSpec
=============================================================================
