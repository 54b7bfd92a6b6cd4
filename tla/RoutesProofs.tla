---------------------------- MODULE RoutesProofs ----------------------------
(***************************************************************************)
(* The two ends of the HTTP interface: the routes that take requests for   *)
(* indexing, with the limit on their addresses, and the web pages that     *)
(* show answers.  For every number of clients, addresses, buckets and      *)
(* pages, every limit and every length of the window.                      *)
(***************************************************************************)
EXTENDS IndexRoutes, WebRoutes, FiniteSetTheorems, TLAPS

-----------------------------------------------------------------------------
(* The limit on addresses.                                                 *)

Counts == 1 .. Window
Bucket == [age : 0 .. Window, count : 1 .. MaxRequests]

LimiterTyped ==
  /\ buckets \in [Addresses -> {NoBucket} \cup Bucket]
  /\ admissions \in [Addresses -> [Counts -> Nat]]

Fresh(a) == buckets[a] # NoBucket /\ ~Expired(buckets[a])

(***************************************************************************)
(* Why three windows never meet.  The requests since a window opened are   *)
(* those it counts but the first, and the window before it let in at most  *)
(* MaxRequests - 1 beside the one that opened it.  When an address has no  *)
(* window any more, swept or expired, the last one opened so long ago that *)
(* its first request is not recent.                                        *)
(***************************************************************************)
WindowCounts(a) ==
  IF Fresh(a)
    THEN /\ \A k \in Counts : admissions[a][k] < buckets[a].count + MaxRequests
         /\ \A k \in 1 .. buckets[a].age : admissions[a][k] < buckets[a].count
    ELSE \A k \in Counts : admissions[a][k] < MaxRequests

TableBounded ==
  IsFiniteSet(Held(buckets)) /\ Cardinality(Held(buckets)) <= MaxBuckets

LimiterInv ==
  /\ LimiterTyped
  /\ \A a \in Addresses : WindowCounts(a)
  /\ TableBounded

LEMMA Constants ==
  /\ MaxRequests \in Nat /\ MaxRequests >= 1
  /\ Window \in Nat /\ Window >= 1
  /\ MaxBuckets \in Nat /\ MaxBuckets >= 1
  /\ NoBucket \notin Bucket
BY LimiterAssumption DEF Bucket

LEMMA LimiterInitially == LimiterInit => LimiterInv
<1> SUFFICES ASSUME LimiterInit
             PROVE  LimiterInv
  OBVIOUS
<1> USE Constants
<1>1. LimiterTyped
  BY DEF LimiterInit, LimiterTyped, Counts
<1>2. \A a \in Addresses : WindowCounts(a)
  BY DEF LimiterInit, WindowCounts, Fresh, Counts
<1>3. Held(buckets) = {}
  BY DEF LimiterInit, Held
<1>4. TableBounded
  BY <1>3, FS_EmptySet DEF TableBounded
<1> QED
  BY <1>1, <1>2, <1>4 DEF LimiterInv

(* What the sweep leaves: it only takes expired buckets away.              *)
LEMMA SweptIs ==
  ASSUME LimiterInv, NEW a \in Addresses
  PROVE  /\ Swept(a) \in [Addresses -> {NoBucket} \cup Bucket]
         /\ \A b \in Addresses :
              Swept(a)[b] = buckets[b] \/ (Swept(a)[b] = NoBucket /\ ~Fresh(b))
         /\ Held(Swept(a)) \subseteq Held(buckets)
         /\ IsFiniteSet(Held(Swept(a)))
         /\ Cardinality(Held(Swept(a))) <= Cardinality(Held(buckets))
         /\ Cardinality(Held(Swept(a))) \in Nat
         /\ Cardinality(Held(buckets)) \in Nat
<1>1. /\ Swept(a) \in [Addresses -> {NoBucket} \cup Bucket]
      /\ \A b \in Addresses :
           Swept(a)[b] = buckets[b] \/ (Swept(a)[b] = NoBucket /\ ~Fresh(b))
  BY DEF LimiterInv, LimiterTyped, Swept, Fresh
<1>2. Held(Swept(a)) \subseteq Held(buckets)
  BY <1>1 DEF Held
<1>3. IsFiniteSet(Held(buckets))
  BY DEF LimiterInv, TableBounded
<1> QED
  BY <1>1, <1>2, <1>3, FS_Subset, FS_CardinalityType

LEMMA RefuseKeeps ==
  ASSUME LimiterInv, NEW a \in Addresses, Refuse(a)
  PROVE  LimiterInv'
<1>1. buckets' = Swept(a) /\ admissions' = admissions
  BY DEF Refuse
<1>2. LimiterTyped'
  BY <1>1, SweptIs DEF LimiterInv, LimiterTyped
<1>3. ASSUME NEW b \in Addresses
      PROVE  WindowCounts(b)'
  <2>1. CASE Swept(a)[b] = buckets[b]
    BY <1>1, <2>1 DEF LimiterInv, WindowCounts, Fresh
  <2>2. CASE Swept(a)[b] = NoBucket /\ ~Fresh(b)
    BY <1>1, <2>2 DEF LimiterInv, WindowCounts, Fresh
  <2> QED
    BY <2>1, <2>2, SweptIs
<1>4. TableBounded'
  BY <1>1, SweptIs, Constants DEF LimiterInv, TableBounded
<1> QED
  BY <1>2, <1>3, <1>4 DEF LimiterInv

LEMMA LetInKeeps ==
  ASSUME LimiterInv, NEW a \in Addresses, LetIn(a)
  PROVE  LimiterInv'
<1> USE Constants
<1>1. /\ buckets' = [Swept(a) EXCEPT ![a] = Counted(buckets[a])]
      /\ admissions' = [admissions EXCEPT ![a] = [k \in Counts |-> @[k] + 1]]
      /\ Admits(a)
  BY DEF LetIn, Counts
<1>2. /\ buckets[a] \in {NoBucket} \cup Bucket
      /\ admissions[a] \in [Counts -> Nat]
      /\ WindowCounts(a)
  BY DEF LimiterInv, LimiterTyped
<1>3. /\ admissions'[a] = [k \in Counts |-> admissions[a][k] + 1]
      /\ buckets'[a] = Counted(buckets[a])
      /\ \A b \in Addresses \ {a} :
           admissions'[b] = admissions[b] /\ buckets'[b] = Swept(a)[b]
  BY <1>1, SweptIs DEF LimiterInv, LimiterTyped
<1>4. Fresh(a) => /\ buckets[a].count < MaxRequests
                  /\ Counted(buckets[a]) = [buckets[a] EXCEPT !.count = @ + 1]
  BY <1>1 DEF Fresh, Admits, Counted
<1>5. ~Fresh(a) => Counted(buckets[a]) = [age |-> 0, count |-> 1]
  BY DEF Fresh, Counted
<1>6. Counted(buckets[a]) \in Bucket
  BY <1>2, <1>4, <1>5 DEF Fresh, Bucket
<1>7. LimiterTyped'
  BY <1>1, <1>2, <1>6, SweptIs DEF LimiterInv, LimiterTyped
<1>8. ASSUME NEW k \in Counts
       PROVE  admissions[a][k] \in Nat /\ admissions'[a][k] = admissions[a][k] + 1
  BY <1>2, <1>3
<1>9. WindowCounts(a)'
  <2>1. CASE Fresh(a)
    <3>1. /\ buckets[a] \in Bucket
          /\ buckets'[a].age = buckets[a].age
          /\ buckets'[a].count = buckets[a].count + 1
      BY <1>2, <1>3, <1>4, <2>1 DEF Fresh, Bucket
    <3>2. Fresh(a)'
      BY <1>3, <1>6, <2>1, <3>1 DEF Fresh, Expired
    <3>3. buckets[a].age \in 0 .. Window /\ buckets[a].count \in Nat
      BY <3>1 DEF Bucket
    <3>4. \A k \in Counts : admissions'[a][k] < buckets'[a].count + MaxRequests
      BY <1>2, <1>8, <2>1, <3>1, <3>3 DEF WindowCounts
    <3>5. \A k \in 1 .. buckets'[a].age : k \in Counts
      BY <3>1, <3>3 DEF Counts
    <3>6. \A k \in 1 .. buckets'[a].age : admissions'[a][k] < buckets'[a].count
      BY <1>2, <1>8, <2>1, <3>1, <3>3, <3>5 DEF WindowCounts
    <3> QED
      BY <3>2, <3>4, <3>6 DEF WindowCounts
  <2>2. CASE ~Fresh(a)
    <3>1. buckets'[a].age = 0 /\ buckets'[a].count = 1
      BY <1>3, <1>5, <2>2
    <3>2. \A k \in Counts : admissions'[a][k] < buckets'[a].count + MaxRequests
      BY <1>2, <1>8, <2>2, <3>1 DEF WindowCounts
    <3>3. Fresh(a)'
      BY <1>3, <1>6, <3>1 DEF Fresh, Expired
    <3>4. 1 .. buckets'[a].age = {}
      BY <3>1
    <3> QED
      BY <3>2, <3>3, <3>4 DEF WindowCounts
  <2> QED
    BY <2>1, <2>2
<1>10. ASSUME NEW b \in Addresses \ {a}
      PROVE  WindowCounts(b)'
  <2>1. CASE Swept(a)[b] = buckets[b]
    BY <1>3, <2>1 DEF LimiterInv, WindowCounts, Fresh
  <2>2. CASE Swept(a)[b] = NoBucket /\ ~Fresh(b)
    BY <1>3, <2>2 DEF LimiterInv, WindowCounts, Fresh
  <2> QED
    BY <2>1, <2>2, SweptIs
<1>11. TableBounded'
  <2>1. CASE buckets[a] # NoBucket
    <3>1. Swept(a) = buckets
      BY <2>1 DEF Swept
    <3>2. Held(buckets') = Held(buckets)
      BY <1>1, <1>6, <2>1, <3>1 DEF Held, LimiterInv, LimiterTyped
    <3> QED
      BY <3>2 DEF LimiterInv, TableBounded
  <2>2. CASE buckets[a] = NoBucket
    <3>1. Cardinality(Held(Swept(a))) < MaxBuckets
      BY <1>1, <2>2, SweptIs DEF Admits, Full
    <3>2. Held(buckets') = Held(Swept(a)) \cup {a}
      BY <1>1, <1>6, SweptIs DEF Held
    <3>3. a \notin Held(Swept(a))
      BY <2>2, SweptIs DEF Held
    <3>4. /\ IsFiniteSet(Held(buckets'))
          /\ Cardinality(Held(buckets')) = Cardinality(Held(Swept(a))) + 1
      BY <3>2, <3>3, SweptIs, FS_AddElement
    <3>5. Cardinality(Held(Swept(a))) \in Nat
      BY SweptIs
    <3>6. Cardinality(Held(buckets')) <= MaxBuckets
      BY <3>1, <3>4, <3>5
    <3> QED
      BY <3>4, <3>6 DEF TableBounded
  <2> QED
    BY <2>1, <2>2
<1> QED
  BY <1>7, <1>9, <1>10, <1>11 DEF LimiterInv

LEMMA TickKeeps ==
  ASSUME LimiterInv, ClockTicks
  PROVE  LimiterInv'
<1> USE Constants
<1>1. ASSUME NEW a \in Addresses
      PROVE  /\ buckets[a] \in {NoBucket} \cup Bucket
             /\ buckets'[a] = Older(buckets[a])
  BY DEF ClockTicks, LimiterInv, LimiterTyped
<1>2. ASSUME NEW a \in Addresses
      PROVE  admissions[a] \in [Counts -> Nat]
  BY DEF LimiterInv, LimiterTyped
<1>3. ASSUME NEW a \in Addresses
      PROVE  admissions'[a] = [k \in Counts |-> IF k = 1 THEN 0 ELSE admissions[a][k - 1]]
  BY DEF ClockTicks, Counts
<1>4. ASSUME NEW a \in Addresses, NEW k \in Counts
      PROVE  /\ admissions[a][k] \in Nat
             /\ admissions'[a][k] \in Nat
             /\ k = 1 => admissions'[a][k] = 0
             /\ k # 1 => k - 1 \in Counts /\ admissions'[a][k] = admissions[a][k - 1]
  <2>1. k # 1 => k - 1 \in Counts
    BY DEF Counts
  <2>2. /\ k = 1 => admissions'[a][k] = 0
        /\ k # 1 => admissions'[a][k] = admissions[a][k - 1]
    <3> DEFINE shifted == [j \in Counts |-> IF j = 1 THEN 0 ELSE admissions[a][j - 1]]
    <3>1. admissions'[a] = shifted
      BY <1>3
    <3>2. shifted[k] = IF k = 1 THEN 0 ELSE admissions[a][k - 1]
      OBVIOUS
    <3> HIDE DEF shifted
    <3> QED
      BY <3>1, <3>2
  <2>3. \A j \in Counts : admissions[a][j] \in Nat
    BY <1>2
  <2> QED
    BY <2>1, <2>2, <2>3
<1>5. ASSUME NEW a \in Addresses
      PROVE  /\ ~Fresh(a) => buckets'[a] = buckets[a]
             /\ Fresh(a) => /\ buckets[a] \in Bucket
                            /\ buckets'[a] = [buckets[a] EXCEPT !.age = @ + 1]
  BY <1>1 DEF Older, Fresh
<1>6. ASSUME NEW a \in Addresses, Fresh(a)
      PROVE  /\ buckets[a].age \in 0 .. Window - 1
             /\ buckets[a].count \in 1 .. MaxRequests
             /\ buckets'[a].age = buckets[a].age + 1
             /\ buckets'[a].count = buckets[a].count
             /\ buckets'[a] \in Bucket
  <2>1. buckets[a] \in Bucket /\ buckets'[a] = [buckets[a] EXCEPT !.age = @ + 1]
    BY <1>5, <1>6
  <2>2. /\ buckets'[a].age = buckets[a].age + 1
        /\ buckets'[a].count = buckets[a].count
    BY <2>1 DEF Bucket
  <2>3. buckets[a].age \in 0 .. Window /\ buckets[a].count \in 1 .. MaxRequests
    BY <2>1 DEF Bucket
  <2>4. buckets[a].age \in 0 .. Window - 1
    BY <1>6, <2>3 DEF Fresh, Expired
  <2>5. buckets'[a] \in Bucket
    BY <2>1, <2>4 DEF Bucket
  <2> QED
    BY <2>2, <2>3, <2>4, <2>5
<1>7. ASSUME NEW a \in Addresses
      PROVE  /\ buckets'[a] \in {NoBucket} \cup Bucket
             /\ (buckets'[a] = NoBucket) <=> (buckets[a] = NoBucket)
  BY <1>1, <1>5, <1>6 DEF Fresh
<1>8. LimiterTyped'
  <2>1. \A a \in Addresses : admissions'[a] \in [Counts -> Nat]
    BY <1>3, <1>4
  <2>2. admissions' \in [Addresses -> [Counts -> Nat]]
    BY <2>1 DEF ClockTicks
  <2>3. buckets' \in [Addresses -> {NoBucket} \cup Bucket]
    BY <1>7 DEF ClockTicks
  <2> QED
    BY <2>2, <2>3 DEF LimiterTyped
<1>9. ASSUME NEW a \in Addresses
      PROVE  WindowCounts(a)'
  <2> WindowCounts(a)
    BY DEF LimiterInv
  <2>1. CASE ~Fresh(a)
    <3>1. \A k \in Counts : admissions'[a][k] < MaxRequests
      BY <1>4, <2>1 DEF WindowCounts
    <3>2. ~Fresh(a)'
      BY <1>5, <2>1 DEF Fresh
    <3> QED
      BY <3>1, <3>2 DEF WindowCounts
  <2>2. CASE Fresh(a)
    <3> DEFINE age == buckets[a].age
               count == buckets[a].count
    <3>1. age \in 0 .. Window - 1 /\ count \in 1 .. MaxRequests
          /\ buckets'[a].age = age + 1 /\ buckets'[a].count = count
      BY <1>6, <2>2
    <3>2. \A k \in Counts : admissions[a][k] < count + MaxRequests
      BY <2>2 DEF WindowCounts
    <3>3. \A k \in 1 .. age : admissions[a][k] < count
      BY <2>2 DEF WindowCounts
    <3> HIDE DEF age, count
    <3>4. \A k \in Counts : admissions'[a][k] < count + MaxRequests
      BY <1>4, <3>1, <3>2
    <3>5. \A k \in 1 .. age + 1 : admissions'[a][k] < count
      <4> SUFFICES ASSUME NEW k \in 1 .. age + 1
                   PROVE  admissions'[a][k] < count
        OBVIOUS
      <4>1. k \in Counts /\ (k # 1 => k - 1 \in 1 .. age)
        BY <3>1 DEF Counts
      <4> QED
        BY <1>4, <3>1, <3>3, <4>1
    <3>6. CASE Fresh(a)'
      BY <3>1, <3>4, <3>5, <3>6 DEF WindowCounts
    <3>7. CASE ~Fresh(a)'
      <4>1. age + 1 = Window
        <5>1. buckets'[a].age >= Window
          BY <1>6, <2>2, <3>7 DEF Fresh, Expired
        <5> QED
          BY <3>1, <5>1
      <4>2. \A k \in Counts : admissions'[a][k] < MaxRequests
        BY <1>4, <3>1, <3>5, <4>1 DEF Counts
      <4> QED
        BY <3>7, <4>2 DEF WindowCounts
    <3> QED
      BY <3>6, <3>7
  <2> QED
    BY <2>1, <2>2
<1>10. Held(buckets') = Held(buckets)
  BY <1>7 DEF Held
<1> QED
  BY <1>8, <1>9, <1>10 DEF LimiterInv, TableBounded

LEMMA LimiterInductive == LimiterInv /\ [Next]_routeVars => LimiterInv'
<1> SUFFICES ASSUME LimiterInv, [Next]_routeVars
             PROVE  LimiterInv'
  OBVIOUS
<1>1. CASE UNCHANGED limiterVars
  BY <1>1 DEF limiterVars, LimiterInv, LimiterTyped, WindowCounts, Fresh, TableBounded
<1>2. ASSUME NEW a \in Addresses, LetIn(a) \/ Refuse(a)
      PROVE  LimiterInv'
  BY <1>2, LetInKeeps, RefuseKeeps
<1>3. CASE ClockTicks
  BY <1>3, TickKeeps
<1> QED
  BY <1>1, <1>2, <1>3 DEF Next, routeVars, Public, PublicRequest, PublicRefused, AdminRequest,
     JobEnds, DaemonSubmits, MarkInactive, DaemonMoves, Tick

(* Fewer than twice maxRequests in any window's length, and a table within *)
(* its limit, however addresses, expiries and sweeps meet.                 *)
THEOREM AddressesAreLimited == Spec => []RateBounded
<1>1. Init => LimiterInv
  BY LimiterInitially DEF Init
<1>2. LimiterInv => RateBounded
  <2> SUFFICES ASSUME LimiterInv
               PROVE  RateBounded
    OBVIOUS
  <2> USE Constants
  <2>1. ASSUME NEW a \in Addresses
        PROVE  Recent(a) < 2 * MaxRequests
    <3>1. /\ WindowCounts(a)
          /\ admissions[a][Window] \in Nat
          /\ Fresh(a) => buckets[a].count \in 1 .. MaxRequests
      BY DEF LimiterInv, LimiterTyped, Fresh, Bucket, Counts
    <3> QED
      BY <3>1 DEF WindowCounts, Recent, Counts
  <2> QED
    BY <2>1 DEF RateBounded, LimiterInv, TableBounded
<1> QED
  BY <1>1, <1>2, LimiterInductive, PTL DEF Spec

-----------------------------------------------------------------------------
(* The answers of the administrative route.                                *)

(* The list of errors.ts is within those of the mapper.                    *)
LEMMA OkIsRecorded ==
  ASSUME NEW status, HttpStatus(status) = 200
  PROVE  status \in WithTransaction \cap WithRecord
BY DEF HttpStatus, WithTransaction, WithRecord

LEMMA ToldIsStored == SuccessIsDurable /\ [Next]_routeVars => SuccessIsDurable'
<1> SUFFICES ASSUME SuccessIsDurable, [Next]_routeVars, NEW t \in told'
             PROVE  AlreadyIndexed(t)'
  BY DEF SuccessIsDurable
<1>1. CASE UNCHANGED <<storeVars, told>>
  BY <1>1 DEF SuccessIsDurable, AlreadyIndexed, storeVars
<1>2. ASSUME NEW u \in Txids, NEW status \in Outcomes, JobEnds(u, status)
      PROVE  AlreadyIndexed(t)'
  <2>1. activeRows \subseteq activeRows' /\ records \subseteq records'
    BY <1>2 DEF JobEnds, Persist
  <2>2. CASE t \in told
    BY <2>1, <2>2 DEF SuccessIsDurable, AlreadyIndexed
  <2>3. CASE t \notin told
    <3>1. t = u /\ t \in Requested /\ HttpStatus(status) = 200
      BY <1>2, <2>3 DEF JobEnds
    <3>2. t \in activeRows' /\ t \in records'
      BY <1>2, <3>1, OkIsRecorded DEF JobEnds, Persist
    <3> QED
      BY <3>2 DEF AlreadyIndexed
  <2> QED
    BY <2>2, <2>3
<1>3. ASSUME NEW u \in Txids, MarkInactive(u)
      PROVE  AlreadyIndexed(t)'
  <2>1. t \in told /\ t # u
    BY <1>3 DEF MarkInactive
  <2> QED
    BY <1>3, <2>1 DEF MarkInactive, SuccessIsDurable, AlreadyIndexed
<1> QED
  BY <1>1, <1>2, <1>3 DEF Next, routeVars, Public, PublicRequest, PublicRefused, AdminRequest,
     DaemonSubmits, DaemonMoves, Tick

(* What a client is told 200 for is stored, whichever job it joined, and   *)
(* stays so whatever later jobs find or fail to find, until the daemon     *)
(* takes the row back.                                                     *)
THEOREM OkMeansIndexed == Spec => []SuccessIsDurable
<1>1. Init => SuccessIsDurable
  BY DEF Init, SuccessIsDurable
<1> QED
  BY <1>1, ToldIsStored, PTL DEF Spec

-----------------------------------------------------------------------------
(* The pages of the web application.                                       *)

(* Once the effect has run every request is one of the page's own, because *)
(* the cleanup gave up the others; until then they may be another page's.  *)
OwnRequests ==
  ~due => \A request \in requests : request.page = route /\ Fetches(route)

WebTyped == requests \subseteq [page : Pages, stage : Stages] /\ route \in Pages

WebInv == WebTyped /\ OwnRequests /\ ShowsItsPage /\ LoadingIsUnderWay

(* The four forms of an answer, and the two of a view that is none.        *)
LEMMA Views ==
  /\ Loading.kind = "loading"
  /\ \A page : Loaded(page).kind = "loaded" /\ Loaded(page).page = page
  /\ \A code : Failed(code).kind = "error"
  BY DEF Loading, Loaded, Failed

(* The end of a request shows its page or an error, never that it loads.   *)
LEMMA SettledKeeps ==
  ASSUME WebInv, NEW request \in requests, NEW answer,
         answer = Loaded(request.page) \/ \E code : answer = Failed(code),
         Settled(request, answer)
  PROVE  WebInv'
<1>1. /\ requests' = requests \ {request} /\ view' = answer
      /\ UNCHANGED <<route, due>>
  BY DEF Settled
<1>2. OwnRequests'
  BY <1>1 DEF WebInv, OwnRequests, Fetches
<1>3. view'.kind # "loading"
  BY <1>1, Views
<1>4. view'.kind = "loaded" => view'.page = request.page
  BY <1>1, Views
<1>5. ShowsItsPage'
  BY <1>1, <1>4 DEF WebInv, OwnRequests, ShowsItsPage, Fetches
<1>6. LoadingIsUnderWay'
  BY <1>3 DEF LoadingIsUnderWay
<1>7. WebTyped'
  BY <1>1 DEF WebInv, WebTyped
<1>8. QED
  BY <1>2, <1>5, <1>6, <1>7 DEF WebInv

LEMMA WebInductive == WebInv /\ [WebNext]_webVars => WebInv'
<1> SUFFICES ASSUME WebInv, [WebNext]_webVars
             PROVE  WebInv'
  OBVIOUS
<1>1. ASSUME NEW page \in Pages, Navigate(page)
      PROVE  WebInv'
  BY <1>1 DEF Navigate, WebInv, WebTyped, OwnRequests, ShowsItsPage, LoadingIsUnderWay
<1>2. CASE Retry
  BY <1>2 DEF Retry, WebInv, WebTyped, OwnRequests, ShowsItsPage, LoadingIsUnderWay
<1>3. CASE RunEffect
  <2>1. CASE Fetches(route)
    <3>1. view' = AfterAbort(Loading) /\ requests' = {Request(route)} /\ UNCHANGED route
      BY <1>3, <2>1 DEF RunEffect, Aborted
    <3>2. view'.kind # "loaded"
      BY <3>1, Views DEF AfterAbort
    <3>3. Request(route).page = route
      BY DEF Request
    <3>4. WebTyped'
      BY <3>1 DEF WebInv, WebTyped, Request, Stages
    <3>5. QED
      BY <2>1, <3>1, <3>2, <3>3, <3>4 DEF WebInv, OwnRequests, ShowsItsPage, LoadingIsUnderWay, Fetches
  <2>2. CASE ~Fetches(route)
    <3>1. requests' = {} /\ UNCHANGED route
      BY <1>3, <2>2 DEF RunEffect, Aborted
    <3>2. QED
      BY <2>2, <3>1 DEF WebInv, WebTyped, OwnRequests, ShowsItsPage, LoadingIsUnderWay, Fetches
  <2>3. QED
    BY <2>1, <2>2
<1>4. ASSUME NEW request \in requests, NEW stage \in Stages, Responds(request, stage)
      PROVE  WebInv'
  <2> DEFINE moved == [request EXCEPT !.stage = stage]
  <2>1. /\ requests' = (requests \ {request}) \cup {moved}
        /\ UNCHANGED <<route, view, due>>
    BY <1>4 DEF Responds
  <2>2. moved \in [page : Pages, stage : Stages] /\ moved.page = request.page
    BY DEF WebInv, WebTyped
  <2> HIDE DEF moved
  <2>3. OwnRequests'
    BY <2>1, <2>2 DEF WebInv, OwnRequests, Fetches
  <2>4. ShowsItsPage'
    BY <2>1 DEF WebInv, ShowsItsPage, Fetches
  <2>5. LoadingIsUnderWay'
    BY <2>1, <2>2 DEF WebInv, LoadingIsUnderWay, Fetches
  <2>6. WebTyped'
    BY <2>1, <2>2 DEF WebInv, WebTyped
  <2>7. QED
    BY <2>3, <2>4, <2>5, <2>6 DEF WebInv
<1>5. ASSUME NEW request \in requests, Unreachable(request) \/ Answers(request) \/ Refuses(request)
      PROVE  WebInv'
  BY <1>5, SettledKeeps DEF Unreachable, Answers, Refuses
<1>6. CASE UNCHANGED webVars
  BY <1>6 DEF webVars, WebInv, WebTyped, OwnRequests, ShowsItsPage, LoadingIsUnderWay, Fetches
<1>7. QED
  BY <1>1, <1>2, <1>3, <1>4, <1>5, <1>6 DEF WebNext

LEMMA PagesInv == WebSpec => []WebInv
<1>1. WebInit => WebInv
  BY DEF WebInit, WebInv, WebTyped, OwnRequests, ShowsItsPage, LoadingIsUnderWay
<1> QED
  BY <1>1, WebInductive, PTL DEF WebSpec

(* A page never shows the answer to another page: the cleanup of its       *)
(* effect gives up the requests of the page before (FeedRoute and          *)
(* TransactionRoute).                                                      *)
THEOREM PagesShowTheirOwn == WebSpec => []ShowsItsPage
BY PagesInv, PTL DEF WebInv

(* A page that loads has a request under way, or is about to make one: no  *)
(* reader waits for an answer nobody will send (the client's               *)
(* requestUnknown).                                                        *)
THEOREM LoadingPagesAreServed == WebSpec => []LoadingIsUnderWay
BY PagesInv, PTL DEF WebInv

(***************************************************************************)
(* A page shows one of its three views, whatever an answer, an abort or an *)
(* error of the client makes of it (FeedRoute, TransactionRoute,           *)
(* api/client.ts).                                                         *)
(***************************************************************************)
THEOREM PagesTypeCorrect == WebSpec => []WebTypeOK
<1> DEFINE PageViews == {Loading} \cup {Loaded(page) : page \in Pages}
                                  \cup {Failed(code) : code \in Codes}
           Shown == view \in PageViews /\ due \in BOOLEAN
<1>1. WebInit => Shown
  BY DEF WebInit
<1>2. WebInv /\ Shown /\ [WebNext]_webVars => Shown'
  <2> SUFFICES ASSUME WebInv, Shown, [WebNext]_webVars
               PROVE  Shown'
    OBVIOUS
  <2>1. \A code \in Codes : Failed(code) \in PageViews
    OBVIOUS
  <2>2. \A page \in Pages : Loaded(page) \in PageViews
    OBVIOUS
  <2>3. Loading \in PageViews
    OBVIOUS
  <2> HIDE DEF PageViews
  <2>4. CASE (\E page \in Pages : Navigate(page)) \/ Retry
    BY <2>3, <2>4 DEF Navigate, Retry
  <2>5. CASE RunEffect
    <3>1. AfterAbort(Loading) \in PageViews /\ AfterAbort(view) \in PageViews
      BY <2>1, <2>3 DEF AfterAbort, Codes
    <3> QED
      BY <2>5, <3>1 DEF RunEffect
  <2>6. ASSUME NEW request \in requests, NEW stage \in Stages, Responds(request, stage)
        PROVE  Shown'
    BY <2>6 DEF Responds
  <2>7. ASSUME NEW request \in requests, NEW answer \in PageViews, Settled(request, answer)
        PROVE  Shown'
    BY <2>7 DEF Settled
  <2>8. ASSUME NEW request \in requests,
               Unreachable(request) \/ Answers(request) \/ Refuses(request)
        PROVE  \E answer \in PageViews : Settled(request, answer)
    <3>1. request.page \in Pages
      BY DEF WebInv, WebTyped
    <3> QED
      BY <2>1, <2>2, <2>8, <3>1 DEF Unreachable, Answers, Refuses, Codes
  <2>9. CASE UNCHANGED webVars
    BY <2>9 DEF webVars
  <2> QED
    BY <2>4, <2>5, <2>6, <2>7, <2>8, <2>9 DEF WebNext
<1>3. WebInv /\ Shown => WebTypeOK
  BY DEF WebInv, WebTyped, WebTypeOK
<1> QED
  <2> HIDE DEF Shown
  <2> QED
    BY PagesInv, <1>1, <1>2, <1>3, PTL DEF WebSpec
=============================================================================
