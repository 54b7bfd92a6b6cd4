----------------------------- MODULE RateLimiter -----------------------------
(***************************************************************************)
(* The per-address limit of the public route: createRateLimitPreHandler in *)
(* apps/indexer/src/api/routes.ts.                                         *)
(*                                                                         *)
(* The handler is synchronous, so a request meets it in one step.  A       *)
(* bucket holds its age instead of startedAt: the code only ever compares  *)
(* now - startedAt with windowMs, so ages stop counting there and time     *)
(* needs no bound.  Date.now() is taken to move forward.                   *)
(***************************************************************************)
EXTENDS Integers, FiniteSets

CONSTANTS
  Addresses,    \* the values of request.ip
  MaxRequests,  \* maxRequests
  Window,       \* windowMs, in ticks of the clock
  MaxBuckets,   \* MAX_PUBLIC_INDEX_RATE_LIMIT_BUCKETS
  NoBucket      \* "the map has no such key"

ASSUME LimiterAssumption ==
  /\ MaxRequests \in Nat \ {0}
  /\ Window \in Nat \ {0}
  /\ MaxBuckets \in Nat \ {0}
  /\ NoBucket \notin [age : Nat, count : Nat]

VARIABLES
  buckets,      \* as in the code
  admissions,   \* history: admissions[a][k] requests of a were let in less than
                \*   k ticks ago
  refused       \* history: addresses refused since any request was let in

limiterVars == <<buckets, admissions, refused>>

Held(table) == {a \in Addresses : table[a] # NoBucket}
Expired(bucket) == bucket.age >= Window
Full(table) == Cardinality(Held(table)) >= MaxBuckets

LimiterInit ==
  /\ buckets = [a \in Addresses |-> NoBucket]
  /\ admissions = [a \in Addresses |-> [k \in 1 .. Window |-> 0]]
  /\ refused = {}

(* The table after the sweep, which only an unknown address that finds it  *)
(* full brings about.                                                      *)
NeverSwept(a) == buckets   \* mutant: the sweep is left out

Swept(a) ==
  IF buckets[a] = NoBucket /\ Full(buckets)
    THEN [b \in Addresses |->
            IF buckets[b] # NoBucket /\ Expired(buckets[b]) THEN NoBucket ELSE buckets[b]]
    ELSE buckets

(* Mutant: one request too many. *)
AdmitsOneMore(a) ==
  IF buckets[a] = NoBucket THEN ~Full(Swept(a))
  ELSE Expired(buckets[a]) \/ buckets[a].count <= MaxRequests

Admits(a) ==
  IF buckets[a] = NoBucket THEN ~Full(Swept(a))
  ELSE Expired(buckets[a]) \/ buckets[a].count < MaxRequests

Counted(bucket) ==
  IF bucket = NoBucket \/ Expired(bucket) THEN [age |-> 0, count |-> 1]
                                          ELSE [bucket EXCEPT !.count = @ + 1]

LetIn(a) ==
  /\ Admits(a)
  /\ buckets' = [Swept(a) EXCEPT ![a] = Counted(buckets[a])]
  /\ admissions' = [admissions EXCEPT ![a] = [k \in 1 .. Window |-> @[k] + 1]]
  /\ refused' = {}

(* 429 RATE_LIMITED *)
Refuse(a) ==
  /\ ~Admits(a)
  /\ buckets' = Swept(a)
  /\ refused' = refused \cup {a}
  /\ UNCHANGED admissions

Older(bucket) ==
  IF bucket = NoBucket \/ Expired(bucket) THEN bucket ELSE [bucket EXCEPT !.age = @ + 1]

ClockTicks ==
  /\ buckets' = [a \in Addresses |-> Older(buckets[a])]
  /\ admissions' = [a \in Addresses |->
                      [k \in 1 .. Window |-> IF k = 1 THEN 0 ELSE admissions[a][k - 1]]]
  /\ UNCHANGED refused

-----------------------------------------------------------------------------
Recent(a) == admissions[a][Window]

(***************************************************************************)
(* What the fixed windows of routes.ts amount to.  In any stretch of time  *)
(* shorter than a window an address has fewer than twice maxRequests       *)
(* requests let in: a window that opens late and the next one, never three *)
(* and never a window that is opened again because its bucket was swept    *)
(* away.  The table never outgrows its limit.                              *)
(***************************************************************************)
RateBounded ==
  /\ \A a \in Addresses : Recent(a) < 2 * MaxRequests
  /\ Cardinality(Held(buckets)) <= MaxBuckets

(***************************************************************************)
(* The limiter locks nobody out for good: an address that keeps asking is  *)
(* not refused for ever while nobody else is let in either.  (With more    *)
(* addresses than buckets one may lose every race to the others.)          *)
(***************************************************************************)
NoLockout == \A a \in Addresses : a \in refused ~> a \notin refused
=============================================================================
