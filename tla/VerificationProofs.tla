-------------------------- MODULE VerificationProofs --------------------------
(***************************************************************************)
(* The verdict on a transaction and its record, for any transaction, any   *)
(* registry, any limits and any order of blocks, reads of the tip and      *)
(* calls.                                                                  *)
(***************************************************************************)
EXTENDS PublicRecord, FiniteSetTheorems, SequenceTheorems, WellFoundedInduction, TLAPS

-----------------------------------------------------------------------------
(* Chains of checks. *)

LEMMA SmallestIn ==
  ASSUME NEW S \in SUBSET Nat, S # {}
  PROVE  \E x \in S : \A y \in S : x <= y
<1>1. IsWellFoundedOn(OpToRel(<, Nat), Nat)
  BY NatLessThanWellFounded
<1>2. PICK x \in S : \A y \in S : ~(<<y, x>> \in OpToRel(<, Nat))
  BY <1>1, WFMin
<1>3. \A y \in S : ~(y < x)
  BY <1>2 DEF OpToRel
<1> QED
  BY <1>3

(* The first check that fails is one that fails. *)
LEMMA FirstFaultIs ==
  ASSUME NEW n \in Nat, NEW checks, DOMAIN checks = 1 .. n,
         NEW i \in 1 .. n, checks[i].holds
  PROVE  \E k \in 1 .. n : checks[k].holds /\ FirstFault(checks) = checks[k].code
<1> DEFINE First(k) == /\ k \in DOMAIN checks /\ checks[k].holds
                       /\ \A j \in 1 .. k - 1 : ~checks[j].holds
           failing == {k \in 1 .. n : checks[k].holds}
<1>1. PICK k \in failing : \A j \in failing : k <= j
  <2>1. failing \in SUBSET Nat /\ i \in failing
    OBVIOUS
  <2> QED
    BY <2>1, SmallestIn
<1>2. \A j \in 1 .. k - 1 : j \in 1 .. n /\ ~(k <= j)
  OBVIOUS
<1>3. First(k)
  BY <1>1, <1>2
<1>4. First(CHOOSE j \in DOMAIN checks : checks[j].holds /\ \A h \in 1 .. j - 1 : ~checks[h].holds)
  BY <1>3, Zenon
<1> QED
  BY <1>4 DEF FirstFault

(* No check speaks exactly if all of them are passed. *)
LEMMA AllPassed ==
  ASSUME NEW n \in Nat, NEW checks, DOMAIN checks = 1 .. n,
         \A i \in 1 .. n : checks[i].holds => checks[i].code # "OK"
  PROVE  FirstFault(checks) = "OK" <=> \A i \in 1 .. n : ~checks[i].holds
<1>1. ASSUME NEW i \in 1 .. n, checks[i].holds
      PROVE  FirstFault(checks) # "OK"
  BY <1>1, FirstFaultIs
<1>2. ASSUME \A i \in 1 .. n : ~checks[i].holds
      PROVE  FirstFault(checks) = "OK"
  BY <1>2 DEF FirstFault
<1> QED
  BY <1>1, <1>2

(* Checks that follow others. *)
LEMMA Appended ==
  ASSUME NEW S, NEW T, NEW s \in Seq(S), NEW t \in Seq(T)
  PROVE  /\ DOMAIN (s \o t) = 1 .. Len(s) + Len(t)
         /\ \A k \in 1 .. Len(s) : (s \o t)[k] = s[k]
         /\ \A k \in 1 .. Len(t) : (s \o t)[Len(s) + k] = t[k]
<1> DEFINE r == s \o t
<1>1. s \in Seq(S \cup T) /\ t \in Seq(S \cup T) /\ Len(s) \in Nat /\ Len(t) \in Nat
  OBVIOUS
<1>2. /\ r \in Seq(S \cup T) /\ Len(r) = Len(s) + Len(t)
      /\ \A k \in 1 .. Len(s) + Len(t) : r[k] = IF k <= Len(s) THEN s[k] ELSE t[k - Len(s)]
  BY <1>1, ConcatProperties
<1> HIDE DEF r
<1>3. DOMAIN r = 1 .. Len(s) + Len(t)
  BY <1>2
<1>4. \A k \in 1 .. Len(s) : r[k] = s[k]
  BY <1>1, <1>2
<1>5. ASSUME NEW k \in 1 .. Len(t) PROVE r[Len(s) + k] = t[k]
  <2>1. Len(s) + k \in 1 .. Len(s) + Len(t) /\ ~(Len(s) + k <= Len(s)) /\ Len(s) + k - Len(s) = k
    BY <1>1
  <2> QED
    BY <1>2, <2>1
<1> QED
  BY <1>3, <1>4, <1>5 DEF r

(* One check; a field holds what it was given, a truth value too. *)
LEMMA FaultFields ==
  ASSUME NEW code, NEW P \in BOOLEAN
  PROVE  Fault(code, P).code = code /\ Fault(code, P).holds = P
BY DEF Fault

-----------------------------------------------------------------------------
(* The registry. *)

LEMMA AddressAccepted ==
  ASSUME NEW list, NEW i, AddressFault(list, i) = "OK"
  PROVE  /\ {list[i].from, list[i].until} \ {NoBound} \subseteq Heights
         /\ \A j \in 1 .. i - 1 : list[j].address # list[i].address
<1> DEFINE entry == list[i]
           height == {entry.from, entry.until} \ {NoBound} \notin SUBSET Heights
           range == /\ NoBound \notin {entry.from, entry.until}
                    /\ entry.from > entry.until
           again == \E j \in 1 .. i - 1 : list[j].address = entry.address
           checks == << Fault("INVALID_ADDRESS", ~entry.canonical),
                        Fault("INVALID_HEIGHT", height),
                        Fault("INVALID_HEIGHT_RANGE", range),
                        Fault("DUPLICATE_ADDRESS", again) >>
<1>1. FirstFault(checks) = "OK"
  BY DEF AddressFault
<1>2. checks[2].holds = height /\ checks[4].holds = again
  BY FaultFields
<1>3. DOMAIN checks = 1 .. 4 /\ \A k \in 1 .. 4 : checks[k].code # "OK"
  BY DEF Fault
<1>4. \A k \in 1 .. 4 : ~checks[k].holds
  <2> HIDE DEF checks
  <2> QED
    BY <1>1, <1>3, AllPassed
<1>5. ~checks[2].holds /\ ~checks[4].holds
  <2> HIDE DEF checks
  <2> QED
    BY <1>4
<1>6. ~height /\ ~again
  <2> HIDE DEF checks, height, again
  <2> QED
    BY <1>2, <1>5, Zenon
<1> QED
  BY <1>6

LEMMA EntryAccepted ==
  ASSUME NEW code, NEW entry, entry.addresses \in Seq(Listings), EntryFault(code, entry) = "OK",
         NEW i \in DOMAIN entry.addresses
  PROVE  AddressFault(entry.addresses, i) = "OK"
<1> DEFINE list == entry.addresses
           faulty(k) == AddressFault(list, k) # "OK"
           head == << Fault("PROFILE_CODE_MISMATCH", entry.code # code),
                      Fault("ALIAS_MISMATCH", entry.alias # code),
                      Fault("INVALID_DISPLAY_NAME", ~entry.named) >>
           tail == [k \in DOMAIN list |-> Fault(AddressFault(list, k), faulty(k))]
           checks == head \o tail
<1>1. FirstFault(checks) = "OK"
  BY DEF EntryFault
<1>2. /\ head \in Seq({head[1], head[2], head[3]}) /\ Len(head) = 3
      /\ \A k \in 1 .. 3 : head[k].code # "OK"
  BY DEF Fault
<1>3. Len(list) \in Nat /\ DOMAIN list = 1 .. Len(list)
  OBVIOUS
<1>4. tail \in Seq({tail[k] : k \in 1 .. Len(list)}) /\ Len(tail) = Len(list)
  <2>1. DOMAIN tail = 1 .. Len(list)
    BY <1>3
  <2> HIDE DEF tail
  <2>2. tail = [k \in 1 .. Len(list) |-> tail[k]]
    <3>1. tail = [k \in DOMAIN tail |-> tail[k]]
      BY DEF tail
    <3> QED
      BY <2>1, <3>1
  <2> QED
    BY <1>3, <2>2
<1>5. \A k \in 1 .. Len(list) :
         (tail[k].holds <=> faulty(k)) /\ tail[k].code = AddressFault(list, k)
  BY <1>3, FaultFields
<1> HIDE DEF head, tail
<1>6. /\ DOMAIN checks = 1 .. 3 + Len(list)
      /\ \A k \in 1 .. 3 : checks[k] = head[k]
      /\ \A k \in 1 .. Len(list) : checks[3 + k] = tail[k]
  <2> DEFINE S == {head[1], head[2], head[3]}
             T == {tail[k] : k \in 1 .. Len(list)}
  <2>1. head \in Seq(S) /\ tail \in Seq(T)
    BY <1>2, <1>4
  <2> HIDE DEF S, T
  <2>2. /\ DOMAIN (head \o tail) = 1 .. Len(head) + Len(tail)
        /\ \A k \in 1 .. Len(head) : (head \o tail)[k] = head[k]
        /\ \A k \in 1 .. Len(tail) : (head \o tail)[Len(head) + k] = tail[k]
    BY <2>1, Appended
  <2> HIDE DEF list
  <2> QED
    BY <1>2, <1>4, <2>2
<1> HIDE DEF checks
<1>7. ASSUME NEW k \in 1 .. 3 + Len(list), checks[k].holds
      PROVE  checks[k].code # "OK"
  <2>1. CASE k \in 1 .. 3
    BY <1>2, <1>6, <2>1
  <2>2. CASE k \notin 1 .. 3
    <3>1. k - 3 \in 1 .. Len(list) /\ 3 + (k - 3) = k
      BY <1>3, <2>2
    <3>2. tail[k - 3].holds
      BY <1>6, <1>7, <3>1
    <3>3. faulty(k - 3) /\ tail[k - 3].code = AddressFault(list, k - 3)
      BY <1>5, <3>1, <3>2, Zenon
    <3> QED
      BY <1>6, <3>1, <3>3
  <2> QED
    BY <2>1, <2>2
<1>8. 3 + Len(list) \in Nat
  BY <1>3
<1>9. \A k \in 1 .. 3 + Len(list) : ~checks[k].holds
  BY <1>1, <1>6, <1>7, <1>8, AllPassed
<1>10. i \in 1 .. Len(list) /\ 3 + i \in 1 .. 3 + Len(list)
  BY <1>3
<1>11. ~tail[i].holds
  BY <1>6, <1>9, <1>10
<1> QED
  BY <1>5, <1>10, <1>11, Zenon

(* What parseRegistry has made sure of. *)
LEMMA RegistryAccepted ==
  ASSUME NEW doc, RegistryFault(doc) = "OK"
  PROVE  /\ DOMAIN doc.profiles = Profiles
         /\ \A code \in Profiles : EntryFault(code, doc.profiles[code]) = "OK"
<1> DEFINE keys == DOMAIN doc.profiles
           missing == ~(Profiles \subseteq keys)
           unknown == ~(keys \subseteq Profiles)
           head == << Fault("UNSUPPORTED_SCHEMA_VERSION", doc.schemaVersion # 1),
                      Fault("INVALID_NETWORK", doc.network # "ecash-mainnet"),
                      Fault("MISSING_PROFILE", missing),
                      Fault("UNKNOWN_PROFILE", unknown) >>
           fault(code) == EntryFault(code, doc.profiles[code])
           faulty(k) == fault(ProfileCodes[k]) # "OK"
           checks == [k \in DOMAIN ProfileCodes |-> Fault(fault(ProfileCodes[k]), faulty(k))]
<1>1. FirstFault(head) = "OK" /\ FirstFault(checks) = "OK"
  BY DEF RegistryFault
<1>2. DOMAIN head = 1 .. 4 /\ \A k \in 1 .. 4 : head[k].code # "OK"
  BY DEF Fault
<1>3. head[3].holds = missing /\ head[4].holds = unknown
  BY FaultFields
<1>4. ~missing /\ ~unknown
  <2> HIDE DEF head, missing, unknown
  <2>1. \A k \in 1 .. 4 : ~head[k].holds
    BY <1>1, <1>2, AllPassed
  <2>2. ~head[3].holds /\ ~head[4].holds
    BY <2>1
  <2> QED
    BY <1>3, <2>2, Zenon
<1>5. PICK n \in Nat : DOMAIN ProfileCodes = 1 .. n
  BY RegistryAssumption
<1>6. \A k \in 1 .. n : (checks[k].holds <=> faulty(k)) /\ checks[k].code = fault(ProfileCodes[k])
  BY <1>5, FaultFields
<1>7. DOMAIN checks = 1 .. n
  BY <1>5
<1> HIDE DEF checks
<1>8. \A k \in 1 .. n : checks[k].holds => checks[k].code # "OK"
  BY <1>6, Zenon
<1>9. \A k \in 1 .. n : ~checks[k].holds
  BY <1>1, <1>7, <1>8, AllPassed
<1>10. \A k \in 1 .. n : fault(ProfileCodes[k]) = "OK"
  BY <1>6, <1>9, Zenon
<1> QED
  BY <1>4, <1>5, <1>10 DEF Profiles

(* The first listing of an address is its only one, so that the window     *)
(* that authorizeAddress looks at is the one that counts.                  *)
LEMMA AuthorizedInWindow ==
  ASSUME NEW profile, profile.addresses \in Seq(Listings),
         \A i \in DOMAIN profile.addresses : AddressFault(profile.addresses, i) = "OK",
         NEW address, NEW context, EvaluationHeight(context) \in Heights
  PROVE  Authorize(profile, address, context) = "OK" <=>
           \E i \in DOMAIN profile.addresses :
             /\ profile.addresses[i].address = address
             /\ EvaluationHeight(context) \in Window(profile.addresses[i])
<1> DEFINE list == profile.addresses
           listed == {i \in DOMAIN list : list[i].address = address}
           first == list[CHOOSE i \in listed : \A j \in listed : i <= j]
           height == EvaluationHeight(context)
           none == listed = {}
           early == listed # {} /\ first.from # NoBound /\ height < first.from
           late == listed # {} /\ first.until # NoBound /\ height > first.until
           checks == << Fault("ADDRESS_NOT_LISTED", none), Fault("NOT_YET_VALID", early),
                        Fault("EXPIRED", late) >>
<1>1. Authorize(profile, address, context) = FirstFault(checks)
  BY DEF Authorize
<1>2. DOMAIN checks = 1 .. 3 /\ \A k \in 1 .. 3 : checks[k].code # "OK"
  <2> HIDE DEF none, early, late
  <2> QED
    BY DEF Fault
<1>3. checks[1].holds = none /\ checks[2].holds = early /\ checks[3].holds = late
  BY FaultFields
<1>4. Authorize(profile, address, context) = "OK" <=> ~none /\ ~early /\ ~late
  <2> HIDE DEF checks, none, early, late
  <2>1. FirstFault(checks) = "OK" <=> \A k \in 1 .. 3 : ~checks[k].holds
    BY <1>2, AllPassed
  <2>2. (\A k \in 1 .. 3 : ~checks[k].holds)
        <=> ~checks[1].holds /\ ~checks[2].holds /\ ~checks[3].holds
    OBVIOUS
  <2> QED
    BY <1>1, <1>3, <2>1, <2>2, Zenon
<1>5. \A i, j \in listed : i = j
  <2> SUFFICES ASSUME NEW i \in listed, NEW j \in listed, i < j PROVE FALSE
    OBVIOUS
  <2>1. i \in 1 .. j - 1 /\ AddressFault(list, j) = "OK"
    OBVIOUS
  <2> QED
    BY <2>1, AddressAccepted
<1>6. ASSUME NEW i \in listed
      PROVE  Authorize(profile, address, context) = "OK" <=> height \in Window(list[i])
  <2>1. first = list[i]
    BY <1>5, <1>6
  <2>2. list[i].from \in Int \cup {NoBound} /\ list[i].until \in Int \cup {NoBound}
    <3>1. list[i] \in Listings
      OBVIOUS
    <3> HIDE DEF list
    <3> QED
      BY <3>1 DEF Listings
  <2>3. height \in Int /\ height \in Heights
    BY RegistryAssumption DEF Heights
  <2>4. height \in Window(list[i]) <=>
          /\ list[i].from # NoBound => list[i].from <= height
          /\ list[i].until # NoBound => height <= list[i].until
    BY <2>3 DEF Window
  <2>5. ~none
    BY <1>6
  <2>6. ~early /\ ~late <=>
          /\ list[i].from # NoBound => list[i].from <= height
          /\ list[i].until # NoBound => height <= list[i].until
    <3> DEFINE from == list[i].from
               until == list[i].until
    <3>1. early <=> from # NoBound /\ height < from
      <4> HIDE DEF height, first, list
      <4> QED
        BY <2>1, <2>5
    <3>2. late <=> until # NoBound /\ height > until
      <4> HIDE DEF height, first, list
      <4> QED
        BY <2>1, <2>5
    <3>3. from # NoBound => (~(height < from) <=> from <= height)
      <4> HIDE DEF height, list
      <4> QED
        BY <2>2, <2>3
    <3>4. until # NoBound => (~(height > until) <=> height <= until)
      <4> HIDE DEF height, list
      <4> QED
        BY <2>2, <2>3
    <3> HIDE DEF early, late, height
    <3> QED
      BY <3>1, <3>2, <3>3, <3>4, Zenon
  <2> HIDE DEF early, late, none, height
  <2> QED
    BY <1>4, <2>4, <2>5, <2>6, Zenon
<1>7. CASE listed = {}
  BY <1>4, <1>7
<1>8. CASE listed # {}
  <2>1. PICK i \in listed : TRUE
    BY <1>8
  <2> QED
    BY <1>5, <1>6, <2>1
<1> QED
  BY <1>7, <1>8

-----------------------------------------------------------------------------
(* The candidates of a transaction. *)

LEMMA OutputsAre ==
  ASSUME NEW t \in Transactions
  PROVE  /\ t.outputs \in Seq(Scripts) /\ DOMAIN t.outputs = 1 .. Len(t.outputs)
         /\ Len(t.outputs) \in Nat
         /\ \A o \in DOMAIN t.outputs :
              /\ t.outputs[o] \in Scripts
              /\ t.outputs[o].pushes \in Seq(Published)
              /\ DOMAIN t.outputs[o].pushes = 1 .. Len(t.outputs[o].pushes)
              /\ Len(t.outputs[o].pushes) \in Nat
<1>1. t.outputs \in Seq(Scripts)
  BY DEF Transactions
<1>2. \A o \in DOMAIN t.outputs : t.outputs[o] \in Scripts
  BY <1>1
<1>3. \A s \in Scripts : s.pushes \in Seq(Published)
  BY DEF Scripts
<1>4. \A s \in Seq(Published) : DOMAIN s = 1 .. Len(s) /\ Len(s) \in Nat
  OBVIOUS
<1>5. DOMAIN t.outputs = 1 .. Len(t.outputs) /\ Len(t.outputs) \in Nat
  BY <1>1
<1> QED
  BY <1>1, <1>2, <1>3, <1>4, <1>5

LEMMA InputsAre ==
  ASSUME NEW t \in Transactions
  PROVE  /\ t.inputs \in Seq(Inputs) /\ DOMAIN t.inputs = 1 .. Len(t.inputs)
         /\ Len(t.inputs) \in Nat
         /\ \A i \in DOMAIN t.inputs : t.inputs[i] \in Inputs
<1>1. t.inputs \in Seq(Inputs)
  BY DEF Transactions
<1> QED
  BY <1>1

(* The push that makes candidate c one. *)
PushAt(t, c) == t.outputs[c[1]].pushes[c[2]]

LEMMA CandidatesAre ==
  ASSUME NEW t \in Transactions
  PROVE  /\ Tm1Candidates(t) \subseteq DOMAIN t.outputs
         /\ \A c \in Tm0Candidates(t) :
              /\ c = << c[1], c[2] >> /\ c[1] \in Nat /\ c[2] \in Nat
              /\ c[1] \in DOMAIN t.outputs /\ c[2] \in DOMAIN t.outputs[c[1]].pushes
              /\ PushAt(t, c) \in Published /\ IsTonalli(PushAt(t, c))
<1>1. Tm1Candidates(t) \subseteq DOMAIN t.outputs
  BY DEF Tm1Candidates
<1>2. ASSUME NEW c \in Tm0Candidates(t)
      PROVE  \E o \in DOMAIN t.outputs : \E k \in DOMAIN ParsedPushes(t.outputs[o]) :
               c = << o, k >> /\ IsTonalli(ParsedPushes(t.outputs[o])[k])
  BY <1>2 DEF Tm0Candidates
<1>3. ASSUME NEW o \in DOMAIN t.outputs, NEW k \in DOMAIN ParsedPushes(t.outputs[o])
      PROVE  /\ ParsedPushes(t.outputs[o]) = t.outputs[o].pushes
             /\ o \in Nat /\ k \in Nat /\ t.outputs[o].pushes[k] \in Published
  <2>1. ParsedPushes(t.outputs[o]) = t.outputs[o].pushes
    BY <1>3 DEF ParsedPushes
  <2> QED
    BY <1>3, <2>1, OutputsAre
<1>4. ASSUME NEW c \in Tm0Candidates(t)
      PROVE  /\ c = << c[1], c[2] >> /\ c[1] \in Nat /\ c[2] \in Nat
             /\ c[1] \in DOMAIN t.outputs /\ c[2] \in DOMAIN t.outputs[c[1]].pushes
             /\ PushAt(t, c) \in Published /\ IsTonalli(PushAt(t, c))
  <2>1. PICK o \in DOMAIN t.outputs : \E k \in DOMAIN ParsedPushes(t.outputs[o]) :
          c = << o, k >> /\ IsTonalli(ParsedPushes(t.outputs[o])[k])
    BY <1>2, <1>4
  <2>2. PICK k \in DOMAIN ParsedPushes(t.outputs[o]) :
          c = << o, k >> /\ IsTonalli(ParsedPushes(t.outputs[o])[k])
    BY <2>1
  <2>3. c[1] = o /\ c[2] = k
    BY <2>2
  <2> QED
    BY <1>3, <2>2, <2>3 DEF PushAt
<1> QED
  BY <1>1, <1>4

(* There are finitely many of them: as many as pushes at the most. *)
LEMMA CandidatesFinite ==
  ASSUME NEW t \in Transactions
  PROVE  IsFiniteSet(Tm1Candidates(t)) /\ IsFiniteSet(Tm0Candidates(t))
<1> DEFINE outputs == DOMAIN t.outputs \ Tm1Candidates(t)
           Of(o) == {k \in DOMAIN ParsedPushes(t.outputs[o]) :
                       IsTonalli(ParsedPushes(t.outputs[o])[k])}
           Pairs(o) == {<< o, k >> : k \in Of(o)}
           all == {Pairs(o) : o \in outputs}
<1>1. IsFiniteSet(DOMAIN t.outputs)
  BY OutputsAre, FS_Interval
<1>2. IsFiniteSet(Tm1Candidates(t)) /\ IsFiniteSet(outputs)
  <2>1. Tm1Candidates(t) \subseteq DOMAIN t.outputs /\ outputs \subseteq DOMAIN t.outputs
    BY CandidatesAre
  <2> QED
    BY <1>1, <2>1, FS_Subset
<1>3. ASSUME NEW o \in outputs PROVE IsFiniteSet(Pairs(o))
  <2>1. IsFiniteSet(DOMAIN ParsedPushes(t.outputs[o]))
    <3>1. CASE ParsedPushes(t.outputs[o]) = << >>
      BY <3>1, FS_EmptySet
    <3>2. CASE ParsedPushes(t.outputs[o]) = t.outputs[o].pushes
      <4>1. PICK n \in Nat : DOMAIN ParsedPushes(t.outputs[o]) = 1 .. n
        BY <1>3, <3>2, OutputsAre
      <4> QED
        BY <4>1, FS_Interval
    <3> QED
      BY <3>1, <3>2 DEF ParsedPushes
  <2>2. IsFiniteSet(Of(o))
    BY <2>1, FS_Subset
  <2> DEFINE pair == [k \in Of(o) |-> << o, k >>]
  <2>3. pair \in Surjection(Of(o), Pairs(o))
    BY DEF Surjection
  <2> HIDE DEF Of, Pairs, pair
  <2> QED
    BY <2>2, <2>3, FS_Surjection
<1>4. IsFiniteSet(all)
  <2> DEFINE pairs == [o \in outputs |-> Pairs(o)]
  <2>1. pairs \in Surjection(outputs, all)
    <3> HIDE DEF Pairs, outputs
    <3> QED
      BY DEF Surjection
  <2> HIDE DEF pairs, all, outputs
  <2> QED
    BY <1>2, <2>1, FS_Surjection
<1>5. IsFiniteSet(UNION all)
  <2>1. \A T \in all : IsFiniteSet(T)
    BY <1>3
  <2> HIDE DEF all
  <2> QED
    BY <1>4, <2>1, FS_UNION
<1>6. Tm0Candidates(t) = UNION all
  BY DEF Tm0Candidates
<1> QED
  BY <1>2, <1>5, <1>6

(* A transaction with one candidate has one of one kind and none of the other. *)
LEMMA SoleCandidate ==
  ASSUME NEW t \in Transactions, CandidateCount(t) = 1
  PROVE  \/ \E o : Tm1Candidates(t) = {o} /\ Tm0Candidates(t) = {}
         \/ \E c : Tm1Candidates(t) = {} /\ Tm0Candidates(t) = {c}
<1> DEFINE S == Tm1Candidates(t)
           T == Tm0Candidates(t)
<1>1. IsFiniteSet(S) /\ IsFiniteSet(T)
  BY CandidatesFinite
<1>2. Cardinality(S) \in Nat /\ Cardinality(T) \in Nat
  BY <1>1, FS_CardinalityType
<1>3. Cardinality(S) + Cardinality(T) = 1
  BY DEF CandidateCount
<1>4. (Cardinality(S) = 1 /\ Cardinality(T) = 0) \/ (Cardinality(S) = 0 /\ Cardinality(T) = 1)
  BY <1>2, <1>3
<1> QED
  BY <1>1, <1>4, FS_Singleton, FS_EmptySet

-----------------------------------------------------------------------------
(* The parser of TM1 scripts: what it accepts, and nothing else. *)

Accepts(s) ==
  /\ IsTm1Candidate(s) /\ Minimal(s.pushes[1]) /\ s.value = 0
  /\ ScriptBytes(s) <= MaxScript
  /\ Len(s.pushes) = 2 /\ s.tail = "end"
  /\ Minimal(s.pushes[2]) /\ s.pushes[2].size > 3
  /\ s.pushes[2].size <= MaxEnvelope /\ s.pushes[2].size - 3 <= MaxEventData
  /\ s.pushes[2].data.kind = "post" /\ s.pushes[2].data.version = 1
  /\ s.pushes[2].data.event = 1 /\ s.pushes[2].data.text # "invalid"

(* The length of a script with two pushes, as the recursion adds it up. *)
LEMMA BytesOfTwo ==
  ASSUME NEW s \in Scripts, Len(s.pushes) = 2
  PROVE  /\ PushBytes(s.pushes[1]) \in Nat /\ PushBytes(s.pushes[2]) \in Nat
         /\ ScriptBytes(s) = 1 + PushBytes(s.pushes[1]) + PushBytes(s.pushes[2])
                              + (IF s.tail = "end" THEN 0 ELSE 1)
<1> DEFINE a == PushBytes(s.pushes[1])
           b == PushBytes(s.pushes[2])
           Grown(f) == [k \in 0 .. 2 |-> IF k = 0 THEN 1 ELSE f[k - 1] + PushBytes(s.pushes[k])]
           sum == [k \in 0 .. 2 |-> IF k = 0 THEN 1 ELSE IF k = 1 THEN 1 + a ELSE 1 + a + b]
           upto == CHOOSE f : f = Grown(f)
<1>1. a \in Nat /\ b \in Nat
  <2>1. s.pushes \in Seq(Published)
    BY DEF Scripts
  <2>2. s.pushes[1] \in Published /\ s.pushes[2] \in Published
    BY <2>1
  <2> QED
    BY <2>2 DEF Published, Pushes, PushBytes, HeaderLength
<1>2. sum = Grown(sum)
  <2> HIDE DEF a, b
  <2>1. sum[0] = 1 /\ sum[1] = 1 + a
    BY <1>1
  <2>2. \A k \in 0 .. 2 : sum[k] = IF k = 0 THEN 1 ELSE sum[k - 1] + PushBytes(s.pushes[k])
    <3> SUFFICES ASSUME NEW k \in {0, 1, 2}
                 PROVE  sum[k] = IF k = 0 THEN 1 ELSE sum[k - 1] + PushBytes(s.pushes[k])
      OBVIOUS
    <3> QED
      BY <1>1, <2>1 DEF a, b
  <2> QED
    BY <2>2
<1>3. upto = Grown(upto)
  <2> HIDE DEF Grown, sum
  <2> QED
    BY <1>2, Zenon
<1>4. upto[2] = 1 + a + b
  <2> HIDE DEF upto, a, b
  <2>1. \A k \in 0 .. 2 : upto[k] = IF k = 0 THEN 1 ELSE upto[k - 1] + PushBytes(s.pushes[k])
    BY <1>3
  <2>2. upto[0] = 1 /\ upto[1] = upto[0] + PushBytes(s.pushes[1])
        /\ upto[2] = upto[1] + PushBytes(s.pushes[2])
    BY <2>1
  <2> QED
    BY <1>1, <2>2 DEF a, b
<1>5. ScriptBytes(s) = upto[2] + (IF s.tail = "end" THEN 0 ELSE 1)
  BY DEF ScriptBytes
<1> QED
  BY <1>1, <1>4, <1>5

LEMMA ParserAccepts ==
  ASSUME NEW s \in Scripts
  PROVE  ParseTm1(s) = "OK" <=> Accepts(s)
<1> DEFINE marker == Nth(s, 1)
           envelope == Nth(s, 2)
           data == envelope.data
           isPost == data.kind = "post"
           P1 == ~IsTm1Candidate(s)
           P2 == ~Minimal(marker) \/ s.value # 0
           P3 == ScriptBytes(s) > MaxScript
           P4 == Len(s.pushes) < 2 \/ ~Minimal(envelope)
           P5 == Len(s.pushes) > 2 \/ s.tail # "end" \/ envelope.size < 3
           P6 == envelope.size = 3
           P7 == envelope.size > MaxEnvelope
           P8 == ~isPost \/ data.version # 1
           P9 == isPost /\ data.event # 1
           P10 == envelope.size - 3 > MaxEventData
           P11 == isPost /\ data.text = "invalid"
           checks == << Fault("INVALID_MARKER", P1), Fault("INVALID_FORMAT", P2),
                        Fault("PAYLOAD_TOO_LARGE", P3), Fault("INVALID_FORMAT", P4),
                        Fault("INVALID_FORMAT", P5), Fault("EMPTY_EVENT_DATA", P6),
                        Fault("PAYLOAD_TOO_LARGE", P7), Fault("UNSUPPORTED_VERSION", P8),
                        Fault("UNSUPPORTED_EVENT_TYPE", P9), Fault("PAYLOAD_TOO_LARGE", P10),
                        Fault("INVALID_UTF8", P11) >>
           none == /\ ~P1 /\ ~P2 /\ ~P3 /\ ~P4 /\ ~P5 /\ ~P6
                   /\ ~P7 /\ ~P8 /\ ~P9 /\ ~P10 /\ ~P11
<1>1. ParseTm1(s) = FirstFault(checks)
  BY DEF ParseTm1
<1>2. DOMAIN checks = 1 .. 11 /\ \A k \in 1 .. 11 : checks[k].code # "OK"
  <2> HIDE DEF P1, P2, P3, P4, P5, P6, P7, P8, P9, P10, P11
  <2> QED
    BY DEF Fault
<1>3. /\ checks[1].holds = P1 /\ checks[2].holds = P2 /\ checks[3].holds = P3
      /\ checks[4].holds = P4 /\ checks[5].holds = P5 /\ checks[6].holds = P6
      /\ checks[7].holds = P7 /\ checks[8].holds = P8 /\ checks[9].holds = P9
      /\ checks[10].holds = P10 /\ checks[11].holds = P11
  <2>1. /\ P1 \in BOOLEAN /\ P2 \in BOOLEAN /\ P3 \in BOOLEAN /\ P4 \in BOOLEAN
        /\ P5 \in BOOLEAN /\ P6 \in BOOLEAN /\ P7 \in BOOLEAN /\ P8 \in BOOLEAN
        /\ P9 \in BOOLEAN /\ P10 \in BOOLEAN /\ P11 \in BOOLEAN
    OBVIOUS
  <2> HIDE DEF P1, P2, P3, P4, P5, P6, P7, P8, P9, P10, P11
  <2>2. checks[1].holds = P1 /\ checks[2].holds = P2 /\ checks[3].holds = P3
    BY <2>1, FaultFields
  <2>3. checks[4].holds = P4 /\ checks[5].holds = P5 /\ checks[6].holds = P6
    BY <2>1, FaultFields
  <2>4. checks[7].holds = P7 /\ checks[8].holds = P8 /\ checks[9].holds = P9
    BY <2>1, FaultFields
  <2>5. checks[10].holds = P10 /\ checks[11].holds = P11
    BY <2>1, FaultFields
  <2> HIDE DEF checks
  <2> QED
    BY <2>2, <2>3, <2>4, <2>5
<1>4. ParseTm1(s) = "OK" <=> none
  <2> HIDE DEF checks, P1, P2, P3, P4, P5, P6, P7, P8, P9, P10, P11
  <2>1. FirstFault(checks) = "OK" <=> \A k \in 1 .. 11 : ~checks[k].holds
    BY <1>2, AllPassed
  <2>2. (\A k \in 1 .. 11 : ~checks[k].holds) <=>
          /\ ~checks[1].holds /\ ~checks[2].holds /\ ~checks[3].holds /\ ~checks[4].holds
          /\ ~checks[5].holds /\ ~checks[6].holds /\ ~checks[7].holds /\ ~checks[8].holds
          /\ ~checks[9].holds /\ ~checks[10].holds /\ ~checks[11].holds
    OBVIOUS
  <2> QED
    BY <1>1, <1>3, <2>1, <2>2, Zenon
<1>5. Len(s.pushes) \in Nat /\ DOMAIN s.pushes = 1 .. Len(s.pushes)
  BY DEF Scripts
<1>6. Len(s.pushes) = 2 => marker = s.pushes[1] /\ envelope = s.pushes[2]
  BY <1>5 DEF Nth
<1>7. Len(s.pushes) = 2 => s.pushes[2].size \in Nat
  <2>1. s.pushes \in Seq(Published)
    BY DEF Scripts
  <2>2. Len(s.pushes) = 2 => s.pushes[2] \in Published
    BY <2>1
  <2> QED
    BY <2>2 DEF Published, Pushes
<1>8. Len(s.pushes) = 2 => (none <=> Accepts(s))
  <2> SUFFICES ASSUME Len(s.pushes) = 2 PROVE none <=> Accepts(s)
    OBVIOUS
  <2> DEFINE first == s.pushes[1]
             second == s.pushes[2]
  <2>1. marker = first /\ envelope = second /\ second.size \in Nat
    BY <1>6, <1>7
  <2>2. ScriptBytes(s) \in Nat
    BY BytesOfTwo
  <2> HIDE DEF first, second, marker, envelope
  <2> QED
    BY <2>1, <2>2, LimitsAssumption DEF Accepts, first, second
<1>9. none => Len(s.pushes) = 2
  <2> SUFFICES ASSUME none PROVE Len(s.pushes) = 2
    OBVIOUS
  <2>1. ~(Len(s.pushes) < 2) /\ ~(Len(s.pushes) > 2)
    BY Zenon
  <2>2. Len(s.pushes) \in Nat
    BY <1>5
  <2>3. \A n \in Nat : ~(n < 2) /\ ~(n > 2) => n = 2
    OBVIOUS
  <2> QED
    BY <2>1, <2>2, <2>3, Zenon
<1> QED
  BY <1>4, <1>8, <1>9 DEF Accepts

-----------------------------------------------------------------------------
(* The encoder: what it publishes, and that the parser accepts it. *)

Requests == [author : Nat, data : [text : Texts, size : Nat]]

Publishable(p) ==
  /\ p.author \in 0 .. 255
  /\ p.data.text \in {"plain", "nft"} /\ p.data.size \in 1 .. MaxEventData

LEMMA RequestIs ==
  ASSUME NEW p \in Requests
  PROVE  /\ p = [author |-> p.author, data |-> [text |-> p.data.text, size |-> p.data.size]]
         /\ p.author \in Nat /\ p.data.text \in Texts /\ p.data.size \in Nat
<1>1. p.author \in Nat /\ p.data \in [text : Texts, size : Nat]
  BY DEF Requests
<1>2. p.data = [text |-> p.data.text, size |-> p.data.size]
  BY <1>1
<1>3. p = [author |-> p.author, data |-> p.data]
  BY DEF Requests
<1>4. p.data.text \in Texts /\ p.data.size \in Nat
  BY <1>1
<1> QED
  BY <1>1, <1>2, <1>3, <1>4

LEMMA EncodedIs ==
  ASSUME NEW p \in Requests, p.author \in 0 .. 255, p.data.size <= MaxEventData
  PROVE  LET s == EncodedScript(p)
         IN  /\ s \in Scripts
             /\ s.opReturn /\ s.value = 0 /\ s.tail = "end" /\ Len(s.pushes) = 2
             /\ s.pushes[1] = PushOf("direct", 4, Lokad)
             /\ s.pushes[2] = MinimalPush(3 + p.data.size, Post(1, 1, p.author, p.data.text))
             /\ s.pushes[2].size = 3 + p.data.size /\ Minimal(s.pushes[2])
             /\ s.pushes[2].data = Post(1, 1, p.author, p.data.text)
             /\ PushBytes(s.pushes[2]) <= 5 + p.data.size
<1> DEFINE s == EncodedScript(p)
           data == Post(1, 1, p.author, p.data.text)
           size == 3 + p.data.size
           second == MinimalPush(size, data)
<1>1. p.data.text \in Texts /\ p.data.size \in Nat
  BY RequestIs
<1>2. size \in Nat /\ size >= 3 /\ size <= 255
  BY <1>1, LimitsAssumption
<1>3. /\ s.opReturn /\ s.value = 0 /\ s.tail = "end" /\ Len(s.pushes) = 2
      /\ s.pushes[1] = MinimalPush(4, Lokad) /\ s.pushes[2] = second
      /\ s = [opReturn |-> TRUE, value |-> 0, tail |-> "end",
              pushes |-> << MinimalPush(4, Lokad), second >>]
  BY DEF EncodedScript
<1>4. MinimalPush(4, Lokad) = PushOf("direct", 4, Lokad)
  BY DEF MinimalPush
<1>5. PushOf("direct", 4, Lokad) \in Published
  <2>1. PushOf("direct", 4, Lokad) \in
          [form : {"direct", "one", "two", "four"}, size : Nat, data : {Lokad}]
    BY DEF PushOf
  <2>2. Fits(PushOf("direct", 4, Lokad))
    BY DEF PushOf, Fits
  <2> QED
    BY <2>1, <2>2 DEF Published, Pushes, PushOf
<1>6. data \in PostData /\ data # Lokad
  BY <1>1 DEF Post, PostData, Lokad
<1>7. \/ size <= 75 /\ second = PushOf("direct", size, data)
      \/ size >= 76 /\ second = PushOf("one", size, data)
  BY <1>2 DEF MinimalPush
<1>8. /\ second.size = size /\ second.data = data /\ second.form \in {"direct", "one"}
      /\ second = [form |-> second.form, size |-> size, data |-> data]
      /\ second.form = "direct" => size <= 75
      /\ second.form = "one" => size >= 76
  <2> HIDE DEF size, data, second
  <2> QED
    BY <1>7 DEF PushOf
<1> HIDE DEF size, data, second
<1>9. second \in Published
  <2>1. second \in [form : {"direct", "one", "two", "four"}, size : Nat, data : PostData]
    BY <1>2, <1>6, <1>8
  <2>2. Fits(second)
    <3>1. CASE second.form = "direct"
      BY <1>8, <3>1 DEF Fits
    <3>2. CASE second.form = "one"
      <4>1. second.size <= 255
        BY <1>2, <1>8
      <4> QED
        BY <3>2, <4>1 DEF Fits
    <3> QED
      BY <1>8, <3>1, <3>2
  <2> QED
    BY <1>6, <1>8, <2>1, <2>2 DEF Published, Pushes
<1>10. Minimal(second)
  BY <1>2, <1>8 DEF Minimal
<1>11. PushBytes(second) <= 2 + size
  BY <1>2, <1>8 DEF PushBytes, HeaderLength
<1>12. s \in Scripts
  <2>1. << MinimalPush(4, Lokad), second >> \in Seq(Published)
    BY <1>4, <1>5, <1>9
  <2> QED
    BY <1>3, <2>1 DEF Scripts
<1>13. PushBytes(second) <= 5 + p.data.size
  <2>1. 2 + size = 5 + p.data.size
    BY <1>1 DEF size
  <2> QED
    BY <1>11, <2>1
<1> QED
  BY <1>3, <1>4, <1>8, <1>10, <1>12, <1>13 DEF size, data, second

(* Within the limits the last three checks of the encoder cannot fail.     *)
LEMMA EncodedAccepted ==
  ASSUME NEW p \in Requests, p.author \in 0 .. 255, p.data.size \in 1 .. MaxEventData,
         p.data.text # "invalid"
  PROVE  LET s == EncodedScript(p)
         IN  /\ s \in Scripts /\ IsTm1Candidate(s)
             /\ ScriptBytes(s) <= MaxScript
             /\ ParseTm1(s) = "OK"
             /\ ParsedPost(s) = [author |-> p.author,
                                 eventData |-> Decoded(p.data.text, p.data.size),
                                 bytes |-> [text |-> p.data.text, size |-> p.data.size]]
<1> DEFINE s == EncodedScript(p)
<1>1. p.data.size \in Nat /\ 0 < p.data.size /\ p.data.size <= MaxEventData /\ p.data.text \in Texts
  BY RequestIs, LimitsAssumption
<1>2. /\ s \in Scripts
      /\ s.opReturn /\ s.value = 0 /\ s.tail = "end" /\ Len(s.pushes) = 2
      /\ s.pushes[1] = PushOf("direct", 4, Lokad)
      /\ s.pushes[2].size = 3 + p.data.size /\ Minimal(s.pushes[2])
      /\ s.pushes[2].data = Post(1, 1, p.author, p.data.text)
      /\ PushBytes(s.pushes[2]) <= 5 + p.data.size
  BY <1>1, EncodedIs
<1> HIDE DEF s
<1>3. Nth(s, 1) = s.pushes[1] /\ Nth(s, 2) = s.pushes[2]
  <2>1. s.pushes \in Seq(Published)
    BY <1>2 DEF Scripts
  <2> QED
    BY <1>2, <2>1 DEF Nth
<1>4. IsTm1Candidate(s)
  BY <1>2, <1>3 DEF IsTm1Candidate, PushOf
<1>5. PushBytes(s.pushes[1]) = 5 /\ Minimal(s.pushes[1])
  BY <1>2 DEF PushBytes, HeaderLength, PushOf, Minimal
<1>6. ScriptBytes(s) <= MaxScript
  <2>1. /\ PushBytes(s.pushes[2]) \in Nat
        /\ ScriptBytes(s) = 1 + PushBytes(s.pushes[1]) + PushBytes(s.pushes[2]) + 0
    BY <1>2, BytesOfTwo
  <2> DEFINE b == PushBytes(s.pushes[2])
  <2>2. b \in Nat /\ b <= 5 + p.data.size /\ ScriptBytes(s) = 6 + b
    BY <1>2, <1>5, <2>1
  <2> HIDE DEF b
  <2> QED
    BY <1>1, <2>2, LimitsAssumption
<1>7. Accepts(s)
  <2>1. /\ s.pushes[2].data.kind = "post" /\ s.pushes[2].data.version = 1
        /\ s.pushes[2].data.event = 1 /\ s.pushes[2].data.text # "invalid"
    BY <1>2 DEF Post
  <2>2. /\ 3 + p.data.size > 3 /\ 3 + p.data.size <= MaxEnvelope
        /\ (3 + p.data.size) - 3 <= MaxEventData
    BY <1>1, LimitsAssumption
  <2> QED
    BY <1>2, <1>4, <1>5, <1>6, <2>1, <2>2 DEF Accepts
<1>8. ParsedPost(s) = [author |-> p.author,
                       eventData |-> Decoded(p.data.text, p.data.size),
                       bytes |-> [text |-> p.data.text, size |-> p.data.size]]
  <2>1. (3 + p.data.size) - 3 = p.data.size
    BY <1>1
  <2>2. /\ Nth(s, 2).data.author = p.author /\ Nth(s, 2).data.text = p.data.text
        /\ Nth(s, 2).size - 3 = p.data.size
    BY <1>2, <1>3, <2>1 DEF Post
  <2> QED
    BY <2>2, Zenon DEF ParsedPost
<1> QED
  BY <1>2, <1>4, <1>6, <1>7, <1>8, ParserAccepts DEF s

LEMMA EncoderAccepts ==
  ASSUME NEW p \in Requests
  PROVE  EncodeTm1(p) = "OK" <=> Publishable(p)
<1> DEFINE P1 == p.author \notin 0 .. 255
           P2 == p.data.text = "invalid" \/ Decoded(p.data.text, p.data.size) # p.data
           P3 == p.data.size = 0
           P4 == p.data.size > MaxEventData
           P5 == 3 + p.data.size > MaxEnvelope
           P6 == ScriptBytes(EncodedScript(p)) > MaxScript
           P7 == \/ ParseTm1(EncodedScript(p)) # "OK"
                 \/ ParsedPost(EncodedScript(p)).author # p.author
                 \/ ParsedPost(EncodedScript(p)).eventData # p.data
           checks == << Fault("INVALID_FORMAT", P1), Fault("INVALID_UTF8", P2),
                        Fault("EMPTY_EVENT_DATA", P3), Fault("PAYLOAD_TOO_LARGE", P4),
                        Fault("PAYLOAD_TOO_LARGE", P5), Fault("PAYLOAD_TOO_LARGE", P6),
                        Fault("INVALID_FORMAT", P7) >>
           none == ~P1 /\ ~P2 /\ ~P3 /\ ~P4 /\ ~P5 /\ ~P6 /\ ~P7
<1>1. EncodeTm1(p) = FirstFault(checks)
  BY DEF EncodeTm1
<1>2. DOMAIN checks = 1 .. 7 /\ \A k \in 1 .. 7 : checks[k].code # "OK"
  <2> HIDE DEF P1, P2, P3, P4, P5, P6, P7
  <2> QED
    BY DEF Fault
<1>3. /\ checks[1].holds = P1 /\ checks[2].holds = P2 /\ checks[3].holds = P3
      /\ checks[4].holds = P4 /\ checks[5].holds = P5 /\ checks[6].holds = P6
      /\ checks[7].holds = P7
  <2>1. /\ P1 \in BOOLEAN /\ P2 \in BOOLEAN /\ P3 \in BOOLEAN /\ P4 \in BOOLEAN
        /\ P5 \in BOOLEAN /\ P6 \in BOOLEAN /\ P7 \in BOOLEAN
    OBVIOUS
  <2> HIDE DEF P1, P2, P3, P4, P5, P6, P7
  <2>2. checks[1].holds = P1 /\ checks[2].holds = P2 /\ checks[3].holds = P3
    BY <2>1, FaultFields
  <2>3. checks[4].holds = P4 /\ checks[5].holds = P5
    BY <2>1, FaultFields
  <2>4. checks[6].holds = P6 /\ checks[7].holds = P7
    BY <2>1, FaultFields
  <2> HIDE DEF checks
  <2> QED
    BY <2>2, <2>3, <2>4
<1>4. EncodeTm1(p) = "OK" <=> none
  <2> HIDE DEF checks, P1, P2, P3, P4, P5, P6, P7
  <2>1. FirstFault(checks) = "OK" <=> \A k \in 1 .. 7 : ~checks[k].holds
    BY <1>2, AllPassed
  <2>2. (\A k \in 1 .. 7 : ~checks[k].holds) <=>
          /\ ~checks[1].holds /\ ~checks[2].holds /\ ~checks[3].holds /\ ~checks[4].holds
          /\ ~checks[5].holds /\ ~checks[6].holds /\ ~checks[7].holds
    OBVIOUS
  <2> QED
    BY <1>1, <1>3, <2>1, <2>2, Zenon
<1>5. /\ p.data = [text |-> p.data.text, size |-> p.data.size]
      /\ p.data.text \in Texts /\ p.data.size \in Nat
  BY RequestIs
<1>6. ~P2 <=> p.data.text \in {"plain", "nft"}
  <2>1. CASE p.data.text \in Marked
    <3>1. Decoded(p.data.text, p.data.size).text # p.data.text
      BY <2>1 DEF Decoded, Marked
    <3> QED
      BY <2>1, <3>1 DEF Marked
  <2>2. CASE p.data.text \notin Marked
    BY <1>5, <2>2 DEF Decoded, Texts, Marked
  <2> QED
    BY <2>1, <2>2
<1>7. ASSUME none PROVE Publishable(p)
  <2>1. p.data.text \in {"plain", "nft"}
    BY <1>6, <1>7
  <2>2. p.author \in 0 .. 255
    BY <1>7
  <2>3. p.data.size # 0 /\ ~(p.data.size > MaxEventData)
    BY <1>7
  <2>4. p.data.size \in 1 .. MaxEventData
    BY <1>5, <2>3, LimitsAssumption
  <2> QED
    BY <2>1, <2>2, <2>4 DEF Publishable
<1>8. ASSUME Publishable(p) PROVE none
  <2>1. p.author \in 0 .. 255 /\ p.data.text # "invalid" /\ p.data.size \in 1 .. MaxEventData
    BY <1>8 DEF Publishable
  <2>2. /\ EncodedScript(p) \in Scripts
        /\ ScriptBytes(EncodedScript(p)) <= MaxScript
        /\ ParseTm1(EncodedScript(p)) = "OK"
        /\ ParsedPost(EncodedScript(p)) =
             [author |-> p.author, eventData |-> Decoded(p.data.text, p.data.size),
              bytes |-> [text |-> p.data.text, size |-> p.data.size]]
    BY <2>1, EncodedAccepted
  <2>3. ~P2
    BY <1>6, <1>8 DEF Publishable
  <2>4. ~P7
    BY <2>2, <2>3
  <2>5. ~P6
    <3>1. ScriptBytes(EncodedScript(p)) \in Nat
      <4>1. Len(EncodedScript(p).pushes) = 2 /\ EncodedScript(p).tail = "end"
        BY DEF EncodedScript
      <4> QED
        BY <2>2, <4>1, BytesOfTwo
    <3> QED
      BY <2>2, <3>1, LimitsAssumption
  <2>6. ~P1 /\ ~P3 /\ ~P4 /\ ~P5
    BY <1>5, <2>1, LimitsAssumption
  <2> HIDE DEF P1, P2, P3, P4, P5, P6, P7
  <2> QED
    BY <2>3, <2>4, <2>5, <2>6
<1> QED
  BY <1>4, <1>7, <1>8

(* What is accepted is encoded in the only way there is. *)
LEMMA AcceptedIsEncoded ==
  ASSUME NEW s \in Scripts, Accepts(s)
  PROVE  LET p == [author |-> ParsedPost(s).author, data |-> ParsedPost(s).bytes]
         IN  /\ p \in Requests /\ p.author \in 0 .. 255 /\ p.data.size \in 1 .. MaxEventData
             /\ p.data.text # "invalid"
             /\ s = EncodedScript(p)
<1> DEFINE first == s.pushes[1]
           second == s.pushes[2]
           p == [author |-> ParsedPost(s).author, data |-> ParsedPost(s).bytes]
<1>1. s.pushes \in Seq(Published) /\ Len(s.pushes) = 2
  BY DEF Scripts, Accepts
<1>2. first \in Published /\ second \in Published /\ Nth(s, 1) = first /\ Nth(s, 2) = second
  BY <1>1 DEF Nth
<1>3. /\ s = [opReturn |-> s.opReturn, value |-> s.value, tail |-> s.tail, pushes |-> s.pushes]
      /\ s.opReturn = TRUE /\ s.value = 0 /\ s.tail = "end" /\ first.data = Lokad
  <2>1. s.opReturn \in BOOLEAN
        /\ s = [opReturn |-> s.opReturn, value |-> s.value, tail |-> s.tail, pushes |-> s.pushes]
    BY DEF Scripts
  <2>2. s.opReturn
    BY Zenon DEF Accepts, IsTm1Candidate
  <2>3. s.value = 0 /\ s.tail = "end" /\ first.data = Lokad
    BY <1>2 DEF Accepts, IsTm1Candidate
  <2> QED
    BY <2>1, <2>2, <2>3
<1>4. s.pushes = << first, second >>
  BY <1>1
<1>5. /\ first.size = 4 /\ first.form \in {"direct", "one", "two", "four"}
      /\ first = [form |-> first.form, size |-> first.size, data |-> first.data]
  BY <1>2, <1>3 DEF Published, Pushes
<1>6. first = MinimalPush(4, Lokad)
  <2>1. Minimal(first)
    BY DEF Accepts
  <2>2. first.form = "direct"
    BY <1>5, <2>1 DEF Minimal
  <2> QED
    BY <1>3, <1>5, <2>2 DEF MinimalPush, PushOf
<1>7. /\ second.size \in Nat /\ second.form \in {"direct", "one", "two", "four"} /\ Fits(second)
      /\ second = [form |-> second.form, size |-> second.size, data |-> second.data]
      /\ second.data.kind = "post" /\ second.data.version = 1 /\ second.data.event = 1
      /\ second.data.text # "invalid" /\ Minimal(second)
      /\ second.size > 3 /\ second.size <= MaxEnvelope /\ second.size - 3 <= MaxEventData
  BY <1>2 DEF Published, Pushes, Accepts
<1>8. second.data \in PostData
  BY <1>2, <1>7 DEF Published, Pushes, Lokad, Envelopes
<1>9. /\ second.data.author \in 0 .. 255 /\ second.data.text \in Texts
      /\ second.data = Post(1, 1, second.data.author, second.data.text)
  BY <1>7, <1>8 DEF PostData, Post
<1>10. second = MinimalPush(second.size, second.data)
  <2>1. \/ second.form = "direct" /\ second.size <= 75
        \/ second.form = "one" /\ second.size >= 76
    <3>1. CASE second.form = "direct"
      <4>1. second.size <= 75
        BY <1>7, <3>1 DEF Fits
      <4> QED
        BY <3>1, <4>1
    <3>2. CASE second.form = "one"
      <4>1. second.size >= 76
        BY <1>7, <3>2 DEF Minimal
      <4> QED
        BY <3>2, <4>1
    <3>3. second.form \notin {"two", "four"}
      <4>1. second.form = "two" => second.size >= 256
        BY <1>7 DEF Minimal
      <4>2. second.form = "four" => second.size >= 65536
        BY <1>7 DEF Minimal
      <4> QED
        BY <1>7, <4>1, <4>2, LimitsAssumption
    <3> QED
      BY <1>7, <3>1, <3>2, <3>3
  <2>2. second = PushOf(IF second.size <= 75 THEN "direct" ELSE "one", second.size, second.data)
    BY <1>7, <2>1 DEF PushOf
  <2> QED
    BY <2>2 DEF MinimalPush
<1>11. /\ p.author = second.data.author /\ p.data.text = second.data.text
       /\ p.data.size = second.size - 3
       /\ p = [author |-> second.data.author,
               data |-> [text |-> second.data.text, size |-> second.size - 3]]
  BY <1>2 DEF ParsedPost
<1> HIDE DEF first, second, p
<1>12. second.size - 3 \in 1 .. MaxEventData /\ 3 + (second.size - 3) = second.size
       /\ second.size - 3 \in Nat
  BY <1>7, LimitsAssumption
<1>13. p \in Requests
  BY <1>9, <1>11, <1>12 DEF Requests
<1>14. s = EncodedScript(p)
  <2>1. MinimalPush(3 + p.data.size, Post(1, 1, p.author, p.data.text)) = second
    BY <1>9, <1>10, <1>11, <1>12
  <2> QED
    BY <1>3, <1>4, <1>6, <2>1 DEF EncodedScript
<1> QED
  BY <1>7, <1>9, <1>11, <1>12, <1>13, <1>14 DEF p

-----------------------------------------------------------------------------
(* The verdict. *)

Spent(t, author) == t.inputs[author + 1]

(* What the checks of the designated input leave. *)
LEMMA AuthorAccepted ==
  ASSUME NEW t \in Transactions, NEW author, AuthorFault(t, author) = "OK"
  PROVE  /\ author + 1 \in DOMAIN t.inputs /\ ~t.coinbase /\ Spent(t, author).script = "p2pkh"
         /\ Address(t, author + 1) = Spent(t, author).owner
         /\ Spent(t, author).unlock.pushes[1].size >= 2
         /\ Spent(t, author).unlock.pushes[1].data \in [kind : {"sig"}, hash : {"all", "allAnyone"}]
         /\ SecKey(Spent(t, author).unlock.pushes[2])
         /\ Spent(t, author).unlock.pushes[2].data.owner = Spent(t, author).owner
<1> DEFINE i == author + 1
           input == t.inputs[i]
           pushes == input.unlock.pushes
<1>1. /\ i \in DOMAIN t.inputs /\ SpentScript(t, i) = "p2pkh" /\ GoodUnlocking(input.unlock)
      /\ pushes[2].data.owner = input.owner
      /\ pushes[1].data.kind = "sig" /\ pushes[1].data.hash \in {"all", "allAnyone"}
  BY DEF AuthorFault
<1>2. ~t.coinbase /\ input.script = "p2pkh"
  BY <1>1 DEF SpentScript
<1>3. input \in Inputs
  BY <1>1, InputsAre
<1>4. Len(pushes) = 2 /\ pushes[1].size >= 2 /\ SecKey(pushes[2])
  BY <1>1 DEF GoodUnlocking
<1>5. pushes[1] \in Unlocking
  <2>1. pushes \in Seq(Unlocking)
    BY <1>3 DEF Inputs
  <2> QED
    BY <1>4, <2>1
<1>6. pushes[1].data \in [kind : {"sig"}, hash : {"all", "allAnyone"}]
  BY <1>1, <1>5 DEF Unlocking, Pushes
<1>7. Address(t, i) = input.owner
  BY <1>1 DEF Address
<1> QED
  BY <1>1, <1>2, <1>4, <1>6, <1>7 DEF Spent

(* The fields of a verdict, but for its code. *)
Says(v, status, candidates, memo, input, address, context, author) ==
  /\ v.status = status /\ v.candidates = candidates /\ v.memo = memo /\ v.input = input
  /\ v.address = address /\ v.context = context /\ v.author = author

SaysNothing(v, status, candidates) == Says(v, status, candidates, Null, Null, Null, Null, Null)

PostMemo(s) ==
  [version |-> 1, event |-> "POST", profile |-> Null,
   payload |-> ParsedPost(s).eventData, byteLength |-> ParsedPost(s).bytes.size]

LEMMA Tm1Verdict ==
  ASSUME NEW t, NEW o
  PROVE  \/ /\ ParseTm1(t.outputs[o]) # "OK"
               \/ AuthorFault(t, ParsedPost(t.outputs[o]).author) # "OK"
            /\ SaysNothing(VerifyTm1(t, o), "INVALID_TM1", {Tm1Location(o)})
         \/ /\ ParseTm1(t.outputs[o]) = "OK"
            /\ AuthorFault(t, ParsedPost(t.outputs[o]).author) = "OK"
            /\ Says(VerifyTm1(t, o), "VERIFIED_TM1", {Tm1Location(o)}, PostMemo(t.outputs[o]),
                    ParsedPost(t.outputs[o]).author + 1,
                    Address(t, ParsedPost(t.outputs[o]).author + 1), Null,
                    Spent(t, ParsedPost(t.outputs[o]).author).unlock.pushes)
BY DEF VerifyTm1, Verdict, Says, SaysNothing, PostMemo, Spent

TextMemo(push) ==
  [version |-> 0, event |-> "event", profile |-> push.data.profile,
   payload |-> [text |-> "memo", size |-> push.size], byteLength |-> push.size]

(* The inputs that may publish for a profile. *)
Allowed(t, profile, context) ==
  {i \in DOMAIN t.inputs : Address(t, i) # Null /\ Authorize(profile, Address(t, i), context) = "OK"}

LEMMA Authorization ==
  ASSUME NEW t \in Transactions, NEW profile, NEW context
  PROVE  LET v == EvaluateAuthorization(t, profile, context)
         IN  \/ /\ InvalidHeight(context)
                /\ SaysNothing(v, HeightFault(context), {})
             \/ /\ ~InvalidHeight(context) /\ Allowed(t, profile, context) = {}
                /\ Says(v, "UNAUTHORIZED", {}, Null, Null, Null, context, Null)
             \/ /\ ~InvalidHeight(context)
                /\ \E i \in Allowed(t, profile, context) :
                     Says(v, "VERIFIED", {}, Null, i, Address(t, i), context, Null)
<1> DEFINE allowed == Allowed(t, profile, context)
           first == CHOOSE i \in allowed : \A j \in allowed : i <= j
           v == EvaluateAuthorization(t, profile, context)
<1>1. allowed # {} => first \in allowed
  <2> SUFFICES ASSUME allowed # {} PROVE first \in allowed
    OBVIOUS
  <2>1. allowed \in SUBSET Nat
    BY InputsAre DEF Allowed
  <2>2. \E i \in allowed : \A j \in allowed : i <= j
    BY <2>1, SmallestIn
  <2> HIDE DEF allowed
  <2> QED
    BY <2>2
<1>2. v = IF InvalidHeight(context) THEN Verdict(HeightFault(context), "INVALID_HEIGHT")
          ELSE IF allowed = {}
          THEN [Verdict("UNAUTHORIZED", "OK") EXCEPT !.context = context]
          ELSE [Verdict("VERIFIED", "OK") EXCEPT
                  !.context = context, !.input = first, !.address = Address(t, first)]
  BY DEF EvaluateAuthorization, Allowed
<1> HIDE DEF allowed, first
<1>3. CASE InvalidHeight(context)
  BY <1>2, <1>3 DEF Verdict, Says, SaysNothing
<1>4. CASE ~InvalidHeight(context) /\ allowed = {}
  BY <1>2, <1>4 DEF Verdict, Says, allowed
<1>5. CASE ~InvalidHeight(context) /\ allowed # {}
  <2>1. Says(v, "VERIFIED", {}, Null, first, Address(t, first), context, Null)
    BY <1>2, <1>5 DEF Verdict, Says
  <2> HIDE DEF v
  <2> QED
    BY <1>1, <1>5, <2>1 DEF allowed, v
<1> QED
  BY <1>3, <1>4, <1>5

LEMMA MemoAccepted ==
  ASSUME NEW push \in Published, IsTonalli(push), MemoFault(push) = "OK"
  PROVE  push.data \in Envelopes /\ push.data.profile \in Profiles
<1>1. push.data.kind = "memo"
  BY DEF IsTonalli, MemoFault
<1>2. push.data \in Envelopes
  BY <1>1 DEF Published, Pushes, Lokad, PostData, Envelopes
<1> DEFINE shown(i) == MemoFaults[i] \in push.data.faults
           unknown == push.data.profile \notin Profiles
           empty == "EMPTY_PAYLOAD" \in push.data.faults
           large == push.size > MaxMemo
           decoding == [i \in DOMAIN MemoFaults |-> Fault(MemoFaults[i], shown(i))]
           validating == << Fault("UNKNOWN_PROFILE", unknown), Fault("EMPTY_PAYLOAD", empty),
                            Fault("PAYLOAD_TOO_LARGE", large) >>
           checks == decoding \o validating
<1>3. FirstFault(checks) = "OK"
  BY <1>1 DEF MemoFault
<1>4. /\ DOMAIN MemoFaults = 1 .. 8 /\ \A i \in 1 .. 8 : MemoFaults[i] # "OK"
  BY DEF MemoFaults
<1>5. decoding \in Seq({decoding[i] : i \in 1 .. 8}) /\ Len(decoding) = 8
  <2>1. DOMAIN decoding = 1 .. 8 /\ decoding = [i \in 1 .. 8 |-> decoding[i]]
    <3>1. decoding = [i \in DOMAIN decoding |-> decoding[i]]
      OBVIOUS
    <3> QED
      BY <1>4, <3>1
  <2> HIDE DEF decoding
  <2> QED
    BY <2>1
<1>6. \A i \in 1 .. 8 : decoding[i].code = MemoFaults[i]
  BY <1>4 DEF Fault
<1>7. /\ validating \in Seq({validating[1], validating[2], validating[3]}) /\ Len(validating) = 3
      /\ \A i \in 1 .. 3 : validating[i].code # "OK"
  <2> HIDE DEF unknown, empty, large
  <2> QED
    BY DEF Fault
<1>8. validating[1].holds = unknown
  BY FaultFields
<1> HIDE DEF decoding, validating, unknown
<1>9. /\ DOMAIN checks = 1 .. 11
      /\ \A k \in 1 .. 8 : checks[k] = decoding[k]
      /\ \A k \in 1 .. 3 : checks[8 + k] = validating[k]
  <2> DEFINE S == {decoding[i] : i \in 1 .. 8}
             T == {validating[1], validating[2], validating[3]}
  <2>1. decoding \in Seq(S) /\ validating \in Seq(T)
    BY <1>5, <1>7
  <2> HIDE DEF S, T
  <2>2. /\ DOMAIN (decoding \o validating) = 1 .. Len(decoding) + Len(validating)
        /\ \A k \in 1 .. Len(decoding) : (decoding \o validating)[k] = decoding[k]
        /\ \A k \in 1 .. Len(validating) :
             (decoding \o validating)[Len(decoding) + k] = validating[k]
    BY <2>1, Appended
  <2> QED
    BY <1>5, <1>7, <2>2
<1> HIDE DEF checks
<1>10. ASSUME NEW k \in 1 .. 11 PROVE checks[k].code # "OK"
  <2>1. CASE k \in 1 .. 8
    BY <1>4, <1>6, <1>9, <2>1
  <2>2. CASE k \notin 1 .. 8
    <3>1. k - 8 \in 1 .. 3 /\ 8 + (k - 8) = k
      BY <2>2
    <3> QED
      BY <1>7, <1>9, <3>1
  <2> QED
    BY <2>1, <2>2
<1>11. \A k \in 1 .. 11 : ~checks[k].holds
  BY <1>3, <1>9, <1>10, AllPassed
<1>12. ~validating[1].holds
  <2>1. checks[9] = validating[1]
    BY <1>9
  <2> QED
    BY <1>11, <2>1
<1>13. ~unknown
  BY <1>8, <1>12, Zenon
<1> QED
  BY <1>2, <1>13 DEF unknown

(* What every state has: the registry parsed, heights are heights. *)
Places == {Mempool} \cup Heights
Tips == {NoTip} \cup Heights

TypeInv ==
  /\ registry \in Documents /\ RegistryFault(registry) = "OK"
  /\ tx \in Transactions \cup {NoTx}
  /\ tip \in Heights /\ seen \in Tips
  /\ place = Mempool \/ place \in 0 .. tip

ProfileOf(t, c) == registry.profiles[PushAt(t, c).data.profile]

(* An envelope names a profile that is there, so that nothing is thrown.   *)
LEMMA Tm0Verdict ==
  ASSUME TypeInv, NEW t \in Transactions, NEW c \in Tm0Candidates(t), NEW at, NEW known
  PROVE  LET v == VerifyTm0(t, c, at, known)
             context == ContextOf(at, known)
             memo == TextMemo(PushAt(t, c))
         IN  \/ MemoFault(PushAt(t, c)) # "OK" /\ SaysNothing(v, "INVALID_MEMO", {Tm0Location(c)})
             \/ /\ PushAt(t, c).data \in Envelopes /\ PushAt(t, c).data.profile \in Profiles
                /\ \/ /\ context = Null
                      /\ Says(v, "MEMPOOL_TIP_REQUIRED", {Tm0Location(c)}, memo, Null, Null, Null, Null)
                   \/ /\ context # Null /\ InvalidHeight(context)
                      /\ Says(v, HeightFault(context), {Tm0Location(c)}, memo,
                              Null, Null, Null, Null)
                   \/ /\ context # Null /\ ~InvalidHeight(context)
                      /\ Allowed(t, ProfileOf(t, c), context) = {}
                      /\ Says(v, "UNAUTHORIZED", {Tm0Location(c)}, memo, Null, Null, context, Null)
                   \/ /\ context # Null /\ ~InvalidHeight(context)
                      /\ \E i \in Allowed(t, ProfileOf(t, c), context) :
                           Says(v, "VERIFIED", {Tm0Location(c)}, memo, i, Address(t, i), context, Null)
<1> DEFINE push == PushAt(t, c)
           context == ContextOf(at, known)
           memo == TextMemo(push)
           judged == EvaluateAuthorization(t, ProfileOf(t, c), context)
           Filled(w) == [[w EXCEPT !.candidates = {Tm0Location(c)}] EXCEPT !.memo = memo]
           v == VerifyTm0(t, c, at, known)
<1>1. push \in Published /\ IsTonalli(push)
  BY CandidatesAre
<1>2. CASE MemoFault(push) # "OK"
  BY <1>2 DEF VerifyTm0, PushAt, Verdict, Says, SaysNothing
<1>3. CASE MemoFault(push) = "OK"
  <2>1. push.data \in Envelopes /\ push.data.profile \in Profiles
    BY <1>1, <1>3, MemoAccepted
  <2>2. Resolves(registry, push.data.profile)
    BY <2>1, RegistryAccepted DEF TypeInv, Resolves
  <2>3. v = IF context = Null THEN Filled(Verdict("MEMPOOL_TIP_REQUIRED", "OK"))
            ELSE Filled(judged)
    BY <1>3, <2>2 DEF VerifyTm0, PushAt, TextMemo, ProfileOf
  <2>4. CASE context = Null
    <3>1. Says(v, "MEMPOOL_TIP_REQUIRED", {Tm0Location(c)}, memo, Null, Null, Null, Null)
      BY <2>3, <2>4 DEF Verdict, Says
    <3> QED
      BY <2>1, <2>4, <3>1
  <2>5. CASE context # Null
    <3> DEFINE Now(status, input, address, of) ==
                 Says(v, status, {Tm0Location(c)}, memo, input, address, of, Null)
               Then(status, input, address, of) ==
                 Says(judged, status, {}, Null, input, address, of, Null)
    <3>1. DOMAIN judged = {"status", "code", "candidates", "memo", "input", "address",
                           "context", "author"}
      BY DEF EvaluateAuthorization, Verdict
    <3>2. ASSUME NEW status, NEW input, NEW address, NEW of, Then(status, input, address, of)
          PROVE  Now(status, input, address, of)
      <4> HIDE DEF judged, v, memo, context
      <4> QED
        BY <2>3, <2>5, <3>1, <3>2 DEF Says
    <3>3. \/ InvalidHeight(context) /\ Then(HeightFault(context), Null, Null, Null)
          \/ /\ ~InvalidHeight(context) /\ Allowed(t, ProfileOf(t, c), context) = {}
             /\ Then("UNAUTHORIZED", Null, Null, context)
          \/ /\ ~InvalidHeight(context)
             /\ \E i \in Allowed(t, ProfileOf(t, c), context) :
                  Then("VERIFIED", i, Address(t, i), context)
      BY Authorization DEF SaysNothing
    <3> HIDE DEF Now, Then, judged, v, memo, context
    <3>4. \/ InvalidHeight(context) /\ Now(HeightFault(context), Null, Null, Null)
          \/ /\ ~InvalidHeight(context) /\ Allowed(t, ProfileOf(t, c), context) = {}
             /\ Now("UNAUTHORIZED", Null, Null, context)
          \/ /\ ~InvalidHeight(context)
             /\ \E i \in Allowed(t, ProfileOf(t, c), context) :
                  Now("VERIFIED", i, Address(t, i), context)
      BY <3>2, <3>3
    <3> QED
      BY <2>1, <2>5, <3>4 DEF Now, v, memo, context
  <2> QED
    BY <2>4, <2>5
<1> QED
  BY <1>2, <1>3

LEMMA VerdictIs ==
  ASSUME NEW t \in Transactions, NEW at, NEW known
  PROVE  \/ SaysNothing(Verify(t, at, known), "NO_MEMO", {})
         \/ SaysNothing(Verify(t, at, known), "MULTIPLE_MEMOS",
                        {Tm1Location(o) : o \in Tm1Candidates(t)}
                        \cup {Tm0Location(c) : c \in Tm0Candidates(t)})
         \/ \E o \in Tm1Candidates(t) :
              /\ Tm1Candidates(t) = {o} /\ Tm0Candidates(t) = {}
              /\ Verify(t, at, known) = VerifyTm1(t, o)
         \/ \E c \in Tm0Candidates(t) :
              /\ Tm1Candidates(t) = {} /\ Tm0Candidates(t) = {c}
              /\ Verify(t, at, known) = VerifyTm0(t, c, at, known)
<1> DEFINE v == Verify(t, at, known)
           S == Tm1Candidates(t)
           T == Tm0Candidates(t)
<1>1. CASE CandidateCount(t) = 0
  <2>1. v = Verdict("NO_MEMO", "OK")
    BY <1>1 DEF Verify
  <2> QED
    BY <2>1 DEF Verdict, Says, SaysNothing
<1>2. CASE CandidateCount(t) = 1
  <2>1. CASE \E o : S = {o} /\ T = {}
    <3>1. PICK o : S = {o} /\ T = {}
      BY <2>1
    <3>2. v = VerifyTm1(t, CHOOSE x \in S : TRUE)
      BY <1>2, <3>1 DEF Verify
    <3>3. (CHOOSE x \in S : TRUE) = o
      BY <3>1
    <3> HIDE DEF S, T, v
    <3> QED
      BY <3>1, <3>2, <3>3 DEF S, T, v
  <2>2. CASE \E c : S = {} /\ T = {c}
    <3>1. PICK c : S = {} /\ T = {c}
      BY <2>2
    <3>2. v = VerifyTm0(t, CHOOSE x \in T : TRUE, at, known)
      BY <1>2, <3>1 DEF Verify
    <3>3. (CHOOSE x \in T : TRUE) = c
      BY <3>1
    <3> HIDE DEF S, T, v
    <3> QED
      BY <3>1, <3>2, <3>3 DEF S, T, v
  <2> QED
    BY <1>2, <2>1, <2>2, SoleCandidate
<1>3. CASE CandidateCount(t) \notin {0, 1}
  <2>1. CandidateCount(t) \in Nat
    BY CandidatesFinite, FS_CardinalityType DEF CandidateCount
  <2>2. CandidateCount(t) > 1
    BY <1>3, <2>1
  <2>3. v = [Verdict("MULTIPLE_MEMOS", "OK") EXCEPT
               !.candidates = {Tm1Location(o) : o \in S} \cup {Tm0Location(c) : c \in T}]
    BY <1>3, <2>2 DEF Verify
  <2> QED
    BY <2>3 DEF Verdict, Says, SaysNothing
<1> QED
  BY <1>1, <1>2, <1>3

(* What a block holds is judged by the block alone. *)
LEMMA BlockDecides ==
  ASSUME NEW t, NEW at, at # Mempool, NEW known, NEW other
  PROVE  Verify(t, at, known) = Verify(t, at, other)
BY DEF Verify, VerifyTm0, ContextOf

LEMMA SameRegistry ==
  ASSUME registry' = registry, NEW t, NEW at, NEW known
  PROVE  Verify(t, at, known)' = Verify(t, at, known)
BY DEF Verify, VerifyTm0, VerifyTm1

LEMMA HeightsAre ==
  /\ Mempool \notin Heights /\ NoTip \notin Heights /\ NoRow \notin Heights /\ NoRow # Mempool
  /\ MaxSafe \in Nat /\ Heights \subseteq Int /\ \A h \in Int : h \in Heights <=> 0 <= h /\ h <= MaxSafe
BY VerificationAssumption, RegistryAssumption DEF Heights

LEMMA NullIs ==
  /\ Null \notin Int /\ Null \notin STRING
  /\ \A confirmed \in BOOLEAN, height \in Int : Context(confirmed, height) # Null
BY VerificationAssumption DEF Context, Contexts

LEMMA ContextHeights ==
  ASSUME NEW height
  PROVE  /\ EvaluationHeight(Context(TRUE, height)) = height
         /\ EvaluationHeight(Context(FALSE, height)) = height + 1
         /\ \A confirmed : Context(confirmed, height).height = height
BY DEF Context, EvaluationHeight

(* The height of a block is valid, so that nothing is rethrown.            *)
LEMMA HeightsAreTold ==
  ASSUME NEW at \in Places, NEW known, NEW context, context = ContextOf(at, known),
         context # Null, InvalidHeight(context)
  PROVE  HeightFault(context) = "INVALID_VERIFICATION_CONTEXT"
<1>1. CASE at = Mempool
  <2>1. context = Context(FALSE, known)
    BY <1>1 DEF ContextOf
  <2> QED
    BY <2>1 DEF Context, HeightFault
<1>2. CASE at # Mempool
  <2>1. at \in Heights /\ context = Context(TRUE, at)
    BY <1>2 DEF Places, ContextOf
  <2> QED
    BY <2>1, ContextHeights DEF InvalidHeight
<1> QED
  BY <1>1, <1>2

(* A block or a current tip is enough for a durable verification.          *)
LEMMA Durable ==
  ASSUME TypeInv, NEW t \in Transactions, NEW at \in Places, NEW known \in Tips, NEW own
  PROVE  /\ Verify(t, at, known).status # "thrown"
         /\ at # Mempool \/ known \in 0 .. MaxSafe - 1
              => Mapped(Verify(t, at, known), own) # NoRecord
<1> DEFINE v == Verify(t, at, known)
           Kept == {"NO_MEMO", "MULTIPLE_MEMOS", "INVALID_MEMO", "INVALID_TM1", "VERIFIED_TM1",
                    "UNAUTHORIZED", "VERIFIED"}
<1>1. v.status \in Kept => Mapped(v, own) # NoRecord
  <2> SUFFICES ASSUME v.status \in Kept PROVE Mapped(v, own).status # "none"
    BY DEF NoRecord
  <2> HIDE DEF v
  <2> QED
    BY DEF Mapped, MappedTm1, MappedTm0, MappedInvalid, EmptyRecord, WithMemo
<1>2. CASE v.status \in {"NO_MEMO", "MULTIPLE_MEMOS"}
  BY <1>1, <1>2
<1>3. ASSUME NEW o \in Tm1Candidates(t), v = VerifyTm1(t, o)
      PROVE  v.status \in {"INVALID_TM1", "VERIFIED_TM1"}
  BY <1>3, Tm1Verdict DEF Says, SaysNothing
<1>4. ASSUME NEW c \in Tm0Candidates(t), v = VerifyTm0(t, c, at, known)
      PROVE  /\ v.status # "thrown"
             /\ at # Mempool \/ known \in 0 .. MaxSafe - 1
                  => v.status \in {"INVALID_MEMO", "UNAUTHORIZED", "VERIFIED"}
  <2> DEFINE context == ContextOf(at, known)
  <2>1. \/ v.status \in {"INVALID_MEMO", "UNAUTHORIZED", "VERIFIED"}
        \/ v.status = "MEMPOOL_TIP_REQUIRED" /\ context = Null
        \/ v.status = "INVALID_VERIFICATION_CONTEXT" /\ InvalidHeight(context)
    BY <1>4, Tm0Verdict, HeightsAreTold DEF Says, SaysNothing
  <2>2. ASSUME at # Mempool \/ known \in 0 .. MaxSafe - 1
        PROVE  context # Null /\ ~InvalidHeight(context)
    <3>1. CASE at # Mempool
      <4>1. at \in Heights /\ at \in Int /\ context = Context(TRUE, at)
        BY <3>1, HeightsAre DEF Places, ContextOf
      <4>2. context # Null
        BY <4>1, NullIs
      <4> QED
        BY <4>1, <4>2, ContextHeights DEF InvalidHeight
    <3>2. CASE at = Mempool
      <4>1. known \in 0 .. MaxSafe - 1 /\ known \in Int /\ known \in Heights /\ known + 1 \in Heights
        BY <2>2, <3>2, HeightsAre
      <4>2. known # NoTip /\ context = Context(FALSE, known)
        BY <3>2, <4>1, HeightsAre DEF ContextOf
      <4>3. context # Null
        BY <4>1, <4>2, NullIs
      <4> QED
        BY <4>1, <4>2, <4>3, ContextHeights DEF InvalidHeight
    <3> QED
      BY <3>1, <3>2
  <2> QED
    BY <2>1, <2>2
<1>5. \/ v.status \in {"NO_MEMO", "MULTIPLE_MEMOS"}
      \/ \E o \in Tm1Candidates(t) : v = VerifyTm1(t, o)
      \/ \E c \in Tm0Candidates(t) : v = VerifyTm0(t, c, at, known)
  BY VerdictIs DEF Says, SaysNothing
<1> HIDE DEF v
<1> QED
  BY <1>1, <1>2, <1>3, <1>4, <1>5 DEF v

-----------------------------------------------------------------------------
(* The columns the mapper fills. *)

Columns ==
  {"status", "protocol", "version", "event", "profile", "payload", "byteLength", "output", "push",
   "address", "input", "height", "context", "diagnostics", "token", "ownership"}

(* What is not about a TM1 memo's attachment. *)
PostColumns(m, v) ==
  /\ m.status = "VERIFIED" /\ m.protocol = "TM1" /\ DOMAIN m = Columns
  /\ m.version = v.memo.version /\ m.event = v.memo.event /\ m.profile = v.memo.profile
  /\ m.payload = v.memo.payload /\ m.byteLength = v.memo.byteLength
  /\ m.output = Location(v).output /\ m.push = Null
  /\ m.address = v.address /\ m.input = v.input /\ m.height = Null /\ m.context = Null

LEMMA Tm1Columns ==
  ASSUME NEW v, NEW own
  PROVE  LET m == MappedTm1(v, own)
         IN  /\ PostColumns(m, v)
             /\ \/ /\ v.memo.payload.text = "nft" /\ m.token = "token" /\ m.ownership = own
                   /\ m.diagnostics = Joined(Diagnostics(v.author), [attachment |-> own])
                \/ /\ v.memo.payload.text # "nft" /\ m.token = Null /\ m.ownership = Null
                   /\ m.diagnostics = Diagnostics(v.author)
<1> DEFINE empty == EmptyRecord("VERIFIED", "TM1")
           memo == WithMemo(empty, v)
           stored == [memo EXCEPT !.diagnostics = Diagnostics(v.author)]
           m == MappedTm1(v, own)
<1>1. /\ PostColumns(memo, v) /\ memo.token = Null /\ memo.ownership = Null
  BY DEF EmptyRecord, WithMemo, PostColumns, Columns
<1> HIDE DEF memo, empty
<1>2. /\ PostColumns(stored, v) /\ stored.token = Null /\ stored.ownership = Null
      /\ stored.diagnostics = Diagnostics(v.author)
  BY <1>1 DEF PostColumns, Columns
<1>3. m = IF AttachedToken(v.memo.payload) = Null THEN stored
          ELSE [stored EXCEPT
                  !.token = AttachedToken(v.memo.payload), !.ownership = own,
                  !.diagnostics = Joined(@, [attachment |-> own])]
  BY DEF MappedTm1, memo, empty
<1> HIDE DEF stored, m
<1>4. AttachedToken(v.memo.payload) = IF v.memo.payload.text = "nft" THEN "token" ELSE Null
  BY DEF AttachedToken
<1>5. "token" # Null
  <2>1. "token" \in STRING
    BY AnswersAssumption
  <2> QED
    BY <2>1, NullIs
<1>6. CASE v.memo.payload.text = "nft"
  <2>1. m = [stored EXCEPT !.token = "token", !.ownership = own,
                           !.diagnostics = Joined(@, [attachment |-> own])]
    BY <1>3, <1>4, <1>5, <1>6
  <2>2. /\ m.token = "token" /\ m.ownership = own
        /\ m.diagnostics = Joined(Diagnostics(v.author), [attachment |-> own])
        /\ PostColumns(m, v)
    BY <1>2, <2>1 DEF PostColumns, Columns
  <2> QED
    BY <1>6, <2>2 DEF m
<1>7. CASE v.memo.payload.text # "nft"
  <2>1. m = stored
    BY <1>3, <1>4, <1>7
  <2> QED
    BY <1>2, <1>7, <2>1 DEF m
<1> QED
  BY <1>6, <1>7

LEMMA Tm0Columns ==
  ASSUME NEW v
  PROVE  LET m == MappedTm0(v)
         IN  /\ m.status = v.status /\ m.protocol = "TM0"
             /\ m.version = v.memo.version /\ m.event = v.memo.event
             /\ m.profile = v.memo.profile /\ m.payload = v.memo.payload
             /\ m.byteLength = v.memo.byteLength
             /\ m.output = Location(v).output /\ m.push = Location(v).push
             /\ m.address = v.address /\ m.input = v.input
             /\ m.height = EvaluationHeight(v.context) /\ m.context = v.context
             /\ m.token = Null /\ m.ownership = Null
<1> DEFINE memo == WithMemo(EmptyRecord(v.status, "TM0"), v)
<1>1. /\ DOMAIN memo = Columns /\ memo.status = v.status /\ memo.protocol = "TM0"
      /\ memo.version = v.memo.version /\ memo.event = v.memo.event
      /\ memo.profile = v.memo.profile /\ memo.payload = v.memo.payload
      /\ memo.byteLength = v.memo.byteLength /\ memo.output = Location(v).output
      /\ memo.address = v.address /\ memo.input = v.input
      /\ memo.token = Null /\ memo.ownership = Null
  BY DEF EmptyRecord, WithMemo, Columns
<1>2. MappedTm0(v) = [memo EXCEPT !.push = Location(v).push,
                                  !.height = EvaluationHeight(v.context), !.context = v.context]
  BY DEF MappedTm0
<1> HIDE DEF memo
<1> QED
  BY <1>1, <1>2 DEF Columns

(* Nothing but the status, the protocol and the place. *)
Bare(m, status, protocol, output, push) ==
  /\ m.status = status /\ m.protocol = protocol /\ m.output = output /\ m.push = push
  /\ m.version = Null /\ m.event = Null /\ m.profile = Null /\ m.payload = Null
  /\ m.byteLength = Null /\ m.address = Null /\ m.input = Null /\ m.height = Null
  /\ m.token = Null /\ m.ownership = Null

LEMMA BareColumns ==
  ASSUME NEW v, NEW status
  PROVE  /\ Bare(EmptyRecord(status, "TM0"), status, "TM0", Null, Null)
         /\ Bare(MappedInvalid(v, "TM1"), "INVALID_MEMO", "TM1", Location(v).output, Null)
         /\ Bare(MappedInvalid(v, "TM0"), "INVALID_MEMO", "TM0", Location(v).output, Location(v).push)
<1>1. Bare(EmptyRecord(status, "TM0"), status, "TM0", Null, Null)
  BY DEF EmptyRecord, Bare
<1>2. Bare(MappedInvalid(v, "TM1"), "INVALID_MEMO", "TM1", Location(v).output, Null)
  BY DEF EmptyRecord, MappedInvalid, Bare
<1>3. Bare(MappedInvalid(v, "TM0"), "INVALID_MEMO", "TM0", Location(v).output, Location(v).push)
  BY DEF EmptyRecord, MappedInvalid, Bare
<1> QED
  BY <1>1, <1>2, <1>3

(***************************************************************************)
(* What a verdict v on a transaction t can be, and the record m of it.     *)
(***************************************************************************)
OnlyPost(t, o) == Tm1Candidates(t) = {o} /\ Tm0Candidates(t) = {} /\ o \in DOMAIN t.outputs
OnlyMemo(t, c) == Tm1Candidates(t) = {} /\ Tm0Candidates(t) = {c}

AllLocations(t) ==
  {Tm1Location(o) : o \in Tm1Candidates(t)} \cup {Tm0Location(c) : c \in Tm0Candidates(t)}

NotOne(t, v, m) ==
  /\ SaysNothing(v, "NO_MEMO", {}) \/ SaysNothing(v, "MULTIPLE_MEMOS", AllLocations(t))
  /\ m = EmptyRecord(v.status, "TM0")

BadPost(t, v, m, o) ==
  /\ OnlyPost(t, o) /\ SaysNothing(v, "INVALID_TM1", {Tm1Location(o)})
  /\ m = MappedInvalid(v, "TM1")

GoodPost(t, v, m, o, own) ==
  LET author == ParsedPost(t.outputs[o]).author
  IN  /\ OnlyPost(t, o) /\ ParseTm1(t.outputs[o]) = "OK" /\ AuthorFault(t, author) = "OK"
      /\ Says(v, "VERIFIED_TM1", {Tm1Location(o)}, PostMemo(t.outputs[o]), author + 1,
              Address(t, author + 1), Null, Spent(t, author).unlock.pushes)
      /\ m = MappedTm1(v, own)

BadMemo(t, v, m, c) ==
  /\ OnlyMemo(t, c) /\ SaysNothing(v, "INVALID_MEMO", {Tm0Location(c)})
  /\ m = MappedInvalid(v, "TM0")

Envelope(t, c) ==
  /\ OnlyMemo(t, c) /\ PushAt(t, c) \in Published
  /\ PushAt(t, c).data \in Envelopes /\ PushAt(t, c).data.profile \in Profiles

Undecided(t, v, m, c) ==
  /\ Envelope(t, c) /\ m = NoRecord
  /\ \E status \in {"MEMPOOL_TIP_REQUIRED", "INVALID_VERIFICATION_CONTEXT"} :
       Says(v, status, {Tm0Location(c)}, TextMemo(PushAt(t, c)), Null, Null, Null, Null)

Unauthorized(t, v, m, c, context) ==
  /\ Envelope(t, c) /\ context # Null /\ ~InvalidHeight(context)
  /\ Allowed(t, ProfileOf(t, c), context) = {} /\ m = MappedTm0(v)
  /\ Says(v, "UNAUTHORIZED", {Tm0Location(c)}, TextMemo(PushAt(t, c)), Null, Null, context, Null)

Authorized(t, v, m, c, context, i) ==
  /\ Envelope(t, c) /\ context # Null /\ ~InvalidHeight(context)
  /\ i \in Allowed(t, ProfileOf(t, c), context) /\ m = MappedTm0(v)
  /\ Says(v, "VERIFIED", {Tm0Location(c)}, TextMemo(PushAt(t, c)), i, Address(t, i), context, Null)

LEMMA MappedBy ==
  ASSUME NEW v, NEW own
  PROVE  /\ v.status = "VERIFIED_TM1" => Mapped(v, own) = MappedTm1(v, own)
         /\ v.status = "INVALID_TM1" => Mapped(v, own) = MappedInvalid(v, "TM1")
         /\ v.status = "INVALID_MEMO" => Mapped(v, own) = MappedInvalid(v, "TM0")
         /\ v.status \in {"VERIFIED", "UNAUTHORIZED"} => Mapped(v, own) = MappedTm0(v)
         /\ v.status \in {"NO_MEMO", "MULTIPLE_MEMOS"} => Mapped(v, own) = EmptyRecord(v.status, "TM0")
         /\ v.status \in {"MEMPOOL_TIP_REQUIRED", "INVALID_VERIFICATION_CONTEXT"} =>
              Mapped(v, own) = NoRecord
<1> DEFINE A == MappedTm1(v, own)
           B == MappedInvalid(v, "TM1")
           C == MappedInvalid(v, "TM0")
           D == MappedTm0(v)
           E == EmptyRecord(v.status, "TM0")
           F == NoRecord
<1>1. Mapped(v, own) =
        CASE v.status = "VERIFIED_TM1" -> A
          [] v.status = "INVALID_TM1" -> B
          [] v.status = "INVALID_MEMO" -> C
          [] v.status \in {"VERIFIED", "UNAUTHORIZED"} -> D
          [] v.status \in {"NO_MEMO", "MULTIPLE_MEMOS"} -> E
          [] OTHER -> F
  BY DEF Mapped
<1> HIDE DEF A, B, C, D, E, F
<1>2. /\ v.status = "VERIFIED_TM1" => Mapped(v, own) = A
      /\ v.status = "INVALID_TM1" => Mapped(v, own) = B
      /\ v.status = "INVALID_MEMO" => Mapped(v, own) = C
      /\ v.status \in {"VERIFIED", "UNAUTHORIZED"} => Mapped(v, own) = D
      /\ v.status \in {"NO_MEMO", "MULTIPLE_MEMOS"} => Mapped(v, own) = E
      /\ v.status \in {"MEMPOOL_TIP_REQUIRED", "INVALID_VERIFICATION_CONTEXT"} => Mapped(v, own) = F
  BY <1>1
<1> QED
  BY <1>2 DEF A, B, C, D, E, F

LEMMA Kinds ==
  ASSUME TypeInv, NEW t \in Transactions, NEW at \in Places, NEW known, NEW own
  PROVE  LET v == Verify(t, at, known)
             m == Mapped(v, own)
             context == ContextOf(at, known)
         IN  \/ NotOne(t, v, m)
             \/ \E o : BadPost(t, v, m, o)
             \/ \E o : GoodPost(t, v, m, o, own)
             \/ \E c : BadMemo(t, v, m, c)
             \/ \E c : Undecided(t, v, m, c)
             \/ \E c : Unauthorized(t, v, m, c, context)
             \/ \E c : \E i : Authorized(t, v, m, c, context, i)
<1> DEFINE v == Verify(t, at, known)
           m == Mapped(v, own)
           context == ContextOf(at, known)
<1>1. CASE SaysNothing(v, "NO_MEMO", {}) \/ SaysNothing(v, "MULTIPLE_MEMOS", AllLocations(t))
  <2>1. v.status \in {"NO_MEMO", "MULTIPLE_MEMOS"}
    BY <1>1 DEF SaysNothing, Says
  <2>2. m = EmptyRecord(v.status, "TM0")
    BY <2>1, MappedBy
  <2> QED
    BY <1>1, <2>2 DEF NotOne
<1>2. ASSUME NEW o \in Tm1Candidates(t), Tm1Candidates(t) = {o}, Tm0Candidates(t) = {},
             v = VerifyTm1(t, o)
      PROVE  BadPost(t, v, m, o) \/ GoodPost(t, v, m, o, own)
  <2>1. OnlyPost(t, o)
    BY <1>2, CandidatesAre DEF OnlyPost
  <2>2. \/ SaysNothing(v, "INVALID_TM1", {Tm1Location(o)})
        \/ /\ ParseTm1(t.outputs[o]) = "OK"
           /\ AuthorFault(t, ParsedPost(t.outputs[o]).author) = "OK"
           /\ Says(v, "VERIFIED_TM1", {Tm1Location(o)}, PostMemo(t.outputs[o]),
                   ParsedPost(t.outputs[o]).author + 1,
                   Address(t, ParsedPost(t.outputs[o]).author + 1), Null,
                   Spent(t, ParsedPost(t.outputs[o]).author).unlock.pushes)
    BY <1>2, Tm1Verdict
  <2>3. v.status = "INVALID_TM1" => m = MappedInvalid(v, "TM1")
    BY MappedBy
  <2>4. v.status = "VERIFIED_TM1" => m = MappedTm1(v, own)
    BY MappedBy
  <2> HIDE DEF v, m
  <2> QED
    BY <2>1, <2>2, <2>3, <2>4 DEF BadPost, GoodPost, Says, SaysNothing
<1>3. ASSUME NEW c \in Tm0Candidates(t), Tm1Candidates(t) = {}, Tm0Candidates(t) = {c},
             v = VerifyTm0(t, c, at, known)
      PROVE  \/ BadMemo(t, v, m, c) \/ Undecided(t, v, m, c) \/ Unauthorized(t, v, m, c, context)
             \/ \E i : Authorized(t, v, m, c, context, i)
  <2> DEFINE memo == TextMemo(PushAt(t, c))
  <2>1. OnlyMemo(t, c) /\ PushAt(t, c) \in Published
    BY <1>3, CandidatesAre DEF OnlyMemo
  <2>2. \/ SaysNothing(v, "INVALID_MEMO", {Tm0Location(c)})
        \/ /\ PushAt(t, c).data \in Envelopes /\ PushAt(t, c).data.profile \in Profiles
           /\ \/ Says(v, "MEMPOOL_TIP_REQUIRED", {Tm0Location(c)}, memo, Null, Null, Null, Null)
              \/ Says(v, "INVALID_VERIFICATION_CONTEXT", {Tm0Location(c)}, memo,
                      Null, Null, Null, Null)
              \/ /\ context # Null /\ ~InvalidHeight(context)
                 /\ Allowed(t, ProfileOf(t, c), context) = {}
                 /\ Says(v, "UNAUTHORIZED", {Tm0Location(c)}, memo, Null, Null, context, Null)
              \/ /\ context # Null /\ ~InvalidHeight(context)
                 /\ \E i \in Allowed(t, ProfileOf(t, c), context) :
                      Says(v, "VERIFIED", {Tm0Location(c)}, memo, i, Address(t, i), context, Null)
    BY <1>3, Tm0Verdict, HeightsAreTold
  <2>3. /\ v.status = "INVALID_MEMO" => m = MappedInvalid(v, "TM0")
        /\ v.status \in {"VERIFIED", "UNAUTHORIZED"} => m = MappedTm0(v)
        /\ v.status \in {"MEMPOOL_TIP_REQUIRED", "INVALID_VERIFICATION_CONTEXT"} => m = NoRecord
    BY MappedBy
  <2> HIDE DEF v, m, context
  <2>4. CASE SaysNothing(v, "INVALID_MEMO", {Tm0Location(c)})
    BY <2>1, <2>3, <2>4 DEF BadMemo, Says, SaysNothing
  <2>5. CASE ~SaysNothing(v, "INVALID_MEMO", {Tm0Location(c)})
    <3>1. Envelope(t, c)
      BY <2>1, <2>2, <2>5 DEF Envelope
    <3>2. CASE \/ Says(v, "MEMPOOL_TIP_REQUIRED", {Tm0Location(c)}, memo, Null, Null, Null, Null)
               \/ Says(v, "INVALID_VERIFICATION_CONTEXT", {Tm0Location(c)}, memo,
                       Null, Null, Null, Null)
      BY <2>3, <3>1, <3>2 DEF Undecided, Says
    <3>3. CASE /\ context # Null /\ ~InvalidHeight(context)
               /\ Allowed(t, ProfileOf(t, c), context) = {}
               /\ Says(v, "UNAUTHORIZED", {Tm0Location(c)}, memo, Null, Null, context, Null)
      BY <2>3, <3>1, <3>3 DEF Unauthorized, Says
    <3>4. CASE /\ context # Null /\ ~InvalidHeight(context)
               /\ \E i \in Allowed(t, ProfileOf(t, c), context) :
                    Says(v, "VERIFIED", {Tm0Location(c)}, memo, i, Address(t, i), context, Null)
      <4>1. PICK i \in Allowed(t, ProfileOf(t, c), context) :
              Says(v, "VERIFIED", {Tm0Location(c)}, memo, i, Address(t, i), context, Null)
        BY <3>4
      <4>2. Authorized(t, v, m, c, context, i)
        BY <2>3, <3>1, <3>4, <4>1 DEF Authorized, Says
      <4> QED
        BY <4>2
    <3> QED
      BY <2>2, <2>5, <3>2, <3>3, <3>4
  <2> QED
    BY <2>4, <2>5
<1>4. \/ SaysNothing(v, "NO_MEMO", {}) \/ SaysNothing(v, "MULTIPLE_MEMOS", AllLocations(t))
      \/ \E o \in Tm1Candidates(t) :
           Tm1Candidates(t) = {o} /\ Tm0Candidates(t) = {} /\ v = VerifyTm1(t, o)
      \/ \E c \in Tm0Candidates(t) :
           /\ Tm1Candidates(t) = {} /\ Tm0Candidates(t) = {c}
           /\ v = VerifyTm0(t, c, at, known)
  BY VerdictIs DEF AllLocations
<1> HIDE DEF v, m, context
<1>5. CASE \E o \in Tm1Candidates(t) :
             Tm1Candidates(t) = {o} /\ Tm0Candidates(t) = {} /\ v = VerifyTm1(t, o)
  <2>1. \E o : BadPost(t, v, m, o) \/ GoodPost(t, v, m, o, own)
    BY <1>2, <1>5
  <2> QED
    BY <2>1 DEF v, m, context
<1>6. CASE \E c \in Tm0Candidates(t) :
             /\ Tm1Candidates(t) = {} /\ Tm0Candidates(t) = {c}
             /\ v = VerifyTm0(t, c, at, known)
  <2>1. \E c : \/ BadMemo(t, v, m, c) \/ Undecided(t, v, m, c)
               \/ Unauthorized(t, v, m, c, context)
               \/ \E i : Authorized(t, v, m, c, context, i)
    BY <1>3, <1>6
  <2> QED
    BY <2>1 DEF v, m, context
<1> QED
  BY <1>1, <1>4, <1>5, <1>6 DEF v, m, context

-----------------------------------------------------------------------------
(***************************************************************************)
(* The invariant.  A record is what the mapper made of some verdict on     *)
(* this transaction; if the row names a block, of the verdict in a block   *)
(* of that height, whichever block of it was seen.  A post that was        *)
(* published is the transaction's only output.                             *)
(***************************************************************************)
Stores(kept, verdict) == \E own \in Ownerships : kept = Mapped(verdict, own)

StoredInv ==
  /\ tx = NoTx => record = NoRecord /\ row = NoRow
  /\ record # NoRecord => \E at \in Places, known \in Tips : Stores(record, Verify(tx, at, known))
  /\ row \in Places \cup {NoRow}
  /\ row \in Heights => Stores(record, Verify(tx, row, NoTip))

PostTx(p, inputs) ==
  [coinbase |-> FALSE, inputs |-> inputs, outputs |-> << EncodedScript(p) >>]

PostInv ==
  post # NoPost =>
    /\ post \in Posts
    /\ \E inputs \in Wallets : tx = IF EncodeTm1(post) = "OK" THEN PostTx(post, inputs) ELSE NoTx

IInv == TypeInv /\ StoredInv /\ PostInv

LEMMA PostIsTransaction ==
  ASSUME NEW p \in Posts, NEW inputs \in Wallets, EncodeTm1(p) = "OK"
  PROVE  PostTx(p, inputs) \in Transactions
<1>1. inputs \in Seq(Inputs) /\ p \in Requests
  BY VerificationAssumption DEF Requests
<1>2. EncodedScript(p) \in Scripts
  BY <1>1, EncoderAccepts, EncodedAccepted DEF Publishable
<1>3. << EncodedScript(p) >> \in Seq(Scripts)
  BY <1>2
<1> QED
  BY <1>1, <1>3 DEF PostTx, Transactions

LEMMA Initially == Init => IInv
<1> SUFFICES ASSUME Init PROVE IInv
  OBVIOUS
<1>1. TypeInv
  BY HeightsAre DEF Init, TypeInv, Tips
<1>2. StoredInv
  BY HeightsAre DEF Init, StoredInv, Places
<1> QED
  BY <1>1, <1>2 DEF Init, IInv, PostInv

(* Steps that leave the registry, the transaction and its record alone.    *)
LEMMA RecordStays ==
  ASSUME IInv, UNCHANGED << registry, tx, row, record, post >>
  PROVE  StoredInv' /\ PostInv'
<1>1. \A at, known : Verify(tx, at, known)' = Verify(tx, at, known)
  <2> SUFFICES ASSUME NEW at, NEW known PROVE Verify(tx, at, known)' = Verify(tx, at, known)
    OBVIOUS
  <2> QED
    BY DEF Verify, VerifyTm0, VerifyTm1
<1>2. Stores(record, Verify(tx, row, NoTip))' <=> Stores(record, Verify(tx, row, NoTip))
  BY <1>1 DEF Stores
<1>4. \A at, known : Stores(record, Verify(tx, at, known))' <=> Stores(record, Verify(tx, at, known))
  BY <1>1 DEF Stores
<1>3. StoredInv'
  BY <1>2, <1>4 DEF IInv, StoredInv
<1>5. PostInv'
  BY DEF IInv, PostInv
<1> QED
  BY <1>3, <1>5

LEMMA IndexKeeps ==
  ASSUME IInv, IndexTransaction
  PROVE  IInv'
<1> DEFINE verdict == Verify(tx, place, seen)
           held == record # NoRecord /\ record.ownership = "VERIFIED_AT_INDEXING"
<1>1. /\ tx # NoTx /\ tx \in Transactions
      /\ UNCHANGED << registry, tx, post, place, tip, seen >>
  BY DEF IndexTransaction, IInv, TypeInv
<1>2. PICK observed \in Ownerships :
        LET mapped == Mapped(verdict, IF held THEN record.ownership ELSE observed)
        IN  /\ row' = IF verdict.status = "thrown" THEN row ELSE place
            /\ record' = IF mapped = NoRecord THEN record ELSE mapped
  BY DEF IndexTransaction
<1> DEFINE own == IF held THEN record.ownership ELSE observed
           mapped == Mapped(verdict, own)
<1>3. own \in Ownerships
  BY DEF Ownerships
<1>4. place \in Places /\ seen \in Tips
  BY HeightsAre DEF IInv, TypeInv, Places
<1>5. /\ verdict.status # "thrown"
      /\ place # Mempool => mapped # NoRecord
  BY <1>1, <1>4, Durable DEF IInv
<1>6. row' = place /\ record' = IF mapped = NoRecord THEN record ELSE mapped
  BY <1>2, <1>5
<1>7. \A at, known : Verify(tx, at, known)' = Verify(tx, at, known)
  <2> SUFFICES ASSUME NEW at, NEW known PROVE Verify(tx, at, known)' = Verify(tx, at, known)
    OBVIOUS
  <2> QED
    BY <1>1 DEF Verify, VerifyTm0, VerifyTm1
<1> HIDE DEF own, held, mapped, verdict
<1>8. mapped = Mapped(verdict, own) /\ verdict = Verify(tx, place, seen)
  BY DEF mapped, verdict
<1>9. record' # NoRecord =>
        \E at \in Places, known \in Tips : Stores(record', Verify(tx, at, known))
  <2>1. CASE mapped = NoRecord
    BY <1>6, <2>1 DEF IInv, StoredInv
  <2>2. CASE mapped # NoRecord
    <3>1. Stores(record', Verify(tx, place, seen))
      BY <1>3, <1>6, <1>8, <2>2 DEF Stores
    <3> QED
      BY <1>4, <3>1
  <2> QED
    BY <2>1, <2>2
<1>10. place \in Heights => Stores(record', Verify(tx, place, NoTip))
  <2> SUFFICES ASSUME place \in Heights PROVE Stores(record', Verify(tx, place, NoTip))
    OBVIOUS
  <2>1. place # Mempool
    BY HeightsAre
  <2>2. verdict = Verify(tx, place, NoTip)
    BY <1>8, <2>1, BlockDecides
  <2>3. record' = mapped
    BY <1>5, <1>6, <2>1
  <2> QED
    BY <1>3, <1>8, <2>2, <2>3 DEF Stores
<1>11. TypeInv'
  BY <1>1 DEF IInv, TypeInv
<1>12. PostInv'
  BY <1>1 DEF IInv, PostInv
<1>13. Stores(record, Verify(tx, row, NoTip))' <=> Stores(record', Verify(tx, row', NoTip))
  BY <1>7 DEF Stores
<1>14. \A at, known :
         Stores(record, Verify(tx, at, known))' <=> Stores(record', Verify(tx, at, known))
  BY <1>7 DEF Stores
<1>15. StoredInv'
  BY <1>1, <1>4, <1>6, <1>9, <1>10, <1>13, <1>14 DEF StoredInv
<1> QED
  BY <1>11, <1>12, <1>15 DEF IInv

LEMMA StepKeeps == IInv /\ [Next]_vars => IInv'
<1> SUFFICES ASSUME IInv, [Next]_vars PROVE IInv'
  OBVIOUS
<1>1. CASE Publish
  <2>1. PICK p \in Posts, inputs \in Wallets :
          post' = p /\ tx' = IF EncodeTm1(p) = "OK" THEN PostTx(p, inputs) ELSE NoTx
    BY <1>1 DEF Publish, PostTx
  <2>2. record = NoRecord /\ row = NoRow /\ UNCHANGED << registry, place, tip, seen, row, record >>
    BY <1>1 DEF Publish, IInv, StoredInv
  <2>3. TypeInv'
    BY <2>1, <2>2, PostIsTransaction DEF IInv, TypeInv
  <2>4. PostInv'
    BY <2>1 DEF PostInv
  <2>5. StoredInv'
    BY <2>2, HeightsAre DEF StoredInv
  <2> QED
    BY <2>3, <2>4, <2>5 DEF IInv
<1>2. CASE Broadcast
  <2>1. record = NoRecord /\ row = NoRow /\ tx' \in Transactions
        /\ UNCHANGED << registry, post, place, tip, seen, row, record >> /\ post = NoPost
    BY <1>2, VerificationAssumption DEF Broadcast, IInv, StoredInv
  <2>2. StoredInv'
    BY <2>1, HeightsAre DEF StoredInv
  <2> QED
    BY <2>1, <2>2 DEF IInv, TypeInv, PostInv
<1>3. CASE Connect
  <2>1. TypeInv'
    <3>1. tip + 1 \in Heights /\ tip \in Int /\ tip' = tip + 1
      BY <1>3, HeightsAre DEF Connect, IInv, TypeInv
    <3>2. place' = place \/ place' = tip + 1
      BY <1>3 DEF Connect
    <3>3. place' = Mempool \/ place' \in 0 .. tip'
      BY <3>1, <3>2, HeightsAre DEF IInv, TypeInv
    <3> QED
      BY <1>3, <3>1, <3>3 DEF Connect, IInv, TypeInv
  <2> QED
    BY <1>3, <2>1, RecordStays DEF Connect, IInv
<1>4. CASE Disconnect
  <2>1. TypeInv'
    <3>1. tip - 1 \in Heights /\ tip \in Int /\ tip' = tip - 1
      BY <1>4, HeightsAre DEF Disconnect, IInv, TypeInv
    <3>2. place' = Mempool \/ (place' = place /\ place # tip)
      BY <1>4 DEF Disconnect
    <3>3. place' = Mempool \/ place' \in 0 .. tip'
      BY <3>1, <3>2 DEF IInv, TypeInv
    <3> QED
      BY <1>4, <3>1, <3>3 DEF Disconnect, IInv, TypeInv
  <2> QED
    BY <1>4, <2>1, RecordStays DEF Disconnect, IInv
<1>5. CASE ReadTip
  <2>1. TypeInv'
    BY <1>5 DEF ReadTip, IInv, TypeInv, Tips
  <2> QED
    BY <1>5, <2>1, RecordStays DEF ReadTip, IInv
<1>6. CASE IndexTransaction
  BY <1>6, IndexKeeps
<1>7. CASE UNCHANGED vars
  <2>1. TypeInv'
    BY <1>7 DEF vars, IInv, TypeInv
  <2> QED
    BY <1>7, <2>1, RecordStays DEF vars, IInv
<1> QED
  BY <1>1, <1>2, <1>3, <1>4, <1>5, <1>6, <1>7 DEF Next

LEMMA Invariance == Spec => []IInv
<1> QED
  BY Initially, StepKeeps, PTL DEF Spec
-----------------------------------------------------------------------------
(* What the invariant says of a stored record. *)

LEMMA StoredKinds ==
  ASSUME IInv, record # NoRecord
  PROVE  /\ tx \in Transactions
         /\ \E at, known, v : \E own \in Ownerships :
              \/ NotOne(tx, v, record)
              \/ \E o : BadPost(tx, v, record, o) \/ GoodPost(tx, v, record, o, own)
              \/ \E c : \/ BadMemo(tx, v, record, c)
                        \/ Unauthorized(tx, v, record, c, ContextOf(at, known))
                        \/ \E i : Authorized(tx, v, record, c, ContextOf(at, known), i)
<1>1. tx \in Transactions
  BY DEF IInv, TypeInv, StoredInv
<1>2. PICK at \in Places, known \in Tips : Stores(record, Verify(tx, at, known))
  BY DEF IInv, StoredInv
<1>3. PICK own \in Ownerships : record = Mapped(Verify(tx, at, known), own)
  BY <1>2 DEF Stores
<1> DEFINE v == Verify(tx, at, known)
           context == ContextOf(at, known)
<1>4. \/ NotOne(tx, v, record)
      \/ \E o : BadPost(tx, v, record, o)
      \/ \E o : GoodPost(tx, v, record, o, own)
      \/ \E c : BadMemo(tx, v, record, c)
      \/ \E c : Undecided(tx, v, record, c)
      \/ \E c : Unauthorized(tx, v, record, c, context)
      \/ \E c : \E i : Authorized(tx, v, record, c, context, i)
  BY <1>1, <1>3, Kinds DEF IInv
<1>5. \A c : ~Undecided(tx, v, record, c)
  BY DEF Undecided
<1> HIDE DEF v
<1>6. \/ NotOne(tx, v, record)
      \/ \E o : BadPost(tx, v, record, o) \/ GoodPost(tx, v, record, o, own)
      \/ \E c : \/ BadMemo(tx, v, record, c)
                \/ Unauthorized(tx, v, record, c, context)
                \/ \E i : Authorized(tx, v, record, c, context, i)
  BY <1>4, <1>5
<1> QED
  BY <1>1, <1>6

(* The columns of each kind, as far as they tell the kinds apart. *)
LEMMA KindColumns ==
  ASSUME NEW t, NEW v, NEW m
  PROVE  /\ NotOne(t, v, m) => Bare(m, v.status, "TM0", Null, Null)
         /\ \A o : BadPost(t, v, m, o) =>
              Bare(m, "INVALID_MEMO", "TM1", Location(v).output, Null)
         /\ \A c : BadMemo(t, v, m, c) =>
              Bare(m, "INVALID_MEMO", "TM0", Location(v).output, Location(v).push)
         /\ \A o, own : GoodPost(t, v, m, o, own) => PostColumns(m, v)
         /\ \A c, context : Unauthorized(t, v, m, c, context) =>
              m.status = "UNAUTHORIZED" /\ m.protocol = "TM0" /\ m.height = EvaluationHeight(context)
         /\ \A c, context, i : Authorized(t, v, m, c, context, i) =>
              /\ m.status = "VERIFIED" /\ m.protocol = "TM0"
              /\ m.height = EvaluationHeight(context) /\ m.address = Address(t, i)
<1>1. NotOne(t, v, m) => Bare(m, v.status, "TM0", Null, Null)
  BY BareColumns DEF NotOne
<1>2. \A o : BadPost(t, v, m, o) => Bare(m, "INVALID_MEMO", "TM1", Location(v).output, Null)
  BY BareColumns DEF BadPost
<1>3. \A c : BadMemo(t, v, m, c) =>
        Bare(m, "INVALID_MEMO", "TM0", Location(v).output, Location(v).push)
  BY BareColumns DEF BadMemo
<1>4. \A o, own : GoodPost(t, v, m, o, own) => PostColumns(m, v)
  BY Tm1Columns DEF GoodPost
<1>5. ASSUME NEW c, NEW context, Unauthorized(t, v, m, c, context)
      PROVE  m.status = "UNAUTHORIZED" /\ m.protocol = "TM0" /\ m.height = EvaluationHeight(context)
  BY <1>5, Tm0Columns DEF Unauthorized, Says
<1>6. ASSUME NEW c, NEW context, NEW i, Authorized(t, v, m, c, context, i)
      PROVE  /\ m.status = "VERIFIED" /\ m.protocol = "TM0"
             /\ m.height = EvaluationHeight(context) /\ m.address = Address(t, i)
  BY <1>6, Tm0Columns DEF Authorized, Says
<1> QED
  BY <1>1, <1>2, <1>3, <1>4, <1>5, <1>6

LEMMA VerifiedPost ==
  ASSUME IInv, VerifiedTm1
  PROVE  /\ tx \in Transactions
         /\ \E o, v, own : GoodPost(tx, v, record, o, own)
<1>1. record # NoRecord /\ record.status = "VERIFIED" /\ record.protocol = "TM1"
  BY DEF VerifiedTm1
<1>2. PICK at, known, v : \E own \in Ownerships :
        \/ NotOne(tx, v, record)
        \/ \E o : BadPost(tx, v, record, o) \/ GoodPost(tx, v, record, o, own)
        \/ \E c : \/ BadMemo(tx, v, record, c)
                  \/ Unauthorized(tx, v, record, c, ContextOf(at, known))
                  \/ \E i : Authorized(tx, v, record, c, ContextOf(at, known), i)
  BY <1>1, StoredKinds
<1>3. \E o, own : GoodPost(tx, v, record, o, own)
  BY <1>1, <1>2, KindColumns DEF Bare
<1> QED
  BY <1>1, <1>3, StoredKinds

(***************************************************************************)
(* Theorem.  The stored author of a verified TM1 memo spends an output of  *)
(* its own, with its own key and a signature over all outputs, at the      *)
(* input the memo designates (verifyTm1DesignatedInput).                   *)
(***************************************************************************)
THEOREM AuthorIsSigner == Spec => []AuthorSigned
<1>1. ASSUME IInv PROVE AuthorSigned
  <2> SUFFICES ASSUME VerifiedTm1 PROVE AuthorSigned
    BY DEF AuthorSigned
  <2>1. PICK o, v, own : GoodPost(tx, v, record, o, own)
    BY <1>1, VerifiedPost
  <2> DEFINE author == ParsedPost(tx.outputs[o]).author
             spent == Spent(tx, author)
  <2>2. o \in Tm1Candidates(tx) /\ AuthorFault(tx, author) = "OK"
        /\ record.address = Address(tx, author + 1)
    BY <2>1, KindColumns DEF GoodPost, OnlyPost, PostColumns, Says
  <2>3. tx \in Transactions
    BY <1>1, VerifiedPost
  <2>4. /\ ~tx.coinbase /\ spent.script = "p2pkh" /\ spent.owner = record.address
        /\ spent.unlock.pushes[1].data \in [kind : {"sig"}, hash : {"all", "allAnyone"}]
        /\ SecKey(spent.unlock.pushes[2]) /\ spent.unlock.pushes[2].data.owner = record.address
    BY <2>2, <2>3, AuthorAccepted
  <2> QED
    BY <2>2, <2>4 DEF AuthorSigned, Spent
<1> QED
  BY <1>1, Invariance, PTL

(***************************************************************************)
(* Theorem.  A verified TM1 memo is the only memo of its transaction, and  *)
(* its script the one the encoder makes of its content, but for a leading  *)
(* byte order mark (parseTm1Output, encodeTm1Post).                        *)
(***************************************************************************)
THEOREM OnlyEncodersScripts == Spec => []AcceptedIsCanonical
<1>1. ASSUME IInv PROVE AcceptedIsCanonical
  <2> SUFFICES ASSUME VerifiedTm1 PROVE AcceptedIsCanonical
    BY DEF AcceptedIsCanonical
  <2>1. PICK o, v, own : GoodPost(tx, v, record, o, own)
    BY <1>1, VerifiedPost
  <2>2. tx \in Transactions /\ OnlyPost(tx, o) /\ ParseTm1(tx.outputs[o]) = "OK"
    BY <1>1, <2>1, VerifiedPost DEF GoodPost
  <2> DEFINE script == tx.outputs[o]
             content == [author |-> ParsedPost(script).author, data |-> ParsedPost(script).bytes]
  <2>3. (CHOOSE p \in Tm1Candidates(tx) : TRUE) = o
    BY <2>2 DEF OnlyPost
  <2>4. Cardinality(Tm1Candidates(tx)) = 1
    BY <2>2, FS_Singleton DEF OnlyPost
  <2>5. ASSUME NEW p \in DOMAIN tx.outputs \ {o}, NEW k \in DOMAIN ParsedPushes(tx.outputs[p])
        PROVE  ~IsTonalli(tx.outputs[p].pushes[k])
    <3>1. ParsedPushes(tx.outputs[p])[k] = tx.outputs[p].pushes[k]
      BY DEF ParsedPushes
    <3>2. p \in DOMAIN tx.outputs \ Tm1Candidates(tx)
      BY <2>2 DEF OnlyPost
    <3>3. IsTonalli(ParsedPushes(tx.outputs[p])[k]) => << p, k >> \in Tm0Candidates(tx)
      BY <3>2 DEF Tm0Candidates
    <3> QED
      BY <2>2, <3>1, <3>3 DEF OnlyPost
  <2>6. script \in Scripts /\ Accepts(script)
    BY <2>2, OutputsAre, ParserAccepts DEF OnlyPost
  <2>7. /\ content \in Requests /\ content.author \in 0 .. 255
        /\ content.data.size \in 1 .. MaxEventData
        /\ content.data.text # "invalid" /\ script = EncodedScript(content)
    BY <2>6, AcceptedIsEncoded
  <2>8. ScriptBytes(script) <= MaxScript
    BY <2>6 DEF Accepts
  <2>9. EncodeTm1(content) = "OK" \/ content.data.text \in Marked
    <3>1. content.data.text \in Texts
      BY <2>7, RequestIs
    <3> HIDE DEF content
    <3> QED
      BY <2>7, <3>1, EncoderAccepts DEF Publishable, Texts
  <2> QED
    BY <2>3, <2>4, <2>5, <2>7, <2>8, <2>9 DEF AcceptedIsCanonical
<1> QED
  BY <1>1, Invariance, PTL

(***************************************************************************)
(* Theorem.  A transaction in a block always gets a durable verification,  *)
(* and one in the mempool does with a tip (verify-normalized.ts,           *)
(* mapVerificationResult).                                                 *)
(***************************************************************************)
THEOREM DurableWithATip == Spec => []AlwaysDurable
<1>1. ASSUME IInv PROVE AlwaysDurable
  <2> SUFFICES ASSUME tx # NoTx, place # Mempool \/ seen \in 0 .. MaxSafe - 1
               PROVE  Mapped(Verify(tx, place, seen), "UNVERIFIED") # NoRecord
    BY DEF AlwaysDurable
  <2>1. TypeInv /\ tx \in Transactions /\ place \in Places /\ seen \in Tips
    BY <1>1, HeightsAre DEF IInv, TypeInv, Places
  <2> QED
    BY <2>1, Durable
<1> QED
  BY <1>1, Invariance, PTL

(***************************************************************************)
(* Theorem.  A post is published exactly if its author index is a byte and *)
(* its text fits and survives decoding, and whoever verifies it finds that *)
(* text and that author (encodeTm1Post, parseTm1Output).                   *)
(***************************************************************************)
THEOREM PostsComeBack == Spec => []PublishedVerifies
<1>1. ASSUME IInv PROVE PublishedVerifies
  <2> SUFFICES ASSUME post # NoPost PROVE PublishedVerifies
    BY DEF PublishedVerifies
  <2>1. post \in Requests
    BY <1>1, VerificationAssumption DEF IInv, PostInv, Requests
  <2>2. EncodeTm1(post) = "OK" <=> Publishable(post)
    BY <2>1, EncoderAccepts
  <2>3. PICK inputs \in Wallets :
          tx = IF EncodeTm1(post) = "OK" THEN PostTx(post, inputs) ELSE NoTx
    BY <1>1 DEF IInv, PostInv
  <2>4. CASE ~Publishable(post)
    BY <2>2, <2>3, <2>4 DEF PublishedVerifies, Publishable
  <2>5. CASE Publishable(post)
    <3> DEFINE script == EncodedScript(post)
               verdict == Verify(tx, place, seen)
    <3>1. tx = PostTx(post, inputs) /\ tx \in Transactions /\ tx # NoTx
      BY <1>1, <2>2, <2>3, <2>5, PostIsTransaction, VerificationAssumption DEF IInv, PostInv
    <3>2. /\ IsTm1Candidate(script) /\ ParseTm1(script) = "OK"
          /\ ParsedPost(script) = [author |-> post.author,
                                   eventData |-> Decoded(post.data.text, post.data.size),
                                   bytes |-> [text |-> post.data.text, size |-> post.data.size]]
      BY <2>1, <2>5, EncodedAccepted DEF Publishable
    <3>3. Decoded(post.data.text, post.data.size) = post.data
      <4>1. post.data.text \notin Marked
        BY <2>5 DEF Publishable, Marked
      <4> QED
        BY <2>1, <4>1, RequestIs DEF Decoded
    <3>4. tx.outputs = << script >> /\ DOMAIN tx.outputs = {1} /\ tx.outputs[1] = script
      BY <3>1 DEF PostTx
    <3>5. Tm1Candidates(tx) = {1} /\ Tm0Candidates(tx) = {}
      <4>1. Tm1Candidates(tx) = {1}
        BY <3>2, <3>4 DEF Tm1Candidates
      <4>2. DOMAIN tx.outputs \ Tm1Candidates(tx) = {}
        BY <3>4, <4>1
      <4> QED
        BY <4>1, <4>2 DEF Tm0Candidates
    <3>6. verdict = VerifyTm1(tx, 1)
      <4>1. CandidateCount(tx) = 1
        BY <3>5, FS_Singleton, FS_EmptySet DEF CandidateCount
      <4>2. (CHOOSE o \in Tm1Candidates(tx) : TRUE) = 1
        BY <3>5
      <4> QED
        BY <3>5, <4>1, <4>2 DEF Verify
    <3>7. ASSUME AuthorFault(tx, post.author) = "OK"
          PROVE  /\ verdict.status = "VERIFIED_TM1" /\ verdict.memo.payload = post.data
                 /\ verdict.address = tx.inputs[post.author + 1].owner
      <4>1. ParsedPost(tx.outputs[1]).author = post.author
            /\ ParsedPost(tx.outputs[1]).eventData = post.data
            /\ ParseTm1(tx.outputs[1]) = "OK"
        BY <3>2, <3>3, <3>4
      <4>2. Says(VerifyTm1(tx, 1), "VERIFIED_TM1", {Tm1Location(1)}, PostMemo(tx.outputs[1]),
                 post.author + 1, Address(tx, post.author + 1), Null,
                 Spent(tx, post.author).unlock.pushes)
        BY <3>7, <4>1, Tm1Verdict
      <4>3. /\ verdict.status = "VERIFIED_TM1" /\ verdict.memo = PostMemo(tx.outputs[1])
            /\ verdict.address = Address(tx, post.author + 1)
        BY <3>6, <4>2 DEF Says
      <4>4. Address(tx, post.author + 1) = tx.inputs[post.author + 1].owner
        BY <3>1, <3>7, AuthorAccepted DEF Spent
      <4> HIDE DEF verdict
      <4> QED
        BY <4>1, <4>3, <4>4 DEF PostMemo
    <3> HIDE DEF verdict
    <3> QED
      BY <2>5, <3>1, <3>7 DEF PublishedVerifies, Publishable, verdict
  <2> QED
    BY <2>4, <2>5
<1> QED
  BY <1>1, Invariance, PTL

(***************************************************************************)
(* Settled records: the verdict on a block's transaction is made of the    *)
(* block alone, so that a further call finds it again.                     *)
(***************************************************************************)
LEMMA SameButOwner ==
  ASSUME NEW v, NEW old, NEW new \in Ownerships, old \in Ownerships,
         old = "VERIFIED_AT_INDEXING" /\ Mapped(v, old).ownership = old => new = old
  PROVE  Settled(Mapped(v, old), Mapped(v, new)) \/ Mapped(v, old) = NoRecord
<1>1. CASE v.status # "VERIFIED_TM1"
  <2>1. Mapped(v, old) = Mapped(v, new)
    BY <1>1 DEF Mapped
  <2> QED
    BY <2>1 DEF Settled
<1>2. CASE v.status = "VERIFIED_TM1"
  <2> DEFINE a == MappedTm1(v, old)
             b == MappedTm1(v, new)
             stored == [WithMemo(EmptyRecord("VERIFIED", "TM1"), v) EXCEPT
                          !.diagnostics = Diagnostics(v.author)]
             Attached(own) == [stored EXCEPT
               !.token = AttachedToken(v.memo.payload), !.ownership = own,
               !.diagnostics = Joined(@, [attachment |-> own])]
  <2>1. Mapped(v, old) = a /\ Mapped(v, new) = b
    BY <1>2, MappedBy
  <2>2. CASE AttachedToken(v.memo.payload) = Null
    <3>1. a = b
      BY <2>2 DEF MappedTm1
    <3> QED
      BY <2>1, <3>1 DEF Settled
  <2>3. CASE AttachedToken(v.memo.payload) # Null
    <3>1. a = Attached(old) /\ b = Attached(new)
      BY <2>3 DEF MappedTm1
    <3>2. DOMAIN stored = Columns
      BY DEF EmptyRecord, WithMemo, Columns
    <3> HIDE DEF stored, a, b
    <3>3. a.ownership = old
      BY <3>1, <3>2 DEF Columns
    <3>4. CASE new = old
      BY <2>1, <3>1, <3>4 DEF Settled
    <3>5. CASE new # old
      <4>1. old = "UNVERIFIED" /\ new = "VERIFIED_AT_INDEXING"
        BY <2>1, <3>3, <3>5 DEF Ownerships
      <4>2. Joined(stored.diagnostics, [attachment |-> new]) =
              [Joined(stored.diagnostics, [attachment |-> old]) EXCEPT !.attachment = new]
        <5> DEFINE d == stored.diagnostics
                   one == [attachment |-> old]
                   two == [attachment |-> new]
        <5>1. DOMAIN one = {"attachment"} /\ DOMAIN two = {"attachment"}
              /\ one["attachment"] = old /\ two["attachment"] = new
          OBVIOUS
        <5> HIDE DEF d, one, two
        <5>2. Joined(d, two) = [Joined(d, one) EXCEPT !["attachment"] = new]
          BY <5>1 DEF Joined
        <5> QED
          BY <5>2 DEF d, one, two
      <4>3. b = [a EXCEPT !.ownership = new, !.diagnostics.attachment = new]
        <5>1. /\ a = [stored EXCEPT !.token = AttachedToken(v.memo.payload), !.ownership = old,
                                    !.diagnostics = Joined(stored.diagnostics, [attachment |-> old])]
              /\ b = [stored EXCEPT !.token = AttachedToken(v.memo.payload), !.ownership = new,
                                    !.diagnostics = Joined(stored.diagnostics, [attachment |-> new])]
          BY <3>1, <3>2 DEF Columns
        <5> DEFINE da == Joined(stored.diagnostics, [attachment |-> old])
                   db == Joined(stored.diagnostics, [attachment |-> new])
        <5>2. db = [da EXCEPT !.attachment = new]
          BY <4>2
        <5> HIDE DEF da, db
        <5>3. b = [[a EXCEPT !.ownership = new] EXCEPT !.diagnostics = db]
          BY <3>2, <5>1 DEF Columns, da, db
        <5>4. a.diagnostics = da
          BY <3>2, <5>1 DEF Columns, da
        <5> QED
          BY <3>2, <5>1, <5>2, <5>3, <5>4 DEF Columns
      <4> QED
        BY <2>1, <3>3, <4>1, <4>3 DEF Settled
    <3> QED
      BY <3>4, <3>5
  <2> QED
    BY <2>2, <2>3
<1> QED
  BY <1>1, <1>2

(***************************************************************************)
(* Theorem.  As long as the stored row names the block the transaction is  *)
(* in, a further call changes neither the row nor the verification, but    *)
(* for evidence about an attached NFT (indexTransaction).                  *)
(***************************************************************************)
THEOREM BlockSettles == Spec => SettledInBlock
<1>1. ASSUME IInv, IndexTransaction, place # Mempool, row = place
      PROVE  row' = row /\ Settled(record, record')
  <2> DEFINE v == Verify(tx, place, seen)
             held == record # NoRecord /\ record.ownership = "VERIFIED_AT_INDEXING"
  <2>1. PICK observed \in Ownerships :
          LET mapped == Mapped(v, IF held THEN record.ownership ELSE observed)
          IN  /\ row' = IF v.status = "thrown" THEN row ELSE place
              /\ record' = IF mapped = NoRecord THEN record ELSE mapped
    BY <1>1 DEF IndexTransaction
  <2> DEFINE new == IF held THEN record.ownership ELSE observed
  <2>2. /\ tx \in Transactions /\ TypeInv /\ place \in Heights /\ place \in Places /\ seen \in Tips
    BY <1>1, HeightsAre DEF IndexTransaction, IInv, TypeInv, Places
  <2>3. v.status # "thrown" /\ \A own : Mapped(v, own) # NoRecord
    BY <1>1, <2>2, Durable
  <2>4. v = Verify(tx, row, NoTip)
    BY <1>1, BlockDecides
  <2>5. PICK old \in Ownerships : record = Mapped(v, old)
    BY <1>1, <2>2, <2>4 DEF IInv, StoredInv, Stores
  <2>6. row' = row /\ record' = Mapped(v, new)
    BY <1>1, <2>1, <2>3
  <2>7. new \in Ownerships
    BY DEF Ownerships
  <2>8. old = "VERIFIED_AT_INDEXING" /\ Mapped(v, old).ownership = old => new = old
    BY <2>3, <2>5
  <2> HIDE DEF v, new
  <2> QED
    BY <2>3, <2>5, <2>6, <2>7, <2>8, SameButOwner
<1>2. IInv => [IndexTransaction /\ place # Mempool /\ row = place =>
                 row' = row /\ Settled(record, record')]_vars
  BY <1>1
<1> QED
  BY <1>2, Invariance, PTL DEF SettledInBlock

-----------------------------------------------------------------------------
(* Who may publish. *)

(* The registry that parsed lists addresses and windows that can be used.  *)
LEMMA Listed ==
  ASSUME TypeInv, NEW code \in Profiles
  PROVE  LET profile == registry.profiles[code]
         IN  /\ profile.addresses \in Seq(Listings)
             /\ \A i \in DOMAIN profile.addresses : AddressFault(profile.addresses, i) = "OK"
<1> DEFINE profile == registry.profiles[code]
<1>1. DOMAIN registry.profiles = Profiles /\ EntryFault(code, profile) = "OK"
  BY RegistryAccepted DEF TypeInv
<1>2. profile.addresses \in Seq(Listings)
  BY <1>1, VerificationAssumption DEF TypeInv
<1> QED
  BY <1>1, <1>2, EntryAccepted

LEMMA JudgedByWindow ==
  ASSUME TypeInv, NEW code \in Profiles, NEW address, NEW context, ~InvalidHeight(context)
  PROVE  Authorize(registry.profiles[code], address, context) = "OK" <=>
           MayPublish(address, code, EvaluationHeight(context))
<1>1. EvaluationHeight(context) \in Heights
  BY DEF InvalidHeight
<1> QED
  BY <1>1, Listed, AuthorizedInWindow DEF MayPublish

(* Two contexts with the same height of evaluation are judged the same.    *)
LEMMA SameJudgement ==
  ASSUME NEW t, NEW profile, NEW one, NEW two, EvaluationHeight(one) = EvaluationHeight(two),
         ~InvalidHeight(one), ~InvalidHeight(two)
  PROVE  LET a == EvaluateAuthorization(t, profile, one)
             b == EvaluateAuthorization(t, profile, two)
         IN  a.status = b.status /\ a.address = b.address /\ DOMAIN a = DOMAIN b
             /\ "memo" \in DOMAIN a /\ "candidates" \in DOMAIN a
             /\ "status" \in DOMAIN a /\ "address" \in DOMAIN a
<1>1. ASSUME NEW address
      PROVE  Authorize(profile, address, one) = Authorize(profile, address, two)
  BY DEF Authorize
<1> DEFINE Of(context) == {i \in DOMAIN t.inputs :
                             /\ Address(t, i) # Null
                             /\ Authorize(profile, Address(t, i), context) = "OK"}
           First(S) == CHOOSE i \in S : \A j \in S : i <= j
           Answer(context, S) ==
             IF S = {}
             THEN [Verdict("UNAUTHORIZED", "OK") EXCEPT !.context = context]
             ELSE [Verdict("VERIFIED", "OK") EXCEPT
                     !.context = context, !.input = First(S), !.address = Address(t, First(S))]
<1>2. Of(one) = Of(two)
  BY <1>1
<1>3. EvaluateAuthorization(t, profile, one) = Answer(one, Of(one))
      /\ EvaluateAuthorization(t, profile, two) = Answer(two, Of(two))
  BY DEF EvaluateAuthorization
<1> DEFINE S == Of(one)
<1>4. /\ Answer(one, S).status = Answer(two, S).status
      /\ Answer(one, S).address = Answer(two, S).address
      /\ DOMAIN Answer(one, S) = DOMAIN Answer(two, S)
      /\ {"memo", "candidates", "status", "address"} \subseteq DOMAIN Answer(one, S)
  <2> HIDE DEF S, First
  <2> QED
    BY DEF Verdict
<1> HIDE DEF Of, Answer
<1> QED
  BY <1>2, <1>3, <1>4

(* What is said in the mempool with the tip is said in the next block.     *)
LEMMA Forecast ==
  ASSUME TypeInv, NEW t \in Transactions, tip < MaxSafe
  PROVE  LET now == Verify(t, Mempool, tip)
             mined == Verify(t, tip + 1, NoTip)
         IN  now.status = mined.status /\ now.address = mined.address /\ now.memo = mined.memo
<1>1. tip \in Int /\ tip \in Heights /\ tip + 1 \in Heights /\ tip # NoTip /\ tip + 1 # Mempool
  BY HeightsAre DEF TypeInv
<1> DEFINE one == Context(FALSE, tip)
           two == Context(TRUE, tip + 1)
<1>2. ContextOf(Mempool, tip) = one /\ ContextOf(tip + 1, NoTip) = two
  BY <1>1 DEF ContextOf
<1>3. one # Null /\ two # Null
  <2>1. tip \in Int /\ tip + 1 \in Int /\ TRUE \in BOOLEAN /\ FALSE \in BOOLEAN
    BY <1>1
  <2> QED
    BY <2>1, NullIs
<1>4. EvaluationHeight(one) = tip + 1 /\ EvaluationHeight(two) = tip + 1
      /\ one.height = tip /\ two.height = tip + 1
  BY ContextHeights
<1>5. ~InvalidHeight(one) /\ ~InvalidHeight(two)
  BY <1>1, <1>4 DEF InvalidHeight
<1> HIDE DEF one, two
<1>6. ASSUME NEW c
      PROVE  LET now == VerifyTm0(t, c, Mempool, tip)
                 mined == VerifyTm0(t, c, tip + 1, NoTip)
             IN  /\ now.status = mined.status /\ now.address = mined.address
                 /\ now.memo = mined.memo
  <2> DEFINE push == PushAt(t, c)
             profile == registry.profiles[push.data.profile]
             a == EvaluateAuthorization(t, profile, one)
             b == EvaluateAuthorization(t, profile, two)
             Filled(w) == [[w EXCEPT !.candidates = {Tm0Location(c)}] EXCEPT
                             !.memo = TextMemo(push)]
             now == VerifyTm0(t, c, Mempool, tip)
             mined == VerifyTm0(t, c, tip + 1, NoTip)
  <2>1. CASE MemoFault(push) # "OK"
    BY <2>1 DEF VerifyTm0, PushAt
  <2>2. CASE MemoFault(push) = "OK" /\ ~Resolves(registry, push.data.profile)
    BY <2>2 DEF VerifyTm0, PushAt
  <2>3. CASE MemoFault(push) = "OK" /\ Resolves(registry, push.data.profile)
    <3>1. now = Filled(a) /\ mined = Filled(b)
      BY <1>2, <1>3, <2>3 DEF VerifyTm0, PushAt, TextMemo
    <3>2. /\ a.status = b.status /\ a.address = b.address /\ DOMAIN a = DOMAIN b
          /\ "memo" \in DOMAIN a /\ "candidates" \in DOMAIN a
          /\ "status" \in DOMAIN a /\ "address" \in DOMAIN a
      BY <1>4, <1>5, SameJudgement
    <3> HIDE DEF a, b, now, mined
    <3>3. now.status = mined.status /\ now.address = mined.address /\ now.memo = mined.memo
      BY <3>1, <3>2
    <3> QED
      BY <3>3 DEF now, mined
  <2> QED
    BY <2>1, <2>2, <2>3
<1> DEFINE now == Verify(t, Mempool, tip)
           mined == Verify(t, tip + 1, NoTip)
           c == CHOOSE x \in Tm0Candidates(t) : TRUE
<1>7. \/ now = mined
      \/ now = VerifyTm0(t, c, Mempool, tip) /\ mined = VerifyTm0(t, c, tip + 1, NoTip)
  BY DEF Verify
<1> HIDE DEF c
<1> QED
  BY <1>6, <1>7

(***************************************************************************)
(* Theorem.  A stored TM0 memo is VERIFIED exactly if one of the addresses *)
(* it spends from is listed for its profile in a window that contains the  *)
(* height it was judged at, and what the mempool is told is what the next  *)
(* block will say (authorize.ts, evaluationHeightFor).                     *)
(***************************************************************************)
THEOREM VerifiedInWindow == Spec => []WindowExact
<1>1. ASSUME IInv, record # NoRecord, record.height # Null, NEW code \in NamedProfiles
      PROVE  IF record.status = "VERIFIED"
             THEN record.address \in SpenderAddresses
                  /\ MayPublish(record.address, code, record.height)
             ELSE \A address \in SpenderAddresses : ~MayPublish(address, code, record.height)
  <2>1. PICK at, known, v : \E own \in Ownerships :
          \/ NotOne(tx, v, record)
          \/ \E o : BadPost(tx, v, record, o) \/ GoodPost(tx, v, record, o, own)
          \/ \E c : \/ BadMemo(tx, v, record, c)
                    \/ Unauthorized(tx, v, record, c, ContextOf(at, known))
                    \/ \E i : Authorized(tx, v, record, c, ContextOf(at, known), i)
    BY <1>1, StoredKinds
  <2> DEFINE context == ContextOf(at, known)
  <2>2. PICK c : \/ Unauthorized(tx, v, record, c, context)
                 \/ \E i : Authorized(tx, v, record, c, context, i)
    BY <1>1, <2>1, KindColumns DEF Bare, PostColumns
  <2>3. Envelope(tx, c) /\ ~InvalidHeight(context)
    BY <2>2 DEF Unauthorized, Authorized
  <2>4. code = PushAt(tx, c).data.profile /\ code \in Profiles
    BY <2>3 DEF NamedProfiles, Envelope, OnlyMemo, PushAt
  <2>5. record.height = EvaluationHeight(context)
    BY <2>2, KindColumns
  <2>6. TypeInv
    BY <1>1 DEF IInv
  <2> HIDE DEF context
  <2>7. \A i \in DOMAIN tx.inputs :
          i \in Allowed(tx, ProfileOf(tx, c), context) <=>
            Address(tx, i) # Null /\ MayPublish(Address(tx, i), code, record.height)
    BY <2>3, <2>4, <2>5, <2>6, JudgedByWindow DEF Allowed, ProfileOf
  <2>8. CASE Unauthorized(tx, v, record, c, context)
    <3>1. record.status = "UNAUTHORIZED" /\ Allowed(tx, ProfileOf(tx, c), context) = {}
      BY <2>8, KindColumns DEF Unauthorized
    <3> QED
      BY <2>7, <3>1 DEF SpenderAddresses
  <2>9. ASSUME NEW i, Authorized(tx, v, record, c, context, i)
        PROVE  /\ record.status = "VERIFIED" /\ record.address \in SpenderAddresses
               /\ MayPublish(record.address, code, record.height)
    <3>1. /\ record.status = "VERIFIED" /\ record.address = Address(tx, i)
          /\ i \in Allowed(tx, ProfileOf(tx, c), context)
      BY <2>9, KindColumns DEF Authorized
    <3>2. i \in DOMAIN tx.inputs
      BY <3>1 DEF Allowed
    <3> QED
      BY <2>7, <3>1, <3>2 DEF SpenderAddresses
  <2> QED
    BY <2>2, <2>8, <2>9
<1>2. ASSUME IInv PROVE ForecastHolds
  <2> SUFFICES ASSUME tx # NoTx, tip < MaxSafe
               PROVE  LET now == Verify(tx, Mempool, tip)
                          mined == Verify(tx, tip + 1, NoTip)
                      IN  /\ now.status = mined.status /\ now.address = mined.address
                          /\ now.memo = mined.memo
    BY DEF ForecastHolds
  <2>1. TypeInv /\ tx \in Transactions
    BY <1>2 DEF IInv, TypeInv
  <2> QED
    BY <2>1, Forecast
<1>3. IInv => WindowExact
  BY <1>1, <1>2 DEF WindowExact
<1> QED
  BY <1>3, Invariance, PTL

-----------------------------------------------------------------------------
(* What the API makes of a verdict and of its record. *)

LEMMA WordsAreNotNull ==
  /\ "TM0" # Null /\ "TM1" # Null /\ "token" # Null
  /\ "POST" \in STRING /\ "event" \in STRING /\ \A own \in Ownerships : own # Null
BY AnswersAssumption, NullIs

LEMMA LocationIs ==
  ASSUME NEW v, NEW location, v.candidates = {location}
  PROVE  Location(v) = location
BY DEF Location

LEMMA LocationsAre ==
  /\ \A o \in Nat : CandidateSchema(Tm1Location(o))
  /\ \A c : c[1] \in Nat /\ c[2] \in Nat => CandidateSchema(Tm0Location(c))
  /\ \A o : Tm1Location(o).protocol = "TM1" /\ Tm1Location(o).output = o
  /\ \A c : /\ Tm0Location(c).protocol = "TM0" /\ Tm0Location(c).output = c[1]
            /\ Tm0Location(c).push = c[2]
<1>1. ASSUME NEW o \in Nat PROVE CandidateSchema(Tm1Location(o))
  BY DEF Tm1Location, CandidateSchema
<1>2. ASSUME NEW c, c[1] \in Nat, c[2] \in Nat PROVE CandidateSchema(Tm0Location(c))
  BY <1>2 DEF Tm0Location, CandidateSchema
<1> QED
  BY <1>1, <1>2 DEF Tm1Location, Tm0Location

LEMMA DtoFields ==
  ASSUME NEW m
  PROVE  LET d == StoredDto(m)
         IN  /\ d.status = m.status /\ d.protocol = m.protocol
             /\ d.protocolVersion = m.version /\ d.eventType = m.event
             /\ d.profileCode = m.profile /\ d.payload = m.payload
             /\ d.byteLength = m.byteLength /\ d.candidate = StoredCandidate(m)
             /\ d.authorizingAddress = m.address /\ d.authorizingInputIndex = m.input
             /\ d.evaluationHeight = m.height
             /\ HasAuthorship(m) => d.tm1Authorship = DecodedAuthorship(m.diagnostics)
             /\ ~HasAuthorship(m) => d.tm1Authorship = Null
             /\ m.token # Null /\ m.ownership # Null =>
                  /\ d.displayPayload = DisplayPayload(m.payload)
                  /\ d.attachment = [type |-> "NFT", tokenId |-> m.token,
                                     ownership |-> m.ownership]
             /\ m.token = Null \/ m.ownership = Null =>
                  d.displayPayload = m.payload /\ d.attachment = Null
BY DEF StoredDto

LEMMA AnswerFields ==
  ASSUME NEW v
  PROVE  LET a == ResultDto(v)
         IN  /\ a.status = v.status /\ a.protocol = ProtocolOf(v)
             /\ v.memo = Null => a.memo = Null
             /\ v.memo # Null => a.memo = PublicMemo(v)
             /\ ProtocolOf(v) = Null => a.candidate = Null
             /\ ProtocolOf(v) # Null => a.candidate = Location(v)
             /\ v.status = "MULTIPLE_MEMOS" => a.candidates = v.candidates
             /\ v.status # "MULTIPLE_MEMOS" => a.candidates = Null
             /\ a.authorizingAddress = v.address /\ a.authorizingInputIndex = v.input
             /\ v.status \in {"VERIFIED", "UNAUTHORIZED"} =>
                  a.evaluationHeight = EvaluationHeight(v.context)
             /\ v.status \notin {"VERIFIED", "UNAUTHORIZED"} => a.evaluationHeight = Null
BY DEF ResultDto

LEMMA PostMemoIs ==
  ASSUME NEW s \in Scripts, ParseTm1(s) = "OK"
  PROVE  /\ PostMemo(s) \in Memos /\ PostMemo(s) # Null
         /\ ParsedPost(s).author \in Nat
         /\ ParsedPost(s).eventData \in [text : Texts, size : Int]
<1> DEFINE p == [author |-> ParsedPost(s).author, data |-> ParsedPost(s).bytes]
<1>1. p \in Requests /\ p.author \in 0 .. 255
  BY ParserAccepts, AcceptedIsEncoded
<1>2. p.data.text \in Texts /\ p.data.size \in Nat
  BY <1>1, RequestIs
<1>3. ParsedPost(s).eventData = Decoded(p.data.text, p.data.size)
  BY DEF ParsedPost
<1>4. ParsedPost(s).bytes.size \in Nat /\ ParsedPost(s).author \in Nat
  BY <1>1, <1>2
<1>5. ParsedPost(s).eventData \in [text : Texts, size : Int]
  <2> HIDE DEF p
  <2>1. CASE p.data.text \in Marked
    BY <1>2, <1>3, <2>1 DEF Decoded, Texts
  <2>2. CASE p.data.text \notin Marked
    BY <1>2, <1>3, <2>2 DEF Decoded
  <2> QED
    BY <2>1, <2>2
<1>6. PostMemo(s) \in Memos
  BY <1>4, <1>5 DEF PostMemo, Memos
<1> QED
  BY <1>4, <1>5, <1>6, AnswersAssumption

LEMMA TextMemoIs ==
  ASSUME NEW push \in Published, push.data \in Envelopes
  PROVE  TextMemo(push) \in Memos /\ TextMemo(push) # Null
<1>1. push.size \in Nat /\ push.data.profile \in STRING
  BY DEF Published, Pushes, Envelopes
<1>2. TextMemo(push) \in Memos
  BY <1>1 DEF TextMemo, Memos
<1> QED
  BY <1>2, AnswersAssumption

(* The key and the signature of a verified post. *)
LEMMA AuthorIs ==
  ASSUME NEW t \in Transactions, NEW author, AuthorFault(t, author) = "OK"
  PROVE  LET pushes == Spent(t, author).unlock.pushes
             d == Diagnostics(pushes)
         IN  /\ pushes[2].data.owner \in STRING /\ pushes[1].data.hash \in {"all", "allAnyone"}
             /\ DOMAIN d = ExpectedKeys
             /\ SecKey(d.publicKeyHex) /\ d.signatureWithHashTypeHex.size >= 2
             /\ d.publicKeyHashHex = pushes[2].data.owner
             /\ d.sighashByte = pushes[1].data.hash
             /\ d.signatureWithHashTypeHex.data.hash = d.sighashByte
             /\ d.trustModel = "trusted-chronik"
<1> DEFINE pushes == Spent(t, author).unlock.pushes
<1>1. /\ author + 1 \in DOMAIN t.inputs /\ pushes[1].size >= 2 /\ SecKey(pushes[2])
      /\ pushes[1].data \in [kind : {"sig"}, hash : {"all", "allAnyone"}]
      /\ pushes[2].data.owner = Spent(t, author).owner
  BY AuthorAccepted
<1>2. Spent(t, author) \in Inputs
  BY <1>1, InputsAre DEF Spent
<1>3. Spent(t, author).owner \in STRING
  BY <1>2 DEF Inputs
<1>4. pushes[1].data.hash \in {"all", "allAnyone"}
  BY <1>1
<1> HIDE DEF pushes
<1> QED
  BY <1>1, <1>3, <1>4 DEF Diagnostics, ExpectedKeys, pushes

Servable(m) ==
  /\ SatisfiesChecks(m)
  /\ HasAuthorship(m) => Decodable(m.diagnostics)
  /\ StoredSchema(StoredDto(m))
  /\ GuardAccepts(StoredDto(m))

LEMMA BareIsServable ==
  ASSUME NEW m, NEW status \in DurableStatuses, NEW protocol \in {"TM0", "TM1"},
         NEW output, NEW push, Bare(m, status, protocol, output, push),
         protocol = "TM1" => status # "VERIFIED",
         \/ output = Null /\ push = Null
         \/ output \in Nat /\ protocol = "TM1" /\ push = Null
         \/ output \in Nat /\ push \in Nat
  PROVE  Servable(m)
<1>1. /\ m.status = status /\ m.protocol = protocol /\ m.output = output /\ m.push = push
      /\ m.version = Null /\ m.event = Null /\ m.profile = Null /\ m.payload = Null
      /\ m.byteLength = Null /\ m.address = Null /\ m.input = Null /\ m.height = Null
      /\ m.token = Null /\ m.ownership = Null
  BY DEF Bare
<1>2. SatisfiesChecks(m)
  BY <1>1 DEF SatisfiesChecks, OptionalCount
<1>3. ~HasAuthorship(m)
  BY <1>1 DEF HasAuthorship
<1>4. \/ StoredCandidate(m) = Null
      \/ CandidateSchema(StoredCandidate(m)) /\ StoredCandidate(m).protocol = protocol
  <2>1. CASE output = Null
    BY <1>1, <2>1 DEF StoredCandidate
  <2>2. CASE output \in Nat /\ output # Null /\ protocol = "TM1"
    BY <1>1, <2>2, LocationsAre DEF StoredCandidate
  <2>3. CASE output \in Nat /\ output # Null /\ protocol # "TM1"
    <3>1. push \in Nat /\ push # Null /\ protocol = "TM0"
      BY <2>3, NullIs
    <3>2. StoredCandidate(m) = Tm0Location(<< output, push >>)
      BY <1>1, <2>3, <3>1 DEF StoredCandidate
    <3> QED
      BY <2>3, <3>1, <3>2, LocationsAre
  <2> QED
    BY <2>1, <2>2, <2>3
<1> DEFINE d == StoredDto(m)
<1>5. /\ d.status = status /\ d.protocol = protocol /\ d.protocolVersion = Null
      /\ d.eventType = Null /\ d.profileCode = Null /\ d.payload = Null /\ d.displayPayload = Null
      /\ d.byteLength = Null /\ d.candidate = StoredCandidate(m)
      /\ d.authorizingInputIndex = Null /\ d.evaluationHeight = Null
      /\ d.tm1Authorship = Null /\ d.attachment = Null
  BY <1>1, <1>3, DtoFields
<1> HIDE DEF d
<1>6. StoredSchema(d)
  BY <1>4, <1>5 DEF StoredSchema, OptionalCount
<1>7. GuardAccepts(d)
  BY <1>3, <1>4, <1>5 DEF GuardAccepts
<1> QED
  BY <1>2, <1>3, <1>6, <1>7 DEF Servable, d

(* A TM0 memo with a verdict. *)
LEMMA MemoIsServable ==
  ASSUME NEW t \in Transactions, NEW v, NEW m, NEW c, NEW context,
         Unauthorized(t, v, m, c, context) \/ \E i : Authorized(t, v, m, c, context, i)
  PROVE  Servable(m) /\ StoredCandidate(m) = Tm0Location(c)
<1> DEFINE memo == TextMemo(PushAt(t, c))
<1>1. /\ Envelope(t, c) /\ ~InvalidHeight(context) /\ m = MappedTm0(v)
      /\ v.candidates = {Tm0Location(c)} /\ v.memo = memo /\ v.context = context
      /\ v.status \in {"VERIFIED", "UNAUTHORIZED"}
      /\ v.input = Null \/ v.input \in DOMAIN t.inputs
  BY DEF Unauthorized, Authorized, Says, Allowed
<1>2. /\ c[1] \in Nat /\ c[2] \in Nat /\ PushAt(t, c) \in Published /\ PushAt(t, c).data \in Envelopes
      /\ c = << c[1], c[2] >>
  BY <1>1, CandidatesAre DEF Envelope, OnlyMemo
<1>3. PushAt(t, c).size \in Nat /\ PushAt(t, c).data.profile \in STRING
  BY <1>2 DEF Published, Pushes, Envelopes
<1>4. v.input = Null \/ v.input \in Nat
  BY <1>1, InputsAre
<1>5. EvaluationHeight(context) \in Nat
  BY <1>1, HeightsAre DEF InvalidHeight, Heights
<1>6. Location(v) = Tm0Location(c)
  BY <1>1, LocationIs
<1> DEFINE payload == [text |-> "memo", size |-> PushAt(t, c).size]
<1>7. /\ m.status \in {"VERIFIED", "UNAUTHORIZED"} /\ m.protocol = "TM0"
      /\ m.version = 0 /\ m.event = "event" /\ m.profile = PushAt(t, c).data.profile
      /\ m.payload = payload /\ m.byteLength = PushAt(t, c).size
      /\ m.output = c[1] /\ m.push = c[2] /\ m.address = v.address /\ m.input = v.input
      /\ m.height = EvaluationHeight(context) /\ m.token = Null /\ m.ownership = Null
  <2>1. /\ memo.version = 0 /\ memo.event = "event" /\ memo.profile = PushAt(t, c).data.profile
        /\ memo.payload = payload /\ memo.byteLength = PushAt(t, c).size
    BY DEF TextMemo
  <2>2. Tm0Location(c).output = c[1] /\ Tm0Location(c).push = c[2]
    BY LocationsAre
  <2>3. /\ m.status = v.status /\ m.protocol = "TM0"
        /\ m.version = v.memo.version /\ m.event = v.memo.event
        /\ m.profile = v.memo.profile /\ m.payload = v.memo.payload
        /\ m.byteLength = v.memo.byteLength
        /\ m.output = Location(v).output /\ m.push = Location(v).push
        /\ m.address = v.address /\ m.input = v.input
        /\ m.height = EvaluationHeight(v.context) /\ m.token = Null /\ m.ownership = Null
    BY <1>1, Tm0Columns
  <2> HIDE DEF memo, payload
  <2> QED
    BY <1>1, <1>6, <2>1, <2>2, <2>3
<1>8. IsText(payload)
  BY DEF IsText
<1>9. StoredCandidate(m) = Tm0Location(c)
  <2>1. c[1] # Null /\ c[2] # Null
    BY <1>2, NullIs
  <2>2. << m.output, m.push >> = c
    BY <1>2, <1>7
  <2> QED
    BY <1>7, <2>1, <2>2 DEF StoredCandidate
<1>10. ~HasAuthorship(m)
  BY <1>7 DEF HasAuthorship
<1> DEFINE d == StoredDto(m)
<1>11. /\ d.status = m.status /\ d.protocol = "TM0" /\ d.protocolVersion = 0
       /\ d.eventType = "event" /\ d.profileCode = m.profile
       /\ d.payload = payload /\ d.displayPayload = payload
       /\ d.byteLength = m.byteLength /\ d.candidate = Tm0Location(c)
       /\ d.authorizingInputIndex = m.input /\ d.evaluationHeight = m.height
       /\ d.tm1Authorship = Null /\ d.attachment = Null
  BY <1>7, <1>9, <1>10, DtoFields
<1> HIDE DEF d, payload
<1>12. SatisfiesChecks(m)
  <2>1. m.status \in DurableStatuses
    BY <1>7 DEF DurableStatuses
  <2> QED
    BY <1>2, <1>3, <1>4, <1>5, <1>7, <2>1 DEF SatisfiesChecks, OptionalCount
<1>13. StoredSchema(d)
  <2>1. d.status \in DurableStatuses
    BY <1>7, <1>11 DEF DurableStatuses
  <2>2. CandidateSchema(d.candidate) /\ IsName(d.eventType) /\ IsName(d.profileCode)
    BY <1>2, <1>3, <1>7, <1>11, LocationsAre, WordsAreNotNull DEF IsName
  <2>3. \A value \in {d.protocolVersion, d.byteLength, d.authorizingInputIndex, d.evaluationHeight} :
          OptionalCount(value)
    BY <1>3, <1>4, <1>5, <1>7, <1>11 DEF OptionalCount
  <2> QED
    BY <1>8, <1>11, <2>1, <2>2, <2>3 DEF StoredSchema
<1>14. GuardAccepts(d)
  BY <1>11, LocationsAre DEF GuardAccepts
<1> QED
  BY <1>9, <1>10, <1>12, <1>13, <1>14 DEF Servable, d

LEMMA SignerIs ==
  ASSUME NEW owner \in STRING, NEW hash \in {"all", "allAnyone"}
  PROVE  LET signer == [publicKeyHashHex |-> owner, sighashByte |-> hash,
                        trustModel |-> "trusted-chronik"]
         IN  signer # Null /\ AuthorshipSchema(signer)
<1> DEFINE signer == [publicKeyHashHex |-> owner, sighashByte |-> hash,
                      trustModel |-> "trusted-chronik"]
<1>1. signer \in Authorships
  BY DEF Authorships
<1>2. AuthorshipSchema(signer)
  BY DEF AuthorshipSchema
<1> HIDE DEF signer
<1> QED
  BY <1>1, <1>2, AnswersAssumption DEF signer

(* A verified TM1 memo, attached or not. *)
LEMMA PostIsServable ==
  ASSUME NEW t \in Transactions, NEW v, NEW m, NEW o, NEW own \in Ownerships,
         GoodPost(t, v, m, o, own)
  PROVE  /\ Servable(m) /\ StoredCandidate(m) = Tm1Location(o)
         /\ LET author == ParsedPost(t.outputs[o]).author
                pushes == Spent(t, author).unlock.pushes
            IN  StoredDto(m).tm1Authorship =
                  [publicKeyHashHex |-> pushes[2].data.owner,
                   sighashByte |-> pushes[1].data.hash, trustModel |-> "trusted-chronik"]
<1> DEFINE s == t.outputs[o]
           author == ParsedPost(s).author
           pushes == Spent(t, author).unlock.pushes
           signer == [publicKeyHashHex |-> pushes[2].data.owner,
                      sighashByte |-> pushes[1].data.hash, trustModel |-> "trusted-chronik"]
<1>1. /\ OnlyPost(t, o) /\ ParseTm1(s) = "OK" /\ AuthorFault(t, author) = "OK"
      /\ v.candidates = {Tm1Location(o)} /\ v.memo = PostMemo(s) /\ v.input = author + 1
      /\ v.author = pushes /\ m = MappedTm1(v, own)
  BY DEF GoodPost, Says
<1>2. o \in Nat /\ s \in Scripts
  BY <1>1, OutputsAre DEF OnlyPost
<1>3. PostMemo(s) \in Memos /\ author \in Nat
  BY <1>1, <1>2, PostMemoIs
<1>4. Location(v) = Tm1Location(o)
  BY <1>1, LocationIs
<1>5. /\ PostColumns(m, v)
      /\ \/ /\ v.memo.payload.text = "nft" /\ m.token = "token" /\ m.ownership = own
            /\ m.diagnostics = Joined(Diagnostics(pushes), [attachment |-> own])
         \/ /\ v.memo.payload.text # "nft" /\ m.token = Null /\ m.ownership = Null
            /\ m.diagnostics = Diagnostics(pushes)
  BY <1>1, Tm1Columns
<1> DEFINE payload == ParsedPost(s).eventData
           size == ParsedPost(s).bytes.size
<1>6. /\ m.status = "VERIFIED" /\ m.protocol = "TM1" /\ m.version = 1 /\ m.event = "POST"
      /\ m.profile = Null /\ m.payload = payload /\ m.byteLength = size
      /\ m.output = o /\ m.push = Null /\ m.address = v.address /\ m.input = author + 1
      /\ m.height = Null
  BY <1>1, <1>4, <1>5, LocationsAre DEF PostColumns, PostMemo
<1>7. payload \in [text : Texts, size : Int] /\ size \in Nat
  <2>1. PostMemo(s).byteLength \in Nat
    BY <1>3 DEF Memos
  <2> QED
    BY <1>1, <1>2, <2>1, PostMemoIs DEF PostMemo
<1> HIDE DEF payload, size
<1>8. IsText(payload) /\ IsText(DisplayPayload(payload))
  BY <1>7 DEF IsText, DisplayPayload
<1>9. /\ pushes[2].data.owner \in STRING /\ pushes[1].data.hash \in {"all", "allAnyone"}
      /\ LET d == Diagnostics(pushes)
         IN  /\ DOMAIN d = ExpectedKeys
             /\ SecKey(d.publicKeyHex) /\ d.signatureWithHashTypeHex.size >= 2
             /\ d.publicKeyHashHex = pushes[2].data.owner
             /\ d.sighashByte = pushes[1].data.hash
             /\ d.signatureWithHashTypeHex.data.hash = d.sighashByte
             /\ d.trustModel = "trusted-chronik"
  BY <1>1, AuthorIs
<1>10. Decodable(m.diagnostics) /\ DecodedAuthorship(m.diagnostics) = signer
  <2> DEFINE d == Diagnostics(pushes)
             more == [attachment |-> own]
             e == m.diagnostics
  <2>1. DOMAIN more = {"attachment"}
    OBVIOUS
  <2>2. e = d \/ e = Joined(d, more)
    BY <1>5
  <2> HIDE DEF d, more, e
  <2>3. /\ ExpectedKeys \subseteq DOMAIN e /\ DOMAIN e \subseteq ExpectedKeys \cup {"attachment"}
        /\ \A k \in ExpectedKeys : e[k] = d[k]
    BY <1>9, <2>1, <2>2 DEF d, Joined, ExpectedKeys
  <2>4. /\ e.publicKeyHex = d.publicKeyHex /\ e.publicKeyHashHex = d.publicKeyHashHex
        /\ e.signatureWithHashTypeHex = d.signatureWithHashTypeHex
        /\ e.sighashByte = d.sighashByte /\ e.trustModel = d.trustModel
    BY <2>3 DEF ExpectedKeys
  <2>5. Decodable(e)
    BY <1>9, <2>3, <2>4 DEF d, Decodable, KeysValid
  <2>6. DecodedAuthorship(e) = signer
    BY <1>9, <2>4 DEF d, DecodedAuthorship
  <2> QED
    BY <2>5, <2>6 DEF e
<1>11. HasAuthorship(m)
  BY <1>6 DEF HasAuthorship
<1>12. StoredCandidate(m) = Tm1Location(o)
  <2>1. o # Null
    BY <1>2, NullIs
  <2> QED
    BY <1>6, <2>1 DEF StoredCandidate
<1> DEFINE d == StoredDto(m)
<1>13. /\ d.status = "VERIFIED" /\ d.protocol = "TM1" /\ d.protocolVersion = 1
       /\ d.eventType = "POST" /\ d.profileCode = Null /\ d.payload = payload
       /\ d.byteLength = size /\ d.candidate = Tm1Location(o)
       /\ d.authorizingInputIndex = author + 1 /\ d.evaluationHeight = Null
       /\ d.tm1Authorship = signer
  BY <1>6, <1>10, <1>11, <1>12, DtoFields
<1>14. \/ d.displayPayload = payload /\ d.attachment = Null
       \/ /\ d.displayPayload = DisplayPayload(payload)
          /\ d.attachment = [type |-> "NFT", tokenId |-> "token", ownership |-> own]
  <2>1. CASE m.token = "token" /\ m.ownership = own
    <3>1. m.token # Null /\ m.ownership # Null
      BY <2>1, WordsAreNotNull
    <3>2. /\ d.displayPayload = DisplayPayload(m.payload)
          /\ d.attachment = [type |-> "NFT", tokenId |-> m.token, ownership |-> m.ownership]
      BY <3>1, DtoFields
    <3> HIDE DEF d
    <3> QED
      BY <1>6, <2>1, <3>2
  <2>2. CASE m.token = Null
    BY <1>6, <2>2, DtoFields
  <2> QED
    BY <1>5, <2>1, <2>2
<1>15. signer # Null /\ AuthorshipSchema(signer)
  BY <1>9, SignerIs
<1> HIDE DEF d, signer
<1>16. SatisfiesChecks(m)
  <2>1. m.ownership \in Ownerships \cup {Null}
    BY <1>5
  <2>2. m.status \in DurableStatuses
    BY <1>6 DEF DurableStatuses
  <2>3. author + 1 \in Nat
    BY <1>3
  <2> QED
    BY <1>2, <1>6, <1>7, <2>1, <2>2, <2>3 DEF SatisfiesChecks, OptionalCount
<1>17. StoredSchema(d)
  <2>1. d.status \in DurableStatuses
    BY <1>13 DEF DurableStatuses
  <2>2. CandidateSchema(d.candidate) /\ IsName(d.eventType)
    BY <1>2, <1>13, LocationsAre, WordsAreNotNull DEF IsName
  <2>3. \A value \in {d.protocolVersion, d.byteLength, d.authorizingInputIndex, d.evaluationHeight} :
          OptionalCount(value)
    <3>1. author + 1 \in Nat
      BY <1>3
    <3> QED
      BY <1>7, <1>13, <3>1 DEF OptionalCount
  <2>4. AuthorshipSchema(d.tm1Authorship)
    BY <1>13, <1>15
  <2>5. d.attachment = Null \/ AttachmentSchema(d.attachment)
    BY <1>14 DEF AttachmentSchema
  <2>6. IsText(d.payload) /\ IsText(d.displayPayload)
    BY <1>8, <1>13, <1>14
  <2> QED
    BY <1>13, <2>1, <2>2, <2>3, <2>4, <2>5, <2>6 DEF StoredSchema
<1>18. GuardAccepts(d)
  BY <1>13, <1>15, LocationsAre DEF GuardAccepts
<1> QED
  BY <1>10, <1>12, <1>13, <1>16, <1>17, <1>18 DEF Servable, d, signer

(* Results without a memo, and their records. *)
LEMMA BadPostIs ==
  ASSUME NEW t \in Transactions, NEW v, NEW m, NEW o, BadPost(t, v, m, o)
  PROVE  /\ Location(v) = Tm1Location(o) /\ o \in Nat /\ v.status = "INVALID_TM1"
         /\ Bare(m, "INVALID_MEMO", "TM1", o, Null)
<1>1. o \in DOMAIN t.outputs /\ v.candidates = {Tm1Location(o)} /\ v.status = "INVALID_TM1"
  BY DEF BadPost, OnlyPost, SaysNothing, Says
<1>2. Location(v) = Tm1Location(o)
  BY <1>1, LocationIs
<1>3. o \in Nat
  BY <1>1, OutputsAre
<1>4. Tm1Location(o).output = o
  BY LocationsAre
<1>5. Bare(m, "INVALID_MEMO", "TM1", Location(v).output, Null)
  BY KindColumns
<1> QED
  BY <1>1, <1>2, <1>3, <1>4, <1>5

LEMMA BadMemoIs ==
  ASSUME NEW t \in Transactions, NEW v, NEW m, NEW c, BadMemo(t, v, m, c)
  PROVE  /\ Location(v) = Tm0Location(c) /\ v.status = "INVALID_MEMO"
         /\ c = << c[1], c[2] >> /\ c[1] \in Nat /\ c[2] \in Nat
         /\ Bare(m, "INVALID_MEMO", "TM0", c[1], c[2])
<1>1. c \in Tm0Candidates(t) /\ v.candidates = {Tm0Location(c)} /\ v.status = "INVALID_MEMO"
  BY DEF BadMemo, OnlyMemo, SaysNothing, Says
<1>2. Location(v) = Tm0Location(c)
  BY <1>1, LocationIs
<1>3. c = << c[1], c[2] >> /\ c[1] \in Nat /\ c[2] \in Nat
  BY <1>1, CandidatesAre
<1>4. Tm0Location(c).output = c[1] /\ Tm0Location(c).push = c[2]
  BY LocationsAre
<1>5. Bare(m, "INVALID_MEMO", "TM0", Location(v).output, Location(v).push)
  BY KindColumns
<1>6. Bare(m, "INVALID_MEMO", "TM0", c[1], c[2])
  BY <1>2, <1>4, <1>5
<1> QED
  BY <1>1, <1>2, <1>3, <1>6

LEMMA BareKinds ==
  ASSUME NEW t \in Transactions, NEW v, NEW m,
         \/ NotOne(t, v, m)
         \/ \E o : BadPost(t, v, m, o)
         \/ \E c : BadMemo(t, v, m, c)
  PROVE  Servable(m)
<1>1. ASSUME NotOne(t, v, m) PROVE Servable(m)
  <2>1. v.status \in DurableStatuses /\ Bare(m, v.status, "TM0", Null, Null)
    BY <1>1, KindColumns DEF NotOne, SaysNothing, Says, DurableStatuses
  <2> QED
    BY <2>1, BareIsServable
<1>2. "INVALID_MEMO" \in DurableStatuses
  BY DEF DurableStatuses
<1>3. ASSUME NEW o, BadPost(t, v, m, o) PROVE Servable(m)
  <2>1. o \in Nat /\ Bare(m, "INVALID_MEMO", "TM1", o, Null)
    BY <1>3, BadPostIs
  <2> QED
    BY <1>2, <2>1, BareIsServable
<1>4. ASSUME NEW c, BadMemo(t, v, m, c) PROVE Servable(m)
  <2>1. c[1] \in Nat /\ c[2] \in Nat /\ Bare(m, "INVALID_MEMO", "TM0", c[1], c[2])
    BY <1>4, BadMemoIs
  <2> QED
    BY <1>2, <2>1, BareIsServable
<1> QED
  BY <1>1, <1>3, <1>4

(***************************************************************************)
(* Theorem.  No record the verifier and the mapper make is refused by the  *)
(* database, the reader of stored authorship, the schema of the answer or  *)
(* the guard of the web application, so that none takes the feed from      *)
(* everybody (mapStoredVerification, schemas.ts, guards.ts).               *)
(***************************************************************************)
THEOREM FeedIsServed == Spec => []FeedServable
<1>1. ASSUME IInv, record # NoRecord PROVE Servable(record)
  <2>1. PICK at, known, v : \E own \in Ownerships :
          \/ NotOne(tx, v, record)
          \/ \E o : BadPost(tx, v, record, o) \/ GoodPost(tx, v, record, o, own)
          \/ \E c : \/ BadMemo(tx, v, record, c)
                    \/ Unauthorized(tx, v, record, c, ContextOf(at, known))
                    \/ \E i : Authorized(tx, v, record, c, ContextOf(at, known), i)
    BY <1>1, StoredKinds
  <2>2. tx \in Transactions
    BY <1>1, StoredKinds
  <2>3. CASE \/ NotOne(tx, v, record)
             \/ \E o : BadPost(tx, v, record, o)
             \/ \E c : BadMemo(tx, v, record, c)
    BY <2>2, <2>3, BareKinds
  <2>4. CASE \E o : \E own \in Ownerships : GoodPost(tx, v, record, o, own)
    BY <2>2, <2>4, PostIsServable
  <2>5. CASE \E c : \/ Unauthorized(tx, v, record, c, ContextOf(at, known))
                    \/ \E i : Authorized(tx, v, record, c, ContextOf(at, known), i)
    BY <2>2, <2>5, MemoIsServable
  <2> QED
    BY <2>1, <2>3, <2>4, <2>5
<1>2. IInv => FeedServable
  BY <1>1 DEF FeedServable, Servable
<1> QED
  BY <1>2, Invariance, PTL

-----------------------------------------------------------------------------
(* The two answers. *)

Agree(v, m) ==
  LET answer == ResultDto(v)
      dto == StoredDto(m)
  IN  /\ ResultSchema(answer)
      /\ m # NoRecord =>
           /\ SameMemo(answer, dto) /\ SameAuthor(answer, dto)
           /\ dto.candidate = answer.candidate
           /\ answer.protocol # Null => dto.protocol = answer.protocol

LEMMA BareAnswer ==
  ASSUME NEW v, NEW m, NEW status, NEW protocol, NEW output, NEW push,
         Bare(m, status, protocol, output, push), ~(protocol = "TM1" /\ status = "VERIFIED"),
         v.status \in {"NO_MEMO", "MULTIPLE_MEMOS", "INVALID_TM1", "INVALID_MEMO"},
         v.memo = Null, v.input = Null, v.address = Null,
         v.status = "MULTIPLE_MEMOS" =>
           \A candidate \in v.candidates : CandidateSchema(candidate),
         \/ ProtocolOf(v) = Null /\ output = Null
         \/ /\ protocol \in {"TM0", "TM1"} /\ ProtocolOf(v) = protocol
            /\ Location(v) = StoredCandidate(m) /\ CandidateSchema(Location(v))
  PROVE  Agree(v, m)
<1> DEFINE a == ResultDto(v)
           d == StoredDto(m)
<1>1. /\ m.status = status /\ m.protocol = protocol /\ m.output = output
      /\ m.version = Null /\ m.event = Null /\ m.profile = Null /\ m.payload = Null
      /\ m.byteLength = Null /\ m.address = Null /\ m.input = Null /\ m.height = Null
      /\ m.token = Null /\ m.ownership = Null
  BY DEF Bare
<1>2. /\ a.status = v.status /\ a.protocol = ProtocolOf(v) /\ a.memo = Null
      /\ a.authorizingAddress = Null /\ a.authorizingInputIndex = Null
      /\ a.evaluationHeight = Null
      /\ a.candidates # Null => \A candidate \in a.candidates : CandidateSchema(candidate)
      /\ ProtocolOf(v) = Null => a.candidate = Null
      /\ ProtocolOf(v) # Null => a.candidate = Location(v)
  BY AnswerFields
<1>3. ~HasAuthorship(m)
  BY <1>1 DEF HasAuthorship
<1>4. /\ d.protocol = protocol /\ d.eventType = Null /\ d.payload = Null
      /\ d.authorizingAddress = Null /\ d.authorizingInputIndex = Null
      /\ d.evaluationHeight = Null /\ d.tm1Authorship = Null /\ d.candidate = StoredCandidate(m)
  BY <1>1, <1>3, DtoFields
<1>5. output = Null => StoredCandidate(m) = Null
  BY <1>1 DEF StoredCandidate
<1> HIDE DEF a, d
<1>6. /\ d.candidate = a.candidate
      /\ a.candidate = Null \/ CandidateSchema(a.candidate)
      /\ a.protocol # Null => d.protocol = a.protocol
      /\ a.protocol \in {"TM0", "TM1", Null}
  BY <1>2, <1>4, <1>5, WordsAreNotNull
<1>7. ResultSchema(a)
  BY <1>2, <1>6 DEF ResultSchema, OptionalCount, DurableStatuses
<1>8. SameMemo(a, d) /\ SameAuthor(a, d)
  BY <1>2, <1>4 DEF SameMemo, SameAuthor
<1> QED
  BY <1>6, <1>7, <1>8 DEF Agree, a, d

LEMMA BareAgrees ==
  ASSUME NEW t \in Transactions, NEW v, NEW m,
         \/ NotOne(t, v, m)
         \/ \E o : BadPost(t, v, m, o)
         \/ \E c : BadMemo(t, v, m, c)
  PROVE  Agree(v, m)
<1>1. /\ v.memo = Null /\ v.input = Null /\ v.address = Null
  BY DEF NotOne, BadPost, BadMemo, SaysNothing, Says
<1>2. CASE NotOne(t, v, m)
  <2>1. v.status \in {"NO_MEMO", "MULTIPLE_MEMOS"} /\ ProtocolOf(v) = Null
    BY <1>2 DEF NotOne, SaysNothing, Says, ProtocolOf
  <2>2. ASSUME v.status = "MULTIPLE_MEMOS", NEW candidate \in v.candidates
        PROVE  CandidateSchema(candidate)
    <3>1. candidate \in AllLocations(t)
      BY <1>2, <2>2 DEF NotOne, SaysNothing, Says
    <3>2. \A o \in Tm1Candidates(t) : o \in Nat
      BY CandidatesAre, OutputsAre
    <3>3. \A c \in Tm0Candidates(t) : c[1] \in Nat /\ c[2] \in Nat
      BY CandidatesAre
    <3> QED
      BY <3>1, <3>2, <3>3, LocationsAre DEF AllLocations
  <2>3. Bare(m, v.status, "TM0", Null, Null)
    BY <1>2, KindColumns
  <2> QED
    BY <1>1, <2>1, <2>2, <2>3, BareAnswer
<1>3. ASSUME NEW o, BadPost(t, v, m, o) PROVE Agree(v, m)
  <2>1. Location(v) = Tm1Location(o) /\ o \in Nat /\ v.status = "INVALID_TM1"
    BY <1>3, BadPostIs
  <2>2. Bare(m, "INVALID_MEMO", "TM1", o, Null)
    BY <1>3, BadPostIs
  <2>3. StoredCandidate(m) = Tm1Location(o)
    BY <2>1, <2>2, NullIs DEF Bare, StoredCandidate
  <2>4. ProtocolOf(v) = "TM1"
    BY <2>1, LocationsAre DEF ProtocolOf
  <2>5. CandidateSchema(Tm1Location(o))
    BY <2>1, LocationsAre
  <2> QED
    BY <1>1, <2>1, <2>2, <2>3, <2>4, <2>5, BareAnswer
<1>4. ASSUME NEW c, BadMemo(t, v, m, c) PROVE Agree(v, m)
  <2>1. Location(v) = Tm0Location(c) /\ v.status = "INVALID_MEMO"
    BY <1>4, BadMemoIs
  <2>2. c = << c[1], c[2] >> /\ c[1] \in Nat /\ c[2] \in Nat
    BY <1>4, BadMemoIs
  <2>3. Bare(m, "INVALID_MEMO", "TM0", c[1], c[2])
    BY <1>4, BadMemoIs
  <2>4. StoredCandidate(m) = Tm0Location(c)
    <3>1. c[1] # Null /\ c[2] # Null
      BY <2>2, NullIs
    <3> QED
      BY <2>2, <2>3, <3>1 DEF Bare, StoredCandidate
  <2>5. ProtocolOf(v) = "TM0"
    BY <2>1, LocationsAre DEF ProtocolOf
  <2>6. CandidateSchema(Tm0Location(c))
    BY <2>2, LocationsAre
  <2> QED
    BY <1>1, <2>1, <2>3, <2>4, <2>5, <2>6, BareAnswer
<1> QED
  BY <1>2, <1>3, <1>4

(* A verified post in both answers. *)
LEMMA PostAgrees ==
  ASSUME NEW t \in Transactions, NEW v, NEW m, NEW o, NEW own \in Ownerships,
         GoodPost(t, v, m, o, own)
  PROVE  Agree(v, m)
<1> DEFINE s == t.outputs[o]
           author == ParsedPost(s).author
           pushes == Spent(t, author).unlock.pushes
           owner == pushes[2].data.owner
           hash == pushes[1].data.hash
           signer == [publicKeyHashHex |-> owner, sighashByte |-> hash,
                      trustModel |-> "trusted-chronik"]
           memo == PostMemo(s)
           more == [protocol |-> "TM1", publicKeyHashHex |-> owner, sighashByte |-> hash,
                    trustModel |-> "trusted-chronik"]
           shown == Joined(memo, more)
           a == ResultDto(v)
           d == StoredDto(m)
<1>1. /\ OnlyPost(t, o) /\ ParseTm1(s) = "OK" /\ AuthorFault(t, author) = "OK"
      /\ v.candidates = {Tm1Location(o)} /\ v.memo = memo /\ v.input = author + 1
      /\ v.status = "VERIFIED_TM1" /\ v.author = pushes
  BY DEF GoodPost, Says
<1>2. o \in Nat /\ s \in Scripts
  BY <1>1, OutputsAre DEF OnlyPost
<1>3. memo \in Memos /\ memo # Null /\ author + 1 \in Nat
      /\ ParsedPost(s).eventData \in [text : Texts, size : Int]
  BY <1>1, <1>2, PostMemoIs
<1>4. Location(v) = Tm1Location(o) /\ ProtocolOf(v) = "TM1"
  <2>1. Location(v) = Tm1Location(o)
    BY <1>1, LocationIs
  <2> QED
    BY <1>1, <2>1, LocationsAre DEF ProtocolOf
<1>5. owner \in STRING /\ hash \in {"all", "allAnyone"}
  BY <1>1, AuthorIs
<1>6. PublicMemo(v) = shown
  BY <1>1 DEF PublicMemo
<1>7. /\ memo.version = 1 /\ memo.event = "POST" /\ memo.profile = Null
      /\ memo.payload = ParsedPost(s).eventData /\ memo.byteLength = ParsedPost(s).bytes.size
      /\ DOMAIN memo = {"version", "event", "profile", "payload", "byteLength"}
      /\ memo.byteLength \in Nat
  BY <1>3 DEF PostMemo, Memos
<1>8. /\ shown.version = 1 /\ shown.event = "POST" /\ shown.profile = Null
      /\ shown.payload = memo.payload /\ shown.byteLength = memo.byteLength
      /\ shown.protocol = "TM1" /\ shown.publicKeyHashHex = owner /\ shown.sighashByte = hash
      /\ shown.trustModel = "trusted-chronik"
      /\ shown \in Tm1Memos
  <2>1. /\ DOMAIN more = {"protocol", "publicKeyHashHex", "sighashByte", "trustModel"}
        /\ more.protocol = "TM1" /\ more.publicKeyHashHex = owner /\ more.sighashByte = hash
        /\ more.trustModel = "trusted-chronik"
    OBVIOUS
  <2> HIDE DEF memo, more
  <2>2. /\ shown.version = 1 /\ shown.event = "POST" /\ shown.profile = Null
        /\ shown.payload = memo.payload /\ shown.byteLength = memo.byteLength
        /\ shown.protocol = "TM1" /\ shown.publicKeyHashHex = owner /\ shown.sighashByte = hash
        /\ shown.trustModel = "trusted-chronik"
    BY <1>7, <2>1 DEF Joined
  <2> DEFINE fields == {"version", "event", "profile", "payload", "byteLength", "protocol",
                        "publicKeyHashHex", "sighashByte", "trustModel"}
  <2>3. shown = [f \in fields |-> shown[f]]
    BY <1>7, <2>1 DEF Joined
  <2>4. memo.payload \in [text : Texts, size : Int]
    BY <1>3, <1>7
  <2> HIDE DEF shown, owner, hash
  <2>5. shown \in Tm1Memos
    BY <1>5, <1>7, <2>2, <2>3, <2>4 DEF Tm1Memos
  <2> QED
    BY <2>2, <2>5
<1>9. shown # Null
  BY <1>8, AnswersAssumption
<1>10. StoredCandidate(m) = Tm1Location(o) /\ d.tm1Authorship = signer
  BY PostIsServable
<1>11. PostColumns(m, v)
  BY KindColumns
<1>12. /\ m.protocol = "TM1" /\ m.status = "VERIFIED" /\ m.version = v.memo.version
       /\ m.event = v.memo.event /\ m.profile = v.memo.profile /\ m.payload = v.memo.payload
       /\ m.byteLength = v.memo.byteLength /\ m.address = v.address /\ m.input = v.input
       /\ m.height = Null
  BY <1>11 DEF PostColumns
<1>13. /\ d.protocol = "TM1" /\ d.protocolVersion = v.memo.version
       /\ d.eventType = v.memo.event /\ d.profileCode = v.memo.profile
       /\ d.payload = v.memo.payload /\ d.byteLength = v.memo.byteLength
       /\ d.authorizingAddress = v.address /\ d.authorizingInputIndex = v.input
       /\ d.evaluationHeight = Null /\ d.candidate = Tm1Location(o)
  BY <1>10, <1>12, DtoFields
<1>14. /\ a.status = "VERIFIED_TM1" /\ a.protocol = "TM1" /\ a.memo = shown
       /\ a.candidate = Tm1Location(o) /\ a.candidates = Null
       /\ a.authorizingAddress = v.address /\ a.authorizingInputIndex = v.input
       /\ a.evaluationHeight = Null
  BY <1>1, <1>3, <1>4, <1>6, AnswerFields, WordsAreNotNull
<1>15. signer = [publicKeyHashHex |-> a.memo.publicKeyHashHex,
                 sighashByte |-> a.memo.sighashByte, trustModel |-> a.memo.trustModel]
  <2> HIDE DEF shown, a, owner, hash
  <2> QED
    BY <1>8, <1>14
<1> HIDE DEF a, d, shown, memo, signer, owner, hash
<1>16. ResultSchema(a)
  <2>1. MemoSchema(a.memo)
    <3>1. IsText(memo.payload)
      BY <1>3, <1>7 DEF IsText
    <3> QED
      BY <1>5, <1>7, <1>8, <1>14, <3>1 DEF MemoSchema
  <2>2. CandidateSchema(a.candidate)
    BY <1>2, <1>14, LocationsAre
  <2> QED
    BY <1>1, <1>3, <1>14, <2>1, <2>2 DEF ResultSchema, OptionalCount, DurableStatuses
<1>17. SameMemo(a, d)
  BY <1>1, <1>7, <1>8, <1>9, <1>13, <1>14 DEF SameMemo
<1>18. SameAuthor(a, d)
  BY <1>10, <1>13, <1>14, <1>15 DEF SameAuthor
<1> QED
  BY <1>13, <1>14, <1>16, <1>17, <1>18 DEF Agree, a, d

(* A TM0 memo, with or without a verdict. *)
LEMMA MemoAgrees ==
  ASSUME NEW t \in Transactions, NEW v, NEW m, NEW c, NEW context,
         \/ Undecided(t, v, m, c) \/ Unauthorized(t, v, m, c, context)
         \/ \E i : Authorized(t, v, m, c, context, i)
  PROVE  Agree(v, m)
<1> DEFINE memo == TextMemo(PushAt(t, c))
           more == [protocol |-> "TM0"]
           shown == Joined(memo, more)
           a == ResultDto(v)
           d == StoredDto(m)
<1>1. /\ Envelope(t, c) /\ v.candidates = {Tm0Location(c)} /\ v.memo = memo
      /\ v.status \in {"MEMPOOL_TIP_REQUIRED", "INVALID_VERIFICATION_CONTEXT", "VERIFIED",
                       "UNAUTHORIZED"}
      /\ v.input = Null \/ v.input \in DOMAIN t.inputs
  BY DEF Undecided, Unauthorized, Authorized, Says, Allowed
<1>2. /\ c[1] \in Nat /\ c[2] \in Nat /\ PushAt(t, c) \in Published /\ PushAt(t, c).data \in Envelopes
  BY <1>1, CandidatesAre DEF Envelope, OnlyMemo
<1>3. memo \in Memos /\ memo # Null
  BY <1>2, TextMemoIs
<1>4. PushAt(t, c).size \in Nat /\ PushAt(t, c).data.profile \in STRING
  BY <1>2 DEF Published, Pushes, Envelopes
<1>5. Location(v) = Tm0Location(c) /\ ProtocolOf(v) = "TM0"
  <2>1. Location(v) = Tm0Location(c)
    BY <1>1, LocationIs
  <2> QED
    BY <1>1, <2>1, LocationsAre DEF ProtocolOf
<1>6. PublicMemo(v) = shown
  BY <1>1 DEF PublicMemo
<1>7. /\ memo.version = 0 /\ memo.event = "event" /\ memo.profile \in STRING
      /\ memo.payload \in [text : {"memo"}, size : Int] /\ memo.byteLength \in Nat
      /\ DOMAIN memo = {"version", "event", "profile", "payload", "byteLength"}
  BY <1>4 DEF TextMemo
<1>8. /\ shown.version = 0 /\ shown.event = "event" /\ shown.profile = memo.profile
      /\ shown.payload = memo.payload /\ shown.byteLength = memo.byteLength
      /\ shown.protocol = "TM0" /\ shown \in Tm0Memos
      /\ DOMAIN shown = {"protocol", "version", "event", "profile", "payload", "byteLength"}
  <2>1. DOMAIN more = {"protocol"} /\ more.protocol = "TM0"
    OBVIOUS
  <2> HIDE DEF memo, more
  <2>2. /\ shown.version = 0 /\ shown.event = "event" /\ shown.profile = memo.profile
        /\ shown.payload = memo.payload /\ shown.byteLength = memo.byteLength
        /\ shown.protocol = "TM0"
    BY <1>7, <2>1 DEF Joined
  <2> DEFINE fields == {"version", "event", "profile", "payload", "byteLength", "protocol"}
  <2>3. shown = [f \in fields |-> shown[f]]
    BY <1>7, <2>1 DEF Joined
  <2> HIDE DEF shown
  <2>4. shown \in Tm0Memos
    BY <1>7, <2>2, <2>3 DEF Tm0Memos
  <2>5. DOMAIN shown = {"protocol", "version", "event", "profile", "payload", "byteLength"}
    BY <2>3
  <2> QED
    BY <2>2, <2>4, <2>5
<1>9. shown # Null
  BY <1>8, AnswersAssumption
<1>10. /\ a.status = v.status /\ a.protocol = "TM0" /\ a.memo = shown
       /\ a.candidate = Tm0Location(c) /\ a.candidates = Null
       /\ a.authorizingAddress = v.address /\ a.authorizingInputIndex = v.input
  BY <1>1, <1>3, <1>5, <1>6, AnswerFields, WordsAreNotNull
<1>11. OptionalCount(a.evaluationHeight)
  <2>1. CASE v.status \in {"VERIFIED", "UNAUTHORIZED"}
    <3>1. v.context = context /\ ~InvalidHeight(context)
      BY <2>1 DEF Undecided, Unauthorized, Authorized, Says
    <3>2. EvaluationHeight(context) \in Nat
      BY <3>1, HeightsAre DEF InvalidHeight, Heights
    <3> QED
      BY <2>1, <3>1, <3>2, AnswerFields DEF OptionalCount
  <2>2. CASE v.status \notin {"VERIFIED", "UNAUTHORIZED"}
    BY <2>2, AnswerFields DEF OptionalCount
  <2> QED
    BY <2>1, <2>2
<1>12. OptionalCount(v.input)
  BY <1>1, InputsAre DEF OptionalCount
<1> HIDE DEF memo, shown
<1>13. ResultSchema(a)
  <2> HIDE DEF a
  <2>1. MemoSchema(a.memo)
    <3>1. IsText(memo.payload) /\ IsName(memo.profile)
      BY <1>7 DEF IsText, IsName
    <3> QED
      BY <1>7, <1>8, <1>10, <3>1 DEF MemoSchema
  <2>2. CandidateSchema(a.candidate)
    BY <1>2, <1>10, LocationsAre
  <2>3. OptionalCount(a.authorizingInputIndex)
    BY <1>10, <1>12
  <2> QED
    BY <1>1, <1>10, <1>11, <2>1, <2>2, <2>3 DEF ResultSchema, DurableStatuses
<1>14. CASE Undecided(t, v, m, c)
  BY <1>13, <1>14 DEF Undecided, Agree
<1>15. CASE Unauthorized(t, v, m, c, context) \/ \E i : Authorized(t, v, m, c, context, i)
  <2>1. m = MappedTm0(v) /\ v.status \in {"VERIFIED", "UNAUTHORIZED"} /\ v.context = context
    BY <1>15 DEF Unauthorized, Authorized, Says
  <2>2. StoredCandidate(m) = Tm0Location(c)
    BY <1>15, MemoIsServable
  <2>3. /\ m.protocol = "TM0" /\ m.version = memo.version /\ m.event = memo.event
        /\ m.profile = memo.profile /\ m.payload = memo.payload
        /\ m.byteLength = memo.byteLength /\ m.address = v.address /\ m.input = v.input
        /\ m.height = EvaluationHeight(context)
    BY <1>1, <2>1, Tm0Columns
  <2>4. ~HasAuthorship(m)
    BY <2>3 DEF HasAuthorship
  <2>5. /\ d.protocol = "TM0" /\ d.protocolVersion = memo.version
        /\ d.eventType = memo.event /\ d.profileCode = memo.profile
        /\ d.payload = memo.payload /\ d.byteLength = memo.byteLength
        /\ d.authorizingAddress = v.address /\ d.authorizingInputIndex = v.input
        /\ d.evaluationHeight = EvaluationHeight(context) /\ d.candidate = Tm0Location(c)
        /\ d.tm1Authorship = Null
    BY <2>2, <2>3, <2>4, DtoFields
  <2>6. a.evaluationHeight = EvaluationHeight(context)
    BY <2>1, AnswerFields
  <2> HIDE DEF a, d
  <2>7. SameMemo(a, d)
    BY <1>7, <1>8, <1>9, <1>10, <2>5 DEF SameMemo
  <2>8. SameAuthor(a, d)
    BY <1>10, <2>5, <2>6 DEF SameAuthor
  <2> QED
    BY <1>10, <1>13, <2>5, <2>7, <2>8 DEF Agree, a, d
<1> QED
  BY <1>14, <1>15

(***************************************************************************)
(* Theorem.  The answer to an administrative request and what the API      *)
(* shows later of the record made by it fit their schemas and name the     *)
(* same memo, author and place (mapVerificationResult and                  *)
(* mapStoredVerification of the API).                                      *)
(***************************************************************************)
THEOREM BothMappersAgree == Spec => []AnswersAgree
<1>1. ASSUME IInv, tx # NoTx, NEW own \in Ownerships
      PROVE  Agree(Verify(tx, place, seen), Mapped(Verify(tx, place, seen), own))
  <2> DEFINE v == Verify(tx, place, seen)
             m == Mapped(v, own)
             context == ContextOf(place, seen)
  <2>1. TypeInv /\ tx \in Transactions /\ place \in Places
    BY <1>1, HeightsAre DEF IInv, TypeInv, Places
  <2>2. \/ NotOne(tx, v, m)
        \/ \E o : BadPost(tx, v, m, o)
        \/ \E o : GoodPost(tx, v, m, o, own)
        \/ \E c : BadMemo(tx, v, m, c)
        \/ \E c : Undecided(tx, v, m, c)
        \/ \E c : Unauthorized(tx, v, m, c, context)
        \/ \E c : \E i : Authorized(tx, v, m, c, context, i)
    BY <2>1, Kinds
  <2> HIDE DEF v, m, context
  <2>3. CASE \/ NotOne(tx, v, m)
             \/ \E o : BadPost(tx, v, m, o)
             \/ \E c : BadMemo(tx, v, m, c)
    BY <2>1, <2>3, BareAgrees DEF v, m
  <2>4. CASE \E o : GoodPost(tx, v, m, o, own)
    BY <2>1, <2>4, PostAgrees DEF v, m
  <2>5. CASE \E c : \/ Undecided(tx, v, m, c) \/ Unauthorized(tx, v, m, c, context)
                    \/ \E i : Authorized(tx, v, m, c, context, i)
    BY <2>1, <2>5, MemoAgrees DEF v, m
  <2> QED
    BY <2>2, <2>3, <2>4, <2>5
<1>2. IInv => AnswersAgree
  <2>1. Ownerships # {}
    BY DEF Ownerships
  <2> QED
    BY <1>1, <2>1 DEF AnswersAgree, Agree
<1> QED
  BY <1>2, Invariance, PTL

=============================================================================
