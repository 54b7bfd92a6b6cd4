--------------------------- MODULE ProfileRegistry ---------------------------
(***************************************************************************)
(* The official profiles and who may publish for them                      *)
(* (packages/registry/src/parse.ts, resolve.ts, authorize.ts).             *)
(*                                                                         *)
(* A document has a schema version, a network and, for each of its keys,   *)
(* an entry [code, alias, named, addresses]; `alias' is the profile whose  *)
(* alias it gives.  A listed address is [address, canonical, from, until]. *)
(***************************************************************************)
EXTENDS Checks

CONSTANTS
  ProfileCodes,  \* PROFILE_CODES, a sequence
  MaxSafe,       \* the largest safe integer
  NoBound        \* validFromHeight or validUntilHeight that is absent

ASSUME RegistryAssumption ==
  /\ MaxSafe \in Nat
  /\ NoBound \notin Int
  /\ ProfileCodes \in Seq(STRING)

Profiles == {ProfileCodes[i] : i \in DOMAIN ProfileCodes}
Heights == 0 .. MaxSafe

Listings ==
  [address : STRING, canonical : BOOLEAN, from : Int \cup {NoBound}, until : Int \cup {NoBound}]

(* parseAuthorizedAddress for the i-th element of a list. *)
AddressFault(list, i) ==
  LET entry == list[i]
  IN  FirstFault(<<
        Fault("INVALID_ADDRESS", ~entry.canonical),
        Fault("INVALID_HEIGHT", {entry.from, entry.until} \ {NoBound} \notin SUBSET Heights),
        Fault("INVALID_HEIGHT_RANGE",
              /\ NoBound \notin {entry.from, entry.until}
              /\ entry.from > entry.until),
        Fault("DUPLICATE_ADDRESS", \E j \in 1 .. i - 1 : list[j].address = entry.address) >>)

(* parseEntry. *)
EntryFault(code, entry) ==
  FirstFault(<<
    Fault("PROFILE_CODE_MISMATCH", entry.code # code),
    Fault("ALIAS_MISMATCH", entry.alias # code),
    Fault("INVALID_DISPLAY_NAME", ~entry.named) >>
  \o [i \in DOMAIN entry.addresses |->
        Fault(AddressFault(entry.addresses, i), AddressFault(entry.addresses, i) # "OK")])

(* parseRegistry; the entries are read once all keys are known. *)
RegistryFault(doc) ==
  LET keys == DOMAIN doc.profiles
      document == FirstFault(<<
        Fault("UNSUPPORTED_SCHEMA_VERSION", doc.schemaVersion # 1),
        Fault("INVALID_NETWORK", doc.network # "ecash-mainnet"),
        Fault("MISSING_PROFILE", ~(Profiles \subseteq keys)),
        Fault("UNKNOWN_PROFILE", ~(keys \subseteq Profiles)) >>)
      fault(code) == EntryFault(code, doc.profiles[code])
  IN  IF document # "OK" THEN document
      ELSE FirstFault([i \in DOMAIN ProfileCodes |->
                         Fault(fault(ProfileCodes[i]), fault(ProfileCodes[i]) # "OK")])

(* resolveProfile finds something; what is found is doc.profiles[code]. *)
Resolves(doc, code) == code \in Profiles /\ code \in DOMAIN doc.profiles

(* The context of a confirmed transaction is its height, of any other the *)
(* height of the tip.                                                     *)
Context(confirmed, height) == [confirmed |-> confirmed, height |-> height]

(* Mutant: an unconfirmed transaction is judged at the tip. *)
EvaluationHeightAtTip(context) == context.height

(* evaluationHeightFor, without its checks. *)
EvaluationHeight(context) ==
  IF context.confirmed THEN context.height ELSE context.height + 1

(* It throws INVALID_HEIGHT. *)
InvalidHeight(context) ==
  context.height \notin Heights \/ EvaluationHeight(context) \notin Heights

(* Mutant: the last height of a window is outside of it. *)
AuthorizeExclusively(profile, address, context) ==
  LET list == profile.addresses
      listed == {i \in DOMAIN list : list[i].address = address}
      first == list[CHOOSE i \in listed : \A j \in listed : i <= j]
      height == EvaluationHeight(context)
  IN  FirstFault(<<
        Fault("ADDRESS_NOT_LISTED", listed = {}),
        Fault("NOT_YET_VALID", listed # {} /\ first.from # NoBound /\ height < first.from),
        Fault("EXPIRED", listed # {} /\ first.until # NoBound /\ height >= first.until) >>)

(* authorizeAddress at a valid height: "OK" or the reason to refuse. *)
Authorize(profile, address, context) ==
  LET list == profile.addresses
      listed == {i \in DOMAIN list : list[i].address = address}
      first == list[CHOOSE i \in listed : \A j \in listed : i <= j]
      height == EvaluationHeight(context)
  IN  FirstFault(<<
        Fault("ADDRESS_NOT_LISTED", listed = {}),
        Fault("NOT_YET_VALID", listed # {} /\ first.from # NoBound /\ height < first.from),
        Fault("EXPIRED", listed # {} /\ first.until # NoBound /\ height > first.until) >>)
=============================================================================
