----------------------------- MODULE PublicRecord -----------------------------
(***************************************************************************)
(* What the API shows of a verification: the answer to an administrative   *)
(* request at once, and the stored record later, on its own or in the feed *)
(* (apps/indexer/src/api/mapper.ts, tm1-authorship.ts and schemas.ts), and *)
(* what the web application accepts of it (apps/web/src/api/guards.ts).    *)
(*                                                                         *)
(* A field that JSON leaves out is Null here.                              *)
(***************************************************************************)
EXTENDS MemoVerification

(* What these can be; the words are strings, which the provers do not know. *)
Memos ==
  [version : {0, 1}, event : {"event", "POST"}, profile : STRING \cup {Null},
   payload : [text : Texts \cup {"memo"}, size : Int], byteLength : Nat]

Tm0Memos ==
  [version : {0}, event : {"event"}, profile : STRING,
   payload : [text : {"memo"}, size : Int], byteLength : Nat, protocol : {"TM0"}]

Tm1Memos ==
  [version : {1}, event : {"POST"}, profile : {Null}, payload : [text : Texts, size : Int],
   byteLength : Nat, protocol : {"TM1"}, publicKeyHashHex : STRING,
   sighashByte : {"all", "allAnyone"}, trustModel : {"trusted-chronik"}]

Authorships ==
  [publicKeyHashHex : STRING, sighashByte : {"all", "allAnyone"},
   trustModel : {"trusted-chronik"}]

ASSUME AnswersAssumption ==
  /\ Null \notin Memos \cup Tm0Memos \cup Tm1Memos \cup Authorships
  /\ {"token", "POST", "event", "TM0", "TM1"} \cup Ownerships \subseteq STRING

-----------------------------------------------------------------------------
(* The CHECK constraints of verification_records (db/migrations.ts).       *)

DurableStatuses == {"VERIFIED", "UNAUTHORIZED", "NO_MEMO", "INVALID_MEMO", "MULTIPLE_MEMOS"}

OptionalCount(value) == value = Null \/ value \in Nat

SatisfiesChecks(columns) ==
  /\ columns.status \in DurableStatuses
  /\ columns.protocol \in {"TM0", "TM1"}
  /\ \A value \in {columns.byteLength, columns.output, columns.push, columns.input,
                   columns.height} : OptionalCount(value)
  /\ columns.ownership \in Ownerships \cup {Null}

-----------------------------------------------------------------------------
(* decodeStoredTm1Authorship.                                              *)

ExpectedKeys ==
  {"publicKeyHashHex", "publicKeyHex", "sighashByte", "signatureWithHashTypeHex", "trustModel"}

(* Mutant: the keys have to be the expected ones. *)
KeysExact(diagnostics) == DOMAIN diagnostics = ExpectedKeys

KeysValid(diagnostics) ==
  /\ ExpectedKeys \subseteq DOMAIN diagnostics
  /\ DOMAIN diagnostics \subseteq ExpectedKeys \cup {"attachment"}

(* Otherwise InvalidStoredTm1AuthorshipError ends the request in 500.      *)
Decodable(diagnostics) ==
  /\ KeysValid(diagnostics)
  /\ SecKey(diagnostics.publicKeyHex)
  /\ diagnostics.signatureWithHashTypeHex.size >= 2
  /\ diagnostics.sighashByte \in {"all", "allAnyone"}
  /\ diagnostics.signatureWithHashTypeHex.data.hash = diagnostics.sighashByte
  /\ diagnostics.trustModel = "trusted-chronik"

DecodedAuthorship(diagnostics) ==
  [publicKeyHashHex |-> diagnostics.publicKeyHashHex,
   sighashByte |-> diagnostics.sighashByte, trustModel |-> diagnostics.trustModel]

(* storedCandidate                                                         *)
StoredCandidate(columns) ==
  IF columns.output = Null THEN Null
  ELSE IF columns.protocol = "TM1" THEN Tm1Location(columns.output)
  ELSE IF columns.push = Null THEN Null
  ELSE Tm0Location(<< columns.output, columns.push >>)

(* The bytes of a directive: "@nft1:", 64 digits and a line feed.          *)
Directive == 71

(* parseTm1Attachment: the directive is not displayed.                     *)
DisplayPayload(payload) ==
  IF payload.text = "nft" THEN [text |-> "plain", size |-> payload.size - Directive] ELSE payload

HasAuthorship(columns) == columns.protocol = "TM1" /\ columns.status = "VERIFIED"

(* mapStoredVerification                                                   *)
StoredDto(columns) ==
  LET attached == columns.token # Null /\ columns.ownership # Null
  IN  [status |-> columns.status, protocol |-> columns.protocol,
       protocolVersion |-> columns.version, eventType |-> columns.event,
       profileCode |-> columns.profile, payload |-> columns.payload,
       displayPayload |-> IF attached THEN DisplayPayload(columns.payload) ELSE columns.payload,
       byteLength |-> columns.byteLength, candidate |-> StoredCandidate(columns),
       authorizingAddress |-> columns.address, authorizingInputIndex |-> columns.input,
       evaluationHeight |-> columns.height,
       tm1Authorship |-> IF HasAuthorship(columns)
                         THEN DecodedAuthorship(columns.diagnostics) ELSE Null,
       attachment |-> IF attached
                      THEN [type |-> "NFT", tokenId |-> columns.token,
                            ownership |-> columns.ownership]
                      ELSE Null]

-----------------------------------------------------------------------------
(* mapVerificationResult of the API.                                       *)

PublicMemo(verdict) ==
  IF verdict.status = "VERIFIED_TM1"
  THEN Joined(verdict.memo,
              [protocol |-> "TM1", publicKeyHashHex |-> verdict.author[2].data.owner,
               sighashByte |-> verdict.author[1].data.hash, trustModel |-> "trusted-chronik"])
  ELSE Joined(verdict.memo, [protocol |-> "TM0"])

ProtocolOf(verdict) ==
  IF verdict.status \in {"NO_MEMO", "MULTIPLE_MEMOS"} THEN Null ELSE Location(verdict).protocol

ResultDto(verdict) ==
  [status |-> verdict.status, protocol |-> ProtocolOf(verdict),
   memo |-> IF verdict.memo = Null THEN Null ELSE PublicMemo(verdict),
   candidate |-> IF ProtocolOf(verdict) = Null THEN Null ELSE Location(verdict),
   candidates |-> IF verdict.status = "MULTIPLE_MEMOS" THEN verdict.candidates ELSE Null,
   authorizingAddress |-> verdict.address, authorizingInputIndex |-> verdict.input,
   evaluationHeight |-> IF verdict.status \in {"VERIFIED", "UNAUTHORIZED"}
                        THEN EvaluationHeight(verdict.context) ELSE Null,
   error |-> IF verdict.code = "OK" THEN Null ELSE verdict.code]

-----------------------------------------------------------------------------
(* schemas.ts.                                                             *)

IsText(value) == DOMAIN value = {"text", "size"}
IsName(value) == value \in STRING

CandidateSchema(value) ==
  \/ DOMAIN value = {"protocol", "output", "push"} /\ value.protocol = "TM0"
     /\ {value.output, value.push} \subseteq Nat
  \/ DOMAIN value = {"protocol", "output"} /\ value.protocol = "TM1" /\ value.output \in Nat

AuthorshipSchema(value) ==
  /\ DOMAIN value = {"publicKeyHashHex", "sighashByte", "trustModel"}
  /\ value.sighashByte \in {"all", "allAnyone"}
  /\ value.trustModel = "trusted-chronik"

AttachmentSchema(value) == value.type = "NFT" /\ value.ownership \in Ownerships

(* storedVerification                                                      *)
StoredSchema(dto) ==
  /\ dto.status \in DurableStatuses
  /\ dto.protocol \in {"TM0", "TM1"}
  /\ \A value \in {dto.payload, dto.displayPayload} : value = Null \/ IsText(value)
  /\ \A value \in {dto.eventType, dto.profileCode} : value = Null \/ IsName(value)
  /\ \A value \in {dto.protocolVersion, dto.byteLength, dto.authorizingInputIndex,
                   dto.evaluationHeight} : OptionalCount(value)
  /\ dto.candidate = Null \/ CandidateSchema(dto.candidate)
  /\ dto.tm1Authorship = Null \/ AuthorshipSchema(dto.tm1Authorship)
  /\ dto.attachment = Null \/ AttachmentSchema(dto.attachment)

(* tm0Memo and tm1Memo                                                     *)
MemoSchema(value) ==
  /\ IsText(value.payload) /\ value.byteLength \in Nat
  /\ \/ /\ value.protocol = "TM0" /\ value.version = 0 /\ IsName(value.profile)
        /\ DOMAIN value = {"protocol", "version", "event", "profile", "payload", "byteLength"}
     \/ /\ value.protocol = "TM1" /\ value.version = 1 /\ value.profile = Null
        /\ value.event = "POST" /\ value.sighashByte \in {"all", "allAnyone"}

(* verificationResult, for the results that have a transaction             *)
ResultSchema(dto) ==
  /\ dto.status \in DurableStatuses \cup {"VERIFIED_TM1", "INVALID_TM1", "MEMPOOL_TIP_REQUIRED",
                                          "INVALID_VERIFICATION_CONTEXT"}
  /\ dto.protocol \in {"TM0", "TM1", Null}
  /\ dto.memo = Null \/ MemoSchema(dto.memo)
  /\ dto.candidate = Null \/ CandidateSchema(dto.candidate)
  /\ dto.candidates # Null => \A candidate \in dto.candidates : CandidateSchema(candidate)
  /\ OptionalCount(dto.authorizingInputIndex) /\ OptionalCount(dto.evaluationHeight)

-----------------------------------------------------------------------------
(* guards.ts: isStoredVerification, where it says more than the schema;    *)
(* isFeedItem asks for VERIFIED besides, as listVerifiedFeed does.         *)
GuardAccepts(dto) ==
  /\ dto.candidate # Null => dto.candidate.protocol = dto.protocol
  /\ (dto.tm1Authorship # Null) <=> (dto.protocol = "TM1" /\ dto.status = "VERIFIED")

-----------------------------------------------------------------------------
(***************************************************************************)
(* GET /api/v1/feed maps up to a hundred records and the web application   *)
(* accepts the page as a whole, so one record that the database, the       *)
(* reader, the schema or the guard refuses would take the feed from        *)
(* everybody.  None that the verifier and the mapper make is refused.      *)
(***************************************************************************)
FeedServable ==
  record # NoRecord =>
    /\ SatisfiesChecks(record)
    /\ HasAuthorship(record) => Decodable(record.diagnostics)
    /\ StoredSchema(StoredDto(record))
    /\ GuardAccepts(StoredDto(record))

(***************************************************************************)
(* The answer of POST /api/v1/admin/index and what GET /api/v1/tx shows    *)
(* of the record made by it come from two mappers over different types.    *)
(* They name the same memo, author and place.                              *)
(***************************************************************************)
SameMemo(answer, dto) ==
  IF answer.memo = Null THEN dto.payload = Null /\ dto.eventType = Null
  ELSE /\ dto.payload = answer.memo.payload /\ dto.byteLength = answer.memo.byteLength
       /\ dto.protocolVersion = answer.memo.version /\ dto.eventType = answer.memo.event
       /\ dto.profileCode = answer.memo.profile

SameAuthor(answer, dto) ==
  /\ dto.authorizingAddress = answer.authorizingAddress
  /\ dto.authorizingInputIndex = answer.authorizingInputIndex
  /\ dto.evaluationHeight = answer.evaluationHeight
  /\ dto.tm1Authorship # Null =>
       dto.tm1Authorship = [publicKeyHashHex |-> answer.memo.publicKeyHashHex,
                            sighashByte |-> answer.memo.sighashByte,
                            trustModel |-> answer.memo.trustModel]

AnswersAgree ==
  tx # NoTx =>
    LET verdict == Verify(tx, place, seen)
        answer == ResultDto(verdict)
    IN  /\ ResultSchema(answer)
        /\ \A ownership \in Ownerships :
             LET mapped == Mapped(verdict, ownership)
                 dto == StoredDto(mapped)
             IN  mapped # NoRecord =>
                   /\ SameMemo(answer, dto) /\ SameAuthor(answer, dto)
                   /\ dto.candidate = answer.candidate
                   /\ answer.protocol # Null => dto.protocol = answer.protocol
=============================================================================
