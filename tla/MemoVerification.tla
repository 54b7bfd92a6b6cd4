--------------------------- MODULE MemoVerification ---------------------------
(***************************************************************************)
(* What the verifier says of a transaction (packages/verification) and     *)
(* what the indexer stores of it (apps/indexer/src/engine/mapper.ts), for  *)
(* one transaction, from its publication over the blocks that contain it.  *)
(*                                                                         *)
(* A transaction is [coinbase, inputs, outputs].  An input is the kind of  *)
(* the output it spends ("none" when Chronik does not know it), the owner  *)
(* of that output and the unlocking script.  The outputs are scripts of    *)
(* Tm1Script; a push of kind "memo" holds a TM0 envelope [faults, profile] *)
(* whose faults are the checks it would fail.                              *)
(***************************************************************************)
EXTENDS Tm1Script, ProfileRegistry, FiniteSets

CONSTANTS
  MaxMemo,    \* DEFAULT_MAX_BYTES of a TM0 envelope
  Mempool, NoRow, NoTip, NoTx, NoPost,
  Null,       \* as in JSON and SQL
  Documents,  \* registry documents
  Foreign,    \* transactions of anyone
  Posts,      \* what authors ask the encoder to publish: [author, data]
  Wallets     \* the inputs of an author's transaction

-----------------------------------------------------------------------------
(* What these can be. *)

MemoFaults == << "INVALID_UTF8", "INVALID_FORMAT", "UNSUPPORTED_VERSION", "INVALID_MARKER",
                 "INVALID_TYPE_FORMAT", "UNKNOWN_TYPE", "RESERVED_TYPE",
                 "INVALID_PROFILE_FORMAT" >>

Envelopes ==
  [kind : {"memo"}, profile : STRING,
   faults : SUBSET ({MemoFaults[i] : i \in DOMAIN MemoFaults} \cup {"EMPTY_PAYLOAD"})]

(* The marker is four bytes. *)
Published ==
  {push \in Pushes({Lokad} \cup PostData \cup Envelopes \cup [kind : {"junk"}]) :
     push.data = Lokad => push.size = 4}

Scripts ==
  [opReturn : BOOLEAN, value : Nat, tail : {"end", "constant", "broken"}, pushes : Seq(Published)]

Unlocking ==
  Pushes([kind : {"sig"}, hash : STRING] \cup [kind : {"key"}, owner : STRING, prefix : STRING])

Inputs ==
  [script : {"none", "p2pkh", "p2sh", "odd"}, owner : STRING,
   unlock : [pushes : Seq(Unlocking), tail : {"end", "constant", "broken"}]]

Transactions == [coinbase : BOOLEAN, inputs : Seq(Inputs), outputs : Seq(Scripts)]

Contexts == [confirmed : BOOLEAN, height : Int]

ASSUME VerificationAssumption ==
  /\ {Mempool, NoTip, NoRow} \cap Int = {} /\ NoRow # Mempool
  /\ Foreign \subseteq Transactions /\ NoTx \notin Transactions
  /\ Posts \subseteq [author : Nat, data : [text : Texts, size : Nat]]
  /\ \A inputs \in Wallets : inputs \in Seq(Inputs)
  /\ \A doc \in Documents :
       \A code \in DOMAIN doc.profiles : doc.profiles[code].addresses \in Seq(Listings)
  /\ Null \notin Int \cup STRING \cup Contexts

-----------------------------------------------------------------------------
VARIABLES
  registry,  \* the parsed registry
  tx,        \* the transaction
  post,      \* what its author encoded, if the encoder made it
  place,     \* Chronik's answer: Mempool or the height of its block
  tip,       \* the height of the chain
  seen,      \* the tip height handed to the verifier
  row,       \* the block of the stored transaction, Mempool, or NoRow
  record     \* its stored verification

vars == << registry, tx, post, place, tip, seen, row, record >>

-----------------------------------------------------------------------------
(* What Chronik's answer is turned into. *)

(* normalizeInput *)
SpentScript(t, i) == IF t.coinbase THEN "none" ELSE t.inputs[i].script
Address(t, i) ==
  IF SpentScript(t, i) \in {"p2pkh", "p2sh"} THEN t.inputs[i].owner ELSE Null

(* normalizeOpReturnOutput: a script that breaks off has no pushes.        *)
ParsedPushes(s) == IF s.opReturn /\ s.tail # "broken" THEN s.pushes ELSE << >>

-----------------------------------------------------------------------------
(* Candidates. *)

Tm1Candidates(t) == {o \in DOMAIN t.outputs : IsTm1Candidate(t.outputs[o])}

(* isTonalliMemoCandidate: the push starts with the bytes of "TM"; one     *)
(* that does is of the kind "memo", unless it is the TM1 marker.           *)
IsTonalli(push) == push.size >= 2 /\ push.data.kind \in {"lokad", "memo"}

(* The pushes of the other outputs. *)
Tm0Candidates(t) ==
  UNION {{<< o, k >> : k \in {j \in DOMAIN ParsedPushes(t.outputs[o]) :
                                IsTonalli(ParsedPushes(t.outputs[o])[j])}} :
         o \in DOMAIN t.outputs \ Tm1Candidates(t)}

CandidateCount(t) == Cardinality(Tm1Candidates(t)) + Cardinality(Tm0Candidates(t))

-----------------------------------------------------------------------------
(* TM1: the designated input. *)

(* isStructurallyValidSecPublicKey *)
SecKey(push) ==
  /\ push.data.kind = "key"
  /\ << push.size, push.data.prefix >> \in {<< 33, "02" >>, << 33, "03" >>, << 65, "04" >>}

(* parsePushes and the conditions on what it returns; OP_PUSHDATA2 and 4   *)
(* are not read.                                                           *)
GoodUnlocking(unlock) ==
  /\ unlock.tail = "end"
  /\ Len(unlock.pushes) = 2
  /\ \A k \in 1 .. 2 : unlock.pushes[k].form \in {"direct", "one"} /\ Minimal(unlock.pushes[k])
  /\ unlock.pushes[1].size >= 2
  /\ SecKey(unlock.pushes[2])

(* Mutant: the key need not be the one the output pays. *)
AuthorFaultAnyKey(t, author) ==
  IF /\ author + 1 \in DOMAIN t.inputs
     /\ SpentScript(t, author + 1) = "p2pkh" /\ GoodUnlocking(t.inputs[author + 1].unlock)
     /\ t.inputs[author + 1].unlock.pushes[1].data.kind = "sig"
  THEN "OK" ELSE "INVALID_AUTHOR_SCRIPT_SIG"

(* verifyTm1DesignatedInput; inputs are counted from one here. *)
AuthorFault(t, author) ==
  LET i == author + 1
      unlock == t.inputs[i].unlock
      signature == unlock.pushes[1].data
      kind == SpentScript(t, i)
  IN  IF i \notin DOMAIN t.inputs THEN "AUTHOR_INPUT_OUT_OF_RANGE"
      ELSE IF kind = "none" THEN "PREVOUT_UNAVAILABLE"
      ELSE IF kind # "p2pkh" THEN "UNSUPPORTED_AUTHOR_SCRIPT"
      ELSE IF ~GoodUnlocking(unlock) THEN "INVALID_AUTHOR_SCRIPT_SIG"
      ELSE IF unlock.pushes[2].data.owner # t.inputs[i].owner THEN "INVALID_AUTHOR_SIGNATURE"
      ELSE IF signature.kind # "sig" \/ signature.hash \notin {"all", "allAnyone"}
           THEN "UNSUPPORTED_SIGHASH"
      ELSE "OK"

-----------------------------------------------------------------------------
(* TM0: the envelope. *)

(* decodeMemo and validateMemo; a TM1 marker has no separators. *)
MemoFault(push) ==
  IF push.data.kind = "lokad" THEN "INVALID_FORMAT"
  ELSE FirstFault([i \in DOMAIN MemoFaults |->
                     Fault(MemoFaults[i], MemoFaults[i] \in push.data.faults)]
                  \o << Fault("UNKNOWN_PROFILE", push.data.profile \notin Profiles),
                        Fault("EMPTY_PAYLOAD", "EMPTY_PAYLOAD" \in push.data.faults),
                        Fault("PAYLOAD_TOO_LARGE", push.size > MaxMemo) >>)

-----------------------------------------------------------------------------
(* The verdict. *)

(* What a result of the verifier carries, Null where its status has none.  *)
(* `context' is what TM0 was judged by, `author' the two pushes of the     *)
(* designated input.                                                       *)
Verdict(status, code) ==
  [status |-> status, code |-> code, candidates |-> {}, memo |-> Null, input |-> Null,
   address |-> Null, context |-> Null, author |-> Null]

Tm1Location(o) == [protocol |-> "TM1", output |-> o]
Tm0Location(c) == [protocol |-> "TM0", output |-> c[1], push |-> c[2]]

(* verifyTm1Candidate *)
VerifyTm1(t, output) ==
  LET script == t.outputs[output]
      parsed == ParsedPost(script)
      found(verdict) == [verdict EXCEPT !.candidates = {Tm1Location(output)}]
  IN  IF ParseTm1(script) # "OK" THEN found(Verdict("INVALID_TM1", ParseTm1(script)))
      ELSE IF AuthorFault(t, parsed.author) # "OK"
           THEN found(Verdict("INVALID_TM1", AuthorFault(t, parsed.author)))
      ELSE [found(Verdict("VERIFIED_TM1", "OK")) EXCEPT
              !.memo = [version |-> 1, event |-> "POST", profile |-> Null,
                        payload |-> parsed.eventData, byteLength |-> parsed.bytes.size],
              !.input = parsed.author + 1,
              !.address = Address(t, parsed.author + 1),
              !.author = t.inputs[parsed.author + 1].unlock.pushes]

(* What becomes of INVALID_HEIGHT: it is rethrown if the height is that of *)
(* the transaction's block, and told if it is the caller's tip.            *)
HeightFault(context) ==
  IF context.confirmed THEN "thrown" ELSE "INVALID_VERIFICATION_CONTEXT"

(* evaluateAuthorization: every input is asked, the first one that may     *)
(* publish is the author; without inputs to ask the height is probed.      *)
EvaluateAuthorization(t, profile, context) ==
  LET allowed == {i \in DOMAIN t.inputs :
                    /\ Address(t, i) # Null
                    /\ Authorize(profile, Address(t, i), context) = "OK"}
      first == CHOOSE i \in allowed : \A j \in allowed : i <= j
  IN  IF InvalidHeight(context)
      THEN Verdict(HeightFault(context), "INVALID_HEIGHT")
      ELSE IF allowed = {}
      THEN [Verdict("UNAUTHORIZED", "OK") EXCEPT !.context = context]
      ELSE [Verdict("VERIFIED", "OK") EXCEPT
              !.context = context, !.input = first, !.address = Address(t, first)]

(* Mutant: the tip is used whether or not the transaction is in a block. *)
ContextAtTip(at, known) == IF known = NoTip THEN Null ELSE Context(FALSE, known)

(* The authorization context, when there is one.                           *)
ContextOf(at, known) ==
  IF at # Mempool THEN Context(TRUE, at)
  ELSE IF known # NoTip THEN Context(FALSE, known)
  ELSE Null

(* verifyTm0Candidate; what a TM0 memo says is not told apart.             *)
VerifyTm0(t, candidate, at, known) ==
  LET push == t.outputs[candidate[1]].pushes[candidate[2]]
      found(verdict) == [verdict EXCEPT !.candidates = {Tm0Location(candidate)}]
      decoded(verdict) ==
        [found(verdict) EXCEPT
           !.memo = [version |-> 0, event |-> "event", profile |-> push.data.profile,
                     payload |-> [text |-> "memo", size |-> push.size],
                     byteLength |-> push.size]]
  IN  IF MemoFault(push) # "OK" THEN found(Verdict("INVALID_MEMO", MemoFault(push)))
      ELSE IF ~Resolves(registry, push.data.profile)
           THEN Verdict("thrown", "PROFILE_NOT_FOUND")
      ELSE IF ContextOf(at, known) = Null THEN decoded(Verdict("MEMPOOL_TIP_REQUIRED", "OK"))
      ELSE decoded(EvaluateAuthorization(t, registry.profiles[push.data.profile],
                                         ContextOf(at, known)))

(* verifyNormalizedTransaction *)
Verify(t, at, known) ==
  IF CandidateCount(t) = 0 THEN Verdict("NO_MEMO", "OK")
  ELSE IF CandidateCount(t) > 1
       THEN [Verdict("MULTIPLE_MEMOS", "OK") EXCEPT
               !.candidates = {Tm1Location(o) : o \in Tm1Candidates(t)}
                              \cup {Tm0Location(c) : c \in Tm0Candidates(t)}]
  ELSE IF Tm1Candidates(t) # {} THEN VerifyTm1(t, CHOOSE o \in Tm1Candidates(t) : TRUE)
  ELSE VerifyTm0(t, CHOOSE c \in Tm0Candidates(t) : TRUE, at, known)

-----------------------------------------------------------------------------
(* What is stored (engine/mapper.ts): the columns of verification_records. *)
(* The decisions on the single inputs and the times are left out.          *)

EmptyRecord(status, protocol) ==
  [status |-> status, protocol |-> protocol, version |-> Null, event |-> Null,
   profile |-> Null, payload |-> Null, byteLength |-> Null, output |-> Null, push |-> Null,
   address |-> Null, input |-> Null, height |-> Null, context |-> Null,
   diagnostics |-> << >>, token |-> Null, ownership |-> Null]

(* Nothing is stored yet, or nothing durable is said. *)
NoRecord == [status |-> "none"]

Location(verdict) == CHOOSE c \in verdict.candidates : TRUE

(* The columns that hold the memo, its author and its place.               *)
(* Mutant: the length is that of the decoded text. *)
WithMemoDecoded(columns, verdict) ==
  [columns EXCEPT
     !.version = verdict.memo.version, !.event = verdict.memo.event,
     !.profile = verdict.memo.profile, !.payload = verdict.memo.payload,
     !.byteLength = verdict.memo.payload.size, !.output = Location(verdict).output,
     !.address = verdict.address, !.input = verdict.input]

WithMemo(columns, verdict) ==
  [columns EXCEPT
     !.version = verdict.memo.version, !.event = verdict.memo.event,
     !.profile = verdict.memo.profile, !.payload = verdict.memo.payload,
     !.byteLength = verdict.memo.byteLength, !.output = Location(verdict).output,
     !.address = verdict.address, !.input = verdict.input]

(* What is kept of the author's input, and of an attached NFT.             *)
Diagnostics(author) ==
  [publicKeyHex |-> author[2], publicKeyHashHex |-> author[2].data.owner,
   signatureWithHashTypeHex |-> author[1], sighashByte |-> author[1].data.hash,
   trustModel |-> "trusted-chronik"]

(* What an object with further fields is made of: { ...fields, ...more }.   *)
Joined(fields, more) ==
  [f \in DOMAIN fields \cup DOMAIN more |->
     IF f \in DOMAIN more THEN more[f] ELSE fields[f]]

(* parseTm1Attachment: the text starts with a directive.                   *)
AttachedToken(payload) == IF payload.text = "nft" THEN "token" ELSE Null

MappedTm1(verdict, ownership) ==
  LET stored == [WithMemo(EmptyRecord("VERIFIED", "TM1"), verdict) EXCEPT
                   !.diagnostics = Diagnostics(verdict.author)]
  IN  IF AttachedToken(verdict.memo.payload) = Null THEN stored
      ELSE [stored EXCEPT
              !.token = AttachedToken(verdict.memo.payload), !.ownership = ownership,
              !.diagnostics = Joined(@, [attachment |-> ownership])]

MappedTm0(verdict) ==
  [WithMemo(EmptyRecord(verdict.status, "TM0"), verdict) EXCEPT
     !.push = Location(verdict).push,
     !.height = EvaluationHeight(verdict.context), !.context = verdict.context]

MappedInvalid(verdict, protocol) ==
  [EmptyRecord("INVALID_MEMO", protocol) EXCEPT
     !.output = Location(verdict).output,
     !.push = IF protocol = "TM0" THEN Location(verdict).push ELSE Null]

(* Mutant: a malformed TM1 memo is not stored. *)
MappedButMalformed(verdict, ownership) ==
  CASE verdict.status = "VERIFIED_TM1" -> MappedTm1(verdict, ownership)
    [] verdict.status = "INVALID_MEMO" -> MappedInvalid(verdict, "TM0")
    [] verdict.status \in {"VERIFIED", "UNAUTHORIZED"} -> MappedTm0(verdict)
    [] verdict.status \in {"NO_MEMO", "MULTIPLE_MEMOS"} -> EmptyRecord(verdict.status, "TM0")
    [] OTHER -> NoRecord

(* mapVerificationResult, with the evidence for an attached NFT.           *)
Mapped(verdict, ownership) ==
  CASE verdict.status = "VERIFIED_TM1" -> MappedTm1(verdict, ownership)
    [] verdict.status = "INVALID_TM1" -> MappedInvalid(verdict, "TM1")
    [] verdict.status = "INVALID_MEMO" -> MappedInvalid(verdict, "TM0")
    [] verdict.status \in {"VERIFIED", "UNAUTHORIZED"} -> MappedTm0(verdict)
    [] verdict.status \in {"NO_MEMO", "MULTIPLE_MEMOS"} -> EmptyRecord(verdict.status, "TM0")
    [] OTHER -> NoRecord

-----------------------------------------------------------------------------

(* A registry that does not parse stops the process. *)
Init ==
  /\ registry \in {doc \in Documents : RegistryFault(doc) = "OK"}
  /\ tx = NoTx /\ post = NoPost /\ place = Mempool
  /\ tip = 0 /\ seen = NoTip
  /\ row = NoRow /\ record = NoRecord

(* An author has a post encoded and broadcasts it, or is refused. *)
Publish ==
  /\ tx = NoTx /\ post = NoPost
  /\ \E p \in Posts, inputs \in Wallets :
       /\ post' = p
       /\ tx' = IF EncodeTm1(p) = "OK"
                THEN [coinbase |-> FALSE, inputs |-> inputs, outputs |-> << EncodedScript(p) >>]
                ELSE NoTx
  /\ UNCHANGED << registry, place, tip, seen, row, record >>

(* Anyone broadcasts anything. *)
Broadcast ==
  /\ tx = NoTx /\ post = NoPost
  /\ tx' \in Foreign
  /\ UNCHANGED << registry, post, place, tip, seen, row, record >>

(* A block, with or without the transaction. *)
Connect ==
  /\ tip < MaxSafe
  /\ tip' = tip + 1
  /\ place' \in (IF tx # NoTx /\ place = Mempool THEN {place, tip + 1} ELSE {place})
  /\ UNCHANGED << registry, tx, post, seen, row, record >>

(* The last block leaves the chain. *)
Disconnect ==
  /\ tip > 0
  /\ tip' = tip - 1
  /\ place' = IF place = tip THEN Mempool ELSE place
  /\ UNCHANGED << registry, tx, post, seen, row, record >>

(* The next call comes with the height of the tip, or without. *)
ReadTip ==
  /\ seen' \in {tip, NoTip}
  /\ UNCHANGED << registry, tx, post, place, tip, row, record >>

(* verifyTransaction and what indexTransaction stores of its answer.  The  *)
(* row is stored with every answer, the verification if it is durable; a   *)
(* call that Chronik does not answer changes neither.  Evidence that an    *)
(* NFT is the author's is not given up again (see IndexEngine).            *)
Ownerships == {"VERIFIED_AT_INDEXING", "UNVERIFIED"}

IndexTransaction ==
  /\ tx # NoTx
  /\ \E observed \in Ownerships :
       LET verdict == Verify(tx, place, seen)
           held == record # NoRecord /\ record.ownership = "VERIFIED_AT_INDEXING"
           mapped == Mapped(verdict, IF held THEN record.ownership ELSE observed)
       IN  /\ row' = IF verdict.status = "thrown" THEN row ELSE place
           /\ record' = IF mapped = NoRecord THEN record ELSE mapped
  /\ UNCHANGED << registry, tx, post, place, tip, seen >>

Next ==
  \/ Publish \/ Broadcast
  \/ Connect \/ Disconnect \/ ReadTip
  \/ IndexTransaction

Spec == Init /\ [][Next]_vars

-----------------------------------------------------------------------------
(* Properties. *)

(* The heights a listing is for, as the registry writes them.              *)
Window(listing) ==
  {h \in Heights : /\ listing.from # NoBound => listing.from <= h
                   /\ listing.until # NoBound => h <= listing.until}

SpenderAddresses == {Address(tx, i) : i \in DOMAIN tx.inputs} \ {Null}

(* The profiles of the TM0 envelopes of the transaction. *)
NamedProfiles ==
  {tx.outputs[c[1]].pushes[c[2]].data.profile : c \in Tm0Candidates(tx)}

MayPublish(address, code, height) ==
  \E i \in DOMAIN registry.profiles[code].addresses :
     LET listing == registry.profiles[code].addresses[i]
     IN  listing.address = address /\ height \in Window(listing)

(* The verdict on a transaction in the mempool with a current tip is the   *)
(* one it gets when the next block contains it (evaluationHeightFor).      *)
ForecastHolds ==
  tx # NoTx /\ place = Mempool /\ tip < MaxSafe =>
    LET now == Verify(tx, Mempool, tip)
        mined == Verify(tx, tip + 1, NoTip)
    IN  now.status = mined.status /\ now.address = mined.address /\ now.memo = mined.memo

(* A stored TM0 memo is VERIFIED exactly if one of the addresses it spends *)
(* from is listed for its profile in a window that contains the height it  *)
(* was judged at, and that height is the one of its block, or of the next  *)
(* block as long as it has none (authorize.ts, verify-normalized.ts).      *)
WindowExact ==
  /\ record # NoRecord /\ record.height # Null =>
       LET height == record.height
       IN  \A code \in NamedProfiles :
             IF record.status = "VERIFIED"
             THEN record.address \in SpenderAddresses /\ MayPublish(record.address, code, height)
             ELSE \A address \in SpenderAddresses : ~MayPublish(address, code, height)
  /\ ForecastHolds

(* A transaction in a block always gets a durable verification, with any   *)
(* tip or none; in the mempool it does with a tip that is not the last     *)
(* safe integer.  Backfill and LiveSync rest on this.                      *)
AlwaysDurable ==
  tx # NoTx /\ (place # Mempool \/ seen \in 0 .. MaxSafe - 1) =>
    Mapped(Verify(tx, place, seen), "UNVERIFIED") # NoRecord

(* As long as the stored row names the block the transaction is in, a      *)
(* further call changes neither the row nor a verification made for it,    *)
(* but for evidence about an attached NFT, which it may gain.              *)
Settled(old, new) ==
  \/ new = old
  \/ /\ old # NoRecord /\ old.ownership = "UNVERIFIED"
     /\ new = [old EXCEPT !.ownership = "VERIFIED_AT_INDEXING",
                          !.diagnostics.attachment = "VERIFIED_AT_INDEXING"]

SettledInBlock ==
  [][IndexTransaction /\ place # Mempool /\ row = place =>
       row' = row /\ Settled(record, record')]_vars

(* A post is published exactly if its author index is a byte and its text  *)
(* 1 .. MaxEventData bytes of UTF-8 without byte order mark, and whoever   *)
(* verifies it, at any height, finds that text and that author             *)
(* (encodeTm1Post, parseTm1Output).                                        *)
PublishedVerifies ==
  post # NoPost =>
    IF /\ post.author \in 0 .. 255
       /\ post.data.text \in {"plain", "nft"} /\ post.data.size \in 1 .. MaxEventData
    THEN /\ tx # NoTx
         /\ LET verdict == Verify(tx, place, seen)
            IN  AuthorFault(tx, post.author) = "OK" =>
                  /\ verdict.status = "VERIFIED_TM1" /\ verdict.memo.payload = post.data
                  /\ verdict.address = tx.inputs[post.author + 1].owner
    ELSE tx = NoTx

VerifiedTm1 == record # NoRecord /\ record.status = "VERIFIED" /\ record.protocol = "TM1"

(* A verified TM1 memo is the only memo of its transaction, its script is  *)
(* the one the encoder makes of its content, except that a leading byte    *)
(* order mark is not encoded, and it fits the limit (tm1-spec.md 3.3, 4).  *)
AcceptedIsCanonical ==
  VerifiedTm1 =>
    LET output == CHOOSE o \in Tm1Candidates(tx) : TRUE
        script == tx.outputs[output]
        content == [author |-> ParsedPost(script).author, data |-> ParsedPost(script).bytes]
    IN  /\ Cardinality(Tm1Candidates(tx)) = 1
        /\ \A o \in DOMAIN tx.outputs \ {output} :
             \A k \in DOMAIN ParsedPushes(tx.outputs[o]) : ~IsTonalli(tx.outputs[o].pushes[k])
        /\ script = EncodedScript(content)
        /\ ScriptBytes(script) <= MaxScript
        /\ EncodeTm1(content) = "OK" \/ content.data.text \in Marked

(* The stored author of a verified TM1 memo spends an output of its own,   *)
(* with its own key and a signature over all outputs, at the input the     *)
(* memo designates (verifyTm1DesignatedInput).                             *)
AuthorSigned ==
  VerifiedTm1 =>
    \E o \in Tm1Candidates(tx) :
      LET spent == tx.inputs[ParsedPost(tx.outputs[o]).author + 1]
      IN  /\ ~tx.coinbase /\ spent.script = "p2pkh" /\ spent.owner = record.address
          /\ spent.unlock.pushes[1].data \in [kind : {"sig"}, hash : {"all", "allAnyone"}]
          /\ SecKey(spent.unlock.pushes[2]) /\ spent.unlock.pushes[2].data.owner = record.address

(* tm1-spec.md:171 says that "stored and re-exposed protocol bytes MUST    *)
(* remain unchanged".  The text the record holds is not the one that was   *)
(* published when that starts with a byte order mark.                      *)
StoredBytesUnchanged ==
  VerifiedTm1 =>
    \E o \in Tm1Candidates(tx) : record.payload = ParsedPost(tx.outputs[o]).bytes
=============================================================================
