------------------------------ MODULE Tm1Script ------------------------------
(***************************************************************************)
(* TM1 output scripts: the parser (packages/protocol/src/parse-tm1.ts) and *)
(* the encoder (packages/protocol/src/encode-tm1.ts).                      *)
(*                                                                         *)
(* A script is OP_RETURN followed by data pushes; `tail' says what ends it *)
(* ("end": nothing, "constant": an opcode that pushes no bytes of its own, *)
(* "broken": a push that declares more bytes than there are).  A push has  *)
(* the form of its opcode, the number of its bytes and what they are:      *)
(*   lokad   the TM1 marker                                                *)
(*   post    version, event type, author index and a text                  *)
(*   memo    any other bytes that start with those of "TM", a TM0          *)
(*           envelope or not one (see MemoVerification)                    *)
(*   junk    anything else; sig and key occur in input scripts only        *)
(* A text is "plain", "nft" (it starts with an attachment directive),      *)
(* "bom" or "bomnft" (these two behind a byte order mark) or "invalid"     *)
(* (not UTF-8).                                                            *)
(***************************************************************************)
EXTENDS Checks

CONSTANTS
  MaxScript,    \* MAX_TM1_SCRIPT_BYTES
  MaxEnvelope,  \* MAX_TM1_ENVELOPE_BYTES
  MaxEventData  \* MAX_TM1_EVENT_DATA_BYTES

ASSUME LimitsAssumption ==
  /\ MaxScript \in Nat /\ MaxEnvelope \in Nat /\ MaxEventData \in Nat
  /\ 3 + MaxEventData <= MaxEnvelope /\ MaxEnvelope <= 255 /\ 8 + MaxEnvelope <= MaxScript

Lokad == [kind |-> "lokad"]
Post(version, event, author, text) ==
  [kind |-> "post", version |-> version, event |-> event, author |-> author, text |-> text]

Marked == {"bom", "bomnft"}
Texts == {"plain", "nft", "invalid"} \cup Marked

(* Not the version and the event type whose bytes are "TM". *)
PostData ==
  {post \in [kind : {"post"}, version : 0 .. 255, event : 0 .. 255, author : 0 .. 255,
             text : Texts] : << post.version, post.event >> # << 84, 77 >>}

(* Its length is told in the opcode, or in that many bytes after it; no     *)
(* transaction is as long as four of them could tell.                       *)
Fits(push) ==
  CASE push.form = "direct" -> push.size <= 75 [] push.form = "one" -> push.size <= 255
    [] push.form = "two" -> push.size <= 65535 [] push.form = "four" -> TRUE

Pushes(data) ==
  {push \in [form : {"direct", "one", "two", "four"}, size : Nat, data : data] : Fits(push)}

PushOf(form, size, data) == [form |-> form, size |-> size, data |-> data]
NoPush == PushOf("direct", 0, [kind |-> "none"])

Nth(s, k) == IF k \in DOMAIN s.pushes THEN s.pushes[k] ELSE NoPush

(* Bytes before the data of a push. *)
HeaderLength(form) ==
  CASE form = "direct" -> 1 [] form = "one" -> 2 [] form = "two" -> 3 [] form = "four" -> 5

(* Mutant: OP_PUSHDATA1 is minimal for any length. *)
MinimalInOneByte(push) ==
  push.size >= (CASE push.form = "direct" -> 1 [] push.form = "one" -> 1
                  [] push.form = "two" -> 256 [] push.form = "four" -> 65536)

(* The shortest push that its opcode is needed for. *)
Minimal(push) ==
  push.size >= (CASE push.form = "direct" -> 1 [] push.form = "one" -> 76
                  [] push.form = "two" -> 256 [] push.form = "four" -> 65536)

PushBytes(push) == HeaderLength(push.form) + push.size

ScriptBytes(s) ==
  LET Upto[k \in 0 .. Len(s.pushes)] ==
        IF k = 0 THEN 1 ELSE Upto[k - 1] + PushBytes(s.pushes[k])
  IN  Upto[Len(s.pushes)] + (IF s.tail = "end" THEN 0 ELSE 1)

(* isTm1CandidateScript: only the first push decides. *)
IsTm1Candidate(s) == s.opReturn /\ Nth(s, 1).data = Lokad

(* parseTm1Output. *)
ParseTm1(s) ==
  LET marker == Nth(s, 1)
      envelope == Nth(s, 2)
      data == envelope.data
      isPost == data.kind = "post"
  IN  FirstFault(<<
        Fault("INVALID_MARKER", ~IsTm1Candidate(s)),
        Fault("INVALID_FORMAT", ~Minimal(marker) \/ s.value # 0),
        Fault("PAYLOAD_TOO_LARGE", ScriptBytes(s) > MaxScript),
        Fault("INVALID_FORMAT", Len(s.pushes) < 2 \/ ~Minimal(envelope)),
        Fault("INVALID_FORMAT", Len(s.pushes) > 2 \/ s.tail # "end" \/ envelope.size < 3),
        Fault("EMPTY_EVENT_DATA", envelope.size = 3),
        Fault("PAYLOAD_TOO_LARGE", envelope.size > MaxEnvelope),
        Fault("UNSUPPORTED_VERSION", ~isPost \/ data.version # 1),
        Fault("UNSUPPORTED_EVENT_TYPE", isPost /\ data.event # 1),
        Fault("PAYLOAD_TOO_LARGE", envelope.size - 3 > MaxEventData),
        Fault("INVALID_UTF8", isPost /\ data.text = "invalid") >>)

(* TextDecoder without ignoreBOM: the byte order mark is not returned.    *)
Decoded(text, size) ==
  IF text \in Marked
  THEN [text |-> IF text = "bomnft" THEN "nft" ELSE "plain", size |-> size - 3]
  ELSE [text |-> text, size |-> size]

(* What the parser returns for an accepted script. *)
ParsedPost(s) ==
  LET envelope == Nth(s, 2)
  IN  [author |-> envelope.data.author,
       eventData |-> Decoded(envelope.data.text, envelope.size - 3),
       bytes |-> [text |-> envelope.data.text, size |-> envelope.size - 3]]

(* Mutant: OP_PUSHDATA1 comes one byte early. *)
MinimalPushEarly(size, data) == PushOf(IF size <= 74 THEN "direct" ELSE "one", size, data)

(* encodeMinimalPush; EncodeTm1 lets no more than 255 bytes get here. *)
MinimalPush(size, data) == PushOf(IF size <= 75 THEN "direct" ELSE "one", size, data)

(* The script encodeTm1Post builds; a post has an author and event data.  *)
EncodedScript(post) ==
  [opReturn |-> TRUE, value |-> 0, tail |-> "end",
   pushes |-> << MinimalPush(4, Lokad),
                 MinimalPush(3 + post.data.size, Post(1, 1, post.author, post.data.text)) >>]

(* encodeTm1Post, with the parser run on the result at its end; the text  *)
(* has to survive being decoded and encoded again.                        *)
EncodeTm1(post) ==
  FirstFault(<<
    Fault("INVALID_FORMAT", post.author \notin 0 .. 255),
    Fault("INVALID_UTF8", post.data.text = "invalid"
                          \/ Decoded(post.data.text, post.data.size) # post.data),
    Fault("EMPTY_EVENT_DATA", post.data.size = 0),
    Fault("PAYLOAD_TOO_LARGE", post.data.size > MaxEventData),
    Fault("PAYLOAD_TOO_LARGE", 3 + post.data.size > MaxEnvelope),
    Fault("PAYLOAD_TOO_LARGE", ScriptBytes(EncodedScript(post)) > MaxScript),
    Fault("INVALID_FORMAT", ParseTm1(EncodedScript(post)) # "OK"
                            \/ ParsedPost(EncodedScript(post)).author # post.author
                            \/ ParsedPost(EncodedScript(post)).eventData # post.data) >>)
=============================================================================
