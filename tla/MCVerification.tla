--------------------------- MODULE MCVerification ---------------------------
(* Scripts at every limit, inputs and registries with each kind of defect. *)
EXTENDS PublicRecord

MCProfileCodes == << "xa", "ty" >>
A == "a"
B == "b"

KeyOf(owner, size, prefix) ==
  PushOf("direct", size, [kind |-> "key", owner |-> owner, prefix |-> prefix])
Key(owner) == KeyOf(owner, 33, "02")
Signature(form, size, hash) == PushOf(form, size, [kind |-> "sig", hash |-> hash])
Unlock(pushes, tail) == [pushes |-> pushes, tail |-> tail]
Input(script, owner, unlock) == [script |-> script, owner |-> owner, unlock |-> unlock]

Spends(owner) == Input("p2pkh", owner, Unlock(<< Signature("direct", 65, "all"), Key(owner) >>, "end"))

GoodInputs ==
  { Spends(A), Spends(B),
    Input("p2pkh", A, Unlock(<< Signature("one", 76, "allAnyone"), KeyOf(A, 65, "04") >>, "end")) }

BadInputs ==
  { Input("none", A, Unlock(<< >>, "end")),
    Input("odd", A, Unlock(<< >>, "end")),
    Input("p2sh", A, Unlock(<< Signature("direct", 65, "all"), Key(A) >>, "end")),
    Input("p2pkh", A, Unlock(<< Signature("direct", 65, "all"), Key(B) >>, "end")),
    Input("p2pkh", A, Unlock(<< Signature("direct", 65, "none"), Key(A) >>, "end")),
    Input("p2pkh", A, Unlock(<< Signature("one", 65, "all"), Key(A) >>, "end")),
    Input("p2pkh", A, Unlock(<< Signature("direct", 1, "all"), Key(A) >>, "end")),
    Input("p2pkh", A, Unlock(<< Signature("direct", 65, "all"), Key(A), Key(A) >>, "end")),
    Input("p2pkh", A, Unlock(<< Signature("direct", 65, "all"), Key(A) >>, "broken")),
    Input("p2pkh", A, Unlock(<< Signature("direct", 65, "all"), KeyOf(A, 65, "06") >>, "end")),
    Input("p2pkh", A, Unlock(<< Key(A), Key(A) >>, "end")) }

Script(value, pushes, tail) ==
  [opReturn |-> TRUE, value |-> value, pushes |-> pushes, tail |-> tail]
Marker == PushOf("direct", 4, Lokad)
Envelope(form, size, version, event, author, text) ==
  PushOf(form, size, Post(version, event, author, text))
MarkedBy(envelope) == Script(0, << Marker, envelope >>, "end")
Good == Envelope("direct", 8, 1, 1, 0, "plain")
Junk(size) == PushOf("direct", size, [kind |-> "junk"])
Memo(size, faults, profile) ==
  PushOf(IF size <= 75 THEN "direct" ELSE "one", size, [kind |-> "memo", faults |-> faults, profile |-> profile])
Tm0(memo) == Script(0, << memo >>, "end")
Payment == [opReturn |-> FALSE, value |-> 1, pushes |-> << >>, tail |-> "end"]

Tm1Scripts ==
  { MarkedBy(Good), Script(1, << Marker, Good >>, "end"), Script(0, << Marker, Good, Junk(1) >>, "end"),
    Script(0, << Marker, Good >>, "broken"), Script(0, << Marker, Good >>, "constant"),
    Script(0, << Marker >>, "end"), Script(0, << Marker >>, "broken"),
    Script(0, << PushOf("one", 4, Lokad), Good >>, "end"), Script(0, << Good, Marker >>, "end"),
    MarkedBy(Junk(8)), MarkedBy(Junk(2)), MarkedBy(Marker) } \cup
  { MarkedBy(Envelope(form, size, 1, 1, 0, "plain")) :
      form \in {"one", "two"}, size \in {3, 4, 75, 76, 214, 215, 216} } \cup
  { MarkedBy(Envelope("direct", size, version, event, author, text)) :
      size \in {3, 6, 75}, version \in {1, 2}, event \in {1, 2}, author \in {0, 1},
      text \in {"plain", "bom", "invalid"} } \cup
  { MarkedBy(Envelope("direct", 75, 1, 1, author, text)) :
      author \in {0, 1}, text \in {"nft", "bomnft"} }

Tm0Scripts ==
  { Tm0(Memo(size, faults, profile)) :
      size \in {20, 80, 81}, faults \in {{}, {"INVALID_UTF8"}, {"RESERVED_TYPE", "EMPTY_PAYLOAD"}},
      profile \in {"xa", "ty", "zz"} } \cup
  { Script(0, << Memo(20, {}, "xa") >>, "broken"), Script(0, << Memo(20, {}, "xa") >>, "constant"),
    Script(0, << Memo(20, {}, "xa"), Memo(20, {}, "xa") >>, "end"), Tm0(Junk(5)) }

Transaction(coinbase, inputs, outputs) ==
  [coinbase |-> coinbase, inputs |-> inputs, outputs |-> outputs]

MCForeign ==
  { Transaction(FALSE, << Spends(A) >>, << Payment, script >>) : script \in Tm1Scripts \cup Tm0Scripts } \cup
  { Transaction(FALSE, << bad, Spends(B) >>, << script >>) :
      bad \in BadInputs \cup {Spends(A)}, script \in {MarkedBy(Good), Tm0(Memo(20, {}, "xa"))} } \cup
  { Transaction(TRUE, << Spends(A) >>, << script >>) :
      script \in {MarkedBy(Good), Tm0(Memo(20, {}, "xa"))} } \cup
  { Transaction(FALSE, << Spends(A) >>, << MarkedBy(Good), other >>) :
      other \in {MarkedBy(Good), Tm0(Memo(20, {}, "xa")), Script(0, << Junk(5), Marker >>, "end")} } \cup
  { Transaction(FALSE, << >>, << Tm0(Memo(20, {}, "xa")) >>) }

MCPosts ==
  [author : {0, 1, 256}, data : [text : {"plain"}, size : {0, 1, 72, 73, 212, 213}]] \cup
  [author : {0}, data : [text : {"bom", "invalid"}, size : {5}]] \cup
  [author : {0, 1}, data : [text : {"nft"}, size : {71}]]

MCWallets == {<< good >> : good \in GoodInputs} \cup {<< Spends(A), Spends(B) >>}

Listing(address, from, until) ==
  [address |-> address, canonical |-> TRUE, from |-> from, until |-> until]
Entry(code, alias, addresses) ==
  [code |-> code, alias |-> alias, named |-> TRUE, addresses |-> addresses]
Document(profiles) ==
  [schemaVersion |-> 1, network |-> "ecash-mainnet", profiles |-> profiles]
Both(xa, ty) ==
  [c \in {"xa", "ty"} |-> Entry(c, c, IF c = "xa" THEN xa ELSE ty)]

MCDocuments ==
  { Document(Both(<< Listing(A, from, until) >>, << Listing(B, NoBound, NoBound) >>)) :
      from \in {NoBound, 2}, until \in {1, 2} } \cup
  { Document(Both(<< Listing(A, 0, 1), Listing(again, 1, NoBound) >>, << >>)) : again \in {A, B} } \cup
  { Document(Both(<< >>, << >>)),
    Document(Both(<< Listing(A, NoBound, MaxSafe + 1) >>, << >>)),
    Document(Both(<< [Listing(A, 0, 1) EXCEPT !.canonical = FALSE] >>, << >>)),
    Document([c \in {"xa"} |-> Entry(c, c, << >>)]),
    Document([c \in {"xa", "ty", "zz"} |-> Entry(c, c, << >>)]),
    Document([c \in {"xa", "ty"} |-> Entry("xa", c, << >>)]),
    Document([c \in {"xa", "ty"} |-> Entry(c, "ty", << >>)]) }
=============================================================================
