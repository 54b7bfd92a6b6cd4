-------------------------- MODULE IndexEngineProofs --------------------------
(***************************************************************************)
(* The properties of the engine, for every number of calls, every length   *)
(* of time and every history of the transaction on the chain.              *)
(***************************************************************************)
EXTENDS IndexEngine, TLAPS

Stages == {"idle", "transaction", "found", "missing", "utxos", "done"}

Call == [at : Stages, seen : 0 .. MaxVersion, startedAt : 0 .. MaxTime,
         prior : Record \cup {NoRow}]

TypeOK ==
  /\ now \in 0 .. MaxTime
  /\ chain \in [version : 0 .. MaxVersion, found : BOOLEAN]
  /\ owned \in BOOLEAN
  /\ call \in [Calls -> Call]
  /\ row \in 0 .. MaxVersion \cup {NoRow}
  /\ record \in Record \cup {NoRow}

(* A positive observation was true in its second or a later one.           *)
Real(attachment) == Positive(attachment) => \E s \in heldAt : s >= attachment.checkedAt

Evidence ==
  /\ owned => now \in heldAt
  /\ record # NoRow => Real(record.attachment)
  /\ \A c \in Calls : /\ call[c].prior # NoRow => Real(call[c].prior.attachment)
                      /\ call[c].startedAt <= now

Running(c) == call[c].at \notin {"idle", "done"}

(* Queued calls run one at a time, so nothing a call has read is out of    *)
(* date when it writes.                                                    *)
OneAtATime == queued => \A c, d \in Calls : Running(c) /\ Running(d) => c = d

Current ==
  queued => \A c \in Calls :
    /\ call[c].at = "utxos" => call[c].prior = record
    /\ call[c].at \in {"found", "utxos"} => row = NoRow \/ row <= call[c].seen

RowIsPast == row # NoRow => row <= chain.version

Seen == \A c \in Calls : call[c].seen <= chain.version

IInv ==
  /\ Seen
  /\ TypeOK /\ Evidence /\ OneAtATime /\ Current /\ RowIsPast /\ DiagnosticsAgree

LEMMA Initially == Init => IInv
  BY EngineAssumption
     DEF EngineAssumption, Init, Idle, IInv, Seen, TypeOK, Call, Stages, Evidence, OneAtATime, Running,
         Current, RowIsPast, DiagnosticsAgree

-----------------------------------------------------------------------------
(* What the engine writes about the NFT (checkAttachment with the earlier  *)
(* record, then upsertVerificationRecord).                                 *)
LEMMA AttachmentIsReal ==
  ASSUME IInv, NEW c \in Calls, NEW observed \in Statuses,
         observed = "VERIFIED_AT_INDEXING" => owned
  PROVE  Attachment(c, observed) \in Ownership /\ Real(Attachment(c, observed))
<1> USE DEF IInv
<1>1. call[c] \in Call
  BY DEF TypeOK
<1>2. CASE call[c].prior # NoRow /\ Positive(call[c].prior.attachment)
  <2>1. Attachment(c, observed) = call[c].prior.attachment
    BY <1>2 DEF Attachment
  <2>2. call[c].prior \in Record
    BY <1>1, <1>2 DEF Call
  <2>3. QED
    BY <1>2, <2>1, <2>2 DEF Record, Evidence
<1>3. CASE ~(call[c].prior # NoRow /\ Positive(call[c].prior.attachment))
  <2>1. Attachment(c, observed) = [status |-> observed, checkedAt |-> call[c].startedAt]
    BY <1>3 DEF Attachment
  <2>2. call[c].startedAt \in 0 .. MaxTime
    BY <1>1 DEF Call
  <2>3. Attachment(c, observed) \in Ownership
    BY <2>1, <2>2 DEF Ownership
  <2>4. Positive(Attachment(c, observed)) => now \in heldAt /\ now >= call[c].startedAt
    BY <2>1, <2>2 DEF Positive, Evidence, TypeOK
  <2>5. QED
    BY <2>1, <2>3, <2>4 DEF Real
<1>4. QED
  BY <1>2, <1>3

LEMMA UpsertMerges ==
  ASSUME NEW old \in Record \cup {NoRow}, NEW attachment \in Ownership,
         old # NoRow => old.attachment.status = old.diagnostics.status
  PROVE  LET new == Upserted(old, [attachment |-> attachment, diagnostics |-> attachment])
         IN  /\ new \in Record /\ new # NoRow
             /\ new.attachment \in {attachment} \cup {old.attachment}
             /\ old = NoRow => new.attachment = attachment
             /\ old # NoRow /\ Positive(old.attachment) => new.attachment = old.attachment
             /\ new.attachment.status = new.diagnostics.status
             /\ (old # NoRow /\ Positive(old.attachment) =>
                   old.attachment = old.diagnostics /\ attachment = old.attachment)
                => new.attachment = new.diagnostics
<1> DEFINE written == [attachment |-> attachment, diagnostics |-> attachment]
           new == Upserted(old, written)
<1>1. written \in Record
  BY DEF Record
<1>2. CASE old = NoRow \/ ~Positive(old.attachment)
  <2>1. new = written
    BY <1>2 DEF Upserted
  <2>2. QED
    BY <1>1, <1>2, <2>1, EngineAssumption DEF EngineAssumption
<1>3. CASE old # NoRow /\ Positive(old.attachment)
  <2>1. new = [attachment  |-> old.attachment,
               diagnostics |-> IF Positive(attachment) THEN attachment ELSE old.diagnostics]
    BY <1>3 DEF Upserted
  <2>2. new \in Record
    BY <1>3, <2>1 DEF Record
  <2>3. QED
    BY <1>3, <2>1, <2>2, EngineAssumption DEF EngineAssumption, Positive
<1>4. QED
  BY <1>2, <1>3

-----------------------------------------------------------------------------
(* A step that leaves the store alone.                                     *)
LEMMA ReadKeeps ==
  ASSUME IInv, NEW c \in Calls, NEW to \in Call,
         call' = [call EXCEPT ![c] = to],
         queued => \A d \in Calls : d # c => ~Running(d),
         to.prior = NoRow \/ to.prior = call[c].prior \/ to.prior = record,
         to.startedAt <= now, to.seen <= chain.version,
         to.at = "utxos" => to.prior = record,
         to.at \in {"found", "utxos"} =>
           to.seen = chain.version \/ (call[c].at = "found" /\ to.seen = call[c].seen),
         UNCHANGED <<queued, now, chain, owned, heldAt, row, record>>
  PROVE  IInv'
<1> USE DEF IInv
<1>1. TypeOK'
  BY DEF TypeOK
<1>2. \A d \in Calls : call'[d] = IF d = c THEN to ELSE call[d]
  BY DEF TypeOK
<1>3. Evidence'
  BY <1>2 DEF Evidence, Real
<1>4. OneAtATime'
  BY <1>2 DEF OneAtATime, Running
<1>5. Current'
  <2> SUFFICES ASSUME queued, NEW d \in Calls
               PROVE  /\ call'[d].at = "utxos" => call'[d].prior = record
                      /\ call'[d].at \in {"found", "utxos"} => row = NoRow \/ row <= call'[d].seen
    BY DEF Current
  <2>1. CASE d = c
    BY <1>2, <2>1 DEF Current, RowIsPast
  <2>2. CASE d # c
    BY <1>2, <2>2 DEF Current
  <2>3. QED
    BY <2>1, <2>2
<1>6. RowIsPast' /\ DiagnosticsAgree' /\ Seen'
  BY <1>2 DEF RowIsPast, DiagnosticsAgree, Seen
<1>7. QED
  BY <1>1, <1>3, <1>4, <1>5, <1>6

(* The step that writes a record.                                          *)
LEMMA CheckedKeeps ==
  ASSUME IInv, NEW c \in Calls, Checked(c)
  PROVE  /\ IInv'
         /\ queued /\ row # NoRow => row' >= row
         /\ row' # NoRow /\ record' # NoRow
         /\ record # NoRow /\ Positive(record.attachment) => record'.attachment = record.attachment
<1> USE EngineAssumption DEF EngineAssumption, IInv
<1>1. PICK observed \in Statuses :
        /\ observed = "VERIFIED_AT_INDEXING" => owned
        /\ PersistRecord(c, Attachment(c, observed))
  BY DEF Checked
<1> DEFINE attachment == Attachment(c, observed)
<1>2. /\ call[c].at = "utxos" /\ call[c] \in Call
      /\ call' = [call EXCEPT ![c] = [Idle EXCEPT !.at = "done"]]
      /\ row' = call[c].seen
      /\ record' = Upserted(record, [attachment |-> attachment, diagnostics |-> attachment])
      /\ UNCHANGED <<queued, now, chain, owned, heldAt>>
  BY <1>1 DEF Checked, PersistRecord, TypeOK
<1>3. attachment \in Ownership /\ Real(attachment)
  BY <1>1, AttachmentIsReal
<1>4. record \in Record \cup {NoRow} /\ (record # NoRow => record.attachment.status = record.diagnostics.status)
  BY DEF TypeOK, DiagnosticsAgree
<1>5. /\ record' \in Record /\ record' # NoRow
      /\ record'.attachment \in {attachment} \cup {record.attachment}
      /\ record = NoRow => record'.attachment = attachment
      /\ record # NoRow /\ Positive(record.attachment) => record'.attachment = record.attachment
      /\ record'.attachment.status = record'.diagnostics.status
      /\ (record # NoRow /\ Positive(record.attachment) =>
            record.attachment = record.diagnostics /\ attachment = record.attachment)
         => record'.attachment = record'.diagnostics
  BY <1>2, <1>3, <1>4, UpsertMerges
<1>6. ASSUME queued, record # NoRow, Positive(record.attachment)
      PROVE  record.attachment = record.diagnostics /\ attachment = record.attachment
  <2>1. call[c].prior = record
    BY <1>2, <1>6 DEF Current
  <2>2. QED
    BY <1>6, <2>1 DEF Attachment, DiagnosticsAgree
<1>7. DiagnosticsAgree'
  BY <1>2, <1>5, <1>6 DEF DiagnosticsAgree
<1> DEFINE to == [Idle EXCEPT !.at = "done"]
<1>8. to = [at |-> "done", seen |-> 0, startedAt |-> 0, prior |-> NoRow] /\ to \in Call
  BY DEF Idle, Call, Stages
<1>9. \A d \in Calls : call'[d] = IF d = c THEN to ELSE call[d]
  BY <1>2 DEF TypeOK
<1>10. row' \in 0 .. MaxVersion
  BY <1>2 DEF Call
<1>11. TypeOK'
  BY <1>2, <1>5, <1>8, <1>10 DEF TypeOK
<1>12. Evidence'
  <2>1. Real(record'.attachment)
    <3>1. CASE record # NoRow /\ record'.attachment = record.attachment
      BY <3>1 DEF Evidence
    <3>2. CASE record'.attachment = attachment
      BY <1>3, <3>2
    <3>3. QED
      BY <1>5, <3>1, <3>2
  <2>2. Real(record.attachment)'
    BY <1>2, <2>1 DEF Real
  <2>3. now >= 0
    BY DEF TypeOK
  <2>4. \A d \in Calls : /\ call'[d].prior # NoRow => Real(call'[d].prior.attachment)
                         /\ call'[d].startedAt <= now
    BY <1>8, <1>9, <2>3 DEF Evidence
  <2>5. QED
    BY <1>2, <2>2, <2>4 DEF Evidence, Real
<1>13. OneAtATime'
  BY <1>2, <1>8, <1>9 DEF OneAtATime, Running
<1>14. Current'
  <2> SUFFICES ASSUME queued, NEW d \in Calls, call'[d].at \in {"found", "utxos"}
               PROVE  FALSE
    BY <1>2 DEF Current
  <2>1. d # c /\ Running(d) /\ Running(c)
    BY <1>2, <1>8, <1>9 DEF Running
  <2>2. QED
    BY <2>1 DEF OneAtATime
<1>15. RowIsPast'
  <2>1. call[c].seen <= chain.version
    BY <1>2 DEF Seen
  <2>2. QED
    BY <1>2, <2>1 DEF RowIsPast
<1>16. queued /\ row # NoRow => row' >= row
  BY <1>2, <1>10 DEF Current, TypeOK
<1>17. Seen'
  BY <1>2, <1>8, <1>9 DEF Seen, TypeOK
<1>18. QED
  BY <1>5, <1>7, <1>10, <1>11, <1>12, <1>13, <1>14, <1>15, <1>16, <1>17

(* The world moves; the calls and the store stay.                          *)
LEMMA WorldKeeps ==
  ASSUME IInv, Tick \/ Move \/ Transfer
  PROVE  IInv'
<1> USE EngineAssumption DEF EngineAssumption, IInv
<1>1. UNCHANGED <<queued, call, row, record>>
  BY DEF Tick, Move, Transfer
<1>2. /\ now' \in 0 .. MaxTime /\ now <= now'
      /\ owned' \in BOOLEAN
      /\ chain' \in [version : 0 .. MaxVersion, found : BOOLEAN]
      /\ chain.version <= chain'.version
  <2>1. CASE Tick
    BY <2>1 DEF Tick, TypeOK
  <2>2. CASE Move
    BY <2>2 DEF Move, TypeOK
  <2>3. CASE Transfer
    BY <2>3 DEF Transfer, TypeOK
  <2>4. QED
    BY <2>1, <2>2, <2>3
<1>3. heldAt \subseteq heldAt' /\ (owned' => now' \in heldAt')
  BY DEF Tick, Move, Transfer, Evidence
<1>4. TypeOK'
  BY <1>1, <1>2 DEF TypeOK
<1>5. Evidence'
  <2>1. \A c \in Calls : call[c].startedAt \in 0 .. MaxTime /\ call[c].startedAt <= now
    BY DEF TypeOK, Call, Evidence
  <2>2. \A c \in Calls : call[c].startedAt <= now'
    BY <1>2, <2>1 DEF TypeOK
  <2>3. QED
    BY <1>1, <1>3, <2>2 DEF Evidence, Real
<1>6. OneAtATime' /\ Current' /\ DiagnosticsAgree'
  BY <1>1 DEF OneAtATime, Running, Current, DiagnosticsAgree
<1>7. RowIsPast' /\ Seen'
  <2>1. \A c \in Calls : call[c].seen \in 0 .. MaxVersion
    BY DEF TypeOK, Call
  <2>2. QED
    BY <1>1, <1>2, <2>1 DEF RowIsPast, Seen, TypeOK
<1>8. QED
  BY <1>4, <1>5, <1>6, <1>7

LEMMA CrashKeeps ==
  ASSUME IInv, Crash
  PROVE  IInv'
<1> USE DEF IInv
<1>1. /\ call' = [c \in Calls |-> IF call[c].at = "idle" THEN Idle ELSE [Idle EXCEPT !.at = "done"]]
      /\ UNCHANGED <<queued, now, chain, owned, heldAt, row, record>>
  BY DEF Crash
<1>2. \A c \in Calls : /\ call'[c].at \in {"idle", "done"} /\ call'[c].seen = 0
                       /\ call'[c].startedAt = 0 /\ call'[c].prior = NoRow
                       /\ call'[c] \in Call
  BY <1>1, EngineAssumption DEF EngineAssumption, Idle, Call, Stages
<1>3. TypeOK'
  BY <1>1, <1>2 DEF TypeOK
<1>4. now >= 0 /\ chain.version >= 0
  BY DEF TypeOK
<1>5. Evidence'
  BY <1>1, <1>2, <1>4 DEF Evidence, Real
<1>6. OneAtATime' /\ Current' /\ DiagnosticsAgree' /\ RowIsPast'
  BY <1>1, <1>2 DEF OneAtATime, Running, Current, DiagnosticsAgree, RowIsPast
<1>7. Seen'
  BY <1>1, <1>2, <1>4 DEF Seen
<1>8. QED
  BY <1>3, <1>5, <1>6, <1>7

(* A call up to the moment it writes.                                      *)
LEMMA CallKeeps ==
  ASSUME IInv, NEW c \in Calls, Begin(c) \/ Read(c) \/ Verified(c) \/ NotFound(c)
  PROVE  IInv' /\ UNCHANGED <<row, record>>
<1>1. /\ call[c] \in Call /\ chain.version \in 0 .. MaxVersion /\ now \in 0 .. MaxTime
      /\ record \in Record \cup {NoRow}
      /\ call[c].startedAt <= now /\ call[c].seen <= chain.version
  BY DEF IInv, TypeOK, Evidence, Seen
<1>2. UNCHANGED <<queued, now, chain, owned, heldAt, row, record>>
  BY DEF Begin, Read, Verified, NotFound, PersistAttempt
<1>3. queued => \A d \in Calls : d # c => ~Running(d)
  BY DEF IInv, OneAtATime, Running, Begin, Read, Verified, NotFound
<1>4. \E to \in Call :
        /\ call' = [call EXCEPT ![c] = to]
        /\ to.prior = NoRow \/ to.prior = call[c].prior \/ to.prior = record
        /\ to.startedAt <= now /\ to.seen <= chain.version
        /\ to.at = "utxos" => to.prior = record
        /\ to.at \in {"found", "utxos"} =>
             to.seen = chain.version \/ (call[c].at = "found" /\ to.seen = call[c].seen)
  <2>1. CASE Begin(c)
    <3> DEFINE to == [call[c] EXCEPT !.at = "transaction"]
    <3>1. call' = [call EXCEPT ![c] = to]
      BY <2>1 DEF Begin
    <3>2. to \in Call /\ to.at = "transaction"
      BY <1>1 DEF Call, Stages
    <3>3. to.prior = call[c].prior /\ to.startedAt = call[c].startedAt /\ to.seen = call[c].seen
      BY <1>1 DEF Call
    <3>4. /\ to \in Call
          /\ call' = [call EXCEPT ![c] = to]
          /\ to.prior = NoRow \/ to.prior = call[c].prior \/ to.prior = record
          /\ to.startedAt <= now /\ to.seen <= chain.version
          /\ to.at = "utxos" => to.prior = record
          /\ to.at \in {"found", "utxos"} =>
               to.seen = chain.version \/ (call[c].at = "found" /\ to.seen = call[c].seen)
      BY <1>1, <3>1, <3>2, <3>3
    <3> HIDE DEF to
    <3>5. QED
      BY <3>4
  <2>2. CASE Read(c)
    <3>1. PICK answer \in {"found", "missing"} :
            call' = [call EXCEPT ![c].at = answer, ![c].seen = chain.version]
      BY <2>2 DEF Read
    <3> DEFINE to == [call[c] EXCEPT !.at = answer, !.seen = chain.version]
    <3>2. call' = [call EXCEPT ![c] = to]
      BY <3>1
    <3>3. to \in Call /\ to.at = answer /\ to.seen = chain.version
      BY <1>1 DEF Call, Stages
    <3>4. to.prior = call[c].prior /\ to.startedAt = call[c].startedAt
      BY <1>1 DEF Call
    <3>5. /\ to \in Call
          /\ call' = [call EXCEPT ![c] = to]
          /\ to.prior = NoRow \/ to.prior = call[c].prior \/ to.prior = record
          /\ to.startedAt <= now /\ to.seen <= chain.version
          /\ to.at = "utxos" => to.prior = record
          /\ to.at \in {"found", "utxos"} =>
               to.seen = chain.version \/ (call[c].at = "found" /\ to.seen = call[c].seen)
      BY <1>1, <3>2, <3>3, <3>4
    <3> HIDE DEF to
    <3>6. QED
      BY <3>5
  <2>3. CASE Verified(c)
    <3> DEFINE to == [call[c] EXCEPT !.at = "utxos", !.startedAt = now, !.prior = record]
    <3>1. call' = [call EXCEPT ![c] = to] /\ call[c].at = "found"
      BY <2>3 DEF Verified
    <3>2. to \in Call /\ to.at = "utxos" /\ to.prior = record /\ to.startedAt = now
      BY <1>1 DEF Call, Stages
    <3>3. to.seen = call[c].seen
      BY <1>1 DEF Call
    <3>4. /\ to \in Call
          /\ call' = [call EXCEPT ![c] = to]
          /\ to.prior = NoRow \/ to.prior = call[c].prior \/ to.prior = record
          /\ to.startedAt <= now /\ to.seen <= chain.version
          /\ to.at = "utxos" => to.prior = record
          /\ to.at \in {"found", "utxos"} =>
               to.seen = chain.version \/ (call[c].at = "found" /\ to.seen = call[c].seen)
      BY <1>1, <3>1, <3>2, <3>3
    <3> HIDE DEF to
    <3>5. QED
      BY <3>4
  <2>4. CASE NotFound(c)
    <3> DEFINE to == [Idle EXCEPT !.at = "done"]
    <3>1. call' = [call EXCEPT ![c] = to]
      BY <2>4 DEF NotFound
    <3>2. to = [at |-> "done", seen |-> 0, startedAt |-> 0, prior |-> NoRow]
      BY DEF Idle
    <3>3. to \in Call
      BY <3>2, EngineAssumption DEF EngineAssumption, Call, Stages
    <3>4. /\ to \in Call
          /\ call' = [call EXCEPT ![c] = to]
          /\ to.prior = NoRow \/ to.prior = call[c].prior \/ to.prior = record
          /\ to.startedAt <= now /\ to.seen <= chain.version
          /\ to.at = "utxos" => to.prior = record
          /\ to.at \in {"found", "utxos"} =>
               to.seen = chain.version \/ (call[c].at = "found" /\ to.seen = call[c].seen)
      BY <1>1, <3>1, <3>2, <3>3
    <3> HIDE DEF to
    <3>5. QED
      BY <3>4
  <2>5. QED
    BY <2>1, <2>2, <2>3, <2>4
<1>5. QED
  BY <1>2, <1>3, <1>4, ReadKeeps

LEMMA Inductive == IInv /\ [Next]_vars => IInv'
<1> SUFFICES ASSUME IInv, [Next]_vars
             PROVE  IInv'
  OBVIOUS
<1>1. CASE UNCHANGED vars
  BY <1>1 DEF vars, IInv, Seen, TypeOK, Evidence, Real, OneAtATime, Running, Current, RowIsPast,
              DiagnosticsAgree
<1>2. QED
  BY <1>1, WorldKeeps, CrashKeeps, CallKeeps, CheckedKeeps DEF Next

LEMMA Invariant == Spec => []IInv
  BY Initially, Inductive, PTL DEF Spec

(***************************************************************************)
(* For every number of calls, interleaved with crashes, sales of the NFT   *)
(* and moves of the transaction: evidence of ownership on record was true  *)
(* when it was observed (indexTransaction, verifyNftAttachmentOwnership).  *)
(***************************************************************************)
THEOREM EvidenceSound == Spec => []EvidenceIsReal
<1>1. IInv => EvidenceIsReal
  BY DEF IInv, Evidence, Real, EvidenceIsReal
<1>2. QED
  BY Invariant, <1>1, PTL

(* The two copies of the evidence in a record, the columns and the         *)
(* diagnostics, are written by different statements and yet agree          *)
(* (upsertVerificationRecord).                                             *)
THEOREM CopiesAgree == Spec => []DiagnosticsAgree
<1>1. IInv => DiagnosticsAgree
  BY DEF IInv
<1>2. QED
  BY Invariant, <1>1, PTL

(* A step that is no write of a record leaves the row and the record.      *)
LEMMA StoreSteps ==
  ASSUME IInv, [Next]_vars
  PROVE  \/ UNCHANGED <<queued, row, record>>
         \/ (\E c \in Calls : Checked(c)) /\ UNCHANGED queued
<1>1. ASSUME NEW c \in Calls, Begin(c) \/ Read(c) \/ Verified(c) \/ NotFound(c)
      PROVE  UNCHANGED <<queued, row, record>>
  BY <1>1 DEF Begin, Read, Verified, NotFound, PersistAttempt
<1>2. Tick \/ Move \/ Transfer \/ Crash => UNCHANGED <<queued, row, record>>
  BY DEF Tick, Move, Transfer, Crash
<1>3. \A c \in Calls : Checked(c) => UNCHANGED queued
  BY DEF Checked
<1>4. UNCHANGED vars => UNCHANGED <<queued, row, record>>
  BY DEF vars
<1>5. QED
  BY <1>1, <1>2, <1>3, <1>4 DEF Next

(* A positive observation survives every later call, however many overlap. *)
THEOREM EvidenceKept == Spec => OwnershipMonotonic
<1>1. IInv /\ [Next]_vars =>
        [record # NoRow /\ Positive(record.attachment) =>
           record' # NoRow /\ record'.attachment = record.attachment]_vars
  BY StoreSteps, CheckedKeeps
<1>2. QED
  BY Initially, Inductive, <1>1, PTL DEF Spec, OwnershipMonotonic

(* Of queued calls none writes an older view of the chain than the row has.*)
THEOREM RowsInOrder == Spec => NeverOlder
<1>1. IInv /\ [Next]_vars =>
        [queued /\ row # NoRow /\ row' # row => row' # NoRow /\ row' > row]_vars
  <2> SUFFICES ASSUME IInv, [Next]_vars, queued, row # NoRow, row' # row
               PROVE  row' # NoRow /\ row' > row
    OBVIOUS
  <2>1. PICK c \in Calls : Checked(c)
    BY StoreSteps
  <2>2. row' >= row /\ row' # NoRow /\ IInv'
    BY <2>1, CheckedKeeps
  <2>3. row \in 0 .. MaxVersion /\ row' \in 0 .. MaxVersion
    BY <2>2 DEF IInv, TypeOK
  <2>4. QED
    BY <2>2, <2>3
<1>2. QED
  BY Initially, Inductive, <1>1, PTL DEF Spec, NeverOlder
=============================================================================
