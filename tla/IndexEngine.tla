----------------------------- MODULE IndexEngine -----------------------------
(***************************************************************************)
(* IndexingEngine.indexTransaction (apps/indexer/src/engine/indexer.ts)    *)
(* and MemoStore.persistIndexingResult (apps/indexer/src/db/store.ts) for  *)
(* one transaction: a TM1 memo with an NFT attached, the case in which the *)
(* engine reads its own earlier result.                                    *)
(*                                                                         *)
(* A call waits twice: for the transaction, then for the unspent outputs   *)
(* of the author.  Between and after its waits it runs without             *)
(* interruption, and a call of persistIndexingResult is one SQLite         *)
(* transaction, so each of its steps is one action.                        *)
(***************************************************************************)
EXTENDS Integers, FiniteSets

CONSTANTS
  Calls,       \* calls of indexTransaction
  MaxVersion,  \* bound on the moves of the transaction on the chain
  MaxTime,     \* bound on the clock
  NoRow

VARIABLES
  queued,   \* TRUE: the calls come through the daemon's queue (OneJobPerTxid);
            \* FALSE: there is no daemon and the administrative route calls
            \* the engine itself
  now,      \* the clock, in seconds
  chain,    \* the transaction as Chronik has it; version counts its changes
  owned,    \* the author holds the NFT
  heldAt,   \* the seconds in which the author held it (for EvidenceIsReal)
  call,     \* the local variables of each call
  row,      \* its row of transactions: the version it was written from
  record,   \* its row of verification_records
  attempts  \* its rows of indexing_attempts

vars == <<queued, now, chain, owned, heldAt, call, row, record, attempts>>

Statuses == {"VERIFIED_AT_INDEXING", "UNVERIFIED"}

Ownership == [status : Statuses, checkedAt : 0 .. MaxTime]

(* diagnostics repeats the status and the time in diagnostics_json.        *)
Record == [attachment : Ownership, diagnostics : Ownership]

ASSUME EngineAssumption ==
  /\ MaxVersion \in Nat
  /\ MaxTime \in Nat
  /\ NoRow \notin Record /\ NoRow \notin 0 .. MaxVersion

Idle == [at |-> "idle", seen |-> 0, startedAt |-> 0, prior |-> NoRow]

Init ==
  /\ queued \in BOOLEAN
  /\ now = 0
  /\ chain = [version |-> 0, found |-> TRUE]
  /\ owned \in BOOLEAN
  /\ heldAt = IF owned THEN {0} ELSE {}
  /\ call = [c \in Calls |-> Idle]
  /\ row = NoRow
  /\ record = NoRow
  /\ attempts = [persisted |-> 0, empty |-> 0]

-----------------------------------------------------------------------------
(* The world: time, the chain, the owner of the NFT.                       *)

Tick ==
  /\ now < MaxTime
  /\ now' = now + 1
  /\ heldAt' = IF owned THEN heldAt \cup {now'} ELSE heldAt
  /\ UNCHANGED <<queued, chain, owned, call, row, record, attempts>>

(* Mined, disconnected, dropped or found again.                            *)
Move ==
  /\ chain.version < MaxVersion
  /\ \E found \in BOOLEAN : chain' = [version |-> chain.version + 1, found |-> found]
  /\ UNCHANGED <<queued, now, owned, heldAt, call, row, record, attempts>>

Transfer ==
  /\ owned' = ~owned
  /\ heldAt' = IF owned' THEN heldAt \cup {now} ELSE heldAt
  /\ UNCHANGED <<queued, now, chain, call, row, record, attempts>>

-----------------------------------------------------------------------------
(* upsertVerificationRecord: a positive observation of the same NFT keeps  *)
(* its status and its time; the diagnostics give way to newer positive     *)
(* ones only.                                                              *)

Positive(attachment) == attachment.status = "VERIFIED_AT_INDEXING"

(* Mutant: the newer record always replaces the older. *)
UpsertedPlain(old, new) == new

Upserted(old, new) ==
  IF old = NoRow \/ ~Positive(old.attachment) THEN new
  ELSE [attachment  |-> old.attachment,
        diagnostics |-> IF Positive(new.attachment) THEN new.diagnostics
                                                    ELSE old.diagnostics]

(* persistIndexingResult for a result with a transaction and a record, and *)
(* for one that has neither.                                               *)
PersistRecord(c, attachment) ==
  /\ row' = call[c].seen
  /\ record' = Upserted(record, [attachment |-> attachment, diagnostics |-> attachment])
  /\ attempts' = [attempts EXCEPT !.persisted = @ + 1]

PersistAttempt ==
  /\ attempts' = [attempts EXCEPT !.empty = @ + 1]
  /\ UNCHANGED <<row, record>>

-----------------------------------------------------------------------------
(* Mutant: two jobs of one transaction run at once. *)
BeginUnqueued(c) ==
  /\ call[c].at = "idle"
  /\ call' = [call EXCEPT ![c].at = "transaction"]
  /\ UNCHANGED <<queued, now, chain, owned, heldAt, row, record, attempts>>

Begin(c) ==
  /\ call[c].at = "idle"
  /\ queued => \A d \in Calls : call[d].at \in {"idle", "done"}
  /\ call' = [call EXCEPT ![c].at = "transaction"]
  /\ UNCHANGED <<queued, now, chain, owned, heldAt, row, record, attempts>>

(* Chronik reads the transaction at some moment, and answers later or not. *)
Read(c) ==
  /\ call[c].at = "transaction"
  /\ \E answer \in {"found", "missing"} :
       /\ answer = "found" => chain.found
       /\ call' = [call EXCEPT ![c].at = answer, ![c].seen = chain.version]
  /\ UNCHANGED <<queued, now, chain, owned, heldAt, row, record, attempts>>

(* The clock and the earlier record are read before the second wait.       *)
Verified(c) ==
  /\ call[c].at = "found"
  /\ call' = [call EXCEPT ![c].at = "utxos", ![c].startedAt = now, ![c].prior = record]
  /\ UNCHANGED <<queued, now, chain, owned, heldAt, row, record, attempts>>

(* Not found, unavailable or not understood.                               *)
NotFound(c) ==
  /\ call[c].at = "missing"
  /\ PersistAttempt
  /\ call' = [call EXCEPT ![c] = [Idle EXCEPT !.at = "done"]]
  /\ UNCHANGED <<queued, now, chain, owned, heldAt>>

(* The outputs hold the NFT or not, or Chronik fails; an earlier positive  *)
(* answer stands whatever this one is.                                     *)
(* Mutant: the earlier record is not consulted. *)
AttachmentFresh(c, observed) == [status |-> observed, checkedAt |-> call[c].startedAt]

(* Mutant: a check that found nothing passes. *)
AttachmentFailOpen(c, observed) ==
  [status |-> "VERIFIED_AT_INDEXING", checkedAt |-> call[c].startedAt]

Attachment(c, observed) ==
  IF call[c].prior # NoRow /\ Positive(call[c].prior.attachment)
    THEN call[c].prior.attachment
    ELSE [status |-> observed, checkedAt |-> call[c].startedAt]

Checked(c) ==
  /\ call[c].at = "utxos"
  /\ \E observed \in Statuses :
       /\ observed = "VERIFIED_AT_INDEXING" => owned
       /\ PersistRecord(c, Attachment(c, observed))
  /\ call' = [call EXCEPT ![c] = [Idle EXCEPT !.at = "done"]]
  /\ UNCHANGED <<queued, now, chain, owned, heldAt>>

(* The process dies: the store keeps what was committed.                   *)
Crash ==
  /\ \E c \in Calls : call[c].at \notin {"idle", "done"}
  /\ call' = [c \in Calls |-> IF call[c].at = "idle" THEN Idle ELSE [Idle EXCEPT !.at = "done"]]
  /\ UNCHANGED <<queued, now, chain, owned, heldAt, row, record, attempts>>

Next ==
  \/ Tick \/ Move \/ Transfer
  \/ \E c \in Calls : Begin(c) \/ Read(c) \/ Verified(c) \/ NotFound(c) \/ Checked(c)
  \/ Crash

Spec == Init /\ [][Next]_vars

-----------------------------------------------------------------------------
(***************************************************************************)
(* engine/indexer.ts: "Ownership evidence must be monotonic for the same   *)
(* txid + attachedTokenId."  A positive observation survives every later   *)
(* call, also one that read the record before it and checked the NFT       *)
(* after it was sold.                                                      *)
(***************************************************************************)
OwnershipMonotonic ==
  [][record # NoRow /\ Positive(record.attachment) =>
       record' # NoRow /\ record'.attachment = record.attachment]_vars

(***************************************************************************)
(* Positive evidence is never invented: the author held the NFT in the     *)
(* recorded second or in a later one.  (Not always in that very second:    *)
(* the clock is read before the outputs are.)                              *)
(***************************************************************************)
EvidenceIsReal ==
  record # NoRow /\ Positive(record.attachment) =>
    \E s \in heldAt : s >= record.attachment.checkedAt

(***************************************************************************)
(* The columns and the diagnostics of one record, merged apart from each   *)
(* other, tell the same story: in the status always, in the time of the    *)
(* check as long as the calls are queued.                                  *)
(***************************************************************************)
DiagnosticsAgree ==
  record # NoRow =>
    /\ record.attachment.status = record.diagnostics.status
    /\ queued => record.attachment = record.diagnostics

(***************************************************************************)
(* Queued calls write what they read in order: a row never falls back to   *)
(* an older view of the chain.                                             *)
(***************************************************************************)
NeverOlder ==
  [][queued /\ row # NoRow /\ row' # row => row' # NoRow /\ row' > row]_vars
=============================================================================
