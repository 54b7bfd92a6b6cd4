------------------------------ MODULE LiveSync ------------------------------
(***************************************************************************)
(* How the store follows single transactions through the mempool: the      *)
(* transaction and block events of the live connection, the queued jobs    *)
(* they start and the reconciliation that repairs what events missed       *)
(* (handleLiveEvent, reconcileUnconfirmed and reconcileKnownUnconfirmed in *)
(* apps/indexer/src/daemon/daemon.ts).                                     *)
(*                                                                         *)
(* Backfill models the confirmed part of a reconciliation page by page;    *)
(* here it is the set of transactions that it still has to index.          *)
(***************************************************************************)
EXTENDS Integers, Sequences, FiniteSets

CONSTANTS
  Txids,
  TipFree,   \* those verified without a tip height: all but valid TM0 memos
  Limit,     \* options.reconcileLimit
  MaxWire,   \* bound on the events under way
  NoJob, NoTxid

ASSUME LiveSyncAssumption ==
  /\ IsFiniteSet(Txids)
  /\ TipFree \subseteq Txids
  /\ Limit \in Nat \ {0}
  /\ MaxWire \in Nat

VARIABLES
  net,        \* net[t]: where the network has t
  quiet,      \* the network rests and nothing is lost or fails any more
  wire,       \* events sent and not handled, in order
  row,        \* row[t]: the row of t in the store
  byUpdate,   \* the transactions with a row, least recently updated first
  recorded,   \* transactions with a durable verification record
  job,        \* job[t]: the indexing job of t, at most one
  refresh,    \* a reconcileKnownUnconfirmed waits for the tip height
  anchored,   \* the confirmed transactions that the checkpoints cover
  pc,         \* the reconciliation: its phase,
  todo,       \*   the transactions the phase has to index,
  awaited,    \*   the one whose job it waits for,
  stable      \*   whether the chain is still the one it started with

tail == <<anchored, pc, todo, awaited, stable>>
vars == <<net, quiet, wire, row, byUpdate, recorded, job, refresh, tail>>

Jobs == {NoJob} \cup
  [tip : BOOLEAN, seen : {"unread", "mempool", "confirmed", "missing"}]

Event == [type : {"added", "confirmed", "removed", "invalidated"}, txid : Txids]

Init ==
  /\ net = [t \in Txids |-> "unknown"]
  /\ quiet = FALSE
  /\ wire = <<>>
  /\ row = [t \in Txids |-> "absent"]
  /\ byUpdate = <<>>
  /\ recorded = {}
  /\ job = [t \in Txids |-> NoJob]
  /\ refresh = FALSE
  /\ anchored = {}
  /\ pc = "idle"
  /\ todo = {}
  /\ awaited = NoTxid
  /\ stable = TRUE

-----------------------------------------------------------------------------
(* The network and the WebSocket.  Events keep their order; any of them is *)
(* lost while the connection is down.                                      *)

Announced(event) ==
  \/ /\ Len(wire) < MaxWire
     /\ wire' = Append(wire, event)
  \/ wire' = wire

NetworkMove(t, to, type) ==
  /\ ~quiet
  /\ net' = [net EXCEPT ![t] = to]
  /\ Announced([type |-> type, txid |-> t])
  /\ anchored' = anchored \ {t}
  /\ stable' = (stable /\ net[t] # "confirmed" /\ to # "confirmed")
  /\ UNCHANGED <<quiet, row, byUpdate, recorded, job, refresh, pc, todo, awaited>>

Broadcast(t) ==
  /\ net[t] = "unknown"
  /\ NetworkMove(t, "mempool", "added")

Evict(t) ==
  /\ net[t] = "mempool"
  /\ NetworkMove(t, "gone", "removed")

Mine(t) ==
  /\ net[t] = "mempool"
  /\ NetworkMove(t, "confirmed", "confirmed")

(* A block leaves the chain; its transaction returns to the mempool or is  *)
(* replaced by a conflicting one.                                          *)
Unmine(t) ==
  /\ net[t] = "confirmed"
  /\ \/ NetworkMove(t, "mempool", "added")
     \/ NetworkMove(t, "gone", "invalidated")

Rest ==
  /\ ~quiet
  /\ quiet' = TRUE
  /\ UNCHANGED <<net, wire, row, byUpdate, recorded, job, refresh, tail>>

-----------------------------------------------------------------------------
(* Jobs: a request for a transaction that has a job joins it.              *)

Submit(t, withTip) ==
  [job EXCEPT ![t] = IF @ = NoJob THEN [tip |-> withTip, seen |-> "unread"] ELSE @]

(* The queue may be saturated: then the request is dropped.                *)
SubmitSome(txids, withTip) ==
  \E accepted \in SUBSET txids :
    /\ quiet => accepted = txids
    /\ job' = [t \in Txids |->
                 IF t \in accepted THEN Submit(t, withTip)[t] ELSE job[t]]

Fetch(t) ==
  /\ job[t] # NoJob
  /\ job[t].seen = "unread"
  /\ job' = [job EXCEPT ![t].seen =
               IF net[t] \in {"mempool", "confirmed"} THEN net[t] ELSE "missing"]
  /\ UNCHANGED <<net, quiet, wire, row, byUpdate, recorded, refresh, tail>>

(* persistIndexingResult: a transaction that was found is upserted, active *)
(* and with the current update time.                                       *)
Status(seen) == IF seen = "mempool" THEN "unconfirmed" ELSE "confirmed"
Durable(t, j) == j.seen = "confirmed" \/ (j.seen = "mempool" /\ (j.tip \/ t \in TipFree))

(* What the reconciliation does when the job it waits for ends: go on, or  *)
(* give up.  A row that is no longer found is marked inactive.             *)
(* Mutant: the reconciliation goes on after a failed job. *)
ContinueRegardless(t, ok) ==
  /\ IF awaited # t THEN UNCHANGED <<pc, todo, awaited>>
     ELSE /\ awaited' = NoTxid
          /\ todo' = todo \ {t}
          /\ UNCHANGED pc
  /\ UNCHANGED <<anchored, stable>>

Continue(t, ok) ==
  /\ IF awaited # t THEN UNCHANGED <<pc, todo, awaited>>
     ELSE /\ awaited' = NoTxid
          /\ IF ok THEN todo' = todo \ {t} /\ UNCHANGED pc
                   ELSE todo' = {} /\ pc' = "idle"
  /\ UNCHANGED <<anchored, stable>>

Persist(t) ==
  /\ job[t] # NoJob
  /\ job[t].seen # "unread"
  /\ \/ /\ job[t].seen # "missing"
        /\ row' = [row EXCEPT ![t] = Status(job[t].seen)]
        /\ byUpdate' = Append(SelectSeq(byUpdate, LAMBDA u : u # t), t)
        /\ recorded' = IF Durable(t, job[t]) THEN recorded \cup {t} ELSE recorded
        /\ Continue(t, Durable(t, job[t]))
     \/ /\ job[t].seen = "missing"
        /\ row' = IF awaited = t /\ pc = "rows" THEN [row EXCEPT ![t] = "inactive"]
                                                ELSE row
        /\ Continue(t, pc = "rows")
        /\ UNCHANGED <<byUpdate, recorded>>
  /\ job' = [job EXCEPT ![t] = NoJob]
  /\ UNCHANGED <<net, quiet, wire, refresh>>

JobFails(t) ==
  /\ ~quiet
  /\ job[t] # NoJob
  /\ job' = [job EXCEPT ![t] = NoJob]
  /\ Continue(t, FALSE)
  /\ UNCHANGED <<net, quiet, wire, row, byUpdate, recorded, refresh>>

-----------------------------------------------------------------------------
(* handleTransactionEvent and handleBlockEvent.                            *)

MarkInactive(t) == row' = [row EXCEPT ![t] = IF @ = "absent" THEN @ ELSE "inactive"]

HandleEvent ==
  /\ wire # <<>>
  /\ wire' = Tail(wire)
  /\ LET t == Head(wire).txid
         type == Head(wire).type
     IN  \/ /\ type = "added"
            /\ SubmitSome({t}, TRUE)
            /\ UNCHANGED row
         \/ /\ type = "confirmed"
            /\ SubmitSome({t}, FALSE)
            /\ UNCHANGED row
         \/ /\ type \in {"removed", "invalidated"}
            /\ MarkInactive(t)
            /\ UNCHANGED job
  /\ UNCHANGED <<net, quiet, byUpdate, recorded, refresh, tail>>

(* A block was connected, with these transactions or others in it.         *)
HandleBlock ==
  /\ ~quiet
  /\ ~refresh
  /\ refresh' = TRUE
  /\ UNCHANGED <<net, quiet, wire, row, byUpdate, recorded, job, tail>>

(* listActiveUnconfirmedTxids: least recently updated first, up to Limit.  *)
KnownUnconfirmed ==
  LET rows == SelectSeq(byUpdate, LAMBDA t : row[t] = "unconfirmed")
  IN  {rows[i] : i \in {j \in DOMAIN rows : j <= Limit}}

RefreshKnown ==
  /\ refresh
  /\ refresh' = FALSE
  /\ SubmitSome(KnownUnconfirmed, TRUE)
  /\ UNCHANGED <<net, quiet, wire, row, byUpdate, recorded, tail>>

-----------------------------------------------------------------------------
(* scheduleFullReconciliation: revalidate the confirmed rows above the     *)
(* checkpoints, index the confirmed history they do not cover, advance     *)
(* them if the chain did not change, and turn to the mempool.              *)

store == <<row, byUpdate, recorded>>

ConfirmedRows == {t \in Txids : row[t] = "confirmed"}
History == {t \in Txids : net[t] = "confirmed"}

Begin ==
  /\ pc = "idle"
  /\ pc' = "rows"
  /\ todo' = ConfirmedRows \ anchored
  /\ stable' = TRUE
  /\ UNCHANGED <<net, quiet, wire, store, job, refresh, anchored, awaited>>

(* A known row is indexed with the tip height, a candidate without.        *)
IndexConfirmed(t) ==
  /\ pc \in {"rows", "page"}
  /\ awaited = NoTxid
  /\ t \in todo
  /\ awaited' = t
  /\ job' = Submit(t, pc = "rows")
  /\ UNCHANGED <<net, quiet, wire, store, refresh, anchored, pc, todo, stable>>

(* The pages not covered, and the newest of those that are: page zero and  *)
(* the overlap are always read again.                                      *)
ReadHistory ==
  /\ pc = "rows"
  /\ todo = {}
  /\ pc' = "page"
  /\ \E newest \in SUBSET (History \cap anchored) :
       todo' = (History \ anchored) \cup newest
  /\ UNCHANGED <<net, quiet, wire, store, job, refresh, anchored, awaited, stable>>

ReadEndTip ==
  /\ pc = "page"
  /\ todo = {}
  /\ \/ /\ stable
        /\ anchored' = History
        /\ pc' = "mempool"
        /\ UNCHANGED <<todo, stable>>
     \/ /\ ~stable
        /\ pc' = "rows"
        /\ todo' = ConfirmedRows \ anchored
        /\ stable' = TRUE
        /\ UNCHANGED anchored
  /\ UNCHANGED <<net, quiet, wire, store, job, refresh, awaited>>

(* reconcileUnconfirmed: what Chronik has in the mempool, then known rows. *)
(* Mutant: only transactions that have a row already are refreshed. *)
IndexKnownOnly ==
  /\ pc = "mempool"
  /\ SubmitSome(KnownUnconfirmed, TRUE)
  /\ pc' = "idle"
  /\ UNCHANGED <<net, quiet, wire, store, refresh, anchored, todo, awaited, stable>>

IndexUnconfirmed ==
  /\ pc = "mempool"
  /\ SubmitSome({t \in Txids : net[t] = "mempool"} \cup KnownUnconfirmed, TRUE)
  /\ pc' = "idle"
  /\ UNCHANGED <<net, quiet, wire, store, refresh, anchored, todo, awaited, stable>>

(* A request of the reconciliation fails, or the tip moved too often.      *)
Abort ==
  /\ ~quiet
  /\ pc # "idle"
  /\ awaited = NoTxid
  /\ pc' = "idle"
  /\ todo' = {}
  /\ UNCHANGED <<net, quiet, wire, store, job, refresh, anchored, awaited, stable>>

Next ==
  \/ \E t \in Txids : Broadcast(t) \/ Evict(t) \/ Mine(t) \/ Unmine(t)
  \/ Rest
  \/ \E t \in Txids : Fetch(t) \/ Persist(t) \/ JobFails(t) \/ IndexConfirmed(t)
  \/ HandleEvent
  \/ HandleBlock
  \/ RefreshKnown
  \/ Begin \/ ReadHistory \/ ReadEndTip \/ IndexUnconfirmed
  \/ Abort

Spec == Init /\ [][Next]_vars

(***************************************************************************)
(* The network comes to rest, requests are answered, and the timer starts  *)
(* a reconciliation again after each one.                                  *)
(***************************************************************************)
FairSpec ==
  /\ Spec
  /\ WF_vars(Rest)
  /\ WF_vars(HandleEvent)
  /\ WF_vars(RefreshKnown)
  /\ WF_vars(Begin \/ ReadHistory \/ ReadEndTip \/ IndexUnconfirmed)
  /\ \A t \in Txids : WF_vars(Fetch(t)) /\ WF_vars(Persist(t)) /\ WF_vars(IndexConfirmed(t))

-----------------------------------------------------------------------------
(***************************************************************************)
(* The checkpoints cover only what is in the store.                        *)
(***************************************************************************)
AnchoredRecorded == anchored \subseteq recorded

(***************************************************************************)
(* docs/indexer-daemon.md: "WebSocket delivery is an optimization, not the *)
(* durability boundary".  Whatever events were lost, once the network      *)
(* rests the store agrees with it: on the mempool and on the blocks.       *)
(***************************************************************************)
StoreConverges ==
  \A t \in Txids :
    <>[](/\ net[t] = "mempool" => row[t] = "unconfirmed" /\ t \in recorded
         /\ net[t] = "confirmed" => row[t] = "confirmed" /\ t \in recorded)

(***************************************************************************)
(* The same sentence, of the transactions that the network dropped: they   *)
(* are not served as active.                                               *)
(***************************************************************************)
DroppedConverges ==
  \A t \in Txids :
    <>[](net[t] = "gone" => row[t] \notin {"unconfirmed", "confirmed"})
=============================================================================
