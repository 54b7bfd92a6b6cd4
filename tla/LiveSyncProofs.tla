--------------------------- MODULE LiveSyncProofs ---------------------------
(***************************************************************************)
(* The checkpoints of LiveSync cover only what is in the store, for any    *)
(* set of transactions, any limits and any loss of events.                 *)
(***************************************************************************)
EXTENDS LiveSync, TLAPS

(***************************************************************************)
(* While the pages are read and the chain has not changed, a confirmed     *)
(* transaction is recorded or still to be indexed; so nothing is missing   *)
(* when the last one is done and the checkpoints advance.                  *)
(***************************************************************************)
PassCovers == pc = "page" /\ stable => History \subseteq recorded \cup todo

IInv ==
  /\ stable \in BOOLEAN
  /\ net \in [Txids -> {"unknown", "mempool", "confirmed", "gone"}]
  /\ AnchoredRecorded
  /\ PassCovers

(* A transaction leaves the set of those to index only when it is recorded *)
(* or with the whole pass: what the end of a job does to the invariant.    *)
LEMMA ContinueKeeps ==
  ASSUME NEW t \in Txids, NEW ok, IInv, Continue(t, ok), net' = net,
         recorded \subseteq recorded', pc = "page" /\ ok => t \in recorded'
  PROVE  IInv'
BY DEF IInv, Continue, AnchoredRecorded, PassCovers, History

LEMMA InitIInv == Init => IInv
BY DEF Init, IInv, AnchoredRecorded, PassCovers, History

(* Where a transaction can go, and that an unconfirmed one that comes into *)
(* no block changes no history.                                            *)
LEMMA NetworkMoveKeeps ==
  ASSUME NEW t \in Txids, NEW to \in {"mempool", "confirmed", "gone"}, NEW type,
         IInv, NetworkMove(t, to, type)
  PROVE  IInv'
<1>1. net' = [net EXCEPT ![t] = to] /\ UNCHANGED <<recorded, pc, todo>>
      /\ anchored' \subseteq anchored
      /\ stable' = (stable /\ net[t] # "confirmed" /\ to # "confirmed")
  BY DEF NetworkMove
<1>2. stable' => stable /\ History' = History
  BY <1>1 DEF IInv, History
<1>3. stable' \in BOOLEAN
  BY <1>1
<1> QED
  BY <1>1, <1>2, <1>3 DEF IInv, AnchoredRecorded, PassCovers

LEMMA PersistKeeps ==
  ASSUME NEW t \in Txids, IInv, Persist(t)
  PROVE  IInv'
<1>1. net' = net
  BY DEF Persist
<1>2. CASE job[t].seen # "missing" /\ Continue(t, Durable(t, job[t]))
           /\ recorded' = IF Durable(t, job[t]) THEN recorded \cup {t} ELSE recorded
  BY <1>1, <1>2, ContinueKeeps
<1>3. CASE Continue(t, pc = "rows") /\ recorded' = recorded
  BY <1>1, <1>3, ContinueKeeps
<1> QED
  BY <1>2, <1>3 DEF Persist

LEMMA NextIInv == IInv /\ [Next]_vars => IInv'
<1> SUFFICES ASSUME IInv, [Next]_vars
             PROVE  IInv'
  OBVIOUS
<1> USE DEF IInv, AnchoredRecorded, PassCovers, History
<1>1. CASE UNCHANGED vars
  BY <1>1 DEF vars, tail
<1>2. ASSUME NEW t \in Txids, Broadcast(t) \/ Evict(t) \/ Mine(t) \/ Unmine(t)
      PROVE  IInv'
  BY <1>2, NetworkMoveKeeps DEF Broadcast, Evict, Mine, Unmine
<1>3. CASE Rest
  BY <1>3 DEF Rest, tail
<1>4. ASSUME NEW t \in Txids, Fetch(t)
      PROVE  IInv'
  BY <1>4 DEF Fetch, tail
<1>5. ASSUME NEW t \in Txids, Persist(t)
      PROVE  IInv'
  BY <1>5, PersistKeeps
<1>6. ASSUME NEW t \in Txids, JobFails(t)
      PROVE  IInv'
  BY <1>6, ContinueKeeps DEF JobFails
<1>7. ASSUME NEW t \in Txids, IndexConfirmed(t)
      PROVE  IInv'
  BY <1>7 DEF IndexConfirmed, store
<1>8. CASE HandleEvent
  BY <1>8 DEF HandleEvent, tail
<1>9. CASE HandleBlock
  BY <1>9 DEF HandleBlock, tail
<1>10. CASE RefreshKnown
  BY <1>10 DEF RefreshKnown, tail
<1>11. CASE Begin
  BY <1>11 DEF Begin, store
<1>12. CASE ReadHistory
  BY <1>12 DEF ReadHistory, store
<1>13. CASE ReadEndTip
  BY <1>13 DEF ReadEndTip, store
<1>14. CASE IndexUnconfirmed
  BY <1>14 DEF IndexUnconfirmed, store
<1>15. CASE Abort
  BY <1>15 DEF Abort, store
<1> QED
  BY <1>1, <1>2, <1>3, <1>4, <1>5, <1>6, <1>7, <1>8, <1>9, <1>10, <1>11, <1>12,
     <1>13, <1>14, <1>15 DEF Next

(* AnchoredRecorded for every number of transactions and every loss of     *)
(* events: the end tip is read after the last transaction was recorded.    *)
THEOREM CheckpointsCoverTheStore == Spec => []AnchoredRecorded
<1>1. IInv => AnchoredRecorded
  BY DEF IInv
<1> QED
  BY <1>1, InitIInv, NextIInv, PTL DEF Spec
=============================================================================
