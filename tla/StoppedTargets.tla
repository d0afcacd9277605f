--------------------------- MODULE StoppedTargets ---------------------------
(***************************************************************************)
(* The bounded list of stop receipts a Worker keeps                         *)
(* (internal/jobs/stopped_targets.go, stopped_target_receipts.go).          *)
(*                                                                          *)
(* The code keeps a list of (stream_id, stopped_at) in order of insertion.  *)
(* Every insertion happens at a later instant than the previous one, so     *)
(* the list is modelled as the SET of its entries and "the last k entries"  *)
(* are the k entries with the greatest stopped_at.  Time is a natural       *)
(* number; TTL is stoppedTargetReceiptTTL and MaxReceipts is                *)
(* maxStoppedStreamTargets.                                                 *)
(***************************************************************************)
EXTENDS Naturals, FiniteSets

CONSTANTS Streams,      \* stream identifiers (non-empty, already trimmed)
          NoStream,     \* the empty stream_id
          MaxReceipts,  \* maxStoppedStreamTargets
          TTL           \* stoppedTargetReceiptTTL

ASSUME StreamsAssumption == NoStream \notin Streams

ASSUME ReceiptBounds == /\ MaxReceipts \in Nat \ {0}
                        /\ TTL \in Nat

Receipt == [stream : Streams, at : Nat]

\* Mutant: a receipt expires one instant early.
FreshStrictly(r, now) == now < r.at + TTL

\* !receipt.StoppedAt.Before(now - TTL)
Fresh(r, now) == now <= r.at + TTL

WasStopped(R, s, now) == \E r \in R : r.stream = s /\ Fresh(r, now)

\* Mutant: the older receipt of the stream itself stays.
WithoutExpired(R, s, now) == {r \in R : Fresh(r, now)}

Without(R, s, now) == {r \in R : r.stream # s /\ Fresh(r, now)}

\* Mutant: the list is cut at its end.
OldestReceipts(R) == {r \in R : Cardinality({q \in R : q.at < r.at}) < MaxReceipts}

\* receipts[len(receipts)-maxStoppedStreamTargets:]
Newest(R) == {r \in R : Cardinality({q \in R : q.at > r.at}) < MaxReceipts}

\* The list rememberStoppedTargetLocked persists and then adopts.
Remembered(R, s, now) == Newest(Without(R, s, now) \cup {[stream |-> s, at |-> now]})

\* The list forgetStoppedTargetLocked persists and then adopts: without a
\* receipt that is still fresh it returns before touching the list.
Forgotten(R, s, now) == IF WasStopped(R, s, now) THEN Without(R, s, now) ELSE R

\* What persistStoppedTargetReceipts may leave in the file when it returns an
\* error: the rename happens before the directory is synced, so a late error
\* leaves the new list in the file.
PersistErrors(file, new) == {file, new}

\* loadStoppedTargetReceipts refuses a file that names a stream twice.
Loadable(file) == \A p, q \in file : p.stream = q.stream => p = q

Loaded(file, now) == Newest({r \in file : Fresh(r, now)})
=============================================================================
