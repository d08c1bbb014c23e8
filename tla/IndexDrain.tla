------------------------------ MODULE IndexDrain ------------------------------
(***************************************************************************)
(* The index queue and its drainer: message_ids enqueued by the storage    *)
(* sink are popped oldest first, submitted to the witchcraft index segment *)
(* by segment, and deleted; failures are counted up to MAX_ATTEMPTS.       *)
(* Embedding and clustering follow in bounded rounds.                      *)
(*                                                                         *)
(* Sources: crates/scryd-search (drainer, witchcraft_handle) and           *)
(* crates/scryd-storage/src/queue.rs.  The witchcraft database itself is   *)
(* external: add_doc is an upsert by uuid, embed_chunks(n) embeds up to n  *)
(* documents that have no embedding yet, and index_chunks covers them all  *)
(* or, below L0_CAPACITY, does nothing.                                    *)
(***************************************************************************)
EXTENDS Integers, FiniteSets

CONSTANTS
  Messages,     \* message_ids the sink enqueues
  Orphans,      \* those with no messages row (the upsert kept an older id)
  Segments,     \* [Messages -> 1 ..]: how many segments split_for_index makes
  BatchLimit,   \* INDEXER_BATCH
  MaxAttempts,  \* MAX_ATTEMPTS
  FlushBatch,   \* FLUSH_EMBED_BATCH
  FlushRounds,  \* (INDEXER_BATCH / 4).max(1)
  Threshold,    \* INDEX_REBUILD_THRESHOLD
  L0Capacity,   \* witchcraft's L0_CAPACITY, in documents of one embedding each
  NoMessage,
  MaxFaults,    \* bound: storage and flush calls that return an error
  MaxRestarts   \* bound: process restarts

ASSUME DrainAssumption ==
  /\ Orphans \subseteq Messages
  /\ Segments \in [Messages -> Nat \ {0}]
  /\ BatchLimit \in Nat \ {0} /\ MaxAttempts \in Nat \ {0}
  /\ FlushBatch \in Nat \ {0} /\ FlushRounds \in Nat \ {0}
  /\ Threshold \in Nat \ {0} /\ L0Capacity \in Nat \ {0}
  /\ NoMessage \notin Messages
  /\ MaxFaults \in Nat /\ MaxRestarts \in Nat

VARIABLES
  \* durable: meta.sqlite and witchcraft.sqlite
  handed,       \* message_ids that were ever enqueued
  queued,       \* message_ids with an index_queue row
  attempts,     \* [Messages -> 0 .. MaxAttempts]: the attempts column
  failed,       \* rows with failed_permanent = 1
  older,        \* pairs <<a, b>> of rows, a with the smaller queued_at
  latest,       \* rows enqueued in the current second
  docs,         \* <<id, i>>: segment i of id is a witchcraft document
  embedded,     \* documents that have an embedding
  unclustered,  \* how many embedded documents no cascade has covered yet
  \* the drainer task
  pc,
  batch,        \* popped rows not processed yet
  cur,          \* row in process()
  round,        \* flush_embeddings calls in this iteration
  pending,      \* embeds_since_last_index
  dirty,        \* State.dirty of the witchcraft handle
  permit,       \* Notify holds a permit
  cancelled,    \* the shutdown token
  faults, restarts

queueVars   == <<handed, queued, attempts, failed, older, latest>>
indexVars   == <<docs, embedded, unclustered>>
drainerVars == <<pc, batch, cur, round, pending, dirty, permit>>
boundVars   == <<cancelled, faults, restarts>>
vars        == <<queueVars, indexVars, drainerVars, boundVars>>

Pcs == {"top", "load", "submit", "delete", "mark", "embed", "wait", "backoff", "stopped"}

\* The most that one count of embeds_since_last_index can reach: the threshold
\* is looked at only after all the rounds of an iteration.
Quota == Threshold - 1 + FlushRounds * FlushBatch

TypeOK ==
  /\ handed \subseteq Messages
  /\ queued \subseteq handed
  /\ attempts \in [Messages -> 0 .. MaxAttempts]
  /\ failed \subseteq queued
  /\ older \subseteq queued \X queued
  /\ latest \subseteq queued
  /\ \A d \in docs : d \in Messages \X Nat /\ d[2] \in 1 .. Segments[d[1]]
  /\ embedded \subseteq docs
  /\ unclustered \in Nat
  /\ pc \in Pcs
  /\ batch \subseteq queued
  /\ cur \in Messages \cup {NoMessage}
  /\ round \in 0 .. FlushRounds
  /\ pending \in Nat
  /\ dirty \in BOOLEAN /\ permit \in BOOLEAN /\ cancelled \in BOOLEAN
  /\ faults \in 0 .. MaxFaults
  /\ restarts \in 0 .. MaxRestarts

(***************************************************************************)
(* The queue table                                                         *)
(***************************************************************************)

\* Mutant of Enqueue: a second request starts the count again.
EnqueueRecounts(id) ==
  /\ ~cancelled
  /\ handed' = handed \cup {id}
  /\ queued' = queued \cup {id}
  /\ attempts' = [attempts EXCEPT ![id] = 0]
  /\ older' = older \cup ((queued \ (latest \cup {id})) \X {id})
  /\ latest' = latest \cup {id}
  /\ permit' = TRUE
  /\ UNCHANGED <<failed, indexVars, pc, batch, cur, round, pending, dirty, boundVars>>

\* enqueue and notify_one, as the sink calls them: INSERT OR IGNORE, with
\* queued_at in whole seconds.  serve_run cancels the token only after every
\* supervisor has been joined.
Enqueue(id) ==
  /\ ~cancelled
  /\ handed' = handed \cup {id}
  /\ IF id \in queued
       THEN UNCHANGED <<queued, attempts, older, latest>>
       ELSE /\ queued' = queued \cup {id}
            /\ attempts' = [attempts EXCEPT ![id] = 0]
            /\ older' = older \cup ((queued \ latest) \X {id})
            /\ latest' = latest \cup {id}
  /\ permit' = TRUE
  /\ UNCHANGED <<failed, indexVars, pc, batch, cur, round, pending, dirty, boundVars>>

\* The clock that strftime('%s','now') reads moves on.
NextSecond ==
  /\ latest # {}
  /\ latest' = {}
  /\ UNCHANGED <<handed, queued, attempts, failed, older, indexVars, drainerVars, boundVars>>

\* Mutant of Oldest: ORDER BY queued_at DESC.
Youngest(rows) ==
  /\ rows \subseteq queued \ failed
  /\ \A a \in (queued \ failed) \ rows : \A b \in rows : <<b, a>> \notin older
  /\ Cardinality(rows) = BatchLimit
       \/ (rows = queued \ failed /\ Cardinality(rows) < BatchLimit)

\* pop_batch: the oldest drainable rows; ties are broken arbitrarily.
Oldest(rows) ==
  /\ rows \subseteq queued \ failed
  /\ \A a \in (queued \ failed) \ rows : \A b \in rows : <<a, b>> \notin older
  /\ Cardinality(rows) = BatchLimit
       \/ (rows = queued \ failed /\ Cardinality(rows) < BatchLimit)

DropRow(id) ==
  /\ queued' = queued \ {id}
  /\ older' = {p \in older : p[1] # id /\ p[2] # id}
  /\ latest' = latest \ {id}

(***************************************************************************)
(* Drainer::run and tick                                                   *)
(***************************************************************************)

StorageError == faults < MaxFaults /\ faults' = faults + 1

\* Mutant of Told: shutdown_token hands out a child token, and cancelling a
\* child does not cancel the loop's own.
ToldChild == FALSE

\* The loop's token is cancelled: shutdown_token is a clone of it.
Told == cancelled

\* The checks at the top of the loop and in both waits.
Stop ==
  /\ pc \in {"top", "wait", "backoff"} /\ Told
  /\ pc' = "stopped"
  /\ UNCHANGED <<queueVars, indexVars, batch, cur, round, pending, dirty, permit, boundVars>>

PopBatch ==
  /\ pc = "top" /\ ~Told
  /\ queued \ failed # {}
  /\ \E rows \in SUBSET (queued \ failed) : Oldest(rows) /\ batch' = rows
  /\ pc' = "load"
  /\ UNCHANGED <<queueVars, indexVars, cur, round, pending, dirty, permit, boundVars>>

PopError ==
  /\ pc = "top" /\ ~Told
  /\ StorageError
  /\ pc' = "backoff"
  /\ UNCHANGED <<queueVars, indexVars, batch, cur, round, pending, dirty, permit>>
  /\ UNCHANGED <<cancelled, restarts>>

\* run_flush_index: Ok covers everything or, with too few embeddings (a document
\* has at least one), nothing; an error is logged and forgotten.
FlushIndex ==
  \/ unclustered' = 0 /\ UNCHANGED faults
  \/ unclustered < L0Capacity /\ UNCHANGED <<unclustered, faults>>
  \/ StorageError /\ UNCHANGED unclustered

\* Mutant of PopNothing: the idle path waits for the threshold too.
PopNothingThreshold ==
  /\ pc = "top" /\ ~Told
  /\ queued \ failed = {}
  /\ IF pending >= Threshold THEN FlushIndex ELSE UNCHANGED <<unclustered, faults>>
  /\ pending' = 0
  /\ pc' = "wait"
  /\ UNCHANGED <<queueVars, docs, embedded, batch, cur, round, dirty, permit>>
  /\ UNCHANGED <<cancelled, restarts>>

\* The queue is empty: the idle cascade, then the wait.
PopNothing ==
  /\ pc = "top" /\ ~Told
  /\ queued \ failed = {}
  /\ IF pending > 0 THEN FlushIndex ELSE UNCHANGED <<unclustered, faults>>
  /\ pending' = 0
  /\ pc' = "wait"
  /\ UNCHANGED <<queueVars, docs, embedded, batch, cur, round, dirty, permit>>
  /\ UNCHANGED <<cancelled, restarts>>

\* notified() takes the permit; otherwise the one-second sleep ends the wait.
Wake ==
  /\ pc \in {"wait", "backoff"}
  /\ pc' = "top"
  /\ \/ pc = "wait" /\ permit /\ permit' = FALSE
     \/ UNCHANGED permit
  /\ UNCHANGED <<queueVars, indexVars, batch, cur, round, pending, dirty, boundVars>>

(***************************************************************************)
(* process, one call at a time                                             *)
(***************************************************************************)

\* The next row of the batch, or on to the embedding rounds.
RowDone(rest) == pc' = IF rest = {} THEN "embed" ELSE "load"

LoadMessage ==
  /\ pc = "load"
  /\ \E id \in batch \ Orphans : cur' = id /\ batch' = batch \ {id}
  /\ pc' = "submit"
  /\ UNCHANGED <<queueVars, indexVars, round, pending, dirty, permit, boundVars>>

\* get_message finds no row: the queue row goes (an error doing so is ignored).
LoadNone ==
  /\ pc = "load"
  /\ \E id \in batch \cap Orphans :
       /\ batch' = batch \ {id}
       /\ \/ DropRow(id) /\ UNCHANGED faults
          \/ StorageError /\ UNCHANGED <<queued, older, latest>>
       /\ RowDone(batch \ {id})
  /\ UNCHANGED <<handed, attempts, failed, indexVars, cur, round, pending, dirty, permit>>
  /\ UNCHANGED <<cancelled, restarts>>

\* Mutant of LoadError: an error is taken for a missing message.
LoadErrorDrops ==
  /\ pc = "load"
  /\ StorageError
  /\ \E id \in batch : DropRow(id) /\ batch' = batch \ {id} /\ RowDone(batch \ {id})
  /\ UNCHANGED <<handed, attempts, failed, indexVars, cur, round, pending, dirty, permit>>
  /\ UNCHANGED <<cancelled, restarts>>

LoadError ==
  /\ pc = "load"
  /\ StorageError
  /\ \E id \in batch : batch' = batch \ {id} /\ RowDone(batch \ {id})
  /\ UNCHANGED <<queueVars, indexVars, cur, round, pending, dirty, permit>>
  /\ UNCHANGED <<cancelled, restarts>>

\* The first k segments of id.
Parts(id, k) == {id} \X (1 .. k)

\* submit: every add_doc succeeds, then the dirty flag is raised.
SubmitOk ==
  /\ pc = "submit"
  /\ docs' = docs \cup Parts(cur, Segments[cur])
  /\ dirty' = TRUE
  /\ pc' = "delete"
  /\ UNCHANGED <<queueVars, embedded, unclustered, batch, cur, round, pending, permit>>
  /\ UNCHANGED boundVars

\* Mutant of SubmitError: the error does not reach the drainer.
SubmitErrorSwallowed ==
  /\ pc = "submit"
  /\ \E k \in 0 .. Segments[cur] - 1 : docs' = docs \cup Parts(cur, k)
  /\ pc' = "delete"
  /\ UNCHANGED <<queueVars, embedded, unclustered, batch, cur, round, pending, dirty>>
  /\ UNCHANGED <<permit, boundVars>>

\* submit: an add_doc fails; the segments before it are in, the flag is not up.
SubmitError ==
  /\ pc = "submit"
  /\ \E k \in 0 .. Segments[cur] - 1 : docs' = docs \cup Parts(cur, k)
  /\ pc' = "mark"
  /\ UNCHANGED <<queueVars, embedded, unclustered, batch, cur, round, pending, dirty>>
  /\ UNCHANGED <<permit, boundVars>>

\* delete_queue_row; an error is logged and the row stays.
DeleteRow ==
  /\ pc = "delete"
  /\ \/ DropRow(cur) /\ UNCHANGED faults
     \/ StorageError /\ UNCHANGED <<queued, older, latest>>
  /\ cur' = NoMessage
  /\ RowDone(batch)
  /\ UNCHANGED <<handed, attempts, failed, indexVars, batch, round, pending, dirty, permit>>
  /\ UNCHANGED <<cancelled, restarts>>

\* Mutant of Exhausted: one attempt too many.
ExhaustedLate(n) == n > MaxAttempts

Exhausted(n) == n >= MaxAttempts

\* mark_failed; an error counts as "not permanent".
MarkFailed ==
  /\ pc = "mark"
  /\ \/ /\ attempts' = [attempts EXCEPT ![cur] = @ + 1]
        /\ failed' = failed \cup {id \in {cur} : Exhausted(attempts[id] + 1)}
        /\ UNCHANGED faults
     \/ StorageError /\ UNCHANGED <<attempts, failed>>
  /\ cur' = NoMessage
  /\ RowDone(batch)
  /\ UNCHANGED <<handed, queued, older, latest, indexVars, batch, round, pending, dirty, permit>>
  /\ UNCHANGED <<cancelled, restarts>>

(***************************************************************************)
(* Embedding and clustering                                                *)
(***************************************************************************)

\* Mutant of FlushEmbeddings: the flag falls although the limit may have cut the batch.
FlushEmbeddingsClears ==
  /\ pc = "embed" /\ round < FlushRounds /\ dirty
  /\ \E new \in SUBSET (docs \ embedded) :
       /\ Cardinality(new) = FlushBatch
            \/ (new = docs \ embedded /\ Cardinality(new) < FlushBatch)
       /\ embedded' = embedded \cup new
       /\ pending' = pending + Cardinality(new)
       /\ unclustered' = unclustered + Cardinality(new)
  /\ dirty' = FALSE /\ round' = round + 1
  /\ UNCHANGED <<queueVars, docs, pc, batch, cur, permit, boundVars>>

\* flush_embeddings does work: up to FlushBatch documents, and the dirty flag
\* falls when there were fewer.
FlushEmbeddings ==
  /\ pc = "embed" /\ round < FlushRounds /\ dirty
  /\ \E new \in SUBSET (docs \ embedded) :
       /\ Cardinality(new) = FlushBatch
            \/ (new = docs \ embedded /\ Cardinality(new) < FlushBatch)
       /\ embedded' = embedded \cup new
       /\ dirty' = (Cardinality(new) = FlushBatch)
       /\ pending' = pending + Cardinality(new)
       /\ unclustered' = unclustered + Cardinality(new)
       /\ round' = IF new = {} THEN FlushRounds ELSE round + 1
  /\ UNCHANGED <<queueVars, docs, pc, batch, cur, permit, boundVars>>

\* flush_embeddings answers Ok(0) (nothing dirty) or an error: no more rounds.
FlushStops ==
  /\ pc = "embed" /\ round < FlushRounds
  /\ \/ ~dirty /\ UNCHANGED faults
     \/ dirty /\ StorageError
  /\ round' = FlushRounds
  /\ UNCHANGED <<queueVars, indexVars, pc, batch, cur, pending, dirty, permit>>
  /\ UNCHANGED <<cancelled, restarts>>

\* The rounds are over: the cascade when enough has piled up, then the top.
Cascade ==
  /\ pc = "embed" /\ round = FlushRounds
  /\ IF pending >= Threshold
       THEN FlushIndex /\ pending' = 0
       ELSE UNCHANGED <<unclustered, faults, pending>>
  /\ round' = 0
  /\ pc' = "top"
  /\ UNCHANGED <<queueVars, docs, embedded, batch, cur, dirty, permit>>
  /\ UNCHANGED <<cancelled, restarts>>

(***************************************************************************)
(* The process                                                             *)
(***************************************************************************)

Cancel ==
  /\ ~cancelled
  /\ cancelled' = TRUE
  /\ UNCHANGED <<queueVars, indexVars, drainerVars, faults, restarts>>

\* A new process: open_blocking starts with dirty = false.
Fresh ==
  /\ restarts < MaxRestarts
  /\ restarts' = restarts + 1
  /\ pc' = "top" /\ batch' = {} /\ cur' = NoMessage /\ round' = 0
  /\ pending' = 0 /\ dirty' = FALSE /\ permit' = FALSE /\ cancelled' = FALSE
  /\ UNCHANGED <<queueVars, embedded, unclustered, faults>>

\* Killed at any point; in submit, some segments may have been written.
Crash ==
  /\ Fresh
  /\ docs' = docs \/ (pc = "submit" /\ \E k \in 0 .. Segments[cur] :
                                         docs' = docs \cup Parts(cur, k))

(***************************************************************************)
(* Specification                                                           *)
(***************************************************************************)

Init ==
  /\ handed = {} /\ queued = {} /\ failed = {} /\ older = {} /\ latest = {}
  /\ attempts = [id \in Messages |-> 0]
  /\ docs = {} /\ embedded = {} /\ unclustered = 0
  /\ pc = "top" /\ batch = {} /\ cur = NoMessage /\ round = 0 /\ pending = 0
  /\ dirty = FALSE /\ permit = FALSE /\ cancelled = FALSE
  /\ faults = 0 /\ restarts = 0

DrainerStep ==
  \/ Stop \/ PopBatch \/ PopError \/ PopNothing \/ Wake
  \/ LoadMessage \/ LoadNone \/ LoadError
  \/ SubmitOk \/ SubmitError \/ DeleteRow \/ MarkFailed
  \/ FlushEmbeddings \/ FlushStops \/ Cascade

Next ==
  \/ DrainerStep
  \/ \E id \in Messages : Enqueue(id)
  \/ NextSecond \/ Cancel \/ Crash

Spec == Init /\ [][Next]_vars

\* Tokio runs the drainer whenever it is ready (every wait has a timeout), and
\* time passes.
FairSpec == Spec /\ WF_vars(DrainerStep) /\ WF_vars(NextSecond)

(***************************************************************************)
(* Properties                                                              *)
(***************************************************************************)

FullyIndexed == {id \in Messages : Parts(id, Segments[id]) \subseteq docs}

\* A message that was handed to the queue is never lost: as long as it is not
\* wholly in the index it has a queue row, whatever call fails or crashes.
NothingLost == \A id \in handed \ Orphans : id \in queued \/ id \in FullyIndexed

\* Exactly MAX_ATTEMPTS counted failures take a row out of the rotation, and
\* a row that is out of it is never picked up again.
RetryCeiling ==
  \A id \in queued : (id \in failed <=> attempts[id] = MaxAttempts)

Status(id) ==
  IF id \in failed THEN "failed" ELSE IF id \in queued THEN "pending" ELSE "absent"

Promise == INSTANCE IndexPromise
             WITH status <- [id \in Messages |-> Status(id)], full <- FullyIndexed

\* The drainer implements IndexPromise: a request ends only when the message is
\* wholly in the index, was given up on, or names no stored message.
KeepsPromise == Promise!PromiseSpec

\* Every drainable row leaves the rotation, also while the sync layer keeps
\* enqueueing others (pop_batch takes the oldest first) and calls fail.
RowsLeaveRotation ==
  \A id \in Messages : (id \in queued \ failed) ~> (id \notin queued \ failed \/ cancelled)

\* The loop notices the shutdown token from wherever it is.
DrainerStops == cancelled ~> (pc = "stopped" \/ ~cancelled)

\* As long as the process lives, a drained message that still lacks embeddings is
\* remembered by the dirty flag: a batch that LIMIT cut short, a failed call or a
\* later submit that fails half-way never clears it.  (A restart does, and only
\* new mail raises it again.)
EmbeddingOwed ==
  restarts = 0 =>
    \A id \in FullyIndexed : Parts(id, Segments[id]) \subseteq embedded \/ dirty

\* Clustering falls behind only so far (drainer.rs: the threshold "caps how stale
\* clustering can get"): the embedded documents that no cascade has covered are too
\* few for one, or still counted, or were forgotten by a cascade that failed or a
\* process that died, one count each, and a count stays within its quota.
LagBounded ==
  /\ unclustered < L0Capacity + pending + Quota * (faults + restarts)
  /\ pending <= Quota

=============================================================================
