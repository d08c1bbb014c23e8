--------------------------- MODULE IndexDrainProofs ---------------------------
(***************************************************************************)
(* Theorems about IndexDrain, for all message sets, segment counts, batch  *)
(* sizes, retry ceilings and bounds: its invariants, and that it           *)
(* implements IndexPromise.                                                *)
(***************************************************************************)
EXTENDS IndexDrain, FiniteSetTheorems, TLAPS

(***************************************************************************)
(* The inductive invariant                                                 *)
(***************************************************************************)

\* Where the drainer is inside tick: the rows it still holds are drainable
\* ones, and the one in process() is not among them.
Work ==
  /\ batch \cap failed = {}
  /\ pc \in {"submit", "delete", "mark"} =>
       cur \in queued \ (failed \cup Orphans) /\ cur \notin batch
  /\ pc = "delete" => cur \in FullyIndexed

IInv ==
  /\ TypeOK
  /\ IsFiniteSet(docs)
  /\ Work
  /\ RetryCeiling
  /\ NothingLost

\* Steps that leave the queue and the witchcraft documents alone.
Quiet == UNCHANGED <<handed, queued, attempts, failed, older, docs>>

(***************************************************************************)
(* Facts about the definitions                                             *)
(***************************************************************************)

\* The segments of a message that submit writes are finitely many documents.
LEMMA PartsFinite ==
  ASSUME NEW id, NEW k \in Nat
  PROVE  IsFiniteSet(Parts(id, k))
<1>1. IsFiniteSet({id})
  BY FS_Singleton
<1>2. IsFiniteSet(1 .. k)
  BY FS_Interval
<1> QED
  BY <1>1, <1>2, FS_Product DEF Parts

\* A prefix of the segments of a message is a set of legal documents.
LEMMA PartsType ==
  ASSUME NEW id \in Messages, NEW k \in Nat, k <= Segments[id]
  PROVE  \A d \in Parts(id, k) :
           d \in Messages \X Nat /\ d[2] \in 1 .. Segments[d[1]]
BY DrainAssumption DEF Parts

\* Documents are only ever added, so a message in the index stays there.
LEMMA FullyIndexedGrows ==
  ASSUME docs \subseteq docs'
  PROVE  FullyIndexed \subseteq FullyIndexed'
BY DEF FullyIndexed

\* Writing segments of one message completes at most that message.
LEMMA OnlyCompletes ==
  ASSUME NEW id \in Messages, NEW k \in Nat, docs' = docs \cup Parts(id, k)
  PROVE  FullyIndexed' = FullyIndexed \/ FullyIndexed' = FullyIndexed \cup {id}
<1>1. \A x \in Messages : x # id /\ x \in FullyIndexed' => x \in FullyIndexed
  BY DEF FullyIndexed, Parts
<1>2. FullyIndexed \subseteq FullyIndexed'
  BY FullyIndexedGrows
<1>3. FullyIndexed' \subseteq Messages
  BY DEF FullyIndexed
<1> QED
  BY <1>1, <1>2, <1>3

\* When every segment is written the message is in the index.
LEMMA SubmitCompletes ==
  ASSUME NEW id \in Messages, docs' = docs \cup Parts(id, Segments[id])
  PROVE  id \in FullyIndexed'
BY DEF FullyIndexed

(***************************************************************************)
(* The invariant holds initially and every step keeps it                   *)
(***************************************************************************)

\* The start satisfies the invariant.
LEMMA InitInvariant == Init => IInv
<1> SUFFICES ASSUME Init PROVE IInv
  OBVIOUS
<1>1. TypeOK
  <2>1. /\ dirty \in BOOLEAN
        /\ permit \in BOOLEAN /\ cancelled \in BOOLEAN
    BY Zenon DEF Init
  <2>2. attempts \in [Messages -> 0 .. MaxAttempts]
    BY DrainAssumption DEF Init
  <2> QED
    BY <2>1, <2>2, DrainAssumption DEF Init, TypeOK, Pcs
<1>2. IsFiniteSet(docs)
  BY FS_EmptySet DEF Init
<1>3. Work /\ RetryCeiling /\ NothingLost
  BY DEF Init, Work, RetryCeiling, NothingLost
<1> QED
  BY <1>1, <1>2, <1>3 DEF IInv

\* A step that leaves the queue and the documents alone keeps everything that
\* is said about them.
LEMMA QuietStep ==
  ASSUME IInv, Quiet
  PROVE  IsFiniteSet(docs)' /\ RetryCeiling' /\ NothingLost'
BY DEF IInv, Quiet, RetryCeiling, NothingLost, FullyIndexed, Parts

\* A message may be handed over at any moment of a drain.
LEMMA EnqueueInvariant ==
  ASSUME IInv, NEW id \in Messages, Enqueue(id)
  PROVE  IInv'
<1>1. TypeOK'
  <2>1. CASE id \in queued
    BY <2>1 DEF IInv, TypeOK, Enqueue, indexVars, boundVars
  <2>2. CASE id \notin queued
    BY <2>2, DrainAssumption DEF IInv, TypeOK, Enqueue, indexVars, boundVars
  <2> QED
    BY <2>1, <2>2
<1>2. IsFiniteSet(docs)'
  BY DEF IInv, Enqueue, indexVars
<1>3. Work'
  BY DEF IInv, Work, Enqueue, indexVars, FullyIndexed, Parts
<1>4. RetryCeiling'
  <2>1. CASE id \in queued
    BY <2>1 DEF IInv, RetryCeiling, Enqueue
  <2>2. CASE id \notin queued
    BY <2>2, DrainAssumption DEF IInv, TypeOK, RetryCeiling, Enqueue
  <2> QED
    BY <2>1, <2>2
<1>5. NothingLost'
  BY DEF IInv, NothingLost, Enqueue, indexVars, FullyIndexed, Parts
<1> QED
  BY <1>1, <1>2, <1>3, <1>4, <1>5 DEF IInv

\* The control steps of Drainer::run, from the top of the loop to the wait.
LEMMA LoopInvariant ==
  ASSUME IInv,
         NextSecond \/ Stop \/ PopBatch \/ PopError \/ PopNothing \/ Wake \/ Cancel
  PROVE  IInv'
<1>1. Quiet
  BY DEF NextSecond, Stop, PopBatch, PopError, PopNothing, Wake, Cancel, Quiet,
         queueVars, indexVars
<1>2. TypeOK'
  <2>1. CASE NextSecond
    BY <2>1 DEF IInv, TypeOK, NextSecond, indexVars, drainerVars, boundVars
  <2>2. CASE Stop
    BY <2>2 DEF IInv, TypeOK, Stop, Pcs, queueVars, indexVars, boundVars
  <2>3. CASE PopBatch
    BY <2>3 DEF IInv, TypeOK, PopBatch, Oldest, Pcs, queueVars, indexVars, boundVars
  <2>4. CASE PopError
    BY <2>4, DrainAssumption
    DEF IInv, TypeOK, PopError, StorageError, Pcs, queueVars, indexVars
  <2>5. CASE PopNothing
    <3>1. unclustered' \in Nat
      BY <2>5 DEF IInv, TypeOK, PopNothing, FlushIndex
    <3>2. faults' \in 0 .. MaxFaults
      BY <2>5, DrainAssumption DEF IInv, TypeOK, PopNothing, FlushIndex, StorageError
    <3> QED
      BY <2>5, <3>1, <3>2, DrainAssumption DEF IInv, TypeOK, PopNothing, Pcs, queueVars
  <2>6. CASE Wake
    BY <2>6 DEF IInv, TypeOK, Wake, Pcs, queueVars, indexVars, boundVars
  <2>7. CASE Cancel
    BY <2>7 DEF IInv, TypeOK, Cancel, queueVars, indexVars, drainerVars
  <2> QED
    BY <2>1, <2>2, <2>3, <2>4, <2>5, <2>6, <2>7
<1>3. Work'
  <2>1. CASE NextSecond \/ Cancel
    BY <2>1 DEF IInv, Work, NextSecond, Cancel, queueVars, indexVars, drainerVars,
                FullyIndexed, Parts
  <2>2. CASE PopBatch
    BY <2>2 DEF IInv, Work, PopBatch, Oldest, queueVars, indexVars
  <2>3. CASE Stop \/ PopError \/ PopNothing \/ Wake
    BY <2>3 DEF IInv, Work, Stop, PopError, PopNothing, Wake, queueVars
  <2> QED
    BY <2>1, <2>2, <2>3
<1> QED
  BY <1>1, <1>2, <1>3, QuietStep DEF IInv

\* get_message, and what it answers.
LEMMA LoadInvariant ==
  ASSUME IInv, LoadMessage \/ LoadNone \/ LoadError
  PROVE  IInv'
<1>1. CASE LoadMessage
  <2>1. Quiet
    BY <1>1 DEF LoadMessage, Quiet, queueVars, indexVars
  <2>2. TypeOK'
    BY <1>1 DEF IInv, TypeOK, LoadMessage, Pcs, queueVars, indexVars, boundVars
  <2>3. Work'
    BY <1>1 DEF IInv, TypeOK, Work, LoadMessage, queueVars
  <2> QED
    BY <2>1, <2>2, <2>3, QuietStep DEF IInv
<1>2. CASE LoadError
  <2>1. Quiet
    BY <1>2 DEF LoadError, Quiet, queueVars, indexVars
  <2>2. TypeOK'
    BY <1>2, DrainAssumption
    DEF IInv, TypeOK, LoadError, RowDone, StorageError, Pcs, queueVars, indexVars
  <2>3. Work'
    BY <1>2 DEF IInv, Work, LoadError, RowDone, queueVars
  <2> QED
    BY <2>1, <2>2, <2>3, QuietStep DEF IInv
<1>3. CASE LoadNone
  <2>1. PICK id \in batch \cap Orphans :
          /\ batch' = batch \ {id}
          /\ \/ DropRow(id) /\ UNCHANGED faults
             \/ StorageError /\ UNCHANGED <<queued, older, latest>>
          /\ RowDone(batch \ {id})
    BY <1>3 DEF LoadNone
  <2>2. id \in queued \ failed
    BY DEF IInv, TypeOK, Work
  <2>3. /\ queued \ {id} \subseteq queued' /\ queued' \subseteq queued
        /\ older' \subseteq queued' \X queued' /\ latest' \subseteq queued'
        /\ faults' \in 0 .. MaxFaults
    BY <2>1, DrainAssumption DEF IInv, TypeOK, DropRow, StorageError
  <2>4. UNCHANGED <<handed, attempts, failed, docs, embedded, unclustered, cur, round,
                    pending, dirty, permit, cancelled, restarts>>
    BY <1>3 DEF LoadNone, indexVars
  <2>5. TypeOK'
    BY <2>1, <2>2, <2>3, <2>4 DEF IInv, TypeOK, RowDone, Pcs
  <2>6. Work'
    BY <2>1, <2>4 DEF IInv, Work, RowDone
  <2>7. RetryCeiling'
    BY <2>3, <2>4 DEF IInv, RetryCeiling
  <2>8. NothingLost'
    BY <2>1, <2>3, <2>4 DEF IInv, NothingLost, FullyIndexed, Parts
  <2> QED
    BY <2>4, <2>5, <2>6, <2>7, <2>8 DEF IInv
<1> QED
  BY <1>1, <1>2, <1>3

\* add_doc calls extend the documents by a prefix of the current message.
LEMMA SubmitInvariant ==
  ASSUME IInv, SubmitOk \/ SubmitError
  PROVE  IInv'
<1>1. cur \in Messages /\ Segments[cur] \in Nat \ {0}
  BY DrainAssumption DEF IInv, TypeOK, Work, SubmitOk, SubmitError
<1>2. PICK k \in Nat : k <= Segments[cur] /\ docs' = docs \cup Parts(cur, k)
                       /\ (SubmitOk => k = Segments[cur])
  <2>1. CASE SubmitOk
    BY <1>1, <2>1 DEF SubmitOk
  <2>2. CASE SubmitError
    BY <1>1, <2>2 DEF SubmitError, SubmitOk
  <2> QED
    BY <2>1, <2>2
<1>3. /\ UNCHANGED <<queueVars, embedded, unclustered, batch, cur, round, pending>>
      /\ UNCHANGED <<permit, cancelled, faults, restarts>>
  BY DEF SubmitOk, SubmitError, boundVars
<1>4. (SubmitOk => pc' = "delete") /\ (SubmitError => pc' = "mark")
  BY Zenon DEF SubmitOk, SubmitError
<1>5. dirty' \in BOOLEAN
  BY Zenon DEF IInv, TypeOK, SubmitOk, SubmitError
<1>6. IsFiniteSet(docs)'
  BY <1>2, PartsFinite, FS_Union DEF IInv
<1>7. TypeOK'
  BY <1>1, <1>2, <1>3, <1>4, <1>5, PartsType DEF IInv, TypeOK, Pcs, queueVars
<1>8. Work'
  <2>1. pc' = "delete" => cur' \in FullyIndexed'
    BY <1>1, <1>2, <1>3, <1>4, SubmitCompletes DEF SubmitError
  <2> QED
    BY <1>3, <1>4, <2>1 DEF IInv, Work, SubmitOk, SubmitError, queueVars
<1>9. RetryCeiling'
  BY <1>3 DEF IInv, RetryCeiling, queueVars
<1>10. NothingLost'
  BY <1>2, <1>3, FullyIndexedGrows DEF IInv, NothingLost, queueVars
<1> QED
  BY <1>6, <1>7, <1>8, <1>9, <1>10 DEF IInv

\* delete_queue_row after a submission: the message is wholly in the index.
LEMMA DeleteInvariant ==
  ASSUME IInv, DeleteRow
  PROVE  IInv'
<1>1. cur \in queued \ (failed \cup Orphans) /\ cur \notin batch /\ cur \in FullyIndexed
  BY DEF IInv, Work, DeleteRow
<1>2. /\ queued \ {cur} \subseteq queued' /\ queued' \subseteq queued
      /\ older' \subseteq queued' \X queued' /\ latest' \subseteq queued'
      /\ faults' \in 0 .. MaxFaults
  BY DrainAssumption DEF IInv, TypeOK, DeleteRow, DropRow, StorageError
<1>3. /\ UNCHANGED <<handed, attempts, failed, docs, embedded, unclustered, batch, round>>
      /\ UNCHANGED <<pending, dirty, permit, cancelled, restarts>>
      /\ cur' = NoMessage /\ pc' \in {"embed", "load"}
  BY DEF DeleteRow, RowDone, indexVars
<1>4. TypeOK'
  BY <1>1, <1>2, <1>3 DEF IInv, TypeOK, Pcs
<1>5. Work'
  BY <1>3 DEF IInv, Work
<1>6. RetryCeiling'
  BY <1>2, <1>3 DEF IInv, RetryCeiling
<1>7. NothingLost'
  BY <1>1, <1>2, <1>3 DEF IInv, NothingLost, FullyIndexed, Parts
<1> QED
  BY <1>3, <1>4, <1>5, <1>6, <1>7 DEF IInv

\* mark_failed: the count goes up by one and the ceiling is exact.
LEMMA MarkInvariant ==
  ASSUME IInv, MarkFailed
  PROVE  IInv'
<1>1. cur \in queued \ failed /\ cur \in Messages /\ cur \notin batch
  BY DEF IInv, TypeOK, Work, MarkFailed
<1>2. attempts[cur] \in 0 .. MaxAttempts - 1
  BY <1>1, DrainAssumption DEF IInv, TypeOK, RetryCeiling
<1>3. /\ UNCHANGED <<handed, queued, older, latest, docs, embedded, unclustered, batch>>
      /\ UNCHANGED <<round, pending, dirty, permit, cancelled, restarts>>
      /\ cur' = NoMessage /\ pc' \in {"embed", "load"}
  BY DEF MarkFailed, RowDone, indexVars
<1>4. \/ /\ attempts' = [attempts EXCEPT ![cur] = @ + 1]
         /\ failed' = failed \cup {id \in {cur} : Exhausted(attempts[id] + 1)}
         /\ faults' = faults
      \/ faults' \in 0 .. MaxFaults /\ attempts' = attempts /\ failed' = failed
  BY DrainAssumption DEF IInv, TypeOK, MarkFailed, StorageError
<1>5. TypeOK'
  BY <1>1, <1>2, <1>3, <1>4, DrainAssumption DEF IInv, TypeOK, Pcs
<1>6. Work'
  BY <1>1, <1>3, <1>4 DEF IInv, Work
<1>7. RetryCeiling'
  BY <1>1, <1>2, <1>3, <1>4, DrainAssumption DEF IInv, TypeOK, RetryCeiling, Exhausted
<1>8. NothingLost'
  BY <1>3 DEF IInv, NothingLost, FullyIndexed, Parts
<1> QED
  BY <1>3, <1>5, <1>6, <1>7, <1>8 DEF IInv

\* The embedding rounds and the cascade.
LEMMA EmbedInvariant ==
  ASSUME IInv, FlushEmbeddings \/ FlushStops \/ Cascade
  PROVE  IInv'
<1>1. Quiet
  BY DEF FlushEmbeddings, FlushStops, Cascade, Quiet, queueVars, indexVars
<1>2. TypeOK'
  <2>1. CASE FlushEmbeddings
    <3>1. PICK new \in SUBSET (docs \ embedded) :
            /\ embedded' = embedded \cup new
            /\ dirty' = (Cardinality(new) = FlushBatch)
            /\ pending' = pending + Cardinality(new)
            /\ unclustered' = unclustered + Cardinality(new)
            /\ round' = IF new = {} THEN FlushRounds ELSE round + 1
      BY <2>1 DEF FlushEmbeddings
    <3>2. Cardinality(new) \in Nat
      BY FS_Subset, FS_CardinalityType DEF IInv
    <3>3. pending' \in Nat /\ unclustered' \in Nat
      BY <3>1, <3>2 DEF IInv, TypeOK
    <3>4. dirty' \in BOOLEAN
      BY <3>1, Zenon
    <3>5. round' \in 0 .. FlushRounds
      BY <2>1, <3>1, DrainAssumption DEF IInv, TypeOK, FlushEmbeddings
    <3> QED
      BY <2>1, <3>1, <3>3, <3>4, <3>5
      DEF IInv, TypeOK, FlushEmbeddings, queueVars, boundVars
  <2>2. CASE FlushStops
    BY <2>2, DrainAssumption
    DEF IInv, TypeOK, FlushStops, StorageError, queueVars, indexVars
  <2>3. CASE Cascade
    <3>1. unclustered' \in Nat
      BY <2>3 DEF IInv, TypeOK, Cascade, FlushIndex
    <3>2. faults' \in 0 .. MaxFaults /\ pending' \in Nat
      BY <2>3, DrainAssumption DEF IInv, TypeOK, Cascade, FlushIndex, StorageError
    <3> QED
      BY <2>3, <3>1, <3>2, DrainAssumption DEF IInv, TypeOK, Cascade, Pcs, queueVars
  <2> QED
    BY <2>1, <2>2, <2>3
<1>3. Work'
  BY DEF IInv, Work, FlushEmbeddings, FlushStops, Cascade, queueVars
<1> QED
  BY <1>1, <1>2, <1>3, QuietStep DEF IInv

\* A crash keeps what is on disk, which may be more than the drainer knew.
LEMMA CrashInvariant ==
  ASSUME IInv, Crash
  PROVE  IInv'
<1>1. UNCHANGED <<handed, queued, attempts, failed, older, latest>>
  BY DEF Crash, Fresh, queueVars
<1>2. /\ docs \subseteq docs' /\ IsFiniteSet(docs')
      /\ \A d \in docs' : d \in Messages \X Nat /\ d[2] \in 1 .. Segments[d[1]]
  <2>1. CASE docs' = docs
    BY <2>1 DEF IInv, TypeOK
  <2>2. CASE docs' # docs
    <3>1. cur \in Messages /\ Segments[cur] \in Nat
      BY <2>2, DrainAssumption DEF IInv, TypeOK, Work, Crash
    <3>2. PICK k \in 0 .. Segments[cur] : docs' = docs \cup Parts(cur, k)
      BY <2>2 DEF Crash
    <3>3. k \in Nat /\ k <= Segments[cur]
      BY <3>1
    <3> QED
      BY <3>1, <3>2, <3>3, PartsFinite, PartsType, FS_Union DEF IInv, TypeOK
  <2> QED
    BY <2>1, <2>2
<1>3. TypeOK'
  <2>1. dirty' \in BOOLEAN /\ permit' \in BOOLEAN /\ cancelled' \in BOOLEAN
    BY Zenon DEF Crash, Fresh
  <2> QED
    BY <1>1, <1>2, <2>1, DrainAssumption DEF IInv, TypeOK, Crash, Fresh, Pcs
<1>4. Work'
  BY DEF Work, Crash, Fresh
<1>5. RetryCeiling'
  BY <1>1 DEF IInv, RetryCeiling
<1>6. NothingLost'
  BY <1>1, <1>2, FullyIndexedGrows DEF IInv, NothingLost
<1> QED
  BY <1>2, <1>3, <1>4, <1>5, <1>6 DEF IInv

\* A step that changes nothing.
LEMMA StutterInvariant ==
  ASSUME IInv, UNCHANGED vars
  PROVE  IInv'
BY DEF IInv, TypeOK, Work, RetryCeiling, NothingLost, FullyIndexed, Parts,
       vars, queueVars, indexVars, drainerVars, boundVars

\* No step breaks the invariant.
LEMMA NextInvariant == IInv /\ [Next]_vars => IInv'
<1> SUFFICES ASSUME IInv, [Next]_vars PROVE IInv'
  OBVIOUS
<1>1. CASE \E id \in Messages : Enqueue(id)
  BY <1>1, EnqueueInvariant
<1>2. CASE NextSecond \/ Stop \/ PopBatch \/ PopError \/ PopNothing \/ Wake \/ Cancel
  BY <1>2, LoopInvariant
<1>3. CASE LoadMessage \/ LoadNone \/ LoadError
  BY <1>3, LoadInvariant
<1>4. CASE SubmitOk \/ SubmitError
  BY <1>4, SubmitInvariant
<1>5. CASE DeleteRow
  BY <1>5, DeleteInvariant
<1>6. CASE MarkFailed
  BY <1>6, MarkInvariant
<1>7. CASE FlushEmbeddings \/ FlushStops \/ Cascade
  BY <1>7, EmbedInvariant
<1>8. CASE Crash
  BY <1>8, CrashInvariant
<1>9. CASE UNCHANGED vars
  BY <1>9, StutterInvariant
<1> QED
  BY <1>1, <1>2, <1>3, <1>4, <1>5, <1>6, <1>7, <1>8, <1>9 DEF Next, DrainerStep

\* The invariant holds always.
LEMMA Invariant == Spec => []IInv
BY InitInvariant, NextInvariant, PTL DEF Spec

(***************************************************************************)
(* Theorems                                                                *)
(***************************************************************************)

\* Every variable of the queue, the index and the drainer keeps its type.
THEOREM TypeCorrect == Spec => []TypeOK
<1>1. IInv => TypeOK
  BY DEF IInv
<1> QED
  BY <1>1, Invariant, PTL

\* A message handed to the queue has a queue row until it is wholly in the
\* index, whatever storage call fails and wherever the process is killed.
THEOREM QueueLosesNothing == Spec => []NothingLost
<1>1. IInv => NothingLost
  BY DEF IInv
<1> QED
  BY <1>1, Invariant, PTL

\* A row leaves the rotation after exactly MAX_ATTEMPTS counted failures.
THEOREM CeilingExact == Spec => []RetryCeiling
<1>1. IInv => RetryCeiling
  BY DEF IInv
<1> QED
  BY <1>1, Invariant, PTL

(***************************************************************************)
(* What is still owed to a message that left the queue                     *)
(***************************************************************************)

\* add_doc writes the segments of a message in order and nothing removes one.
PrefixClosed == \A d \in docs : Parts(d[1], d[2]) \subseteq docs

Owed == PrefixClosed /\ EmbeddingOwed

\* Steps that leave the index and what the drainer remembers of it alone.
Unowing == UNCHANGED <<docs, embedded, dirty, restarts>>

\* Steps that leave index, embeddings and dirty flag alone owe nothing new.
LEMMA UnowingStep ==
  ASSUME IInv, Owed, Unowing
  PROVE  Owed'
<1>1. PrefixClosed' /\ FullyIndexed' = FullyIndexed
  BY DEF Owed, Unowing, PrefixClosed, FullyIndexed, Parts
<1>2. EmbeddingOwed'
  BY <1>1 DEF Owed, Unowing, EmbeddingOwed, Parts
<1> QED
  BY <1>1, <1>2 DEF Owed

\* Another prefix of a message keeps the documents of each message a prefix.
LEMMA PrefixGrows ==
  ASSUME PrefixClosed, NEW id, NEW k \in Nat, docs' = docs \cup Parts(id, k)
  PROVE  PrefixClosed'
BY DEF PrefixClosed, Parts

\* A submission that fails half-way completes no message: the last segment of one
\* is only written after all the others.
LEMMA PartialCompletesNone ==
  ASSUME IInv, PrefixClosed, NEW id \in Messages, NEW k \in 0 .. Segments[id] - 1,
         docs' = docs \cup Parts(id, k)
  PROVE  FullyIndexed' = FullyIndexed
<1>1. Segments[id] \in Nat \ {0}
  BY DrainAssumption
<1>2. ASSUME id \in FullyIndexed' PROVE id \in FullyIndexed
  <2>1. <<id, Segments[id]>> \in docs'
    BY <1>1, <1>2 DEF FullyIndexed, Parts
  <2>2. <<id, Segments[id]>> \in docs
    BY <1>1, <2>1 DEF Parts
  <2> QED  BY <2>2 DEF PrefixClosed, FullyIndexed
<1> QED
  BY <1>1, <1>2, OnlyCompletes, FullyIndexedGrows

\* The flag stays up when the limit cut the batch.
LEMMA FlushOwes ==
  ASSUME IInv, Owed, FlushEmbeddings
  PROVE  Owed'
<1>1. PICK new \in SUBSET (docs \ embedded) :
        /\ Cardinality(new) = FlushBatch
             \/ (new = docs \ embedded /\ Cardinality(new) < FlushBatch)
        /\ embedded' = embedded \cup new
        /\ dirty' = (Cardinality(new) = FlushBatch)
  BY DEF FlushEmbeddings
<1>2. docs' = docs /\ restarts' = restarts
  BY DEF FlushEmbeddings, boundVars
<1>3. PrefixClosed' /\ FullyIndexed' = FullyIndexed
  BY <1>2 DEF Owed, PrefixClosed, FullyIndexed, Parts
<1>4. EmbeddingOwed'
  <2>1. CASE Cardinality(new) = FlushBatch
    <3>1. dirty'
      BY <1>1, <2>1
    <3> QED  BY <3>1 DEF EmbeddingOwed
  <2>2. CASE new = docs \ embedded
    <3>1. docs \subseteq embedded'
      BY <1>1, <2>2
    <3> QED  BY <1>2, <3>1 DEF EmbeddingOwed, FullyIndexed, Parts
  <2> QED  BY <1>1, <2>1, <2>2
<1> QED
  BY <1>3, <1>4 DEF Owed

\* No step forgets an embedding.
LEMMA NextOwed == IInv /\ Owed /\ [Next]_vars => Owed'
<1> SUFFICES ASSUME IInv, Owed, [Next]_vars PROVE Owed'
  OBVIOUS
<1>1. CASE (\E id \in Messages : Enqueue(id)) \/ NextSecond \/ Stop \/ PopBatch \/ Wake \/ Cancel
           \/ LoadMessage \/ UNCHANGED vars
  BY <1>1, UnowingStep
  DEF Unowing, Enqueue, NextSecond, Stop, PopBatch, Wake, Cancel, LoadMessage, indexVars,
      drainerVars, boundVars, vars
<1>2. CASE PopError \/ LoadNone \/ LoadError \/ DeleteRow \/ MarkFailed \/ FlushStops
  BY <1>2, UnowingStep
  DEF Unowing, PopError, LoadNone, LoadError, DeleteRow, MarkFailed, FlushStops, indexVars
<1>3. CASE PopNothing \/ Cascade
  BY <1>3, UnowingStep DEF Unowing, PopNothing, Cascade
<1>4. CASE SubmitOk
  <2>1. docs' = docs \cup Parts(cur, Segments[cur]) /\ dirty'
    BY <1>4 DEF SubmitOk
  <2>2. cur \in Messages /\ Segments[cur] \in Nat
    BY <1>4, DrainAssumption DEF SubmitOk, IInv, TypeOK, Work
  <2>3. PrefixClosed' /\ EmbeddingOwed'
    BY <2>1, <2>2, PrefixGrows DEF Owed, EmbeddingOwed
  <2> QED  BY <2>3 DEF Owed
<1>5. CASE SubmitError
  <2>1. cur \in Messages /\ Segments[cur] \in Nat
    BY <1>5, DrainAssumption DEF SubmitError, IInv, TypeOK, Work
  <2>2. PICK k \in 0 .. Segments[cur] - 1 : docs' = docs \cup Parts(cur, k)
    BY <1>5 DEF SubmitError
  <2>3. PrefixClosed' /\ FullyIndexed' = FullyIndexed
    BY <2>1, <2>2, PrefixGrows, PartialCompletesNone DEF Owed
  <2>4. UNCHANGED <<embedded, dirty, restarts>>
    BY <1>5 DEF SubmitError, boundVars
  <2> QED  BY <2>3, <2>4 DEF Owed, EmbeddingOwed, Parts
<1>6. CASE FlushEmbeddings
  BY <1>6, FlushOwes
<1>7. CASE Crash
  <2>1. restarts' # 0
    BY <1>7 DEF Crash, Fresh, IInv, TypeOK
  <2>2. PrefixClosed'
    <3>1. CASE docs' = docs
      BY <3>1 DEF Owed, PrefixClosed, Parts
    <3>2. CASE docs' # docs
      <4>1. cur \in Messages /\ Segments[cur] \in Nat
        BY <1>7, <3>2, DrainAssumption DEF Crash, IInv, TypeOK, Work
      <4>2. PICK k \in 0 .. Segments[cur] : docs' = docs \cup Parts(cur, k)
        BY <1>7, <3>2 DEF Crash
      <4> QED  BY <4>1, <4>2, PrefixGrows DEF Owed
    <3> QED  BY <3>1, <3>2
  <2> QED  BY <2>1, <2>2 DEF Owed, EmbeddingOwed
<1> QED
  BY <1>1, <1>2, <1>3, <1>4, <1>5, <1>6, <1>7 DEF Next, DrainerStep

\* What is owed is remembered always.
LEMMA OwedInvariant == Spec => []Owed
<1>1. Init => Owed
  BY DEF Init, Owed, PrefixClosed, EmbeddingOwed, FullyIndexed
<1> QED
  BY <1>1, Invariant, NextOwed, PTL DEF Spec

\* As long as the process lives, the dirty flag is up while a message in the index
\* lacks an embedding, whatever LIMIT of the flush and whichever calls fail.
THEOREM EmbeddingStaysOwed == Spec => []EmbeddingOwed
<1>1. Owed => EmbeddingOwed
  BY DEF Owed
<1> QED
  BY <1>1, OwedInvariant, PTL

(***************************************************************************)
(* How far clustering falls behind                                         *)
(***************************************************************************)

\* The threshold is looked at after the rounds, so only an iteration that is
\* embedding holds more than it, by what its rounds so far can have added.
Counted ==
  /\ pc # "embed" => pending < Threshold
  /\ pc = "embed" => pending < Threshold + round * FlushBatch

\* What the rounds add stays within FlushRounds * FlushBatch.
LEMMA RoundProducts ==
  ASSUME NEW r \in 0 .. FlushRounds
  PROVE  /\ r * FlushBatch \in Nat
         /\ r * FlushBatch <= FlushRounds * FlushBatch
         /\ (r + 1) * FlushBatch = r * FlushBatch + FlushBatch
         /\ FlushRounds * FlushBatch \in Nat
BY DrainAssumption

\* One more failure or restart allows one more quota.
LEMMA QuotaProducts ==
  ASSUME NEW n \in Nat
  PROVE  /\ Quota \in Nat /\ Quota * n \in Nat
         /\ Quota * (n + 1) = Quota * n + Quota
<1>1. Quota \in Nat
  BY DrainAssumption, RoundProducts DEF Quota
<1> QED
  BY <1>1

\* A count within the rounds is within the quota.
LEMMA CountedWithinQuota ==
  IInv /\ Counted => pending <= Quota
<1> SUFFICES ASSUME IInv, Counted PROVE pending <= Quota
  OBVIOUS
<1>1. round \in 0 .. FlushRounds /\ pending \in Nat
  BY DEF IInv, TypeOK
<1> QED
  BY <1>1, RoundProducts, DrainAssumption DEF Counted, Quota

\* More failures and restarts never allow less.
LEMMA QuotaMonotone ==
  ASSUME NEW m \in Nat, NEW n \in Nat, m <= n
  PROVE  Quota * m <= Quota * n
<1>1. Quota \in Nat
  BY QuotaProducts
<1> QED
  BY <1>1

\* The lag in numbers: u documents behind, p counted, after f failures and
\* restarts.
Lag(u, p, f) == u < L0Capacity + p + Quota * f

\* Embeddings add to the lag what they add to the count, and failures only
\* allow more.
LEMMA LagGrows ==
  ASSUME NEW u \in Nat, NEW p \in Nat, NEW k \in Nat,
         NEW m \in Nat, NEW n \in Nat, m <= n, Lag(u, p, m)
  PROVE  Lag(u + k, p + k, n)
<1>1. Quota * m \in Nat /\ Quota * n \in Nat /\ Quota * m <= Quota * n
  BY QuotaProducts, QuotaMonotone
<1> QED
  BY <1>1, DrainAssumption DEF Lag

\* A count within the quota may be forgotten against one failure or restart.
LEMMA LagForgets ==
  ASSUME NEW u \in Nat, NEW p \in Nat, NEW m \in Nat, p <= Quota, Lag(u, p, m)
  PROVE  Lag(u, 0, m + 1)
<1>1. Quota \in Nat /\ Quota * m \in Nat /\ Quota * (m + 1) = Quota * m + Quota
  BY QuotaProducts
<1> QED
  BY <1>1, DrainAssumption DEF Lag

\* Too few documents for a cascade are behind by less than its capacity.
LEMMA LagSmall ==
  ASSUME NEW u \in Nat, NEW m \in Nat, u < L0Capacity
  PROVE  Lag(u, 0, m)
<1>1. Quota * m \in Nat
  BY QuotaProducts
<1> QED
  BY <1>1, DrainAssumption DEF Lag

\* What is behind now.
LagNow == Lag(unclustered, pending, faults + restarts)

\* The count of an iteration stays within its rounds.
LEMMA NextCounted ==
  ASSUME IInv, Counted, [Next]_vars
  PROVE  Counted'
<1>1. pending \in Nat /\ round \in 0 .. FlushRounds /\ round * FlushBatch \in Nat
  BY RoundProducts DEF IInv, TypeOK
<1>2. CASE FlushEmbeddings
  <2>1. PICK new \in SUBSET (docs \ embedded) :
          /\ Cardinality(new) = FlushBatch
               \/ (new = docs \ embedded /\ Cardinality(new) < FlushBatch)
          /\ pending' = pending + Cardinality(new)
          /\ round' = IF new = {} THEN FlushRounds ELSE round + 1
    BY <1>2 DEF FlushEmbeddings
  <2>2. Cardinality(new) \in Nat /\ (new = {} => Cardinality(new) = 0)
    BY FS_Subset, FS_CardinalityType, FS_EmptySet DEF IInv
  <2>3. pc = "embed" /\ pc' = "embed"
    BY <1>2 DEF FlushEmbeddings
  <2>4. CASE new = {}
    BY <1>1, <2>1, <2>2, <2>3, <2>4, RoundProducts, DrainAssumption DEF Counted
  <2>5. CASE new # {}
    <3>1. round' * FlushBatch = round * FlushBatch + FlushBatch
      BY <1>1, <2>1, <2>5, RoundProducts
    <3> QED
      BY <1>1, <2>1, <2>2, <2>3, <3>1, DrainAssumption DEF Counted
  <2> QED  BY <2>4, <2>5
<1>3. CASE FlushStops
  BY <1>1, <1>3, RoundProducts, DrainAssumption DEF FlushStops, Counted
<1>4. CASE Cascade \/ PopNothing \/ Crash
  BY <1>1, <1>4, DrainAssumption DEF Cascade, PopNothing, Crash, Fresh, Counted
<1>5. CASE LoadNone \/ LoadError \/ DeleteRow \/ MarkFailed
  BY <1>1, <1>5, DrainAssumption
  DEF LoadNone, LoadError, DeleteRow, MarkFailed, RowDone, Counted
<1>6. CASE Stop \/ PopBatch \/ PopError \/ Wake \/ LoadMessage \/ SubmitOk \/ SubmitError
  BY <1>6 DEF Stop, PopBatch, PopError, Wake, LoadMessage, SubmitOk, SubmitError, Counted
<1>7. CASE (\E id \in Messages : Enqueue(id)) \/ NextSecond \/ Cancel \/ UNCHANGED vars
  BY <1>7 DEF Enqueue, NextSecond, Cancel, vars, drainerVars, Counted
<1> QED
  BY <1>2, <1>3, <1>4, <1>5, <1>6, <1>7 DEF Next, DrainerStep

\* A step that leaves lag, count and restarts alone.
LEMMA UnlaggingStep ==
  ASSUME IInv, LagNow, UNCHANGED <<unclustered, pending, restarts>>,
         faults' = faults \/ StorageError
  PROVE  LagNow'
<1>1. /\ unclustered \in Nat /\ pending \in Nat /\ faults + restarts \in Nat
      /\ faults \in Nat /\ restarts \in Nat
  BY DEF IInv, TypeOK
<1>2. CASE faults' = faults
  BY <1>2 DEF LagNow, Lag, Quota
<1>3. CASE faults' = faults + 1
  <2>1. faults + 1 + restarts \in Nat /\ faults + restarts <= faults + 1 + restarts
    BY <1>1
  <2>2. Lag(unclustered + 0, pending + 0, faults + 1 + restarts)
    BY <1>1, <2>1, LagGrows DEF LagNow
  <2> QED  BY <1>1, <1>3, <2>2 DEF LagNow, Lag, Quota
<1> QED  BY <1>2, <1>3 DEF StorageError

\* A cascade covers everything, has too little to do, or fails and is counted.
LEMMA CascadeLag ==
  ASSUME IInv, Counted, LagNow, FlushIndex, pending' = 0, restarts' = restarts
  PROVE  LagNow'
<1>1. /\ unclustered \in Nat /\ pending \in Nat /\ faults + restarts \in Nat
      /\ faults \in Nat /\ restarts \in Nat /\ pending <= Quota
  BY CountedWithinQuota DEF IInv, TypeOK
<1>2. CASE unclustered' < L0Capacity /\ unclustered' \in Nat /\ faults' = faults
  BY <1>1, <1>2, LagSmall DEF LagNow, Lag, Quota
<1>3. CASE unclustered' = unclustered /\ faults' = faults + 1
  <2>1. Lag(unclustered, 0, faults + restarts + 1)
    BY <1>1, LagForgets DEF LagNow
  <2>2. faults' + restarts' = faults + restarts + 1
    BY <1>1, <1>3
  <2> QED  BY <1>3, <2>1, <2>2 DEF LagNow, Lag, Quota
<1> QED
  BY <1>1, <1>2, <1>3, DrainAssumption DEF FlushIndex, StorageError

\* No step lets clustering fall further behind than is counted or forgiven.
LEMMA NextLag ==
  ASSUME IInv, Counted, LagNow, [Next]_vars
  PROVE  LagNow'
<1>1. /\ unclustered \in Nat /\ pending \in Nat /\ faults + restarts \in Nat
      /\ faults \in Nat /\ restarts \in Nat /\ pending <= Quota
  BY CountedWithinQuota DEF IInv, TypeOK
<1>2. CASE FlushEmbeddings
  <2>1. PICK new \in SUBSET (docs \ embedded) :
          /\ pending' = pending + Cardinality(new)
          /\ unclustered' = unclustered + Cardinality(new)
    BY <1>2 DEF FlushEmbeddings
  <2>2. Cardinality(new) \in Nat
    BY FS_Subset, FS_CardinalityType DEF IInv
  <2>3. faults' = faults /\ restarts' = restarts
    BY <1>2 DEF FlushEmbeddings, boundVars
  <2>4. faults + restarts <= faults + restarts
    BY <1>1
  <2>5. Lag(unclustered + Cardinality(new), pending + Cardinality(new), faults + restarts)
    BY <1>1, <2>2, <2>4, LagGrows DEF LagNow
  <2> QED  BY <2>1, <2>3, <2>5 DEF LagNow, Lag, Quota
<1>3. CASE Cascade
  <2>1. CASE pending >= Threshold
    BY <1>3, <2>1, CascadeLag DEF Cascade
  <2>2. CASE ~(pending >= Threshold)
    BY <1>3, <2>2, UnlaggingStep DEF Cascade
  <2> QED  BY <2>1, <2>2
<1>4. CASE PopNothing
  <2>1. CASE pending > 0
    BY <1>4, <2>1, CascadeLag DEF PopNothing
  <2>2. CASE ~(pending > 0)
    BY <1>1, <1>4, <2>2, UnlaggingStep DEF PopNothing
  <2> QED  BY <2>1, <2>2
<1>5. CASE Crash
  <2>1. Lag(unclustered, 0, faults + restarts + 1)
    BY <1>1, LagForgets DEF LagNow
  <2>2. unclustered' = unclustered /\ pending' = 0 /\ faults' + restarts' = faults + restarts + 1
    BY <1>1, <1>5 DEF Crash, Fresh
  <2> QED  BY <2>1, <2>2 DEF LagNow, Lag, Quota
<1>6. CASE PopError \/ LoadNone \/ LoadError \/ DeleteRow \/ MarkFailed \/ FlushStops
  BY <1>6, UnlaggingStep
  DEF PopError, LoadNone, LoadError, DeleteRow, MarkFailed, FlushStops, indexVars
<1>7. CASE Stop \/ PopBatch \/ Wake \/ LoadMessage \/ SubmitOk \/ SubmitError
  BY <1>7, UnlaggingStep
  DEF Stop, PopBatch, Wake, LoadMessage, SubmitOk, SubmitError, indexVars, boundVars
<1>8. CASE (\E id \in Messages : Enqueue(id)) \/ NextSecond \/ Cancel \/ UNCHANGED vars
  BY <1>8, UnlaggingStep
  DEF Enqueue, NextSecond, Cancel, vars, indexVars, drainerVars, boundVars
<1> QED
  BY <1>2, <1>3, <1>4, <1>5, <1>6, <1>7, <1>8 DEF Next, DrainerStep

\* Clustering never falls further behind than witchcraft's own capacity, the count
\* that is running, and one quota for every failed call and every restart: a
\* cascade that does nothing or fails, and a count that is reset, are paid for.
THEOREM LagIsBounded == Spec => []LagBounded
<1>1. Init => Counted /\ LagNow
  <2> SUFFICES ASSUME Init PROVE Counted /\ LagNow
    OBVIOUS
  <2>1. Lag(0, 0, 0)
    BY LagSmall, DrainAssumption
  <2>2. faults + restarts = 0
    BY DEF Init
  <2> QED  BY <2>1, <2>2, DrainAssumption DEF Init, Counted, LagNow
<1>2. IInv /\ Counted /\ LagNow /\ [Next]_vars => Counted' /\ LagNow'
  BY NextCounted, NextLag
<1>3. IInv /\ Counted /\ LagNow => LagBounded
  BY CountedWithinQuota DEF LagNow, Lag, LagBounded
<1> QED
  BY <1>1, <1>2, <1>3, Invariant, PTL DEF Spec

(***************************************************************************)
(* IndexDrain implements IndexPromise                                      *)
(***************************************************************************)

\* The abstract status of every message.
StatusMap == [id \in Messages |-> Status(id)]

\* A step of IndexPromise under the refinement mapping, or no change.
PromiseStep == Promise!PromiseNext \/ UNCHANGED <<StatusMap, FullyIndexed>>

\* A step that leaves the rows and the documents alone is not seen.
LEMMA UnseenStep ==
  ASSUME UNCHANGED <<queued, failed, docs>>
  PROVE  PromiseStep
BY DEF PromiseStep, StatusMap, Status, FullyIndexed, Parts

\* A new row is a request, a second request for a row is absorbed.
LEMMA EnqueueRequests ==
  ASSUME IInv, NEW id \in Messages, Enqueue(id)
  PROVE  PromiseStep
<1>1. CASE id \in queued
  BY <1>1, UnseenStep DEF Enqueue, indexVars
<1>2. CASE id \notin queued
  <2>1. queued' = queued \cup {id} /\ failed' = failed /\ docs' = docs /\ id \notin failed
    BY <1>2 DEF IInv, TypeOK, Enqueue, indexVars
  <2>2. FullyIndexed' = FullyIndexed
    BY <2>1 DEF FullyIndexed, Parts
  <2>3. StatusMap[id] = "absent"
    BY <1>2, <2>1 DEF StatusMap, Status
  <2>4. StatusMap' = [StatusMap EXCEPT ![id] = "pending"]
    BY <1>2, <2>1 DEF StatusMap, Status
  <2> QED
    BY <2>2, <2>3, <2>4 DEF PromiseStep, StatusMap, Promise!PromiseNext, Promise!Request
<1> QED
  BY <1>1, <1>2

\* Dropping a row is allowed when the message is in the index or has no row.
LEMMA DropFinishes ==
  ASSUME IInv, NEW id \in queued \ failed, id \in Orphans \/ id \in FullyIndexed,
         DropRow(id), UNCHANGED <<failed, docs>>
  PROVE  PromiseStep
<1>1. id \in Messages
  BY DEF IInv, TypeOK
<1>2. FullyIndexed' = FullyIndexed
  BY DEF FullyIndexed, Parts
<1>3. StatusMap[id] = "pending"
  BY <1>1 DEF StatusMap, Status
<1>4. StatusMap' = [StatusMap EXCEPT ![id] = "absent"]
  BY <1>1 DEF IInv, TypeOK, StatusMap, Status, DropRow
<1>5. Promise!Finish(id) \/ Promise!Discard(id)
  BY <1>2, <1>3, <1>4 DEF StatusMap, Promise!Finish, Promise!Discard
<1> QED
  BY <1>1, <1>5 DEF PromiseStep, Promise!PromiseNext

\* Writing segments of the message in process() indexes it, or nothing yet.
LEMMA SubmitIndexes ==
  ASSUME IInv, pc = "submit", NEW k \in Nat, docs' = docs \cup Parts(cur, k),
         UNCHANGED <<queued, failed>>
  PROVE  PromiseStep
<1>1. cur \in Messages /\ cur \in queued \ failed /\ cur \notin Orphans
  BY DEF IInv, TypeOK, Work
<1>2. StatusMap' = StatusMap
  BY DEF StatusMap, Status
<1>3. StatusMap[cur] = "pending"
  BY <1>1 DEF StatusMap, Status
<1>4. CASE FullyIndexed' = FullyIndexed
  BY <1>2, <1>4 DEF PromiseStep
<1>5. CASE FullyIndexed' = FullyIndexed \cup {cur}
  <2>1. Promise!Index(cur)
    BY <1>1, <1>2, <1>3, <1>5 DEF StatusMap, Promise!Index
  <2> QED
    BY <1>1, <2>1 DEF PromiseStep, Promise!PromiseNext
<1> QED
  BY <1>1, <1>4, <1>5, OnlyCompletes

\* A counted failure changes nothing, or is the last one.
LEMMA MarkGivesUp ==
  ASSUME IInv, MarkFailed
  PROVE  PromiseStep
<1>1. cur \in queued \ failed /\ cur \in Messages
  BY DEF IInv, TypeOK, Work, MarkFailed
<1>2. queued' = queued /\ docs' = docs
  BY DEF MarkFailed, indexVars
<1>3. failed' = failed \/ failed' = failed \cup {cur}
  BY DEF MarkFailed
<1>4. CASE failed' = failed
  BY <1>2, <1>4, UnseenStep
<1>5. CASE failed' = failed \cup {cur}
  <2>1. FullyIndexed' = FullyIndexed
    BY <1>2 DEF FullyIndexed, Parts
  <2>2. StatusMap[cur] = "pending"
    BY <1>1 DEF StatusMap, Status
  <2>3. StatusMap' = [StatusMap EXCEPT ![cur] = "failed"]
    BY <1>1, <1>2, <1>5 DEF StatusMap, Status
  <2> QED
    BY <1>1, <2>1, <2>2, <2>3 DEF PromiseStep, StatusMap, Promise!PromiseNext, Promise!GiveUp
<1> QED
  BY <1>3, <1>4, <1>5

\* Every step is one of the promise or none.
LEMMA NextPromise == IInv /\ [Next]_vars => PromiseStep
<1> SUFFICES ASSUME IInv, [Next]_vars PROVE PromiseStep
  OBVIOUS
<1>1. CASE \E id \in Messages : Enqueue(id)
  BY <1>1, EnqueueRequests
<1>2. CASE NextSecond \/ Stop \/ PopBatch \/ PopError \/ PopNothing \/ Wake \/ Cancel
  BY <1>2, UnseenStep DEF NextSecond, Stop, PopBatch, PopError, PopNothing, Wake, Cancel,
                          queueVars, indexVars
<1>3. CASE LoadMessage \/ LoadError
  BY <1>3, UnseenStep DEF LoadMessage, LoadError, queueVars, indexVars
<1>4. CASE LoadNone
  <2>1. PICK id \in batch \cap Orphans :
          DropRow(id) \/ UNCHANGED <<queued, older, latest>>
    BY <1>4 DEF LoadNone
  <2>2. UNCHANGED <<failed, docs>> /\ id \in queued \ failed
    BY <1>4 DEF LoadNone, indexVars, IInv, TypeOK, Work
  <2> QED
    BY <2>1, <2>2, DropFinishes, UnseenStep
<1>5. CASE SubmitOk \/ SubmitError
  <2>1. pc = "submit" /\ UNCHANGED <<queued, failed>>
    BY <1>5 DEF SubmitOk, SubmitError, queueVars
  <2>2. Segments[cur] \in Nat
    BY <2>1, DrainAssumption DEF IInv, TypeOK, Work
  <2>3. \E k \in Nat : docs' = docs \cup Parts(cur, k)
    BY <1>5, <2>2 DEF SubmitOk, SubmitError
  <2> QED
    BY <2>1, <2>3, SubmitIndexes
<1>6. CASE DeleteRow
  <2>1. cur \in queued \ failed /\ cur \in FullyIndexed
    BY <1>6 DEF DeleteRow, IInv, Work
  <2>2. UNCHANGED <<failed, docs>>
    BY <1>6 DEF DeleteRow, indexVars
  <2>3. DropRow(cur) \/ UNCHANGED queued
    BY <1>6 DEF DeleteRow
  <2> QED
    BY <2>1, <2>2, <2>3, DropFinishes, UnseenStep
<1>7. CASE MarkFailed
  BY <1>7, MarkGivesUp
<1>8. CASE FlushEmbeddings \/ FlushStops \/ Cascade
  BY <1>8, UnseenStep DEF FlushEmbeddings, FlushStops, Cascade, queueVars, indexVars
<1>9. CASE Crash
  <2>1. UNCHANGED <<queued, failed>>
    BY <1>9 DEF Crash, Fresh, queueVars
  <2>2. CASE docs' = docs
    BY <2>1, <2>2, UnseenStep
  <2>3. CASE docs' # docs
    <3>1. pc = "submit" /\ \E k \in 0 .. Segments[cur] : docs' = docs \cup Parts(cur, k)
      BY <1>9, <2>3 DEF Crash
    <3>2. Segments[cur] \in Nat
      BY <3>1, DrainAssumption DEF IInv, TypeOK, Work
    <3>3. \E k \in Nat : docs' = docs \cup Parts(cur, k)
      BY <3>1, <3>2
    <3> QED
      BY <2>1, <3>1, <3>3, SubmitIndexes
  <2> QED
    BY <2>2, <2>3
<1>10. CASE UNCHANGED vars
  BY <1>10, UnseenStep DEF vars, queueVars, indexVars
<1> QED
  BY <1>1, <1>2, <1>3, <1>4, <1>5, <1>6, <1>7, <1>8, <1>9, <1>10 DEF Next, DrainerStep

\* Nothing is requested and nothing is indexed at first.
LEMMA InitPromise == Init => Promise!PromiseInit
<1> SUFFICES ASSUME Init PROVE Promise!PromiseInit
  OBVIOUS
<1>1. StatusMap = [id \in Messages |-> "absent"]
  BY DEF Init, StatusMap, Status
<1>2. FullyIndexed = {}
  <2> SUFFICES ASSUME NEW id \in Messages, id \in FullyIndexed PROVE FALSE
    BY DEF FullyIndexed
  <2>1. <<id, 1>> \in Parts(id, Segments[id])
    BY DrainAssumption DEF Parts
  <2> QED
    BY <2>1 DEF FullyIndexed, Init
<1> QED
  BY <1>1, <1>2 DEF Promise!PromiseInit, StatusMap

\* The queue and the drainer implement IndexPromise: a request ends only when
\* the message is wholly in the index, was given up on after MAX_ATTEMPTS, or
\* names no stored message.
THEOREM ImplementsPromise == Spec => KeepsPromise
<1>1. PromiseStep => [Promise!PromiseNext]_<<StatusMap, FullyIndexed>>
  BY DEF PromiseStep
<1> QED
  BY <1>1, InitPromise, Invariant, NextPromise, PTL
  DEF Spec, KeepsPromise, Promise!PromiseSpec, StatusMap

=============================================================================
