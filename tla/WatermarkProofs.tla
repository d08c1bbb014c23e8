--------------------------- MODULE WatermarkProofs ---------------------------
(***************************************************************************)
(* The two watermarks of FolderSync: last_seen_uid of run_idle_loop, and   *)
(* the pair (uidvalidity, last_seen_uid) of sync_state.  Neither names a   *)
(* message that is not stored and queued, for any folders, mails, batch    *)
(* size and bounds, under the conditions the theorems state.               *)
(***************************************************************************)
EXTENDS FolderSyncProofs

(***************************************************************************)
(* The inductive invariant, on top of that of FolderSyncProofs             *)
(***************************************************************************)

\* Every UID up to n of epoch e is settled.
SettledUpTo(f, e, n) == \A u \in Uids : u <= n => Settled(f, e, u)

\* Every UID up to n is settled or still on its way through the sink.
Held(f, n) == \A u \in Uids : u <= n => Settled(f, uv[f], u) \/ InHand(f, u)

\* max_uid_seen, and what it may still grow to with this batch.
MarkHeld(f) ==
  /\ maxSeen[f] < next[f] /\ Held(f, maxSeen[f])
  /\ \A v \in batch[f] : Held(f, v)

Landing   == Fetching \cup {"save", "saveSeen"}
Listening == {"idleHead", "idle", "iexamine", "ifetch"}

\* run_idle_loop and run_incremental.
LoopMark(f) ==
  /\ pc[f] \in Listening => seen[f] < next[f] /\ SettledUpTo(f, uv[f], seen[f])
  /\ pc[f] \in Landing /\ phase[f] = "incremental" => MarkHeld(f)

\* run_initial_backfill: a batch starts at most one UID above the target, so that
\* what lies below it was there at the EXAMINE.
WalkMark(f) ==
  /\ pc[f] \in Landing \cup {"head"} /\ phase[f] # "incremental" => lo[f] - 1 <= target[f]
  /\ pc[f] = "head" => maxSeen[f] < next[f] /\ SettledUpTo(f, uv[f], maxSeen[f])
  /\ pc[f] \in {"save", "saveSeen"} /\ phase[f] = "reset" => maxSeen[f] = 0
  /\ pc[f] \in Landing /\ phase[f] = "backfill" => MarkHeld(f)

\* handle_change has written the new UIDVALIDITY and not yet the 0.
Resetting(f) == pc[f] = "saveSeen" /\ phase[f] = "reset"

\* The sync_state row: of an older epoch only until the session has compared it.
SyncOk(f) ==
  /\ syncUv[f] <= uv[f]
  /\ syncUv[f] = 0 => syncSeen[f] = 0
  /\ InSession(f) /\ ~(pc[f] = "save" /\ phase[f] = "reset") => syncUv[f] \in {0, uv[f]}
  /\ pc[f] = "saveSeen" => syncUv[f] = uv[f]
  /\ ~Resetting(f) =>
       /\ syncUv[f] = uv[f] => syncSeen[f] < next[f]
       /\ SettledUpTo(f, syncUv[f], syncSeen[f])

\* The conditions under which the row can be believed: UIDVALIDITY does not change
\* under an open session, the two columns are written together, and every EXAMINE
\* reports UIDNEXT.
Calm == ~LiveReset /\ ~TornUpdates /\ ReportsUidNext = Folders

\* And one on the step: no backfill sets out from a stored UIDVALIDITY that differs,
\* as it does when run_initial_backfill cannot read it.
Compared ==
  \A f \in Folders : pc[f] = "examine" /\ pc'[f] = "head" => syncUv[f] \in {0, uv[f]}

\* b says that every step so far was Compared.
MarkOk(f, b) ==
  /\ ~LiveReset => LoopMark(f)
  /\ f \in ReportsUidNext => WalkMark(f)
  /\ Calm /\ b => SyncOk(f)

MarkInv(b) == \A f \in Folders : MarkOk(f, b)

\* The step does not write the watermarks of g.
SameMark(g) ==
  /\ maxSeen'[g] = maxSeen[g] /\ seen'[g] = seen[g]
  /\ syncUv'[g] = syncUv[g] /\ syncSeen'[g] = syncSeen[g]

(***************************************************************************)
(* What survives a step of somebody else                                   *)
(***************************************************************************)

\* UIDs that are settled stay settled while the server keeps its epoch.
LEMMA SettledUpToKept ==
  ASSUME TypeOK, LedgerKept, StoreGrows, NEW g \in Folders, PresentOk(g), SameServer(g),
         NEW e \in 0 .. MaxEpoch, NEW n \in 0 .. MaxUid, e = 0 => n = 0, e = uv[g] => n < next[g],
         SettledUpTo(g, e, n)
  PROVE  SettledUpTo(g, e, n)'
<1> SUFFICES ASSUME NEW u \in Uids, u <= n PROVE Settled(g, e, u)'
  BY DEF SettledUpTo
<1>1. e \in Epochs
  BY ConstantsAssumption DEF Uids, Epochs
<1>2. Settled(g, e, u) /\ (e = uv[g] => u < next[g])
  BY ConstantsAssumption DEF SettledUpTo, Uids, TypeOK
<1> QED
  BY <1>1, <1>2, SettledKept

\* The mark of a walk is not disturbed by other tasks.
LEMMA MarkHeldKept ==
  ASSUME TypeOK, TypeOK', LedgerKept, StoreGrows, NEW g \in Folders, PresentOk(g), SessionOk(g),
         SameTask(g), SameServer(g), maxSeen'[g] = maxSeen[g], MarkHeld(g)
  PROVE  MarkHeld(g)'
<1>1. \A u \in Uids : InHand(g, u)' <=> InHand(g, u)
  BY DEF SameTask, InHand
<1>2. /\ uv'[g] = uv[g] /\ uv[g] \in Epochs /\ batch'[g] = batch[g] /\ batch[g] \subseteq Uids
      /\ maxSeen[g] \in 0 .. MaxUid /\ next[g] \in Nat /\ next'[g] \in Nat /\ next[g] <= next'[g]
  BY ConstantsAssumption DEF TypeOK, SameTask, SameServer
<1>3. ASSUME NEW n \in 0 .. MaxUid, n < next[g], Held(g, n)
      PROVE  Held(g, n)'
  <2> SUFFICES ASSUME NEW u \in Uids, u <= n PROVE Settled(g, uv[g], u)' \/ InHand(g, u)'
    BY DEF Held
  <2>1. CASE InHand(g, u)
    BY <1>1, <2>1
  <2>2. CASE Settled(g, uv[g], u)
    <3>1. PICK e \in Epochs : e = uv[g]
      BY <1>2
    <3>2. u < next[g]
      BY <1>2, <1>3, ConstantsAssumption DEF Uids
    <3>3. Settled(g, e, u)'
      BY <2>2, <3>1, <3>2, SettledKept
    <3> QED  BY <1>2, <3>1, <3>3 DEF Settled
  <2> QED  BY <1>3, <2>1, <2>2 DEF Held
<1>4. Held(g, maxSeen[g])'
  <2>1. PICK n \in 0 .. MaxUid : n = maxSeen[g]
    BY <1>2
  <2>2. Held(g, n)'
    BY <1>3, <2>1 DEF MarkHeld
  <2> QED  BY <2>1, <2>2 DEF Held
<1>5. \A v \in batch[g] : Held(g, v)'
  <2> SUFFICES ASSUME NEW v \in batch[g] PROVE Held(g, v)'
    OBVIOUS
  <2>1. v \in 0 .. MaxUid
    BY <1>2, ConstantsAssumption DEF Uids
  <2>2. v < next[g] /\ Held(g, v)
    BY DEF SessionOk, Fetched, MarkHeld
  <2>3. PICK n \in 0 .. MaxUid : n = v
    BY <2>1
  <2>4. Held(g, n)'
    BY <1>3, <2>2, <2>3
  <2> QED  BY <2>3, <2>4 DEF Held
<1> QED
  BY <1>2, <1>4, <1>5 DEF MarkHeld

\* Neither are the mark of the loop and the stored one.
LEMMA MarkKept ==
  ASSUME TypeOK, TypeOK', LedgerKept, StoreGrows, NEW g \in Folders, PresentOk(g), SessionOk(g),
         SameTask(g), SameServer(g), SameMark(g), NEW b, MarkOk(g, b)
  PROVE  MarkOk(g, b)'
<1>1. /\ uv'[g] = uv[g] /\ uv[g] \in Epochs /\ next[g] \in Nat /\ next'[g] \in Nat /\ next[g] <= next'[g]
      /\ seen[g] \in 0 .. MaxUid /\ maxSeen[g] \in 0 .. MaxUid
      /\ syncUv[g] \in 0 .. MaxEpoch /\ syncSeen[g] \in 0 .. MaxUid
  BY ConstantsAssumption DEF TypeOK, SameServer
<1>2. /\ pc'[g] = pc[g] /\ phase'[g] = phase[g] /\ lo'[g] = lo[g] /\ target'[g] = target[g]
      /\ maxSeen'[g] = maxSeen[g] /\ seen'[g] = seen[g]
      /\ syncUv'[g] = syncUv[g] /\ syncSeen'[g] = syncSeen[g]
  BY DEF SameTask, SameMark
<1>3. ASSUME NEW e \in 0 .. MaxEpoch, NEW n \in 0 .. MaxUid, e = 0 => n = 0,
             e = uv[g] => n < next[g], SettledUpTo(g, e, n)
      PROVE  SettledUpTo(g, e, n)'
  BY <1>3, SettledUpToKept
<1>4. ASSUME NEW n \in 0 .. MaxUid, n < next[g], SettledUpTo(g, uv[g], n)
      PROVE  n < next'[g] /\ SettledUpTo(g, uv[g], n)'
  <2>1. PICK e \in 1 .. MaxEpoch : e = uv[g]
    BY <1>1 DEF Epochs
  <2>2. e \in 0 .. MaxEpoch /\ e # 0
    BY <2>1, ConstantsAssumption
  <2>3. SettledUpTo(g, e, n)'
    BY <1>3, <1>4, <2>1, <2>2
  <2> QED  BY <1>1, <1>4, <2>1, <2>3 DEF SettledUpTo
<1>5. LoopMark(g) => LoopMark(g)'
  <2> SUFFICES ASSUME LoopMark(g) PROVE LoopMark(g)'
    OBVIOUS
  <2>1. pc[g] \in Listening => seen[g] < next'[g] /\ SettledUpTo(g, uv[g], seen[g])'
    <3> SUFFICES ASSUME pc[g] \in Listening
                 PROVE  seen[g] < next'[g] /\ SettledUpTo(g, uv[g], seen[g])'
      OBVIOUS
    <3>1. PICK n \in 0 .. MaxUid : n = seen[g]
      BY <1>1
    <3>2. n < next'[g] /\ SettledUpTo(g, uv[g], n)'
      BY <1>4, <3>1 DEF LoopMark
    <3> QED  BY <1>2, <3>1, <3>2 DEF SettledUpTo
  <2>2. pc[g] \in Landing /\ phase[g] = "incremental" => MarkHeld(g)'
    BY <1>2, MarkHeldKept DEF LoopMark
  <2> QED  BY <1>2, <2>1, <2>2 DEF LoopMark
<1>6. WalkMark(g) => WalkMark(g)'
  <2> SUFFICES ASSUME WalkMark(g) PROVE WalkMark(g)'
    OBVIOUS
  <2>1. pc[g] = "head" => maxSeen[g] < next'[g] /\ SettledUpTo(g, uv[g], maxSeen[g])'
    <3> SUFFICES ASSUME pc[g] = "head"
                 PROVE  maxSeen[g] < next'[g] /\ SettledUpTo(g, uv[g], maxSeen[g])'
      OBVIOUS
    <3>1. PICK n \in 0 .. MaxUid : n = maxSeen[g]
      BY <1>1
    <3>2. n < next'[g] /\ SettledUpTo(g, uv[g], n)'
      BY <1>4, <3>1 DEF WalkMark
    <3> QED  BY <1>2, <3>1, <3>2 DEF SettledUpTo
  <2>2. pc[g] \in Landing /\ phase[g] = "backfill" => MarkHeld(g)'
    BY <1>2, MarkHeldKept DEF WalkMark
  <2> QED  BY <1>2, <2>1, <2>2 DEF WalkMark
<1>7. SyncOk(g) => SyncOk(g)'
  <2> SUFFICES ASSUME SyncOk(g) PROVE SyncOk(g)'
    OBVIOUS
  <2>1. (InSession(g)' <=> InSession(g)) /\ (Resetting(g)' <=> Resetting(g))
    BY <1>2 DEF InSession, Resetting
  <2>2. ~Resetting(g) => SettledUpTo(g, syncUv[g], syncSeen[g])'
    <3> SUFFICES ASSUME ~Resetting(g) PROVE SettledUpTo(g, syncUv[g], syncSeen[g])'
      OBVIOUS
    <3>1. PICK e \in 0 .. MaxEpoch : e = syncUv[g]
      BY <1>1
    <3>2. PICK n \in 0 .. MaxUid : n = syncSeen[g]
      BY <1>1
    <3>3. SettledUpTo(g, e, n)'
      BY <1>3, <3>1, <3>2 DEF SyncOk
    <3> QED  BY <1>2, <3>1, <3>2, <3>3 DEF SettledUpTo
  <2> QED  BY <1>1, <1>2, <2>1, <2>2 DEF SyncOk
<1> QED
  BY <1>5, <1>6, <1>7 DEF MarkOk

\* A task writes no watermark but its own.
LEMMA TaskMarkFrame ==
  ASSUME TypeOK, NEW f \in Folders, TaskStep(f) \/ Fault(f)
  PROVE  \A g \in Folders \ {f} : SameMark(g)
<1> USE DEF TypeOK, SameMark, serverVars, batchVars, storeVars
<1>1. CASE Connect(f) \/ ExitAtLoopHead(f) \/ Examine(f) \/ BackfillDone(f) \/ FetchRange(f)
  BY <1>1 DEF Connect, ExitAtLoopHead, Examine, BackfillDone, EnterIdleLoop, FetchRange
<1>2. CASE FetchRecv(f) \/ SkipUnparseable(f) \/ WriteRaw(f) \/ InsertMessage(f)
  BY <1>2 DEF FetchRecv, SkipUnparseable, WriteRaw, InsertMessage
<1>3. CASE InsertConflict(f) \/ IdleShutdown(f) \/ Fault(f)
  BY <1>3 DEF InsertConflict, IdleShutdown, Fault, EndCycle
<1>4. CASE EnqueueMessage(f) \/ BatchDone(f) \/ SaveUidvalidity(f)
  BY <1>4 DEF EnqueueMessage, BatchDone, SaveUidvalidity
<1>5. CASE SaveSeen(f)
  BY <1>5 DEF SaveSeen, ResetSaved, BatchSaved, IncrementalSaved, EnterIdleLoop
<1>6. CASE StartIdle(f) \/ IdleEvent(f) \/ IdleRecycle(f) \/ IncrementalExamine(f) \/ FetchNewer(f)
  BY <1>6 DEF StartIdle, IdleEvent, IdleRecycle, IncrementalExamine, FetchNewer
<1> QED
  BY <1>1, <1>2, <1>3, <1>4, <1>5, <1>6 DEF TaskStep

(***************************************************************************)
(* The steps of the task itself                                            *)
(***************************************************************************)

\* A task settles UIDs and unsettles none.
LEMMA TaskSettles ==
  ASSUME TypeOK, NEW f \in Folders, PresentOk(f), SessionOk(f), TaskStep(f) \/ Fault(f)
  PROVE  /\ UNCHANGED <<uv, next, present, ledger>>
         /\ \A e \in Epochs, u \in Uids : Settled(f, e, u) => Settled(f, e, u)'
<1>1. UNCHANGED <<uv, next, present, ledger>> /\ StoreGrows
  BY TaskFrame, TaskStore
<1>2. LedgerKept /\ SameServer(f)
  BY <1>1 DEF LedgerKept, Assigned, SameServer, TypeOK
<1>3. ASSUME NEW e \in Epochs, NEW u \in Uids, Settled(f, e, u)
      PROVE  Settled(f, e, u)'
  <2>1. CASE u \in present[f]
    BY <1>1, <1>2, <1>3, <2>1, SettledKept DEF PresentOk
  <2>2. CASE u \notin present[f]
    BY <1>1, <2>2 DEF Settled
  <2> QED  BY <2>1, <2>2
<1> QED
  BY <1>1, <1>3

\* So whatever is settled up to some UID stays so.
LEMMA TaskSettledUpTo ==
  ASSUME TypeOK, NEW f \in Folders, PresentOk(f), SessionOk(f), TaskStep(f) \/ Fault(f),
         NEW e \in 0 .. MaxEpoch, NEW n \in 0 .. MaxUid, e = 0 => n = 0, SettledUpTo(f, e, n)
  PROVE  SettledUpTo(f, e, n)'
<1> SUFFICES ASSUME NEW u \in Uids, u <= n PROVE Settled(f, e, u)'
  BY DEF SettledUpTo
<1>1. e \in Epochs
  BY ConstantsAssumption DEF Uids, Epochs
<1> QED
  BY <1>1, TaskSettles DEF SettledUpTo

\* What a step of the sink takes out of the task's hands it has settled.
StillHeld(f) ==
  \A u \in Uids : Settled(f, uv[f], u) \/ InHand(f, u) => Settled(f, uv[f], u)' \/ InHand(f, u)'

SinkStep(f) ==
  \/ FetchRecv(f) \/ SkipUnparseable(f) \/ WriteRaw(f) \/ InsertMessage(f) \/ EnqueueMessage(f)
  \/ BatchDone(f) \/ SaveUidvalidity(f)

\* From the answer of the server to the update of sync_state.
LEMMA SinkHolds ==
  ASSUME TypeOK, TypeOK', NEW f \in Folders, PresentOk(f), SessionOk(f), SinkStep(f)
  PROVE  /\ pc[f] \in Landing /\ pc'[f] \in Landing
         /\ UNCHANGED <<phase, lo, target, seen, syncSeen>>
         /\ MarkHeld(f) => MarkHeld(f)'
<1>0. TaskStep(f)
  BY DEF SinkStep, TaskStep
<1>1. UNCHANGED <<uv, next, present, ledger>>
  BY <1>0, TaskSettles
<1>2. \A u \in Uids : Settled(f, uv[f], u) => Settled(f, uv[f], u)'
  <2>1. PICK e \in Epochs : e = uv[f]
    BY DEF TypeOK
  <2>2. \A u \in Uids : Settled(f, e, u) => Settled(f, e, u)'
    BY <1>0, TaskSettles
  <2> QED  BY <1>1, <2>1, <2>2 DEF Settled
<1>3. /\ pc[f] \in Landing /\ pc'[f] \in Landing
      /\ UNCHANGED <<phase, lo, target, seen, syncSeen>>
  BY DEF TypeOK, SinkStep, FetchRecv, SkipUnparseable, WriteRaw, InsertMessage, EnqueueMessage,
         BatchDone, SaveUidvalidity, Goto, Landing, Fetching, storeVars
<1>4. CASE FetchRecv(f) \/ InsertMessage(f) \/ BatchDone(f) \/ SaveUidvalidity(f)
  <2>1. /\ UNCHANGED <<batch, cur, maxSeen>>
        /\ pc[f] \in {"insert", "enqueue"} => pc'[f] \in {"insert", "enqueue"}
    BY <1>4 DEF TypeOK, FetchRecv, InsertMessage, BatchDone, SaveUidvalidity, Goto, batchVars
  <2>2. StillHeld(f)
    BY <1>2, <2>1 DEF StillHeld, InHand
  <2> QED  BY <1>1, <1>3, <2>1, <2>2 DEF MarkHeld, Held, StillHeld
<1>5. CASE SkipUnparseable(f) \/ WriteRaw(f)
  <2>1. PICK v \in batch[f] :
          /\ pc[f] = "submit" /\ batch'[f] = batch[f] \ {v}
          /\ maxSeen'[f] = Larger(maxSeen[f], v)
          /\ \/ pc'[f] = "submit" /\ ledger[Slot(f, v)] \in Unparseable
             \/ pc'[f] = "insert" /\ cur'[f] = v
    BY <1>5 DEF TypeOK, SkipUnparseable, WriteRaw, Goto
  <2>2. v \in Uids /\ v < next[f] /\ Slot(f, v) = <<f, uv[f], v>>
    BY <2>1 DEF TypeOK, SessionOk, Fetched, Fetching, Slot
  <2>3. Settled(f, uv[f], v)' \/ InHand(f, v)'
    BY <1>1, <2>1, <2>2 DEF Settled, InHand
  <2>4. StillHeld(f)
    <3> SUFFICES ASSUME NEW u \in Uids, Settled(f, uv[f], u) \/ InHand(f, u), u # v
                 PROVE  Settled(f, uv[f], u)' \/ InHand(f, u)'
      BY <2>3 DEF StillHeld
    <3> QED  BY <1>2, <2>1 DEF InHand
  <2>5. maxSeen'[f] \in {maxSeen[f], v}
    BY <2>1 DEF Larger
  <2>6. MarkHeld(f) => maxSeen'[f] < next'[f] /\ Held(f, maxSeen'[f])
    BY <1>1, <2>1, <2>2, <2>5 DEF MarkHeld
  <2> QED  BY <1>1, <1>3, <2>1, <2>4, <2>6 DEF MarkHeld, Held, StillHeld
<1>6. CASE EnqueueMessage(f)
  <2>1. /\ pc[f] = "enqueue" /\ pc'[f] = "submit" /\ UNCHANGED <<batch, maxSeen, rows>>
        /\ MessageId(Slot(f, cur[f])) \in handed'
    BY <1>6 DEF TypeOK, EnqueueMessage, Goto
  <2>2. PICK v : v = cur[f]
    OBVIOUS
  <2>3. Slot(f, v) = <<f, uv[f], v>> /\ rows[MessageId(Slot(f, v))] = Slot(f, v)
    BY <2>1, <2>2 DEF SessionOk, Fetching, Slot
  <2>4. Settled(f, uv[f], v)'
    BY <1>1, <2>1, <2>2, <2>3 DEF Settled, Archived, MessageId
  <2>5. StillHeld(f)
    <3> SUFFICES ASSUME NEW u \in Uids, Settled(f, uv[f], u) \/ InHand(f, u), u # v
                 PROVE  Settled(f, uv[f], u)' \/ InHand(f, u)'
      BY <2>4 DEF StillHeld
    <3> QED  BY <1>2, <2>1, <2>2 DEF InHand
  <2> QED  BY <1>1, <1>3, <2>1, <2>5 DEF MarkHeld, Held, StillHeld
<1> QED
  BY <1>3, <1>4, <1>5, <1>6 DEF SinkStep

\* Once the batch is through, what was held is settled.
LEMMA LandedIsSettled ==
  ASSUME TypeOK, NEW f \in Folders, SessionOk(f), pc[f] \in {"save", "saveSeen"}, MarkHeld(f)
  PROVE  maxSeen[f] < next[f] /\ SettledUpTo(f, uv[f], maxSeen[f])
<1>1. batch[f] = {}
  BY DEF SessionOk, Fetching
<1>2. \A u \in Uids : ~InHand(f, u)
  BY <1>1 DEF InHand
<1> QED
  BY <1>2 DEF MarkHeld, Held, SettledUpTo

\* The same for a watermark of the current epoch.
LEMMA TaskKeepsMark ==
  ASSUME IInv, NEW f \in Folders, TaskStep(f) \/ Fault(f),
         NEW n \in 0 .. MaxUid, n < next[f], SettledUpTo(f, uv[f], n)
  PROVE  n < next'[f] /\ SettledUpTo(f, uv[f], n)'
<1>1. UNCHANGED <<uv, next>>
  BY TaskSettles DEF IInv
<1>2. PICK e \in 0 .. MaxEpoch : e = uv[f] /\ e # 0
  BY ConstantsAssumption DEF IInv, TypeOK, Epochs
<1>3. SettledUpTo(f, e, n)'
  BY <1>2, TaskSettledUpTo DEF IInv
<1> QED
  BY <1>1, <1>2, <1>3 DEF SettledUpTo

\* Nothing lies at or below 0.
LEMMA NoneUpToZero ==
  ASSUME TypeOK, NEW f \in Folders
  PROVE  0 < next[f] /\ \A e : SettledUpTo(f, e, 0)
BY ConstantsAssumption DEF TypeOK, SettledUpTo, Uids

\* run_idle_loop and run_incremental: the next watermark covers what FETCH
\* named, and the fetch starts right above the last one.
LEMMA TaskLoop ==
  ASSUME IInv, IInv', NEW f \in Folders, TaskStep(f) \/ Fault(f), LoopMark(f)
  PROVE  LoopMark(f)'
<1>0. UNCHANGED <<uv, next, present, ledger>>
  BY TaskSettles DEF IInv
<1>1. /\ TypeOK /\ TypeOK' /\ PresentOk(f) /\ SessionOk(f) /\ CoverOk(f)
      /\ seen[f] \in 0 .. MaxUid /\ maxSeen[f] \in 0 .. MaxUid
  BY DEF IInv, TypeOK
<1>2. CASE SinkStep(f)
  <2>1. /\ pc[f] \in Landing /\ pc'[f] \in Landing /\ phase'[f] = phase[f]
        /\ MarkHeld(f) => MarkHeld(f)'
    BY <1>1, <1>2, SinkHolds
  <2> QED  BY <2>1 DEF LoopMark, Landing, Fetching, Listening
<1>3. CASE FetchNewer(f)
  <2>1. /\ pc[f] = "ifetch" /\ pc'[f] = "recv" /\ batch'[f] = NewerUids(f)
        /\ maxSeen'[f] = seen[f] /\ seen[f] < next[f] /\ SettledUpTo(f, uv[f], seen[f])
    BY <1>1, <1>3 DEF TypeOK, FetchNewer, Goto, LoopMark, Listening
  <2>2. ASSUME NEW u \in Uids PROVE Settled(f, uv[f], u)' \/ InHand(f, u)'
    <3>1. CASE u \notin present[f]
      BY <1>0, <3>1 DEF Settled
    <3>2. CASE u > seen[f] /\ u \in present[f]
      BY <2>1, <3>2 DEF InHand, NewerUids
    <3>3. CASE u <= seen[f]
      <4>1. PICK n \in 0 .. MaxUid : n = seen[f]
        BY <1>1
      <4>2. SettledUpTo(f, uv[f], n)'
        BY <2>1, <4>1, TaskKeepsMark
      <4> QED  BY <3>3, <4>1, <4>2 DEF SettledUpTo
    <3> QED  BY <1>1, <3>1, <3>2, <3>3 DEF Uids
  <2>3. MarkHeld(f)'
    BY <1>0, <2>1, <2>2 DEF MarkHeld, Held
  <2> QED  BY <2>1, <2>3 DEF LoopMark, Listening
<1>4. CASE FetchRange(f) \/ Examine(f)
  <2>1. pc'[f] \in {"recv", "save", "head"} /\ phase'[f] # "incremental"
    BY <1>1, <1>4 DEF TypeOK, CoverOk, FetchRange, Examine, Goto
  <2> QED  BY <2>1 DEF LoopMark, Listening
<1>5. CASE Connect(f) \/ ExitAtLoopHead(f) \/ InsertConflict(f) \/ IdleShutdown(f) \/ Fault(f)
  <2>1. pc'[f] \in {"start", "examine", "exited"}
    BY <1>1, <1>5 DEF TypeOK, Connect, ExitAtLoopHead, InsertConflict, IdleShutdown, Fault,
                     EndCycle, Goto
  <2> QED  BY <2>1 DEF LoopMark, Listening, Landing, Fetching
<1>6. CASE StartIdle(f) \/ IdleEvent(f) \/ IdleRecycle(f) \/ IncrementalExamine(f)
  <2>1. pc[f] \in Listening /\ pc'[f] \in Listening /\ seen'[f] = seen[f]
    BY <1>1, <1>6 DEF TypeOK, StartIdle, IdleEvent, IdleRecycle, IncrementalExamine, Goto, Listening
  <2>2. PICK n \in 0 .. MaxUid : n = seen[f]
    BY <1>1
  <2>3. n < next'[f] /\ SettledUpTo(f, uv[f], n)'
    BY <2>1, <2>2, TaskKeepsMark DEF LoopMark
  <2> QED  BY <2>1, <2>2, <2>3 DEF LoopMark, Listening, Landing, Fetching, SettledUpTo
<1>7. ASSUME EnterIdleLoop(f)
      PROVE  LoopMark(f)'
  <2>1. pc'[f] = "idleHead" /\ seen'[f] = 0
    BY <1>1, <1>7 DEF TypeOK, EnterIdleLoop, Goto
  <2>2. 0 < next'[f] /\ SettledUpTo(f, uv[f], seen[f])'
    BY <1>0, <1>1, <2>1, NoneUpToZero, ConstantsAssumption DEF SettledUpTo, Uids
  <2> QED  BY <2>1, <2>2 DEF LoopMark, Landing, Fetching
<1>8. CASE BackfillDone(f)
  BY <1>7, <1>8 DEF BackfillDone
<1>9. CASE SaveSeen(f)
  <2>1. CASE IncrementalSaved(f)
    <3>1. /\ pc[f] = "saveSeen" /\ phase[f] = "incremental"
          /\ pc'[f] = "idleHead" /\ seen'[f] = maxSeen[f]
      BY <1>1, <1>9, <2>1 DEF TypeOK, SaveSeen, IncrementalSaved, Goto
    <3>2. maxSeen[f] < next[f] /\ SettledUpTo(f, uv[f], maxSeen[f])
      BY <1>1, <3>1, LandedIsSettled DEF LoopMark, Landing
    <3>3. PICK n \in 0 .. MaxUid : n = maxSeen[f]
      BY <1>1
    <3>4. n < next'[f] /\ SettledUpTo(f, uv[f], n)'
      BY <3>2, <3>3, TaskKeepsMark
    <3> QED  BY <3>1, <3>3, <3>4 DEF LoopMark, Landing, Fetching, SettledUpTo
  <2>2. CASE BatchSaved(f) /\ ReachedTarget(f)
    BY <1>7, <2>2 DEF BatchSaved
  <2>3. CASE ResetSaved(f) \/ (BatchSaved(f) /\ ~ReachedTarget(f))
    <3>1. pc'[f] = "head"
      BY <1>1, <2>3 DEF TypeOK, ResetSaved, BatchSaved, Goto
    <3> QED  BY <3>1 DEF LoopMark, Landing, Fetching, Listening
  <2> QED  BY <1>9, <2>1, <2>2, <2>3 DEF SaveSeen
<1> QED
  BY <1>2, <1>3, <1>4, <1>5, <1>6, <1>8, <1>9 DEF TaskStep, SinkStep

\* run_initial_backfill, on a server that reports UIDNEXT: max_uid_seen only
\* grows over what the batches so far have covered.
LEMMA TaskWalk ==
  ASSUME IInv, IInv', NEW f \in ReportsUidNext, TaskStep(f) \/ Fault(f), WalkMark(f)
  PROVE  WalkMark(f)'
<1> f \in Folders
  BY ConstantsAssumption
<1>0. UNCHANGED <<uv, next, present, ledger>>
  BY TaskSettles DEF IInv
<1>1. /\ TypeOK /\ TypeOK' /\ PresentOk(f) /\ SessionOk(f) /\ CoverOk(f)
      /\ maxSeen[f] \in 0 .. MaxUid /\ next[f] \in Nat \ {0} /\ lo[f] \in Uids
  BY ConstantsAssumption DEF IInv, TypeOK
<1>2. CASE SinkStep(f)
  <2>1. /\ pc[f] \in Landing /\ pc'[f] \in Landing
        /\ phase'[f] = phase[f] /\ lo'[f] = lo[f] /\ target'[f] = target[f]
        /\ MarkHeld(f) => MarkHeld(f)'
    BY <1>1, <1>2, SinkHolds
  <2>2. phase[f] = "reset" => pc[f] = "save" /\ maxSeen'[f] = maxSeen[f]
    BY <1>1, <1>2 DEF CoverOk, Fetching, SinkStep, FetchRecv, SkipUnparseable, WriteRaw,
       InsertMessage, EnqueueMessage, BatchDone, SaveUidvalidity, batchVars
  <2> QED  BY <2>1, <2>2 DEF WalkMark, Landing, Fetching
<1>3. CASE FetchRange(f)
  <2>1. /\ pc[f] = "head" /\ pc'[f] = "recv" /\ phase'[f] = phase[f]
        /\ phase[f] = "backfill" /\ muv[f] = uv[f]
        /\ lo'[f] = lo[f] /\ target'[f] = target[f] /\ lo[f] - 1 <= target[f]
        /\ batch'[f] = {u \in present[f] : lo[f] <= u /\ u <= Hi(f)}
        /\ maxSeen'[f] = maxSeen[f]
        /\ maxSeen[f] < next[f] /\ SettledUpTo(f, uv[f], maxSeen[f])
    BY <1>1, <1>3 DEF TypeOK, CoverOk, FetchRange, Goto, WalkMark
  <2>2. target[f] \in Int /\ Hi(f) \in Uids
    BY <1>1, HiType, ConstantsAssumption DEF TypeOK, NoTarget
  <2>3. ASSUME NEW u \in Uids, u <= Hi(f) PROVE Settled(f, uv[f], u)' \/ InHand(f, u)'
    <3>1. CASE u \notin present[f]
      BY <1>0, <3>1 DEF Settled
    <3>2. CASE lo[f] <= u /\ u \in present[f]
      BY <2>1, <2>3, <3>2 DEF InHand
    <3>3. CASE u < lo[f]
      <4>1. u <= lo[f] - 1 /\ u <= target[f]
        BY <1>1, <2>1, <2>2, <3>3, ConstantsAssumption DEF Uids
      <4>2. PICK e \in Epochs : e = uv[f]
        BY <1>1 DEF TypeOK
      <4>3. Settled(f, e, u)
        BY <1>1, <2>1, <4>1, <4>2 DEF CoverOk, CoveredUpTo
      <4>4. Settled(f, e, u)'
        BY <1>1, <4>3, TaskSettles
      <4> QED  BY <1>0, <4>2, <4>4 DEF Settled
    <3> QED  BY <1>1, <3>1, <3>2, <3>3, ConstantsAssumption DEF Uids
  <2>4. Held(f, maxSeen[f])'
    <3>1. PICK n \in 0 .. MaxUid : n = maxSeen[f]
      BY <1>1
    <3>2. SettledUpTo(f, uv[f], n)'
      BY <2>1, <3>1, TaskKeepsMark
    <3> QED  BY <2>1, <3>1, <3>2 DEF Held, SettledUpTo
  <2>5. \A v \in batch'[f] : Held(f, v)'
    <3> SUFFICES ASSUME NEW v \in batch'[f], NEW u \in Uids, u <= v
                 PROVE  Settled(f, uv[f], u)' \/ InHand(f, u)'
      BY DEF Held
    <3>1. v \in Uids /\ v <= Hi(f)
      BY <1>1, <2>1 DEF TypeOK
    <3>2. u <= Hi(f)
      BY <2>2, <3>1, ConstantsAssumption DEF Uids
    <3> QED  BY <2>3, <3>2
  <2> QED  BY <1>0, <2>1, <2>4, <2>5 DEF WalkMark, MarkHeld
<1>4. CASE Examine(f)
  <2>1. /\ pc'[f] = "head" \/ (pc'[f] = "save" /\ phase'[f] = "reset")
        /\ lo'[f] = 1 /\ target'[f] = next[f] - 1 /\ maxSeen'[f] = 0
    BY <1>1, <1>4 DEF TypeOK, Examine, TargetUid, Goto
  <2>2. SettledUpTo(f, uv[f], maxSeen[f])'
    BY <2>1, ConstantsAssumption DEF SettledUpTo, Uids
  <2> QED  BY <1>0, <1>1, <2>1, <2>2 DEF WalkMark, Landing, Fetching
<1>5. CASE Connect(f) \/ ExitAtLoopHead(f) \/ InsertConflict(f) \/ IdleShutdown(f) \/ Fault(f)
  <2>1. pc'[f] \in {"start", "examine", "exited"}
    BY <1>1, <1>5 DEF TypeOK, Connect, ExitAtLoopHead, InsertConflict, IdleShutdown, Fault,
                     EndCycle, Goto
  <2> QED  BY <2>1 DEF WalkMark, Landing, Fetching
<1>6. CASE StartIdle(f) \/ IdleEvent(f) \/ IdleRecycle(f) \/ IncrementalExamine(f)
  <2>1. pc'[f] \in Listening
    BY <1>1, <1>6 DEF TypeOK, StartIdle, IdleEvent, IdleRecycle, IncrementalExamine, Goto, Listening
  <2> QED  BY <2>1 DEF WalkMark, Listening, Landing, Fetching
<1>7. CASE FetchNewer(f)
  <2>1. pc'[f] = "recv" /\ phase'[f] = "incremental"
    BY <1>1, <1>7 DEF TypeOK, FetchNewer, CoverOk, Goto
  <2> QED  BY <2>1 DEF WalkMark
<1>8. CASE EnterIdleLoop(f) \/ IncrementalSaved(f)
  <2>1. pc'[f] = "idleHead"
    BY <1>1, <1>8 DEF TypeOK, EnterIdleLoop, IncrementalSaved, Goto
  <2> QED  BY <2>1 DEF WalkMark, Landing, Fetching
<1>9. CASE SaveSeen(f) /\ ResetSaved(f)
  <2>1. /\ pc[f] = "saveSeen" /\ phase[f] = "reset" /\ pc'[f] = "head"
        /\ maxSeen'[f] = maxSeen[f] /\ lo'[f] = lo[f] /\ target'[f] = target[f]
    BY <1>1, <1>9 DEF TypeOK, SaveSeen, ResetSaved, Goto
  <2>2. maxSeen'[f] = 0 /\ lo'[f] - 1 <= target'[f]
    BY <2>1 DEF WalkMark, Landing
  <2>3. SettledUpTo(f, uv[f], maxSeen[f])'
    BY <2>2, ConstantsAssumption DEF SettledUpTo, Uids
  <2> QED  BY <1>0, <1>1, <2>1, <2>2, <2>3 DEF WalkMark, Landing, Fetching
<1>10. CASE SaveSeen(f) /\ BatchSaved(f) /\ ~ReachedTarget(f)
  <2>1. /\ pc[f] = "saveSeen" /\ phase[f] = "backfill" /\ pc'[f] = "head"
        /\ maxSeen'[f] = maxSeen[f] /\ target'[f] = target[f]
        /\ lo'[f] = Smaller(Hi(f) + 1, MaxUid)
    BY <1>1, <1>10 DEF TypeOK, SaveSeen, BatchSaved, Goto
  <2>2. Hi(f) \in Uids /\ target[f] \in Int /\ lo[f] - 1 <= target[f]
    BY <1>1, <2>1, HiType, ConstantsAssumption DEF TypeOK, NoTarget, WalkMark, Landing
  <2>3. Hi(f) < target[f]
    BY <1>1, <1>10, <2>2, ConstantsAssumption DEF ReachedTarget, NoTarget, Uids
  <2>4. lo'[f] - 1 <= target'[f]
    BY <2>1, <2>2, <2>3, ConstantsAssumption DEF Smaller, Uids
  <2>5. maxSeen[f] < next[f] /\ SettledUpTo(f, uv[f], maxSeen[f])
    BY <1>1, <2>1, LandedIsSettled DEF WalkMark, Landing
  <2>6. PICK n \in 0 .. MaxUid : n = maxSeen[f]
    BY <1>1
  <2>7. n < next'[f] /\ SettledUpTo(f, uv[f], n)'
    BY <2>5, <2>6, TaskKeepsMark
  <2> QED  BY <2>1, <2>4, <2>6, <2>7 DEF WalkMark, SettledUpTo, Landing, Fetching
<1>11. CASE SaveSeen(f)
  BY <1>8, <1>9, <1>10, <1>11 DEF SaveSeen, BatchSaved
<1>12. CASE BackfillDone(f)
  BY <1>8, <1>12 DEF BackfillDone
<1> QED
  BY <1>2, <1>3, <1>4, <1>5, <1>6, <1>7, <1>11, <1>12 DEF TaskStep, SinkStep

\* update_sync_state, as far as Calm lets it be believed.
LEMMA TaskSync ==
  ASSUME IInv, IInv', NEW f \in Folders, TaskStep(f) \/ Fault(f), Calm, Compared,
         LoopMark(f), WalkMark(f), SyncOk(f)
  PROVE  SyncOk(f)'
<1>0. UNCHANGED <<uv, next, present, ledger>>
  BY TaskSettles DEF IInv
<1>1. /\ TypeOK /\ TypeOK' /\ PresentOk(f) /\ SessionOk(f) /\ CoverOk(f)
      /\ maxSeen[f] \in 0 .. MaxUid /\ syncSeen[f] \in 0 .. MaxUid /\ syncUv[f] \in 0 .. MaxEpoch
      /\ next[f] \in Nat \ {0} /\ uv[f] \in Nat \ {0} /\ uv[f] \in Epochs
      /\ phase[f] \in {"reset", "backfill", "incremental"}
  BY ConstantsAssumption DEF IInv, TypeOK, Epochs
<1>2. ASSUME NEW n \in 0 .. MaxUid, n < next[f], SettledUpTo(f, uv[f], n)
      PROVE  SettledUpTo(f, uv[f], n)'
  BY <1>2, TaskKeepsMark
<1>3. ~Resetting(f) => SettledUpTo(f, syncUv[f], syncSeen[f]) /\ (syncUv[f] = 0 => syncSeen[f] = 0)
  BY DEF SyncOk
<1>4. CASE SaveUidvalidity(f)
  <2>1. /\ pc[f] = "save" /\ pc'[f] = "saveSeen" /\ phase'[f] = phase[f]
        /\ syncUv'[f] = uv[f] /\ syncSeen'[f] = syncSeen[f]
    BY <1>1, <1>4 DEF TypeOK, SessionOk, SaveUidvalidity, Goto
  <2>2. ASSUME phase[f] # "reset"
        PROVE  syncSeen[f] < next[f] /\ SettledUpTo(f, uv[f], syncSeen[f])
    <3>1. syncUv[f] \in {0, uv[f]} /\ ~Resetting(f)
      BY <2>1, <2>2 DEF SyncOk, InSession, Resetting
    <3>2. CASE syncUv[f] = 0
      <4>1. syncSeen[f] = 0
        BY <3>2 DEF SyncOk
      <4> QED  BY <1>1, <4>1, NoneUpToZero
    <3>3. CASE syncUv[f] = uv[f]
      BY <3>1, <3>3 DEF SyncOk
    <3> QED  BY <3>1, <3>2, <3>3
  <2>3. PICK n \in 0 .. MaxUid : n = syncSeen[f]
    BY <1>1
  <2>4. phase[f] # "reset" => SettledUpTo(f, uv[f], n)'
    BY <1>2, <2>2, <2>3
  <2>5. phase[f] # "reset" => SettledUpTo(f, syncUv[f], syncSeen[f])'
    BY <1>0, <2>1, <2>3, <2>4 DEF SettledUpTo
  <2> QED  BY <1>0, <1>1, <2>1, <2>2, <2>5 DEF SyncOk, Resetting
<1>5. CASE SaveSeen(f)
  <2>1. /\ pc[f] = "saveSeen" /\ pc'[f] \in {"head", "idleHead"}
        /\ syncUv'[f] = syncUv[f] /\ syncUv[f] = uv[f] /\ syncSeen'[f] = SeenUpdate(f)
    BY <1>1, <1>5 DEF TypeOK, SyncOk, SaveSeen, ResetSaved, BatchSaved, IncrementalSaved,
                     EnterIdleLoop, Goto
  <2>2. phase[f] # "reset" => syncSeen[f] < next[f] /\ SettledUpTo(f, uv[f], syncSeen[f])
    BY <2>1 DEF SyncOk, Resetting
  <2>3. phase[f] # "reset" => maxSeen[f] < next[f] /\ SettledUpTo(f, uv[f], maxSeen[f])
    BY <1>1, <2>1, LandedIsSettled DEF LoopMark, WalkMark, Landing
  <2>4. \/ phase[f] = "reset" /\ SeenUpdate(f) = 0
        \/ phase[f] # "reset" /\ SeenUpdate(f) \in {maxSeen[f], syncSeen[f]}
    BY <1>1 DEF SeenUpdate
  <2>5. /\ SeenUpdate(f) \in 0 .. MaxUid
        /\ SeenUpdate(f) < next[f] /\ SettledUpTo(f, uv[f], SeenUpdate(f))
    <3>1. CASE phase[f] = "reset" /\ SeenUpdate(f) = 0
      BY <1>1, <3>1, NoneUpToZero, ConstantsAssumption
    <3>2. CASE phase[f] # "reset" /\ SeenUpdate(f) \in {maxSeen[f], syncSeen[f]}
      BY <1>1, <2>2, <2>3, <3>2
    <3> QED  BY <2>4, <3>1, <3>2
  <2>6. PICK n \in 0 .. MaxUid : n = SeenUpdate(f)
    BY <2>5
  <2>7. SettledUpTo(f, uv[f], n)'
    BY <1>2, <2>5, <2>6
  <2>8. SettledUpTo(f, syncUv[f], syncSeen[f])'
    BY <1>0, <2>1, <2>6, <2>7 DEF SettledUpTo
  <2> QED  BY <1>0, <1>1, <2>1, <2>5, <2>8 DEF SyncOk, Resetting
<1>6. ASSUME syncUv'[f] = syncUv[f], syncSeen'[f] = syncSeen[f],
             pc[f] # "saveSeen", pc'[f] # "saveSeen",
             InSession(f)' /\ ~(pc'[f] = "save" /\ phase'[f] = "reset") => syncUv[f] \in {0, uv[f]}
      PROVE  SyncOk(f)'
  <2>1. PICK e \in 0 .. MaxEpoch, n \in 0 .. MaxUid : e = syncUv[f] /\ n = syncSeen[f]
    BY <1>1
  <2>2. SettledUpTo(f, e, n)'
    BY <1>1, <1>3, <1>6, <2>1, TaskSettledUpTo DEF Resetting
  <2>3. SettledUpTo(f, syncUv[f], syncSeen[f])'
    BY <1>6, <2>1, <2>2 DEF SettledUpTo
  <2> QED  BY <1>0, <1>6, <2>3 DEF SyncOk, Resetting
<1>7. CASE Examine(f)
  <2>1. /\ pc[f] = "examine" /\ pc'[f] \in {"save", "head"}
        /\ syncUv'[f] = syncUv[f] /\ syncSeen'[f] = syncSeen[f]
        /\ pc'[f] = "save" => phase'[f] = "reset"
    BY <1>1, <1>7 DEF TypeOK, Examine, Goto, storeVars
  <2>2. pc'[f] = "head" => syncUv[f] \in {0, uv[f]}
    BY <2>1 DEF Compared
  <2> QED  BY <1>6, <2>1, <2>2
<1>8. CASE Connect(f) \/ ExitAtLoopHead(f) \/ InsertConflict(f) \/ IdleShutdown(f) \/ Fault(f)
  <2>1. /\ pc[f] # "saveSeen" /\ pc'[f] \in {"start", "examine", "exited"}
        /\ syncUv'[f] = syncUv[f] /\ syncSeen'[f] = syncSeen[f]
    BY <1>1, <1>8 DEF TypeOK, Connect, ExitAtLoopHead, InsertConflict, IdleShutdown, Fault,
                     EndCycle, Goto, storeVars, Calm
  <2> QED  BY <1>6, <2>1 DEF InSession
<1>9. ASSUME syncUv'[f] = syncUv[f], syncSeen'[f] = syncSeen[f],
             InSession(f), pc[f] \notin {"save", "saveSeen"}, pc'[f] # "saveSeen"
      PROVE  SyncOk(f)'
  BY <1>6, <1>9 DEF SyncOk
<1>10. CASE BackfillDone(f) \/ FetchRange(f) \/ FetchNewer(f)
  BY <1>1, <1>9, <1>10 DEF TypeOK, BackfillDone, EnterIdleLoop, FetchRange, FetchNewer, Goto,
                           InSession, storeVars
<1>11. CASE FetchRecv(f) \/ SkipUnparseable(f) \/ WriteRaw(f)
  BY <1>1, <1>9, <1>11 DEF TypeOK, FetchRecv, SkipUnparseable, WriteRaw, Goto, InSession, storeVars
<1>12. CASE InsertMessage(f) \/ EnqueueMessage(f) \/ BatchDone(f)
  BY <1>1, <1>9, <1>12 DEF TypeOK, InsertMessage, EnqueueMessage, BatchDone, Goto, InSession,
                           storeVars
<1>13. CASE StartIdle(f) \/ IdleEvent(f) \/ IdleRecycle(f) \/ IncrementalExamine(f)
  BY <1>1, <1>9, <1>13 DEF TypeOK, StartIdle, IdleEvent, IdleRecycle, IncrementalExamine, Goto,
                           InSession, storeVars
<1> QED
  BY <1>4, <1>5, <1>7, <1>8, <1>10, <1>11, <1>12, <1>13 DEF TaskStep

(***************************************************************************)
(* One step of the whole system                                            *)
(***************************************************************************)

\* The marks start at 0, which claims nothing.
LEMMA InitMark == \A b \in BOOLEAN : Init => MarkInv(b)
<1> SUFFICES ASSUME NEW b \in BOOLEAN, Init, NEW f \in Folders PROVE MarkOk(f, b)
  BY DEF MarkInv
<1>1. /\ pc[f] = "start" /\ uv[f] = 1 /\ next[f] = 1 /\ syncUv[f] = 0 /\ syncSeen[f] = 0
  BY DEF Init
<1>2. LoopMark(f) /\ WalkMark(f)
  BY <1>1 DEF LoopMark, WalkMark, Listening, Landing, Fetching
<1>3. SettledUpTo(f, 0, 0)
  BY ConstantsAssumption DEF SettledUpTo, Uids
<1>4. SyncOk(f)
  BY <1>1, <1>3 DEF SyncOk, InSession, Resetting
<1> QED
  BY <1>2, <1>4 DEF MarkOk

\* A supervisor's step raises a mark only over UIDs that are settled.
LEMMA TaskMark ==
  ASSUME IInv, NEW b, b => Compared, MarkInv(b), NEW f \in Folders, TaskStep(f) \/ Fault(f)
  PROVE  MarkInv(b)'
<1>1. IInv' /\ StoreGrows
  BY TaskInvariant
<1>2. UNCHANGED <<uv, next, present, ledger>> /\ \A g \in Folders \ {f} : SameTask(g) /\ SameMark(g)
  BY TaskFrame, TaskMarkFrame DEF IInv
<1>3. LedgerKept /\ \A g \in Folders : SameServer(g)
  BY <1>2 DEF LedgerKept, Assigned, SameServer, IInv, TypeOK
<1>4. ASSUME NEW g \in Folders \ {f} PROVE MarkOk(g, b)'
  BY <1>1, <1>2, <1>3, MarkKept DEF IInv, MarkInv
<1>5. MarkOk(f, b)'
  <2>1. ~LiveReset => LoopMark(f)'
    BY <1>1, TaskLoop DEF MarkInv, MarkOk
  <2>2. f \in ReportsUidNext => WalkMark(f)'
    BY <1>1, TaskWalk DEF MarkInv, MarkOk
  <2>3. Calm /\ b => SyncOk(f)'
    <3> SUFFICES ASSUME Calm, b PROVE SyncOk(f)'
      OBVIOUS
    <3>1. LoopMark(f) /\ WalkMark(f) /\ SyncOk(f)
      BY DEF Calm, MarkInv, MarkOk
    <3> QED  BY <1>1, <3>1, TaskSync
  <2> QED  BY <2>1, <2>2, <2>3 DEF MarkOk, Calm
<1> QED
  BY <1>4, <1>5 DEF MarkInv

\* A new UIDVALIDITY voids what the old one promised.
LEMMA EpochMark ==
  ASSUME IInv, IInv', NEW f \in Folders, ServerStep(f), NEW b, MarkOk(f, b), uv'[f] = uv[f] + 1
  PROVE  MarkOk(f, b)'
<1>1. \E keep \in BOOLEAN : ResetEpoch(f, keep)
  BY DEF IInv, TypeOK, Epochs, ServerStep, Deliver, Expunge
<1>2. /\ UNCHANGED <<taskVars, storeVars>>
      /\ ~InSession(f) \/ (LiveReset /\ pc[f] = "idle")
  BY <1>1 DEF ResetEpoch
<1>3. /\ pc'[f] = pc[f] /\ phase'[f] = phase[f]
      /\ syncUv'[f] = syncUv[f] /\ syncSeen'[f] = syncSeen[f]
      /\ syncUv[f] \in Nat /\ uv[f] \in Nat
  BY <1>2, ConstantsAssumption DEF taskVars, storeVars, IInv, TypeOK, Epochs
<1>4. ~LiveReset => LoopMark(f)'
  BY <1>2, <1>3 DEF LoopMark, InSession, Listening, Landing, Fetching
<1>5. WalkMark(f)'
  BY <1>2, <1>3 DEF WalkMark, InSession, Landing, Fetching
<1>6. Calm /\ b => SyncOk(f)'
  <2> SUFFICES ASSUME Calm, b PROVE SyncOk(f)'
    OBVIOUS
  <2>1. ~InSession(f) /\ ~InSession(f)' /\ pc'[f] # "saveSeen"
    BY <1>2, <1>3 DEF Calm, InSession
  <2>2. syncUv[f] < uv'[f] /\ (syncUv[f] = 0 => syncSeen[f] = 0)
    BY <1>3 DEF MarkOk, SyncOk
  <2>3. SettledUpTo(f, syncUv[f], syncSeen[f])'
    BY <1>3, <2>2 DEF SettledUpTo, Settled
  <2> QED  BY <1>3, <2>1, <2>2, <2>3 DEF SyncOk
<1> QED
  BY <1>4, <1>5, <1>6 DEF MarkOk, Calm

\* New mail, expunges and new epochs leave the marks sound.
LEMMA ServerMark ==
  ASSUME IInv, NEW b, MarkInv(b), NEW f \in Folders, ServerStep(f)
  PROVE  MarkInv(b)'
<1>1. IInv' /\ StoreGrows
  BY ServerInvariant
<1>2. /\ LedgerKept /\ UNCHANGED <<taskVars, storeVars>>
      /\ \A g \in Folders \ {f} : SameServer(g)
      /\ SameServer(f) \/ uv'[f] = uv[f] + 1
  BY ServerFrame DEF IInv, TypeOK, SameServer
<1>3. \A g \in Folders : SameTask(g) /\ SameMark(g)
  BY <1>2 DEF taskVars, storeVars, SameTask, SameMark
<1>4. ASSUME NEW g \in Folders, SameServer(g) PROVE MarkOk(g, b)'
  BY <1>1, <1>2, <1>3, <1>4, MarkKept DEF IInv, MarkInv
<1>5. uv'[f] = uv[f] + 1 => MarkOk(f, b)'
  BY <1>1, EpochMark DEF MarkInv
<1> QED
  BY <1>2, <1>4, <1>5 DEF MarkInv

\* Signals, crashes and restarts leave the marks sound.
LEMMA ProcessMark ==
  ASSUME IInv, NEW b, MarkInv(b), Sigterm \/ Crash \/ Restart \/ UNCHANGED vars
  PROVE  MarkInv(b)'
<1>1. IInv' /\ StoreGrows
  BY ProcessInvariant
<1>2. UNCHANGED <<uv, next, present, ledger, rows, raw, handed, syncUv, syncSeen>>
  BY DEF Sigterm, Crash, Restart, FreshTasks, vars, serverVars, storeVars
<1>3. LedgerKept /\ \A g \in Folders : SameServer(g)
  BY <1>2 DEF LedgerKept, Assigned, SameServer, IInv, TypeOK
<1> SUFFICES ASSUME NEW g \in Folders PROVE MarkOk(g, b)'
  BY DEF MarkInv
<1>4. CASE Sigterm \/ UNCHANGED vars
  <2>1. SameTask(g) /\ SameMark(g)
    BY <1>4 DEF Sigterm, SameTask, SameMark, vars, taskVars, storeVars
  <2> QED  BY <1>1, <1>3, <2>1, MarkKept DEF IInv, MarkInv
<1>5. CASE Crash \/ Restart
  <2>1. pc'[g] = "start" /\ (pc[g] = "saveSeen" => TornUpdates)
    BY <1>5 DEF Crash, Restart, FreshTasks
  <2>2. LoopMark(g)' /\ WalkMark(g)'
    BY <2>1 DEF LoopMark, WalkMark, Listening, Landing, Fetching
  <2>3. Calm /\ b => SyncOk(g)'
    <3> SUFFICES ASSUME Calm, b PROVE SyncOk(g)'
      OBVIOUS
    <3>1. SyncOk(g) /\ ~Resetting(g)
      BY <2>1 DEF Calm, MarkInv, MarkOk, Resetting
    <3>2. PICK e \in 0 .. MaxEpoch, n \in 0 .. MaxUid : e = syncUv[g] /\ n = syncSeen[g]
      BY DEF IInv, TypeOK
    <3>3. SettledUpTo(g, e, n)'
      BY <1>1, <1>3, <3>1, <3>2, SettledUpToKept DEF IInv, SyncOk
    <3>4. SettledUpTo(g, syncUv[g], syncSeen[g])'
      BY <1>2, <3>2, <3>3 DEF SettledUpTo
    <3> QED  BY <1>2, <2>1, <3>1, <3>4 DEF SyncOk, InSession
  <2> QED  BY <2>2, <2>3 DEF MarkOk, Calm
<1> QED
  BY <1>4, <1>5

\* With any steps, and with none but Compared ones.
LEMMA MarkInvariant ==
  /\ Spec => []MarkInv(FALSE)
  /\ Spec /\ [][Compared]_vars => []MarkInv(TRUE)
<1>1. ASSUME NEW b, b => Compared
      PROVE  IInv /\ MarkInv(b) /\ [Next]_vars => MarkInv(b)'
  BY <1>1, TaskMark, ServerMark, ProcessMark DEF Next
<1>2. IInv /\ MarkInv(FALSE) /\ [Next]_vars => MarkInv(FALSE)'
  BY <1>1
<1>3. IInv /\ MarkInv(TRUE) /\ [Next]_vars /\ [Compared]_vars => MarkInv(TRUE)'
  <2>1. CASE Compared
    BY <1>1, <2>1
  <2>2. CASE UNCHANGED vars
    BY <2>2, ProcessMark
  <2> QED  BY <2>1, <2>2
<1>4. (Init => MarkInv(FALSE)) /\ (Init => MarkInv(TRUE))
  BY InitMark
<1>5. Spec => []MarkInv(FALSE)
  BY <1>2, <1>4, Invariant, PTL DEF Spec
<1>6. Spec /\ [][Compared]_vars => []MarkInv(TRUE)
  BY <1>3, <1>4, Invariant, PTL DEF Spec
<1> QED
  BY <1>5, <1>6

\* Without a storage error, or without an epoch change, every step is Compared.
LEMMA NothingUnread ==
  ASSUME IInv, [Next]_vars, MaxFaults = 0 \/ MaxEpoch = 1
  PROVE  [Compared]_vars
<1>1. /\ faults \in 0 .. MaxFaults /\ MaxFaults \in Nat /\ DOMAIN pc = Folders
      /\ \A f \in Folders : syncUv[f] \in 0 .. MaxEpoch /\ uv[f] \in 1 .. MaxEpoch
  <2>1. faults \in 0 .. MaxFaults /\ DOMAIN pc = Folders
    BY DEF IInv, TypeOK
  <2>2. \A f \in Folders : syncUv[f] \in 0 .. MaxEpoch /\ uv[f] \in 1 .. MaxEpoch
    BY DEF IInv, TypeOK, Epochs
  <2>3. MaxFaults \in Nat
    BY ConstantsAssumption
  <2> QED  BY <2>1, <2>2, <2>3
<1> SUFFICES ASSUME Next, NEW f \in Folders, pc[f] = "examine", pc'[f] = "head"
             PROVE  syncUv[f] \in {0, uv[f]}
  BY DEF Compared
<1>2. CASE Examine(f)
  <2>1. PICK unread \in BOOLEAN :
          /\ unread => faults < MaxFaults
          /\ pc' = [pc EXCEPT ![f] = IF ~unread /\ syncUv[f] \notin {0, uv[f]} THEN "save" ELSE "head"]
    BY <1>2 DEF Examine, Tolerated, Goto
  <2>2. CASE MaxFaults = 0
    BY <1>1, <2>1, <2>2
  <2>3. CASE MaxEpoch = 1
    BY <1>1, <2>3
  <2> QED  BY <2>2, <2>3
<1>3. CASE Fault(f)
  BY <1>1, <1>3 DEF Fault, EndCycle, Goto
<1>4. CASE TaskStep(f) /\ ~Examine(f)
  BY <1>1, <1>4 DEF TaskStep, Connect, ExitAtLoopHead, BackfillDone, FetchRange, FetchRecv,
                    SkipUnparseable, WriteRaw, InsertMessage, InsertConflict, EnqueueMessage, BatchDone,
                    SaveUidvalidity, SaveSeen, StartIdle, IdleEvent, IdleRecycle, IdleShutdown,
                    IncrementalExamine, FetchNewer
<1>5. CASE \E g \in Folders \ {f} : TaskStep(g) \/ Fault(g)
  BY <1>5, TaskFrame DEF IInv, SameTask
<1>6. CASE \E g \in Folders : ServerStep(g)
  BY <1>6, ServerFrame DEF IInv, taskVars
<1>7. CASE Sigterm \/ Crash \/ Restart
  BY <1>1, <1>7 DEF Sigterm, Crash, Restart, FreshTasks, taskVars
<1> QED
  BY <1>2, <1>3, <1>4, <1>5, <1>6, <1>7 DEF Next

(***************************************************************************)
(* Theorems                                                                *)
(***************************************************************************)

\* run_idle_loop never advances last_seen_uid past a message that is not stored
\* and queued, through any lost answer, batch, error, copy or restart, as long as
\* UIDVALIDITY does not change under an open session: run_incremental does not
\* compare it.
THEOREM WatermarkIsCovered == Spec => [](~LiveReset => WatermarkCovers)
<1>1. MarkInv(FALSE) => (~LiveReset => WatermarkCovers)
  BY DEF MarkInv, MarkOk, LoopMark, Listening, SettledUpTo, WatermarkCovers
<1> QED
  BY <1>1, MarkInvariant, PTL

\* sync_state's (uidvalidity, last_seen_uid) never claims a message that is not
\* stored and queued: not after a batch with a gap, a lost session, an epoch change
\* between two sessions or a restart, as long as the constants are Calm and
\* run_initial_backfill reads the stored UIDVALIDITY before it walks past a change.
THEOREM PersistedIsCovered ==
  Spec /\ [][Compared]_vars => [](Calm => PersistedWatermark)
<1>1. MarkInv(TRUE) => (Calm => PersistedWatermark)
  BY DEF MarkInv, MarkOk, SyncOk, Resetting, SettledUpTo, PersistedWatermark
<1> QED
  BY <1>1, MarkInvariant, PTL

\* The same without a condition on the steps, for a daemon whose storage calls do not
\* fail and for one whose folders keep their UIDVALIDITY.
THEOREM PersistedWithoutErrors ==
  Spec => [](Calm /\ (MaxFaults = 0 \/ MaxEpoch = 1) => PersistedWatermark)
<1>1. CASE MaxFaults = 0 \/ MaxEpoch = 1
  <2>1. IInv /\ [Next]_vars => [Compared]_vars
    BY <1>1, NothingUnread
  <2>2. Spec => [][Compared]_vars
    BY <2>1, Invariant, PTL DEF Spec
  <2> QED  BY <2>2, PersistedIsCovered, PTL
<1>2. CASE ~(MaxFaults = 0 \/ MaxEpoch = 1)
  <2>1. Calm /\ (MaxFaults = 0 \/ MaxEpoch = 1) => PersistedWatermark
    BY <1>2
  <2> QED  BY <2>1, PTL
<1> QED
  BY <1>1, <1>2
=============================================================================
