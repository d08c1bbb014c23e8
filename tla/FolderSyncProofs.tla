--------------------------- MODULE FolderSyncProofs ---------------------------
(***************************************************************************)
(* Theorems about FolderSync, for any folders, mails, batch size and        *)
(* bounds, with copies, live UIDVALIDITY changes and torn updates allowed. *)
(***************************************************************************)
EXTENDS FolderSync, TLAPS

(***************************************************************************)
(* The inductive invariant                                                 *)
(***************************************************************************)

\* The server has used slot s up: no later delivery writes it.
Assigned(s) ==
  s[2] < uv[s[1]] \/ (s[2] = uv[s[1]] /\ s[3] < next[s[1]])

\* Every UID in the folder stands for a mail.
PresentOk(f) ==
  \A u \in present[f] : u < next[f] /\ ledger[<<f, uv[f], u>>] \in Mails

\* Every row sits under the id of the message in its slot, and has its file.
RowOk(id) ==
  rows[id] # NoRow =>
    /\ Assigned(rows[id]) /\ ledger[rows[id]] \in Mails
    /\ MessageId(rows[id]) = id
    /\ raw[id] # NoMail

Fetching == {"recv", "submit", "insert", "enqueue"}

\* UID u of the current epoch, taken from a FETCH answer.
Fetched(f, u) == u < next[f] /\ ledger[<<f, uv[f], u>>] \in Mails

\* What a task knows of its folder: outside IDLE its UIDVALIDITY is current,
\* and what it holds of the batch was assigned by the server.
SessionOk(f) ==
  /\ pc[f] \in Fetching \cup {"head", "save", "saveSeen", "ifetch"} => suv[f] = uv[f]
  /\ pc[f] \notin Fetching => batch[f] = {}
  /\ \A u \in batch[f] : Fetched(f, u)
  /\ pc[f] \in {"insert", "enqueue"} => Fetched(f, cur[f])
  /\ pc[f] = "insert" => raw[MessageId(Slot(f, cur[f]))] # NoMail
  /\ pc[f] = "enqueue" => rows[MessageId(Slot(f, cur[f]))] = Slot(f, cur[f])

\* Every UID that the backfill's EXAMINE promised is settled.
BackfillCovered(f) ==
  \A u \in Uids : u <= target[f] => Settled(f, muv[f], u)

\* The same for the UIDs up to n.
CoveredUpTo(f, n) ==
  \A u \in Uids : u <= n /\ u <= target[f] => Settled(f, muv[f], u)

\* UID u is still on its way through the sink.
InHand(f, u) == u \in batch[f] \/ (pc[f] \in {"insert", "enqueue"} /\ u = cur[f])

\* How far the backfill has come.
CoverOk(f) ==
  /\ InSession(f) => muv[f] <= uv[f]
  /\ InSession(f) /\ muv[f] = uv[f] => target[f] < next[f]
  /\ pc[f] = "head" => phase[f] = "backfill" /\ CoveredUpTo(f, lo[f] - 1)
  /\ pc[f] \in Fetching => phase[f] # "reset"
  /\ pc[f] \in {"iexamine", "ifetch"} => phase[f] = "incremental"
  /\ pc[f] \in Fetching \cup {"head", "save", "saveSeen"} /\ phase[f] # "incremental"
       => muv[f] = uv[f]
  /\ pc[f] \in Fetching /\ phase[f] = "backfill" =>
       \A u \in Uids : u <= Hi(f) /\ u <= target[f] => Settled(f, muv[f], u) \/ InHand(f, u)
  /\ pc[f] \in {"save", "saveSeen"} /\ phase[f] = "backfill" => CoveredUpTo(f, Hi(f))
  /\ pc[f] \in {"save", "saveSeen"} /\ phase[f] = "reset" => lo[f] = 1
  /\ pc[f] = "idleHead" => shutdown \/ BackfillCovered(f)
  /\ Watching(f) => BackfillCovered(f)

IInv ==
  /\ TypeOK
  /\ \A f \in Folders : PresentOk(f) /\ SessionOk(f) /\ CoverOk(f)
  /\ \A id \in MsgIds : RowOk(id)

(***************************************************************************)
(* What no step undoes                                                     *)
(***************************************************************************)

\* What the server has assigned stays assigned.
LedgerKept == \A s \in Slots : Assigned(s) => Assigned(s)' /\ ledger'[s] = ledger[s]

\* Rows keep their slot; files and queue requests do not go away.
StoreGrows ==
  /\ \A id \in MsgIds : rows[id] # NoRow => rows'[id] = rows[id]
  /\ \A id \in MsgIds : raw[id] # NoMail => raw'[id] # NoMail
  /\ handed \subseteq handed'

\* The step is not one of the task of g, nor a UIDVALIDITY change under it.
SameTask(g) ==
  /\ pc'[g] = pc[g] /\ phase'[g] = phase[g] /\ suv'[g] = suv[g] /\ muv'[g] = muv[g]
  /\ target'[g] = target[g] /\ lo'[g] = lo[g] /\ batch'[g] = batch[g] /\ cur'[g] = cur[g]

SameServer(g) ==
  /\ uv'[g] = uv[g] /\ next[g] <= next'[g]
  /\ \A u \in present'[g] : u < next[g] => u \in present[g]

(***************************************************************************)
(* Types of what the definitions build                                     *)
(***************************************************************************)

\* A folder, an epoch and a UID are a slot.
LEMMA SlotType ==
  ASSUME NEW f \in Folders, NEW e \in Epochs, NEW u \in Uids
  PROVE  <<f, e, u>> \in Slots
BY DEF Slots

\* The sink's id of an assigned slot is a message_id.
LEMMA MessageIdType ==
  ASSUME NEW s \in Slots, ledger[s] \in Mails
  PROVE  MessageId(s) \in MsgIds
<1>1. HeaderId[ledger[s]] \in HeaderIds \cup {NoHeader}
  BY ConstantsAssumption
<1>2. CASE HeaderId[ledger[s]] # NoHeader
  BY <1>1, <1>2 DEF MessageId, MsgIds
<1>3. CASE HeaderId[ledger[s]] = NoHeader
  BY <1>3 DEF MessageId, MsgIds
<1> QED
  BY <1>2, <1>3

\* The end of a batch is a UID not below its start.
LEMMA HiType ==
  ASSUME TypeOK, NEW f \in Folders
  PROVE  Hi(f) \in Uids /\ lo[f] <= Hi(f)
BY ConstantsAssumption DEF TypeOK, Hi, Smaller, Uids

\* An owed response may stay owed or be swallowed.
LEMMA OwedType ==
  ASSUME TypeOK, NEW f \in Folders, NEW owed \in {FALSE, notify[f]},
         notify' = [notify EXCEPT ![f] = owed]
  PROVE  notify' \in [Folders -> BOOLEAN]
<1>1. notify[f] \in BOOLEAN
  BY DEF TypeOK
<1>2. owed \in BOOLEAN
  BY <1>1, Zenon
<1> QED
  BY <1>2 DEF TypeOK

\* The start is well typed.
LEMMA InitType == Init => TypeOK
<1> SUFFICES ASSUME Init PROVE TypeOK
  OBVIOUS
<1>1. shutdown \in BOOLEAN /\ notify \in [Folders -> BOOLEAN]
  BY Zenon DEF Init
<1> QED
  BY <1>1, ConstantsAssumption DEF Init, TypeOK, Pcs, Epochs, Uids, NoTarget

\* Types through a step of a supervisor.
LEMMA TaskType ==
  ASSUME TypeOK, NEW f \in Folders, SessionOk(f),
         TaskStep(f)
  PROVE  TypeOK'
<1> USE ConstantsAssumption
<1>1. CASE Connect(f)
  BY <1>1 DEF TypeOK, Connect, Goto, Pcs, serverVars, batchVars, storeVars, procVars
<1>2. CASE ExitAtLoopHead(f)
  BY <1>2 DEF TypeOK, ExitAtLoopHead, Goto, Pcs, serverVars, batchVars, storeVars, procVars
<1>3. CASE Examine(f)
  BY <1>3 DEF TypeOK, Examine, Tolerated, TargetUid, NoTarget, Goto, Pcs, Epochs, Uids,
              serverVars, storeVars, procVars
<1>4. CASE BackfillDone(f)
  BY <1>4 DEF TypeOK, BackfillDone, EnterIdleLoop, Goto, Pcs, Uids,
              serverVars, storeVars, procVars
<1>5. CASE FetchRange(f)
  BY <1>5 DEF TypeOK, FetchRange, Goto, Pcs, serverVars, storeVars, procVars
<1>6. CASE FetchRecv(f)
  <2>1. notify' \in [Folders -> BOOLEAN]
    BY <1>6, OwedType DEF FetchRecv
  <2> QED
    BY <1>6, <2>1 DEF TypeOK, FetchRecv, Goto, Pcs, batchVars, storeVars, procVars
<1>7. CASE SkipUnparseable(f)
  BY <1>7 DEF TypeOK, SkipUnparseable, Larger, Uids, serverVars, storeVars, procVars
<1>8. CASE WriteRaw(f)
  <2>1. PICK u \in batch[f] :
          /\ batch' = [batch EXCEPT ![f] = @ \ {u}]
          /\ maxSeen' = [maxSeen EXCEPT ![f] = Larger(@, u)]
          /\ cur' = [cur EXCEPT ![f] = u]
          /\ raw' = StoredRaw(Slot(f, u))
    BY <1>8 DEF WriteRaw
  <2>2. u \in Uids /\ Slot(f, u) \in Slots
    BY SlotType DEF TypeOK, Slot
  <2>3. raw' \in [MsgIds -> Mails \cup {NoMail}]
    BY <2>1, <2>2 DEF TypeOK, StoredRaw
  <2> QED
    BY <1>8, <2>1, <2>2, <2>3 DEF TypeOK, WriteRaw, Larger, Goto, Pcs, Uids, serverVars, procVars
<1>9. CASE InsertMessage(f)
  BY <1>9, SlotType DEF TypeOK, InsertMessage, Slot, Goto, Pcs,
              batchVars, serverVars, procVars
<1>10. CASE InsertConflict(f)
  BY <1>10 DEF TypeOK, InsertConflict, EndCycle, Goto, Pcs, Epochs, Uids, NoTarget,
              storeVars, procVars
<1>11. CASE EnqueueMessage(f)
  BY <1>11, SlotType, MessageIdType
  DEF TypeOK, EnqueueMessage, SessionOk, Fetched, Fetching, Slot, Goto, Pcs, Uids, serverVars, procVars
<1>12. CASE BatchDone(f)
  BY <1>12 DEF TypeOK, BatchDone, Goto, Pcs, batchVars, serverVars, storeVars, procVars
<1>13. CASE SaveUidvalidity(f)
  BY <1>13 DEF TypeOK, SaveUidvalidity, Goto, Pcs, Epochs, batchVars, serverVars, procVars
<1>14. CASE SaveSeen(f)
  <2>1. syncSeen' \in [Folders -> 0 .. MaxUid]
    <3>1. /\ phase[f] \in {"reset", "backfill", "incremental"}
          /\ maxSeen[f] \in 0 .. MaxUid /\ syncSeen[f] \in 0 .. MaxUid
      BY DEF TypeOK
    <3>2. SeenUpdate(f) \in 0 .. MaxUid
      BY <3>1 DEF SeenUpdate
    <3> QED
      BY <1>14, <3>2 DEF TypeOK, SaveSeen
  <2>2. CASE ResetSaved(f)
    BY <1>14, <2>1, <2>2 DEF TypeOK, SaveSeen, ResetSaved, Goto, Pcs, serverVars, procVars
  <2>3. CASE BatchSaved(f)
    <3>1. Smaller(Hi(f) + 1, MaxUid) \in Uids
      BY HiType DEF Smaller, Uids
    <3>2. CASE ReachedTarget(f)
      <4>1. EnterIdleLoop(f) /\ phase' = phase
        BY <2>3, <3>2 DEF BatchSaved
      <4>2. /\ lo' \in [Folders -> Uids] /\ pc' \in [Folders -> Pcs]
            /\ maxSeen' \in [Folders -> 0 .. MaxUid] /\ seen' \in [Folders -> 0 .. MaxUid]
            /\ iter' \in [Folders -> 0 .. ScanEvery - 1]
        BY <4>1 DEF TypeOK, EnterIdleLoop, Goto, Pcs, Uids
      <4> QED
        BY <1>14, <2>1, <4>1, <4>2 DEF TypeOK, SaveSeen, serverVars, procVars
    <3>3. CASE ~ReachedTarget(f)
      BY <1>14, <2>1, <2>3, <3>1, <3>3
      DEF TypeOK, SaveSeen, BatchSaved, Goto, Pcs, serverVars, procVars
    <3> QED
      BY <3>2, <3>3
  <2>4. CASE IncrementalSaved(f)
    BY <1>14, <2>1, <2>4 DEF TypeOK, SaveSeen, IncrementalSaved, Goto, Pcs, serverVars, procVars
  <2> QED
    BY <1>14, <2>2, <2>3, <2>4 DEF SaveSeen
<1>15. CASE StartIdle(f)
  <2>1. notify' \in [Folders -> BOOLEAN]
    BY <1>15, OwedType DEF TypeOK, StartIdle
  <2>2. tombstoned' \subseteq MsgIds
    BY <1>15 DEF TypeOK, StartIdle, TombstoneScan
  <2>3. iter' \in [Folders -> 0 .. ScanEvery - 1]
    BY <1>15 DEF TypeOK, StartIdle
  <2>4. /\ shutdown' \in BOOLEAN /\ faults' \in 0 .. MaxFaults
        /\ restarts' \in 0 .. MaxRestarts
    BY <1>15 DEF TypeOK, StartIdle, Tolerated, procVars
  <2> QED
    BY <1>15, <2>1, <2>2, <2>3, <2>4 DEF TypeOK, StartIdle, Goto, Pcs, batchVars
<1>16. CASE IdleEvent(f)
  BY <1>16 DEF TypeOK, IdleEvent, Goto, Pcs, batchVars, storeVars, procVars
<1>17. CASE IdleRecycle(f)
  <2>1. notify' \in [Folders -> BOOLEAN]
    BY <1>17, OwedType DEF IdleRecycle
  <2> QED
    BY <1>17, <2>1 DEF TypeOK, IdleRecycle, Goto, Pcs, batchVars, storeVars, procVars
<1>18. CASE IdleShutdown(f)
  BY <1>18 DEF TypeOK, IdleShutdown, EndCycle, Goto, Pcs, Epochs, Uids, NoTarget,
              storeVars, procVars
<1>19. CASE IncrementalExamine(f)
  BY <1>19 DEF TypeOK, IncrementalExamine, Goto, Pcs, batchVars, storeVars, procVars
<1>20. CASE FetchNewer(f)
  BY <1>20 DEF TypeOK, FetchNewer, NewerUids, Goto, Pcs, serverVars, storeVars, procVars
<1> QED
  BY <1>1, <1>2, <1>3, <1>4, <1>5, <1>6, <1>7, <1>8, <1>9, <1>10, <1>11, <1>12, <1>13,
     <1>14, <1>15, <1>16, <1>17, <1>18, <1>19, <1>20 DEF TaskStep

\* Types through a lost session and through what the server does.
LEMMA OtherType ==
  ASSUME TypeOK, NEW f \in Folders, Fault(f) \/ ServerStep(f)
  PROVE  TypeOK'
<1> USE ConstantsAssumption
<1>1. CASE Fault(f)
  BY <1>1 DEF TypeOK, Fault, EndCycle, Goto, Pcs, Epochs, Uids, NoTarget, storeVars
<1>2. InSession(f) \in BOOLEAN
  BY DEF InSession
<1>3. CASE \E m \in Mails : Deliver(f, m)
  <2>1. PICK m \in Mails : Deliver(f, m)
    BY <1>3
  <2>2. <<f, uv[f], next[f]>> \in Slots /\ next[f] \in Uids
    BY <2>1, SlotType DEF TypeOK, Deliver, Uids
  <2>3. HeaderId[m] \in HeaderIds \cup {NoHeader}
    OBVIOUS
  <2>4. delivered' \subseteq HeaderIds
    BY <2>1, <2>3 DEF TypeOK, Deliver
  <2> QED
    BY <1>2, <2>1, <2>2, <2>4 DEF TypeOK, Deliver, Uids, taskVars, storeVars, procVars
<1>4. CASE \E u \in Uids : Expunge(f, u)
  BY <1>2, <1>4 DEF TypeOK, Expunge, taskVars, storeVars, procVars
<1>5. CASE \E keep \in BOOLEAN : ResetEpoch(f, keep)
  <2>1. PICK keep \in BOOLEAN : ResetEpoch(f, keep)
    BY <1>5
  <2>2. uv[f] \in Epochs
    BY DEF TypeOK
  <2>3. ledger' \in [Slots -> Mails \cup {NoMail}]
    <3> SUFFICES ASSUME NEW s \in Slots PROVE ledger'[s] \in Mails \cup {NoMail}
      BY <2>1 DEF ResetEpoch
    <3>1. s[3] \in Uids
      BY DEF Slots
    <3>2. <<f, uv[f], s[3]>> \in Slots
      BY <2>2, <3>1, SlotType
    <3> QED
      BY <2>1, <3>2 DEF TypeOK, ResetEpoch
  <2>4. uv' \in [Folders -> Epochs]
    BY <2>1 DEF TypeOK, ResetEpoch, Epochs
  <2>5. /\ next' \in [Folders -> 1 .. MaxUid + 1]
        /\ present' \in [Folders -> SUBSET Uids]
    BY <2>1 DEF TypeOK, ResetEpoch
  <2> QED
    BY <1>2, <2>1, <2>3, <2>4, <2>5 DEF TypeOK, ResetEpoch, taskVars, storeVars, procVars
<1> QED
  BY <1>1, <1>3, <1>4, <1>5 DEF ServerStep

\* Types through a signal, a crash and a restart.
LEMMA ProcessType ==
  ASSUME TypeOK, Sigterm \/ Crash \/ Restart \/ UNCHANGED vars
  PROVE  TypeOK'
<1> USE ConstantsAssumption
<1>1. CASE Sigterm
  BY <1>1 DEF TypeOK, Sigterm, serverVars, taskVars, storeVars
<1>2. CASE Crash \/ Restart
  <2>1. FreshTasks /\ restarts' \in 0 .. MaxRestarts
    BY <1>2 DEF TypeOK, Crash, Restart, FreshTasks
  <2>2. shutdown' \in BOOLEAN /\ notify' \in [Folders -> BOOLEAN]
    BY <2>1, Zenon DEF FreshTasks
  <2> QED
    BY <2>1, <2>2 DEF TypeOK, FreshTasks, Pcs, Epochs, Uids, NoTarget, storeVars
<1>3. CASE UNCHANGED vars
  BY <1>3 DEF TypeOK, vars, serverVars, taskVars, storeVars, procVars
<1> QED
  BY <1>1, <1>2, <1>3

(***************************************************************************)
(* Frames                                                                  *)
(***************************************************************************)

\* A step of one task leaves the other tasks and the server alone.
LEMMA TaskFrame ==
  ASSUME TypeOK, NEW f \in Folders, TaskStep(f) \/ Fault(f)
  PROVE  /\ UNCHANGED <<uv, next, present, ledger>>
         /\ shutdown' = shutdown
         /\ \A g \in Folders \ {f} : SameTask(g)
<1> USE DEF TypeOK, SameTask, Goto, serverVars, batchVars, storeVars, procVars
<1>1. CASE Connect(f) \/ ExitAtLoopHead(f)
  BY <1>1 DEF Connect, ExitAtLoopHead
<1>2. CASE Examine(f)
  BY <1>2 DEF Examine, Tolerated
<1>3. CASE BackfillDone(f) \/ FetchRange(f) \/ FetchRecv(f)
  BY <1>3 DEF BackfillDone, EnterIdleLoop, FetchRange, FetchRecv
<1>4. CASE SkipUnparseable(f) \/ WriteRaw(f)
  BY <1>4 DEF SkipUnparseable, WriteRaw
<1>5. CASE InsertMessage(f) \/ EnqueueMessage(f) \/ BatchDone(f)
  BY <1>5 DEF InsertMessage, EnqueueMessage, BatchDone
<1>6. CASE InsertConflict(f) \/ IdleShutdown(f) \/ Fault(f)
  BY <1>6 DEF InsertConflict, IdleShutdown, Fault, EndCycle
<1>7. CASE SaveUidvalidity(f)
  BY <1>7 DEF SaveUidvalidity
<1>8. CASE SaveSeen(f)
  BY <1>8 DEF SaveSeen, ResetSaved, BatchSaved, IncrementalSaved, EnterIdleLoop
<1>9. CASE StartIdle(f) \/ IdleEvent(f) \/ IdleRecycle(f)
  BY <1>9 DEF StartIdle, Tolerated, IdleEvent, IdleRecycle
<1>10. CASE IncrementalExamine(f) \/ FetchNewer(f)
  BY <1>10 DEF IncrementalExamine, FetchNewer
<1> QED
  BY <1>1, <1>2, <1>3, <1>4, <1>5, <1>6, <1>7, <1>8, <1>9, <1>10 DEF TaskStep

\* The store only grows: write_raw replaces a file by a file, insert_message
\* adds a row where there is none.
LEMMA TaskStore ==
  ASSUME TypeOK, NEW f \in Folders, PresentOk(f), SessionOk(f), TaskStep(f) \/ Fault(f)
  PROVE  StoreGrows
<1> USE DEF StoreGrows, serverVars, batchVars, storeVars, procVars
<1>1. CASE WriteRaw(f)
  <2>1. PICK u \in batch[f] : raw' = StoredRaw(Slot(f, u))
    BY <1>1 DEF WriteRaw
  <2>2. Slot(f, u) = <<f, uv[f], u>> /\ ledger[Slot(f, u)] \in Mails
    BY <1>1 DEF WriteRaw, SessionOk, Fetched, Fetching, Slot
  <2>3. \A id \in MsgIds : raw[id] # NoMail => raw'[id] # NoMail
    BY <2>1, <2>2, ConstantsAssumption DEF TypeOK, StoredRaw
  <2> QED
    BY <1>1, <2>3 DEF WriteRaw
<1>2. CASE InsertMessage(f)
  <2>1. \A id \in MsgIds : rows[id] # NoRow => rows'[id] = rows[id]
    BY <1>2 DEF InsertMessage, IdTaken, TypeOK
  <2> QED
    BY <1>2, <2>1 DEF InsertMessage
<1>3. CASE EnqueueMessage(f)
  BY <1>3 DEF EnqueueMessage
<1>4. CASE SaveUidvalidity(f) \/ SaveSeen(f) \/ StartIdle(f)
  BY <1>4 DEF SaveUidvalidity, SaveSeen, StartIdle
<1>5. CASE Connect(f) \/ ExitAtLoopHead(f) \/ Examine(f) \/ BackfillDone(f) \/ FetchRange(f)
  BY <1>5 DEF Connect, ExitAtLoopHead, Examine, BackfillDone, FetchRange
<1>6. CASE FetchRecv(f) \/ SkipUnparseable(f) \/ InsertConflict(f) \/ BatchDone(f)
  BY <1>6 DEF FetchRecv, SkipUnparseable, InsertConflict, BatchDone
<1>7. CASE IdleEvent(f) \/ IdleRecycle(f) \/ IdleShutdown(f) \/ Fault(f)
  BY <1>7 DEF IdleEvent, IdleRecycle, IdleShutdown, Fault
<1>8. CASE IncrementalExamine(f) \/ FetchNewer(f)
  BY <1>8 DEF IncrementalExamine, FetchNewer
<1> QED
  BY <1>1, <1>2, <1>3, <1>4, <1>5, <1>6, <1>7, <1>8 DEF TaskStep

\* A delivery takes a slot that was free, a new epoch only slots above it.
LEMMA ServerFrame ==
  ASSUME TypeOK, NEW f \in Folders, PresentOk(f), ServerStep(f)
  PROVE  /\ LedgerKept
         /\ PresentOk(f)'
         /\ \A g \in Folders \ {f} :
              uv'[g] = uv[g] /\ next'[g] = next[g] /\ present'[g] = present[g]
         /\ \A s \in Slots : s[1] # f => ledger'[s] = ledger[s]
         /\ UNCHANGED <<taskVars, storeVars, procVars>>
         /\ \/ SameServer(f)
            \/ (~InSession(f) \/ pc[f] = "idle") /\ uv'[f] = uv[f] + 1
<1>1. CASE \E m \in Mails : Deliver(f, m)
  <2>1. PICK m \in Mails : Deliver(f, m)
    BY <1>1
  <2>2. <<f, uv[f], next[f]>> \in Slots
    BY <2>1, SlotType DEF TypeOK, Deliver, Uids
  <2>3. uv' = uv /\ next' = [next EXCEPT ![f] = @ + 1]
        /\ ledger' = [ledger EXCEPT ![<<f, uv[f], next[f]>>] = m]
        /\ present' = [present EXCEPT ![f] = @ \cup {next[f]}]
    BY <2>1 DEF Deliver
  <2>4. LedgerKept
    <3> SUFFICES ASSUME NEW s \in Slots, Assigned(s)
                 PROVE  Assigned(s)' /\ ledger'[s] = ledger[s]
      BY DEF LedgerKept
    <3>1. s[1] \in Folders /\ s[2] \in Epochs /\ s[3] \in Uids
      BY DEF Slots
    <3>2. s # <<f, uv[f], next[f]>>
      BY <3>1 DEF Assigned, TypeOK, Epochs, Uids
    <3>3. ledger'[s] = ledger[s]
      BY <2>3, <3>2 DEF TypeOK
    <3>4. Assigned(s)'
      BY <2>3, <3>1 DEF Assigned, TypeOK, Epochs, Uids
    <3> QED
      BY <3>3, <3>4
  <2>5. PresentOk(f)'
    <3> SUFFICES ASSUME NEW u \in present'[f]
                 PROVE  u < next'[f] /\ ledger'[<<f, uv'[f], u>>] \in Mails
      BY DEF PresentOk
    <3>1. CASE u = next[f]
      BY <2>2, <2>3, <3>1 DEF TypeOK
    <3>2. CASE u # next[f]
      <4>1. u \in present[f] /\ u \in Uids /\ u < next[f]
        BY <2>3, <3>2 DEF TypeOK, PresentOk
      <4>2. <<f, uv[f], u>> \in Slots /\ <<f, uv[f], u>> # <<f, uv[f], next[f]>>
        BY <3>2, <4>1, SlotType DEF TypeOK
      <4> QED
        BY <2>3, <4>1, <4>2 DEF TypeOK, PresentOk, Uids
    <3> QED
      BY <3>1, <3>2
  <2>6. SameServer(f)
    BY <2>3 DEF SameServer, TypeOK
  <2>7. \A s \in Slots : s[1] # f => ledger'[s] = ledger[s]
    BY <2>3 DEF TypeOK
  <2>8. \A g \in Folders \ {f} :
          uv'[g] = uv[g] /\ next'[g] = next[g] /\ present'[g] = present[g]
    BY <2>3 DEF TypeOK
  <2>9. UNCHANGED <<taskVars, storeVars, procVars>>
    BY <2>1 DEF Deliver
  <2> QED
    BY <2>4, <2>5, <2>6, <2>7, <2>8, <2>9
<1>2. CASE \E u \in Uids : Expunge(f, u)
  <2>1. uv' = uv /\ next' = next /\ ledger' = ledger
        /\ UNCHANGED <<taskVars, storeVars, procVars>>
        /\ present'[f] \subseteq present[f]
        /\ \A g \in Folders \ {f} : present'[g] = present[g]
    BY <1>2 DEF Expunge, TypeOK
  <2>2. LedgerKept /\ PresentOk(f)' /\ SameServer(f)
    BY <2>1 DEF LedgerKept, Assigned, PresentOk, SameServer, TypeOK
  <2>3. \A g \in Folders \ {f} :
          uv'[g] = uv[g] /\ next'[g] = next[g] /\ present'[g] = present[g]
    BY <2>1
  <2>4. \A s \in Slots : s[1] # f => ledger'[s] = ledger[s]
    BY <2>1
  <2> QED
    BY <2>1, <2>2, <2>3, <2>4
<1>3. CASE \E keep \in BOOLEAN : ResetEpoch(f, keep)
  <2>1. ResetEpoch(f, TRUE) \/ ResetEpoch(f, FALSE)
    BY <1>3
  <2>2. /\ uv' = [uv EXCEPT ![f] = @ + 1]
        /\ uv[f] < MaxEpoch /\ uv[f] \in Epochs
        /\ ~InSession(f) \/ pc[f] = "idle"
        /\ UNCHANGED <<taskVars, storeVars, procVars>>
    BY <2>1 DEF ResetEpoch, TypeOK
  <2>3. \A s \in Slots : ~(s[1] = f /\ s[2] = uv[f] + 1) => ledger'[s] = ledger[s]
    BY <2>1 DEF ResetEpoch
  <2>4. \/ present'[f] = {}
        \/ /\ present'[f] = present[f] /\ next'[f] = next[f]
           /\ \A s \in Slots : s[1] = f /\ s[2] = uv[f] + 1 /\ s[3] \in present[f]
                                 => ledger'[s] = ledger[<<f, uv[f], s[3]>>]
    BY <2>1 DEF ResetEpoch, TypeOK
  <2>5. \A g \in Folders \ {f} :
          uv'[g] = uv[g] /\ next'[g] = next[g] /\ present'[g] = present[g]
    BY <2>1 DEF ResetEpoch, TypeOK
  <2>6. LedgerKept
    <3> SUFFICES ASSUME NEW s \in Slots, Assigned(s)
                 PROVE  Assigned(s)' /\ ledger'[s] = ledger[s]
      BY DEF LedgerKept
    <3>1. s[1] \in Folders /\ s[2] \in Epochs /\ s[3] \in Uids
      BY DEF Slots
    <3>2. s[1] = f => s[2] <= uv[f]
      BY <2>2, <3>1 DEF Assigned, Epochs
    <3>3. ledger'[s] = ledger[s]
      BY <2>2, <2>3, <3>1, <3>2 DEF Epochs
    <3>4. Assigned(s)'
      BY <2>2, <2>5, <3>1, <3>2 DEF Assigned, TypeOK, Epochs
    <3> QED
      BY <3>3, <3>4
  <2>7. PresentOk(f)'
    <3> SUFFICES ASSUME NEW u \in present'[f]
                 PROVE  u < next'[f] /\ ledger'[<<f, uv'[f], u>>] \in Mails
      BY DEF PresentOk
    <3>1. u \in present[f] /\ u \in Uids /\ next'[f] = next[f]
      BY <2>4 DEF TypeOK
    <3>2. <<f, uv[f] + 1, u>> \in Slots
      BY <2>2, <3>1, SlotType, ConstantsAssumption DEF Epochs
    <3>3. ledger'[<<f, uv[f] + 1, u>>] = ledger[<<f, uv[f], u>>]
      BY <2>4, <3>1, <3>2
    <3>4. uv'[f] = uv[f] + 1
      BY <2>2 DEF TypeOK
    <3> QED
      BY <3>1, <3>3, <3>4 DEF PresentOk
  <2>8. uv'[f] = uv[f] + 1
    BY <2>2 DEF TypeOK
  <2>9. \A s \in Slots : s[1] # f => ledger'[s] = ledger[s]
    BY <2>3
  <2> QED
    BY <2>2, <2>5, <2>6, <2>7, <2>8, <2>9
<1> QED
  BY <1>1, <1>2, <1>3 DEF ServerStep

(***************************************************************************)
(* Claims that survive                                                     *)
(***************************************************************************)

\* An assigned slot keeps its message_id.
LEMMA MessageIdKept ==
  ASSUME LedgerKept, NEW s \in Slots, Assigned(s)
  PROVE  MessageId(s)' = MessageId(s)
BY DEF LedgerKept, MessageId

\* A row that is not written stays sound.
LEMMA RowKept ==
  ASSUME TypeOK, LedgerKept, StoreGrows, NEW id \in MsgIds, RowOk(id),
         rows'[id] = rows[id]
  PROVE  RowOk(id)'
<1> SUFFICES ASSUME rows[id] # NoRow PROVE RowOk(id)'
  BY DEF RowOk
<1>1. rows[id] \in Slots
  BY DEF TypeOK
<1>2. MessageId(rows[id])' = MessageId(rows[id])
  BY <1>1, MessageIdKept DEF RowOk
<1> QED
  BY <1>1, <1>2 DEF RowOk, LedgerKept, StoreGrows, MessageId, Assigned

\* A settled UID of an assigned slot stays settled.
LEMMA SettledKept ==
  ASSUME TypeOK, LedgerKept, StoreGrows, NEW g \in Folders, PresentOk(g), SameServer(g),
         NEW u \in Uids, NEW e \in Epochs, e = uv[g] => u < next[g], Settled(g, e, u)
  PROVE  Settled(g, e, u)'
<1> SUFFICES ASSUME u \in present'[g], uv'[g] = e, ledger'[<<g, e, u>>] \notin Unparseable
             PROVE  Archived(<<g, e, u>>)'
  BY DEF Settled
<1>1. u \in present[g] /\ uv[g] = e /\ u < next[g]
  BY DEF SameServer
<1>2. <<g, e, u>> \in Slots /\ Assigned(<<g, e, u>>) /\ ledger[<<g, e, u>>] \in Mails
  BY <1>1, SlotType DEF Assigned, PresentOk
<1>3. ledger'[<<g, e, u>>] = ledger[<<g, e, u>>]
      /\ MessageId(<<g, e, u>>)' = MessageId(<<g, e, u>>)
  BY <1>2, MessageIdKept DEF LedgerKept
<1>4. MessageId(<<g, e, u>>) \in MsgIds
  BY <1>2, MessageIdType
<1>5. Archived(<<g, e, u>>)
  BY <1>1, <1>3 DEF Settled
<1> QED
  BY <1>2, <1>3, <1>4, <1>5, NoRowAssumption DEF Archived, StoreGrows

\* A step that leaves a task alone keeps what is said about it.
LEMMA SessionKept ==
  ASSUME TypeOK, LedgerKept, StoreGrows, NEW g \in Folders, SessionOk(g),
         SameTask(g), uv'[g] = uv[g]
  PROVE  SessionOk(g)'
<1>1. \A u \in Uids : Fetched(g, u) =>
        /\ Fetched(g, u)'
        /\ MessageId(<<g, uv[g], u>>)' = MessageId(<<g, uv[g], u>>)
        /\ MessageId(<<g, uv[g], u>>) \in MsgIds
  <2> SUFFICES ASSUME NEW u \in Uids, Fetched(g, u)
               PROVE  /\ Fetched(g, u)'
                      /\ MessageId(<<g, uv[g], u>>)' = MessageId(<<g, uv[g], u>>)
                      /\ MessageId(<<g, uv[g], u>>) \in MsgIds
    OBVIOUS
  <2>1. <<g, uv[g], u>> \in Slots /\ Assigned(<<g, uv[g], u>>)
    BY SlotType DEF TypeOK, Assigned, Fetched
  <2>2. Assigned(<<g, uv[g], u>>)' /\ ledger'[<<g, uv[g], u>>] = ledger[<<g, uv[g], u>>]
    BY <2>1 DEF LedgerKept
  <2>3. Fetched(g, u)'
    BY <2>2 DEF Fetched, Assigned, TypeOK, Epochs
  <2> QED
    BY <2>1, <2>3, MessageIdKept, MessageIdType DEF Fetched
<1>2. batch[g] \subseteq Uids /\ cur[g] \in Uids
  BY DEF TypeOK
<1>3. pc[g] \in {"insert", "enqueue"} =>
        /\ Slot(g, cur[g]) = <<g, uv[g], cur[g]>>
        /\ Slot(g, cur[g])' = <<g, uv[g], cur[g]>>
        /\ <<g, uv[g], cur[g]>> \in Slots
  BY <1>2, SlotType DEF SessionOk, SameTask, Slot, Fetching, TypeOK
<1>4. pc[g] \in {"insert", "enqueue"} =>
        /\ MessageId(Slot(g, cur[g]))' = MessageId(Slot(g, cur[g]))
        /\ MessageId(Slot(g, cur[g])) \in MsgIds
  BY <1>1, <1>2, <1>3 DEF SessionOk, MessageId
<1>5. pc[g] = "insert" => (raw[MessageId(Slot(g, cur[g]))] # NoMail)'
  BY <1>4 DEF SessionOk, StoreGrows
<1>6. pc[g] = "enqueue" => (rows[MessageId(Slot(g, cur[g]))] = Slot(g, cur[g]))'
  BY <1>3, <1>4, NoRowAssumption DEF SessionOk, StoreGrows
<1> QED
  BY <1>1, <1>2, <1>5, <1>6 DEF SessionOk, SameTask

\* What a walk has covered stays covered through the steps of others.
LEMMA CoverKept ==
  ASSUME TypeOK, TypeOK', LedgerKept, StoreGrows, NEW g \in Folders, PresentOk(g), CoverOk(g),
         SameTask(g), SameServer(g), shutdown => shutdown'
  PROVE  CoverOk(g)'
<1>1. ASSUME InSession(g), NEW u \in Uids, u <= target[g], Settled(g, muv[g], u)
      PROVE  Settled(g, muv[g], u)'
  <2>1. muv[g] \in Epochs /\ target[g] \in Int /\ next[g] \in Int /\ u \in Int
    BY DEF TypeOK, NoTarget, Uids
  <2>2. muv[g] = uv[g] => u < next[g]
    BY <1>1, <2>1 DEF CoverOk
  <2>3. PICK e \in Epochs : e = muv[g]
    BY <2>1
  <2>4. Settled(g, e, u)
    BY <1>1, <2>3
  <2>5. Settled(g, e, u)'
    BY <2>2, <2>3, <2>4, SettledKept
  <2>6. muv'[g] = e
    BY <2>3 DEF SameTask
  <2> QED
    BY <2>5, <2>6 DEF Settled
<1>2. /\ InSession(g)' <=> InSession(g)
      /\ Hi(g)' = Hi(g)
      /\ Watching(g)' <=> Watching(g)
      /\ \A u \in Uids : InHand(g, u)' <=> InHand(g, u)
  BY DEF SameTask, InSession, Hi, Watching, InHand
<1>3. /\ pc[g] \in Fetching \cup {"head", "save", "saveSeen", "idleHead"} => InSession(g)
      /\ Watching(g) => InSession(g)
  BY DEF InSession, Fetching, Watching
<1>4. ASSUME InSession(g), NEW n, CoveredUpTo(g, n)
      PROVE  CoveredUpTo(g, n)'
  BY <1>1, <1>4 DEF CoveredUpTo, SameTask
<1>5. ASSUME InSession(g), BackfillCovered(g)
      PROVE  BackfillCovered(g)'
  BY <1>1, <1>5 DEF BackfillCovered, SameTask
<1>6. pc[g] = "head" => CoveredUpTo(g, lo[g] - 1)'
  <2> SUFFICES ASSUME pc[g] = "head" PROVE CoveredUpTo(g, lo[g] - 1)'
    OBVIOUS
  <2>1. PICK n : n = lo[g] - 1
    OBVIOUS
  <2>2. CoveredUpTo(g, n)'
    BY <1>3, <1>4, <2>1 DEF CoverOk
  <2> QED
    BY <2>1, <2>2 DEF CoveredUpTo, SameTask
<1>7. pc[g] \in {"save", "saveSeen"} /\ phase[g] = "backfill" => CoveredUpTo(g, Hi(g))'
  <2> SUFFICES ASSUME pc[g] \in {"save", "saveSeen"}, phase[g] = "backfill"
               PROVE  CoveredUpTo(g, Hi(g))'
    OBVIOUS
  <2>1. PICK n : n = Hi(g)
    OBVIOUS
  <2>2. CoveredUpTo(g, n)'
    BY <1>3, <1>4, <2>1 DEF CoverOk
  <2> QED
    BY <1>2, <2>1, <2>2 DEF CoveredUpTo
<1>8. pc[g] \in Fetching /\ phase[g] = "backfill" =>
        (\A u \in Uids : u <= Hi(g) /\ u <= target[g] => Settled(g, muv[g], u) \/ InHand(g, u))'
  BY <1>1, <1>2, <1>3 DEF CoverOk, SameTask
<1>9. InSession(g) /\ muv[g] = uv[g] => target[g] < next'[g]
  <2>1. target[g] \in Int /\ next[g] \in Int
    BY DEF TypeOK, NoTarget
  <2>2. next'[g] \in Int
    BY DEF TypeOK
  <2> QED
    BY <2>1, <2>2 DEF CoverOk, SameServer
<1>10. /\ pc[g] = "idleHead" => shutdown' \/ BackfillCovered(g)'
       /\ Watching(g) => BackfillCovered(g)'
  BY <1>3, <1>5 DEF CoverOk
<1> QED
  BY <1>2, <1>6, <1>7, <1>8, <1>9, <1>10 DEF CoverOk, SameTask, SameServer

(***************************************************************************)
(* The steps of a task                                                     *)
(***************************************************************************)

\* A supervisor's step keeps what its pc says about its session.
LEMMA TaskSession ==
  ASSUME TypeOK, NEW f \in Folders, PresentOk(f), SessionOk(f),
         \A id \in MsgIds : RowOk(id), TaskStep(f) \/ Fault(f)
  PROVE  SessionOk(f)'
<1>1. UNCHANGED <<uv, next, present, ledger>>
  BY TaskFrame
<1>2. \A u : Fetched(f, u)' <=> Fetched(f, u)
  BY <1>1 DEF Fetched
<1>3. \A s : MessageId(s)' = MessageId(s)
  BY <1>1 DEF MessageId
<1> USE DEF TypeOK, Goto, Fetching
<1>4. CASE Connect(f) \/ ExitAtLoopHead(f)
  BY <1>4 DEF SessionOk, Connect, ExitAtLoopHead, batchVars
<1>5. CASE Examine(f)
  BY <1>1, <1>5 DEF SessionOk, Examine
<1>6. CASE BackfillDone(f)
  BY <1>6 DEF SessionOk, BackfillDone, EnterIdleLoop
<1>7. CASE FetchRange(f)
  BY <1>1, <1>2, <1>7 DEF SessionOk, FetchRange, PresentOk, Fetched
<1>8. CASE FetchRecv(f)
  BY <1>1, <1>2, <1>8 DEF SessionOk, FetchRecv, batchVars
<1>9. CASE SkipUnparseable(f)
  BY <1>1, <1>2, <1>9 DEF SessionOk, SkipUnparseable
<1>10. CASE WriteRaw(f)
  <2>1. PICK u \in batch[f] :
          /\ batch' = [batch EXCEPT ![f] = @ \ {u}]
          /\ cur' = [cur EXCEPT ![f] = u]
          /\ raw' = StoredRaw(Slot(f, u))
    BY <1>10 DEF WriteRaw
  <2>2. pc[f] = "submit" /\ pc'[f] = "insert" /\ suv' = suv /\ suv[f] = uv[f]
    BY <1>10 DEF WriteRaw, SessionOk
  <2>3. Fetched(f, u) /\ u \in Uids /\ Slot(f, u) = <<f, uv[f], u>>
    BY <2>2 DEF SessionOk, Slot
  <2>4. Slot(f, u) \in Slots /\ ledger[Slot(f, u)] \in Mails
    BY <2>3, SlotType DEF Fetched
  <2>5. raw'[MessageId(Slot(f, u))] # NoMail
    BY <2>1, <2>4, MessageIdType, ConstantsAssumption DEF StoredRaw
  <2>6. cur'[f] = u /\ Slot(f, cur[f])' = Slot(f, u)
    BY <2>1, <2>2 DEF Slot
  <2>7. (raw[MessageId(Slot(f, cur[f]))] # NoMail)'
    BY <1>1, <2>5, <2>6 DEF MessageId
  <2> QED
    BY <1>1, <1>2, <2>1, <2>2, <2>3, <2>6, <2>7 DEF SessionOk
<1>11. CASE InsertMessage(f)
  <2>1. pc[f] = "insert" /\ pc'[f] = "enqueue" /\ suv' = suv /\ cur' = cur /\ batch' = batch
    BY <1>11 DEF InsertMessage, batchVars
  <2>2. Fetched(f, cur[f]) /\ Slot(f, cur[f]) = <<f, uv[f], cur[f]>>
    BY <2>1 DEF SessionOk, Slot
  <2>3. Slot(f, cur[f]) \in Slots /\ MessageId(Slot(f, cur[f])) \in MsgIds
    BY <2>2, SlotType, MessageIdType DEF Fetched
  <2>4. rows'[MessageId(Slot(f, cur[f]))] = Slot(f, cur[f])
    <3>1. CASE HasRow(Slot(f, cur[f]))
      <4>1. PICK id \in MsgIds : rows[id] = Slot(f, cur[f])
        BY <3>1 DEF HasRow
      <4>2. MessageId(Slot(f, cur[f])) = id
        BY <2>3, <4>1, NoRowAssumption DEF RowOk
      <4>3. rows' = rows
        BY <1>11, <3>1 DEF InsertMessage
      <4> QED
        BY <4>1, <4>2, <4>3
    <3>2. CASE ~HasRow(Slot(f, cur[f]))
      BY <1>11, <2>3, <3>2 DEF InsertMessage
    <3> QED
      BY <3>1, <3>2
  <2>5. Slot(f, cur[f])' = Slot(f, cur[f])
    BY <2>1 DEF Slot
  <2>6. (rows[MessageId(Slot(f, cur[f]))] = Slot(f, cur[f]))'
    BY <1>1, <2>4, <2>5 DEF MessageId
  <2> QED
    BY <1>1, <1>2, <2>1, <2>2, <2>6 DEF SessionOk
<1>12. CASE InsertConflict(f) \/ IdleShutdown(f) \/ Fault(f)
  <2>1. \E l \in {"start", "exited"} : pc'[f] = l /\ batch'[f] = {}
    BY <1>12 DEF InsertConflict, IdleShutdown, Fault, EndCycle
  <2> QED
    BY <2>1 DEF SessionOk
<1>13. CASE EnqueueMessage(f)
  BY <1>1, <1>2, <1>13 DEF SessionOk, EnqueueMessage
<1>14. CASE BatchDone(f)
  BY <1>1, <1>14 DEF SessionOk, BatchDone, batchVars
<1>15. CASE SaveUidvalidity(f)
  BY <1>1, <1>15 DEF SessionOk, SaveUidvalidity, batchVars
<1>16. CASE SaveSeen(f)
  <2>1. pc'[f] \in {"head", "idleHead"}
    BY <1>16 DEF SaveSeen, ResetSaved, BatchSaved, IncrementalSaved, EnterIdleLoop
  <2>2. pc[f] = "saveSeen" /\ suv' = suv /\ batch' = batch
    BY <1>16 DEF SaveSeen
  <2> QED
    BY <1>1, <2>1, <2>2 DEF SessionOk
<1>17. CASE StartIdle(f) \/ IdleEvent(f) \/ IdleRecycle(f)
  <2>1. pc[f] \in {"idleHead", "idle"} /\ pc'[f] \in {"idle", "iexamine", "idleHead"}
        /\ batch' = batch
    BY <1>17 DEF StartIdle, IdleEvent, IdleRecycle, batchVars
  <2> QED
    BY <2>1 DEF SessionOk
<1>18. CASE IncrementalExamine(f)
  BY <1>1, <1>18 DEF SessionOk, IncrementalExamine, batchVars
<1>19. CASE FetchNewer(f)
  BY <1>1, <1>2, <1>19 DEF SessionOk, FetchNewer, NewerUids, PresentOk, Fetched
<1> QED
  BY <1>4, <1>5, <1>6, <1>7, <1>8, <1>9, <1>10, <1>11, <1>12, <1>13, <1>14, <1>15, <1>16,
     <1>17, <1>18, <1>19 DEF TaskStep

\* insert_message is the only step that adds a row, and its file is there.
LEMMA TaskRows ==
  ASSUME TypeOK, NEW f \in Folders, PresentOk(f), SessionOk(f),
         \A id \in MsgIds : RowOk(id), TaskStep(f) \/ Fault(f)
  PROVE  \A id \in MsgIds : RowOk(id)'
<1>1. UNCHANGED <<uv, next, present, ledger>> /\ StoreGrows
  BY TaskFrame, TaskStore
<1>2. LedgerKept
  BY <1>1 DEF LedgerKept, Assigned
<1>3. CASE InsertMessage(f)
  <2>1. pc[f] = "insert" /\ raw' = raw
    BY <1>3 DEF InsertMessage
  <2>2. Fetched(f, cur[f]) /\ Slot(f, cur[f]) = <<f, uv[f], cur[f]>> /\ cur[f] \in Uids
    BY <2>1 DEF SessionOk, Slot, Fetching, TypeOK
  <2>3. /\ Slot(f, cur[f]) \in Slots /\ Assigned(Slot(f, cur[f]))
        /\ ledger[Slot(f, cur[f])] \in Mails
    BY <2>2, SlotType DEF Fetched, Assigned, TypeOK
  <2>4. raw[MessageId(Slot(f, cur[f]))] # NoMail
    BY <2>1 DEF SessionOk
  <2>5. rows' = rows \/ rows' = [rows EXCEPT ![MessageId(Slot(f, cur[f]))] = Slot(f, cur[f])]
    BY <1>3 DEF InsertMessage
  <2> TAKE id \in MsgIds
  <2>6. CASE rows'[id] = rows[id]
    BY <1>1, <1>2, <2>6, RowKept
  <2>7. CASE rows'[id] # rows[id]
    <3>1. id = MessageId(Slot(f, cur[f])) /\ rows'[id] = Slot(f, cur[f])
      BY <2>5, <2>7 DEF TypeOK
    <3> QED
      BY <1>1, <2>1, <2>3, <2>4, <3>1 DEF RowOk, Assigned, MessageId
  <2> QED
    BY <2>6, <2>7
<1>4. CASE ~InsertMessage(f)
  <2>1. rows' = rows
    <3> USE DEF storeVars
    <3>1. CASE Connect(f) \/ ExitAtLoopHead(f) \/ Examine(f) \/ BackfillDone(f) \/ FetchRange(f)
      BY <3>1 DEF Connect, ExitAtLoopHead, Examine, BackfillDone, FetchRange
    <3>2. CASE FetchRecv(f) \/ SkipUnparseable(f) \/ WriteRaw(f) \/ InsertConflict(f)
      BY <3>2 DEF FetchRecv, SkipUnparseable, WriteRaw, InsertConflict
    <3>3. CASE EnqueueMessage(f) \/ BatchDone(f) \/ SaveUidvalidity(f) \/ SaveSeen(f)
      BY <3>3 DEF EnqueueMessage, BatchDone, SaveUidvalidity, SaveSeen
    <3>4. CASE StartIdle(f) \/ IdleEvent(f) \/ IdleRecycle(f) \/ IdleShutdown(f)
      BY <3>4 DEF StartIdle, IdleEvent, IdleRecycle, IdleShutdown
    <3>5. CASE IncrementalExamine(f) \/ FetchNewer(f) \/ Fault(f)
      BY <3>5 DEF IncrementalExamine, FetchNewer, Fault
    <3> QED
      BY <1>4, <3>1, <3>2, <3>3, <3>4, <3>5 DEF TaskStep
  <2> QED
    BY <1>1, <1>2, <2>1, RowKept
<1> QED
  BY <1>3, <1>4

\* A supervisor's step keeps what its pc says about the walk.
LEMMA TaskCover ==
  ASSUME TypeOK, TypeOK', NEW f \in Folders, PresentOk(f), SessionOk(f), CoverOk(f),
         \A id \in MsgIds : RowOk(id), TaskStep(f) \/ Fault(f)
  PROVE  CoverOk(f)'
<1>1. UNCHANGED <<uv, next, present, ledger>> /\ StoreGrows /\ shutdown' = shutdown
  BY TaskFrame, TaskStore
<1>2. LedgerKept /\ SameServer(f)
  BY <1>1 DEF LedgerKept, Assigned, SameServer, TypeOK
<1>3. \A u \in Uids, e \in Epochs : Settled(f, e, u) => Settled(f, e, u)'
  <2> SUFFICES ASSUME NEW u \in Uids, NEW e \in Epochs, Settled(f, e, u)
               PROVE  Settled(f, e, u)'
    OBVIOUS
  <2>1. CASE u \in present[f]
    BY <1>1, <1>2, <2>1, SettledKept DEF PresentOk
  <2>2. CASE u \notin present[f]
    BY <1>1, <2>2 DEF Settled
  <2> QED
    BY <2>1, <2>2
<1>4. ASSUME muv'[f] = muv[f], NEW u \in Uids, Settled(f, muv[f], u)
      PROVE  Settled(f, muv[f], u)'
  <2>1. PICK e \in Epochs : e = muv[f]
    BY DEF TypeOK
  <2>2. Settled(f, e, u)'
    BY <1>3, <1>4, <2>1
  <2> QED
    BY <1>4, <2>1, <2>2 DEF Settled
<1>5. ASSUME muv'[f] = muv[f], target'[f] = target[f], BackfillCovered(f)
      PROVE  BackfillCovered(f)'
  BY <1>4, <1>5 DEF BackfillCovered
<1>6. ASSUME muv'[f] = muv[f], target'[f] = target[f]
      PROVE  (InSession(f) => muv[f] <= uv[f])
             /\ (InSession(f) => muv'[f] <= uv'[f])
             /\ (InSession(f) /\ muv'[f] = uv'[f] => target'[f] < next'[f])
  BY <1>1, <1>6 DEF CoverOk
<1>7. ASSUME pc'[f] \in {"start", "examine", "exited"}
      PROVE  CoverOk(f)'
  BY <1>7 DEF CoverOk, InSession, Watching, Fetching
<1>8. target[f] \in Int /\ lo[f] \in Uids /\ MaxUid \in Nat /\ Hi(f) \in Uids /\ lo[f] <= Hi(f)
  BY HiType, ConstantsAssumption DEF TypeOK, NoTarget
<1>9. CASE Connect(f) \/ ExitAtLoopHead(f) \/ InsertConflict(f) \/ IdleShutdown(f) \/ Fault(f)
  <2>1. pc'[f] \in {"start", "examine", "exited"}
    BY <1>9 DEF TypeOK, Connect, ExitAtLoopHead, InsertConflict, IdleShutdown, Fault,
                EndCycle, Goto
  <2> QED
    BY <1>7, <2>1
<1>10. CASE Examine(f)
  <2>1. /\ muv'[f] = uv'[f] /\ lo'[f] = 1
        /\ \/ pc'[f] = "save" /\ phase'[f] = "reset"
           \/ pc'[f] = "head" /\ phase'[f] = "backfill"
    BY <1>1, <1>10 DEF TypeOK, Examine, Goto
  <2>2. target'[f] < next'[f] /\ uv'[f] <= uv'[f]
    BY <1>1, <1>10 DEF TypeOK, Examine, TargetUid, NoTarget, Epochs
  <2>3. CoveredUpTo(f, lo[f] - 1)'
    BY <2>1 DEF CoveredUpTo, Uids
  <2> QED
    BY <2>1, <2>2, <2>3 DEF CoverOk, Watching, Fetching
<1>11. CASE BackfillDone(f)
  <2>1. /\ pc[f] = "head" /\ pc'[f] = "idleHead" /\ muv' = muv /\ target' = target
        /\ shutdown \/ PastTarget(f, lo[f])
    BY <1>11 DEF TypeOK, BackfillDone, EnterIdleLoop, Goto
  <2>2. CASE shutdown
    BY <1>1, <1>6, <2>1, <2>2 DEF CoverOk, InSession, Watching, Fetching
  <2>3. CASE PastTarget(f, lo[f])
    <3>1. BackfillCovered(f)
      BY <1>8, <2>1, <2>3 DEF CoverOk, CoveredUpTo, BackfillCovered, PastTarget, Uids
    <3>2. BackfillCovered(f)'
      BY <1>5, <2>1, <3>1
    <3> QED
      BY <1>6, <2>1, <3>2 DEF CoverOk, InSession, Watching, Fetching
  <2> QED
    BY <2>1, <2>2, <2>3
<1>12. CASE FetchRange(f)
  <2>1. /\ pc[f] = "head" /\ pc'[f] = "recv" /\ UNCHANGED <<muv, target, lo, phase>>
        /\ batch'[f] = {u \in present[f] : lo[f] <= u /\ u <= Hi(f)}
    BY <1>12 DEF TypeOK, FetchRange, Goto
  <2>2. phase[f] = "backfill" /\ muv[f] = uv[f] /\ CoveredUpTo(f, lo[f] - 1) /\ Hi(f)' = Hi(f)
    BY <2>1 DEF CoverOk, Hi
  <2>3. ASSUME NEW u \in Uids, u <= Hi(f), u <= target[f]
        PROVE  Settled(f, muv[f], u)' \/ InHand(f, u)'
    <3>1. CASE u < lo[f]
      <4>1. Settled(f, muv[f], u)
        BY <1>8, <2>2, <2>3, <3>1 DEF CoveredUpTo, Uids
      <4> QED
        BY <1>4, <2>1, <4>1
    <3>2. CASE lo[f] <= u /\ u \in present[f]
      BY <2>1, <2>3, <3>2 DEF InHand
    <3>3. CASE u \notin present[f]
      BY <1>1, <3>3 DEF Settled
    <3> QED
      BY <1>8, <3>1, <3>2, <3>3 DEF Uids
  <2> QED
    BY <1>1, <1>6, <2>1, <2>2, <2>3 DEF CoverOk, InSession, Watching, Fetching
<1>13. CASE FetchRecv(f) \/ InsertMessage(f)
  <2>1. /\ UNCHANGED <<muv, target, lo, phase, batch, cur>>
        /\ \/ pc[f] = "recv" /\ pc'[f] = "submit"
           \/ pc[f] = "insert" /\ pc'[f] = "enqueue"
    BY <1>13 DEF TypeOK, FetchRecv, InsertMessage, Goto, batchVars
  <2>2. Hi(f)' = Hi(f) /\ \A u \in Uids : InHand(f, u) => InHand(f, u)'
    BY <2>1 DEF Hi, InHand
  <2>3. CASE phase[f] = "backfill"
    BY <1>1, <1>4, <1>6, <2>1, <2>2, <2>3 DEF CoverOk, InSession, Watching, Fetching
  <2>4. CASE phase[f] # "backfill"
    BY <1>1, <1>5, <1>6, <2>1, <2>4 DEF TypeOK, CoverOk, InSession, Watching, Fetching
  <2> QED
    BY <2>3, <2>4
<1>14. CASE SkipUnparseable(f) \/ WriteRaw(f)
  <2>1. PICK v \in batch[f] :
          /\ pc[f] = "submit" /\ UNCHANGED <<muv, target, lo, phase>>
          /\ batch'[f] = batch[f] \ {v}
          /\ \/ pc'[f] = "submit" /\ ledger[Slot(f, v)] \in Unparseable
             \/ pc'[f] = "insert" /\ cur'[f] = v
    BY <1>14 DEF TypeOK, SkipUnparseable, WriteRaw, Goto
  <2>2. CASE phase[f] = "backfill"
    <3>1. Hi(f)' = Hi(f) /\ muv[f] = uv[f] /\ suv[f] = uv[f]
      BY <2>1, <2>2 DEF Hi, CoverOk, SessionOk, Fetching
    <3>2. ASSUME NEW u \in Uids, u <= Hi(f), u <= target[f]
          PROVE  Settled(f, muv[f], u)' \/ InHand(f, u)'
      <4>1. CASE u = v
        BY <1>1, <2>1, <3>1, <4>1 DEF Settled, InHand, Slot
      <4>2. CASE u # v
        BY <1>4, <2>1, <2>2, <3>2, <4>2 DEF CoverOk, InHand, Fetching
      <4> QED
        BY <4>1, <4>2
    <3> QED
      BY <1>1, <1>6, <2>1, <2>2, <3>1, <3>2 DEF CoverOk, InSession, Watching, Fetching
  <2>3. CASE phase[f] # "backfill"
    BY <1>1, <1>5, <1>6, <2>1, <2>3 DEF TypeOK, CoverOk, InSession, Watching, Fetching
  <2> QED
    BY <2>2, <2>3
<1>15. CASE EnqueueMessage(f)
  <2>1. /\ pc[f] = "enqueue" /\ pc'[f] = "submit" /\ UNCHANGED <<muv, target, lo, phase, batch>>
        /\ MessageId(Slot(f, cur[f])) \in handed' /\ rows' = rows
    BY <1>15 DEF TypeOK, EnqueueMessage, Goto
  <2>2. CASE phase[f] = "backfill"
    <3>1. Hi(f)' = Hi(f) /\ muv[f] = uv[f] /\ suv[f] = uv[f]
      BY <2>1, <2>2 DEF Hi, CoverOk, SessionOk, Fetching
    <3>2. rows[MessageId(<<f, muv[f], cur[f]>>)] = <<f, muv[f], cur[f]>>
          /\ MessageId(<<f, muv[f], cur[f]>>) \in handed'
      BY <2>1, <3>1 DEF SessionOk, Slot
    <3>3. PICK v : v = cur[f]
      OBVIOUS
    <3>4. Settled(f, muv[f], v)'
      BY <1>1, <2>1, <3>2, <3>3 DEF Settled, Archived, MessageId
    <3>5. ASSUME NEW u \in Uids, u <= Hi(f), u <= target[f]
          PROVE  Settled(f, muv[f], u)' \/ InHand(f, u)'
      <4>1. CASE u = v
        BY <3>4, <4>1
      <4>2. CASE u # v
        BY <1>4, <2>1, <2>2, <3>3, <3>5, <4>2 DEF CoverOk, InHand, Fetching
      <4> QED
        BY <4>1, <4>2
    <3> QED
      BY <1>1, <1>6, <2>1, <2>2, <3>1, <3>5 DEF CoverOk, InSession, Watching, Fetching
  <2>3. CASE phase[f] # "backfill"
    BY <1>1, <1>5, <1>6, <2>1, <2>3 DEF TypeOK, CoverOk, InSession, Watching, Fetching
  <2> QED
    BY <2>2, <2>3
<1>16. CASE BatchDone(f) \/ SaveUidvalidity(f)
  <2>1. /\ UNCHANGED <<muv, target, lo, phase, batch>>
        /\ \/ pc[f] = "submit" /\ pc'[f] = "save" /\ batch[f] = {}
           \/ pc[f] = "save" /\ pc'[f] = "saveSeen"
    BY <1>16 DEF TypeOK, BatchDone, SaveUidvalidity, Goto, batchVars
  <2>2. CASE phase[f] = "backfill"
    <3>1. CoveredUpTo(f, Hi(f)) /\ Hi(f)' = Hi(f)
      BY <2>1, <2>2 DEF CoverOk, CoveredUpTo, InHand, Fetching, Hi
    <3>2. CoveredUpTo(f, Hi(f))'
      BY <1>4, <2>1, <3>1 DEF CoveredUpTo
    <3> QED
      BY <1>1, <1>6, <2>1, <2>2, <3>2 DEF CoverOk, InSession, Watching, Fetching
  <2>3. CASE phase[f] = "reset"
    BY <1>1, <1>6, <2>1, <2>3 DEF CoverOk, InSession, Watching, Fetching
  <2>4. CASE phase[f] = "incremental"
    BY <1>1, <1>5, <1>6, <2>1, <2>4 DEF CoverOk, InSession, Watching, Fetching
  <2> QED
    BY <2>2, <2>3, <2>4 DEF TypeOK
<1>17. CASE SaveSeen(f)
  <2>1. pc[f] = "saveSeen" /\ UNCHANGED <<muv, target>>
    BY <1>17 DEF SaveSeen
  <2>2. CASE ResetSaved(f)
    <3>1. phase[f] = "reset" /\ phase'[f] = "backfill" /\ pc'[f] = "head" /\ lo' = lo
      BY <2>2 DEF TypeOK, ResetSaved, Goto
    <3>2. CoveredUpTo(f, lo[f] - 1)'
      BY <2>1, <3>1 DEF CoverOk, CoveredUpTo, Uids
    <3> QED
      BY <1>1, <1>6, <2>1, <3>1, <3>2 DEF CoverOk, InSession, Watching, Fetching
  <2>3. CASE BatchSaved(f) /\ ReachedTarget(f)
    <3>1. phase[f] = "backfill" /\ pc'[f] = "idleHead" /\ phase' = phase
      BY <2>3 DEF TypeOK, BatchSaved, EnterIdleLoop, Goto
    <3>2. BackfillCovered(f)
      BY <1>8, <2>1, <2>3, <3>1
      DEF CoverOk, CoveredUpTo, BackfillCovered, ReachedTarget, Uids
    <3>3. BackfillCovered(f)'
      BY <1>5, <2>1, <3>2
    <3> QED
      BY <1>6, <2>1, <3>1, <3>3 DEF CoverOk, InSession, Watching, Fetching
  <2>4. CASE BatchSaved(f) /\ ~ReachedTarget(f)
    <3>1. /\ phase[f] = "backfill" /\ phase' = phase /\ pc'[f] = "head"
          /\ lo'[f] = Smaller(Hi(f) + 1, MaxUid)
      BY <2>4 DEF TypeOK, BatchSaved, Goto
    <3>2. lo'[f] - 1 <= Hi(f) /\ lo'[f] \in Int
      BY <1>8, <3>1 DEF Smaller, Uids
    <3>3. CoveredUpTo(f, Hi(f))
      BY <2>1, <3>1 DEF CoverOk
    <3>4. CoveredUpTo(f, lo[f] - 1)'
      <4> SUFFICES ASSUME NEW u \in Uids, u <= lo'[f] - 1, u <= target'[f]
                   PROVE  Settled(f, muv[f], u)'
        BY DEF CoveredUpTo
      <4>1. u <= Hi(f) /\ u <= target[f]
        BY <1>8, <2>1, <3>2 DEF Uids
      <4> QED
        BY <1>4, <2>1, <3>3, <4>1 DEF CoveredUpTo
    <3> QED
      BY <1>1, <1>6, <2>1, <3>1, <3>4 DEF CoverOk, InSession, Watching, Fetching
  <2>5. CASE IncrementalSaved(f)
    <3>1. phase[f] = "incremental" /\ phase' = phase /\ pc'[f] = "idleHead"
      BY <2>5 DEF TypeOK, IncrementalSaved, Goto
    <3>2. BackfillCovered(f)'
      BY <1>5, <2>1, <3>1 DEF CoverOk, Watching
    <3> QED
      BY <1>6, <2>1, <3>1, <3>2 DEF CoverOk, InSession, Watching, Fetching
  <2> QED
    BY <1>17, <2>2, <2>3, <2>4, <2>5 DEF SaveSeen
<1>18. CASE StartIdle(f) \/ IdleEvent(f) \/ IdleRecycle(f) \/ IncrementalExamine(f)
            \/ FetchNewer(f)
  <2>1. /\ UNCHANGED <<muv, target>>
        /\ \/ pc[f] = "idleHead" /\ ~shutdown /\ pc'[f] = "idle"
           \/ pc[f] = "idle" /\ pc'[f] = "idleHead"
           \/ pc[f] = "idle" /\ pc'[f] = "iexamine" /\ phase'[f] = "incremental"
           \/ pc[f] = "iexamine" /\ pc'[f] = "ifetch" /\ phase' = phase
           \/ pc[f] = "ifetch" /\ pc'[f] = "recv" /\ phase' = phase
    BY <1>18 DEF TypeOK, StartIdle, IdleTold, IdleEvent, IdleRecycle, IncrementalExamine, FetchNewer,
                 Goto
  <2>2. BackfillCovered(f)
    BY <2>1 DEF CoverOk, Watching
  <2>3. BackfillCovered(f)'
    BY <1>5, <2>1, <2>2
  <2> QED
    BY <1>6, <2>1, <2>3 DEF CoverOk, InSession, Watching, Fetching
<1> QED
  BY <1>9, <1>10, <1>11, <1>12, <1>13, <1>14, <1>15, <1>16, <1>17, <1>18 DEF TaskStep

(***************************************************************************)
(* The invariant holds initially and every step keeps it                   *)
(***************************************************************************)

\* The start satisfies the invariant.
LEMMA InitInvariant == Init => IInv
<1> SUFFICES ASSUME Init PROVE IInv
  OBVIOUS
<1>1. TypeOK
  BY InitType
<1>2. ASSUME NEW f \in Folders
      PROVE  PresentOk(f) /\ SessionOk(f) /\ CoverOk(f)
  BY DEF Init, PresentOk, SessionOk, CoverOk, Fetching, InSession, Watching
<1>3. \A id \in MsgIds : RowOk(id)
  BY DEF Init, RowOk
<1> QED
  BY <1>1, <1>2, <1>3 DEF IInv

\* A supervisor step keeps the invariant and removes nothing from the store.
LEMMA TaskInvariant ==
  ASSUME IInv, NEW f \in Folders, TaskStep(f) \/ Fault(f)
  PROVE  IInv' /\ StoreGrows
<1>1. TypeOK'
  BY TaskType, OtherType DEF IInv
<1>2. UNCHANGED <<uv, next, present, ledger>> /\ shutdown' = shutdown /\ StoreGrows
  BY TaskFrame, TaskStore DEF IInv
<1>3. LedgerKept /\ \A g \in Folders : SameServer(g)
  BY <1>2 DEF IInv, TypeOK, LedgerKept, Assigned, SameServer
<1>4. ASSUME NEW g \in Folders
      PROVE  PresentOk(g)' /\ SessionOk(g)' /\ CoverOk(g)'
  <2>1. PresentOk(g)'
    BY <1>2 DEF IInv, PresentOk
  <2>2. CASE g = f
    BY <1>1, <2>1, <2>2, TaskSession, TaskCover DEF IInv
  <2>3. CASE g # f
    <3>1. SameTask(g)
      BY <2>3, TaskFrame DEF IInv
    <3>2. SessionOk(g)'
      BY <1>2, <1>3, <3>1, SessionKept DEF IInv, SameServer
    <3>3. CoverOk(g)'
      BY <1>1, <1>2, <1>3, <3>1, CoverKept DEF IInv
    <3> QED
      BY <2>1, <3>2, <3>3
  <2> QED
    BY <2>2, <2>3
<1>5. \A id \in MsgIds : RowOk(id)'
  BY TaskRows DEF IInv
<1> QED
  BY <1>1, <1>2, <1>4, <1>5 DEF IInv

\* Mail arrives or goes while the task is anywhere; a UIDVALIDITY change meets
\* it outside a session or in IDLE, where nothing of the old epoch is in hand.
LEMMA ServerInvariant ==
  ASSUME IInv, NEW f \in Folders, ServerStep(f)
  PROVE  IInv' /\ StoreGrows
<1>1. TypeOK'
  BY OtherType DEF IInv
<1>2. /\ LedgerKept /\ PresentOk(f)'
      /\ \A g \in Folders \ {f} :
           uv'[g] = uv[g] /\ next'[g] = next[g] /\ present'[g] = present[g]
      /\ \A s \in Slots : s[1] # f => ledger'[s] = ledger[s]
      /\ UNCHANGED <<taskVars, storeVars, procVars>>
      /\ \/ SameServer(f)
         \/ (~InSession(f) \/ pc[f] = "idle") /\ uv'[f] = uv[f] + 1
  BY ServerFrame DEF IInv
<1>3. StoreGrows
  BY <1>2 DEF StoreGrows, storeVars
<1>4. shutdown' = shutdown /\ \A g \in Folders : SameTask(g)
  BY <1>2 DEF SameTask, taskVars, procVars
<1>5. ASSUME NEW g \in Folders \ {f}
      PROVE  PresentOk(g)' /\ SessionOk(g)' /\ CoverOk(g)'
  <2>1. SameServer(g)
    BY <1>2 DEF IInv, TypeOK, SameServer
  <2>2. PresentOk(g)'
    <3> SUFFICES ASSUME NEW u \in present'[g]
                 PROVE  u < next'[g] /\ ledger'[<<g, uv'[g], u>>] \in Mails
      BY DEF PresentOk
    <3>1. u \in present[g] /\ <<g, uv[g], u>> \in Slots
      BY <1>2, SlotType DEF IInv, TypeOK
    <3>2. ledger'[<<g, uv[g], u>>] = ledger[<<g, uv[g], u>>]
      BY <1>2, <3>1
    <3> QED
      BY <1>2, <3>1, <3>2 DEF IInv, PresentOk
  <2>3. SessionOk(g)'
    BY <1>2, <1>3, <1>4, <2>1, SessionKept DEF IInv, SameServer
  <2>4. CoverOk(g)'
    BY <1>1, <1>2, <1>3, <1>4, <2>1, CoverKept DEF IInv
  <2> QED
    BY <2>2, <2>3, <2>4
<1>6. SessionOk(f)' /\ CoverOk(f)'
  <2>1. CASE SameServer(f)
    <3>1. SessionOk(f)'
      BY <1>2, <1>3, <1>4, <2>1, SessionKept DEF IInv, SameServer
    <3>2. CoverOk(f)'
      BY <1>1, <1>2, <1>3, <1>4, <2>1, CoverKept DEF IInv
    <3> QED
      BY <3>1, <3>2
  <2>2. CASE (~InSession(f) \/ pc[f] = "idle") /\ uv'[f] = uv[f] + 1
    <3>1. pc'[f] = pc[f] /\ pc[f] \in {"start", "examine", "exited", "idle"} /\ batch'[f] = {}
      BY <1>4, <2>2 DEF IInv, TypeOK, SessionOk, SameTask, InSession, Fetching
    <3>2. SessionOk(f)'
      BY <3>1 DEF SessionOk, Fetching
    <3>3. pc[f] = "idle" => muv[f] < uv'[f] /\ muv'[f] = muv[f]
      BY <1>4, <2>2 DEF IInv, TypeOK, CoverOk, InSession, SameTask, Epochs
    <3>4. pc[f] = "idle" => BackfillCovered(f)'
      BY <1>1, <3>3 DEF BackfillCovered, Settled, TypeOK, Epochs
    <3>5. muv'[f] \in Epochs /\ uv'[f] \in Epochs
      BY <1>1 DEF TypeOK
    <3>6. CoverOk(f)'
      BY <3>1, <3>3, <3>4, <3>5 DEF CoverOk, InSession, Watching, Fetching, Epochs
    <3> QED
      BY <3>2, <3>6
  <2> QED
    BY <1>2, <2>1, <2>2
<1>7. \A id \in MsgIds : RowOk(id)'
  BY <1>2, <1>3, RowKept DEF IInv, storeVars
<1>8. \A g \in Folders : PresentOk(g)' /\ SessionOk(g)' /\ CoverOk(g)'
  BY <1>2, <1>5, <1>6
<1> QED
  BY <1>1, <1>3, <1>7, <1>8 DEF IInv

\* A crash or a restart forgets the tasks; a stop request forgets nothing.
LEMMA ProcessInvariant ==
  ASSUME IInv, Sigterm \/ Crash \/ Restart \/ UNCHANGED vars
  PROVE  IInv' /\ StoreGrows
<1>1. TypeOK'
  BY ProcessType DEF IInv
<1>2. UNCHANGED <<uv, next, present, ledger, rows, raw, handed>>
  BY DEF Sigterm, Crash, Restart, FreshTasks, vars, serverVars, storeVars
<1>3. StoreGrows /\ LedgerKept /\ \A g \in Folders : SameServer(g) /\ PresentOk(g)'
  BY <1>2 DEF IInv, TypeOK, StoreGrows, LedgerKept, Assigned, SameServer, PresentOk
<1>4. ASSUME NEW g \in Folders
      PROVE  SessionOk(g)' /\ CoverOk(g)'
  <2>1. CASE Crash \/ Restart
    <3>1. pc'[g] = "start" /\ batch'[g] = {}
      BY <2>1 DEF Crash, Restart, FreshTasks
    <3> QED
      BY <3>1 DEF SessionOk, CoverOk, Fetching, InSession, Watching
  <2>2. CASE Sigterm \/ UNCHANGED vars
    <3>1. SameTask(g) /\ (shutdown => shutdown')
      BY <2>2 DEF Sigterm, SameTask, vars, taskVars, procVars
    <3>2. SessionOk(g)'
      BY <1>2, <1>3, <3>1, SessionKept DEF IInv
    <3>3. CoverOk(g)'
      BY <1>1, <1>3, <3>1, CoverKept DEF IInv
    <3> QED
      BY <3>2, <3>3
  <2> QED
    BY <2>1, <2>2
<1>5. \A id \in MsgIds : RowOk(id)'
  BY <1>2, <1>3, RowKept DEF IInv
<1> QED
  BY <1>1, <1>3, <1>4, <1>5 DEF IInv

\* So does every other step.
LEMMA NextInvariant == IInv /\ [Next]_vars => IInv' /\ StoreGrows
<1> SUFFICES ASSUME IInv, [Next]_vars PROVE IInv' /\ StoreGrows
  OBVIOUS
<1>1. CASE \E f \in Folders : TaskStep(f) \/ Fault(f)
  BY <1>1, TaskInvariant
<1>2. CASE \E f \in Folders : ServerStep(f)
  BY <1>2, ServerInvariant
<1>3. CASE Sigterm \/ Crash \/ Restart \/ UNCHANGED vars
  BY <1>3, ProcessInvariant
<1> QED
  BY <1>1, <1>2, <1>3 DEF Next

\* The invariant holds always.
LEMMA Invariant == Spec => []IInv
BY InitInvariant, NextInvariant, PTL DEF Spec

(***************************************************************************)
(* Theorems                                                                *)
(***************************************************************************)

\* Every variable of the server, the tasks and the store keeps its type.
THEOREM TypeCorrect == Spec => []TypeOK
<1>1. IInv => TypeOK
  BY DEF IInv
<1> QED
  BY <1>1, Invariant, PTL

\* A messages row never exists without its .eml file, wherever submit is
\* interrupted: write_raw comes before insert_message.
THEOREM RowsHaveRaw == Spec => []RowHasRaw
<1>1. IInv => RowHasRaw
  BY DEF IInv, RowOk, RowHasRaw
<1> QED
  BY <1>1, Invariant, PTL

\* A row keeps its (folder, uidvalidity, uid) through every re-fetch, copy,
\* epoch change and restart: insert_message never replaces or moves one.
THEOREM RowsKeepIdentity == Spec => RowIdentityStable
<1>1. StoreGrows => [\A id \in MsgIds : rows[id] # NoRow => rows'[id] = rows[id]]_rows
  BY DEF StoreGrows
<1> QED
  BY <1>1, Invariant, NextInvariant, PTL DEF Spec, RowIdentityStable

\* A supervisor that watches its folder has stored and queued every message its
\* backfill was to walk: no batch boundary, expunge, copy, lost session, epoch
\* change or restart makes run_initial_backfill skip one.
THEOREM BackfillIsComplete == Spec => []BackfillCovers
<1>1. IInv => BackfillCovers
  BY DEF IInv, CoverOk, BackfillCovered, BackfillCovers
<1> QED
  BY <1>1, Invariant, PTL

(***************************************************************************)
(* The .eml file of a row                                                  *)
(***************************************************************************)

\* A slot holds a mail only once the server has used it up.
LedgerUsed == \A s \in Slots : ledger[s] \in Mails => Assigned(s)

\* A file holds the bytes of a message that goes by its message_id.
RawOk(id) ==
  raw[id] # NoMail =>
    \E s \in Slots : ledger[s] \in Mails /\ MessageId(s) = id /\ raw[id] = ledger[s]

\* The server has seen every Message-ID in the account, and one mail only under each.
HeadersKnown ==
  \A s \in Slots : ledger[s] \in Mails /\ HeaderId[ledger[s]] # NoHeader
                     => HeaderId[ledger[s]] \in delivered

HeadersOnce ==
  \A s, t \in Slots :
    /\ ledger[s] \in Mails /\ ledger[t] \in Mails
    /\ HeaderId[ledger[s]] # NoHeader /\ HeaderId[ledger[s]] = HeaderId[ledger[t]]
    => ledger[s] = ledger[t]

RawInv ==
  /\ LedgerUsed
  /\ \A id \in MsgIds : RawOk(id)
  /\ ~AllowCopies => HeadersKnown /\ HeadersOnce

\* At the start no UID is assigned and no file written.
LEMMA InitRaw == Init => RawInv
BY ConstantsAssumption DEF Init, RawInv, LedgerUsed, RawOk, HeadersKnown, HeadersOnce

\* A file that is not written still holds its mail.
LEMMA RawKept ==
  ASSUME LedgerKept, LedgerUsed, NEW id \in MsgIds, RawOk(id), raw'[id] = raw[id]
  PROVE  RawOk(id)'
<1> SUFFICES ASSUME raw[id] # NoMail PROVE RawOk(id)'
  BY DEF RawOk
<1>1. PICK s \in Slots : ledger[s] \in Mails /\ MessageId(s) = id /\ raw[id] = ledger[s]
  BY DEF RawOk
<1>2. ledger'[s] = ledger[s] /\ MessageId(s)' = MessageId(s)
  BY <1>1, MessageIdKept DEF LedgerUsed, LedgerKept
<1> QED
  BY <1>1, <1>2 DEF RawOk

\* write_raw is the only step of a task that touches a file.
LEMMA TaskRaw ==
  ASSUME IInv, RawInv, NEW f \in Folders, TaskStep(f) \/ Fault(f)
  PROVE  RawInv'
<1>1. UNCHANGED <<uv, next, ledger>>
  BY TaskFrame DEF IInv
<1>2. LedgerKept /\ LedgerUsed'
  BY <1>1 DEF RawInv, LedgerKept, LedgerUsed, Assigned
<1>3. UNCHANGED delivered
  BY DEF TaskStep, serverVars, Connect, ExitAtLoopHead, Examine, BackfillDone, FetchRange,
         FetchRecv, SkipUnparseable, WriteRaw, InsertMessage, InsertConflict, EnqueueMessage,
         BatchDone, SaveUidvalidity, SaveSeen, StartIdle, IdleEvent, IdleRecycle, IdleShutdown,
         IncrementalExamine, FetchNewer, Fault, EndCycle
<1>4. ~AllowCopies => HeadersKnown' /\ HeadersOnce'
  BY <1>1, <1>3 DEF RawInv, HeadersKnown, HeadersOnce
<1>5. \A id \in MsgIds : RawOk(id)'
  <2>1. CASE WriteRaw(f)
    <3>1. PICK u \in batch[f] : raw' = StoredRaw(Slot(f, u))
      BY <2>1 DEF WriteRaw
    <3>2. u \in Uids /\ Slot(f, u) = <<f, uv[f], u>> /\ ledger[Slot(f, u)] \in Mails
      BY <2>1 DEF IInv, TypeOK, WriteRaw, SessionOk, Fetched, Fetching, Slot
    <3>3. PICK s \in Slots : s = Slot(f, u)
      BY <3>2, SlotType DEF IInv, TypeOK
    <3>4. raw' = [raw EXCEPT ![MessageId(s)] = ledger[s]] /\ MessageId(s)' = MessageId(s)
      BY <1>1, <3>1, <3>3 DEF StoredRaw, MessageId
    <3> SUFFICES ASSUME NEW id \in MsgIds PROVE RawOk(id)'
      OBVIOUS
    <3>5. CASE id = MessageId(s)
      BY <1>1, <3>2, <3>3, <3>4, <3>5 DEF RawOk, IInv, TypeOK
    <3>6. CASE id # MessageId(s)
      BY <1>2, <3>4, <3>6, RawKept DEF RawInv, IInv, TypeOK
    <3> QED  BY <3>5, <3>6
  <2>2. CASE ~WriteRaw(f)
    <3>1. UNCHANGED raw
      BY <2>2 DEF TaskStep, storeVars, Connect, ExitAtLoopHead, Examine, BackfillDone, FetchRange,
         FetchRecv, SkipUnparseable, InsertMessage, InsertConflict, EnqueueMessage,
         BatchDone, SaveUidvalidity, SaveSeen, StartIdle, IdleEvent, IdleRecycle, IdleShutdown,
         IncrementalExamine, FetchNewer, Fault
    <3> QED  BY <1>2, <3>1, RawKept DEF RawInv
  <2> QED  BY <2>1, <2>2
<1> QED
  BY <1>2, <1>4, <1>5 DEF RawInv

\* A delivery brings a new Message-ID; a kept folder shows the mails it had.
LEMMA ServerRaw ==
  ASSUME IInv, RawInv, NEW f \in Folders, ServerStep(f)
  PROVE  RawInv'
<1>1. LedgerKept /\ UNCHANGED storeVars
  BY ServerFrame DEF IInv
<1>2. \A id \in MsgIds : RawOk(id)'
  BY <1>1, RawKept DEF RawInv, storeVars
<1>3. /\ TypeOK /\ uv[f] \in Epochs /\ uv[f] \in Nat /\ next[f] \in Nat
      /\ delivered \subseteq HeaderIds /\ NoHeader \notin HeaderIds
      /\ \A s \in Slots : s = <<s[1], s[2], s[3]>> /\ s[1] \in Folders /\ s[2] \in Epochs /\ s[3] \in Uids
  BY ConstantsAssumption DEF IInv, TypeOK, Slots, Epochs
<1>4. CASE \E m \in Mails : Deliver(f, m)
  <2>1. PICK m \in Mails : Deliver(f, m)
    BY <1>4
  <2>2. PICK n \in Slots : n = <<f, uv[f], next[f]>>
    BY <1>3, <2>1, SlotType DEF Deliver, TypeOK, Uids
  <2>3. /\ uv' = uv /\ next'[f] = next[f] + 1 /\ ledger'[n] = m
        /\ \A s \in Slots : s # n => ledger'[s] = ledger[s]
        /\ delivered' = delivered \cup ({HeaderId[m]} \ {NoHeader})
        /\ AllowCopies \/ HeaderId[m] \notin delivered
    BY <1>3, <2>1, <2>2 DEF Deliver, TypeOK
  <2>4. LedgerUsed'
    <3> SUFFICES ASSUME NEW s \in Slots, ledger'[s] \in Mails PROVE Assigned(s)'
      BY DEF LedgerUsed
    <3>1. CASE s = n
      BY <1>3, <2>2, <2>3, <3>1 DEF Assigned
    <3>2. CASE s # n
      BY <1>1, <2>3, <3>2 DEF RawInv, LedgerUsed, LedgerKept
    <3> QED  BY <3>1, <3>2
  <2>5. ~AllowCopies => HeadersKnown'
    BY <2>3 DEF RawInv, HeadersKnown
  <2>6. ~AllowCopies => HeadersOnce'
    BY <2>3 DEF RawInv, HeadersKnown, HeadersOnce
  <2> QED  BY <1>2, <2>4, <2>5, <2>6 DEF RawInv
<1>5. CASE \E u \in Uids : Expunge(f, u)
  <2>1. UNCHANGED <<uv, next, ledger, delivered>>
    BY <1>5 DEF Expunge
  <2> QED  BY <1>2, <2>1 DEF RawInv, LedgerUsed, Assigned, HeadersKnown, HeadersOnce
<1>6. CASE \E keep \in BOOLEAN : ResetEpoch(f, keep)
  <2>1. PICK keep \in BOOLEAN : ResetEpoch(f, keep)
    BY <1>6
  <2>2. /\ uv'[f] = uv[f] + 1 /\ next'[f] = IF keep THEN next[f] ELSE 1
        /\ delivered' = delivered
        /\ \A s \in Slots :
             \/ ledger'[s] = ledger[s]
             \/ /\ keep /\ s[1] = f /\ s[2] = uv[f] + 1 /\ s[3] \in present[f]
                /\ ledger'[s] = ledger[<<f, uv[f], s[3]>>]
    BY <1>3, <2>1 DEF ResetEpoch, TypeOK
  <2>3. \A s \in Slots : \E t \in Slots : ledger'[s] = ledger[t]
    <3> SUFFICES ASSUME NEW s \in Slots PROVE \E t \in Slots : ledger'[s] = ledger[t]
      OBVIOUS
    <3>1. <<f, uv[f], s[3]>> \in Slots
      BY <1>3, SlotType
    <3> QED  BY <2>2, <3>1
  <2>4. LedgerUsed'
    <3> SUFFICES ASSUME NEW s \in Slots, ledger'[s] \in Mails PROVE Assigned(s)'
      BY DEF LedgerUsed
    <3>1. CASE ledger'[s] = ledger[s]
      BY <1>1, <3>1 DEF RawInv, LedgerUsed, LedgerKept
    <3>2. CASE keep /\ s[1] = f /\ s[2] = uv[f] + 1 /\ s[3] \in present[f]
      BY <2>2, <3>2 DEF Assigned, IInv, PresentOk
    <3> QED  BY <2>2, <3>1, <3>2
  <2>5. ~AllowCopies => HeadersKnown' /\ HeadersOnce'
    BY <2>2, <2>3 DEF RawInv, HeadersKnown, HeadersOnce
  <2> QED  BY <1>2, <2>4, <2>5 DEF RawInv
<1> QED
  BY <1>4, <1>5, <1>6 DEF ServerStep

\* Files and headers keep to their mails as long as nothing is copied.
LEMMA RawInvariant == Spec => []RawInv
<1>1. ASSUME IInv, RawInv, Sigterm \/ Crash \/ Restart \/ UNCHANGED vars
      PROVE  RawInv'
  <2>1. UNCHANGED <<uv, next, ledger, delivered, raw>>
    BY <1>1 DEF Sigterm, Crash, Restart, FreshTasks, vars, serverVars, storeVars
  <2> QED  BY <1>1, <2>1 DEF RawInv, LedgerUsed, Assigned, RawOk, MessageId, HeadersKnown, HeadersOnce
<1>2. IInv /\ RawInv /\ [Next]_vars => RawInv'
  BY <1>1, TaskRaw, ServerRaw DEF Next
<1> QED
  BY <1>2, InitRaw, Invariant, PTL DEF Spec

\* As long as the account sees every Message-ID once, the .eml under a message_id
\* holds the bytes of the message whose row it is: no re-fetch, restart or new
\* UIDVALIDITY lets write_raw replace it with others.
THEOREM RawIsTheRows == Spec => [](~AllowCopies => RawMatchesRow)
<1>1. IInv /\ RawInv => (~AllowCopies => RawMatchesRow)
  <2> SUFFICES ASSUME IInv, RawInv, ~AllowCopies, NEW id \in MsgIds, rows[id] # NoRow
               PROVE  raw[id] = ledger[rows[id]]
    BY DEF RawMatchesRow
  <2>1. PICK s \in Slots : s = rows[id]
    BY DEF IInv, TypeOK
  <2>2. ledger[s] \in Mails /\ MessageId(s) = id /\ raw[id] # NoMail
    BY <2>1 DEF IInv, RowOk
  <2>3. PICK t \in Slots : ledger[t] \in Mails /\ MessageId(t) = id /\ raw[id] = ledger[t]
    BY <2>2 DEF RawInv, RawOk
  <2>4. CASE HeaderId[ledger[s]] # NoHeader
    <3>1. HeaderId[ledger[t]] = HeaderId[ledger[s]]
      BY <2>2, <2>3, <2>4 DEF MessageId
    <3> QED  BY <2>1, <2>2, <2>3, <2>4, <3>1 DEF RawInv, HeadersOnce
  <2>5. CASE HeaderId[ledger[s]] = NoHeader
    BY <2>1, <2>2, <2>3, <2>5 DEF MessageId
  <2> QED  BY <2>4, <2>5
<1> QED
  BY <1>1, Invariant, RawInvariant, PTL
=============================================================================
