------------------------------ MODULE FolderSync ------------------------------
(***************************************************************************)
(* One account's folder supervisors: each logs in, backfills its folder    *)
(* from UID 1, then watches it with IDLE, handing every fetched message to *)
(* the storage sink (raw file, messages row, index_queue row).  The IMAP   *)
(* server is the environment; the process may be killed at any step.       *)
(*                                                                         *)
(* Sources: crates/scryd-imap (scheduler, fetch, idle, uidvalidity,        *)
(* tombstone), crates/scryd-runtime/src/sink.rs, and the storage helpers   *)
(* they call (messages, queue, sync_state, raw).                           *)
(***************************************************************************)
EXTENDS Integers, FiniteSets

CONSTANTS
  Folders,        \* folders of the account that have a supervisor
  Mails,          \* RFC 5322 messages (raw bytes)
  Unparseable,    \* the mails scryd_mime::parse gives up on
  HeaderIds,      \* Message-ID header values
  HeaderId,       \* [Mails -> HeaderIds \cup {NoHeader}]
  NoHeader,
  NoMail,         \* a UID the server has not assigned; no raw file
  NoRow,          \* no messages row under this message_id
  ReportsUidNext, \* folders whose EXAMINE answer carries UIDNEXT
  BatchSize,      \* INCREMENTAL_FETCH_BATCH
  ScanEvery,      \* TOMBSTONE_SCAN_EVERY
  AllowCopies,    \* may one Message-ID reach the account twice?
  LiveReset,      \* may UIDVALIDITY change while a session is in IDLE?
  TornUpdates,    \* may a crash or a failed write split update_sync_state?
  MaxUid,         \* bound: UIDs per folder and epoch; stands for u32::MAX
  MaxEpoch,       \* bound: UIDVALIDITY values per folder
  MaxFaults,      \* bound: sessions lost to network or storage errors
  MaxRestarts     \* bound: process restarts

ASSUME ConstantsAssumption ==
  /\ BatchSize \in Nat \ {0}
  /\ ScanEvery \in Nat \ {0, 1}
  /\ MaxUid \in Nat \ {0} /\ MaxEpoch \in Nat \ {0}
  /\ MaxFaults \in Nat /\ MaxRestarts \in Nat
  /\ AllowCopies \in BOOLEAN /\ LiveReset \in BOOLEAN /\ TornUpdates \in BOOLEAN
  /\ Unparseable \subseteq Mails
  /\ ReportsUidNext \subseteq Folders
  /\ HeaderId \in [Mails -> HeaderIds \cup {NoHeader}]
  /\ NoMail \notin Mails
  /\ NoHeader \notin HeaderIds

Uids   == 1 .. MaxUid
Epochs == 1 .. MaxEpoch

\* The place of a message on the server: (folder, UIDVALIDITY, UID), which is
\* also the UNIQUE key of the messages table (one account).
Slots == Folders \X Epochs \X Uids

\* "account:<Message-ID>" or "account:synth-<sha(folder|uidvalidity|uid)>".
MsgIds == ({":"} \X HeaderIds) \cup ({":synth"} \X Slots)

ASSUME NoRowAssumption == NoRow \notin Slots

NoTarget == -1

VARIABLES
  \* the IMAP server
  uv,         \* [Folders -> Epochs]: current UIDVALIDITY
  next,       \* [Folders -> Nat]: UIDNEXT
  present,    \* [Folders -> SUBSET Uids]: UIDs in the folder
  ledger,     \* [Slots -> Mails \cup {NoMail}]: what each UID was assigned to
  notify,     \* [Folders -> BOOLEAN]: an untagged response is owed to the session
  delivered,  \* Message-IDs that have reached the account
  \* the supervisor tasks
  pc,
  phase,      \* which caller owns the batch or the sync_state update
  suv,        \* UIDVALIDITY the current batch was fetched under
  muv,        \* UIDVALIDITY of the backfill's EXAMINE
  target,     \* UIDNEXT - 1 of the backfill's EXAMINE
  lo,         \* first UID of the backfill batch
  batch,      \* fetched UIDs not yet submitted
  cur,        \* UID being submitted
  maxSeen,    \* max_uid_seen
  seen,       \* last_seen_uid of run_idle_loop
  iter,       \* IDLE iterations modulo ScanEvery
  \* durable storage
  raw,        \* [MsgIds -> Mails \cup {NoMail}]: the .eml file
  rows,       \* [MsgIds -> Slots \cup {NoRow}]: the messages table
  tombstoned, \* rows with tombstoned_at set
  handed,     \* message_ids that have been enqueued for indexing
  syncUv,     \* sync_state.uidvalidity, 0 for NULL
  syncSeen,   \* sync_state.last_seen_uid
  \* the process
  shutdown, faults, restarts

serverVars == <<uv, next, present, ledger, notify, delivered>>
batchVars  == <<batch, cur, maxSeen>>
taskVars   == <<pc, phase, suv, muv, target, lo, batch, cur, maxSeen, seen, iter>>
storeVars  == <<raw, rows, tombstoned, handed, syncUv, syncSeen>>
procVars   == <<shutdown, faults, restarts>>
vars       == <<serverVars, taskVars, storeVars, procVars>>

Pcs == {"start", "examine", "head", "recv", "submit", "insert", "enqueue",
        "save", "saveSeen", "idleHead", "idle", "iexamine", "ifetch", "exited"}

TypeOK ==
  /\ uv \in [Folders -> Epochs]
  /\ next \in [Folders -> 1 .. MaxUid + 1]
  /\ present \in [Folders -> SUBSET Uids]
  /\ ledger \in [Slots -> Mails \cup {NoMail}]
  /\ notify \in [Folders -> BOOLEAN]
  /\ delivered \subseteq HeaderIds
  /\ pc \in [Folders -> Pcs]
  /\ phase \in [Folders -> {"reset", "backfill", "incremental"}]
  /\ suv \in [Folders -> Epochs]
  /\ muv \in [Folders -> Epochs]
  /\ target \in [Folders -> {NoTarget} \cup 0 .. MaxUid]
  /\ lo \in [Folders -> Uids]
  /\ batch \in [Folders -> SUBSET Uids]
  /\ cur \in [Folders -> Uids]
  /\ maxSeen \in [Folders -> 0 .. MaxUid]
  /\ seen \in [Folders -> 0 .. MaxUid]
  /\ iter \in [Folders -> 0 .. ScanEvery - 1]
  /\ raw \in [MsgIds -> Mails \cup {NoMail}]
  /\ rows \in [MsgIds -> Slots \cup {NoRow}]
  /\ tombstoned \subseteq MsgIds
  /\ handed \subseteq MsgIds
  /\ syncUv \in [Folders -> 0 .. MaxEpoch]
  /\ syncSeen \in [Folders -> 0 .. MaxUid]
  /\ shutdown \in BOOLEAN
  /\ faults \in 0 .. MaxFaults
  /\ restarts \in 0 .. MaxRestarts

(***************************************************************************)
(* Names                                                                   *)
(***************************************************************************)

\* Mutant of MessageId: the synthetic id leaves the UIDVALIDITY out.
MessageIdNoEpoch(s) ==
  IF HeaderId[ledger[s]] # NoHeader
    THEN <<":", HeaderId[ledger[s]]>>
    ELSE <<":synth", <<s[1], 1, s[3]>>>>

\* The scryd-internal id the sink gives to the message in slot s.
MessageId(s) ==
  IF HeaderId[ledger[s]] # NoHeader
    THEN <<":", HeaderId[ledger[s]]>>
    ELSE <<":synth", s>>

\* The id the tombstone scan builds for a vanished UID: "account/folder/uid".
TombstoneId(f, u) == <<"/", f, u>>

Slot(f, u) == <<f, suv[f], u>>

Larger(a, b)  == IF a > b THEN a ELSE b
Smaller(a, b) == IF a < b THEN a ELSE b

\* Last UID of the batch that starts at lo (saturating_add).
Hi(f) == Smaller(lo[f] + BatchSize - 1, MaxUid)

InSession(f) == pc[f] \notin {"start", "examine", "exited"}

(***************************************************************************)
(* The IMAP server (external)                                              *)
(***************************************************************************)

\* A message arrives; an open session is owed an untagged EXISTS.
Deliver(f, m) ==
  /\ next[f] <= MaxUid
  /\ AllowCopies \/ HeaderId[m] \notin delivered
  /\ ledger' = [ledger EXCEPT ![<<f, uv[f], next[f]>>] = m]
  /\ present' = [present EXCEPT ![f] = @ \cup {next[f]}]
  /\ next' = [next EXCEPT ![f] = @ + 1]
  /\ notify' = [notify EXCEPT ![f] = InSession(f)]
  /\ delivered' = delivered \cup ({HeaderId[m]} \ {NoHeader})
  /\ UNCHANGED <<uv, taskVars, storeVars, procVars>>

Expunge(f, u) ==
  /\ u \in present[f]
  /\ present' = [present EXCEPT ![f] = @ \ {u}]
  /\ notify' = [notify EXCEPT ![f] = InSession(f)]
  /\ UNCHANGED <<uv, next, ledger, delivered, taskVars, storeVars, procVars>>

\* UIDVALIDITY changes: the messages stay (keep) or the folder was recreated.
ResetEpoch(f, keep) ==
  /\ uv[f] < MaxEpoch
  /\ ~InSession(f) \/ (LiveReset /\ pc[f] = "idle")
  /\ uv' = [uv EXCEPT ![f] = @ + 1]
  /\ next' = [next EXCEPT ![f] = IF keep THEN @ ELSE 1]
  /\ present' = [present EXCEPT ![f] = IF keep THEN @ ELSE {}]
  /\ ledger' = [s \in Slots |->
                  IF keep /\ s[1] = f /\ s[2] = uv[f] + 1 /\ s[3] \in present[f]
                    THEN ledger[<<f, uv[f], s[3]>>] ELSE ledger[s]]
  /\ notify' = [notify EXCEPT ![f] = InSession(f)]
  /\ UNCHANGED <<delivered, taskVars, storeVars, procVars>>

(***************************************************************************)
(* The supervisor loop                                                     *)
(***************************************************************************)

Goto(f, l) == pc' = [pc EXCEPT ![f] = l]

\* run_account_supervisor: login and the health update; a failed login is a
\* backoff and another try, which changes nothing here.
Connect(f) ==
  /\ pc[f] = "start" /\ ~shutdown
  /\ Goto(f, "examine")
  /\ UNCHANGED <<phase, suv, muv, target, lo, batchVars, seen, iter>>
  /\ UNCHANGED <<serverVars, storeVars, procVars>>

ExitAtLoopHead(f) ==
  /\ pc[f] = "start" /\ shutdown
  /\ Goto(f, "exited")
  /\ UNCHANGED <<phase, suv, muv, target, lo, batchVars, seen, iter>>
  /\ UNCHANGED <<serverVars, storeVars, procVars>>

\* A cycle ends: the session and every local of the cycle are dropped (a local
\* that is out of scope holds its initial value).
EndCycle(f, l) ==
  /\ Goto(f, l)
  /\ phase' = [phase EXCEPT ![f] = "backfill"]
  /\ suv' = [suv EXCEPT ![f] = 1]
  /\ muv' = [muv EXCEPT ![f] = 1]
  /\ target' = [target EXCEPT ![f] = 0]
  /\ lo' = [lo EXCEPT ![f] = 1]
  /\ batch' = [batch EXCEPT ![f] = {}]
  /\ cur' = [cur EXCEPT ![f] = 1]
  /\ maxSeen' = [maxSeen EXCEPT ![f] = 0]
  /\ seen' = [seen EXCEPT ![f] = 0]
  /\ iter' = [iter EXCEPT ![f] = 0]
  /\ notify' = [notify EXCEPT ![f] = FALSE]
  /\ UNCHANGED <<uv, next, present, ledger, delivered>>

\* The connection drops, or a storage call returns an error.
Fault(f) ==
  /\ faults < MaxFaults
  /\ pc[f] \notin {"start", "exited"}
  /\ pc[f] = "saveSeen" => TornUpdates
  /\ EndCycle(f, "start")
  /\ faults' = faults + 1
  /\ UNCHANGED <<storeVars, shutdown, restarts>>

(***************************************************************************)
(* run_initial_backfill                                                    *)
(***************************************************************************)

\* Mutant of TargetUid: UIDNEXT itself.
TargetUidNext(f) == IF f \in ReportsUidNext THEN next[f] ELSE NoTarget

\* The last UID of the walk, when the server says.
TargetUid(f) == IF f \in ReportsUidNext THEN next[f] - 1 ELSE NoTarget

\* A call whose error the code swallows; err says that it failed.
Tolerated(err) ==
  /\ err => faults < MaxFaults
  /\ faults' = IF err THEN faults + 1 ELSE faults
  /\ UNCHANGED <<shutdown, restarts>>

\* EXAMINE, then handle_change when the stored UIDVALIDITY differs; when it
\* cannot be read, the walk starts without the comparison.
Examine(f) ==
  /\ pc[f] = "examine"
  /\ suv' = [suv EXCEPT ![f] = uv[f]]
  /\ muv' = [muv EXCEPT ![f] = uv[f]]
  /\ target' = [target EXCEPT ![f] = TargetUid(f)]
  /\ lo' = [lo EXCEPT ![f] = 1]
  /\ maxSeen' = [maxSeen EXCEPT ![f] = 0]
  /\ \E unread \in BOOLEAN :
       /\ Tolerated(unread)
       /\ LET changed == ~unread /\ syncUv[f] \notin {0, uv[f]}
          IN /\ phase' = [phase EXCEPT ![f] = IF changed THEN "reset" ELSE "backfill"]
             /\ Goto(f, IF changed THEN "save" ELSE "head")
  /\ UNCHANGED <<batch, cur, seen, iter, serverVars, storeVars>>

\* Locals of run_idle_loop: the supervisor's own last_seen_uid is only ever
\* written on the way out, so every loop starts from 0.
EnterIdleLoop(f) ==
  /\ Goto(f, "idleHead")
  /\ lo' = [lo EXCEPT ![f] = 1]
  /\ maxSeen' = [maxSeen EXCEPT ![f] = 0]
  /\ seen' = [seen EXCEPT ![f] = 0]
  /\ iter' = [iter EXCEPT ![f] = 0]

PastTarget(f, u) == target[f] # NoTarget /\ u > target[f]

\* The top of the batch loop breaks: shutdown, or nothing left to walk.
BackfillDone(f) ==
  /\ pc[f] = "head"
  /\ shutdown \/ PastTarget(f, lo[f])
  /\ EnterIdleLoop(f)
  /\ UNCHANGED <<phase, suv, muv, target, batch, cur>>
  /\ UNCHANGED <<serverVars, storeVars, procVars>>

\* UID FETCH lo:hi; the server answers with what the folder holds now.
FetchRange(f) ==
  /\ pc[f] = "head"
  /\ ~shutdown /\ ~PastTarget(f, lo[f])
  /\ batch' = [batch EXCEPT ![f] = {u \in present[f] : lo[f] <= u /\ u <= Hi(f)}]
  /\ Goto(f, "recv")
  /\ UNCHANGED <<phase, suv, muv, target, lo, cur, maxSeen, seen, iter>>
  /\ UNCHANGED <<serverVars, storeVars, procVars>>

\* fetch_batch drains the FETCH stream; untagged responses sent along with it
\* are consumed by the session and never reach the IDLE wait.
FetchRecv(f) ==
  /\ pc[f] = "recv"
  /\ \E owed \in {FALSE, notify[f]} : notify' = [notify EXCEPT ![f] = owed]
  /\ Goto(f, "submit")
  /\ UNCHANGED <<phase, suv, muv, target, lo, batchVars, seen, iter>>
  /\ UNCHANGED <<uv, next, present, ledger, delivered, storeVars, procVars>>

(***************************************************************************)
(* StorageMessageSink::submit, one await at a time                         *)
(***************************************************************************)

\* parse gives up: the sink answers Ok and stores nothing.
SkipUnparseable(f) ==
  /\ pc[f] = "submit"
  /\ \E u \in batch[f] :
       /\ ledger[Slot(f, u)] \in Unparseable
       /\ batch' = [batch EXCEPT ![f] = @ \ {u}]
       /\ maxSeen' = [maxSeen EXCEPT ![f] = Larger(@, u)]
  /\ UNCHANGED <<pc, phase, suv, muv, target, lo, cur, seen, iter>>
  /\ UNCHANGED <<serverVars, storeVars, procVars>>

\* Mutant of StoredRaw: the file is written only once the row is there.
StoredRawAfterRow(s) ==
  IF rows[MessageId(s)] = NoRow THEN raw ELSE [raw EXCEPT ![MessageId(s)] = ledger[s]]

StoredRaw(s) == [raw EXCEPT ![MessageId(s)] = ledger[s]]

\* write_raw: the path depends on the message_id (and the Date header, which
\* copies of one message share), so a second message with the id replaces it.
WriteRaw(f) ==
  /\ pc[f] = "submit"
  /\ \E u \in batch[f] :
       /\ ledger[Slot(f, u)] \notin Unparseable
       /\ batch' = [batch EXCEPT ![f] = @ \ {u}]
       /\ maxSeen' = [maxSeen EXCEPT ![f] = Larger(@, u)]
       /\ cur' = [cur EXCEPT ![f] = u]
       /\ raw' = StoredRaw(Slot(f, u))
  /\ Goto(f, "insert")
  /\ UNCHANGED <<phase, suv, muv, target, lo, seen, iter, serverVars>>
  /\ UNCHANGED <<rows, tombstoned, handed, syncUv, syncSeen, procVars>>

HasRow(s) == \E id \in MsgIds : rows[id] = s
IdTaken(s) == ~HasRow(s) /\ rows[MessageId(s)] # NoRow

\* insert_message, the row is new or the UNIQUE key matches (the upsert
\* refreshes columns that a slot determines, and keeps the stored id).
InsertMessage(f) ==
  /\ pc[f] = "insert"
  /\ LET s == Slot(f, cur[f]) IN
       /\ ~IdTaken(s)
       /\ rows' = IF HasRow(s) THEN rows ELSE [rows EXCEPT ![MessageId(s)] = s]
  /\ Goto(f, "enqueue")
  /\ UNCHANGED <<phase, suv, muv, target, lo, batchVars, seen, iter, serverVars>>
  /\ UNCHANGED <<raw, tombstoned, handed, syncUv, syncSeen, procVars>>

\* Mutant of InsertConflict: INSERT OR IGNORE.
InsertConflictIgnored(f) ==
  /\ pc[f] = "insert" /\ IdTaken(Slot(f, cur[f]))
  /\ Goto(f, "enqueue")
  /\ UNCHANGED <<phase, suv, muv, target, lo, batchVars, seen, iter>>
  /\ UNCHANGED <<serverVars, storeVars, procVars>>

\* Mutant of InsertConflict: INSERT OR REPLACE.
InsertConflictReplaced(f) ==
  /\ pc[f] = "insert" /\ IdTaken(Slot(f, cur[f]))
  /\ rows' = [rows EXCEPT ![MessageId(Slot(f, cur[f]))] = Slot(f, cur[f])]
  /\ Goto(f, "enqueue")
  /\ UNCHANGED <<phase, suv, muv, target, lo, batchVars, seen, iter, serverVars>>
  /\ UNCHANGED <<raw, tombstoned, handed, syncUv, syncSeen, procVars>>

\* insert_message, the message_id is taken by another slot: the PRIMARY KEY
\* error travels up through submit and ends the cycle.
InsertConflict(f) ==
  /\ pc[f] = "insert" /\ IdTaken(Slot(f, cur[f]))
  /\ EndCycle(f, "start")
  /\ UNCHANGED <<storeVars, procVars>>

\* enqueue, then notify_one (the drainer has its own module).
EnqueueMessage(f) ==
  /\ pc[f] = "enqueue"
  /\ handed' = handed \cup {MessageId(Slot(f, cur[f]))}
  /\ cur' = [cur EXCEPT ![f] = 1]
  /\ Goto(f, "submit")
  /\ UNCHANGED <<phase, suv, muv, target, lo, batch, maxSeen, seen, iter, serverVars>>
  /\ UNCHANGED <<raw, rows, tombstoned, syncUv, syncSeen, procVars>>

BatchDone(f) ==
  /\ pc[f] = "submit" /\ batch[f] = {}
  /\ Goto(f, "save")
  /\ UNCHANGED <<phase, suv, muv, target, lo, batchVars, seen, iter>>
  /\ UNCHANGED <<serverVars, storeVars, procVars>>

(***************************************************************************)
(* update_sync_state: one autocommitted UPDATE per column                  *)
(***************************************************************************)

SaveUidvalidity(f) ==
  /\ pc[f] = "save"
  /\ syncUv' = [syncUv EXCEPT ![f] = suv[f]]
  /\ Goto(f, "saveSeen")
  /\ UNCHANGED <<phase, suv, muv, target, lo, batchVars, seen, iter, serverVars>>
  /\ UNCHANGED <<raw, rows, tombstoned, handed, syncSeen, procVars>>

\* Mutant of SeenUpdate: the end of the range that was asked for.
SeenUpdateRange(f) ==
  CASE phase[f] = "reset" -> 0
    [] phase[f] = "backfill" -> Hi(f)
    [] phase[f] = "incremental" -> IF maxSeen[f] > seen[f] THEN maxSeen[f] ELSE syncSeen[f]

\* Mutant of SeenUpdate: handle_change leaves the column alone.
SeenUpdateNoReset(f) ==
  CASE phase[f] = "reset" -> syncSeen[f]
    [] phase[f] = "backfill" -> IF maxSeen[f] > 0 THEN maxSeen[f] ELSE syncSeen[f]
    [] phase[f] = "incremental" -> IF maxSeen[f] > seen[f] THEN maxSeen[f] ELSE syncSeen[f]

\* The last_seen_uid field of the update: 0 for handle_change, otherwise the
\* largest UID of the pass when there is one (None keeps the column).
SeenUpdate(f) ==
  CASE phase[f] = "reset" -> 0
    [] phase[f] = "backfill" -> IF maxSeen[f] > 0 THEN maxSeen[f] ELSE syncSeen[f]
    [] phase[f] = "incremental" -> IF maxSeen[f] > seen[f] THEN maxSeen[f] ELSE syncSeen[f]

\* handle_change returns to the backfill.
ResetSaved(f) ==
  /\ phase[f] = "reset"
  /\ phase' = [phase EXCEPT ![f] = "backfill"]
  /\ Goto(f, "head")
  /\ UNCHANGED <<lo, maxSeen, seen, iter>>

\* Mutant of ReachedTarget: stops one UID short.
ReachedTargetEarly(f) == target[f] # NoTarget /\ Hi(f) + 1 >= target[f]

ReachedTarget(f) == target[f] # NoTarget /\ Hi(f) >= target[f]

\* A backfill batch is saved: on to the next one, or to the IDLE loop.
BatchSaved(f) ==
  /\ phase[f] = "backfill"
  /\ IF ReachedTarget(f)
       THEN EnterIdleLoop(f)
       ELSE /\ lo' = [lo EXCEPT ![f] = Smaller(Hi(f) + 1, MaxUid)]
            /\ Goto(f, "head")
            /\ UNCHANGED <<maxSeen, seen, iter>>
  /\ UNCHANGED phase

\* run_incremental returns max_uid_seen to the IDLE loop.
IncrementalSaved(f) ==
  /\ phase[f] = "incremental"
  /\ seen' = [seen EXCEPT ![f] = maxSeen[f]]
  /\ maxSeen' = [maxSeen EXCEPT ![f] = 0]
  /\ Goto(f, "idleHead")
  /\ UNCHANGED <<phase, lo, iter>>

SaveSeen(f) ==
  /\ pc[f] = "saveSeen"
  /\ syncSeen' = [syncSeen EXCEPT ![f] = SeenUpdate(f)]
  /\ ResetSaved(f) \/ BatchSaved(f) \/ IncrementalSaved(f)
  /\ UNCHANGED <<suv, muv, target, batch, cur, serverVars>>
  /\ UNCHANGED <<raw, rows, tombstoned, handed, syncUv, procVars>>

(***************************************************************************)
(* run_idle_loop and run_incremental                                       *)
(***************************************************************************)

LocalUids(f) ==
  {u \in Uids : \E id \in MsgIds \ tombstoned : rows[id] = <<f, syncUv[f], u>>}

ScanDue(f) == (iter[f] + 1) % ScanEvery = 0 /\ syncUv[f] > 0

\* UID SEARCH ALL against the stored UIDs; tombstone() updates by message_id.
TombstoneScan(f) ==
  {id \in MsgIds : rows[id] # NoRow
                     /\ \E u \in LocalUids(f) \ present[f] : id = TombstoneId(f, u)}

\* Mutant of IdleTold: the loop is handed the receiver of a channel that
\* Scheduler::shutdown does not send on.
IdleToldNever == FALSE

\* The loop's receiver says stop.
IdleTold == shutdown

\* The head of an iteration: the periodic scan, whose error is dropped, then IDLE.
StartIdle(f) ==
  /\ pc[f] = "idleHead" /\ ~IdleTold
  /\ iter' = [iter EXCEPT ![f] = (@ + 1) % ScanEvery]
  /\ IF ScanDue(f)
       THEN /\ \E failed \in BOOLEAN :
                 /\ Tolerated(failed)
                 /\ tombstoned' = IF failed THEN tombstoned
                                  ELSE tombstoned \cup TombstoneScan(f)
            /\ \E owed \in {FALSE, notify[f]} : notify' = [notify EXCEPT ![f] = owed]
       ELSE UNCHANGED <<tombstoned, notify, procVars>>
  /\ Goto(f, "idle")
  /\ UNCHANGED <<phase, suv, muv, target, lo, batchVars, seen>>
  /\ UNCHANGED <<uv, next, present, ledger, delivered>>
  /\ UNCHANGED <<raw, rows, handed, syncUv, syncSeen>>

\* An untagged response ends the wait; DONE is sent.
IdleEvent(f) ==
  /\ pc[f] = "idle" /\ notify[f]
  /\ notify' = [notify EXCEPT ![f] = FALSE]
  /\ phase' = [phase EXCEPT ![f] = "incremental"]
  /\ Goto(f, "iexamine")
  /\ UNCHANGED <<suv, muv, target, lo, batchVars, seen, iter>>
  /\ UNCHANGED <<uv, next, present, ledger, delivered, storeVars, procVars>>

\* The recycle timer: DONE, no fetch; what the server says before the tagged
\* OK is consumed.  Only last_full_sync_at is written.
IdleRecycle(f) ==
  /\ pc[f] = "idle"
  /\ \E owed \in {FALSE, notify[f]} : notify' = [notify EXCEPT ![f] = owed]
  /\ Goto(f, "idleHead")
  /\ UNCHANGED <<phase, suv, muv, target, lo, batchVars, seen, iter>>
  /\ UNCHANGED <<uv, next, present, ledger, delivered, storeVars, procVars>>

\* Shutdown, at the head of an iteration or during the wait.
IdleShutdown(f) ==
  /\ pc[f] \in {"idleHead", "idle"} /\ IdleTold
  /\ EndCycle(f, "exited")
  /\ UNCHANGED <<storeVars, procVars>>

\* run_incremental: EXAMINE again (the stored UIDVALIDITY is not consulted).
IncrementalExamine(f) ==
  /\ pc[f] = "iexamine"
  /\ suv' = [suv EXCEPT ![f] = uv[f]]
  /\ notify' = [notify EXCEPT ![f] = FALSE]
  /\ Goto(f, "ifetch")
  /\ UNCHANGED <<phase, muv, target, lo, batchVars, seen, iter>>
  /\ UNCHANGED <<uv, next, present, ledger, delivered, storeVars, procVars>>

\* Mutant of NewerUids: the range starts one UID late.
NewerUidsLate(f) ==
  {u \in present[f] : u > seen[f] + 1 \/ \A v \in present[f] : v <= u}

\* What UID FETCH seen+1:* names: "*" is always the last message.
NewerUids(f) == {u \in present[f] : u > seen[f] \/ \A v \in present[f] : v <= u}

FetchNewer(f) ==
  /\ pc[f] = "ifetch"
  /\ batch' = [batch EXCEPT ![f] = NewerUids(f)]
  /\ maxSeen' = [maxSeen EXCEPT ![f] = seen[f]]
  /\ Goto(f, "recv")
  /\ UNCHANGED <<phase, suv, muv, target, lo, cur, seen, iter>>
  /\ UNCHANGED <<serverVars, storeVars, procVars>>

(***************************************************************************)
(* The process                                                             *)
(***************************************************************************)

\* Scheduler::shutdown flips the watch channel.
Sigterm ==
  /\ ~shutdown
  /\ shutdown' = TRUE
  /\ UNCHANGED <<faults, restarts, serverVars, taskVars, storeVars>>

\* A new process: every supervisor starts over, durable storage is kept.
FreshTasks ==
  /\ pc' = [f \in Folders |-> "start"]
  /\ phase' = [f \in Folders |-> "backfill"]
  /\ suv' = [f \in Folders |-> 1]
  /\ muv' = [f \in Folders |-> 1]
  /\ target' = [f \in Folders |-> 0]
  /\ lo' = [f \in Folders |-> 1]
  /\ batch' = [f \in Folders |-> {}]
  /\ cur' = [f \in Folders |-> 1]
  /\ maxSeen' = [f \in Folders |-> 0]
  /\ seen' = [f \in Folders |-> 0]
  /\ iter' = [f \in Folders |-> 0]
  /\ notify' = [f \in Folders |-> FALSE]
  /\ shutdown' = FALSE
  /\ restarts' = restarts + 1
  /\ UNCHANGED <<faults, uv, next, present, ledger, delivered, storeVars>>

\* SIGKILL, OOM or abort at any point.
Crash ==
  /\ restarts < MaxRestarts
  /\ (\E f \in Folders : pc[f] = "saveSeen") => TornUpdates
  /\ FreshTasks

\* A start after a graceful stop.
Restart ==
  /\ restarts < MaxRestarts
  /\ shutdown /\ \A f \in Folders : pc[f] = "exited"
  /\ FreshTasks

(***************************************************************************)
(* Specification                                                           *)
(***************************************************************************)

Init ==
  /\ uv = [f \in Folders |-> 1]
  /\ next = [f \in Folders |-> 1]
  /\ present = [f \in Folders |-> {}]
  /\ ledger = [s \in Slots |-> NoMail]
  /\ notify = [f \in Folders |-> FALSE]
  /\ delivered = {}
  /\ pc = [f \in Folders |-> "start"]
  /\ phase = [f \in Folders |-> "backfill"]
  /\ suv = [f \in Folders |-> 1]
  /\ muv = [f \in Folders |-> 1]
  /\ target = [f \in Folders |-> 0]
  /\ lo = [f \in Folders |-> 1]
  /\ batch = [f \in Folders |-> {}]
  /\ cur = [f \in Folders |-> 1]
  /\ maxSeen = [f \in Folders |-> 0]
  /\ seen = [f \in Folders |-> 0]
  /\ iter = [f \in Folders |-> 0]
  /\ raw = [id \in MsgIds |-> NoMail]
  /\ rows = [id \in MsgIds |-> NoRow]
  /\ tombstoned = {} /\ handed = {}
  /\ syncUv = [f \in Folders |-> 0]
  /\ syncSeen = [f \in Folders |-> 0]
  /\ shutdown = FALSE /\ faults = 0 /\ restarts = 0

\* What the task of folder f does on its own.
TaskStep(f) ==
  \/ Connect(f) \/ ExitAtLoopHead(f) \/ Examine(f)
  \/ BackfillDone(f) \/ FetchRange(f) \/ FetchRecv(f)
  \/ SkipUnparseable(f) \/ WriteRaw(f)
  \/ InsertMessage(f) \/ InsertConflict(f) \/ EnqueueMessage(f) \/ BatchDone(f)
  \/ SaveUidvalidity(f) \/ SaveSeen(f)
  \/ StartIdle(f) \/ IdleEvent(f) \/ IdleRecycle(f) \/ IdleShutdown(f)
  \/ IncrementalExamine(f) \/ FetchNewer(f)

ServerStep(f) ==
  \/ \E m \in Mails : Deliver(f, m)
  \/ \E u \in Uids : Expunge(f, u)
  \/ \E keep \in BOOLEAN : ResetEpoch(f, keep)

Next ==
  \/ \E f \in Folders : TaskStep(f) \/ Fault(f) \/ ServerStep(f)
  \/ Sigterm \/ Crash \/ Restart

Spec == Init /\ [][Next]_vars

\* Tokio runs every ready task; a response that is waiting wakes the IDLE wait
\* before infinitely many recycles.
FairSpec ==
  /\ Spec
  /\ \A f \in Folders : WF_vars(TaskStep(f)) /\ SF_vars(IdleEvent(f))

(***************************************************************************)
(* Properties                                                              *)
(***************************************************************************)

\* Slot s holds a message scryd must keep: a row under its id, handed to the
\* index queue.
Archived(s) == rows[MessageId(s)] = s /\ MessageId(s) \in handed

\* UID u of folder f, in epoch e, is either archived or not scryd's to archive:
\* no longer on the server, of another epoch, or unparseable.
Settled(f, e, u) ==
  (u \in present[f] /\ uv[f] = e /\ ledger[<<f, e, u>>] \notin Unparseable)
    => Archived(<<f, e, u>>)

\* The task is past its backfill and has not been told to stop.
Watching(f) ==
  \/ pc[f] \in {"idle", "iexamine", "ifetch"}
  \/ pc[f] \in {"recv", "submit", "insert", "enqueue", "save", "saveSeen"}
       /\ phase[f] = "incremental"

\* A messages row never exists without its .eml file, whatever step of submit
\* a crash or an error interrupts (write_raw precedes insert_message).
RowHasRaw == \A id \in MsgIds : rows[id] # NoRow => raw[id] # NoMail

\* Once the supervisor watches the folder, every message that was there at the
\* backfill's EXAMINE and still is has a row and has been queued for indexing:
\* no batch boundary, interleaved expunge, aborted cycle or restart skips one.
BackfillCovers ==
  \A f \in Folders : Watching(f) =>
    \A u \in Uids : u <= target[f] => Settled(f, muv[f], u)

\* run_idle_loop never advances last_seen_uid past a message that is not stored
\* and queued: the next fetch starts above it and would not see it again.
WatermarkCovers ==
  \A f \in Folders : pc[f] \in {"idleHead", "idle", "iexamine", "ifetch"} =>
    \A u \in Uids : u <= seen[f] => Settled(f, uv[f], u)

\* Between two updates, sync_state's (uidvalidity, last_seen_uid) never claims a
\* message that is not stored and queued: not after a batch with a gap, an epoch
\* change, an error or a restart.
PersistedWatermark ==
  \A f \in Folders : pc[f] # "saveSeen" =>
    \A u \in Uids : u <= syncSeen[f] => Settled(f, syncUv[f], u)

\* The .eml under a message_id holds the bytes of the message whose row it is
\* (docs/mcp/tools/get_raw_message.md).
RawMatchesRow ==
  \A id \in MsgIds : rows[id] # NoRow => raw[id] = ledger[rows[id]]

\* A stored row keeps its (folder, uidvalidity, uid): neither a re-fetch nor a
\* copy of the message in another folder replaces or removes it.
RowIdentityStable ==
  [][\A id \in MsgIds : rows[id] # NoRow => rows'[id] = rows[id]]_rows

\* Every scan marks the stored messages that the server no longer has
\* (docs/concepts/imap-sync.md, UID validity and tombstones).
ScanMarksVanished ==
  [][\A f \in Folders :
       (pc[f] = "idleHead" /\ pc'[f] = "idle" /\ ScanDue(f)) =>
         \A id \in MsgIds : \A u \in Uids \ present[f] :
           rows[id] = <<f, syncUv[f], u>> => id \in tombstoned']_vars

\* Every supervisor keeps coming back to IDLE: its backfill ends, and no
\* message in the folder keeps it in the connect-fail-backoff loop.
ReachesIdle == \A f \in Folders : []<>(pc[f] \in {"idle", "exited"})

\* A stop request is observed from every step of the cycle.
StopsOnShutdown ==
  shutdown ~> (~shutdown \/ \A f \in Folders : pc[f] = "exited")

\* A message that stays on the server ends up archived.
NewMailArchived ==
  \A f \in Folders : \A u \in Uids :
    u \in present[f] ~>
      (shutdown \/ u \notin present[f] \/ Settled(f, uv[f], u))

=============================================================================
