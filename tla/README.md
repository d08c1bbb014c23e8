# A TLA+ model of scryd

scryd is a mail daemon: it keeps a local copy of the folders of an IMAP account,
indexes the messages with witchcraft, and answers searches over an MCP server.
This directory models the parts of it whose correctness depends on the order in
which things happen, and the pure functions whose edge cases are hard to test,
checks them with TLC on small instances, and proves every safety property
of these checks with TLAPS for every instance.

Paths below are relative to the repository; `crates/scryd-x/src` is written `x/`.

## 1. Inventory

| component | state | operations | talks to |
|---|---|---|---|
| folder supervisors (`imap/scheduler.rs`, `fetch.rs`, `idle.rs`, `uidvalidity.rs`, `tombstone.rs`) | position in the cycle, batch, `max_uid_seen`, `last_seen_uid`, IDLE iteration | login, EXAMINE, backfill in batches, IDLE, incremental fetch, tombstone scan, backoff, stop | IMAP server, sink |
| scheduler (`imap/scheduler.rs`) | map of supervisors, the shutdown and exit channels | start, shutdown, reconcile, request_pass | supervisors |
| sink (`runtime/sink.rs`) | none | submit, tombstone, update_sync_state, stored_uidvalidity, list_local_uids | raw files, store, queue, drainer wake-up |
| store (`storage/messages.rs`, `raw.rs`, `sync_state.rs`, `threading.rs`) | `messages`, `.eml` files, `sync_state` | insert, tombstone, read, update | one SQLite writer behind a mutex, a pool of readers |
| index queue (`storage/queue.rs`) | `index_queue` | enqueue, pop_batch, delete, mark_failed | sink, drainer |
| drainer (`search/drainer.rs`) | batch, cascade counter, notify permit, token | tick, process, embedding rounds, cascade | queue, index |
| witchcraft handle (`search/witchcraft_handle.rs`) | documents, embeddings, `dirty` | submit, flush_embeddings, flush_index, search | drainer, MCP tools |
| segmenter, snippets (`search/document.rs`, `snippet.rs`) | none | build, split_for_index, render | witchcraft handle, search tool |
| daemon (`runtime/serve.rs`, `storage/daemon.rs`) | `daemon_runs`, signal handlers | begin_run, crash backoff, init, ordered stop, finish_run | everything |
| accounts (`storage/reconcile.rs`, `accounts.rs`) | `accounts` | reconcile_from_config | daemon start, MCP scope |
| MCP server (`mcp/`) | listener, requests in flight | six read tools, graceful stop | store, index |
| weight fetcher (`scryd-fetch-weights`) | asset files, the temporary tarball | download, verify, extract | daemon start |
| configuration (`config/`) | the file, read once a start | load, validate | daemon start |
| MIME (`mime/`) | none | parse | sink |
| preflight, logging | none | checks and output | daemon |

What is hard here: each supervisor interleaves with the server, with the other
supervisors (they share the `messages` table) and with the drainer; a session or
the process may end between any two awaits; several writes that belong together
are separate statements; several errors are swallowed on purpose; the stop must
be noticed from wherever each task is. `PROJECT.json` lists the hazards line by
line with the properties that cover each.

What makes the parts correct:

* sync: nothing that the server held at the start of a walk is missing once the
  folder is watched; the watermarks never claim more than is stored; rows, files
  and queue entries agree; every supervisor gets back to IDLE and stops on request;
* queue and drainer: nothing handed over is lost; the retry ceiling is exact;
  rows do not starve; what is drained becomes searchable;
* daemon: the crash streak is the true one; crash loops are throttled; what is
  synced, mirrored and readable agrees; a stop ends every task in order;
* tools: no answer leaves the scope of USER_EMAIL; a search misses no match it
  should have found; ids that were given out stay good; a thread is one
  conversation of one account;
* functions: segments are bounded and skip nothing; text is never cut inside a
  character; mail that is reported as parsed lost nothing.

## 2. Modules

| module | models | used by |
|---|---|---|
| `FolderSync` | the supervisors of one account, the sink and the store; the IMAP server as environment | `MCFolderSync`, `FolderSyncProofs`, `WatermarkProofs` |
| `MCFolderSync` | which mails share a Message-ID; the symmetry set; which mail a UID of `sync_epochs` holds | runs |
| `FolderSyncProofs` | theorems about `FolderSync` | `WatermarkProofs` |
| `WatermarkProofs` | theorems about its two watermarks | |
| `IndexPromise` | what a caller of `enqueue` is promised (abstract) | `IndexDrain` |
| `IndexDrain` | the queue, the drainer and the index | `MCIndexDrain`, `IndexDrainProofs` |
| `MCIndexDrain` | how many segments each message has | runs |
| `IndexDrainProofs` | theorems about `IndexDrain`, and that it implements `IndexPromise` | |
| `DaemonRuns` | the process and its journal | runs, `DaemonRunsProofs` |
| `DaemonRunsProofs` | theorems about `DaemonRuns` | |
| `ReadTools` | the six tools and their scope, against inserts, threading and indexing | `MCReadTools`, `ReadToolsProofs` |
| `MCReadTools` | accounts, a conversation, scores and the queries | runs |
| `ReadToolsProofs` | theorems about `ReadTools` | |
| `AccountMirror` | the configuration file, the partition by USER_EMAIL, the `accounts` table | `Supervisors` |
| `Supervisors` | the supervisor tasks around their sessions: login, health, pause, stop | `Serve` |
| `Weights` | the asset files and `scryd-fetch-weights` | `Serve` |
| `Serve` | `serve_init` and `serve_run`: composes the three above with migrations, the MCP task and the drainer's end | `MCServe`, `ServeProofs` |
| `MCServe` | the files an operator may leave | runs |
| `ServeProofs` | theorems about `Serve` and the modules it composes | |
| `Segmenter` | `document.rs` as functions | `MCAlgorithms` |
| `BoundedText` | `snippet.rs` and the size cap of `body.rs` as functions | `MCAlgorithms` |
| `MimeParse` | `scryd-mime` from the part list to the outcome, as functions | `MCAlgorithms` |
| `MCAlgorithms` | generates every input up to a size | runs, `AlgorithmsProofs` |
| `Extrema` | maxima, minima and induction, as lemmas about sets | the proof modules |
| `AlgorithmsProofs` | theorems about the functions of the three modules above | |

### FolderSync

One account, any number of folders. Server variables: `uv` (UIDVALIDITY),
`next` (UIDNEXT), `present`, `ledger` (which mail a (folder, epoch, UID) was
assigned to, for ever), `notify` (an untagged response is owed to the session).
Task variables per folder: `pc` and the locals of the Rust functions. Store:
`raw`, `rows`, `tombstoned`, `handed` (ids that were enqueued), `syncUv`, `syncSeen`.

| `pc` | code |
|---|---|
| start | head of the loop of `run_account_supervisor`, backoff included |
| examine | `run_initial_backfill` up to the loop |
| head, recv | the batch loop: `UID FETCH lo:hi`, then the stream |
| submit, insert, enqueue | `StorageMessageSink::submit`, between its awaits |
| save, saveSeen | `update_sync_state`, before and between its two relevant UPDATEs |
| idleHead, idle | `run_idle_loop`, its head and its wait |
| iexamine, ifetch | `run_incremental` |

A message_id is `<<":", header>>` or `<<":synth", slot>>`, as `sink.rs` builds it;
`TombstoneId` is the other string, built by `tombstone.rs`. A mail is a model
value with a Message-ID or none. An untagged response that comes with the answer
to another command may or may not be left for the IDLE wait: that is up to the
server and async-imap, so it is a choice. `Fault` is any error that ends the
session; `Tolerated` is an error the code swallows (reading the stored
UIDVALIDITY, the scan). `Crash` and `Restart` keep the store and lose the rest.

Three constants restrict the environment so that each passing run states exactly
under which circumstances its properties hold: `AllowCopies` (a Message-ID may
reach the account twice), `LiveReset` (UIDVALIDITY changes under an open
session), `TornUpdates` (a crash or error between the UPDATEs of
`update_sync_state`). `sync_copies` allows copies and torn updates,
`sync_liveness` live epoch changes. Allowed everywhere they would break
`RawMatchesRow` (copies), `WatermarkCovers` (live epoch changes) and
`PersistedWatermark` (torn updates, or a swallowed read with two epochs); section
3 says how. Each theorem names the restriction it needs, or needs none (section 4).

### IndexDrain and IndexPromise

`queued`, `failed`, `attempts` are the columns of `index_queue`; the age of a row
is kept as older/latest than the current second, since `queued_at` has seconds
as its resolution and `ORDER BY queued_at` leaves ties open. `docs` holds (message, segment)
pairs; a failing `submit` may have written any prefix of the segments.
`Orphans` are ids without a `messages` row. Every storage call may fail as long
as the fault budget lasts; `Crash` keeps queue and index. `unclustered` counts the
embedded documents no cascade has covered. witchcraft's `index_chunks` is external and
documented as a no-op below `L0_CAPACITY` = 1024 embeddings (indexer.rs:51-53); a
document has at least one embedding, so an Ok of `FlushIndex` covers everything or,
with fewer than `L0Capacity` documents, perhaps nothing, and the drainer clears its
counter either way (drainer.rs:93-96). `Told` is what the loop reads of its token.

`IndexPromise` knows only a status per message and whether the message is wholly
indexed. A request ends when the message is wholly indexed, has been given up
on, or names nothing. `KeepsPromise` is the refinement.

### DaemonRuns

`rows`, `started`, `stopped` are `daemon_runs`; `pc` walks through `serve_init`
and `serve_run`. `handler` says that tokio's handlers are installed: before, a
signal ends the process; after, only a task that waits at that moment sees it.
`begin_run` is two steps (INSERT, DELETE) because it is not a transaction. The
history variable `crashes` records how many runs really crashed in a row.

### ReadTools

A mail is a pair of account and Message-ID, which is what a message_id is; a
thread id, a fresh UUID in the code, is named by the mail it was minted for. `rows`
and `thread` are the `messages` table, `docs` the (mail, segment) documents. A
search is a step per await: scope and arguments (`SearchCall`), the index
(`QueryIndex`, `seen` remembers what it read), the row of each hit (`LoadHit`), the
answer (`SearchReply`); inserts, re-fetches and submissions fall in between. Scores
are a constant per document, of which witchcraft returns the best `RawK`, ties
either way. The other tools are one step each, since they read one row or run one
query. `held` is any one answer some client holds; nothing can be tombstoned
(finding tombstone_names), so no row ever stops being readable within a run.
The mode of a search changes only how witchcraft scores and which snippet is shown.

### Serve, Supervisors, AccountMirror, Weights

`Serve` is the daemon seen from `serve_init` and `serve_run`; `pc` names the part
that is being brought up or joined. A start may find another file and another
USER_EMAIL. `AccountMirror` takes one step per SQL statement of
`reconcile_from_config`, each committed on its own, and the process may die
between any two. `Supervisors` keeps per (account, folder) where the task is, the
stored health, and `verdict`, a history variable with the outcome of the last
LOGIN or cycle whose report could be written; a failure other than a rejection is kept
until the pause after it ends. `SupervisorStep` is what a task does by itself,
`ServerAnswers` what needs the server. The session inside a supervisor is `FolderSync`
in detail; here it lasts until it is lost or sees the shutdown flag. `Weights`
tells absent, torn and whole files apart, which the code does not: it tests for
existence, and only opening the index fails on a torn file. The helper is run by the
daemon (`FetchWeights`) and by `ops/install.sh` (`RunHelper`): before the first start, and
at an upgrade under the daemon that serves. Its answer over files that all exist, torn or
not, is success; one helper runs at a time. `Crash` is any error of
`serve_init`, a panic (the hook aborts) or SIGKILL, at every step.

### Segmenter, BoundedText, MimeParse

Pure functions of the code as TLA+ functions. Characters are classes (newline,
other white space, the rest; or one byte wide, two bytes wide), a mail is the flat
list of parts mail-parser makes, each with the multipart it is in. Loops are
recursive functions or the set of positions they find. Case folding in snippets, and what
HTML cleaning and Markdown do to the text, are left out.

## 3. Runs

All cfgs say `CHECK_DEADLOCK FALSE`: after the last allowed restart the stopped
system has no step, and a stopped daemon is meant to stay stopped; the inputs of
`algorithms` end at their bound.

| run | cfg | checks | instance |
|---|---|---|---|
| sync_copies | FolderSyncCopies | types, files, identity, coverage | 2 folders of which one does not report UIDNEXT, 1 UID each, 2 mails with one Message-ID, torn updates, 1 fault, 1 restart |
| sync_epochs | FolderSyncEpochs | coverage, both watermarks, files | 1 folder, 3 UIDs in batches of 2, 2 epochs, mails without Message-ID of which one does not parse, 2 restarts (crashes at any step included); the constraint `Mailbox` fixes which mail a UID stands for in each epoch, not which of them arrive, vanish or are seen |
| sync_liveness | FolderSyncLiveness | returns to IDLE, stops | 1 folder, 2 UIDs, 2 epochs that may change under an open session, 1 fault |
| index | IndexDrain | nothing lost, ceiling, clustering lag, dirty flag, refinement, rows leave the rotation, drainer stops | a three-segment message and an orphan enqueued without end, batches of 1, ceiling 3, cascade threshold 3, L0 capacity 2, 2 faults, 2 restarts |
| daemon_journal | DaemonRuns | types with the backoff cap, crash streak | journal of 3, 5 starts, 8 seconds |
| read_tools | ReadTools | scope, search result, ids, threads | 3 accounts (one active and owned, one owned, one active), 4 mails of which 3 are a conversation, 2 segments, K 2, 5 queries |
| algorithms | Algorithms | segments, snippets, size cap, depth cap, lossless parse | documents of 15 characters against a cap of 12 and segments of 4, bodies of 7 characters, mails of 5 parts against caps of 4 parts and depth 2 |
| serve | Serve | types with the connection cap, mirror, loaded files, health after a LOGIN, order and end of a stop | 2 accounts, 4 files, 2 values of USER_EMAIL, 2 assets, 2 migrations, 2 starts, 1 MCP request at a time |

The bounds are the smallest at which the cases occur: two folders for a copy, three UIDs for
a batch that is full and one that is not, two epochs for a reset, one session or
process loss at each step, a second one where the first is needed to let an epoch
change happen between sessions, more starts than the journal keeps rows, more
segments than one embedding call takes, a batch smaller than the queue so that the order of `pop_batch`
matters (larger batches are covered by the proofs), a foreign message that outranks
the owned ones, three messages of a conversation so that the middle one may be missing,
a second start that meets what a first one with another file left, documents longer than
the cap with every placement of breaks around every target. `Interchangeable` permutes mails that
differ in their bodies only; it is used only where no liveness property is checked.

What the newer runs show:

* read_tools: `ScopeHeld` for every tool, in particular the early answer to an
  empty scope, without which `FilterMatch` would treat it as no filter.
  `SearchExact` states what the fixed candidate pool guarantees: a match is missing
  only behind `limit` better hits or behind K messages of the whole index that rank
  as high, foreign ones included. `GivenIdsStayGood` and `ThreadRooted` hold in every
  order of insertion; that the halves of a thread are joined does not (below).
* algorithms: the four guarantees in the comment of `split_for_index`; that only the
  far end of a document goes unindexed; that a snippet shows and marks its first match;
  that the caps are neither too lax nor too strict; that a mail reported as parsed, not
  degraded, keeps every part that is not text.
* index: `LagBounded` says how far clustering may fall behind. The counter forgets: it is
  cleared by a cascade that failed and by one that had too little to do. What is
  forgotten is below `L0Capacity` plus one `Quota` for each failure and restart, where
  `Quota` is what one count can reach (the threshold is looked at after all the rounds of
  an iteration, so it exceeds INDEX_REBUILD_THRESHOLD). `DrainerStops` is broken by
  a token the loop does not share, `StopsOnShutdown` by a channel it does not listen to.
* serve: `MirrorExact` shows that statement-wise reconciliation needs no
  transaction, because nothing reads the table before it is complete. `LoginShows`
  says what the health column means, the verdict of the last LOGIN; that it does not mean
  the last connection result is the run health_of_failures. `BundleKept` relates the
  presence test of the helper to a daemon that has the files loaded. It is not a promise of
  repair: a torn file that an interrupted fetch left passes the test of the daemon and of
  the helper, and each start fails at `OpenIndex`. `StopCompletes` says that only a
  peer can hold up a stop: a client that never lets go of its request (`ClientHolds`) or an
  IMAP server that never answers (`ServerSilent`); neither wait has a deadline. It needs
  the signal to reach `serve_run`.

### Findings

Each violation run checks one statement of the documentation or of a comment;
`PROJECT.json` quotes it.

| run | property | what the run shows |
|---|---|---|
| copy_blocks_folder | `ReachesIdle` | a second mail with a stored Message-ID fails its INSERT and keeps the supervisor of its folder in the retry loop |
| tombstone_names | `ScanMarksVanished` | the tombstone scan names ids that do not exist |
| swallowed_exists | `NewMailArchived` | new mail announced outside the IDLE wait is not fetched |
| health_of_failures | `HealthNamesResult` | after a failure to connect the stored health is still that of the LOGIN before: the reported string is not one `AccountHealth` knows |

Other disagreements met while modelling. They have no run of their own; the
change that reproduces one with a property of the project is given.

* After a UIDVALIDITY change the re-walk of a mail with a Message-ID meets its own
  old row: the INSERT conflicts on the primary key and the folder never reaches
  IDLE (`ReachesIdle` in `sync_liveness` with `Mails = {m1}`, `AllowCopies = TRUE`).
* `submit` writes the `.eml` before the INSERT is refused, so the copy's body
  replaces the stored one (`RawMatchesRow` in `sync_copies`).
* Without UIDNEXT the backfill has no target and walks on (fetch.rs:115-163;
  `ReachesIdle` in `sync_liveness` with `ReportsUidNext = {}`).
* A crash or a failed write between the UPDATEs of `update_sync_state`
  (sync_state.rs:123) leaves the old watermark beside the new UIDVALIDITY
  (`PersistedWatermark` in `sync_epochs` with `TornUpdates = TRUE`), and so does
  one failed read of the stored value (fetch.rs:106; `MaxFaults = 1`).
* The incremental fetch stores the new UIDVALIDITY it sees but goes on from the
  old watermark (fetch.rs:187), while its doc comment says the change "routes the
  caller to `run_initial_backfill`" (`WatermarkCovers` in `sync_epochs` with
  `LiveReset = TRUE`).
* fetch.rs:123-125 says "the next start resumes from there"; the walk starts at UID 1 (:119).
* A cascade that fails still resets the counter (drainer.rs:93-96, 145-148), so nothing
  owes it any more until new mail is embedded; `LagBounded` counts each such loss.
* A message that was drained is queued again by the next walk that meets it, since
  `submit` enqueues whether or not the row was new (sink.rs:140-142).
* lifecycle.md:78-79 measures the window from "the most recent crash"; the
  journal has only the start of the crashed run (daemon.rs:60-62, serve.rs:411), so a
  run that lasted longer than the window and crashed a moment ago counts as old.
* Embedding rounds run only after a tick that popped rows (drainer.rs:87): once the
  queue is empty, segments beyond the 8 rounds wait for unrelated new mail, and after
  a restart `dirty` is false. drainer.rs:116-117 says "the next drainer iteration
  will keep going". `EmbeddingOwed` states what does hold.
* A SIGTERM after a crash-loop backoff and before `serve_run` waits is swallowed:
  tokio's handlers are installed by the backoff's wait (serve.rs:116) and nobody
  listens. lifecycle.md:98-99 says "`serve()` waits for `SIGTERM` or `SIGINT`, then
  shuts down in order". `Sigterm` of `DaemonRuns` has these states; `Serve` starts at the wait.
* The status tool prints the health with `{:?}` (read.rs:249), so a rejection reads
  "AuthRejected" where imap-sync.md:122-128 lists `auth-rejected`. The conversion is left out.
* `consecutive_failures` is reset only when a cycle returns Ok (scheduler.rs:297),
  which happens only on shutdown: sessions lost months apart add up to the one-hour
  backoff. imap-sync.md:69-71 says it "doubles per consecutive failure".
* imap-sync.md:31-32 has folders "falling back to the `[sync].folders` default"; the
  scheduler and the mirror fall back to INBOX (scheduler.rs:173-176, reconcile.rs:120-123).
* imap-sync.md:25-28 says the scheduler "reconciles that tree as configuration changes";
  nothing calls `reconcile`, and the file is read once.
* `SearchQuery.account_ids` promises "only return hits whose `account_id` is in this
  set" (search/lib.rs:103-106); witchcraft is called with no filter, so messages of
  inactive or foreign accounts take places in the pool. This is the last disjunct of `SearchExact`.
* A reply that is stored before any of its ancestors starts a thread of its own and
  stays there; `get_thread` then returns a part of the conversation.
* Segments that snap back add up: a document between 8 * 1793 and 16384 characters may
  lose its tail, while document.rs:25-29 says "anything past this is dropped".
* A text/plain attachment may be chosen as the body (body.rs:66-76 ignores the
  disposition); short plain text is lost when the HTML next to it cleans to nothing; text
  parts of other subtypes, and a single non-text root, are neither body nor attachment.
* `in_backoff` of the status tool is false (unless the clock is set back): the backoff is over before the
  MCP server starts.
* A torn asset passes every presence test, and the daemon then fails to open the index at
  each start until the file is removed by hand (`Serve` has these states: the helper answers
  "ok" and `OpenIndex` stays disabled). weights-and-assets.md promises no more than
  a no-op when the files are present. A daemon that dies while its helper runs leaves
  the helper behind; a second one writes the same `.fetch-tmp.tar.gz` (main.rs:49,93).

### Fairness

* `FolderSync!FairSpec`: each task keeps running (tokio polls ready tasks, weak
  fairness of `TaskStep`), an IMAP command returns or fails, and an untagged
  response that waits wakes the IDLE wait before infinitely many recycles (strong
  fairness of `IdleEvent`: the recycle disables the wait for a moment only). The code has no command timeouts, so the second
  half is an assumption about the server and TCP, recorded as a hazard.
* `IndexDrain!FairSpec`: the drainer keeps running (each of its waits has a
  timer) and time passes. Faults are never forced.
* `Serve!FairSpec`: the main task, the MCP task, the drainer and each supervisor keep
  running as far as they can without a peer (`StopsOnShutdown` shows that the detailed session
  notices the flag, `DrainerStops` the same for the drainer). Nothing is assumed of IMAP servers
  and MCP clients: the answer to LOGIN and the end of a session, for which the server must
  answer DONE or a fetch, and the end of an MCP request (axum's graceful shutdown has no deadline)
  are not fair. What that costs is in the statement of `StopCompletes`.

## 4. Proofs

`tlapm` on each of the eight proof modules checks everything; no step is left out.
`AlgorithmsProofs` takes less than two minutes, the others less than one each. The theorems hold for all values of the constants
that satisfy the named assumptions of the modules: any number of folders, mails, UIDs,
epochs, accounts, messages and segments, any limits, any number of faults and
restarts. The assumptions say what the constants are and, where a proof needs it, what
the code's own constants satisfy (`SNAP_WINDOW` is positive and below
`SEGMENT_TARGET_CHARS`, which is at most `SEGMENT_MAX_CHARS`; the backoff starts within
its cap). Every invariant and action property of the passing runs is stated by a
theorem; liveness is not.

| theorem | property | condition in the statement |
|---|---|---|
| FolderSyncProofs `TypeCorrect`, `RowsHaveRaw`, `RowsKeepIdentity`, `BackfillIsComplete` | `TypeOK`, `RowHasRaw`, `RowIdentityStable`, `BackfillCovers` | none |
| FolderSyncProofs `RawIsTheRows` | `RawMatchesRow` | no copies |
| WatermarkProofs `WatermarkIsCovered` | `WatermarkCovers` | no epoch change under an open session |
| WatermarkProofs `PersistedIsCovered` | `PersistedWatermark` | `Calm`, every step `Compared` |
| WatermarkProofs `PersistedWithoutErrors` | `PersistedWatermark` | `Calm`, and no faults or one epoch |
| IndexDrainProofs `TypeCorrect`, `QueueLosesNothing`, `CeilingExact`, `EmbeddingStaysOwed`, `LagIsBounded`, `ImplementsPromise` | `TypeOK`, `NothingLost`, `RetryCeiling`, `EmbeddingOwed`, `LagBounded`, `KeepsPromise` | none |
| ReadToolsProofs `TypeCorrect`, `ScopeIsHeld`, `IdsStayGood`, `ThreadsRooted`, `SearchIsExact` | `TypeOK`, `ScopeHeld`, `GivenIdsStayGood`, `ThreadRooted`, `SearchExact` | none |
| DaemonRunsProofs `TypeCorrect`, `StreakIsCounted` | `TypeOK`, `StreakCounts` | none |
| ServeProofs `TypeCorrect`, `MirrorIsExact`, `BundleIsKept`, `LoginsShow`, `StopsInOrder` | `TypeOK`, `MirrorExact`, `BundleKept`, `LoginShows`, `StopOrder` | none |
| AlgorithmsProofs `SegmentsAreBounded`, `SegmentsReachFar`, `CapIsKept`, `SnippetShowsTheMatch`, `DepthIsCounted`, `ParseIsLossless` | the `…Guarantees` and `SegmentCoverage` of `MCAlgorithms` | none |

**FolderSync.** `BackfillCovers` speaks of the moment a folder is watched; to
carry it there the inductive invariant must say what is true in the middle of a
walk. `IInv` is `TypeOK` with, for each folder,

* `PresentOk`: UIDs in the folder lie below UIDNEXT and stand for a mail;
* `SessionOk`: outside IDLE the task's UIDVALIDITY is the current one, and what it
  holds of the batch was assigned by the server and has come as far as `pc` says
  (file written, row inserted);
* `CoverOk`: every UID up to the target is settled (gone from the server,
  unparseable, or stored and queued) as far as the walk has come: below `lo` at the
  head of the loop, up to the end of the range except what is in hand while a
  batch is processed, all of it once the folder is watched;

and, for each message_id, `RowOk`: a row has its file, and the row's slot was
assigned a mail whose id this is. `LedgerKept` and `StoreGrows` say that no step
unassigns a UID or removes a row or a queue hand-over, from which `SettledKept`
follows: once settled, a UID stays settled whatever any other task does. With
these, each action disturbs only its own folder's part. The first four theorems follow
from `IInv`. They hold with copies, epoch changes and torn updates allowed.

`RawIsTheRows` adds `RawInv`: a file holds a mail that goes by its message_id
(`RawOk`), and without copies one Message-ID stands for one mail (`HeadersOnce`), so the
mail of the file and the mail of the row, which have the same id, are the same.

**The watermarks.** `MarkInv` says of each folder that `max_uid_seen` covers only UIDs
that are settled or in hand (`MarkHeld`), that the marks of the loop (`LoopMark`) and of
the walk (`WalkMark`) cover only settled ones, and that the `sync_state` row is of the
current epoch once the session has compared it (`SyncOk`). The conditions are those
that the code needs, each broken by a behaviour described in section 3: `Calm` excludes
epoch changes under an open session, torn updates and an EXAMINE without UIDNEXT;
`Compared`, a condition on the steps, says that a backfill does not go on past a
stored UIDVALIDITY that differs, which happens only if reading it failed.
`PersistedWithoutErrors` discharges `Compared` where no read can fail or nothing can
differ. `sync_epochs` is an instance of it.

**IndexDrain.** `IInv` is `TypeOK` with finiteness of the index, `Work` (what each
`pc` implies for the message in hand: it is still queued, and after a successful
submit it is wholly indexed), `RetryCeiling` and `NothingLost`. `PromiseStep`
shows that each action, from a state in `IInv`, is a step of `IndexPromise` or leaves
its variables alone; `ImplementsPromise` puts it together. `Owed` adds
`EmbeddingOwed` with `PrefixClosed`: the segments of a message that are in the index
are its first ones, so that a message whose last segment is written is wholly
there. `LagBounded` needs `Counted`, which says how far the counter can be at each round of an
iteration and so that it never exceeds `Quota`; with that, each way of clearing it keeps
the bound: a cascade that covers everything (`LagSmall`, as for one with too little to do),
a failure or a restart, which pays with one more `Quota` (`LagForgets`), and embedding,
which moves both sides (`LagGrows`).

**ReadTools.** `IInv` has the store (`StoreOk`: the index is finite and
only rows have documents) and the search (`ScopeOk`: the scope that was computed is within what is
allowed) besides the three properties that are inductive with them. `SearchIsExact`
needs `SearchOk`: the hits collected and the hits to come are one ranking without
repetition, and a match that is in neither was crowded out of the pool. The step that
starts it, `QueryIndex`, is where the counting is: a document that is not among the best
`RawK` has `K` other messages above it, since no message has more than `MaxSegments`
documents.

**DaemonRuns.** The journal is an unbroken range of run numbers that ends with the last and
is either complete or at least `KEEP_RUNS` long (`RangeFrom`), also between the INSERT and
the DELETE of `begin_run`. `StreakOk` ties `crashes` to the rows.

**Serve.** One invariant for each component: `MirrorOk` (the first `step` accounts of the
file have their row as configured, and each row made inactive is one less to do),
`BundleOk` (from the opened index on the files are whole and no helper is past its look at
them; at the index no fetch is under way), `SupOk` and `HealthOk` (what the result under report has
to do with the last verdict), `StageOk` (what is up and what has ended at each `pc`).

**Algorithms.** The theorems about the specification follow from one about each function, for
every input: `SplitKeeps`, `SplitCovers`, `CapKeeps`, `SnippetKeeps`, `DepthKeeps`,
`ParseKeeps`. `InputOk` says that what is generated is such an input. The provers
cannot instantiate the induction theorems of the library; `Extrema` derives induction
and the existence of recursive functions as facts about sets
(`NatInductionOnSets`, `BoundedInductionOnSets`, `RecursionExists`), from the strict subset
order on finite sets being well founded. With them, the segments are described by the
offsets they are cut at (`Cuts`), what `push_highlighted` has put in bold by an invariant of
its scan, and the nesting of a part by the least set closed under going up, which has as
many elements as the walk of `caps.rs` counts levels.

Two statements changed because their proofs failed. `ParsedIsLossless` had promised a
body to every mail with non-empty plain text; `select_body` looks at the first text/plain
part only, so an empty one hides the next (`MCAlgorithms` now generates that mail).
`SegmentCoverage` needs `SNAP_WINDOW` to be positive, which is now assumed.

Only model-checked: `ReachesIdle`, `StopsOnShutdown`, `RowsLeaveRotation`,
`DrainerStops` and `StopCompletes`, since liveness under fairness and ENABLED are out of the
prover's reach; and the four violation runs. The modules use no RECURSIVE operator.

## 5. Plan

The modules are complete for what is modelled, and what their runs check is proved as
far as the prover goes. What may still be worth doing:

1. `PersistedWatermark` with torn updates: what the stored watermark does claim then, as a
   weaker property with its own proof.
2. `Supervisors` as an abstraction of the cycle of `FolderSync`, stated as a refinement.
3. The part of the crash-loop property that has no liveness in it: how long a streak delays
   the next start.

## 6. Not modelled

* What the parts are made of but no property is about: TOML, TLS and the IMAP wire
  protocol, HTML cleaning and Markdown, header and address normalisation, formatting
  of answers, logging, packaging. Their failures are actions (`Fault`, `LoginFails`,
  `BootFails`, `Crash`, `SkipUnparseable`).
* Preflight and path resolution: checks that change nothing.
* The counters of `status` (queue depth, journal numbers): copies of values that
  `IndexDrain` and `DaemonRuns` keep.
* The length of pauses and backoffs of a supervisor: only that they end.
* Two fetch helpers at once (section 3), and a helper that is run by hand while the daemon
  starts or stops.
* Code nothing in the daemon calls: `run_poll_loop`, the scheduler's `reconcile` and
  `request_pass`, `reenqueue_all_messages`, `remove`, `truncate`, `delete_raw`,
  `list_all_accounts`, `Capabilities`, `ConfigCredentialFetcher`, `InMemoryIndexer`,
  the `attachments` table.
