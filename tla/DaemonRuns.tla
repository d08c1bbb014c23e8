------------------------------ MODULE DaemonRuns ------------------------------
(***************************************************************************)
(* The life of the scryd serve process as daemon_runs records it: one row  *)
(* per start, closed by finish_run on a graceful stop; the trailing streak *)
(* of open rows throttles the next start.  Signals may come at any time.   *)
(*                                                                         *)
(* Sources: crates/scryd-storage/src/daemon.rs and the serve_init,         *)
(* serve_run, wait_for_shutdown_signal and crash_backoff functions of      *)
(* crates/scryd-runtime/src/serve.rs.                                      *)
(***************************************************************************)
EXTENDS Integers, FiniteSets

CONSTANTS
  KeepRuns,   \* KEEP_RUNS
  Threshold,  \* CRASH_LOOP_THRESHOLD
  Base,       \* CRASH_BACKOFF_BASE
  Cap,        \* CRASH_BACKOFF_CAP
  Window,     \* CRASH_WINDOW
  NoTime,     \* last_crash_unix is None
  MaxRuns,    \* bound: rows ever inserted
  MaxTime     \* bound: the clock

ASSUME DaemonAssumption ==
  /\ KeepRuns \in Nat \ {0} /\ Threshold \in Nat \ {0}
  /\ Base \in Nat \ {0} /\ Cap \in Nat /\ Window \in Nat
  /\ MaxRuns \in Nat /\ MaxTime \in Nat
  /\ Base <= Cap
  /\ NoTime \notin Nat

VARIABLES
  \* the daemon_runs table
  rows,      \* run_ids present
  last,      \* the AUTOINCREMENT high-water mark
  started,   \* [1 .. MaxRuns -> Nat]: started_at
  stopped,   \* run_ids with stopped_at set
  \* the process
  pc,
  handler,   \* tokio's signal handlers are installed
  streak,    \* stats.consecutive_unclean
  lastCrash, \* stats.last_crash_unix
  until,     \* when the backoff sleep ends
  \* the environment
  now,       \* seconds
  asked,     \* a SIGTERM or SIGINT was sent to this process
  crashes    \* history: runs that ended since the last recorded clean end

journal == <<rows, last, started, stopped>>
process == <<pc, handler, streak, lastCrash, until>>
vars    == <<journal, process, now, asked, crashes>>

Pcs == {"down", "boot", "inserted", "begun", "backoff", "init", "serving",
        "mcp", "scheduler", "drainer", "finish"}

\* The process has its row and may still end without closing it.
Recorded == pc \in Pcs \ {"down", "boot"}

TypeOK ==
  /\ last \in 0 .. MaxRuns
  /\ rows \subseteq 1 .. last
  /\ stopped \subseteq rows
  /\ started \in [1 .. MaxRuns -> 0 .. MaxTime]
  /\ pc \in Pcs
  /\ handler \in BOOLEAN /\ asked \in BOOLEAN
  /\ streak \in 0 .. MaxRuns
  /\ lastCrash \in (0 .. MaxTime) \cup {NoTime}
  /\ until \in 0 .. MaxTime
  /\ now \in 0 .. MaxTime
  /\ crashes \in 0 .. MaxRuns

(***************************************************************************)
(* begin_run and crash_backoff                                             *)
(***************************************************************************)

\* Newest first, up to the first row that was closed.
TrailingUnclean == {i \in rows : \A j \in rows : j >= i => j \notin stopped}

\* started_at of the newest row, when that row was left open.
NewestUnclean == IF last \in TrailingUnclean THEN started[last] ELSE NoTime

\* Mutant of Kept: the DELETE takes one row too many.
KeptOneLess == {i \in rows : i > last - KeepRuns + 1}

\* What the DELETE leaves once row last is inserted.
Kept == {i \in rows : i > last - KeepRuns}

\* Mutant of CrashBackoff: the delay is not capped.
CrashBackoffUncapped ==
  IF streak >= Threshold /\ lastCrash # NoTime /\ now - lastCrash <= Window
    THEN Base * 2^(streak - Threshold)
    ELSE 0

\* The sleep before the index is opened.  (The code stops doubling after 16
\* steps, long after Base * 2^n has passed Cap.)
CrashBackoff ==
  IF streak >= Threshold /\ lastCrash # NoTime /\ now - lastCrash <= Window
    THEN IF Base * 2^(streak - Threshold) < Cap THEN Base * 2^(streak - Threshold) ELSE Cap
    ELSE 0

(***************************************************************************)
(* serve_init                                                              *)
(***************************************************************************)

\* systemd or the operator starts the daemon.
Start ==
  /\ pc = "down" /\ last < MaxRuns
  /\ pc' = "boot"
  /\ handler' = FALSE /\ asked' = FALSE
  /\ UNCHANGED <<journal, streak, lastCrash, until, now, crashes>>

\* The process ends before it has a row: preflight, USER_EMAIL or the config.
Down == pc' = "down" /\ asked' = FALSE /\ handler' = FALSE

BootFails ==
  /\ pc = "boot"
  /\ Down
  /\ UNCHANGED <<journal, streak, lastCrash, until, now, crashes>>

\* begin_run up to the INSERT.
BeginRun ==
  /\ pc = "boot"
  /\ now + Cap <= MaxTime
  /\ streak' = Cardinality(TrailingUnclean)
  /\ lastCrash' = NewestUnclean
  /\ last' = last + 1
  /\ started' = [started EXCEPT ![last + 1] = now]
  /\ rows' = rows \cup {last + 1}
  /\ pc' = "inserted"
  /\ UNCHANGED <<stopped, handler, until, now, asked, crashes>>

\* Its DELETE, a statement of its own.
PruneRuns ==
  /\ pc = "inserted"
  /\ rows' = Kept
  /\ stopped' = stopped \cap Kept
  /\ pc' = "begun"
  /\ UNCHANGED <<last, started, handler, streak, lastCrash, until, now, asked, crashes>>

\* The backoff polls wait_for_shutdown_signal, which installs the handlers.
DecideBackoff ==
  /\ pc = "begun"
  /\ now + Cap <= MaxTime
  /\ pc' = IF CrashBackoff = 0 THEN "init" ELSE "backoff"
  /\ until' = now + CrashBackoff
  /\ handler' = (CrashBackoff > 0)
  /\ UNCHANGED <<journal, streak, lastCrash, now, asked, crashes>>

BackoffElapses ==
  /\ pc = "backoff" /\ now >= until
  /\ pc' = "init"
  /\ UNCHANGED <<journal, handler, streak, lastCrash, until, now, asked, crashes>>

\* finish_run; its error is ignored.
FinishRun ==
  \/ stopped' = stopped \cup {last} /\ crashes' = 0
  \/ crashes' = crashes + 1 /\ UNCHANGED stopped

\* A signal during the sleep: finish_run, exit(0).
BackoffInterrupted ==
  /\ pc = "backoff" /\ asked
  /\ FinishRun
  /\ Down
  /\ UNCHANGED <<rows, last, started, streak, lastCrash, until, now>>

\* The row stays open.
EndUnclean ==
  /\ crashes' = crashes + 1
  /\ Down
  /\ UNCHANGED <<journal, streak, lastCrash, until, now>>

\* The DELETE, the accounts, the weights, the index or the scheduler:
\* serve_init returns an error.
InitFails == pc \in {"inserted", "init"} /\ EndUnclean

\* serve_run begins to wait; a listener sees only the signals that follow.
InitDone ==
  /\ pc = "init"
  /\ pc' = "serving" /\ handler' = TRUE
  /\ UNCHANGED <<journal, streak, lastCrash, until, now, asked, crashes>>

(***************************************************************************)
(* serve_run                                                               *)
(***************************************************************************)

Stages == [mcp |-> "scheduler", scheduler |-> "drainer", drainer |-> "finish"]

\* One component is stopped and joined.
StopComponent ==
  /\ pc \in DOMAIN Stages
  /\ pc' = Stages[pc]
  /\ UNCHANGED <<journal, handler, streak, lastCrash, until, now, asked, crashes>>

ServeRunEnds ==
  /\ pc = "finish"
  /\ FinishRun
  /\ Down
  /\ UNCHANGED <<rows, last, started, streak, lastCrash, until, now>>

(***************************************************************************)
(* The environment                                                         *)
(***************************************************************************)

\* SIGTERM or SIGINT.  Without a handler it ends the process; with one, it
\* reaches only a task that waits for it at that moment.
Sigterm ==
  /\ ~asked
  /\ \/ pc = "boot" /\ ~handler /\ Down
        /\ UNCHANGED <<journal, streak, lastCrash, until, now, crashes>>
     \/ Recorded /\ ~handler /\ EndUnclean
     \/ /\ pc # "down" /\ handler
        /\ asked' = TRUE
        /\ pc' = IF pc = "serving" THEN "mcp" ELSE pc
        /\ UNCHANGED <<journal, handler, streak, lastCrash, until, now, crashes>>

\* Panic (the hook aborts), SIGKILL or OOM.
Killed == Recorded /\ EndUnclean

Tick ==
  /\ now < MaxTime
  /\ now' = now + 1
  /\ UNCHANGED <<journal, process, asked, crashes>>

(***************************************************************************)
(* Specification                                                           *)
(***************************************************************************)

Init ==
  /\ rows = {} /\ last = 0 /\ stopped = {}
  /\ started = [i \in 1 .. MaxRuns |-> 0]
  /\ pc = "down" /\ handler = FALSE
  /\ streak = 0 /\ lastCrash = NoTime /\ until = 0
  /\ now = 0 /\ asked = FALSE
  /\ crashes = 0

ProcessStep ==
  \/ BeginRun \/ PruneRuns \/ DecideBackoff \/ BackoffElapses \/ BackoffInterrupted
  \/ InitDone \/ StopComponent \/ ServeRunEnds

Next ==
  \/ ProcessStep
  \/ Start \/ BootFails \/ InitFails
  \/ Sigterm \/ Killed \/ Tick

Spec == Init /\ [][Next]_vars

(***************************************************************************)
(* Properties                                                              *)
(***************************************************************************)

\* The streak begin_run would compute now never exceeds the number of runs that
\* ended since the last recorded clean end, the running one included, and is
\* exactly that number as far as the journal reaches: neither pruning, nor a
\* start that dies between the INSERT and the DELETE of begin_run, nor a failed
\* finish_run distorts it.
StreakCounts ==
  LET n == crashes + (IF Recorded THEN 1 ELSE 0)
      c == Cardinality(TrailingUnclean)
  IN  c <= n /\ (c = n \/ c >= KeepRuns)
=============================================================================
