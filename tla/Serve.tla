------------------------------- MODULE Serve -------------------------------
(***************************************************************************)
(* scryd serve as a whole: serve_init brings the parts up one after the    *)
(* other and fails at the first error; serve_run waits for a signal and    *)
(* stops MCP, scheduler and drainer in that order.  The run journal is     *)
(* module DaemonRuns, the drainer IndexDrain, the tools ReadTools.         *)
(*                                                                         *)
(* Sources: crates/scryd-runtime/src (serve.rs, preflight.rs),             *)
(* crates/scryd-storage/src (handle.rs, db.rs, migrations/mod.rs),         *)
(* crates/scryd-mcp/src/serve.rs.                                          *)
(***************************************************************************)
EXTENDS Supervisors, Weights

CONSTANTS
  Latest,       \* latest_version()
  MaxStarts,    \* bound: starts of the daemon
  MaxSessions   \* bound: MCP requests in flight

ASSUME ServeAssumption == Latest \in Nat /\ MaxStarts \in Nat /\ MaxSessions \in Nat

VARIABLES
  pc,        \* the main task
  schema,    \* highest version in schema_version
  mcp,       \* the MCP task
  sessions,  \* requests it is serving
  cancelled, \* mcp_shutdown
  drainer,   \* the drainer task
  token,     \* drainer_shutdown
  starts

serveVars == <<pc, schema, mcp, sessions, cancelled, drainer, token, starts>>
vars == <<mirrorVars, weightVars, supVars, serveVars>>

To(from, to) == pc = from /\ pc' = to
\* What a step of the main task alone leaves unchanged, with or without pc.
OnlyPc  == UNCHANGED <<schema, mcp, sessions, cancelled, drainer, token, starts>>
Outside == UNCHANGED <<weightVars, supVars>>

(***************************************************************************)
(* serve_init                                                              *)
(***************************************************************************)

\* The operator has set the file and USER_EMAIL for this start; install.sh starts
\* the daemon after its helper.
Start ==
  /\ To("down", "config") /\ starts < MaxStarts /\ fetch = "idle"
  /\ starts' = starts + 1
  /\ file' \in Configs /\ email' \in Emails
  /\ UNCHANGED <<cfg, mirror, step, schema, mcp, sessions, cancelled, drainer, token>> /\ Outside

\* Preflight, USER_EMAIL, the file and the bind address are fine.
ReadConfig == To("config", "storage") /\ LoadConfig /\ OnlyPc /\ Outside

\* One migration, in a transaction with its schema_version row.
Migrate ==
  /\ pc = "storage" /\ schema < Latest
  /\ schema' = schema + 1
  /\ UNCHANGED <<pc, mcp, sessions, cancelled, drainer, token, starts, mirrorVars>> /\ Outside

\* The pool is open, the run recorded and the crash-loop backoff over.
Opened == To("storage", "reconcile") /\ schema >= Latest /\ OnlyPc /\ UNCHANGED mirrorVars /\ Outside

ReconcileStep ==
  /\ pc = "reconcile" /\ (MirrorAccount \/ InactivateAccount)
  /\ UNCHANGED serveVars /\ Outside

ReconcileDone == To("reconcile", "weights") /\ Reconciled /\ OnlyPc /\ UNCHANGED mirrorVars /\ Outside

\* ensure_weights_present, and the files again after the helper's success.
EnsureWeights ==
  /\ To("weights", "index") /\ AllPresent /\ fetch \in {"idle", "ok"}
  /\ OnlyPc /\ UNCHANGED <<mirrorVars, asset, tarball, done, supVars>>
  /\ fetch' = "idle"

\* auto_fetch_weights runs the helper when a file is missing.
FetchWeights ==
  /\ pc = "weights" /\ (fetch = "idle" => ~AllPresent)
  /\ FetchStep \/ FetchFault
  /\ UNCHANGED <<mirrorVars, supVars, serveVars>>

\* install.sh runs the helper too, before the first start and, at an upgrade, under
\* the daemon that serves; the files need not be missing.
RunHelper ==
  /\ (pc = "down" /\ starts = 0) \/ pc = "serving"
  /\ FetchStep \/ FetchFault \/ FetchReturns
  /\ UNCHANGED <<mirrorVars, supVars, serveVars>>

\* WitchcraftIndexer::open loads the assets, which fails on a torn one; then the
\* drainer and the supervisors are spawned.
OpenIndex ==
  /\ To("index", "spawn") /\ Whole
  /\ drainer' = "running" /\ token' = FALSE
  /\ SchedulerStart
  /\ UNCHANGED <<mirrorVars, weightVars, schema, mcp, sessions, cancelled, starts>>

\* The MCP task is spawned; nobody waits for it to bind.
SpawnMcp ==
  /\ To("spawn", "serving")
  /\ mcp' = "starting" /\ cancelled' = FALSE
  /\ UNCHANGED <<mirrorVars, schema, sessions, drainer, token, starts>> /\ Outside

(***************************************************************************)
(* The MCP task: mcp_serve                                                 *)
(***************************************************************************)

Mcp(from, to) == mcp = from /\ mcp' = to
McpOnly == UNCHANGED <<pc, schema, cancelled, drainer, token, starts, mirrorVars>> /\ Outside

Bind      == Mcp("starting", "listening") /\ UNCHANGED sessions /\ McpOnly
BindFails == Mcp("starting", "ended") /\ UNCHANGED sessions /\ McpOnly

SessionBegins ==
  /\ mcp = "listening" /\ ~cancelled /\ sessions < MaxSessions
  /\ sessions' = sessions + 1 /\ UNCHANGED mcp /\ McpOnly

SessionEnds == sessions > 0 /\ sessions' = sessions - 1 /\ UNCHANGED mcp /\ McpOnly

\* with_graceful_shutdown returns once the requests in flight are answered.
McpDrained == cancelled /\ sessions = 0 /\ Mcp("listening", "ended") /\ UNCHANGED sessions /\ McpOnly

(***************************************************************************)
(* serve_run                                                               *)
(***************************************************************************)

\* SIGTERM or SIGINT while serve_run waits: the MCP task is told.
Sigterm ==
  /\ To("serving", "mcp") /\ cancelled' = TRUE
  /\ UNCHANGED <<mirrorVars, schema, mcp, sessions, drainer, token, starts>> /\ Outside

JoinMcp ==
  /\ To("mcp", "scheduler") /\ mcp = "ended"
  /\ SignalSupervisors
  /\ OnlyPc /\ UNCHANGED <<mirrorVars, weightVars>>

JoinScheduler ==
  /\ To("scheduler", "drainer") /\ Joined
  /\ token' = TRUE
  /\ UNCHANGED <<mirrorVars, schema, mcp, sessions, cancelled, drainer, starts>> /\ Outside

DrainerEnds ==
  /\ drainer = "running" /\ token
  /\ drainer' = "ended"
  /\ UNCHANGED <<mirrorVars, pc, schema, mcp, sessions, cancelled, token, starts>> /\ Outside

JoinDrainer == To("drainer", "finish") /\ drainer = "ended" /\ OnlyPc /\ UNCHANGED mirrorVars /\ Outside

\* The process is gone, the disk stays.
Gone ==
  /\ pc' = "down"
  /\ SupervisorsGone
  /\ fetch' = "idle" /\ done' = {}
  /\ mcp' = "none" /\ sessions' = 0 /\ cancelled' = FALSE
  /\ drainer' = "none" /\ token' = FALSE
  /\ cfg' = <<>> /\ step' = 0
  /\ UNCHANGED <<file, email, mirror, asset, tarball, schema, starts>>

\* finish_run, and serve returns.
Finish == pc = "finish" /\ Gone

\* An error of serve_init, a panic in any task (the hook aborts) or SIGKILL.
Crash == pc # "down" /\ Gone

(***************************************************************************)
(* Specification                                                           *)
(***************************************************************************)

Supervise ==
  /\ \E k \in Keys : SupervisorStep(k) \/ ServerAnswers(k)
  /\ UNCHANGED <<mirrorVars, weightVars, serveVars>>

MainStep ==
  \/ ReadConfig \/ Migrate \/ Opened \/ ReconcileStep \/ ReconcileDone \/ EnsureWeights
  \/ FetchWeights \/ OpenIndex \/ SpawnMcp \/ JoinMcp \/ JoinScheduler \/ JoinDrainer \/ Finish

Init ==
  /\ MirrorInit /\ WeightsInit /\ SupervisorsInit
  /\ pc = "down" /\ schema = 0 /\ starts = 0
  /\ mcp = "none" /\ sessions = 0 /\ cancelled = FALSE
  /\ drainer = "none" /\ token = FALSE

Next ==
  \/ Start \/ RunHelper \/ MainStep \/ Supervise \/ Sigterm \/ Crash
  \/ Bind \/ BindFails \/ SessionBegins \/ SessionEnds \/ McpDrained \/ DrainerEnds

Spec == Init /\ [][Next]_vars

\* Tasks that can run do.  Nothing is assumed of the peers: an IMAP server need not
\* answer, an MCP client need not let go of its stream.
FairSpec ==
  /\ Spec
  /\ WF_vars(MainStep) /\ WF_vars(Bind \/ BindFails)
  /\ WF_vars(McpDrained) /\ WF_vars(DrainerEnds)
  /\ \A k \in Keys : WF_vars(SupervisorStep(k) /\ UNCHANGED <<mirrorVars, weightVars, serveVars>>)

(***************************************************************************)
(* Properties                                                              *)
(***************************************************************************)

\* Every variable in its type; no account has more than MaxConnections tasks.
TypeOK ==
  /\ MirrorTypeOK /\ WeightsTypeOK /\ SupervisorsTypeOK /\ ConnectionsCapped
  /\ pc \in {"down", "config", "storage", "reconcile", "weights", "index", "spawn", "serving",
             "mcp", "scheduler", "drainer", "finish"}
  /\ schema \in 0 .. Latest /\ starts \in 0 .. MaxStarts
  /\ mcp \in {"none", "starting", "listening", "ended"}
  /\ sessions \in 0 .. MaxSessions /\ cancelled \in BOOLEAN
  /\ drainer \in {"none", "running", "ended"} /\ token \in BOOLEAN

Spawned == pc \in {"spawn", "serving", "mcp", "scheduler", "drainer", "finish"}

\* From the first supervisor on, what the tools may read is exactly what this run
\* is configured to sync, whatever earlier runs with another file or another
\* USER_EMAIL left and wherever they were cut off: the active rows are the
\* configured accounts, all of them owned, every supervisor writes under such a
\* row, and the folder the status tool looks at is one that a supervisor keeps.
MirrorExact ==
  Spawned =>
    /\ schema = Latest
    /\ ActiveIds = Configured /\ Owned = Configured
    /\ \A k \in Keys : sup[k] # "none" => k[1] \in Configured
    /\ \A a \in Configured : sup[<<a, Primary(a)>>] # "none"

\* The files a running daemon has loaded stay whole, also while install.sh runs the
\* helper again under it, whose own look at the files is all that keeps it from
\* unpacking over them (docs/operations/weights-and-assets.md: "Re-running it when
\* all three are already present is a no-op").
BundleKept == Spawned => Whole

\* A LOGIN that was answered, and reported, is what the stored health says until
\* the next answer: a rejection shows, and a login that succeeds clears it for the
\* whole session that follows (the comment in run_one_cycle).  Of the failures to
\* connect it says nothing; HealthNamesResult does.
LoginShows ==
  \A k \in Keys :
    verdict[k] \in {"active", "auth-rejected"} /\ sup[k] \notin {"accepted", "report"}
      => health[k] = verdict[k]

\* The stored health names the last connection result, failures to connect and lost
\* sessions included (docs/operations/troubleshooting.md, "The per-account `health`
\* field [...] names the last connection result").
HealthNamesResult ==
  \A k \in Keys :
    verdict[k] = "failed" /\ sup[k] = "pause"
      => health[k] \in {"connect-failure", "tls-failure", "transient"}

\* The drainer outlives every supervisor, and a run is only marked clean when
\* no task of it is left to write.
StopOrder ==
  /\ drainer = "ended" => \A k \in Keys : ~Running(k)
  /\ pc = "finish" => drainer = "ended" /\ mcp = "ended" /\ sessions = 0

\* Peers that hold a task for ever: an MCP client that keeps its request open, an
\* IMAP server that never answers.  Neither wait has a deadline.
ClientHolds == <>[](sessions > 0)
ServerSilent == \E k \in Keys : <>[](sup[k] \in {"login", "session"})

\* Only a peer can hold up a stop: a signal that serve_run sees ends the process,
\* wherever the supervisors, the drainer and the MCP task are, unless a request is
\* never let go of or a server never answers.
StopCompletes == ClientHolds \/ ServerSilent \/ (pc = "mcp" ~> pc = "down")
=============================================================================
