---------------------------- MODULE Supervisors ----------------------------
(***************************************************************************)
(* The scheduler: one supervisor task per (account, folder), each in its   *)
(* loop of login, session, health report and pause, until shutdown.  The   *)
(* session itself is module FolderSync; here it lasts until it fails or    *)
(* sees the shutdown flag.  The length of the pauses is left out.          *)
(*                                                                         *)
(* Sources: crates/scryd-imap/src (scheduler.rs, connect.rs, tls.rs), the  *)
(* update_sync_state functions of crates/scryd-runtime/src/sink.rs and     *)
(* crates/scryd-storage/src/sync_state.rs.                                 *)
(***************************************************************************)
EXTENDS AccountMirror

CONSTANT
  MaxConnections  \* MAX_CONNECTIONS_PER_ACCOUNT

VARIABLES
  sup,       \* [Keys -> where the task is]
  err,       \* [Keys -> result of the cycle that is being reported]
  health,    \* [Keys -> account_health or NoRow]: the sync_state table
  verdict,   \* history, [Keys -> what the last LOGIN or cycle came to, if its report was written]
  handles,   \* keys in the scheduler's map
  shutdown   \* the shutdown channel

supVars == <<sup, err, health, verdict, handles, shutdown>>

Keys == Ids \X Folders

\* The variants of AccountHealth, as AccountHealth::from_str knows them.
KnownHealth ==
  {"unknown", "active", "degraded", "auth-rejected", "quota-exceeded", "unreachable", "tls-failed"}

ASSUME SupervisorAssumption == MaxConnections \in Nat \ {0} /\ NoRow \notin KnownHealth

LoginErrors == {"AuthRejected", "Connect", "TlsHandshake"}

Running(k) == sup[k] \notin {"none", "ended"}

(***************************************************************************)
(* start                                                                   *)
(***************************************************************************)

\* Mutant of DesiredKeys: an account gets a task for each of its folders.
DesiredKeysUncapped ==
  UNION {{<<cfg[i].id, f>> : f \in Range(FoldersOf(cfg[i]))} : i \in DOMAIN cfg}

\* The first MaxConnections folders of each account; a folder named twice is one key.
DesiredKeys ==
  UNION {LET fs == FoldersOf(cfg[i])
         IN  {<<cfg[i].id, fs[j]>> : j \in {n \in DOMAIN fs : n <= MaxConnections}}
           : i \in DOMAIN cfg}

SchedulerStart ==
  /\ handles' = DesiredKeys
  /\ sup' = [k \in Keys |-> IF k \in DesiredKeys THEN "check" ELSE "none"]
  /\ shutdown' = FALSE
  /\ UNCHANGED <<err, health, verdict>>

(***************************************************************************)
(* run_account_supervisor                                                  *)
(***************************************************************************)

Goes(k, from, to) == sup[k] = from /\ sup' = [sup EXCEPT ![k] = to]

LoopHead(k) ==
  /\ Goes(k, "check", IF shutdown THEN "ended" ELSE "login")
  /\ UNCHANGED <<err, health, verdict, handles, shutdown>>

\* login: TCP, TLS and the LOGIN command.  It does not watch the shutdown flag.
LoginAccepted(k) ==
  /\ Goes(k, "login", "accepted")
  /\ verdict' = [verdict EXCEPT ![k] = "active"]
  /\ UNCHANGED <<err, health, handles, shutdown>>

\* Whatever error LOGIN itself ends in is AuthRejected.
LoginFails(k) ==
  /\ Goes(k, "login", "report")
  /\ \E e \in LoginErrors :
       /\ err' = [err EXCEPT ![k] = e]
       /\ verdict' = [verdict EXCEPT ![k] = IF e = "AuthRejected" THEN "auth-rejected" ELSE "failed"]
  /\ UNCHANGED <<health, handles, shutdown>>

\* update_sync_state with a health string: the row is made if need be, and a
\* string that is no AccountHealth is dropped on the way.  The account must have a
\* row (foreign key).
Stored(k, h) ==
  IF h \in KnownHealth THEN h ELSE IF health[k] = NoRow THEN "unknown" ELSE health[k]

MadeRow(k) ==
  [health EXCEPT ![k] = IF @ = NoRow /\ mirror[k[1]] # NoRow THEN "unknown" ELSE @]

\* The caller ignores an error, before or after the row was made.
UpdateHealth(k, h) ==
  \/ /\ mirror[k[1]] # NoRow
     /\ health' = [health EXCEPT ![k] = Stored(k, h)]
     /\ UNCHANGED verdict
  \/ /\ health' \in {health, MadeRow(k)}
     /\ verdict' = [verdict EXCEPT ![k] = "none"]

\* Mutant of ReportAccepted: a successful login does not clear the stored health.
ReportAcceptedSilent(k) ==
  /\ Goes(k, "accepted", "session")
  /\ UNCHANGED <<err, health, verdict, handles, shutdown>>

ReportAccepted(k) ==
  /\ Goes(k, "accepted", "session")
  /\ UpdateHealth(k, "active")
  /\ UNCHANGED <<err, handles, shutdown>>

\* run_initial_backfill and run_idle_loop return Ok only on shutdown.
SessionStops(k) ==
  /\ shutdown
  /\ Goes(k, "session", "report")
  /\ err' = [err EXCEPT ![k] = "Ok"]
  /\ verdict' = [verdict EXCEPT ![k] = "active"]
  /\ UNCHANGED <<health, handles, shutdown>>

SessionLost(k) ==
  /\ Goes(k, "session", "report")
  /\ err' = [err EXCEPT ![k] = "Server"]
  /\ verdict' = [verdict EXCEPT ![k] = "failed"]
  /\ UNCHANGED <<health, handles, shutdown>>

HealthOf(e) ==
  CASE e = "Ok"           -> "active"
    [] e = "AuthRejected" -> "auth-rejected"
    [] e = "Connect"      -> "connect-failure"
    [] e = "TlsHandshake" -> "tls-failure"
    [] OTHER              -> "transient"

Report(k) ==
  /\ Goes(k, "report", IF shutdown THEN "ended" ELSE "pause")
  /\ UpdateHealth(k, HealthOf(err[k]))
  /\ err' = [err EXCEPT ![k] = "Ok"]
  /\ UNCHANGED <<handles, shutdown>>

\* Another failure than a rejection is history only until the pause is over.
Forgotten(v) == IF v = "failed" THEN "none" ELSE v

PauseElapses(k) ==
  /\ Goes(k, "pause", "check")
  /\ verdict' = [verdict EXCEPT ![k] = Forgotten(@)]
  /\ UNCHANGED <<err, health, handles, shutdown>>

PauseStopped(k) ==
  /\ shutdown
  /\ Goes(k, "pause", "ended")
  /\ verdict' = [verdict EXCEPT ![k] = Forgotten(@)]
  /\ UNCHANGED <<err, health, handles, shutdown>>

\* The steps a task takes as soon as it is run.
SupervisorStep(k) ==
  LoopHead(k) \/ ReportAccepted(k) \/ Report(k) \/ PauseElapses(k) \/ PauseStopped(k)

\* The steps that need the server: the answer to LOGIN, the end of a fetch or the
\* answer to DONE before a session sees the flag, or its loss.
ServerAnswers(k) == LoginAccepted(k) \/ LoginFails(k) \/ SessionStops(k) \/ SessionLost(k)

(***************************************************************************)
(* shutdown                                                                *)
(***************************************************************************)

\* Mutant of SignalSupervisors: the map is drained and nobody is told.
SignalSupervisorsSilent ==
  /\ handles' = {}
  /\ UNCHANGED <<sup, err, health, verdict, shutdown>>

\* The flag, then the map is emptied; the joins follow.
SignalSupervisors ==
  /\ shutdown' = TRUE /\ handles' = {}
  /\ UNCHANGED <<sup, err, health, verdict>>

\* Mutant of Joined: the tasks are left to themselves.
JoinedNone == handles = {}

Joined == \A k \in Keys : ~Running(k)

\* The process ends: its tasks are gone, and a LOGIN or a cycle that was not yet
\* reported leaves no trace.
SupervisorsGone ==
  /\ sup' = [k \in Keys |-> "none"]
  /\ err' = [k \in Keys |-> "Ok"]
  /\ verdict' = [k \in Keys |-> IF sup[k] \in {"accepted", "report"} THEN "none"
                                ELSE Forgotten(verdict[k])]
  /\ handles' = {} /\ shutdown' = FALSE
  /\ UNCHANGED health

SupervisorsTypeOK ==
  /\ sup \in [Keys -> {"none", "check", "login", "accepted", "session", "report", "pause", "ended"}]
  /\ err \in [Keys -> LoginErrors \cup {"Ok", "Server"}]
  /\ health \in [Keys -> KnownHealth \cup {NoRow}]
  /\ verdict \in [Keys -> {"none", "active", "auth-rejected", "failed"}]
  /\ handles \subseteq Keys /\ shutdown \in BOOLEAN

ConnectionsCapped ==
  \A a \in Ids : Cardinality({k \in Keys : k[1] = a /\ Running(k)}) <= MaxConnections

SupervisorsInit ==
  /\ sup = [k \in Keys |-> "none"] /\ err = [k \in Keys |-> "Ok"]
  /\ health = [k \in Keys |-> NoRow] /\ verdict = [k \in Keys |-> "none"]
  /\ handles = {} /\ shutdown = FALSE
=============================================================================
