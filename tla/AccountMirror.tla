--------------------------- MODULE AccountMirror ---------------------------
(***************************************************************************)
(* The configuration file and its mirror in the accounts table.  The file  *)
(* is validated, cut down to the accounts of USER_EMAIL, and written to    *)
(* the table one autocommitted statement at a time; rows that are no       *)
(* longer configured stay and become inactive.                             *)
(*                                                                         *)
(* An account of the file is a record: id, sound (its id matches the       *)
(* pattern and its port is not 0), user and folders (a sequence, or Unset).*)
(*                                                                         *)
(* Sources: crates/scryd-config/src (loader.rs, permissions.rs) and        *)
(* crates/scryd-storage/src (reconcile.rs, accounts.rs).                   *)
(***************************************************************************)
EXTENDS Integers, Sequences, FiniteSets, SequencesExt

CONSTANTS
  Ids,      \* account ids
  Emails,   \* logins, and values of USER_EMAIL
  Folders,
  Inbox,    \* "INBOX"
  Configs,  \* the files an operator may leave
  Unset,    \* folders is None
  NoRow

\* The accounts of a file, and the rows of the table.
Entries == [id : Ids, sound : BOOLEAN, user : Emails, folders : Seq(Folders) \cup {Unset}]
Rows    == [user : Emails, folders : Seq(Folders), active : BOOLEAN]

ASSUME AccountAssumption ==
  /\ IsFiniteSet(Ids)
  /\ Inbox \in Folders /\ Unset \notin Seq(Folders) /\ NoRow \notin Rows
  /\ \A f \in Configs : f.accounts \in Seq(Entries)

VARIABLES
  file,    \* the file on disk
  email,   \* USER_EMAIL
  cfg,     \* the accounts of the running daemon
  mirror,  \* [Ids -> row or NoRow]: the accounts table
  step     \* statements of reconcile_from_config done so far

mirrorVars == <<file, email, cfg, mirror, step>>

Configured == {cfg[i].id : i \in DOMAIN cfg}
ActiveIds  == {a \in Ids : mirror[a] # NoRow /\ mirror[a].active}

(***************************************************************************)
(* Config::load                                                            *)
(***************************************************************************)

\* The file can be read, has no world bits and parses; then the checks in order.
Validate(f) ==
  /\ f.readable
  /\ \A i \in DOMAIN f.accounts : f.accounts[i].sound
  /\ \A i \in DOMAIN f.accounts :
       (IF f.accounts[i].folders = Unset THEN f.sync ELSE f.accounts[i].folders) # <<>>
  /\ \A i, j \in DOMAIN f.accounts : f.accounts[i].id = f.accounts[j].id => i = j

\* The accounts whose login is USER_EMAIL, in the order of the file: the n-th is
\* the one that has n of them up to its place.
Partition(f, e) ==
  LET I == {i \in DOMAIN f.accounts : f.accounts[i].user = e}
  IN  [n \in 1 .. Cardinality(I) |->
         f.accounts[CHOOSE i \in I : Cardinality({j \in I : j <= i}) = n]]

LoadConfig ==
  /\ Validate(file)
  /\ cfg' = Partition(file, email)
  /\ step' = 0
  /\ UNCHANGED <<file, email, mirror>>

(***************************************************************************)
(* reconcile_from_config                                                   *)
(***************************************************************************)

\* What an account syncs when it names no folders.  [sync].folders is not used.
FoldersOf(a) == IF a.folders = Unset THEN <<Inbox>> ELSE a.folders

\* INSERT, or UPDATE of every structural field: the same row either way.
MirrorAccount ==
  /\ step < Len(cfg)
  /\ LET a == cfg[step + 1]
     IN  mirror' = [mirror EXCEPT ![a.id] =
                      [user |-> a.user, folders |-> FoldersOf(a), active |-> TRUE]]
  /\ step' = step + 1
  /\ UNCHANGED <<file, email, cfg>>

\* Mutant of StaleIds: only accounts of another login are made inactive.
StaleIdsByUser == {a \in ActiveIds : mirror[a].user # email}

StaleIds == ActiveIds \ Configured

InactivateAccount ==
  /\ step >= Len(cfg)
  /\ \E a \in StaleIds : mirror' = [mirror EXCEPT ![a].active = FALSE]
  /\ step' = step + 1
  /\ UNCHANGED <<file, email, cfg>>

Reconciled == step >= Len(cfg) /\ StaleIds = {}

\* The folder whose sync_state row the status tool shows.
Primary(a) == IF mirror[a].folders = <<>> THEN Inbox ELSE Head(mirror[a].folders)

\* The accounts every tool may read: active, and of USER_EMAIL.
Owned == {a \in ActiveIds : mirror[a].user = email}

MirrorTypeOK ==
  /\ file \in Configs /\ email \in Emails
  /\ cfg \in Seq(Entries) /\ \A i \in DOMAIN cfg : cfg[i].user = email
  /\ mirror \in [Ids -> Rows \cup {NoRow}]
  /\ step \in 0 .. (Len(cfg) + Cardinality(Ids))

MirrorInit ==
  /\ file \in Configs /\ email \in Emails
  /\ cfg = <<>> /\ step = 0
  /\ mirror = [a \in Ids |-> NoRow]
=============================================================================
