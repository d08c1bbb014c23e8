----------------------------- MODULE ServeProofs -----------------------------
(***************************************************************************)
(* Theorems about Serve and the components it composes, for any            *)
(* configuration files, users, folders, asset files and schema version,    *)
(* and for any number of starts, crashes and logins.                       *)
(***************************************************************************)
EXTENDS Serve, FiniteSetTheorems, FunctionTheorems, SequenceTheorems, TLAPS

(***************************************************************************)
(* The inductive invariant                                                 *)
(***************************************************************************)

\* Config::load lets through no id twice and no empty folder list.
CfgOk ==
  /\ \A i, j \in DOMAIN cfg : cfg[i].id = cfg[j].id => i = j
  /\ \A i \in DOMAIN cfg : cfg[i].folders # <<>>

\* The row that reconcile_from_config writes for an account.
RowOf(a) == [user |-> a.user, folders |-> FoldersOf(a), active |-> TRUE]

\* The first n accounts of the configuration have their row.
Mirrored(n) == \A i \in DOMAIN cfg : i <= n => mirror[cfg[i].id] = RowOf(cfg[i])

AfterReconcile == {"weights", "index", "spawn", "serving", "mcp", "scheduler", "drainer", "finish"}

\* How far the mirror has come; every row made inactive is one row less to do.
MirrorOk ==
  /\ CfgOk
  /\ pc \in {"down", "config"} => cfg = <<>>
  /\ pc \in {"down", "config", "storage"} => step = 0
  /\ pc \in {"reconcile"} \cup AfterReconcile => schema = Latest
  /\ pc = "reconcile" => Mirrored(step)
  /\ pc \in AfterReconcile => Mirrored(Len(cfg)) /\ ActiveIds \subseteq Configured
  /\ step <= Len(cfg) + Cardinality(Ids \ ActiveIds)

\* There is a task for each desired key from the start of the scheduler on.
SupOk ==
  /\ ~Spawned => \A k \in Keys : sup[k] = "none"
  /\ Spawned => \A k \in Keys : sup[k] # "none" <=> k \in DesiredKeys

\* What the stored health and the result under report have to do with the last LOGIN.
HealthOk(k) ==
  verdict[k] # "none" =>
    /\ verdict[k] # "failed" /\ sup[k] \notin {"accepted", "report"} => health[k] = verdict[k]
    /\ sup[k] \in {"accepted", "session"} => verdict[k] = "active"
    /\ sup[k] = "report" =>
         CASE err[k] = "AuthRejected" -> verdict[k] = "auth-rejected"
           [] err[k] = "Ok"           -> verdict[k] = "active"
           [] OTHER                   -> verdict[k] = "failed"

\* A daemon that has opened the index has whole files, and no helper is past its
\* look at them.
BundleOk ==
  /\ pc = "index" => fetch = "idle"
  /\ Spawned => Whole /\ fetch \in {"idle", "ok"}

\* The order of the stages.
StageOk ==
  /\ ~Spawned => mcp = "none" /\ drainer = "none" /\ ~token
  /\ pc = "spawn" => mcp = "none"
  /\ mcp # "listening" => sessions = 0
  /\ pc \in {"scheduler", "drainer", "finish"} => mcp = "ended"
  /\ token => pc \in {"drainer", "finish"} /\ \A k \in Keys : ~Running(k)
  /\ drainer = "ended" => token
  /\ pc = "finish" => drainer = "ended"

StageTypeOK ==
  /\ pc \in {"down", "config", "storage", "reconcile", "weights", "index", "spawn", "serving",
             "mcp", "scheduler", "drainer", "finish"}
  /\ schema \in 0 .. Latest /\ starts \in 0 .. MaxStarts
  /\ mcp \in {"none", "starting", "listening", "ended"}
  /\ sessions \in 0 .. MaxSessions /\ cancelled \in BOOLEAN
  /\ drainer \in {"none", "running", "ended"} /\ token \in BOOLEAN

MirrorInv  == MirrorTypeOK /\ MirrorOk
WeightsInv == WeightsTypeOK /\ BundleOk
SupInv     == SupervisorsTypeOK /\ SupOk /\ \A k \in Keys : HealthOk(k)
StageInv   == StageTypeOK /\ StageOk

IInv == MirrorInv /\ WeightsInv /\ SupInv /\ StageInv

(***************************************************************************)
(* Config::load                                                            *)
(***************************************************************************)

\* The accounts that partition keeps are accounts of the file: of this user, with
\* folders, and none of them twice.
LEMMA PartitionFacts ==
  ASSUME NEW f \in Configs, Validate(f), NEW e \in Emails
  PROVE  /\ Partition(f, e) \in Seq(Entries)
         /\ \A n \in DOMAIN Partition(f, e) :
              Partition(f, e)[n].user = e /\ Partition(f, e)[n].folders # <<>>
         /\ \A n, m \in DOMAIN Partition(f, e) :
              Partition(f, e)[n].id = Partition(f, e)[m].id => n = m
<1> DEFINE A == f.accounts
           I == {i \in DOMAIN A : A[i].user = e}
           UpTo(i) == {j \in I : j <= i}
           c == Cardinality(I)
           r == [i \in I |-> Cardinality(UpTo(i))]
           pick(n) == CHOOSE i \in I : Cardinality(UpTo(i)) = n
<1>1. A \in Seq(Entries)
  BY AccountAssumption
<1>2. DOMAIN A = 1 .. Len(A) /\ Len(A) \in Nat
  BY <1>1
<1>3. IsFiniteSet(I) /\ c \in Nat /\ I \subseteq Nat
  <2>1. IsFiniteSet(1 .. Len(A)) /\ I \in SUBSET (1 .. Len(A))
    BY <1>2, FS_Interval
  <2>2. I \subseteq Nat
    BY <1>2, <2>1
  <2> HIDE DEF I, A
  <2>3. IsFiniteSet(I)
    BY <2>1, FS_Subset
  <2> QED  BY <2>2, <2>3, FS_CardinalityType
<1>4. \A i \in I : IsFiniteSet(UpTo(i)) /\ Cardinality(UpTo(i)) \in 1 .. c
  <2> SUFFICES ASSUME NEW i \in I PROVE IsFiniteSet(UpTo(i)) /\ Cardinality(UpTo(i)) \in 1 .. c
    OBVIOUS
  <2>1. UpTo(i) \in SUBSET I /\ UpTo(i) # {}
    BY <1>3
  <2> HIDE DEF UpTo, I
  <2>2. IsFiniteSet(UpTo(i)) /\ Cardinality(UpTo(i)) <= c
    BY <1>3, <2>1, FS_Subset
  <2>3. Cardinality(UpTo(i)) \in Nat /\ Cardinality(UpTo(i)) # 0
    BY <2>1, <2>2, FS_EmptySet, FS_CardinalityType
  <2> HIDE DEF c
  <2> QED  BY <1>3, <2>2, <2>3
<1>5. \A i, j \in I : r[i] = r[j] => i = j
  <2>1. ASSUME NEW i \in I, NEW j \in I, i < j
        PROVE  Cardinality(UpTo(i)) # Cardinality(UpTo(j))
    <3>1. UpTo(i) \in SUBSET UpTo(j) /\ j \in UpTo(j) /\ j \notin UpTo(i)
      BY <1>3, <2>1
    <3> HIDE DEF UpTo
    <3> QED  BY <1>4, <3>1, FS_Subset
  <2>2. \A i, j \in I : i < j => r[i] # r[j]
    BY <2>1
  <2> HIDE DEF I, r
  <2> QED  BY <1>3, <2>2
<1>6. r \in [I -> 1 .. c]
  BY <1>4
<1>7. \A n \in 1 .. c : \E i \in I : r[i] = n
  <2> HIDE DEF r, I, c
  <2>1. r \in Injection(I, 1 .. c)
    BY <1>5, <1>6, Fun_IsInj
  <2>2. IsFiniteSet(1 .. c) /\ Cardinality(1 .. c) = c
    BY <1>3, FS_Interval DEF c
  <2>3. r \in Surjection(I, 1 .. c)
    BY <1>3, <2>1, <2>2, FS_Injection DEF c
  <2> QED  BY <2>3, Fun_SurjectionProperties
<1>8. \A n \in 1 .. c : pick(n) \in I /\ Cardinality(UpTo(pick(n))) = n
  <2> SUFFICES ASSUME NEW n \in 1 .. c PROVE pick(n) \in I /\ Cardinality(UpTo(pick(n))) = n
    OBVIOUS
  <2>1. \E i \in I : Cardinality(UpTo(i)) = n
    BY <1>7
  <2> HIDE DEF UpTo, I
  <2> QED  BY <2>1
<1>9. Partition(f, e) = [n \in 1 .. c |-> A[pick(n)]]
  BY DEF Partition
<1>10. \A n \in 1 .. c : A[pick(n)] \in Entries /\ A[pick(n)].user = e /\ A[pick(n)].folders # <<>>
  <2> SUFFICES ASSUME NEW i \in I PROVE A[i] \in Entries /\ A[i].user = e /\ A[i].folders # <<>>
    <3> HIDE DEF I, pick, c
    <3> QED  BY <1>8
  <2>1. A[i] \in Entries /\ i \in DOMAIN A /\ A[i].user = e
    BY <1>1
  <2>2. Unset # <<>>
    BY AccountAssumption, EmptySeq
  <2>3. A[i].folders # Unset => A[i].folders # <<>>
    BY <2>1 DEF Validate
  <2> QED  BY <2>1, <2>2, <2>3
<1>11. \A n, m \in 1 .. c : A[pick(n)].id = A[pick(m)].id => n = m
  <2> SUFFICES ASSUME NEW n \in 1 .. c, NEW m \in 1 .. c, A[pick(n)].id = A[pick(m)].id
               PROVE  n = m
    OBVIOUS
  <2>1. pick(n) \in DOMAIN A /\ pick(m) \in DOMAIN A
    BY <1>8
  <2>2. pick(n) = pick(m)
    <3> HIDE DEF pick
    <3> QED  BY <2>1 DEF Validate
  <2> HIDE DEF pick, UpTo
  <2> QED  BY <1>8, <2>2
<1> HIDE DEF pick, c, A
<1> QED
  BY <1>3, <1>9, <1>10, <1>11

(***************************************************************************)
(* The mirror                                                              *)
(***************************************************************************)

\* What leaves the table and the configuration alone leaves their invariant alone.
LEMMA MirrorFrame ==
  ASSUME MirrorInv, UNCHANGED mirrorVars,
         \/ pc' = pc /\ (schema' = schema \/ pc = "storage")
         \/ schema' = schema /\ pc \in AfterReconcile /\ pc' \in AfterReconcile
  PROVE  MirrorInv'
<1>1. file' = file /\ email' = email /\ cfg' = cfg /\ mirror' = mirror /\ step' = step
  BY DEF mirrorVars
<1>2. ActiveIds' = ActiveIds /\ Configured' = Configured
      /\ (Mirrored(Len(cfg))' <=> Mirrored(Len(cfg))) /\ (Mirrored(step)' <=> Mirrored(step))
  BY <1>1 DEF ActiveIds, Configured, Mirrored
<1>3. MirrorTypeOK'
  BY <1>1 DEF MirrorInv, MirrorTypeOK
<1>4. MirrorOk'
  BY <1>1, <1>2 DEF MirrorInv, MirrorOk, CfgOk, AfterReconcile
<1> QED
  BY <1>3, <1>4 DEF MirrorInv

\* Whichever accounts are active, the others are finitely many.
LEMMA InactiveFinite ==
  ASSUME NEW S
  PROVE  /\ IsFiniteSet(Ids \ S) /\ Cardinality(Ids) \in Nat
         /\ Cardinality(Ids \ S) \in Nat /\ Cardinality(Ids \ S) <= Cardinality(Ids)
<1>1. IsFiniteSet(Ids) /\ Ids \ S \in SUBSET Ids
  BY AccountAssumption
<1>2. IsFiniteSet(Ids \ S) /\ Cardinality(Ids \ S) <= Cardinality(Ids)
  BY <1>1, FS_Subset
<1> QED
  BY <1>1, <1>2, FS_CardinalityType

\* The fields of an account of the file.
LEMMA EntryType ==
  ASSUME NEW a \in Entries
  PROVE  a.id \in Ids /\ a.user \in Emails /\ a.folders \in Seq(Folders) \cup {Unset}
BY DEF Entries

\* The accounts of the configuration, by their places.
LEMMA CfgFacts ==
  ASSUME cfg \in Seq(Entries)
  PROVE  /\ DOMAIN cfg = 1 .. Len(cfg) /\ Len(cfg) \in Nat
         /\ \A i \in DOMAIN cfg : cfg[i] \in Entries /\ cfg[i].id \in Ids
<1>1. \A i \in DOMAIN cfg : cfg[i] \in Entries
  OBVIOUS
<1> QED
  BY <1>1, EntryType

\* An account has at least one folder, by default INBOX.
LEMMA FoldersOfType ==
  ASSUME NEW a \in Entries, a.folders # <<>>
  PROVE  FoldersOf(a) \in Seq(Folders) /\ FoldersOf(a) # <<>>
BY AccountAssumption DEF FoldersOf, Entries

\* The row the mirror writes for an account.
LEMMA RowOfType ==
  ASSUME NEW a \in Entries, a.folders # <<>>
  PROVE  RowOf(a) \in Rows /\ RowOf(a) # NoRow
<1>1. RowOf(a) \in Rows
  BY FoldersOfType DEF RowOf, Rows, Entries
<1> QED
  BY <1>1, AccountAssumption

\* One account is written: the rows written before it are of other ids.
LEMMA MirrorAccountStep ==
  ASSUME MirrorInv, pc = "reconcile", MirrorAccount, pc' = pc, schema' = schema
  PROVE  MirrorInv'
<1> DEFINE n == step + 1
           a == cfg[n]
<1>1. /\ step < Len(cfg) /\ step' = n /\ file' = file /\ email' = email /\ cfg' = cfg
      /\ mirror' = [mirror EXCEPT ![a.id] = RowOf(a)]
  BY DEF MirrorAccount, RowOf
<1>2. /\ cfg \in Seq(Entries) /\ step \in Nat /\ mirror \in [Ids -> Rows \cup {NoRow}]
      /\ \A i \in DOMAIN cfg : cfg[i].user = email
  BY DEF MirrorInv, MirrorTypeOK
<1>3. n \in DOMAIN cfg /\ a \in Entries /\ a.id \in Ids /\ DOMAIN cfg = 1 .. Len(cfg) /\ Len(cfg) \in Nat
  BY <1>1, <1>2, CfgFacts
<1>4. CfgOk /\ Mirrored(step)
  BY DEF MirrorInv, MirrorOk
<1>5. RowOf(a) \in Rows
  BY <1>3, <1>4, RowOfType DEF CfgOk
<1>6. CfgOk' /\ Mirrored(step)'
  <2>1. \A i \in DOMAIN cfg : i <= n => mirror'[cfg[i].id] = RowOf(cfg[i])
    <3> SUFFICES ASSUME NEW i \in DOMAIN cfg, i <= n PROVE mirror'[cfg[i].id] = RowOf(cfg[i])
      OBVIOUS
    <3>0. cfg[i].id \in Ids
      BY <1>2, CfgFacts
    <3>1. CASE i = n
      BY <3>1, <1>1, <1>2, <1>3
    <3>2. CASE i # n
      <4>1. i <= step /\ cfg[i].id # a.id
        BY <3>2, <1>2, <1>3, <1>4 DEF CfgOk
      <4>2. mirror[cfg[i].id] = RowOf(cfg[i])
        BY <4>1, <1>4 DEF Mirrored
      <4> QED  BY <1>1, <1>2, <3>0, <4>1, <4>2
    <3> QED  BY <3>1, <3>2
  <2>2. \A x : RowOf(x)' = RowOf(x)
    BY DEF RowOf, FoldersOf
  <2> QED  BY <1>1, <1>4, <2>1, <2>2 DEF CfgOk, Mirrored, RowOf, FoldersOf
<1>7. MirrorTypeOK'
  <2>1. mirror' \in [Ids -> Rows \cup {NoRow}]
    BY <1>1, <1>2, <1>3, <1>5
  <2>2. step' \in 0 .. (Len(cfg) + Cardinality(Ids))
    <3>1. Cardinality(Ids) \in Nat
      BY AccountAssumption, FS_CardinalityType
    <3> QED  BY <1>1, <1>2, <1>3, <3>1
  <2> QED  BY <1>1, <2>1, <2>2 DEF MirrorInv, MirrorTypeOK
<1>8. step' <= Len(cfg') + Cardinality(Ids \ ActiveIds')
  <2>1. Cardinality(Ids \ ActiveIds') \in Nat
    BY InactiveFinite
  <2> QED  BY <1>1, <1>2, <1>3, <2>1
<1> QED
  BY <1>1, <1>6, <1>7, <1>8 DEF MirrorInv, MirrorOk, AfterReconcile

\* One row is made inactive: none of the configured ones, and one less is active.
LEMMA InactivateAccountStep ==
  ASSUME MirrorInv, pc = "reconcile", InactivateAccount, pc' = pc, schema' = schema
  PROVE  MirrorInv'
<1>1. PICK a \in StaleIds : mirror' = [mirror EXCEPT ![a].active = FALSE]
  BY DEF InactivateAccount
<1>2. step >= Len(cfg) /\ step' = step + 1 /\ file' = file /\ email' = email /\ cfg' = cfg
  BY DEF InactivateAccount
<1>3. /\ cfg \in Seq(Entries) /\ step \in Nat /\ mirror \in [Ids -> Rows \cup {NoRow}]
      /\ CfgOk /\ Mirrored(step) /\ step <= Len(cfg) + Cardinality(Ids \ ActiveIds)
  BY DEF MirrorInv, MirrorTypeOK, MirrorOk
<1>4. Len(cfg) \in Nat /\ \A i \in DOMAIN cfg : i <= step /\ cfg[i].id \in Ids /\ cfg[i].id # a
  BY <1>1, <1>2, <1>3, CfgFacts DEF StaleIds, Configured
<1>5. a \in Ids /\ a \in ActiveIds /\ mirror[a] \in Rows
  BY <1>1, <1>3 DEF StaleIds, ActiveIds
<1>6. mirror' \in [Ids -> Rows \cup {NoRow}] /\ mirror'[a].active = FALSE
      /\ \A b \in Ids : b # a => mirror'[b] = mirror[b]
  <2>1. [mirror[a] EXCEPT !.active = FALSE] \in Rows
    BY <1>5 DEF Rows
  <2> QED  BY <1>1, <1>3, <1>5, <2>1
<1>7. ActiveIds' = ActiveIds \ {a}
  BY <1>5, <1>6 DEF ActiveIds
<1>8. /\ Cardinality(Ids \ ActiveIds') = Cardinality(Ids \ ActiveIds) + 1
      /\ Cardinality(Ids \ ActiveIds) \in Nat /\ Cardinality(Ids) \in Nat
      /\ Cardinality(Ids \ ActiveIds') <= Cardinality(Ids)
  <2>1. Ids \ ActiveIds' = (Ids \ ActiveIds) \cup {a} /\ a \notin Ids \ ActiveIds
    BY <1>5, <1>7
  <2>2. IsFiniteSet(Ids \ ActiveIds) /\ Cardinality(Ids \ ActiveIds) \in Nat
    BY InactiveFinite
  <2>3. Cardinality(Ids \ ActiveIds') <= Cardinality(Ids) /\ Cardinality(Ids) \in Nat
    BY InactiveFinite
  <2> QED  BY <2>1, <2>2, <2>3, FS_AddElement
<1>9. Mirrored(step)' /\ CfgOk'
  <2>1. \A i \in DOMAIN cfg : mirror'[cfg[i].id] = RowOf(cfg[i])
    BY <1>3, <1>4, <1>6 DEF Mirrored
  <2> QED  BY <1>2, <1>3, <2>1 DEF Mirrored, CfgOk, RowOf, FoldersOf
<1>10. step' <= Len(cfg) + Cardinality(Ids \ ActiveIds') /\ step' \in 0 .. (Len(cfg) + Cardinality(Ids))
  BY <1>2, <1>3, <1>4, <1>8
<1>11. MirrorTypeOK'
  BY <1>2, <1>6, <1>10 DEF MirrorInv, MirrorTypeOK
<1> QED
  BY <1>2, <1>9, <1>10, <1>11 DEF MirrorInv, MirrorOk, AfterReconcile

\* A load of the configuration, and an empty one.
LEMMA FreshConfig ==
  ASSUME MirrorInv, file' \in Configs, email' \in Emails, mirror' = mirror, step' = 0,
         cfg' \in Seq(Entries), \A i \in DOMAIN cfg' : cfg'[i].user = email', CfgOk',
         pc' = "storage" \/ (pc' \in {"down", "config"} /\ cfg' = <<>>)
  PROVE  MirrorInv'
<1>1. Len(cfg') \in Nat /\ Cardinality(Ids) \in Nat /\ Cardinality(Ids \ ActiveIds') \in Nat
  <2>1. Len(cfg') \in Nat
    OBVIOUS
  <2>2. Cardinality(Ids \ ActiveIds') \in Nat
    BY InactiveFinite
  <2> QED  BY <2>1, <2>2, AccountAssumption, FS_CardinalityType
<1>2. MirrorTypeOK'
  BY <1>1 DEF MirrorInv, MirrorTypeOK
<1>3. MirrorOk'
  BY <1>1 DEF MirrorOk, AfterReconcile
<1> QED
  BY <1>2, <1>3 DEF MirrorInv

\* No step breaks the invariant of the mirror.
LEMMA MirrorNext ==
  ASSUME IInv, [Next]_vars
  PROVE  MirrorInv'
<1>0. MirrorInv /\ StageTypeOK
  BY DEF IInv, StageInv
<1>1. CASE Start
  <2>1. cfg = <<>> /\ step = 0
    BY <1>0, <1>1 DEF Start, To, MirrorInv, MirrorOk
  <2>2. cfg' = <<>> /\ step' = 0 /\ mirror' = mirror /\ file' \in Configs /\ email' \in Emails
        /\ pc' = "config"
    BY <1>1, <2>1 DEF Start, To
  <2>3. CfgOk' /\ cfg' \in Seq(Entries) /\ \A i \in DOMAIN cfg' : cfg'[i].user = email'
    BY <2>2 DEF CfgOk
  <2> QED  BY <1>0, <2>2, <2>3, FreshConfig
<1>2. CASE ReadConfig
  <2>1. /\ Validate(file) /\ cfg' = Partition(file, email) /\ step' = 0 /\ pc' = "storage"
        /\ file' = file /\ email' = email /\ mirror' = mirror /\ file \in Configs /\ email \in Emails
    BY <1>0, <1>2 DEF ReadConfig, LoadConfig, To, MirrorInv, MirrorTypeOK
  <2>2. cfg' \in Seq(Entries) /\ (\A i \in DOMAIN cfg' : cfg'[i].user = email') /\ CfgOk'
    BY <2>1, PartitionFacts DEF CfgOk
  <2> QED  BY <1>0, <2>1, <2>2, FreshConfig
<1>3. CASE Opened
  <2>1. /\ pc = "storage" /\ pc' = "reconcile" /\ schema' = schema /\ schema = Latest
        /\ file' = file /\ email' = email /\ cfg' = cfg /\ mirror' = mirror /\ step' = step
    BY <1>0, <1>3, ServeAssumption DEF Opened, To, OnlyPc, mirrorVars, StageTypeOK
  <2>2. step = 0 /\ cfg \in Seq(Entries)
    BY <1>0, <2>1 DEF MirrorInv, MirrorOk, MirrorTypeOK
  <2>3. Mirrored(step)'
    BY <2>1, <2>2, CfgFacts DEF Mirrored
  <2>4. MirrorTypeOK' /\ ActiveIds' = ActiveIds
    BY <1>0, <2>1 DEF MirrorInv, MirrorTypeOK, ActiveIds
  <2> QED  BY <1>0, <2>1, <2>3, <2>4 DEF MirrorInv, MirrorOk, CfgOk, AfterReconcile
<1>4. CASE ReconcileStep
  BY <1>0, <1>4, MirrorAccountStep, InactivateAccountStep DEF ReconcileStep, serveVars
<1>5. CASE ReconcileDone
  <2>1. /\ pc = "reconcile" /\ pc' = "weights" /\ schema' = schema
        /\ file' = file /\ email' = email /\ cfg' = cfg /\ mirror' = mirror /\ step' = step
        /\ step >= Len(cfg) /\ StaleIds = {}
    BY <1>5 DEF ReconcileDone, To, OnlyPc, mirrorVars, Reconciled
  <2>2. Mirrored(step) /\ schema = Latest /\ step \in Nat /\ cfg \in Seq(Entries) /\ CfgOk
    BY <1>0, <2>1 DEF MirrorInv, MirrorOk, MirrorTypeOK
  <2>3. Mirrored(Len(cfg))' /\ CfgOk'
    BY <2>1, <2>2, CfgFacts DEF Mirrored, CfgOk, RowOf, FoldersOf
  <2>4. ActiveIds' \subseteq Configured' /\ ActiveIds' = ActiveIds
    BY <2>1 DEF StaleIds, ActiveIds, Configured
  <2>5. MirrorTypeOK'
    BY <1>0, <2>1 DEF MirrorInv, MirrorTypeOK
  <2> QED  BY <1>0, <2>1, <2>2, <2>3, <2>4, <2>5 DEF MirrorInv, MirrorOk, AfterReconcile
<1>6. CASE Gone
  <2>1. cfg' = <<>> /\ step' = 0 /\ mirror' = mirror /\ file' = file /\ email' = email /\ pc' = "down"
    BY <1>6 DEF Gone
  <2>2. CfgOk' /\ cfg' \in Seq(Entries) /\ \A i \in DOMAIN cfg' : cfg'[i].user = email'
    BY <2>1 DEF CfgOk
  <2>3. file' \in Configs /\ email' \in Emails
    BY <1>0, <2>1 DEF MirrorInv, MirrorTypeOK
  <2> QED  BY <1>0, <2>1, <2>2, <2>3, FreshConfig
<1>7. CASE Migrate
  BY <1>0, <1>7, MirrorFrame DEF Migrate
<1>8. CASE EnsureWeights \/ OpenIndex \/ SpawnMcp \/ Sigterm \/ JoinMcp \/ JoinScheduler \/ JoinDrainer
  BY <1>0, <1>8, MirrorFrame
  DEF EnsureWeights, OpenIndex, SpawnMcp, Sigterm, JoinMcp, JoinScheduler, JoinDrainer, To, OnlyPc,
      AfterReconcile
<1>9. CASE FetchWeights \/ RunHelper \/ Supervise \/ DrainerEnds
  BY <1>0, <1>9, MirrorFrame DEF FetchWeights, RunHelper, Supervise, DrainerEnds, serveVars
<1>10. CASE Bind \/ BindFails \/ SessionBegins \/ SessionEnds \/ McpDrained
  BY <1>0, <1>10, MirrorFrame DEF Bind, BindFails, SessionBegins, SessionEnds, McpDrained, McpOnly
<1>11. CASE UNCHANGED vars
  BY <1>0, <1>11, MirrorFrame DEF vars, serveVars
<1> QED
  BY <1>1, <1>2, <1>3, <1>4, <1>5, <1>6, <1>7, <1>8, <1>9, <1>10, <1>11
  DEF Next, MainStep, Finish, Crash

(***************************************************************************)
(* The weights                                                             *)
(***************************************************************************)

\* Whatever the helper does, its variables keep their types.
LEMMA HelperType ==
  ASSUME WeightsTypeOK, FetchStep \/ FetchFault \/ FetchReturns
  PROVE  WeightsTypeOK'
<1> USE DEF WeightsTypeOK
<1>1. CASE FetchStart \/ FetchReturns
  BY <1>1 DEF FetchStart, FetchReturns, Fetch
<1>2. CASE Download \/ DownloadFails \/ VerifyHash \/ HashMismatch \/ ExtractFails
  BY <1>2 DEF Download, DownloadFails, VerifyHash, HashMismatch, ExtractFails, Fetch
<1>3. CASE ExtractBegin \/ ExtractEnd
  BY <1>3 DEF ExtractBegin, ExtractEnd
<1>4. CASE ExtractDone
  BY <1>4 DEF ExtractDone, Fetch
<1> QED
  BY <1>1, <1>2, <1>3, <1>4 DEF FetchStep, FetchFault

\* A helper that finds every file writes none.
LEMMA HelperIdle ==
  ASSUME Whole, fetch \in {"idle", "ok"}, FetchStep \/ FetchFault \/ FetchReturns
  PROVE  asset' = asset /\ fetch' \in {"idle", "ok"}
<1>1. AllPresent
  BY DEF Whole, AllPresent
<1>2. CASE FetchStart \/ FetchReturns
  BY <1>1, <1>2 DEF FetchStart, FetchReturns, Fetch
<1>3. FetchStart \/ FetchReturns
  BY DEF FetchStep, FetchFault, Download, DownloadFails, VerifyHash, HashMismatch, ExtractBegin,
         ExtractEnd, ExtractFails, ExtractDone, Fetch
<1> QED
  BY <1>2, <1>3

\* No step breaks the invariant of the assets.
LEMMA WeightsNext ==
  ASSUME IInv, [Next]_vars
  PROVE  WeightsInv'
<1>0. WeightsTypeOK /\ BundleOk
  BY DEF IInv, WeightsInv
<1>1. CASE UNCHANGED weightVars /\ (pc' = "index" => pc = "index") /\ (Spawned' => Spawned)
  BY <1>0, <1>1 DEF weightVars, WeightsInv, WeightsTypeOK, BundleOk, Whole
<1>2. CASE FetchWeights
  BY <1>0, <1>2, HelperType DEF FetchWeights, serveVars, WeightsInv, BundleOk, Spawned
<1>3. CASE RunHelper
  <2>1. WeightsTypeOK' /\ pc' = pc /\ pc \in {"down", "serving"}
    BY <1>0, <1>3, HelperType DEF RunHelper, serveVars
  <2>2. CASE pc = "down"
    BY <2>1, <2>2 DEF WeightsInv, BundleOk, Spawned
  <2>3. CASE pc = "serving"
    <3>1. Whole /\ fetch \in {"idle", "ok"}
      BY <1>0, <2>3 DEF BundleOk, Spawned
    <3>2. asset' = asset /\ fetch' \in {"idle", "ok"}
      BY <1>3, <3>1, HelperIdle DEF RunHelper
    <3>3. Whole'
      BY <3>1, <3>2 DEF Whole
    <3> QED  BY <2>1, <2>3, <3>2, <3>3 DEF WeightsInv, BundleOk
  <2> QED  BY <2>1, <2>2, <2>3
<1>4. CASE EnsureWeights
  BY <1>0, <1>4 DEF EnsureWeights, To, WeightsInv, WeightsTypeOK, BundleOk, Spawned
<1>5. CASE OpenIndex
  BY <1>0, <1>5 DEF OpenIndex, To, weightVars, WeightsInv, WeightsTypeOK, BundleOk, Whole
<1>6. CASE Gone
  BY <1>0, <1>6 DEF Gone, WeightsInv, WeightsTypeOK, BundleOk, Spawned
<1>7. CASE Start \/ ReadConfig \/ Migrate \/ Opened \/ ReconcileStep \/ ReconcileDone
  BY <1>1, <1>7 DEF Start, ReadConfig, Migrate, Opened, ReconcileStep, ReconcileDone, To, Outside,
                    serveVars, Spawned
<1>8. CASE SpawnMcp \/ Sigterm \/ JoinMcp \/ JoinScheduler \/ JoinDrainer
  BY <1>1, <1>8 DEF SpawnMcp, Sigterm, JoinMcp, JoinScheduler, JoinDrainer, To, Outside, Spawned
<1>9. CASE Supervise \/ Bind \/ BindFails \/ SessionBegins \/ SessionEnds \/ McpDrained \/ DrainerEnds
           \/ UNCHANGED vars
  BY <1>1, <1>9 DEF Supervise, Bind, BindFails, SessionBegins, SessionEnds, McpDrained, DrainerEnds,
                    McpOnly, Outside, vars, serveVars, Spawned
<1> QED
  BY <1>2, <1>3, <1>4, <1>5, <1>6, <1>7, <1>8, <1>9 DEF Next, MainStep, Finish, Crash

(***************************************************************************)
(* The supervisors                                                         *)
(***************************************************************************)

\* What the supervisors of a running scheduler are keyed by is left alone.
SupFrame == (~Spawned /\ ~Spawned') \/ (Spawned /\ Spawned' /\ DesiredKeys' = DesiredKeys)

\* A step of the task of k keeps it a task, or no task, and touches nobody else's.
LEMMA TaskStays ==
  ASSUME SupervisorsTypeOK, NEW k \in Keys, SupervisorStep(k) \/ ServerAnswers(k)
  PROVE  /\ \A q \in Keys : sup'[q] = "none" <=> sup[q] = "none"
         /\ \A q \in Keys : q # k => /\ sup'[q] = sup[q] /\ err'[q] = err[q]
                                     /\ health'[q] = health[q] /\ verdict'[q] = verdict[q]
         /\ Running(k)
         /\ handles' = handles /\ shutdown' = shutdown
<1> USE DEF SupervisorsTypeOK, Goes, Running
<1>1. CASE LoopHead(k) \/ PauseElapses(k) \/ PauseStopped(k)
  BY <1>1 DEF LoopHead, PauseElapses, PauseStopped
<1>2. CASE LoginAccepted(k) \/ LoginFails(k) \/ SessionStops(k) \/ SessionLost(k)
  BY <1>2 DEF LoginAccepted, LoginFails, SessionStops, SessionLost
<1>3. CASE ReportAccepted(k)
  BY <1>3 DEF ReportAccepted, UpdateHealth, MadeRow
<1>4. CASE Report(k)
  BY <1>4 DEF Report, UpdateHealth, MadeRow
<1> QED
  BY <1>1, <1>2, <1>3, <1>4 DEF SupervisorStep, ServerAnswers

\* What update_sync_state leaves in the row of k.
LEMMA UpdateHealthFacts ==
  ASSUME SupervisorsTypeOK, NEW k \in Keys, NEW h, UpdateHealth(k, h)
  PROVE  /\ health' \in [Keys -> KnownHealth \cup {NoRow}]
         /\ verdict' \in [Keys -> {"none", "active", "auth-rejected", "failed"}]
         /\ verdict'[k] # "none" => /\ verdict'[k] = verdict[k]
                                    /\ h \in KnownHealth => health'[k] = h
<1> USE DEF SupervisorsTypeOK
<1>1. Stored(k, h) \in KnownHealth
  BY DEF Stored, KnownHealth
<1>2. MadeRow(k) \in [Keys -> KnownHealth \cup {NoRow}]
  BY DEF MadeRow, KnownHealth
<1>3. CASE /\ health' = [health EXCEPT ![k] = Stored(k, h)]
           /\ UNCHANGED verdict
  BY <1>1, <1>3 DEF Stored
<1>4. CASE /\ health' \in {health, MadeRow(k)}
           /\ verdict' = [verdict EXCEPT ![k] = "none"]
  BY <1>2, <1>4
<1> QED
  BY <1>3, <1>4 DEF UpdateHealth

\* The health of the row follows the LOGINs, whatever the task does next.
LEMMA TaskHealth ==
  ASSUME SupervisorsTypeOK, NEW k \in Keys, SupervisorStep(k) \/ ServerAnswers(k), HealthOk(k)
  PROVE  SupervisorsTypeOK' /\ HealthOk(k)'
<1> USE DEF SupervisorsTypeOK, Goes, HealthOk
<1>1. CASE LoopHead(k) \/ PauseElapses(k) \/ PauseStopped(k)
  BY <1>1 DEF LoopHead, PauseElapses, PauseStopped, Forgotten
<1>2. CASE LoginAccepted(k)
  BY <1>2 DEF LoginAccepted
<1>3. CASE LoginFails(k)
  BY <1>3 DEF LoginFails, LoginErrors
<1>4. CASE SessionStops(k) \/ SessionLost(k)
  BY <1>4 DEF SessionStops, SessionLost, LoginErrors
<1>5. CASE ReportAccepted(k)
  <2>1. UpdateHealth(k, "active") /\ "active" \in KnownHealth
    BY <1>5 DEF ReportAccepted, KnownHealth
  <2> QED  BY <1>5, <2>1, UpdateHealthFacts DEF ReportAccepted
<1>6. CASE Report(k)
  <2>1. UpdateHealth(k, HealthOf(err[k])) /\ sup[k] = "report"
    BY <1>6 DEF Report
  <2>2. /\ err[k] = "Ok" => HealthOf(err[k]) = "active"
        /\ err[k] = "AuthRejected" => HealthOf(err[k]) = "auth-rejected"
        /\ {"active", "auth-rejected"} \subseteq KnownHealth
    BY DEF HealthOf, KnownHealth
  <2>3. verdict'[k] \notin {"none", "failed"} => health'[k] = verdict'[k]
    BY <2>1, <2>2, UpdateHealthFacts
  <2>4. /\ health' \in [Keys -> KnownHealth \cup {NoRow}]
        /\ verdict' \in [Keys -> {"none", "active", "auth-rejected", "failed"}]
    BY <2>1, UpdateHealthFacts
  <2> QED  BY <1>6, <2>3, <2>4 DEF Report
<1> QED
  BY <1>1, <1>2, <1>3, <1>4, <1>5, <1>6 DEF SupervisorStep, ServerAnswers

\* Which keys start spawns a task for, account by account.
LEMMA DesiredKeysFacts ==
  ASSUME cfg \in Seq(Entries), CfgOk
  PROVE  /\ DesiredKeys \subseteq Keys
         /\ \A k : k \in DesiredKeys <=>
              \E i \in DOMAIN cfg : \E j \in DOMAIN FoldersOf(cfg[i]) :
                j <= MaxConnections /\ k = <<cfg[i].id, FoldersOf(cfg[i])[j]>>
<1>1. ASSUME NEW i \in DOMAIN cfg, NEW j \in DOMAIN FoldersOf(cfg[i])
      PROVE  <<cfg[i].id, FoldersOf(cfg[i])[j]>> \in Keys
  <2>1. cfg[i] \in Entries /\ cfg[i].id \in Ids /\ cfg[i].folders # <<>>
    BY CfgFacts DEF CfgOk
  <2>2. FoldersOf(cfg[i]) \in Seq(Folders)
    BY <2>1, FoldersOfType
  <2> QED  BY <2>1, <2>2 DEF Keys
<1>2. \A k : k \in DesiredKeys <=>
              \E i \in DOMAIN cfg : \E j \in DOMAIN FoldersOf(cfg[i]) :
                j <= MaxConnections /\ k = <<cfg[i].id, FoldersOf(cfg[i])[j]>>
  BY DEF DesiredKeys
<1> QED
  BY <1>1, <1>2

\* No step breaks the invariant of the supervisors.
LEMMA SupNext ==
  ASSUME IInv, [Next]_vars
  PROVE  SupInv'
<1>0. SupervisorsTypeOK /\ SupOk /\ \A k \in Keys : HealthOk(k)
  BY DEF IInv, SupInv
<1>1. CASE UNCHANGED supVars /\ SupFrame
  <2>1. sup' = sup /\ err' = err /\ health' = health /\ verdict' = verdict /\ handles' = handles
        /\ shutdown' = shutdown
    BY <1>1 DEF supVars
  <2>2. SupervisorsTypeOK' /\ \A k \in Keys : HealthOk(k)'
    BY <1>0, <2>1 DEF SupervisorsTypeOK, HealthOk
  <2>3. SupOk'
    BY <1>0, <1>1, <2>1 DEF SupOk, SupFrame
  <2> QED  BY <2>2, <2>3 DEF SupInv
<1>2. CASE OpenIndex
  <2>1. /\ ~Spawned /\ cfg' = cfg /\ err' = err /\ health' = health /\ verdict' = verdict
        /\ handles' = DesiredKeys /\ shutdown' = FALSE /\ DesiredKeys' = DesiredKeys
        /\ sup' = [k \in Keys |-> IF k \in DesiredKeys THEN "check" ELSE "none"]
    BY <1>2 DEF OpenIndex, To, SchedulerStart, mirrorVars, Spawned, DesiredKeys, FoldersOf
  <2>2. DesiredKeys \subseteq Keys
    BY DesiredKeysFacts DEF IInv, MirrorInv, MirrorTypeOK, MirrorOk
  <2>3. SupervisorsTypeOK'
    BY <1>0, <2>1, <2>2 DEF SupervisorsTypeOK
  <2>4. SupOk'
    BY <2>1, <1>2 DEF SupOk, OpenIndex, To, Spawned
  <2>5. \A k \in Keys : HealthOk(k)'
    BY <1>0, <2>1 DEF SupOk, HealthOk
  <2> QED  BY <2>3, <2>4, <2>5 DEF SupInv
<1>3. CASE JoinMcp
  <2>1. /\ sup' = sup /\ err' = err /\ health' = health /\ verdict' = verdict
        /\ handles' = {} /\ shutdown' = TRUE /\ cfg' = cfg /\ Spawned /\ Spawned'
    BY <1>3 DEF JoinMcp, SignalSupervisors, To, mirrorVars, Spawned
  <2>2. SupervisorsTypeOK' /\ \A k \in Keys : HealthOk(k)'
    BY <1>0, <2>1 DEF SupervisorsTypeOK, HealthOk
  <2>3. DesiredKeys' = DesiredKeys
    BY <2>1 DEF DesiredKeys, FoldersOf
  <2>4. SupOk'
    BY <1>0, <2>1, <2>3 DEF SupOk
  <2> QED  BY <2>2, <2>4 DEF SupInv
<1>4. CASE Gone
  <2>1. SupervisorsGone /\ ~Spawned'
    BY <1>4 DEF Gone, Spawned
  <2>2. SupervisorsTypeOK'
    BY <1>0, <2>1 DEF SupervisorsGone, SupervisorsTypeOK, Forgotten
  <2>3. SupOk'
    BY <2>1 DEF SupOk, SupervisorsGone
  <2>4. \A k \in Keys : HealthOk(k)'
    BY <1>0, <2>1 DEF SupervisorsGone, SupervisorsTypeOK, HealthOk, Forgotten
  <2> QED  BY <2>2, <2>3, <2>4 DEF SupInv
<1>5. CASE Supervise
  <2>1. PICK k \in Keys : SupervisorStep(k) \/ ServerAnswers(k)
    BY <1>5 DEF Supervise
  <2>2. SupervisorsTypeOK' /\ HealthOk(k)'
    BY <1>0, <2>1, TaskHealth
  <2>3. \A q \in Keys : HealthOk(q)'
    BY <1>0, <2>1, <2>2, TaskStays DEF HealthOk
  <2>4. pc' = pc /\ cfg' = cfg
    BY <1>5 DEF Supervise, mirrorVars, serveVars
  <2>5. DesiredKeys' = DesiredKeys /\ Spawned' = Spawned
    BY <2>4 DEF DesiredKeys, FoldersOf, Spawned
  <2>6. SupOk'
    BY <1>0, <2>1, <2>5, TaskStays DEF SupOk
  <2> QED  BY <2>2, <2>3, <2>6 DEF SupInv
<1>6. cfg' = cfg => DesiredKeys' = DesiredKeys
  BY DEF DesiredKeys, FoldersOf
<1>7. CASE Start \/ ReadConfig \/ Migrate \/ Opened \/ ReconcileStep \/ ReconcileDone \/ EnsureWeights
           \/ FetchWeights
  <2>1. UNCHANGED supVars /\ ~Spawned /\ ~Spawned'
    BY <1>7 DEF Start, ReadConfig, Migrate, Opened, ReconcileStep, ReconcileDone, EnsureWeights,
                FetchWeights, To, Outside, Spawned, serveVars
  <2> QED  BY <1>1, <2>1 DEF SupFrame
<1>8. CASE SpawnMcp \/ Sigterm \/ JoinScheduler \/ JoinDrainer
  <2>1. UNCHANGED supVars /\ Spawned /\ Spawned' /\ cfg' = cfg
    BY <1>8 DEF SpawnMcp, Sigterm, JoinScheduler, JoinDrainer, To, Outside, Spawned, mirrorVars
  <2> QED  BY <1>1, <1>6, <2>1 DEF SupFrame
<1>9. CASE RunHelper \/ Bind \/ BindFails \/ SessionBegins \/ SessionEnds \/ McpDrained \/ DrainerEnds
           \/ UNCHANGED vars
  <2>1. UNCHANGED supVars /\ pc' = pc /\ cfg' = cfg
    BY <1>9 DEF RunHelper, Bind, BindFails, SessionBegins, SessionEnds, McpDrained, McpOnly, DrainerEnds,
                Outside, mirrorVars, vars, serveVars
  <2> QED  BY <1>1, <1>6, <2>1 DEF SupFrame, Spawned
<1> QED
  BY <1>2, <1>3, <1>4, <1>5, <1>7, <1>8, <1>9 DEF Next, MainStep, Finish, Crash

(***************************************************************************)
(* The stages                                                              *)
(***************************************************************************)

\* No step breaks the order in which the parts come up and end.
LEMMA StageNext ==
  ASSUME IInv, [Next]_vars
  PROVE  StageInv'
<1>0. StageTypeOK /\ StageOk /\ SupervisorsTypeOK
  BY DEF IInv, StageInv, SupInv
<1> USE DEF StageInv, StageTypeOK, StageOk, Spawned, To, OnlyPc
<1>1. CASE Start \/ ReadConfig \/ Migrate \/ Opened \/ ReconcileDone \/ EnsureWeights
  BY <1>0, <1>1, ServeAssumption DEF Start, ReadConfig, Migrate, Opened, ReconcileDone, EnsureWeights
<1>2. CASE ReconcileStep \/ FetchWeights \/ RunHelper
  BY <1>0, <1>2 DEF ReconcileStep, FetchWeights, RunHelper, Outside, serveVars, supVars, Running
<1>3. CASE OpenIndex
  <2>1. StageTypeOK' /\ ~token' /\ pc' = "spawn" /\ drainer' = "running"
    BY <1>0, <1>3 DEF OpenIndex
  <2>2. mcp' = "none" /\ sessions' = 0
    BY <1>0, <1>3 DEF OpenIndex
  <2> QED  BY <2>1, <2>2
<1>11. CASE SpawnMcp
  BY <1>0, <1>11 DEF SpawnMcp
<1>12. CASE Sigterm
  BY <1>0, <1>12 DEF Sigterm
<1>4. CASE JoinMcp
  BY <1>0, <1>4 DEF JoinMcp
<1>5. CASE JoinScheduler
  BY <1>0, <1>5 DEF JoinScheduler, Joined, Running, Outside, supVars
<1>6. CASE JoinDrainer \/ DrainerEnds
  BY <1>0, <1>6 DEF JoinDrainer, DrainerEnds, Outside, supVars, Running
<1>7. CASE Gone
  <2>1. /\ pc' = "down" /\ mcp' = "none" /\ sessions' = 0 /\ drainer' = "none"
        /\ schema' = schema /\ starts' = starts
    BY <1>7 DEF Gone
  <2>2. token' = FALSE /\ cancelled' = FALSE
    BY <1>7 DEF Gone
  <2>3. ~token' /\ token' \in BOOLEAN /\ cancelled' \in BOOLEAN
    BY <2>2
  <2> QED  BY <1>0, <2>1, <2>3, ServeAssumption
<1>8. CASE Supervise
  <2>1. PICK k \in Keys : SupervisorStep(k) \/ ServerAnswers(k)
    BY <1>8 DEF Supervise
  <2>2. Running(k)
    BY <1>0, <2>1, TaskStays
  <2>3. UNCHANGED serveVars
    BY <1>8 DEF Supervise
  <2> QED  BY <1>0, <2>2, <2>3 DEF serveVars
<1>9. CASE Bind \/ BindFails \/ SessionBegins \/ SessionEnds \/ McpDrained
  BY <1>0, <1>9, ServeAssumption
  DEF Bind, BindFails, SessionBegins, SessionEnds, McpDrained, Mcp, McpOnly, Outside, supVars, Running
<1>10. CASE UNCHANGED vars
  BY <1>0, <1>10 DEF vars, serveVars, supVars, Running
<1> QED
  BY <1>1, <1>2, <1>3, <1>4, <1>5, <1>6, <1>7, <1>8, <1>9, <1>10, <1>11, <1>12
  DEF Next, MainStep, Finish, Crash

(***************************************************************************)
(* The theorems                                                            *)
(***************************************************************************)

\* The first start of a new installation.
LEMMA InitIInv == Init => IInv
<1> SUFFICES ASSUME Init PROVE IInv
  OBVIOUS
<1>1. /\ file \in Configs /\ email \in Emails /\ cfg = <<>> /\ step = 0
      /\ mirror = [a \in Ids |-> NoRow] /\ pc = "down"
  BY DEF Init, MirrorInit
<1>2. MirrorInv
  <2>1. Cardinality(Ids) \in Nat /\ Cardinality(Ids \ ActiveIds) \in Nat
    BY InactiveFinite
  <2>2. cfg \in Seq(Entries) /\ Len(cfg) = 0 /\ DOMAIN cfg = {}
    BY <1>1
  <2> QED  BY <1>1, <2>1, <2>2 DEF MirrorInv, MirrorTypeOK, MirrorOk, CfgOk, AfterReconcile
<1>3. WeightsInv
  BY DEF Init, WeightsInit, WeightsInv, WeightsTypeOK, BundleOk, Spawned
<1>4. SupInv
  BY DEF Init, SupervisorsInit, SupInv, SupervisorsTypeOK, SupOk, HealthOk, Spawned
<1>5. StageInv
  <2>1. /\ pc = "down" /\ schema = 0 /\ starts = 0 /\ mcp = "none" /\ sessions = 0
        /\ drainer = "none" /\ ~token /\ token \in BOOLEAN /\ cancelled \in BOOLEAN
    BY DEF Init
  <2> QED  BY <2>1, ServeAssumption DEF StageInv, StageTypeOK, StageOk, Spawned
<1> QED
  BY <1>2, <1>3, <1>4, <1>5 DEF IInv

\* The four invariants hold always.
LEMMA SpecIInv == Spec => []IInv
<1>1. IInv /\ [Next]_vars => IInv'
  BY MirrorNext, WeightsNext, SupNext, StageNext DEF IInv
<1> QED
  BY <1>1, InitIInv, PTL DEF Spec

\* The tasks of an account are for its first MaxConnections folders: a cap on its
\* connections that does not depend on which tasks are running.
LEMMA ConnectionBound ==
  ASSUME IInv
  PROVE  ConnectionsCapped
<1> SUFFICES ASSUME NEW a \in Ids
             PROVE  Cardinality({k \in Keys : k[1] = a /\ Running(k)}) <= MaxConnections
  BY DEF ConnectionsCapped
<1> DEFINE T == {k \in Keys : k[1] = a /\ Running(k)}
<1>0. /\ cfg \in Seq(Entries) /\ CfgOk /\ SupOk /\ MaxConnections \in Nat
  BY SupervisorAssumption DEF IInv, MirrorInv, MirrorTypeOK, MirrorOk, SupInv
<1>1. \A k \in T : k \in DesiredKeys /\ k[1] = a
  BY <1>0 DEF SupOk, Running
<1>2. CASE T = {}
  <2> HIDE DEF T
  <2>1. Cardinality(T) = 0
    BY <1>2, FS_EmptySet
  <2> QED  BY <1>0, <2>1 DEF T
<1>3. CASE T # {}
  <2>1. PICK i \in DOMAIN cfg : cfg[i].id = a
    BY <1>0, <1>1, <1>3, DesiredKeysFacts
  <2> DEFINE fs == FoldersOf(cfg[i])
             J == {n \in DOMAIN fs : n <= MaxConnections}
             g == [n \in J |-> <<a, fs[n]>>]
             R == {<<a, fs[n]>> : n \in J}
  <2>2. T \in SUBSET R
    <3> SUFFICES ASSUME NEW k \in T PROVE k \in R
      OBVIOUS
    <3>1. PICK m \in DOMAIN cfg : \E j \in DOMAIN FoldersOf(cfg[m]) :
                j <= MaxConnections /\ k = <<cfg[m].id, FoldersOf(cfg[m])[j]>>
      BY <1>0, <1>1, DesiredKeysFacts
    <3>2. cfg[m].id = a
      BY <1>1, <3>1
    <3>3. m = i
      BY <1>0, <2>1, <3>2 DEF CfgOk
    <3> QED  BY <3>1, <3>2, <3>3
  <2>3. J \in SUBSET (1 .. MaxConnections)
    <3>1. cfg[i] \in Entries /\ cfg[i].folders # <<>>
      BY <1>0, CfgFacts DEF CfgOk
    <3>2. fs \in Seq(Folders)
      BY <3>1, FoldersOfType
    <3> HIDE DEF fs
    <3> QED  BY <1>0, <3>2
  <2>4. IsFiniteSet(J) /\ Cardinality(J) <= MaxConnections /\ Cardinality(J) \in Nat
    <3>1. IsFiniteSet(1 .. MaxConnections) /\ Cardinality(1 .. MaxConnections) = MaxConnections
      BY <1>0, FS_Interval
    <3> HIDE DEF J
    <3>2. IsFiniteSet(J) /\ Cardinality(J) <= Cardinality(1 .. MaxConnections)
      BY <2>3, <3>1, FS_Subset
    <3> QED  BY <3>1, <3>2, FS_CardinalityType
  <2>5. g \in Surjection(J, R)
    <3>1. g \in [J -> R] /\ \A t \in R : \E n \in J : g[n] = t
      BY Zenon
    <3> HIDE DEF g, J, R
    <3> QED  BY <3>1, Fun_IsSurj
  <2> HIDE DEF g, J, R, T
  <2>6. IsFiniteSet(R) /\ Cardinality(R) <= Cardinality(J) /\ Cardinality(R) \in Nat
    BY <2>4, <2>5, FS_Surjection, FS_CardinalityType
  <2>7. Cardinality(T) <= Cardinality(R) /\ Cardinality(T) \in Nat
    BY <2>2, <2>6, FS_Subset, FS_CardinalityType
  <2> QED  BY <1>0, <2>4, <2>6, <2>7 DEF T
<1> QED
  BY <1>2, <1>3

\* Every variable keeps its type, and no account ever has more connections than
\* MAX_CONNECTIONS_PER_ACCOUNT, whatever the configuration and the servers do.
THEOREM TypeCorrect == Spec => []TypeOK
<1>1. IInv => TypeOK
  BY ConnectionBound DEF IInv, MirrorInv, WeightsInv, SupInv, StageInv, StageTypeOK, TypeOK
<1> QED
  BY <1>1, SpecIInv, PTL

\* What the mirror holds once reconcile_from_config is through.
LEMMA MirrorOfConfig ==
  ASSUME IInv, Spawned
  PROVE  MirrorExact
<1>0. /\ cfg \in Seq(Entries) /\ CfgOk /\ SupOk /\ pc \in AfterReconcile
      /\ \A i \in DOMAIN cfg : cfg[i].user = email
  BY DEF IInv, MirrorInv, MirrorTypeOK, MirrorOk, SupInv, Spawned, AfterReconcile
<1>1. schema = Latest /\ Mirrored(Len(cfg)) /\ ActiveIds \subseteq Configured
  BY <1>0 DEF IInv, MirrorInv, MirrorOk
<1>2. \A i \in DOMAIN cfg :
        /\ cfg[i].id \in Ids /\ mirror[cfg[i].id] = RowOf(cfg[i]) /\ RowOf(cfg[i]) # NoRow
        /\ FoldersOf(cfg[i]) \in Seq(Folders) /\ FoldersOf(cfg[i]) # <<>>
  <2> SUFFICES ASSUME NEW i \in DOMAIN cfg
               PROVE  /\ cfg[i].id \in Ids /\ mirror[cfg[i].id] = RowOf(cfg[i]) /\ RowOf(cfg[i]) # NoRow
                      /\ FoldersOf(cfg[i]) \in Seq(Folders) /\ FoldersOf(cfg[i]) # <<>>
    OBVIOUS
  <2>1. cfg[i] \in Entries /\ cfg[i].id \in Ids /\ i <= Len(cfg) /\ cfg[i].folders # <<>>
    BY <1>0, CfgFacts DEF CfgOk
  <2> QED  BY <1>1, <2>1, FoldersOfType, RowOfType DEF Mirrored
<1>3. \A i \in DOMAIN cfg : /\ mirror[cfg[i].id].active = TRUE /\ mirror[cfg[i].id].user = cfg[i].user
                            /\ mirror[cfg[i].id].folders = FoldersOf(cfg[i])
  <2>1. \A a : RowOf(a).active = TRUE /\ RowOf(a).user = a.user /\ RowOf(a).folders = FoldersOf(a)
    BY DEF RowOf
  <2> QED  BY <1>2, <2>1
<1>4. Configured \subseteq ActiveIds
  BY <1>2, <1>3 DEF Configured, ActiveIds
<1>5. Owned = Configured
  <2>1. ActiveIds = Configured /\ Owned \subseteq ActiveIds
    BY <1>1, <1>4 DEF Owned
  <2>2. \A a \in Configured : mirror[a].user = email
    BY <1>0, <1>3 DEF Configured
  <2> QED  BY <2>1, <2>2 DEF Owned
<1>6. \A k \in Keys : sup[k] # "none" => k[1] \in Configured
  BY <1>0, DesiredKeysFacts DEF SupOk, Configured
<1>7. \A a \in Configured : sup[<<a, Primary(a)>>] # "none"
  <2> SUFFICES ASSUME NEW i \in DOMAIN cfg PROVE sup[<<cfg[i].id, Primary(cfg[i].id)>>] # "none"
    BY DEF Configured
  <2>1. Primary(cfg[i].id) = Head(FoldersOf(cfg[i]))
    BY <1>2, <1>3 DEF Primary
  <2>2. Head(FoldersOf(cfg[i])) = FoldersOf(cfg[i])[1] /\ 1 \in DOMAIN FoldersOf(cfg[i])
    BY <1>2
  <2>3. 1 <= MaxConnections
    BY SupervisorAssumption
  <2>4. <<cfg[i].id, Primary(cfg[i].id)>> \in DesiredKeys
    BY <1>0, <2>1, <2>2, <2>3, DesiredKeysFacts
  <2>5. <<cfg[i].id, Primary(cfg[i].id)>> \in Keys
    BY <1>0, <2>4, DesiredKeysFacts
  <2> QED  BY <1>0, <2>4, <2>5 DEF SupOk
<1> QED
  BY <1>1, <1>4, <1>5, <1>6, <1>7 DEF MirrorExact

\* From the first supervisor on, the accounts that the tools may read are exactly
\* the configured ones, whatever sequence of files, logins and crashes came before.
THEOREM MirrorIsExact == Spec => []MirrorExact
<1>1. IInv => MirrorExact
  BY MirrorOfConfig DEF MirrorExact
<1> QED
  BY <1>1, SpecIInv, PTL

\* No helper that is run again writes to the files a running daemon has loaded, for
\* any set of files and whatever fetches, crashes and starts came before: every start
\* that got as far as its index found them whole, and the helper's own test of the
\* files keeps it from unpacking.
THEOREM BundleIsKept == Spec => []BundleKept
<1>1. IInv => BundleKept
  BY DEF IInv, WeightsInv, BundleOk, BundleKept
<1> QED
  BY <1>1, SpecIInv, PTL

\* The answer to the last LOGIN is what the stored health says, once reported, for any
\* accounts and folders and across restarts.
THEOREM LoginsShow == Spec => []LoginShows
<1>1. IInv => LoginShows
  BY DEF IInv, SupInv, HealthOk, LoginShows
<1> QED
  BY <1>1, SpecIInv, PTL

\* The drainer ends after every supervisor, and a run that finishes has ended all
\* its tasks.
THEOREM StopsInOrder == Spec => []StopOrder
<1>1. IInv => StopOrder
  BY DEF IInv, StageInv, StageOk, StopOrder
<1> QED
  BY <1>1, SpecIInv, PTL
=============================================================================
