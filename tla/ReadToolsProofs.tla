--------------------------- MODULE ReadToolsProofs ---------------------------
(***************************************************************************)
(* Theorems about ReadTools, for any accounts, messages, reference graphs, *)
(* scores and queries, and any number of messages in the store.            *)
(***************************************************************************)
EXTENDS ReadTools, Extrema, FunctionTheorems, SequenceTheorems, TLAPS

(***************************************************************************)
(* The inductive invariant                                                 *)
(***************************************************************************)

\* The archive is finite, and only stored messages have documents.
StoreOk ==
  /\ IsFiniteSet(docs) /\ IsFiniteSet(seen)
  /\ \A d \in docs \cup seen : d[1] \in rows

\* A search that reads the index or rows has a scope, inside what the user may
\* read, and has collected only stored messages of that scope.
ScopeOk ==
  /\ scoped \subseteq AllowedAccountIds
  /\ pc \in {"index", "rows"} => scoped # {}
  /\ pc # "idle" => query \in Queries
  /\ pc \in {"idle", "index"} \/ scoped = {} => out = <<>> /\ hits = <<>>
  /\ \A m \in ToSet(out) : m \in rows /\ Account(m) \in scoped

\* Message m was asked for and is in the index the search read.
Wanted(m) == SeenScore(m) > 0 /\ FilterMatch(m, query, scoped)

\* At least K other messages rank as high as m.
Crowded(m) ==
  Cardinality({x \in Mails \ {m} : SeenScore(x) >= SeenScore(m)}) >= K(query)

\* No message twice, best first.
Ordered(s) ==
  \A i, j \in DOMAIN s : i < j => s[i] # s[j] /\ SeenScore(s[i]) >= SeenScore(s[j])

\* How far the loop over the hits has come: what it has collected and what it has
\* still to read are one ranking, which lacks only crowded-out messages.
SearchOk ==
  pc \in {"rows", "done"} /\ scoped # {} =>
    /\ Len(out) <= Limit(query)
    /\ Ordered(out) /\ Ordered(hits)
    /\ \A i \in DOMAIN out, j \in DOMAIN hits :
         out[i] # hits[j] /\ SeenScore(out[i]) >= SeenScore(hits[j])
    /\ \A m \in ToSet(out) : Wanted(m)
    /\ \A m \in ToSet(hits) : m \in rows /\ SeenScore(m) > 0
    /\ \A m \in Mails : Wanted(m) => m \in ToSet(out) \cup ToSet(hits) \/ Crowded(m)
    /\ pc = "done" => hits = <<>> \/ Len(out) = Limit(query)

IInv ==
  /\ TypeOK /\ StoreOk /\ ScopeOk
  /\ ScopeHeld /\ GivenIdsStayGood /\ ThreadRooted

(***************************************************************************)
(* Operators of the model                                                  *)
(***************************************************************************)

\* The clamped limit and the size of the pool are positive.
LEMMA LimitType ==
  ASSUME NEW q \in Queries
  PROVE  Limit(q) \in Nat \ {0} /\ K(q) \in Nat \ {0}
<1>1. Limit(q) \in 1 .. LimitMax
  BY ReadAssumption DEF Limit
<1>2. Limit(q) * KMultiplier \in Nat
  BY <1>1, ReadAssumption
<1> QED
  BY <1>1, <1>2, ReadAssumption DEF K

\* The headers resolve_thread_id looks up, in order.
LEMMA CandidatesType ==
  ASSUME NEW h \in Headers
  PROVE  Candidates(h) \in Seq(Headers)
<1>1. References[h] \in Seq(Headers) /\ InReplyTo[h] \in Headers \cup {None}
  BY ReadAssumption
<1>2. Reverse(References[h]) \in Seq(Headers)
  BY <1>1 DEF Reverse
<1> QED
  BY <1>1, <1>2 DEF Candidates

\* resolve_thread_id either finds no candidate in the table and starts a thread,
\* or joins the thread of a candidate with a row of the same account.
LEMMA ResolveThreadIdCases ==
  ASSUME NEW m \in Mails
  PROVE  \/ ResolveThreadId(m) = m
         \/ \E h \in Headers : /\ Contains(Candidates(m[2]), h)
                               /\ <<Account(m), h>> \in rows
                               /\ ResolveThreadId(m) = thread[<<Account(m), h>>]
<1> DEFINE c == Candidates(m[2])
           I == {i \in 1 .. Len(c) : <<Account(m), c[i]>> \in rows}
           i == SelectInSeq(c, LAMBDA h : <<Account(m), h>> \in rows)
<1>1. c \in Seq(Headers)
  BY CandidatesType, ReadAssumption
<1>2. i = IF I # {} THEN Min(I) ELSE 0
  BY DEF SelectInSeq
<1>3. CASE I = {}
  BY <1>2, <1>3 DEF ResolveThreadId
<1>4. CASE I # {}
  <2>1. I \in SUBSET Nat
    BY <1>1
  <2>2. \E x \in I : \A y \in I : x <= y
    <3> HIDE DEF I
    <3> QED  BY <2>1, <1>4, NatMin
  <2>3. Min(I) \in I
    <3> HIDE DEF I
    <3> QED  BY <2>2 DEF Min
  <2>4. i \in I
    BY <1>2, <1>4, <2>3
  <2>5. i # 0 /\ i \in 1 .. Len(c) /\ <<Account(m), c[i]>> \in rows /\ c[i] \in Headers
    BY <1>1, <2>4
  <2>6. ResolveThreadId(m) = thread[<<Account(m), c[i]>>]
    BY <2>5 DEF ResolveThreadId
  <2>7. Contains(c, c[i])
    BY <2>5 DEF Contains
  <2> QED  BY <2>5, <2>6, <2>7
<1> QED
  BY <1>3, <1>4

(***************************************************************************)
(* One step of each action                                                 *)
(***************************************************************************)

\* What the index returns for a search: a ranking without repetition of messages
\* that have a matching document.
LEMMA RankedType ==
  ASSUME TypeOK, StoreOk, NEW n,
         NEW R \in Best(Matching, n), NEW s \in Ranked(R)
  PROVE  /\ R \subseteq docs /\ IsFiniteSet(R) /\ IsFiniteSet({d[1] : d \in R})
         /\ {d[1] : d \in R} \subseteq Mails
         /\ s \in Seq({d[1] : d \in R}) /\ Len(s) = Cardinality({d[1] : d \in R})
         /\ \A i, j \in 1 .. Len(s) : i # j => s[i] # s[j]
<1> DEFINE M == {d[1] : d \in R}
<1>1. R \subseteq docs
  BY DEF Best, Matching
<1>2. IsFiniteSet(R)
  BY <1>1, FS_Subset DEF StoreOk
<1>3. IsFiniteSet(M)
  <2> DEFINE f == [d \in R |-> d[1]]
  <2>1. f \in Surjection(R, M)
    BY Fun_IsSurj
  <2> HIDE DEF f, M
  <2> QED  BY <2>1, <1>2, FS_Surjection
<1>4. M \subseteq Mails
  BY <1>1 DEF TypeOK, Docs
<1>5. Cardinality(M) \in Nat
  BY <1>3, FS_CardinalityType
<1>6. s \in [1 .. Cardinality(M) -> M] /\ \A i, j \in 1 .. Cardinality(M) : i # j => s[i] # s[j]
  BY DEF Ranked, SetToSeqs
<1>7. s \in Seq(M) /\ Len(s) = Cardinality(M)
  <2> HIDE DEF M
  <2> QED  BY <1>5, <1>6
<1> QED
  BY <1>1, <1>2, <1>3, <1>4, <1>6, <1>7

\* A first fetch puts the message in a thread with the properties of
\* ThreadRooted, and no other message's thread changes.
LEMMA InsertMessageStep ==
  ASSUME IInv, NEW m \in Mails, InsertMessage(m)
  PROVE  IInv'
<1> USE DEF IInv
<1>1. m[1] \in Accounts /\ m[2] \in Headers /\ m = <<m[1], m[2]>> /\ m # None
  BY ReadAssumption
<1>2. CASE m \in rows
  <2>1. rows' = rows /\ thread' = thread
    BY <1>2 DEF InsertMessage, TypeOK
  <2>2. UNCHANGED <<docs, search, held, told>>
    BY DEF InsertMessage
  <2> QED
    BY <2>1, <2>2 DEF TypeOK, StoreOk, ScopeOk, ScopeHeld, GivenIdsStayGood, ThreadRooted,
       Readable, ThreadRows, search
<1>3. CASE m \notin rows
  <2> DEFINE t == ResolveThreadId(m)
  <2>1. /\ rows' = rows \cup {m} /\ thread' = [thread EXCEPT ![m] = t]
        /\ docs' = docs /\ pc' = pc /\ query' = query /\ scoped' = scoped /\ hits' = hits
        /\ out' = out /\ seen' = seen /\ held' = held /\ told' = told
    BY <1>3 DEF InsertMessage, TypeOK, search
  <2>2. \/ t = m
        \/ /\ t \in rows /\ thread[t] = t /\ Account(t) = Account(m)
           /\ \E r \in rows : thread[r] = t /\ Contains(Candidates(m[2]), r[2])
    <3>1. CASE t = m
      BY <3>1
    <3>2. CASE t # m
      <4>1. PICK h \in Headers : /\ Contains(Candidates(m[2]), h)
                                 /\ <<Account(m), h>> \in rows
                                 /\ t = thread[<<Account(m), h>>]
        BY <3>2, ResolveThreadIdCases
      <4> DEFINE r == <<Account(m), h>>
      <4>2. t \in rows /\ thread[t] = t /\ Account(t) = Account(r)
        BY <4>1 DEF ThreadRooted
      <4>3. Account(r) = Account(m) /\ r[2] = h
        BY DEF Account
      <4> HIDE DEF t
      <4> QED  BY <4>1, <4>2, <4>3
    <3> QED  BY <3>1, <3>2
  <2> HIDE DEF t
  <2>3. t \in Mails
    BY <2>2 DEF TypeOK
  <2>4. thread' \in [Mails -> Mails \cup {None}] /\ thread'[m] = t
        /\ \A x \in Mails : x # m => thread'[x] = thread[x]
    BY <2>1, <2>3 DEF TypeOK
  <2>5. TypeOK'
    <3>1. \A x \in Mails : thread'[x] = None <=> x \notin rows'
      BY <2>1, <2>3, <2>4, ReadAssumption DEF TypeOK
    <3> QED  BY <2>1, <2>4, <3>1 DEF TypeOK
  <2>6. StoreOk'
    BY <2>1 DEF StoreOk
  <2>7. ScopeOk'
    BY <2>1 DEF ScopeOk
  <2>8. ScopeHeld'
    BY <2>1 DEF ScopeHeld
  <2>9. GivenIdsStayGood'
    <3>1. \A x \in rows : thread'[x] = thread[x]
      BY <1>3, <2>4 DEF TypeOK
    <3> QED  BY <2>1, <3>1 DEF GivenIdsStayGood, Readable, ThreadRows
  <2>10. ThreadRooted'
    <3> SUFFICES ASSUME NEW x \in rows'
                 PROVE  /\ thread'[x] \in rows' /\ thread'[thread'[x]] = thread'[x]
                        /\ Account(thread'[x]) = Account(x)
                        /\ thread'[x] # x =>
                             \E r \in rows' \ {x} : /\ thread'[r] = thread'[x]
                                                     /\ Contains(Candidates(x[2]), r[2])
      BY DEF ThreadRooted
    <3>0. \A y \in rows : y \in Mails /\ thread'[y] = thread[y] /\ y # m /\ y \in rows'
      BY <1>3, <2>1, <2>4 DEF TypeOK
    <3>1. CASE x = m
      <4>1. CASE t = m
        BY <3>1, <4>1, <2>1, <2>4
      <4>2. CASE t # m
        <5>1. t \in rows /\ thread[t] = t /\ Account(t) = Account(m)
          BY <2>2, <4>2
        <5>2. PICK r \in rows : thread[r] = t /\ Contains(Candidates(m[2]), r[2])
          BY <2>2, <4>2
        <5>3. r \in rows' \ {m} /\ thread'[r] = t
          BY <5>2, <3>0
        <5> QED  BY <3>0, <3>1, <2>4, <5>1, <5>2, <5>3
      <4> QED  BY <4>1, <4>2
    <3>2. CASE x # m
      <4>1. x \in rows
        BY <3>2, <2>1
      <4>2. thread[x] \in rows /\ thread[thread[x]] = thread[x] /\ Account(thread[x]) = Account(x)
        BY <4>1 DEF ThreadRooted
      <4>3. CASE thread[x] = x
        BY <4>1, <4>2, <4>3, <3>0
      <4>4. CASE thread[x] # x
        <5>1. PICK r \in rows \ {x} : thread[r] = thread[x] /\ Contains(Candidates(x[2]), r[2])
          BY <4>1, <4>4 DEF ThreadRooted
        <5> QED  BY <4>1, <4>2, <5>1, <3>0
      <4> QED  BY <4>3, <4>4
    <3> QED  BY <3>1, <3>2
  <2> QED
    BY <2>5, <2>6, <2>7, <2>8, <2>9, <2>10
<1> QED
  BY <1>2, <1>3

\* An insert, with the thread it is given, keeps the invariant.
LEMMA SubmitStep ==
  ASSUME IInv, NEW m \in Mails, Submit(m)
  PROVE  IInv'
<1> USE DEF IInv
<1>1. PICK n \in 1 .. Segments[m] : docs' = docs \cup {<<m, i>> : i \in 1 .. n}
  BY DEF Submit
<1>2. m \in rows /\ rows' = rows /\ thread' = thread /\ UNCHANGED <<search, held, told>>
  BY DEF Submit
<1> DEFINE D == {<<m, i>> : i \in 1 .. n}
<1>3. n \in Nat /\ n <= MaxSegments
  BY <1>1, ReadAssumption
<1>4. D \subseteq Docs
  BY <1>3, ReadAssumption DEF Docs
<1>5. IsFiniteSet(D)
  <2> DEFINE f == [i \in 1 .. n |-> <<m, i>>]
  <2>1. f \in Surjection(1 .. n, D)
    BY Fun_IsSurj
  <2>2. IsFiniteSet(1 .. n)
    BY <1>3, FS_Interval
  <2> HIDE DEF f, D
  <2> QED  BY <2>1, <2>2, FS_Surjection
<1>6. \A d \in D : d[1] = m
  OBVIOUS
<1> HIDE DEF D
<1>7. docs' = docs \cup D
  BY <1>1 DEF D
<1>8. StoreOk'
  BY <1>2, <1>5, <1>6, <1>7, FS_Union DEF StoreOk, search
<1>9. TypeOK'
  BY <1>2, <1>4, <1>7 DEF TypeOK, search
<1> QED
  BY <1>2, <1>8, <1>9 DEF ScopeOk, ScopeHeld, GivenIdsStayGood, ThreadRooted,
     Readable, ThreadRows, search

\* An empty scope is answered at once, any other is inside what the user may read.
LEMMA SearchCallStep ==
  ASSUME IInv, NEW q \in Queries, SearchCall(q)
  PROVE  IInv'
<1> USE DEF IInv
<1>1. /\ pc = "idle" /\ query' = q /\ scoped' = Narrow(q.accounts)
      /\ pc' = IF scoped' = {} THEN "done" ELSE "index"
      /\ UNCHANGED <<rows, thread, docs, hits, out, seen, held, told>>
  BY DEF SearchCall, store
<1>2. scoped' \subseteq AllowedAccountIds /\ AllowedAccountIds \subseteq Accounts
  BY <1>1, ReadAssumption DEF Narrow, AllowedAccountIds
<1>3. out = <<>> /\ hits = <<>>
  BY <1>1 DEF ScopeOk
<1>4. ScopeOk'
  BY <1>1, <1>2, <1>3 DEF ScopeOk, ToSet, AllowedAccountIds
<1>5. TypeOK'
  BY <1>1, <1>2 DEF TypeOK
<1> QED
  BY <1>1, <1>4, <1>5 DEF StoreOk, ScopeHeld, GivenIdsStayGood, ThreadRooted, Readable, ThreadRows,
     AllowedAccountIds

\* The hits of the index are ranked messages.
LEMMA QueryIndexStep ==
  ASSUME IInv, QueryIndex
  PROVE  IInv'
<1> USE DEF IInv
<1>1. /\ pc = "index" /\ pc' = "rows" /\ seen' = docs
      /\ UNCHANGED <<rows, thread, docs, query, scoped, out, held, told>>
  BY DEF QueryIndex, store
<1>2. PICK R \in Best(Matching, RawK(query)) : \E s \in Ranked(R) :
        hits' = SubSeq(s, 1, IF Len(s) < K(query) THEN Len(s) ELSE K(query))
  BY DEF QueryIndex
<1>3. PICK s \in Ranked(R) :
        hits' = SubSeq(s, 1, IF Len(s) < K(query) THEN Len(s) ELSE K(query))
  BY <1>2
<1>4. s \in Seq(Mails)
  BY <1>2, <1>3, RankedType, SeqMonotonic
<1>5. K(query) \in Nat
  BY <1>1, LimitType DEF ScopeOk
<1>6. hits' \in Seq(Mails)
  BY <1>3, <1>4, <1>5
<1>7. TypeOK'
  BY <1>1, <1>6 DEF TypeOK
<1>8. ScopeOk'
  BY <1>1 DEF ScopeOk, AllowedAccountIds
<1> QED
  BY <1>1, <1>7, <1>8 DEF StoreOk, ScopeHeld, GivenIdsStayGood, ThreadRooted, Readable, ThreadRows,
     AllowedAccountIds

\* A hit is collected only when its account is in the scope, which is not empty.
LEMMA LoadHitStep ==
  ASSUME IInv, LoadHit
  PROVE  IInv'
<1> USE DEF IInv
<1> DEFINE m == Head(hits)
<1>1. /\ pc = "rows" /\ hits # <<>> /\ hits' = Tail(hits)
      /\ out' = IF m \in rows /\ FilterMatch(m, query, scoped) THEN Append(out, m) ELSE out
      /\ UNCHANGED <<rows, thread, docs, pc, query, scoped, seen, held, told>>
  BY DEF LoadHit, store
<1>2. m \in Mails /\ hits' \in Seq(Mails) /\ out \in Seq(Mails) /\ out' \in Seq(Mails)
  BY <1>1 DEF TypeOK
<1> HIDE DEF m
<1>3. scoped # {} /\ scoped \subseteq AllowedAccountIds
  BY <1>1 DEF ScopeOk
<1>4. \A x \in ToSet(out') : x \in rows /\ Account(x) \in scoped
  <2>1. \A x \in ToSet(out) : x \in rows /\ Account(x) \in scoped
    BY DEF ScopeOk
  <2>2. CASE m \in rows /\ FilterMatch(m, query, scoped)
    <3>1. Account(m) \in scoped
      BY <2>2, <1>3 DEF FilterMatch
    <3>2. ToSet(out') \subseteq ToSet(out) \cup {m}
      BY <1>1, <1>2, <2>2 DEF ToSet
    <3> QED  BY <2>1, <2>2, <3>1, <3>2
  <2> QED  BY <1>1, <2>1, <2>2
<1>5. TypeOK'
  BY <1>1, <1>2 DEF TypeOK
<1>6. ScopeOk'
  BY <1>1, <1>3, <1>4 DEF ScopeOk, AllowedAccountIds
<1>7. ScopeHeld'
  BY <1>1, <1>3, <1>4 DEF ScopeHeld, AllowedAccountIds
<1> QED
  BY <1>1, <1>5, <1>6, <1>7 DEF StoreOk, GivenIdsStayGood, ThreadRooted, Readable, ThreadRows,
     AllowedAccountIds

\* The answer holds only what the loop let through.
LEMMA LoopEndsStep ==
  ASSUME IInv, LoopEnds
  PROVE  IInv'
<1>1. pc = "rows" /\ pc' = "done"
      /\ UNCHANGED <<rows, thread, docs, query, scoped, hits, out, seen, held, told>>
  BY DEF LoopEnds, store
<1> QED
  BY <1>1 DEF IInv, TypeOK, StoreOk, ScopeOk, ScopeHeld, GivenIdsStayGood, ThreadRooted, Readable,
     ThreadRows, AllowedAccountIds

\* Whatever the search did, forgetting it leaves no trace.
LEMMA ForgetStep ==
  ASSUME IInv, Forget, UNCHANGED <<store, told>>,
         held' # held =>
           \E m \in ToSet(out) : held' = <<m, thread[m]>>
  PROVE  IInv'
<1> USE DEF IInv
<1>1. /\ pc' = "idle" /\ query' = None /\ scoped' = {} /\ hits' = <<>> /\ out' = <<>> /\ seen' = {}
      /\ UNCHANGED <<rows, thread, docs, told>>
  BY DEF Forget, store
<1>2. CASE held' = held
  <2>1. StoreOk'
    BY <1>1, FS_EmptySet DEF StoreOk
  <2> QED
    BY <1>1, <1>2, <2>1 DEF TypeOK, ScopeOk, ScopeHeld, GivenIdsStayGood, ThreadRooted, Readable,
       ThreadRows, AllowedAccountIds, ToSet
<1>3. CASE held' # held
  <2>1. PICK m \in ToSet(out) : held' = <<m, thread[m]>>
    BY <1>3
  <2>2. m \in rows /\ Account(m) \in AllowedAccountIds /\ m \in Mails /\ thread[m] \in Mails
    BY <2>1 DEF ScopeOk, TypeOK
  <2>3. held'[1] = m /\ held'[2] = thread[m] /\ held' \in Mails \X (Mails \cup {None})
    BY <2>1, <2>2
  <2>4. StoreOk'
    BY <1>1, FS_EmptySet DEF StoreOk
  <2> QED
    BY <1>1, <2>2, <2>3, <2>4 DEF TypeOK, ScopeOk, ScopeHeld, GivenIdsStayGood, ThreadRooted, Readable,
       ThreadRows, AllowedAccountIds, ToSet
<1> QED
  BY <1>2, <1>3

\* The single-read tools answer with a stored message of an allowed account, and
\* with its own thread or with none.
LEMMA ReadStep ==
  ASSUME IInv, UNCHANGED <<store, search, told>>,
         NEW m \in rows, Account(m) \in AllowedAccountIds,
         NEW t \in {thread[m], None}, held' = <<m, t>>
  PROVE  IInv'
<1>1. m \in Mails /\ thread[m] \in Mails
  BY DEF IInv, TypeOK
<1>2. held'[1] = m /\ held'[2] = t /\ held' \in Mails \X (Mails \cup {None})
  BY <1>1
<1> QED
  BY <1>1, <1>2 DEF IInv, TypeOK, StoreOk, ScopeOk, ScopeHeld, GivenIdsStayGood, ThreadRooted,
     Readable, ThreadRows, AllowedAccountIds, store, search

\* An answer that lists the accounts stays in scope.
LEMMA ToldStep ==
  ASSUME IInv, UNCHANGED <<store, search, held>>, told' = RetainAllowed(Active)
  PROVE  IInv'
BY ReadAssumption DEF IInv, TypeOK, StoreOk, ScopeOk, ScopeHeld, GivenIdsStayGood, ThreadRooted,
   Readable, ThreadRows, AllowedAccountIds, RetainAllowed, store, search

\* An empty store and an idle server.
LEMMA InitIInv == Init => IInv
<1> SUFFICES ASSUME Init PROVE IInv
  OBVIOUS
<1>1. TypeOK
  BY DEF Init, TypeOK
<1> QED
  BY <1>1, FS_EmptySet DEF Init, IInv, StoreOk, ScopeOk, ScopeHeld, GivenIdsStayGood, ThreadRooted,
     ToSet, AllowedAccountIds

\* No step of a tool or of the sync breaks the invariant.
LEMMA NextIInv == IInv /\ [Next]_vars => IInv'
<1> SUFFICES ASSUME IInv, [Next]_vars PROVE IInv'
  OBVIOUS
<1>1. ASSUME NEW m \in Mails, InsertMessage(m) PROVE IInv'
  BY <1>1, InsertMessageStep
<1>2. ASSUME NEW m \in Mails, Submit(m) PROVE IInv'
  BY <1>2, SubmitStep
<1>3. ASSUME NEW q \in Queries, SearchCall(q) PROVE IInv'
  BY <1>3, SearchCallStep
<1>4. CASE QueryIndex
  BY <1>4, QueryIndexStep
<1>5. CASE LoadHit
  BY <1>5, LoadHitStep
<1>6. CASE LoopEnds
  BY <1>6, LoopEndsStep
<1>7. CASE SearchReply
  BY <1>7, ForgetStep DEF SearchReply
<1>8. CASE SearchFails
  BY <1>8, ForgetStep DEF SearchFails
<1>9. ASSUME NEW m \in Mails, GetMessage(m) PROVE IInv'
  BY <1>9, ReadStep DEF GetMessage, Readable
<1>10. ASSUME NEW m \in Mails, GetRawMessage(m) PROVE IInv'
  BY <1>10, ReadStep DEF GetRawMessage, Readable
<1>11. ASSUME NEW t \in Mails, GetThread(t) PROVE IInv'
  <2>1. PICK m \in ThreadRows(t) : held' = <<m, t>>
    BY <1>11 DEF GetThread
  <2>2. m \in rows /\ thread[m] = t /\ Account(m) \in AllowedAccountIds
    BY <2>1 DEF ThreadRows
  <2> QED  BY <1>11, <2>1, <2>2, ReadStep DEF GetThread
<1>12. CASE ListAccounts
  BY <1>12, ToldStep DEF ListAccounts
<1>13. CASE Status
  BY <1>13, ToldStep DEF Status
<1>14. CASE UNCHANGED vars
  BY <1>14 DEF IInv, TypeOK, StoreOk, ScopeOk, ScopeHeld, GivenIdsStayGood, ThreadRooted, Readable,
     ThreadRows, AllowedAccountIds, vars, store, search
<1> QED
  BY <1>1, <1>2, <1>3, <1>4, <1>5, <1>6, <1>7, <1>8, <1>9, <1>10, <1>11, <1>12, <1>13, <1>14 DEF Next

\* The invariant holds always.
LEMMA Invariance == Spec => []IInv
BY InitIInv, NextIInv, PTL DEF Spec

(***************************************************************************)
(* What the index answers                                                  *)
(***************************************************************************)

\* The score of message m among the documents D; 0 is no match.
ScoreIn(m, D) ==
  LET s == {Score[d] : d \in {e \in D : e[1] = m}} \cup {0}
  IN  CHOOSE x \in s : \A y \in s : x >= y

\* The largest of finitely many documents' scores exists.
LEMMA ScoresFinite ==
  ASSUME NEW D \in SUBSET Docs, IsFiniteSet(D), NEW m
  PROVE  LET s == {Score[d] : d \in {e \in D : e[1] = m}}
         IN  s \in SUBSET Int /\ s \in SUBSET Nat /\ IsFiniteSet(s) /\ IsFiniteSet(s \cup {0})
<1> DEFINE E == {e \in D : e[1] = m}
           s == {Score[d] : d \in E}
           f == [d \in E |-> Score[d]]
<1>1. IsFiniteSet(E)
  BY FS_Subset
<1>2. f \in Surjection(E, s)
  BY Fun_IsSurj
<1>3. IsFiniteSet(s)
  <2> HIDE DEF f, s, E
  <2> QED  BY <1>1, <1>2, FS_Surjection
<1>4. s \in SUBSET Nat
  BY ReadAssumption
<1> HIDE DEF s, E
<1>5. IsFiniteSet(s \cup {0})
  BY <1>3, FS_AddElement
<1> QED
  BY <1>3, <1>4, <1>5 DEF s, E

\* The score of a message in a set of documents is that of its best segment.
LEMMA ScoreInMax ==
  ASSUME NEW D \in SUBSET Docs, IsFiniteSet(D), NEW m
  PROVE  /\ ScoreIn(m, D) \in Nat
         /\ \A d \in D : d[1] = m => ScoreIn(m, D) >= Score[d]
         /\ ScoreIn(m, D) = 0 \/ \E d \in D : d[1] = m /\ Score[d] = ScoreIn(m, D)
<1> DEFINE s == {Score[d] : d \in {e \in D : e[1] = m}}
           t == s \cup {0}
<1>0. s \in SUBSET Nat /\ IsFiniteSet(s \cup {0})
  BY ScoresFinite
<1>1. t \in SUBSET Int /\ t \in SUBSET Nat /\ IsFiniteSet(t) /\ t # {}
  <2> HIDE DEF s
  <2> QED  BY <1>0
<1>2. \E x \in t : \A y \in t : x >= y
  <2> HIDE DEF t
  <2> QED  BY <1>1, FiniteMax
<1>3. ScoreIn(m, D) \in t /\ \A y \in t : ScoreIn(m, D) >= y
  <2>1. ScoreIn(m, D) = CHOOSE x \in t : \A y \in t : x >= y
    BY DEF ScoreIn
  <2> HIDE DEF t
  <2> QED  BY <1>2, <2>1
<1> QED
  BY <1>1, <1>3

\* The score a hit is given is that of its best segment in the pool.
LEMMA BestScoreMax ==
  ASSUME NEW R \in SUBSET Docs, IsFiniteSet(R), NEW m \in {d[1] : d \in R}
  PROVE  /\ BestScore(m, R) \in Nat
         /\ \A d \in R : d[1] = m => BestScore(m, R) >= Score[d]
         /\ \E d \in R : d[1] = m /\ Score[d] = BestScore(m, R)
<1> DEFINE s == {Score[d] : d \in {e \in R : e[1] = m}}
<1>1. s \in SUBSET Int /\ s \in SUBSET Nat /\ IsFiniteSet(s)
  BY ScoresFinite
<1>0. s # {}
  OBVIOUS
<1>2. \E x \in s : \A y \in s : x >= y
  <2> HIDE DEF s
  <2> QED  BY <1>0, <1>1, FiniteMax
<1>3. BestScore(m, R) \in s /\ \A y \in s : BestScore(m, R) >= y
  <2>1. BestScore(m, R) = CHOOSE x \in s : \A y \in s : x >= y
    BY DEF BestScore
  <2> HIDE DEF s
  <2> QED  BY <1>2, <2>1
<1> QED
  BY <1>1, <1>3

\* The cut by documents never hides the best document of a message that has one
\* in the cut: its score in the answer is its score in the index.
LEMMA BestScoreIsScore ==
  ASSUME TypeOK, StoreOk, NEW n, NEW R \in Best(Matching, n), NEW m \in {d[1] : d \in R}
  PROVE  BestScore(m, R) = ScoreIn(m, docs) /\ ScoreIn(m, docs) > 0
<1>1. R \subseteq docs /\ docs \in SUBSET Docs /\ R \in SUBSET Docs /\ IsFiniteSet(docs)
      /\ \A d \in R : Score[d] > 0
  BY DEF Best, Matching, TypeOK, StoreOk
<1>2. IsFiniteSet(R)
  BY <1>1, FS_Subset
<1>3. PICK d \in R : d[1] = m /\ Score[d] = BestScore(m, R)
  BY <1>1, <1>2, BestScoreMax
<1>4. \A e \in R : e[1] = m => Score[d] >= Score[e]
  BY <1>1, <1>2, <1>3, BestScoreMax
<1>5. \A e \in docs : Score[e] \in Nat
  BY <1>1, ReadAssumption
<1>6. \A e \in docs : e[1] = m => Score[d] >= Score[e]
  <2> SUFFICES ASSUME NEW e \in docs, e[1] = m PROVE Score[d] >= Score[e]
    OBVIOUS
  <2>1. CASE e \in R
    BY <2>1, <1>4
  <2>2. CASE e \in Matching \ R
    BY <2>2 DEF Best
  <2>3. CASE e \notin Matching
    BY <2>3, <1>1, <1>5 DEF Matching
  <2> QED  BY <2>1, <2>2, <2>3
<1>7. /\ ScoreIn(m, docs) \in Nat
      /\ ScoreIn(m, docs) >= Score[d]
      /\ ScoreIn(m, docs) = 0 \/ \E e \in docs : e[1] = m /\ Score[e] = ScoreIn(m, docs)
  BY <1>1, <1>3, ScoreInMax
<1> QED
  BY <1>1, <1>3, <1>5, <1>6, <1>7

\* The messages that score at all are finitely many.
LEMMA CrowdFinite ==
  ASSUME NEW D \in SUBSET Docs, IsFiniteSet(D), NEW v \in Nat \ {0}, NEW m
  PROVE  IsFiniteSet({x \in Mails \ {m} : ScoreIn(x, D) >= v})
<1> DEFINE M == {d[1] : d \in D}
           f == [d \in D |-> d[1]]
           X == {x \in Mails \ {m} : ScoreIn(x, D) >= v}
<1>1. f \in Surjection(D, M)
  BY Fun_IsSurj
<1>2. IsFiniteSet(M)
  <2> HIDE DEF f, M
  <2> QED  BY <1>1, FS_Surjection
<1>3. X \subseteq M
  <2> SUFFICES ASSUME NEW x \in X PROVE x \in M
    OBVIOUS
  <2>1. ScoreIn(x, D) \in Nat /\ ScoreIn(x, D) # 0
    BY ScoreInMax
  <2> QED  BY <2>1, ScoreInMax
<1> HIDE DEF X, M
<1>4. IsFiniteSet(X)
  BY <1>2, <1>3, FS_Subset
<1> QED
  BY <1>4 DEF X

\* K * MaxSegments documents are of at least K messages.
LEMMA DocumentsOfMessages ==
  ASSUME NEW R \in SUBSET Docs, IsFiniteSet(R), NEW k \in Nat, Cardinality(R) = k * MaxSegments
  PROVE  k <= Cardinality({d[1] : d \in R})
<1> DEFINE M == {d[1] : d \in R}
           f == [d \in R |-> d[1]]
           c == Cardinality(M)
<1>1. f \in Surjection(R, M)
  BY Fun_IsSurj
<1>2. R \subseteq M \X (1 .. MaxSegments)
  BY DEF Docs
<1> HIDE DEF f, M
<1>3. IsFiniteSet(M)
  BY <1>1, FS_Surjection
<1>4. MaxSegments \in Nat \ {0} /\ IsFiniteSet(1 .. MaxSegments) /\ Cardinality(1 .. MaxSegments) = MaxSegments
  BY FS_Interval, ReadAssumption
<1>5. c \in Nat
  BY <1>3, FS_CardinalityType
<1>6. /\ IsFiniteSet(M \X (1 .. MaxSegments))
      /\ Cardinality(M \X (1 .. MaxSegments)) = c * MaxSegments
  BY <1>3, <1>4, FS_Product
<1>7. k * MaxSegments <= c * MaxSegments
  BY <1>2, <1>6, FS_Subset
<1>8. k <= c
  <2> HIDE DEF c
  <2> SUFFICES ASSUME c + 1 <= k PROVE FALSE
    BY <1>5
  <2>1. (c + 1) * MaxSegments <= k * MaxSegments
    BY <1>4, <1>5
  <2>2. (c + 1) * MaxSegments = c * MaxSegments + MaxSegments
    BY <1>4, <1>5
  <2> QED  BY <1>4, <1>5, <1>7, <2>1, <2>2
<1> QED
  BY <1>8 DEF M

\* Message m ranks below k others in the documents D.
Outranked(m, D, k) ==
  Cardinality({x \in Mails \ {m} : ScoreIn(x, D) >= ScoreIn(m, D)}) >= k

\* A message that scores and has no document in the cut was pushed out by K others.
LEMMA CutByDocuments ==
  ASSUME TypeOK, StoreOk, NEW q \in Queries, NEW R \in Best(Matching, RawK(q)),
         NEW m \in Mails, ScoreIn(m, docs) > 0, m \notin {d[1] : d \in R}
  PROVE  Outranked(m, docs, K(q))
<1> DEFINE n == RawK(q)
           M == {d[1] : d \in R}
           v == ScoreIn(m, docs)
           X == {x \in Mails \ {m} : ScoreIn(x, docs) >= v}
<1>1. R \subseteq docs /\ docs \in SUBSET Docs /\ R \in SUBSET Docs /\ IsFiniteSet(docs)
  BY DEF Best, Matching, TypeOK, StoreOk
<1>2. IsFiniteSet(R) /\ IsFiniteSet(Matching) /\ R \subseteq Matching
  BY <1>1, FS_Subset DEF Best, Matching
<1>3. v \in Nat \ {0}
  BY <1>1, ScoreInMax
<1>4. PICK e \in docs : e[1] = m /\ Score[e] = v
  BY <1>1, <1>3, ScoreInMax
<1>5. e \in Matching \ R
  BY <1>4 DEF Matching
<1>6. K(q) \in Nat /\ MaxSegments \in Nat \ {0} /\ n = K(q) * MaxSegments /\ n \in Nat
  BY LimitType, ReadAssumption DEF RawK
<1>7. Cardinality(R) = n
  <2>1. Cardinality(Matching) \in Nat /\ Cardinality(R) # Cardinality(Matching)
    BY <1>2, <1>5, FS_Subset, FS_CardinalityType
  <2> QED  BY <2>1 DEF Best
<1>8. K(q) <= Cardinality(M)
  BY <1>1, <1>2, <1>6, <1>7, DocumentsOfMessages
<1>9. M \subseteq X
  <2> SUFFICES ASSUME NEW x \in M PROVE x \in X
    OBVIOUS
  <2>1. x \in Mails /\ x # m
    BY <1>1 DEF Docs
  <2>2. BestScore(x, R) = ScoreIn(x, docs)
    BY BestScoreIsScore
  <2>3. PICK d \in R : Score[d] = BestScore(x, R)
    BY <1>1, <1>2, BestScoreMax
  <2>4. Score[d] >= Score[e]
    BY <1>5 DEF Best
  <2> QED  BY <1>4, <2>1, <2>2, <2>3, <2>4
<1>10. IsFiniteSet(X)
  <2> HIDE DEF v
  <2> QED  BY <1>1, <1>3, CrowdFinite
<1>11. Cardinality(M) <= Cardinality(X) /\ Cardinality(M) \in Nat /\ Cardinality(X) \in Nat
  <2> HIDE DEF M, X
  <2> QED  BY <1>9, <1>10, FS_Subset, FS_CardinalityType
<1>12. Cardinality(X) >= K(q)
  <2> HIDE DEF M, X
  <2> QED  BY <1>6, <1>8, <1>11
<1> QED
  BY <1>12 DEF Outranked

\* The ranking lists every message of the cut.
LEMMA RankedComplete ==
  ASSUME TypeOK, StoreOk, NEW n, NEW R \in Best(Matching, n), NEW s \in Ranked(R),
         NEW m \in {d[1] : d \in R}
  PROVE  \E j \in 1 .. Len(s) : s[j] = m
<1> DEFINE M == {d[1] : d \in R}
           D == 1 .. Len(s)
<1>1. /\ IsFiniteSet(M) /\ s \in Seq(M) /\ Len(s) = Cardinality(M)
      /\ \A i, j \in 1 .. Len(s) : i # j => s[i] # s[j]
  BY RankedType
<1> HIDE DEF M
<1>2. s \in [D -> M] /\ Len(s) \in Nat
  BY <1>1
<1>3. s \in Injection(D, M)
  BY <1>1, <1>2, Fun_IsInj
<1>4. Cardinality(D) = Cardinality(M)
  BY <1>1, <1>2, FS_Interval
<1>5. s \in Surjection(D, M)
  BY <1>1, <1>3, <1>4, FS_Injection
<1>6. \A t \in M : \E j \in D : s[j] = t
  BY <1>5, Fun_SurjectionProperties
<1> QED
  BY <1>6 DEF M

\* A message of the ranking behind place k has the k before it at least as high.
LEMMA CutByMessages ==
  ASSUME TypeOK, StoreOk, NEW n, NEW R \in Best(Matching, n), NEW s \in Ranked(R),
         NEW k \in Nat, NEW j \in 1 .. Len(s), j > k
  PROVE  Outranked(s[j], docs, k)
<1> DEFINE M == {d[1] : d \in R}
           v == ScoreIn(s[j], docs)
           X == {x \in Mails \ {s[j]} : ScoreIn(x, docs) >= v}
           f == [i \in 1 .. k |-> s[i]]
<1>1. /\ M \subseteq Mails /\ s \in Seq(M)
      /\ \A a, b \in 1 .. Len(s) : a # b => s[a] # s[b]
  BY RankedType
<1>2. \A i \in 1 .. Len(s) : /\ s[i] \in M /\ BestScore(s[i], R) = ScoreIn(s[i], docs)
                              /\ ScoreIn(s[i], docs) > 0
  BY <1>1, BestScoreIsScore
<1>3. \A i \in 1 .. k : i \in 1 .. Len(s) /\ s[i] \in X
  <2> SUFFICES ASSUME NEW i \in 1 .. k PROVE i \in 1 .. Len(s) /\ s[i] \in X
    OBVIOUS
  <2>1. i \in 1 .. Len(s) /\ i < j
    BY <1>1
  <2>2. BestScore(s[i], R) >= BestScore(s[j], R)
    <3>1. i \in DOMAIN s /\ j \in DOMAIN s
      BY <1>1, <2>1
    <3> QED  BY <2>1, <3>1 DEF Ranked
  <2>3. s[i] # s[j] /\ s[i] \in Mails
    BY <1>1, <2>1
  <2> QED  BY <1>2, <2>1, <2>2, <2>3
<1>4. f \in [1 .. k -> X] /\ \A a, b \in 1 .. k : f[a] = f[b] => a = b
  BY <1>1, <1>3
<1>5. docs \in SUBSET Docs /\ IsFiniteSet(docs)
  BY DEF TypeOK, StoreOk
<1>6. v \in Nat \ {0}
  BY <1>2, <1>5, ScoreInMax
<1>7. IsFiniteSet(X)
  <2> HIDE DEF v
  <2> QED  BY <1>5, <1>6, CrowdFinite
<1> HIDE DEF X, f
<1>8. f \in Injection(1 .. k, X)
  BY <1>4, Fun_IsInj
<1>9. Cardinality(1 .. k) = k /\ Cardinality(1 .. k) <= Cardinality(X)
  BY <1>7, <1>8, FS_Injection, FS_Interval
<1>10. Cardinality(X) >= k
  BY <1>9, <1>7, FS_CardinalityType
<1> QED
  BY <1>10 DEF X, Outranked

(***************************************************************************)
(* The search                                                              *)
(***************************************************************************)

\* What the sync layer, the drainer and the other tools do meanwhile does not
\* touch a search, and no row goes away.
LEMMA SearchUntouched ==
  ASSUME SearchOk, UNCHANGED search, rows \subseteq rows'
  PROVE  SearchOk'
<1>1. /\ pc' = pc /\ query' = query /\ scoped' = scoped /\ hits' = hits /\ out' = out /\ seen' = seen
  BY DEF search
<1>2. /\ \A x : SeenScore(x)' = SeenScore(x)
      /\ \A x : Wanted(x)' <=> Wanted(x)
      /\ \A x : Crowded(x)' <=> Crowded(x)
  BY <1>1 DEF SeenScore, Wanted, Crowded
<1>3. (Ordered(out)' <=> Ordered(out)) /\ (Ordered(hits)' <=> Ordered(hits))
  BY <1>1, <1>2 DEF Ordered
<1> QED
  BY <1>1, <1>2, <1>3 DEF SearchOk

\* The score the property speaks of is the score in what the index read.
LEMMA SeenScoreIsScoreIn ==
  /\ \A m : SeenScore(m) = ScoreIn(m, seen)
  /\ \A m : SeenScore(m)' = ScoreIn(m, seen')
BY DEF SeenScore, ScoreIn

\* The index answers with the head of a ranking.
LEMMA QueryIndexSearch ==
  ASSUME IInv, QueryIndex
  PROVE  SearchOk'
<1> DEFINE k == K(query)
<1>1. /\ pc = "index" /\ pc' = "rows" /\ seen' = docs
      /\ UNCHANGED <<rows, thread, docs, query, scoped, out, held, told>>
  BY DEF QueryIndex, store
<1>2. PICK R \in Best(Matching, RawK(query)) : \E s \in Ranked(R) :
        hits' = SubSeq(s, 1, IF Len(s) < K(query) THEN Len(s) ELSE K(query))
  BY DEF QueryIndex
<1>3. PICK s \in Ranked(R) :
        hits' = SubSeq(s, 1, IF Len(s) < K(query) THEN Len(s) ELSE K(query))
  BY <1>2
<1>4. TypeOK /\ StoreOk /\ ScopeOk /\ query \in Queries /\ out' = <<>>
  BY <1>1 DEF IInv, ScopeOk
<1>5. k \in Nat \ {0} /\ Limit(query) \in Nat \ {0}
  BY <1>4, LimitType
<1> DEFINE M == {d[1] : d \in R}
           c == IF Len(s) < k THEN Len(s) ELSE k
<1>6. /\ M \subseteq Mails /\ s \in Seq(M)
      /\ \A a, b \in 1 .. Len(s) : a # b => s[a] # s[b]
  BY <1>4, RankedType
<1>7. \A i \in 1 .. Len(s) : /\ s[i] \in M /\ s[i] \in Mails /\ s[i] \in rows
                              /\ BestScore(s[i], R) = ScoreIn(s[i], docs)
                              /\ ScoreIn(s[i], docs) > 0
  <2>1. \A d \in R : d \in docs
    BY DEF Best, Matching
  <2> QED  BY <1>4, <1>6, <2>1, BestScoreIsScore DEF StoreOk
<1>8. /\ c \in Nat /\ c <= Len(s) /\ hits' \in Seq(Mails) /\ Len(hits') = c /\ DOMAIN hits' = 1 .. c
      /\ \A i \in 1 .. c : i \in 1 .. Len(s) /\ hits'[i] = s[i]
  <2>1. c \in Nat /\ c <= Len(s) /\ s \in Seq(Mails)
    BY <1>5, <1>6, SeqMonotonic
  <2> HIDE DEF c, M
  <2>2. hits' = SubSeq(s, 1, c)
    BY <1>3 DEF c
  <2> QED  BY <2>1, <2>2
<1>9. \A i, j \in DOMAIN s : i < j => BestScore(s[i], R) >= BestScore(s[j], R)
  BY DEF Ranked
<1>10. DOMAIN s = 1 .. Len(s)
  BY <1>6
<1>11. \A m : SeenScore(m)' = ScoreIn(m, docs)
  BY <1>1, SeenScoreIsScoreIn
<1> HIDE DEF M
<1>12. Ordered(hits)'
  <2> SUFFICES ASSUME NEW i \in 1 .. c, NEW j \in 1 .. c, i < j
               PROVE  s[i] # s[j] /\ ScoreIn(s[i], docs) >= ScoreIn(s[j], docs)
    BY <1>8, <1>11 DEF Ordered
  <2>1. i \in 1 .. Len(s) /\ j \in 1 .. Len(s)
    BY <1>8
  <2> QED  BY <1>6, <1>7, <1>9, <1>10, <2>1
<1>13. \A m \in ToSet(hits') : m \in rows' /\ SeenScore(m)' > 0
  BY <1>1, <1>7, <1>8, <1>11 DEF ToSet
<1>14. ASSUME NEW m \in Mails, Wanted(m)'
       PROVE  m \in ToSet(hits') \/ Crowded(m)'
  <2>1. ScoreIn(m, docs) > 0
    BY <1>11, <1>14 DEF Wanted
  <2>2. Crowded(m)' <=> Outranked(m, docs, k)
    BY <1>1, <1>11 DEF Crowded, Outranked
  <2>3. CASE m \notin M
    BY <1>4, <2>1, <2>2, <2>3, CutByDocuments DEF M
  <2>4. CASE m \in M
    <3>1. PICK j \in 1 .. Len(s) : s[j] = m
      BY <1>4, <2>4, RankedComplete DEF M
    <3>2. CASE j <= c
      <4>1. j \in 1 .. c
        BY <3>2, <1>8
      <4> QED  BY <3>1, <4>1, <1>8 DEF ToSet
    <3>3. CASE ~(j <= c)
      <4>1. j > k
        BY <3>3, <1>5, <1>6
      <4> QED  BY <1>4, <1>5, <3>1, <4>1, <2>2, CutByMessages
    <3> QED  BY <3>2, <3>3
  <2> QED  BY <2>3, <2>4
<1>15. ToSet(out') = {} /\ Len(out') = 0 /\ DOMAIN out' = {}
  BY <1>4 DEF ToSet
<1>16. Limit(query') = Limit(query)
  BY <1>1
<1> QED
  BY <1>1, <1>5, <1>12, <1>13, <1>14, <1>15, <1>16 DEF SearchOk, Ordered

\* One hit moves from the ranking to the answer, or is dropped by the filter.
LEMMA LoadHitSearch ==
  ASSUME IInv, SearchOk, LoadHit
  PROVE  SearchOk'
<1> DEFINE m == hits[1]
           keep == FilterMatch(m, query, scoped)
<1>1. /\ pc = "rows" /\ pc' = "rows" /\ hits # <<>> /\ Len(out) < Limit(query) /\ hits' = Tail(hits)
      /\ out' = IF Head(hits) \in rows /\ FilterMatch(Head(hits), query, scoped)
                   THEN Append(out, Head(hits)) ELSE out
      /\ UNCHANGED <<rows, thread, docs, query, scoped, seen, held, told>>
  BY DEF LoadHit, store
<1>2. hits \in Seq(Mails) /\ out \in Seq(Mails) /\ scoped # {} /\ query \in Queries
  BY <1>1 DEF IInv, TypeOK, ScopeOk
<1>3. /\ Len(hits) \in Nat \ {0} /\ DOMAIN hits = 1 .. Len(hits) /\ m \in Mails /\ Head(hits) = m
      /\ hits' \in Seq(Mails) /\ Len(hits') = Len(hits) - 1 /\ DOMAIN hits' = 1 .. (Len(hits) - 1)
      /\ \A i \in 1 .. (Len(hits) - 1) : hits'[i] = hits[i + 1]
      /\ DOMAIN out = 1 .. Len(out) /\ Len(out) \in Nat
  BY <1>1, <1>2
<1>4. m \in ToSet(hits) /\ m \in rows /\ SeenScore(m) > 0
  BY <1>1, <1>2, <1>3 DEF SearchOk, ToSet
<1>5. Limit(query) \in Nat
  BY <1>2, LimitType
<1>6. /\ Ordered(out) /\ Ordered(hits)
      /\ \A i \in DOMAIN out, j \in DOMAIN hits :
           out[i] # hits[j] /\ SeenScore(out[i]) >= SeenScore(hits[j])
      /\ \A x \in ToSet(out) : Wanted(x)
      /\ \A x \in ToSet(hits) : x \in rows /\ SeenScore(x) > 0
      /\ \A x \in Mails : Wanted(x) => x \in ToSet(out) \cup ToSet(hits) \/ Crowded(x)
  BY <1>1, <1>2 DEF SearchOk
<1>7. /\ \A x : SeenScore(x)' = SeenScore(x)
      /\ \A x : Wanted(x)' <=> Wanted(x)
      /\ \A x : Crowded(x)' <=> Crowded(x)
  BY <1>1 DEF SeenScore, Wanted, Crowded
<1>8. Wanted(m) <=> keep
  BY <1>4 DEF Wanted
<1>9. \A j \in DOMAIN hits' : j + 1 \in DOMAIN hits /\ 1 < j + 1 /\ 1 \in DOMAIN hits /\ hits'[j] = hits[j + 1]
  BY <1>3
<1>10. Ordered(hits)'
  BY <1>3, <1>6, <1>7, <1>9 DEF Ordered
<1>11. ToSet(hits') \subseteq ToSet(hits) /\ ToSet(hits) \subseteq ToSet(hits') \cup {m}
  <2>1. ToSet(hits') \subseteq ToSet(hits)
    BY <1>9 DEF ToSet
  <2>2. ASSUME NEW i \in DOMAIN hits, i # 1
        PROVE  i - 1 \in DOMAIN hits' /\ hits'[i - 1] = hits[i]
    BY <1>3, <2>2
  <2> QED  BY <2>1, <2>2 DEF ToSet
<1>12. \A j \in DOMAIN hits' : m # hits'[j] /\ SeenScore(m) >= SeenScore(hits'[j])
  BY <1>6, <1>9 DEF Ordered
<1> HIDE DEF m, keep
<1>13. CASE keep
  <2>1. out' = Append(out, m)
    BY <1>1, <1>3, <1>4, <1>13 DEF keep
  <2>2. /\ Len(out') = Len(out) + 1 /\ DOMAIN out' = 1 .. (Len(out) + 1)
        /\ out'[Len(out) + 1] = m /\ \A i \in DOMAIN out : out'[i] = out[i] /\ i < Len(out) + 1
        /\ \A i \in DOMAIN out' : i \in DOMAIN out \/ i = Len(out) + 1
    BY <2>1, <1>2, <1>3
  <2>3. ToSet(out') = ToSet(out) \cup {m}
    BY <2>2, <1>3 DEF ToSet
  <2>4. Len(out') <= Limit(query')
    BY <1>1, <1>3, <1>5, <2>2
  <2>5. \A i \in DOMAIN out : out[i] # m /\ SeenScore(out[i]) >= SeenScore(m)
    BY <1>3, <1>6 DEF m
  <2>6. Ordered(out)'
    <3> SUFFICES ASSUME NEW i \in DOMAIN out', NEW j \in DOMAIN out', i < j
                 PROVE  out'[i] # out'[j] /\ SeenScore(out'[i]) >= SeenScore(out'[j])
      BY <1>7 DEF Ordered
    <3>1. i \in DOMAIN out
      BY <1>3, <2>2
    <3>2. CASE j \in DOMAIN out
      BY <3>1, <3>2, <2>2, <1>6 DEF Ordered
    <3>3. CASE j = Len(out) + 1
      BY <3>1, <3>3, <2>2, <2>5
    <3> QED  BY <2>2, <3>2, <3>3
  <2>7. \A i \in DOMAIN out', j \in DOMAIN hits' :
          out'[i] # hits'[j] /\ SeenScore(out'[i]) >= SeenScore(hits'[j])
    BY <2>2, <1>6, <1>9, <1>12
  <2>8. \A x \in ToSet(out') : Wanted(x)
    BY <2>3, <1>6, <1>8, <1>13
  <2>9. \A x \in Mails : Wanted(x) => x \in ToSet(out') \cup ToSet(hits') \/ Crowded(x)
    BY <2>3, <1>6, <1>11
  <2> QED
    BY <1>1, <1>6, <1>7, <1>10, <1>11, <2>4, <2>6, <2>7, <2>8, <2>9 DEF SearchOk
<1>14. CASE ~keep
  <2>1. out' = out
    BY <1>1, <1>3, <1>14 DEF keep
  <2>2. Ordered(out)'
    BY <2>1, <1>6, <1>7 DEF Ordered
  <2>3. \A i \in DOMAIN out', j \in DOMAIN hits' :
          out'[i] # hits'[j] /\ SeenScore(out'[i]) >= SeenScore(hits'[j])
    BY <2>1, <1>6, <1>9
  <2>4. \A x \in Mails : Wanted(x) => x \in ToSet(out') \cup ToSet(hits') \/ Crowded(x)
    BY <2>1, <1>6, <1>8, <1>11, <1>14
  <2>5. Len(out') <= Limit(query')
    BY <2>1, <1>1, <1>3, <1>5
  <2> QED
    BY <1>1, <1>6, <1>7, <1>10, <1>11, <2>1, <2>2, <2>3, <2>4, <2>5 DEF SearchOk
<1> QED
  BY <1>13, <1>14

\* Nothing is left to rank when the loop ends.
LEMMA LoopEndsSearch ==
  ASSUME IInv, SearchOk, LoopEnds
  PROVE  SearchOk'
<1>1. /\ pc = "rows" /\ pc' = "done" /\ (hits = <<>> \/ Len(out) >= Limit(query))
      /\ UNCHANGED <<rows, thread, docs, query, scoped, hits, out, seen, held, told>>
  BY DEF LoopEnds, store
<1>2. scoped # {} /\ Limit(query) \in Nat /\ Len(out) \in Nat
  BY <1>1, LimitType DEF IInv, ScopeOk, TypeOK
<1>3. /\ \A x : SeenScore(x)' = SeenScore(x)
      /\ \A x : Wanted(x)' <=> Wanted(x)
      /\ \A x : Crowded(x)' <=> Crowded(x)
  BY <1>1 DEF SeenScore, Wanted, Crowded
<1>4. (Ordered(out)' <=> Ordered(out)) /\ (Ordered(hits)' <=> Ordered(hits))
  BY <1>1, <1>3 DEF Ordered
<1>5. hits' = <<>> \/ Len(out') = Limit(query')
  BY <1>1, <1>2 DEF SearchOk
<1> QED
  BY <1>1, <1>2, <1>3, <1>4, <1>5 DEF SearchOk

\* The hits that are collected and those to come stay one ranking.
LEMMA NextSearchOk == IInv /\ SearchOk /\ [Next]_vars => SearchOk'
<1> SUFFICES ASSUME IInv, SearchOk, [Next]_vars PROVE SearchOk'
  OBVIOUS
<1>1. ASSUME NEW m \in Mails, InsertMessage(m) \/ Submit(m) PROVE SearchOk'
  BY <1>1, SearchUntouched DEF InsertMessage, Submit
<1>2. ASSUME NEW q \in Queries, SearchCall(q) PROVE SearchOk'
  BY <1>2 DEF SearchCall, SearchOk
<1>3. CASE QueryIndex
  BY <1>3, QueryIndexSearch
<1>4. CASE LoadHit
  BY <1>4, LoadHitSearch
<1>5. CASE LoopEnds
  BY <1>5, LoopEndsSearch
<1>6. CASE SearchReply \/ SearchFails
  BY <1>6 DEF SearchReply, SearchFails, Forget, SearchOk
<1>7. ASSUME NEW m \in Mails, GetMessage(m) \/ GetRawMessage(m) \/ GetThread(m) PROVE SearchOk'
  BY <1>7, SearchUntouched DEF GetMessage, GetRawMessage, GetThread, store
<1>8. CASE ListAccounts \/ Status \/ UNCHANGED vars
  BY <1>8, SearchUntouched DEF ListAccounts, Status, vars, store
<1> QED
  BY <1>1, <1>2, <1>3, <1>4, <1>5, <1>6, <1>7, <1>8 DEF Next

\* A search that is done is exact.
LEMMA SearchOkIsExact == IInv /\ SearchOk => SearchExact
<1> SUFFICES ASSUME IInv, SearchOk, pc = "done", scoped # {}
             PROVE  SearchExact
  BY DEF SearchExact
<1> DEFINE W == {m \in Mails : SeenScore(m) > 0 /\ FilterMatch(m, query, scoped)}
<1>1. /\ Len(out) <= Limit(query) /\ Ordered(out)
      /\ \A i \in DOMAIN out, j \in DOMAIN hits : SeenScore(out[i]) >= SeenScore(hits[j])
      /\ \A m \in ToSet(out) : Wanted(m)
      /\ \A m \in Mails : Wanted(m) => m \in ToSet(out) \cup ToSet(hits) \/ Crowded(m)
      /\ hits = <<>> \/ Len(out) = Limit(query)
  BY DEF SearchOk
<1>2. out \in Seq(Mails) /\ hits \in Seq(Mails) /\ Limit(query) \in Nat \ {0}
  BY LimitType DEF IInv, TypeOK, ScopeOk
<1>3. ToSet(out) \subseteq W
  BY <1>1, <1>2 DEF Wanted, ToSet
<1>4. ASSUME NEW m \in W \ ToSet(out)
      PROVE  \/ Len(out) = Limit(query) /\ SeenScore(Last(out)) >= SeenScore(m)
             \/ Cardinality({x \in Mails \ {m} : SeenScore(x) >= SeenScore(m)}) >= K(query)
  <2>1. CASE m \in ToSet(hits)
    <3>1. PICK j \in DOMAIN hits : hits[j] = m
      BY <2>1 DEF ToSet
    <3>2. hits # <<>>
      BY <3>1
    <3>3. Len(out) = Limit(query)
      BY <1>1, <3>2
    <3>4. Len(out) \in DOMAIN out /\ Last(out) = out[Len(out)]
      BY <1>2, <3>3 DEF Last
    <3> QED  BY <1>1, <3>1, <3>3, <3>4
  <2>2. CASE m \notin ToSet(hits)
    BY <1>1, <2>2 DEF Wanted, Crowded
  <2> QED  BY <2>1, <2>2
<1> QED
  BY <1>1, <1>3, <1>4 DEF SearchExact, Ordered

\* The ranking invariant holds always.
LEMMA SearchInvariance == Spec => []SearchOk
<1>1. Init => SearchOk
  BY DEF Init, SearchOk
<1> QED
  BY <1>1, NextSearchOk, Invariance, PTL DEF Spec

(***************************************************************************)
(* Theorems                                                                *)
(***************************************************************************)

\* Every variable keeps its type, and a message has a thread exactly when it has
\* a row.
THEOREM TypeCorrect == Spec => []TypeOK
<1>1. IInv => TypeOK
  BY DEF IInv
<1> QED  BY <1>1, Invariance, PTL

\* No answer of any tool carries a message or an account outside the scope
\* (scope.rs, and the guards of tools/read.rs), for any sets of active and owned
\* accounts and any account list a caller sends.
THEOREM ScopeIsHeld == Spec => []ScopeHeld
<1>1. IInv => ScopeHeld
  BY DEF IInv
<1> QED  BY <1>1, Invariance, PTL

\* An id or a thread id a client was given stays good, whatever insert_message
\* writes afterwards.
THEOREM IdsStayGood == Spec => []GivenIdsStayGood
<1>1. IInv => GivenIdsStayGood
  BY DEF IInv
<1> QED  BY <1>1, Invariance, PTL

\* Threads are rooted and of one account, for any reference graph (cyclic and
\* dangling ones too) and any order of arrival: resolve_thread_id.
THEOREM ThreadsRooted == Spec => []ThreadRooted
<1>1. IInv => ThreadRooted
  BY DEF IInv
<1> QED  BY <1>1, Invariance, PTL

\* The document cut, the collapse by message, the cut by messages and the filter
\* of a search lose only what the limit or K better messages push out, for any
\* scores, limits and segment counts and whatever is stored meanwhile.
THEOREM SearchIsExact == Spec => []SearchExact
BY Invariance, SearchInvariance, SearchOkIsExact, PTL
=============================================================================
