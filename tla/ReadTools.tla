----------------------------- MODULE ReadTools -----------------------------
(***************************************************************************)
(* The MCP read tools over the archive: search, get_message,               *)
(* get_raw_message, get_thread, list_accounts and status, while the sync   *)
(* layer inserts messages (and resolves their threads) and the drainer     *)
(* submits their segments.  A search is several awaits: the index is read  *)
(* once, then the row of each hit.                                         *)
(*                                                                         *)
(* A message_id is "account:<Message-ID>", so a mail is a pair of the two. *)
(* A thread id is a fresh UUID; it is named by the mail it was minted for. *)
(* No row is tombstoned: FolderSync shows that the scan names none.        *)
(*                                                                         *)
(* Sources: crates/scryd-mcp/src (tools/read.rs, scope.rs, dto.rs),        *)
(* crates/scryd-search/src (searcher.rs, witchcraft_handle.rs),            *)
(* crates/scryd-storage/src (messages.rs, threading.rs).                   *)
(***************************************************************************)
EXTENDS Integers, FiniteSets, Sequences, SequencesExt

CONSTANTS
  Accounts,     \* account ids in the accounts table
  Active,       \* those with active = 1; only the next start changes them
  Owned,        \* those whose username is USER_EMAIL, ignoring case
  Headers,      \* Message-ID values
  Mails,        \* the pairs <<account, header>> the servers hold
  References,   \* [Headers -> Seq(Headers)], oldest first
  InReplyTo,    \* [Headers -> Headers \cup {None}]
  Date,         \* [Mails -> Nat]: date_unix
  Folder,       \* [Mails -> folder]
  Sender,       \* [Mails -> SUBSET patterns]: the from patterns it contains
  Segments,     \* [Mails -> 1 .. MaxSegments]
  Score,        \* [Docs -> Nat]: of the query's words; 0 is no match
  Queries,      \* the arguments clients send
  MaxSegments,  \* MAX_SEGMENTS_PER_MESSAGE
  KMin, KMultiplier, LimitMax, LimitDefault,
  DaySecs,      \* 86_400
  None

Docs == Mails \X (1 .. MaxSegments)

ASSUME ReadAssumption ==
  /\ Active \subseteq Accounts /\ Owned \subseteq Accounts
  /\ Mails \subseteq Accounts \X Headers
  /\ References \in [Headers -> Seq(Headers)]
  /\ InReplyTo \in [Headers -> Headers \cup {None}]
  /\ Date \in [Mails -> Nat]
  /\ MaxSegments \in Nat \ {0}
  /\ Segments \in [Mails -> 1 .. MaxSegments]
  /\ Score \in [Docs -> Nat]
  /\ KMin \in Nat \ {0} /\ KMultiplier \in Nat \ {0}
  /\ LimitMax \in Nat \ {0} /\ LimitDefault \in 1 .. LimitMax
  /\ DaySecs \in Nat \ {0}
  /\ \A q \in Queries : q.limit \in Nat \cup {None}
  /\ None \notin Mails \cup Headers

VARIABLES
  rows,    \* SUBSET Mails: the messages table
  thread,  \* [Mails -> Mails \cup {None}]: thread_id
  docs,    \* SUBSET Docs: the witchcraft documents
  \* the search under way
  pc,
  query,
  scoped,  \* the account ids it is narrowed to
  hits,    \* hits of the index whose row is still to be read
  out,     \* hits collected
  seen,    \* history: docs when the index was read
  \* what clients were given
  held,    \* <<mail, its thread_id or None>>: any one of the answers so far
  told     \* account ids of the last list_accounts or status

store  == <<rows, thread, docs>>
search == <<pc, query, scoped, hits, out, seen>>
vars   == <<store, search, held, told>>

Account(m) == m[1]

TypeOK ==
  /\ rows \subseteq Mails
  /\ thread \in [Mails -> Mails \cup {None}]
  /\ \A m \in Mails : thread[m] = None <=> m \notin rows
  /\ docs \subseteq Docs /\ seen \subseteq Docs
  /\ pc \in {"idle", "index", "rows", "done"}
  /\ query \in Queries \cup {None}
  /\ scoped \subseteq Accounts
  /\ hits \in Seq(Mails) /\ out \in Seq(Mails)
  /\ held \in (Mails \X (Mails \cup {None})) \cup {None}
  /\ told \subseteq Accounts

(***************************************************************************)
(* The store                                                               *)
(***************************************************************************)

\* The immediate parent first, then older ancestors, then In-Reply-To.
Candidates(h) ==
  Reverse(References[h]) \o (IF InReplyTo[h] = None THEN <<>> ELSE <<InReplyTo[h]>>)

\* Mutant of ResolveThreadId: the SELECT forgets the account.
ResolveAnyAccount(m) ==
  LET c == Candidates(m[2])
      i == SelectInSeq(c, LAMBDA h : \E a \in Accounts : <<a, h>> \in rows)
  IN  IF i = 0 THEN m ELSE thread[CHOOSE r \in rows : r[2] = c[i]]

\* Mutant of ResolveThreadId: the parent is taken to be stored already.
ResolveFirst(m) ==
  IF Candidates(m[2]) = <<>> THEN m ELSE thread[<<Account(m), Candidates(m[2])[1]>>]

\* The thread of the first candidate with a row of the same account, or a new one.
ResolveThreadId(m) ==
  LET c == Candidates(m[2])
      i == SelectInSeq(c, LAMBDA h : <<Account(m), h>> \in rows)
  IN  IF i = 0 THEN m ELSE thread[<<Account(m), c[i]>>]

\* Mutant of InsertMessage: the upsert takes the freshly resolved thread_id too.
InsertMessageRethreads(m) ==
  /\ rows' = rows \cup {m}
  /\ thread' = [thread EXCEPT ![m] = ResolveThreadId(m)]
  /\ UNCHANGED <<docs, search, held, told>>

\* A first fetch inserts; a second one (a restart walks the folder again)
\* refreshes the body and leaves the identity and the thread.
InsertMessage(m) ==
  /\ rows' = rows \cup {m}
  /\ thread' = [thread EXCEPT ![m] = IF m \in rows THEN @ ELSE ResolveThreadId(m)]
  /\ UNCHANGED <<docs, search, held, told>>

\* The drainer submits the stored message; an error may leave its first segments.
Submit(m) ==
  /\ m \in rows
  /\ \E n \in 1 .. Segments[m] : docs' = docs \cup {<<m, i>> : i \in 1 .. n}
  /\ UNCHANGED <<rows, thread, search, held, told>>

(***************************************************************************)
(* Scope                                                                   *)
(***************************************************************************)

AllowedAccountIds == Active \cap Owned

Narrow(caller) == IF caller = {} THEN AllowedAccountIds ELSE AllowedAccountIds \cap caller

(***************************************************************************)
(* search                                                                  *)
(***************************************************************************)

Limit(q) ==
  LET n == IF q.limit = None THEN LimitDefault ELSE q.limit
  IN  IF n < 1 THEN 1 ELSE IF n > LimitMax THEN LimitMax ELSE n

K(q) == LET n == Limit(q) * KMultiplier IN IF n < KMin THEN KMin ELSE n

\* Mutant of RawK: as many documents as messages are asked for.
RawKUnmultiplied(q) == K(q)

\* One message is up to MaxSegments documents.
RawK(q) == K(q) * MaxSegments

\* The window is whole days, both ends included.
FilterMatch(m, q, accounts) ==
  /\ q.from # None => q.from \in Sender[m]
  /\ q.folder # None => q.folder = Folder[m]
  /\ accounts # {} => Account(m) \in accounts
  /\ q.since # None => Date[m] >= q.since * DaySecs
  /\ q.until # None => Date[m] <= q.until * DaySecs + DaySecs - 1

\* Mutant of SearchCall: an empty scope is not answered at once.
SearchCallUnscoped(q) ==
  /\ pc = "idle" /\ q.valid
  /\ query' = q /\ scoped' = Narrow(q.accounts) /\ pc' = "index"
  /\ UNCHANGED <<store, hits, out, seen, held, told>>

\* mode, since and until must parse (invalid_params changes nothing); an empty
\* scope answers with no hits before the index is read.
SearchCall(q) ==
  /\ pc = "idle" /\ q.valid
  /\ query' = q
  /\ scoped' = Narrow(q.accounts)
  /\ pc' = IF scoped' = {} THEN "done" ELSE "index"
  /\ UNCHANGED <<store, hits, out, seen, held, told>>

Matching == {d \in docs : Score[d] > 0}

\* witchcraft::search: the n best documents; equal scores fall either way.
Best(D, n) ==
  {R \in SUBSET D :
     /\ Cardinality(R) = IF Cardinality(D) < n THEN Cardinality(D) ELSE n
     /\ \A d \in R, e \in D \ R : Score[d] >= Score[e]}

\* The score of a message among the documents R.
BestScore(m, R) ==
  LET s == {Score[d] : d \in {e \in R : e[1] = m}}
  IN  CHOOSE x \in s : \A y \in s : x >= y

\* One hit per message, best first.
Ranked(R) ==
  {s \in SetToSeqs({d[1] : d \in R}) :
     \A i, j \in DOMAIN s : i < j => BestScore(s[i], R) >= BestScore(s[j], R)}

\* The index knows no accounts: SearchQuery.account_ids is not used.
QueryIndex ==
  /\ pc = "index"
  /\ \E R \in Best(Matching, RawK(query)) : \E s \in Ranked(R) :
       hits' = SubSeq(s, 1, IF Len(s) < K(query) THEN Len(s) ELSE K(query))
  /\ seen' = docs
  /\ pc' = "rows"
  /\ UNCHANGED <<store, query, scoped, out, held, told>>

\* get_message of the next hit; the loop ends at limit.
LoadHit ==
  /\ pc = "rows" /\ hits # <<>> /\ Len(out) < Limit(query)
  /\ hits' = Tail(hits)
  /\ LET m == Head(hits)
     IN  out' = IF m \in rows /\ FilterMatch(m, query, scoped) THEN Append(out, m) ELSE out
  /\ UNCHANGED <<store, pc, query, scoped, seen, held, told>>

LoopEnds ==
  /\ pc = "rows"
  /\ hits = <<>> \/ Len(out) >= Limit(query)
  /\ pc' = "done"
  /\ UNCHANGED <<store, query, scoped, hits, out, seen, held, told>>

Forget ==
  /\ pc' = "idle" /\ query' = None /\ scoped' = {}
  /\ hits' = <<>> /\ out' = <<>> /\ seen' = {}

\* The answer goes to the client.
SearchReply ==
  /\ pc = "done"
  /\ held' \in {<<m, thread[m]>> : m \in ToSet(out)} \cup {held}
  /\ Forget
  /\ UNCHANGED <<store, told>>

\* A storage or index error: internal_error, no hits.
SearchFails ==
  /\ pc \in {"index", "rows"}
  /\ Forget
  /\ UNCHANGED <<store, held, told>>

(***************************************************************************)
(* The single-read tools                                                   *)
(***************************************************************************)

Readable(m) == m \in rows /\ Account(m) \in AllowedAccountIds

ThreadRows(t) == {m \in rows : thread[m] = t /\ Account(m) \in AllowedAccountIds}

\* not_found when the row is missing or foreign; the client may send any id.
GetMessage(m) ==
  /\ Readable(m)
  /\ held' = <<m, thread[m]>>
  /\ UNCHANGED <<store, search, told>>

\* The same guard; the answer carries the source and no thread.
GetRawMessage(m) ==
  /\ Readable(m)
  /\ held' = <<m, None>>
  /\ UNCHANGED <<store, search, told>>

GetThread(t) ==
  /\ ThreadRows(t) # {}
  /\ held' \in {<<m, t>> : m \in ThreadRows(t)}
  /\ UNCHANGED <<store, search, told>>

RetainAllowed(accounts) == {a \in accounts : a \in AllowedAccountIds}

ListAccounts ==
  /\ told' = RetainAllowed(Active)
  /\ UNCHANGED <<store, search, held>>

\* The accounts of status; their health is part of Serve.
Status ==
  /\ told' = RetainAllowed(Active)
  /\ UNCHANGED <<store, search, held>>

(***************************************************************************)
(* Specification                                                           *)
(***************************************************************************)

Init ==
  /\ rows = {} /\ thread = [m \in Mails |-> None] /\ docs = {}
  /\ pc = "idle" /\ query = None /\ scoped = {}
  /\ hits = <<>> /\ out = <<>> /\ seen = {}
  /\ held = None /\ told = {}

Next ==
  \/ \E m \in Mails : InsertMessage(m) \/ Submit(m)
  \/ \E q \in Queries : SearchCall(q)
  \/ QueryIndex \/ LoadHit \/ LoopEnds \/ SearchReply \/ SearchFails
  \/ \E m \in Mails : GetMessage(m) \/ GetRawMessage(m) \/ GetThread(m)
  \/ ListAccounts \/ Status

Spec == Init /\ [][Next]_vars

(***************************************************************************)
(* Properties                                                              *)
(***************************************************************************)

\* No answer of any tool carries a message or an account that is not both
\* active and the user's: in particular a search whose scope is empty must not
\* reach FilterMatch, where an empty account list means no filter.
ScopeHeld ==
  /\ held # None => Account(held[1]) \in Active \cap Owned
  /\ \A m \in ToSet(out) : Account(m) \in Active \cap Owned
  /\ told \subseteq Active \cap Owned

\* The score of message m in the index as the search read it; 0 is no match.
SeenScore(m) == LET s == {Score[d] : d \in {e \in seen : e[1] = m}} \cup {0}
                IN  CHOOSE x \in s : \A y \in s : x >= y

\* A finished search holds at most limit hits, best first, no message twice, and
\* misses a match it was asked for only when limit better ones are in the answer
\* or K other messages of the index rank as high: the cut by documents (raw_k),
\* the collapse by message and the cut by messages lose nothing else, whatever
\* is inserted and submitted meanwhile.
SearchExact ==
  pc = "done" /\ scoped # {} =>
    LET Wanted == {m \in Mails : SeenScore(m) > 0 /\ FilterMatch(m, query, scoped)}
        missed == Wanted \ ToSet(out)
    IN  /\ Len(out) <= Limit(query) /\ ToSet(out) \subseteq Wanted
        /\ \A i, j \in DOMAIN out :
             i < j => out[i] # out[j] /\ SeenScore(out[i]) >= SeenScore(out[j])
        /\ \A m \in missed :
             \/ Len(out) = Limit(query) /\ SeenScore(Last(out)) >= SeenScore(m)
             \/ Cardinality({x \in Mails \ {m} : SeenScore(x) >= SeenScore(m)}) >= K(query)

\* What a client was given stays good: a message id it holds still opens, and the
\* thread id that came with it still leads to a thread with that message in it,
\* whatever was fetched again or joined the thread since.
GivenIdsStayGood ==
  held # None => Readable(held[1]) /\ (held[2] # None => held[1] \in ThreadRows(held[2]))

\* A thread is one conversation of one account: its first message started it, and
\* every other message names a message of the same thread in its References or
\* its In-Reply-To.
ThreadRooted ==
  \A m \in rows :
    /\ thread[m] \in rows /\ thread[thread[m]] = thread[m]
    /\ Account(thread[m]) = Account(m)
    /\ thread[m] # m => \E r \in rows \ {m} : /\ thread[r] = thread[m]
                                              /\ Contains(Candidates(m[2]), r[2])

=============================================================================
