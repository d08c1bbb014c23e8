---------------------------- MODULE MCReadTools ----------------------------
EXTENDS ReadTools

\* The user's account, an older one of the user's that left the configuration,
\* and another person's.
MCAccounts == {"mine", "old", "other"}
MCHeaders  == {"h1", "h2", "h3"}
MCMails    == {<<"mine", "h1">>, <<"mine", "h2">>, <<"mine", "h3">>, <<"other", "h1">>}

\* h2 answers h1, and h3 answers h2 (its client keeps the whole chain).
MCReferences == [h \in MCHeaders |-> IF h = "h3" THEN <<"h1", "h2">> ELSE <<>>]
MCInReplyTo  == [h \in MCHeaders |-> IF h = "h2" THEN "h1" ELSE None]

MCDate     == [m \in MCMails |-> IF m[2] = "h1" THEN 1 ELSE IF m[2] = "h2" THEN 2 ELSE 4]
MCFolder   == [m \in MCMails |-> IF m[2] = "h2" THEN "sent" ELSE "inbox"]
MCSender   == [m \in MCMails |-> IF m[2] = "h2" THEN {"me"} ELSE {"bob"}]
MCSegments == [m \in MCMails |-> IF m = <<"mine", "h3">> THEN 1 ELSE 2]

\* The two segments of <<"other", "h1">> outrank all but one of the others.
MCScore ==
  [d \in MCMails \X (1 .. 2) |->
     CASE d[1] = <<"other", "h1">> -> 3 + d[2]
       [] d[1] = <<"mine", "h1">>  -> IF d[2] = 1 THEN 1 ELSE 6
       [] d[1] = <<"mine", "h2">>  -> 3
       [] OTHER                    -> 2]

Query(limit, accounts) ==
  [valid |-> TRUE, from |-> None, folder |-> None, since |-> None, until |-> None,
   accounts |-> accounts, limit |-> limit]

\* The interesting corners: no limit and an excessive one, a caller that names
\* only a foreign account, filters behind the cut, a window of one day.
MCQueries ==
  {Query(None, {}),
   Query(0, {"mine", "other"}),
   Query(9, {"other"}),
   [Query(None, {}) EXCEPT !.folder = "inbox", !.since = 1, !.until = 2],
   [Query(None, {}) EXCEPT !.from = "bob", !.valid = FALSE]}
=============================================================================
