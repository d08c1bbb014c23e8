---------------------------- MODULE MCFolderSync ----------------------------
EXTENDS FolderSync, TLC

CONSTANTS inbox, sent, m1, m2, anon, draft, junk, h1

\* m1 and m2 are two bodies with one Message-ID (the copy in the Sent folder and
\* the one a list sent back); the others have no Message-ID, and junk does not
\* parse.
MCHeaderId == [m \in Mails |-> IF m \in {m1, m2} THEN h1 ELSE NoHeader]

\* Sound where no liveness property is checked: the two differ in their bodies only.
Interchangeable == Permutations({m1, m2})

\* Bound of the run over batches and epochs: which message has which UID.  Each
\* epoch has one that does not parse, and the same UIDs hold other messages after a
\* change of UIDVALIDITY; which of them arrive, are seen or are expunged, and when,
\* stays open.
Mailbox ==
  \A f \in Folders, u \in Uids :
    /\ ledger[<<f, 1, u>>] \in {NoMail, <<anon, junk, draft>>[u]}
    /\ ledger[<<f, 2, u>>] \in {NoMail, <<draft, anon, junk>>[u]}
=============================================================================
