------------------------------ MODULE MCServe ------------------------------
EXTENDS Serve

Account(id, user, folders) == [id |-> id, sound |-> TRUE, user |-> user, folders |-> folders]
File(accounts) == [readable |-> TRUE, sync |-> <<"in">>, accounts |-> accounts]

\* An account with more folders than connections, two of one login, one that
\* changed hands and names a folder twice, and a file that names an id twice.
MCConfigs ==
  {File(<<Account("a", "me", <<"x", "in">>), Account("b", "you", Unset)>>),
   File(<<Account("b", "me", Unset), Account("a", "me", <<"x">>)>>),
   File(<<Account("a", "you", <<"x", "x">>)>>),
   File(<<Account("a", "me", Unset), Account("a", "me", Unset)>>)}
=============================================================================
