SPECIFICATION Spec
CONSTANTS
  None = None
  Accounts <- MCAccounts
  Active = {"mine", "other"}
  Owned = {"mine", "old"}
  Headers <- MCHeaders
  Mails <- MCMails
  References <- MCReferences
  InReplyTo <- MCInReplyTo
  Date <- MCDate
  Folder <- MCFolder
  Sender <- MCSender
  Segments <- MCSegments
  Score <- MCScore
  Queries <- MCQueries
  MaxSegments = 2
  KMin = 2
  KMultiplier = 1
  LimitMax = 2
  LimitDefault = 2
  DaySecs = 2
INVARIANTS
  TypeOK
  ScopeHeld
  SearchExact
  GivenIdsStayGood
  ThreadRooted
CHECK_DEADLOCK FALSE
