CONSTANTS
  inbox = inbox
  sent = sent
  m1 = m1
  m2 = m2
  draft = draft
  anon = anon
  junk = junk
  h1 = h1
  Folders = {inbox, sent}
  Mails = {m1}
  Unparseable = {}
  HeaderIds = {h1}
  HeaderId <- MCHeaderId
  NoHeader = NoHeader
  NoMail = NoMail
  NoRow = NoRow
  ReportsUidNext = {inbox, sent}
  BatchSize = 1
  ScanEvery = 2
  AllowCopies = TRUE
  LiveReset = FALSE
  TornUpdates = FALSE
  MaxUid = 1
  MaxEpoch = 1
  MaxFaults = 0
  MaxRestarts = 0

SPECIFICATION FairSpec
CHECK_DEADLOCK FALSE
PROPERTY ReachesIdle
