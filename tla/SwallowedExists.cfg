CONSTANTS
  inbox = inbox
  sent = sent
  m1 = m1
  m2 = m2
  draft = draft
  anon = anon
  junk = junk
  h1 = h1
  Folders = {inbox}
  Mails = {anon}
  Unparseable = {}
  HeaderIds = {h1}
  HeaderId <- MCHeaderId
  NoHeader = NoHeader
  NoMail = NoMail
  NoRow = NoRow
  ReportsUidNext = {inbox}
  BatchSize = 1
  ScanEvery = 2
  AllowCopies = FALSE
  LiveReset = FALSE
  TornUpdates = FALSE
  MaxUid = 2
  MaxEpoch = 1
  MaxFaults = 0
  MaxRestarts = 0

SPECIFICATION FairSpec
CHECK_DEADLOCK FALSE
PROPERTY NewMailArchived
