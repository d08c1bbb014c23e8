CONSTANTS
  inbox = inbox
  sent = sent
  m1 = m1
  m2 = m2
  draft = draft
  anon = anon
  junk = junk
  h1 = h1
  Folders = {inbox, sent}
  Mails = {m1, m2}
  Unparseable = {}
  HeaderIds = {h1}
  HeaderId <- MCHeaderId
  NoHeader = NoHeader
  NoMail = NoMail
  NoRow = NoRow
  ReportsUidNext = {inbox}
  BatchSize = 1
  ScanEvery = 2
  AllowCopies = TRUE
  LiveReset = FALSE
  TornUpdates = TRUE
  MaxUid = 1
  MaxEpoch = 1
  MaxFaults = 1
  MaxRestarts = 1

SPECIFICATION Spec
CHECK_DEADLOCK FALSE
INVARIANTS
  TypeOK
  RowHasRaw
  BackfillCovers
  WatermarkCovers
PROPERTIES
  RowIdentityStable
SYMMETRY Interchangeable
