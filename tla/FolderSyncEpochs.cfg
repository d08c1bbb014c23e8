CONSTANTS
  inbox = inbox
  sent = sent
  m1 = m1
  m2 = m2
  draft = draft
  anon = anon
  junk = junk
  h1 = h1
  Folders = {inbox}
  Mails = {anon, draft, junk}
  Unparseable = {junk}
  HeaderIds = {h1}
  HeaderId <- MCHeaderId
  NoHeader = NoHeader
  NoMail = NoMail
  NoRow = NoRow
  ReportsUidNext = {inbox}
  BatchSize = 2
  ScanEvery = 2
  AllowCopies = FALSE
  LiveReset = FALSE
  TornUpdates = FALSE
  MaxUid = 3
  MaxEpoch = 2
  MaxFaults = 0
  MaxRestarts = 2

SPECIFICATION Spec
CHECK_DEADLOCK FALSE
INVARIANTS
  BackfillCovers
  WatermarkCovers
  PersistedWatermark
  RawMatchesRow
CONSTRAINT Mailbox
