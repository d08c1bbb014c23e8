SPECIFICATION FairSpec
CONSTANTS
  Ids = {"a", "b"}
  Emails = {"me", "you"}
  Folders = {"in", "x"}
  Inbox = "in"
  Configs <- MCConfigs
  Unset = Unset
  NoRow = NoRow
  MaxConnections = 1
  Required = {"tokenizer", "gguf"}
  Latest = 2
  MaxStarts = 2
  MaxSessions = 1
INVARIANTS
  TypeOK
  MirrorExact
  BundleKept
  LoginShows
  StopOrder
CHECK_DEADLOCK FALSE
PROPERTY
  StopCompletes
