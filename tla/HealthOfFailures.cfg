SPECIFICATION Spec
CONSTANTS
  Ids = {"a", "b"}
  Emails = {"me", "you"}
  Folders = {"in", "x"}
  Inbox = "in"
  Configs <- MCConfigs
  Unset = Unset
  NoRow = NoRow
  MaxConnections = 1
  Required = {"tokenizer", "gguf"}
  Latest = 1
  MaxStarts = 1
  MaxSessions = 1
INVARIANT
  HealthNamesResult
CHECK_DEADLOCK FALSE
