SPECIFICATION Spec
CONSTANTS
  Target = 4
  MaxChars = 12
  Window = 2
  SnippetChars = 4
  BodyMaxBytes = 6
  SentinelBytes = 2
  MaxParts = 4
  MaxPartDepth = 2
  MaxDocument = 9
  MaxBody = 7
  MaxMail = 5
CHECK_DEADLOCK FALSE
INVARIANTS
  SegmentGuarantees
  SegmentCoverage
  SnippetGuarantees
  CapGuarantees
  DepthGuarantees
  ParseGuarantees
