SPECIFICATION Spec
CONSTANTS
  WordBits = 16
  Texts <- MCTexts
  YearOne <- MCYearOne
  YearTenThousand <- MCYearTenThousand
  NanosPerSecond = 100
  SentMessages <- MCSent
  NoiseMessages <- MCNoise
  MaxFieldsSet = 2
  Unknown <- MCUnknown
  Chunks <- MCChunks
  MaxChunks = 4
INVARIANTS
  RoundTrip
  SizeIsExact
  UnmarshalNeverPanics
  CutOffIsNoticed
  AcceptedSurvives
CHECK_DEADLOCK FALSE
