SPECIFICATION DisasSpec
CONSTANTS
  Words <- MCWords
  Fetched <- MCFetched
INVARIANTS
  DisasTypeOK
  DecodersAgree
  OffsetsAsManual
  TextAsManual
CHECK_DEADLOCK FALSE
