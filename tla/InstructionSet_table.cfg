SPECIFICATION DisasSpec
CONSTANTS
  Words <- MCWords
  Fetched <- MCFetched
INVARIANTS
  WritesAsTable
CHECK_DEADLOCK FALSE
