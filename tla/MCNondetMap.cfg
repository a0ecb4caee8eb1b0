SPECIFICATION MCSpec
CONSTANTS
  SizeMax = 255
  EquivList <- MCEquivList
  EntryLists <- MCEntryLists
  Parsed <- MCParsed
  Keys <- MCKeys
CHECK_DEADLOCK FALSE
INVARIANTS
  LookupGoesByMeaning
