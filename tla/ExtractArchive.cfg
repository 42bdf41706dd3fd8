SPECIFICATION ArchiveFairSpec
CONSTANTS
  N = 4
  Cap = 2
  Paths <- MCPaths
  MaxEntries = 3
  MaxHops = 4
INVARIANTS NothingTruncated DigestFaithful RecordsMatch
PROPERTIES ExtractionEnds
