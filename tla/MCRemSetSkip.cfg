SPECIFICATION RemSetSpec
CONSTANTS
  Storers = {s1, s2}
  Entries = {e1, e2, e3}
  NumChunks = 5
  EntriesPerChunk = 2
  MaxPasses = 1
INVARIANT EachRememberedEntry
