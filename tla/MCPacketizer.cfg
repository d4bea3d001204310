CONSTANTS
  Bytes <- MCBytes
  MaxChunk = 3
  MaxBytes = 5
SPECIFICATION FairPacketizerSpec
INVARIANTS
  PacketizerTypeOK
  ChunkingIrrelevant
  NoUnderflow
PROPERTIES
  KeepsBytes
  LoopEnds
