SPECIFICATION Spec
CONSTANTS
  NumBlocks = 4
  BlockSize = 2
  r1 = r1
  r2 = r2
  r3 = r3
  Requests = {r1, r2, r3}
  Stream <- Streams
  PromptLen <- Prompts
  ChunkSize = 3
  MaxBatch = 2
  Modes <- PassModes
INVARIANTS BlocksConserved CacheConsistent HitsRight KVHoldsPrefix ForwardFits ChainsWhole TokensInPlace
