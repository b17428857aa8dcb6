SPECIFICATION FairSpec
CONSTANTS
  a = a
  b = b
  c = c
  Requests <- MCRequests
  Need <- MCNeed
  Short <- MCShort
  DecodeBlocks = {1, 2}
  Replicas = {0, 1}
  PrefillPool = 2
  MaxDecode = 3
  MaxPrefill = 2
  Modes <- MCModes
INVARIANTS Bookkeeping TransferSafe PrefillSurvives 
PROPERTY AllSettles
