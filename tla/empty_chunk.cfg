CONSTANTS
  t1 = t1
  t2 = t2
  c1 = c1
  c2 = c2
  Threads <- Two
  Contexts <- OneContext
  CallsOf <- EmptyChunkCalls
  DeviceId <- Device
  WorkBuffers <- MCWorkBuffers
  CONTEXT_SIZE = 512
  ALIGNMENT = 8
  UINT32 = 65536
  Params <- MCParams
  Images <- MCImages
  Desired <- MCDesired
  Faults <- NoFaults
  Matching = TRUE
  MaxCalls <- TwoOnly
SPECIFICATION Spec
INVARIANT ChunkProgress
