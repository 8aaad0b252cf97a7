CONSTANTS
  t1 = t1
  t2 = t2
  c1 = c1
  c2 = c2
  Threads <- Two
  Contexts <- OneContext
  CallsOf <- LargeCalls
  DeviceId <- LargeId
  WorkBuffers <- MCWorkBuffers
  CONTEXT_SIZE = 512
  ALIGNMENT = 8
  UINT32 = 1000000
  Params <- MCParams
  Images <- LargeImages
  Desired <- LargeDesired
  Faults <- NoFaults
  Matching = TRUE
  MaxCalls <- TwoOnly
SPECIFICATION Spec
INVARIANT ReplyFits
