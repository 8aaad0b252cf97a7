CONSTANTS
  t1 = t1
  t2 = t2
  c1 = c1
  c2 = c2
  Threads <- Two
  Contexts <- OneContext
  CallsOf <- DownloadCalls
  DeviceId <- Device
  WorkBuffers <- MCWorkBuffers
  CONTEXT_SIZE = 512
  ALIGNMENT = 8
  UINT32 = 65536
  Params <- MCParams
  Images <- MCImages
  Desired <- MCDesired
  Faults = {"key"}
  Matching = TRUE
  MaxCalls <- FourOne
SPECIFICATION FairSpec
INVARIANTS
  CompleteMeansWhole
  SessionLock
PROPERTIES
  CallsReturn
  SessionStable
