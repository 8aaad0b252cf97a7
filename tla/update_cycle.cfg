CONSTANTS
  t1 = t1
  c1 = c1
  Threads <- One
  Contexts <- OneContext
  CallsOf <- MCCalls
  DeviceId <- Id
  WorkBuffers <- MCWorkBuffers
  CONTEXT_SIZE = 512
  ALIGNMENT = 8
  UINT32 = 65536
  Params <- MCParams
  Images <- MCImages
  Desired <- MCDesired
  Faults = {"random", "key", "timeout", "corrupt"}
  Matching = FALSE
  MaxCalls <- MCMaxCalls
  Updater = t1
  Device_ = c1
  DownloadBuffer = 150
  Factory = 3
  MaxMisfortunes = 2
SPECIFICATION FairAgentSpec
INVARIANTS
  InstalledWhole
  UpdateApplied
PROPERTIES
  UpdateHappens
CHECK_DEADLOCK FALSE
