CONSTANTS
  UINT32 = 1073741824
  Devices = {1, 70000}
  Opcodes = {3}
  OperationSizes = {7, 68, 240}
  BufferSizes = {128, 330}
  Nonces = {1}
  ServerHeaders <- MCServerHeaders
  Exchanges <- MCExchanges
  Builds = {TRUE}
  Faults = {"random"}
  MaxOperations = 1
SPECIFICATION Spec
INVARIANT CallbackUserdata
CHECK_DEADLOCK FALSE
