CONSTANTS
  UINT32 = 1073741824
  Devices = {1, 70000}
  Opcodes = {3}
  OperationSizes = {7, 8, 68, 240}
  BufferSizes = {128, 330}
  Nonces = {1}
  ServerHeaders <- MCServerHeaders
  Exchanges <- MCExchanges
  Builds = {TRUE, FALSE}
  Faults = {"random", "key", "encrypt"}
  MaxOperations = 3
SPECIFICATION Spec
INVARIANTS
  SealedCanonically
  OpensExactly
  OpenedFields
CHECK_DEADLOCK FALSE
