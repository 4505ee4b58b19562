SPECIFICATION Spec
CONSTANTS
  a1 = a1
  a2 = a2
  b1 = b1
  NoLine = NoLine
  Line <- MCLine
  Bank = {0, 1}
  BankOf <- MCBankOf
  Index = {0, 1}
  Tag = {0, 1}
  IndexOf <- MCIndexOf
  TagOf <- MCTagOf
  Tag0 = 0
  Word = {0, 7}
  Byte = {0, 1}
  ZeroByte = 0
  Ram0 <- MCRam0
  TRCD = 3
  TRP = 3
  Ratio = 4
  CpuRequests <- MCRequests
  DmaLines <- MCDmaLines
  RefreshPhases = {14}
INVARIANTS
  CacheCoherent
PROPERTIES
  ImplementsAtomicMemory
VIEW LiveState
