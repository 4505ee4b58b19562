SPECIFICATION Spec
CONSTANTS
  a1 = a1
  a2 = a2
  b1 = b1
  NoLine = NoLine
  Line <- MCLine
  Bank = {0, 1}
  BankOf <- MCBankOf
  Word = {0}
  Byte = {0, 1}
  ZeroByte = 0
  Ram0 <- MCRam0
  TRCD = 3
  TRP = 3
  CpuRequests <- MCFewRequests
  DmaLines <- MCDmaLines
PROPERTIES
  ReservationHonoured
  RefreshMade
