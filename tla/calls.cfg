SPECIFICATION Spec
CONSTANTS
  a = a
  b = b
  x1 = x1
  x2 = x2
  x3 = x3
  Caller = {a, b}
  Method <- MCMethod
  Program <- MCProgram
  Cancellable <- MCCancellable
  Export <- MCExport
  GoAnswer <- Answers
  restype <- Declared
  Address = {x1, x2, x3}
  Applications <- MCApplications
  MaxTries <- MCTries
  None = None
INVARIANTS TypeOK OwnAnswer BuffersFreed ErrorsReported NotTwice
CHECK_DEADLOCK FALSE
