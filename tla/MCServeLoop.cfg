CONSTANTS
  cr = cr
  lf = lf
  i = i
  d = d
  c = c
  n = n
  CR = cr
  LF = lf
  Kind <- MCKind
  Bodies <- MCBodies
  RequestBytes = 2
  Capacity = 1
  MaxBytes = 5
SPECIFICATION FairSpec
INVARIANTS TypeOK FramingExact AnsweredOnce RevisionAnnounced
PROPERTIES ShutdownCompletes
