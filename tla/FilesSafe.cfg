SPECIFICATION FilesSpec
CONSTANTS
  File = {f1, f2, f3}
  Content = {c1, c2}
  None = none
  Fits <- AnySet
INVARIANTS FilesSound
PROPERTY AtomicUnlessRestoreCut
