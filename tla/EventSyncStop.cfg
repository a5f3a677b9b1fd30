\* A signal may arrive at any time while one informer keeps delivering events.
CONSTANTS
  n1 = n1
  n2 = n2
  i1 = i1
  i2 = i2
  None = None
  Names = {n1}
  Infos = {i1}
  EventKinds <- PodOnly
  MaxEnsureFailures = 1
  MaySignal = TRUE
SPECIFICATION FairSpec
PROPERTIES Shutdown
