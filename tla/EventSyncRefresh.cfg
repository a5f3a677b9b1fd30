\* One ensure step fails once, and the change of the handler that failed stays
\* out of the maps for good.
CONSTANTS
  n1 = n1
  n2 = n2
  i1 = i1
  i2 = i2
  None = None
  Names = {n1}
  Infos = {i1}
  EventKinds <- PodOnly
  MaxEnsureFailures = 1
  MaySignal = FALSE
SPECIFICATION FairSpec
PROPERTIES RefreshRepairs
