\* No failure and no signal: whatever is recorded reaches the maps.
CONSTANTS
  n1 = n1
  n2 = n2
  i1 = i1
  i2 = i2
  None = None
  Names = {n1}
  Infos = {i1}
  EventKinds <- PodAndPolicy
  MaxEnsureFailures = 0
  MaySignal = FALSE
SPECIFICATION FairSpec
PROPERTIES MirrorCatchesUp
