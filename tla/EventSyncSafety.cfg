\* Two pods and two policies, each with two contributions; all three caches
\* report that they are synced.
CONSTANTS
  n1 = n1
  n2 = n2
  i1 = i1
  i2 = i2
  None = None
  Names = {n1, n2}
  Infos = {i1, i2}
  EventKinds <- PodAndPolicy
  MaxEnsureFailures = 0
  MaySignal = FALSE
SPECIFICATION Spec
SYMMETRY Symmetry
INVARIANTS TypeOK LockDiscipline NoLostUpdate PendingIsOwned
PROPERTIES MirrorsRecorded
