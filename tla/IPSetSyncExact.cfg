SPECIFICATION Spec
CONSTANTS
  p1 = p1  n1 = n1  n2 = n2  a1 = a1  l1 = l1  l2 = l2  g1 = g1
  None = None
  Pods = {p1}
  Namespaces = {a1}
  Labels = {l1, l2}
  NamespaceLabels = {g1}
  Policies = {n1, n2}
  NamespaceOf <- InOne
  Specs <- AllSpecs
  SharedNames = {l1}
  MaxFailures = 0
  MaxCrashes = 1
  NamespaceOutlivesPolicies = TRUE
INVARIANT TypeOK EntriesExact ReferencesFollowed NoneMissing
PROPERTY UnusedDestroyed
SYMMETRY PolicySymmetry
