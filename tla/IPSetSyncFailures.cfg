SPECIFICATION FairSpec
CONSTANTS
  p1 = p1  n1 = n1  n2 = n2  a1 = a1  l1 = l1  l2 = l2  g1 = g1
  None = None
  Pods = {p1}
  Namespaces = {a1}
  Labels = {l1, l2}
  NamespaceLabels = {g1}
  Policies = {n1}
  NamespaceOf <- InOne
  Specs <- OneSpec
  SharedNames = {l1}
  MaxFailures = 1
  MaxCrashes = 0
  NamespaceOutlivesPolicies = TRUE
PROPERTY Repaired
