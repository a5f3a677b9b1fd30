\* Two pods in one namespace and a third in another.
CONSTANTS
  p1 = p1
  p2 = p2
  p3 = p3
  a = a
  b = b
  x = x
  y = y
  l = l
  g = g
  h = h
  None = None
  Pods = {p1, p2, p3}
  Namespaces = {a, b}
  NamespaceOf <- Mixed
  IPs = {x, y}
  Labels = {l}
  NamespaceLabels = {g, h}
  ReuseAfterApply = TRUE
SPECIFICATION Spec
SYMMETRY AddressSymmetry
INVARIANTS TypeOK PodSetsExact NamespaceLabelSetsExact Converged
