\* An IP may go to another pod as soon as its release is reported.
CONSTANTS
  p1 = p1
  p2 = p2
  p3 = p3
  a = a
  b = b
  x = x
  y = y
  l = l
  g = g
  h = h
  None = None
  Pods = {p1, p2}
  Namespaces = {a}
  NamespaceOf <- Together
  IPs = {x, y}
  Labels = {l}
  NamespaceLabels = {g}
  ReuseAfterApply = FALSE
SPECIFICATION Spec
SYMMETRY AddressSymmetry
INVARIANTS Converged
