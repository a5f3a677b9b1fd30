SPECIFICATION Spec
CONSTANTS
  Addresses = {"a1", "a2", "b1", "gw", "net", "out"}
  Ports = {80, 443}
  Namespaces <- NamespacesMC
  Policies <- PoliciesMC
  Labels = {"web", "db"}
  NamespaceLabels = {"prod"}
  Cidrs = {"wide", "narrow"}
  Specs <- SpecsMC
  InNamespace <- InNamespaceMC
  WithLabel <- WithLabelMC
  WithNamespaceLabel <- WithNamespaceLabelMC
  InCidr <- InCidrMC
  FlannelNet = {"gw"}
  OptionSets <- OptionSetsMC
  None = None
  MaxFailures = 1
INVARIANTS TypeOK ChainsExact VerdictsExact
