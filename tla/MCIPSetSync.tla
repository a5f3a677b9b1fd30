---------------------------- MODULE MCIPSetSync ----------------------------
(* Small clusters for IPSetSync, in one namespace.                          *)
EXTENDS IPSetSync, TLC

CONSTANTS p1, n1, n2, a1, l1, l2, g1

InOne == [object \in Pods \cup Policies |-> a1]

\* A selector of one label or of two, or of none; peers by label of a pod or of
\* a namespace.
OneLabel  == [selector |-> {l1}, podPeers |-> {l2}, namespacePeers |-> {}]
TwoLabels == [selector |-> {l1, l2}, podPeers |-> {}, namespacePeers |-> {g1}]
AllPods   == [selector |-> {}, podPeers |-> {l1}, namespacePeers |-> {g1}]
BothPeers == [selector |-> {l1, l2}, podPeers |-> {l1}, namespacePeers |-> {g1}]

OneSpec  == {BothPeers}
TwoSpecs == {OneLabel, TwoLabels}
AllSpecs == {OneLabel, TwoLabels, AllPods}

PolicySymmetry == Permutations(Policies)
=============================================================================
