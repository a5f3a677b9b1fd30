----------------------------- MODULE MCPodMaps -----------------------------
(* Instances of PodMaps for TLC.                                            *)
EXTENDS PodMaps, TLC

CONSTANTS p1, p2, p3, a, b, x, y, l, g, h

\* Two pods in one namespace, or a third in another.
Together == p1 :> a @@ p2 :> a
Mixed    == p1 :> a @@ p2 :> a @@ p3 :> b

AddressSymmetry == Permutations(IPs)
=============================================================================
