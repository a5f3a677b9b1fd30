---------------------------- MODULE MCEventSync ----------------------------
(* Instances of EventSync for TLC: two kinds deliver events, the third only *)
(* reports that its cache is synced.                                        *)
EXTENDS EventSync, TLC

CONSTANTS n1, n2, i1, i2

PodOnly         == {"pod"}
PodAndPolicy    == {"pod", "networkpolicy"}

Symmetry == Permutations(Infos) \cup Permutations(Names)
=============================================================================
