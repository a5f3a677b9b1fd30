------------------------------- MODULE Mirror -------------------------------
(***************************************************************************)
(* What the maps of EnnPolicy promise, without locks, threads or batches:  *)
(* they mirror what the informers reported (recorded), and change only by  *)
(* catching up with all that is recorded of one or several kinds at once.  *)
(***************************************************************************)
CONSTANTS Kinds, Names, MaybeInfo, None

VARIABLES
  recorded,   \* recorded[k][n]: the last reported information of object n
  mirror      \* mirror[k][n]: the contributions of n in the maps of kind k

Init ==
  /\ recorded = [k \in Kinds |-> [n \in Names |-> None]]
  /\ mirror = [k \in Kinds |-> [n \in Names |-> {}]]

Record(k, n, v) ==
  /\ recorded' = [recorded EXCEPT ![k][n] = v]
  /\ UNCHANGED mirror

\* The maps of the kinds in K catch up, the others are left alone.
CatchUp(K) ==
  /\ mirror' = [k \in Kinds |->
                  IF k \in K THEN [n \in Names |-> {recorded[k][n]} \ {None}] ELSE mirror[k]]
  /\ UNCHANGED recorded

Next ==
  \/ \E k \in Kinds, n \in Names, v \in MaybeInfo : Record(k, n, v)
  \/ \E K \in SUBSET Kinds : CatchUp(K)

Spec == Init /\ [][Next]_<<recorded, mirror>>

FairSpec == Spec /\ \A k \in Kinds : WF_<<recorded, mirror>>(CatchUp({k}))

=============================================================================
