-------------------------- MODULE IPSetSync_proofs --------------------------
(***************************************************************************)
(* Theorems about IPSetSync, for every cluster, every set of policies and  *)
(* any number of crashes: its types; and, as long as no command fails,     *)
(* that what the rules match on is followed by the daemon, that no pod is  *)
(* missing from it, that before the first restart it is exact, and that    *)
(* SYNCALL leaves nothing else behind.                                     *)
(***************************************************************************)
EXTENDS IPSetSync, TLAPS

-----------------------------------------------------------------------------
(* The inductive invariant                                                 *)

\* The maps have the keys of every pod that the daemon has seen.
KeysKnown ==
  step # "down" =>
    \A p \in Pods : KeysOfPod(p, pods[p], namespaces[NamespaceOf[p]]) \subseteq keys

\* A label that an item names is one that some pod had: its key is there.
ChangedKnown ==
  \A a \in Namespaces, l \in Labels : LabelKey(a, l) \in changed => LabelKey(a, l) \in keys

\* syncNamespaceSets gives up only the sets of namespaces without a policy.
NoneGivenUp ==
  step = "namespaces" =>
    \A n \in Policies : policies[n] # None => NamespaceKey(NamespaceOf[n]) \notin changed

\* The two entries of podXLabelMap and podXLabelSet belong together.
SelectorsNamed ==
  \A n \in Policies :
    selectorSet[n] # None =>
      selectorSet[n] = SetName(SelectorKey(NamespaceOf[n], selectorOf[n].labels))

\* From syncPolicyRules on the active sets are those that the policies need, the
\* rules match on those that they should, and all of them exist.
Settled == step \notin {"down", "rules"}
RulesInstalled ==
  Settled =>
    /\ \A s \in SetNames : s \in active <=> \E n \in Enforced : s \in NeededSets(n, None)
    /\ \A s \in SetNames : s \in references <=> \E n \in Enforced : s \in MatchSets(n, None)
    /\ active \subseteq DOMAIN kernel

\* And the entries of the four maps lead to all of them.
AllTracked ==
  Settled =>
    \A n \in Enforced :
      /\ TrackedKeys(n, None) \subseteq tracked
      /\ policies[n].selector # {} =>
           /\ selectorOf[n] = [labels |-> policies[n].selector]
           /\ selectorSet[n] = SelectorSet(n)

\* Before the first restart a set has entries only if the map has its key.
EmptyUnknown ==
  crashes = 0 =>
    /\ \A k \in MapKeys \cap DOMAIN kernel : k \notin keys => kernel[k] = {}
    /\ step = "down" => DOMAIN kernel = {}

\* From syncAllPodSets on the sets hold what they should, apart from those that an
\* item under way is about.
Filled == step \in {"idle", "unused", "pods", "namespaces"}
Touched(n) == \E l \in policies[n].selector : LabelKey(NamespaceOf[n], l) \in changed

PolicyFilled(n) ==
  /\ \A k \in TrackedKeys(n, None) \ changed : Members(k) \subseteq kernel[k]
  /\ policies[n].selector # {} /\ ~Touched(n) => Selected(n) \subseteq kernel[SelectorSet(n)]

PolicyExact(n) ==
  /\ \A k \in TrackedKeys(n, None) \ changed : kernel[k] = Members(k)
  /\ policies[n].selector # {} /\ ~Touched(n) /\ Known(n) => kernel[SelectorSet(n)] = Selected(n)

SetsFilled == Filled => \A n \in Enforced : PolicyFilled(n)
SetsExact  == Filled /\ crashes = 0 => \A n \in Enforced : PolicyExact(n)

\* What a failed command may break holds as long as none has failed.
Clean == failures = 0
RulesInv ==
  /\ TypeOK /\ KeysKnown /\ ChangedKnown /\ SelectorsNamed
  /\ Clean => RulesInstalled /\ EmptyUnknown
SetsInv == RulesInv /\ NoneGivenUp /\ (Clean => AllTracked /\ SetsFilled /\ SetsExact)

-----------------------------------------------------------------------------
(* Keys and names                                                          *)

\* The keys of the three maps and of the selectors are told apart.
LEMMA KeysApart ==
  /\ \A a, b : NamespaceKey(a) = NamespaceKey(b) <=> a = b
  /\ \A a, b, l, m : LabelKey(a, l) = LabelKey(b, m) <=> a = b /\ l = m
  /\ \A g, h : NamespaceLabelKey(g) = NamespaceLabelKey(h) <=> g = h
  /\ \A a, b, l, m : SelectorKey(a, l) = SelectorKey(b, m) <=> a = b /\ l = m
  /\ \A a, b, l : NamespaceKey(a) # LabelKey(b, l)
  /\ \A a, g : NamespaceKey(a) # NamespaceLabelKey(g)
  /\ \A a, l, g : LabelKey(a, l) # NamespaceLabelKey(g)
  /\ \A a, b, l : NamespaceKey(a) # SelectorKey(b, l)
  /\ \A a, l, b, m : LabelKey(a, l) # SelectorKey(b, m)
  /\ \A g, b, m : NamespaceLabelKey(g) # SelectorKey(b, m)
  BY DEF NamespaceKey, LabelKey, NamespaceLabelKey, SelectorKey

LEMMA MapKeyCases ==
  \A k : k \in MapKeys <=>
    \/ \E a \in Namespaces : k = NamespaceKey(a)
    \/ \E a \in Namespaces, l \in Labels : k = LabelKey(a, l)
    \/ \E g \in NamespaceLabels : k = NamespaceLabelKey(g)
  BY DEF MapKeys, LabelKeys

LEMMA SelectorKeyCases ==
  \A k : k \in SelectorKeys <=> \E a \in Namespaces, ls \in SUBSET Labels : k = SelectorKey(a, ls)
  BY DEF SelectorKeys

\* The name of a set of a map is its key; that of a selector's set is the key of
\* the selector or, for a single shared label, that of the label.
LEMMA Names ==
  /\ \A k \in MapKeys : SetName(k) = k
  /\ \A a \in Namespaces, ls \in SUBSET Labels :
       \/ SetName(SelectorKey(a, ls)) = SelectorKey(a, ls)
       \/ \E l \in Labels : ls = {l} /\ SetName(SelectorKey(a, ls)) = LabelKey(a, l)
  <1>1. ASSUME NEW k \in MapKeys PROVE SetName(k) = k
    <2>1. k \notin SelectorKeys
      BY MapKeyCases, SelectorKeyCases, KeysApart
    <2> QED
      BY <2>1 DEF SetName
  <1>2. ASSUME NEW a \in Namespaces, NEW ls \in SUBSET Labels
        PROVE  \/ SetName(SelectorKey(a, ls)) = SelectorKey(a, ls)
               \/ \E l \in Labels : ls = {l} /\ SetName(SelectorKey(a, ls)) = LabelKey(a, l)
    <2>1. CASE \E l \in SharedNames : ls = {l}
      <3>1. SelectorKey(a, ls)[2] = a /\ SelectorKey(a, ls)[3] = ls
        BY DEF SelectorKey
      <3>2. PICK l \in SharedNames : ls = {l}
        BY <2>1
      <3>3. (CHOOSE m \in SharedNames : ls = {m}) = l
        BY <3>2
      <3> QED
        BY <3>1, <3>2, <3>3, SelectorKeyCases DEF SetName
    <2>2. CASE ~ \E l \in SharedNames : ls = {l}
      BY <2>2, SelectorKeyCases DEF SetName, SelectorKey
    <2> QED
      BY <2>1, <2>2
  <1> QED
    BY <1>1, <1>2

LEMMA NamesOfSelectors ==
  /\ \A a \in Namespaces, ls \in SUBSET Labels : SetName(SelectorKey(a, ls)) \in SetNames \ {None}
  /\ \A a, b \in Namespaces, ls, ms \in SUBSET Labels :
       SetName(SelectorKey(a, ls)) = SetName(SelectorKey(b, ms)) => a = b /\ ls = ms
  /\ \A a \in Namespaces, ls \in SUBSET Labels :
       SetName(SelectorKey(a, ls)) \in MapKeys =>
         \E l \in Labels : ls = {l} /\ SetName(SelectorKey(a, ls)) = LabelKey(a, l)
  <1>1. \A a \in Namespaces, ls \in SUBSET Labels : SelectorKey(a, ls) \notin MapKeys
    BY KeysApart, MapKeyCases
  <1>2. ASSUME NEW a \in Namespaces, NEW ls \in SUBSET Labels
        PROVE  SetName(SelectorKey(a, ls)) \in SetNames
    BY Names, SelectorKeyCases, MapKeyCases DEF SetNames
  <1> QED
    BY <1>1, <1>2, Names, KeysApart, NoneAssumption DEF SetNames

LEMMA MembersOf ==
  /\ \A a : Members(NamespaceKey(a)) = NamespacePods(a)
  /\ \A a, l : Members(LabelKey(a, l)) = LabelPods(a, l)
  /\ \A g : Members(NamespaceLabelKey(g)) = NamespaceLabelPods(g)
  BY DEF Members, NamespaceKey, LabelKey, NamespaceLabelKey

LEMMA MembersPods == \A k \in MapKeys : Members(k) \subseteq Pods
  BY MapKeyCases, MembersOf DEF NamespacePods, LabelPods, NamespaceLabelPods

-----------------------------------------------------------------------------
(* What a policy needs                                                     *)

LEMMA SpecTypes ==
  ASSUME TypeOK, NEW n \in Policies, policies[n] # None
  PROVE  /\ NamespaceOf[n] \in Namespaces
         /\ policies[n].selector \in SUBSET Labels
         /\ policies[n].podPeers \in SUBSET Labels
         /\ policies[n].namespacePeers \in SUBSET NamespaceLabels
  BY NamespaceOfAssumption, SpecsAssumption DEF TypeOK, MaybeSpec

LEMMA NeededTypes ==
  ASSUME TypeOK, NEW lost, NEW n \in Installed(lost)
  PROVE  /\ n \in Policies /\ NamespaceOf[n] \in Namespaces
         /\ TrackedKeys(n, lost) \subseteq MapKeys
         /\ PeerKeys(n, lost) \subseteq TrackedKeys(n, lost)
         /\ Labelled(n, policies[n].selector, lost) \in SUBSET Labels
         /\ SetName(SelectorOf(n, lost)) \in SetNames \ {None}
         /\ NeededSets(n, lost) \subseteq SetNames
         /\ CreatedSets(n, lost) \subseteq SetNames
         /\ MatchSets(n, lost) \subseteq SetNames
  <1>1. n \in Policies /\ policies[n] # None
    BY DEF Installed
  <1>2. NamespaceOf[n] \in Namespaces /\ Labelled(n, policies[n].selector, lost) \in SUBSET Labels
    BY <1>1, SpecTypes DEF Labelled
  <1>3. PodPeerKeys(n, lost) \subseteq MapKeys
    BY <1>1, SpecTypes, MapKeyCases DEF PodPeerKeys, Labelled
  <1>4. NamespacePeerKeys(n, lost) \subseteq MapKeys
    BY <1>1, SpecTypes, MapKeyCases DEF NamespacePeerKeys
  <1>5. TrackedKeys(n, lost) \subseteq MapKeys /\ PeerKeys(n, lost) \subseteq TrackedKeys(n, lost)
    BY <1>2, <1>3, <1>4, MapKeyCases DEF TrackedKeys, PeerKeys
  <1>6. SetName(SelectorOf(n, lost)) \in SetNames \ {None}
    BY <1>2, NamesOfSelectors DEF SelectorOf
  <1>7. SetName(SelectorKey(NamespaceOf[n], policies[n].selector)) \in SetNames
    BY <1>1, SpecTypes, NamesOfSelectors
  <1>8. NamespaceKey(NamespaceOf[n]) \in MapKeys /\ MapKeys \subseteq SetNames
    BY <1>2, MapKeyCases DEF SetNames
  <1>9. MatchSets(n, lost) \subseteq SetNames
    BY <1>5, <1>7, <1>8 DEF MatchSets
  <1>10. NeededSets(n, lost) \subseteq SetNames /\ CreatedSets(n, lost) \subseteq SetNames
    BY <1>5, <1>6, <1>8 DEF NeededSets, SelectorSets, CreatedSets
  <1> QED
    BY <1>1, <1>2, <1>5, <1>6, <1>9, <1>10

\* Without a creation that fails nothing is left out.
LEMMA NothingLost ==
  ASSUME TypeOK
  PROVE  /\ Installed(None) = Enforced
         /\ \A n \in Enforced :
              /\ Labelled(n, policies[n].selector, None) = policies[n].selector
              /\ n \in Selecting(None) <=> policies[n].selector # {}
              /\ SelectorOf(n, None) = SelectorKey(NamespaceOf[n], policies[n].selector)
              /\ SetName(SelectorOf(n, None)) = SelectorSet(n)
              /\ CreatedSets(n, None) = NeededSets(n, None)
              /\ MatchSets(n, None) \subseteq NeededSets(n, None)
  <1>1. \A n \in Policies, k \in SetNames : <<n, k>> # None
    BY NoneAssumption
  <1>2. Installed(None) = Enforced
    <2>1. \A n \in Policies : policies[n] # None => NamespaceKey(NamespaceOf[n]) \in SetNames
      BY SpecTypes, MapKeyCases DEF SetNames
    <2> QED
      BY <1>1, <2>1 DEF Installed, Enforced
  <1>3. ASSUME NEW n \in Enforced
        PROVE  /\ Labelled(n, policies[n].selector, None) = policies[n].selector
               /\ n \in Selecting(None) <=> policies[n].selector # {}
               /\ SelectorOf(n, None) = SelectorKey(NamespaceOf[n], policies[n].selector)
               /\ SetName(SelectorOf(n, None)) = SelectorSet(n)
               /\ CreatedSets(n, None) = NeededSets(n, None)
               /\ MatchSets(n, None) \subseteq NeededSets(n, None)
    <2>1. n \in Policies /\ policies[n] # None
      BY DEF Enforced
    <2>2. NamespaceOf[n] \in Namespaces /\ policies[n].selector \in SUBSET Labels
      BY <2>1, SpecTypes
    <2>3. \A l \in Labels : LabelKey(NamespaceOf[n], l) \in SetNames
      BY <2>2, MapKeyCases DEF SetNames
    <2>4. Labelled(n, policies[n].selector, None) = policies[n].selector
      BY <1>1, <2>1, <2>2, <2>3 DEF Labelled
    <2>5. n \in Selecting(None) <=> policies[n].selector # {}
      BY <1>2 DEF Selecting
    <2>6. SelectorOf(n, None) = SelectorKey(NamespaceOf[n], policies[n].selector)
      BY <2>4 DEF SelectorOf
    <2>7. <<n, SelectorOf(n, None)>> # None
      BY <1>1, <2>1, <2>2, <2>6, SelectorKeyCases DEF SetNames
    <2>8. CreatedSets(n, None) = NeededSets(n, None)
      BY <2>7 DEF CreatedSets
    <2>9. MatchSets(n, None) \subseteq NeededSets(n, None)
      BY <2>6 DEF MatchSets, NeededSets, SelectorSets, TrackedKeys
    <2> QED
      BY <2>4, <2>5, <2>6, <2>8, <2>9 DEF SelectorSet
  <1> QED
    BY <1>2, <1>3

\* The sets of an enforced policy, one by one.
LEMMA PolicySets ==
  ASSUME TypeOK, NEW n \in Enforced
  PROVE  /\ n \in Policies /\ policies[n] # None /\ NamespaceOf[n] \in Namespaces
         /\ policies[n].selector \in SUBSET Labels
         /\ NeededSets(n, None) \subseteq SetNames /\ MatchSets(n, None) \subseteq NeededSets(n, None)
         /\ MatchKeys(n) \subseteq TrackedKeys(n, None)
         /\ MatchKeys(n) \subseteq MatchSets(n, None)
         /\ TrackedKeys(n, None) \subseteq MapKeys
         /\ \A s : s \in NeededSets(n, None) <=>
                     \/ s \in TrackedKeys(n, None)
                     \/ policies[n].selector # {} /\ s = SelectorSet(n)
         /\ \A l \in policies[n].selector : LabelKey(NamespaceOf[n], l) \in TrackedKeys(n, None)
         /\ NamespaceKey(NamespaceOf[n]) \in MatchSets(n, None)
         /\ \A a : NamespaceKey(a) \in TrackedKeys(n, None) => a = NamespaceOf[n]
         /\ SelectorSet(n) \in SetNames \ {None}
  <1>1. n \in Policies /\ policies[n] # None /\ n \in Installed(None)
    BY NothingLost DEF Enforced
  <1>2. MatchKeys(n) \subseteq TrackedKeys(n, None) /\ MatchKeys(n) \subseteq MatchSets(n, None)
    BY DEF MatchKeys, TrackedKeys, MatchSets
  <1>3. \A s : s \in NeededSets(n, None) <=>
                 \/ s \in TrackedKeys(n, None)
                 \/ policies[n].selector # {} /\ s = SelectorSet(n)
    BY NothingLost DEF NeededSets, SelectorSets
  <1>4. \A l \in policies[n].selector : LabelKey(NamespaceOf[n], l) \in TrackedKeys(n, None)
    BY NothingLost DEF TrackedKeys
  <1>5. NamespaceKey(NamespaceOf[n]) \in MatchSets(n, None)
    BY DEF MatchSets
  <1>6. \A a : NamespaceKey(a) \in TrackedKeys(n, None) => a = NamespaceOf[n]
    BY KeysApart DEF TrackedKeys, PeerKeys, PodPeerKeys, NamespacePeerKeys
  <1> QED
    BY <1>1, <1>2, <1>3, <1>4, <1>5, <1>6, SpecTypes, NeededTypes, NothingLost

-----------------------------------------------------------------------------
(* What is written                                                         *)

LEMMA WriteTypes ==
  ASSUME TypeOK, NEW mapKeys \in SUBSET MapKeys, NEW owners \in SUBSET Policies
  PROVE  /\ DOMAIN Writes(mapKeys, owners) = mapKeys \cup {selectorSet[n] : n \in owners}
         /\ \A s \in DOMAIN Writes(mapKeys, owners) : Writes(mapKeys, owners)[s] \subseteq Pods
  <1> DEFINE names == {SetName(k) : k \in mapKeys} \cup {selectorSet[n] : n \in owners}
  <1>1. names = mapKeys \cup {selectorSet[n] : n \in owners}
    BY Names
  <1>2. DOMAIN Writes(mapKeys, owners) = names
    BY DEF Writes
  <1>3. ASSUME NEW s \in names PROVE Writes(mapKeys, owners)[s] \subseteq Pods
    BY <1>3, MembersPods DEF Writes, SelectorPods, NamespacePods
  <1> QED
    BY <1>1, <1>2, <1>3

\* Between and the kernel's own errors change the sets only within the pods.
LEMMA EntriesTyped ==
  ASSUME TypeOK, NEW existing \in SUBSET DOMAIN kernel, NEW writes,
         \A s \in DOMAIN writes : writes[s] \subseteq Pods,
         SyncIPSetEntries(existing, writes)
  PROVE  /\ DOMAIN kernel' = existing
         /\ \A s \in DOMAIN kernel' : kernel'[s] \subseteq Pods
         /\ failures' \in 0..MaxFailures
  <1>1. /\ DOMAIN Written(existing, writes) = existing
        /\ \A s \in existing : Written(existing, writes)[s] \subseteq Pods
    BY DEF Written, TypeOK
  <1>2. CASE NoFail /\ kernel' = Written(existing, writes)
    BY <1>1, <1>2 DEF NoFail, TypeOK
  <1>3. CASE /\ Fail
             /\ \E damaged \in DOMAIN writes \cap existing :
                  \E entries \in Between(kernel[damaged], writes[damaged]) :
                    kernel' = [Written(existing, writes) EXCEPT ![damaged] = entries]
    <2>1. PICK damaged \in DOMAIN writes \cap existing :
            \E entries \in Between(kernel[damaged], writes[damaged]) :
              kernel' = [Written(existing, writes) EXCEPT ![damaged] = entries]
      BY <1>3
    <2>2. PICK entries \in Between(kernel[damaged], writes[damaged]) :
            kernel' = [Written(existing, writes) EXCEPT ![damaged] = entries]
      BY <2>1
    <2>3. entries \subseteq Pods
      BY <2>1, <2>2 DEF Between, TypeOK
    <2>4. failures' \in 0..MaxFailures
      BY <1>3, BoundAssumption DEF Fail, TypeOK
    <2> QED
      BY <1>1, <2>2, <2>3, <2>4
  <1> QED
    BY <1>2, <1>3 DEF SyncIPSetEntries

-----------------------------------------------------------------------------
(* Types                                                                   *)

LEMMA TypeInit == Init => TypeOK
  BY BoundAssumption DEF Init, TypeOK, MaybePod, MaybeNamespace, MaybeSpec, NoSets

LEMMA KeyTypes ==
  ASSUME TypeOK
  PROVE  /\ \A p \in Pods, pod \in MaybePod :
              KeysOfPod(p, pod, namespaces[NamespaceOf[p]]) \subseteq MapKeys
         /\ \A a \in Namespaces, namespace \in MaybeNamespace :
              KeysOfNamespace(a, namespace) \subseteq MapKeys
  <1>1. \A p \in Pods : NamespaceOf[p] \in Namespaces /\ namespaces[NamespaceOf[p]] \in MaybeNamespace
    BY NamespaceOfAssumption DEF TypeOK
  <1>2. ASSUME NEW namespace \in MaybeNamespace, namespace # None
        PROVE  {NamespaceLabelKey(g) : g \in namespace.labels} \subseteq MapKeys
    BY <1>2, MapKeyCases DEF MaybeNamespace
  <1>3. ASSUME NEW p \in Pods, NEW pod \in MaybePod
        PROVE  KeysOfPod(p, pod, namespaces[NamespaceOf[p]]) \subseteq MapKeys
    BY <1>1, <1>2, MapKeyCases DEF KeysOfPod, MaybePod
  <1> QED
    BY <1>2, <1>3 DEF KeysOfNamespace

LEMMA TypeChangePod ==
  ASSUME TypeOK, NEW p \in Pods, NEW pod \in MaybePod, ChangePod(p, pod)
  PROVE  TypeOK'
  <1> DEFINE a == NamespaceOf[p]
             named(object) == IF object = None THEN {} ELSE {LabelKey(a, l) : l \in object.labels}
  <1>1. a \in Namespaces /\ pods[p] \in MaybePod /\ namespaces[a] \in MaybeNamespace
    BY NamespaceOfAssumption DEF TypeOK
  <1>2. \A object \in MaybePod : named(object) \subseteq MapKeys
    BY <1>1, MapKeyCases DEF MaybePod
  <1>3. namespaces[a] # None => {NamespaceLabelKey(g) : g \in namespaces[a].labels} \subseteq MapKeys
    BY <1>1, MapKeyCases DEF MaybeNamespace
  <1>4. pods' \in [Pods -> MaybePod] /\ keys' \subseteq MapKeys /\ changed' \subseteq MapKeys
    BY <1>1, <1>2, <1>3, KeyTypes, MapKeyCases DEF ChangePod, TypeOK
  <1>5. changed' # {} => step' \in {"pods", "namespaces"}
    BY DEF ChangePod, TypeOK
  <1>6. step' \in {"down", "idle", "pods", "namespaces", "rules", "entries", "unused"}
    BY DEF ChangePod, TypeOK
  <1> QED
    BY <1>4, <1>5, <1>6 DEF ChangePod, TypeOK, trackVars, kernelVars

LEMMA TypeChangeNamespace ==
  ASSUME TypeOK, NEW a \in Namespaces, NEW namespace \in MaybeNamespace,
         ChangeNamespace(a, namespace)
  PROVE  TypeOK'
  <1> DEFINE named(object) ==
               IF object = None THEN {} ELSE {NamespaceLabelKey(g) : g \in object.labels}
  <1>1. namespaces[a] \in MaybeNamespace
    BY DEF TypeOK
  <1>2. \A object \in MaybeNamespace : named(object) \subseteq MapKeys
    BY MapKeyCases DEF MaybeNamespace
  <1>3. /\ namespaces' \in [Namespaces -> MaybeNamespace]
        /\ keys' \subseteq MapKeys /\ changed' \subseteq MapKeys
    BY <1>1, <1>2, KeyTypes, MapKeyCases DEF ChangeNamespace, TypeOK
  <1>4. changed' # {} => step' \in {"pods", "namespaces"}
    BY DEF ChangeNamespace, TypeOK
  <1>5. step' \in {"down", "idle", "pods", "namespaces", "rules", "entries", "unused"}
    BY DEF ChangeNamespace, TypeOK
  <1> QED
    BY <1>3, <1>4, <1>5 DEF ChangeNamespace, TypeOK, trackVars, kernelVars

LEMMA TypeSync ==
  ASSUME TypeOK, SyncPodSets \/ SyncNamespaceSets
  PROVE  TypeOK'
  <1>1. ASSUME NEW candidates, candidates \subseteq tracked
        PROVE  LET writes == ChangedWrites(candidates)
               IN  \A s \in DOMAIN writes : writes[s] \subseteq Pods
    <2>1. (candidates \ Inactive(candidates)) \cap keys \in SUBSET MapKeys
      BY <1>1 DEF TypeOK
    <2>2. Owners \ Lapsed(Owners) \in SUBSET Policies
      BY DEF Owners
    <2> QED
      BY <2>1, <2>2, WriteTypes DEF ChangedWrites
  <1>2. CASE SyncPodSets
    <2>1. /\ DOMAIN kernel' = DOMAIN kernel
          /\ \A s \in DOMAIN kernel' : kernel'[s] \subseteq Pods
          /\ failures' \in 0..MaxFailures
      BY <1>1, <1>2, EntriesTyped DEF SyncPodSets
    <2>2. /\ selectorSet' \in [Policies -> SetNames \cup {None}]
          /\ \A n \in Policies : selectorSet'[n] # None => selectorOf'[n] # None
      BY <1>2 DEF SyncPodSets, TypeOK
    <2> QED
      BY <1>2, <2>1, <2>2 DEF SyncPodSets, TypeOK, clusterVars
  <1>3. CASE SyncNamespaceSets
    <2> DEFINE deleted == {k \in changed \cap tracked : k[1] = "namespace"}
               candidates == (changed \cap tracked) \ deleted
    <2>1. /\ candidates \subseteq tracked
          /\ DOMAIN kernel \ (deleted \ references) \in SUBSET DOMAIN kernel
      OBVIOUS
    <2>2. CASE SyncIPSetEntries(DOMAIN kernel \ (deleted \ references), ChangedWrites(candidates))
      <3>1. \A s \in DOMAIN ChangedWrites(candidates) : ChangedWrites(candidates)[s] \subseteq Pods
        BY <1>1, <2>1
      <3> QED
        BY <1>3, <2>1, <2>2, <3>1, EntriesTyped DEF SyncNamespaceSets, TypeOK, clusterVars
    <2>3. CASE Fail /\ kernel' = Written(DOMAIN kernel, ChangedWrites(candidates))
      <3>1. \A s \in DOMAIN ChangedWrites(candidates) : ChangedWrites(candidates)[s] \subseteq Pods
        BY <1>1, <2>1
      <3>2. DOMAIN kernel' = DOMAIN kernel /\ \A s \in DOMAIN kernel' : kernel'[s] \subseteq Pods
        BY <2>3, <3>1 DEF Written, TypeOK
      <3>3. failures' \in 0..MaxFailures
        BY <2>3, BoundAssumption DEF Fail, TypeOK
      <3> QED
        BY <1>3, <3>2, <3>3 DEF SyncNamespaceSets, TypeOK, clusterVars
    <2> QED
      BY <1>3, <2>2, <2>3 DEF SyncNamespaceSets
  <1> QED
    BY <1>2, <1>3

LEMMA TypeSyncPolicyRules ==
  ASSUME TypeOK, SyncPolicyRules
  PROVE  TypeOK'
  <1>1. PICK lost \in Creations \cup {None}, failed \in {"none", "save", "restore"} :
          LET installed == Installed(lost)
              existing == DOMAIN kernel \cup UNION {CreatedSets(n, lost) : n \in installed}
              matched  == UNION {MatchSets(n, lost) : n \in installed}
          IN
          /\ lost = None \/ failed = "none"
          /\ IF lost = None /\ failed = "none" THEN NoFail ELSE Fail
          /\ active' = UNION {NeededSets(n, lost) : n \in installed}
          /\ tracked' = tracked \cup UNION {TrackedKeys(n, lost) : n \in installed}
          /\ selectorOf' = [n \in Policies |->
                              IF n \in Selecting(lost) THEN [labels |-> SelectorOf(n, lost)[3]]
                              ELSE selectorOf[n]]
          /\ selectorSet' = [n \in Policies |->
                               IF n \in Selecting(lost) THEN SetName(SelectorOf(n, lost))
                               ELSE selectorSet[n]]
          /\ kernel' = [s \in existing |-> IF s \in DOMAIN kernel THEN kernel[s] ELSE {}]
          /\ IF failed = "restore" THEN references' = references
             ELSE Restore(matched, existing, failed # "save")
    BY DEF SyncPolicyRules
  <1>2. \A n \in Installed(lost) :
          /\ TrackedKeys(n, lost) \subseteq MapKeys /\ NeededSets(n, lost) \subseteq SetNames
          /\ CreatedSets(n, lost) \subseteq SetNames /\ MatchSets(n, lost) \subseteq SetNames
          /\ SetName(SelectorOf(n, lost)) \in SetNames
          /\ SelectorOf(n, lost)[3] \in SUBSET Labels
    BY NeededTypes DEF SelectorOf, SelectorKey
  <1>3. active' \subseteq SetNames /\ tracked' \subseteq MapKeys
    BY <1>1, <1>2 DEF TypeOK
  <1>4. /\ selectorOf' \in [Policies -> [labels : SUBSET Labels] \cup {None}]
        /\ selectorSet' \in [Policies -> SetNames \cup {None}]
    BY <1>1, <1>2 DEF TypeOK, Selecting
  <1>5. \A n \in Policies : selectorSet'[n] # None => selectorOf'[n] # None
    <2>1. \A labels \in SUBSET Labels : [labels |-> labels] # None
      BY NoneAssumption
    <2> QED
      BY <1>1, <1>2, <2>1 DEF TypeOK, Selecting
  <1>6. DOMAIN kernel' \subseteq SetNames /\ \A s \in DOMAIN kernel' : kernel'[s] \subseteq Pods
    BY <1>1, <1>2 DEF TypeOK
  <1>7. references' \subseteq SetNames
    BY <1>1, <1>2 DEF Restore, TypeOK
  <1>8. failures' \in 0..MaxFailures
    BY <1>1, BoundAssumption DEF Fail, NoFail, TypeOK
  <1> QED
    BY <1>3, <1>4, <1>5, <1>6, <1>7, <1>8 DEF SyncPolicyRules, TypeOK, clusterVars

LEMMA TypeNext == TypeOK /\ [Next]_vars => TypeOK'
  <1> SUFFICES ASSUME TypeOK, [Next]_vars PROVE TypeOK'
    OBVIOUS
  <1>1. CASE \E p \in Pods, pod \in MaybePod : ChangePod(p, pod)
    BY <1>1, TypeChangePod
  <1>2. CASE \E a \in Namespaces, namespace \in MaybeNamespace : ChangeNamespace(a, namespace)
    BY <1>2, TypeChangeNamespace
  <1>3. CASE \E n \in Policies, spec \in MaybeSpec : ChangePolicy(n, spec)
    BY <1>3 DEF ChangePolicy, TypeOK, trackVars, kernelVars
  <1>4. CASE Start
    <2>1. keys' \subseteq MapKeys
      BY <1>4, KeyTypes DEF Start, TypeOK
    <2> QED
      BY <1>4, <2>1 DEF Start, TypeOK, clusterVars, trackVars, kernelVars
  <1>5. CASE SyncPodSets \/ SyncNamespaceSets
    BY <1>5, TypeSync
  <1>6. CASE SyncPolicyRules
    BY <1>6, TypeSyncPolicyRules
  <1>7. CASE SyncAllPodSets
    <2> DEFINE owners == {n \in Policies : /\ selectorOf[n] # None /\ selectorSet[n] # None
                                           /\ Valid(NamespaceOf[n], selectorOf[n].labels) # {}}
    <2>1. tracked \cap keys \in SUBSET MapKeys /\ owners \in SUBSET Policies
      BY DEF TypeOK
    <2>2. \A s \in DOMAIN Writes(tracked \cap keys, owners) :
            Writes(tracked \cap keys, owners)[s] \subseteq Pods
      BY <2>1, WriteTypes
    <2>3. SyncIPSetEntries(DOMAIN kernel, Writes(tracked \cap keys, owners))
      BY <1>7 DEF SyncAllPodSets
    <2>4. /\ DOMAIN kernel' = DOMAIN kernel
          /\ \A s \in DOMAIN kernel' : kernel'[s] \subseteq Pods
          /\ failures' \in 0..MaxFailures
      BY <2>2, <2>3, EntriesTyped
    <2> QED
      BY <1>7, <2>4 DEF SyncAllPodSets, TypeOK, clusterVars, trackVars
  <1>8. CASE CheckUnusedIPSets
    <2>1. failures' \in 0..MaxFailures
      BY <1>8, BoundAssumption DEF CheckUnusedIPSets, Fail, NoFail, TypeOK
    <2>2. DOMAIN kernel' \subseteq DOMAIN kernel /\ \A s \in DOMAIN kernel' : kernel'[s] = kernel[s]
      BY <1>8 DEF CheckUnusedIPSets
    <2> QED
      BY <1>8, <2>1, <2>2 DEF CheckUnusedIPSets, TypeOK, clusterVars
  <1>9. CASE CheckUnusedFails
    BY <1>9, BoundAssumption DEF CheckUnusedFails, Fail, TypeOK, clusterVars, trackVars, kernelVars
  <1>10. CASE Tick
    BY <1>10 DEF Tick, TypeOK, clusterVars, trackVars, kernelVars
  <1>11. CASE Crash
    BY <1>11, BoundAssumption DEF Crash, TypeOK, clusterVars, kernelVars
  <1>12. CASE UNCHANGED vars
    BY <1>12 DEF vars, TypeOK
  <1> QED
    BY <1>1, <1>2, <1>3, <1>4, <1>5, <1>6, <1>7, <1>8, <1>9, <1>10, <1>11, <1>12
    DEF Next, Cluster, Sync

\* policy.go: whatever fails and whenever the daemon dies, every variable keeps its
\* type, and an entry of podXLabelSet has one of podXLabelMap.
THEOREM TypeCorrect == Spec => []TypeOK
  BY TypeInit, TypeNext, PTL DEF Spec

-----------------------------------------------------------------------------
(* Keys, items and names                                                   *)

LEMMA KeysKnownNext ==
  ASSUME TypeOK, KeysKnown, [Next]_vars
  PROVE  KeysKnown'
  <1>1. ASSUME NEW p \in Pods, NEW pod \in MaybePod, ChangePod(p, pod)
        PROVE  KeysKnown'
    <2>1. CASE step = "down"
      BY <1>1, <2>1 DEF ChangePod, KeysKnown
    <2>2. CASE step # "down"
      <3>1. ASSUME NEW q \in Pods
            PROVE  KeysOfPod(q, pods'[q], namespaces[NamespaceOf[q]]) \subseteq keys'
        BY <1>1, <2>2 DEF ChangePod, KeysKnown, TypeOK
      <3> QED
        BY <1>1, <3>1 DEF ChangePod, KeysKnown
    <2> QED
      BY <2>1, <2>2
  <1>2. ASSUME NEW a \in Namespaces, NEW namespace \in MaybeNamespace, ChangeNamespace(a, namespace)
        PROVE  KeysKnown'
    <2>1. CASE step = "down"
      BY <1>2, <2>1 DEF ChangeNamespace, KeysKnown
    <2>2. CASE step # "down"
      <3>1. ASSUME NEW p \in Pods
            PROVE  KeysOfPod(p, pods[p], namespaces'[NamespaceOf[p]]) \subseteq keys'
        <4>1. KeysOfPod(p, pods[p], namespaces[NamespaceOf[p]]) \subseteq keys
              /\ keys' = keys \cup KeysOfNamespace(a, namespace)
          BY <1>2, <2>2 DEF ChangeNamespace, KeysKnown
        <4>2. CASE NamespaceOf[p] # a
          BY <1>2, <4>1, <4>2 DEF ChangeNamespace, TypeOK
        <4>3. CASE NamespaceOf[p] = a
          <5>1. namespaces'[NamespaceOf[p]] = namespace
            BY <1>2, <4>3 DEF ChangeNamespace, TypeOK
          <5> QED
            BY <4>1, <4>3, <5>1 DEF KeysOfPod, KeysOfNamespace
        <4> QED
          BY <4>2, <4>3
      <3> QED
        BY <1>2, <3>1 DEF ChangeNamespace, KeysKnown
    <2> QED
      BY <2>1, <2>2
  <1>3. CASE Start
    BY <1>3 DEF Start, KeysKnown, clusterVars
  <1>4. CASE \/ SyncPodSets \/ SyncNamespaceSets \/ SyncPolicyRules \/ SyncAllPodSets
             \/ CheckUnusedIPSets \/ CheckUnusedFails \/ Tick \/ UNCHANGED vars
    <2>1. UNCHANGED <<pods, namespaces, keys>> /\ (step' # "down" => step # "down")
      BY <1>4 DEF SyncPodSets, SyncNamespaceSets, SyncPolicyRules, SyncAllPodSets,
                  CheckUnusedIPSets, CheckUnusedFails, Tick, vars, clusterVars
    <2> QED
      BY <2>1 DEF KeysKnown
  <1>5. CASE Crash
    BY <1>5 DEF Crash, KeysKnown
  <1>6. ASSUME NEW n \in Policies, NEW spec \in MaybeSpec, ChangePolicy(n, spec)
        PROVE  KeysKnown'
    BY <1>6 DEF ChangePolicy, KeysKnown
  <1> QED
    BY <1>1, <1>2, <1>3, <1>4, <1>5, <1>6 DEF Next, Cluster, Sync

LEMMA ChangedKnownNext ==
  ASSUME TypeOK, KeysKnown, ChangedKnown, [Next]_vars
  PROVE  ChangedKnown'
  <1>1. ASSUME NEW p \in Pods, NEW pod \in MaybePod, ChangePod(p, pod)
        PROVE  ChangedKnown'
    <2>1. CASE step = "down"
      BY <1>1, <2>1 DEF ChangePod, ChangedKnown
    <2>2. CASE step # "down"
      <3> DEFINE a == NamespaceOf[p]
                 named(object) == IF object = None THEN {} ELSE {LabelKey(a, l) : l \in object.labels}
      <3>1. named(pods[p]) \subseteq keys /\ keys' = keys \cup KeysOfPod(p, pod, namespaces[a])
        BY <1>1, <2>2 DEF ChangePod, KeysKnown, KeysOfPod
      <3>2. named(pod) \subseteq keys'
        BY <3>1 DEF KeysOfPod
      <3>3. changed' = named(pods[p]) \cup named(pod) \cup {NamespaceKey(a)}
                         \cup (IF namespaces[a] = None THEN {}
                               ELSE {NamespaceLabelKey(g) : g \in namespaces[a].labels})
        BY <1>1, <2>2 DEF ChangePod
      <3>4. \A b \in Namespaces, l \in Labels :
              LabelKey(b, l) \in changed' => LabelKey(b, l) \in named(pods[p]) \cup named(pod)
        BY <3>3, KeysApart
      <3>5. named(pods[p]) \cup named(pod) \subseteq keys'
        BY <3>1, <3>2
      <3> HIDE DEF named
      <3> QED
        BY <3>4, <3>5 DEF ChangedKnown
    <2> QED
      BY <2>1, <2>2
  <1>2. ASSUME NEW a \in Namespaces, NEW namespace \in MaybeNamespace, ChangeNamespace(a, namespace)
        PROVE  ChangedKnown'
    <2>1. CASE step = "down"
      BY <1>2, <2>1 DEF ChangeNamespace, ChangedKnown
    <2>2. CASE step # "down"
      <3>1. \A b \in Namespaces, l \in Labels : LabelKey(b, l) \notin changed'
        BY <1>2, <2>2, KeysApart DEF ChangeNamespace
      <3> QED
        BY <3>1 DEF ChangedKnown
    <2> QED
      BY <2>1, <2>2
  <1>3. CASE Start \/ SyncPodSets \/ SyncNamespaceSets \/ Crash
    BY <1>3 DEF Start, SyncPodSets, SyncNamespaceSets, Crash, ChangedKnown, TypeOK
  <1>4. CASE \/ SyncPolicyRules \/ SyncAllPodSets
             \/ CheckUnusedIPSets \/ CheckUnusedFails \/ Tick \/ UNCHANGED vars
    BY <1>4 DEF SyncPolicyRules, SyncAllPodSets, CheckUnusedIPSets, CheckUnusedFails, Tick, vars,
                ChangedKnown
  <1>5. ASSUME NEW n \in Policies, NEW spec \in MaybeSpec, ChangePolicy(n, spec)
        PROVE  ChangedKnown'
    BY <1>5 DEF ChangePolicy, ChangedKnown
  <1> QED
    BY <1>1, <1>2, <1>3, <1>4, <1>5 DEF Next, Cluster, Sync

\* The items of a deleted namespace name it only when no policy of it is left.
LEMMA NoneGivenUpNext ==
  ASSUME NamespaceOutlivesPolicies, TypeOK, NoneGivenUp, [Next]_vars
  PROVE  NoneGivenUp'
  <1>1. ASSUME NEW p \in Pods, NEW pod \in MaybePod, ChangePod(p, pod)
        PROVE  NoneGivenUp'
    BY <1>1 DEF ChangePod, NoneGivenUp
  <1>2. ASSUME NEW a \in Namespaces, NEW namespace \in MaybeNamespace, ChangeNamespace(a, namespace)
        PROVE  NoneGivenUp'
    <2>1. \A b : NamespaceKey(b) \in changed' /\ step' = "namespaces" => b = a /\ namespace = None
      BY <1>2, KeysApart DEF ChangeNamespace
    <2> QED
      BY <1>2, <2>1, NamespaceOutlivesPolicies DEF ChangeNamespace, NoneGivenUp
  <1>3. CASE Start \/ SyncPodSets \/ SyncNamespaceSets \/ Crash \/ SyncPolicyRules \/ SyncAllPodSets
             \/ CheckUnusedIPSets \/ CheckUnusedFails \/ Tick
    <2>1. step' # "namespaces"
      BY <1>3 DEF Start, SyncPodSets, SyncNamespaceSets, Crash, SyncPolicyRules, SyncAllPodSets,
                  CheckUnusedIPSets, CheckUnusedFails, Tick
    <2> QED
      BY <2>1 DEF NoneGivenUp
  <1>4. ASSUME NEW n \in Policies, NEW spec \in MaybeSpec, ChangePolicy(n, spec)
        PROVE  NoneGivenUp'
    BY <1>4 DEF ChangePolicy, NoneGivenUp
  <1>5. CASE UNCHANGED vars
    BY <1>5 DEF vars, NoneGivenUp
  <1> QED
    BY <1>1, <1>2, <1>3, <1>4, <1>5 DEF Next, Cluster, Sync

LEMMA SelectorsNamedNext ==
  ASSUME TypeOK, SelectorsNamed, [Next]_vars
  PROVE  SelectorsNamed'
  <1>1. CASE SyncPolicyRules
    <2>1. PICK lost \in Creations \cup {None} :
            /\ selectorOf' = [n \in Policies |->
                                IF n \in Selecting(lost) THEN [labels |-> SelectorOf(n, lost)[3]]
                                ELSE selectorOf[n]]
            /\ selectorSet' = [n \in Policies |->
                                 IF n \in Selecting(lost) THEN SetName(SelectorOf(n, lost))
                                 ELSE selectorSet[n]]
      BY <1>1 DEF SyncPolicyRules
    <2>2. \A n : SelectorOf(n, lost) = SelectorKey(NamespaceOf[n], SelectorOf(n, lost)[3])
      BY DEF SelectorOf, SelectorKey
    <2> HIDE DEF SelectorOf
    <2> QED
      BY <2>1, <2>2 DEF SelectorsNamed
  <1>2. CASE SyncPodSets \/ CheckUnusedIPSets \/ Crash
    BY <1>2 DEF SyncPodSets, CheckUnusedIPSets, Crash, SelectorsNamed, TypeOK
  <1>3. UNCHANGED <<selectorOf, selectorSet>> => SelectorsNamed'
    BY DEF SelectorsNamed
  <1>4. CASE Start \/ SyncNamespaceSets \/ SyncAllPodSets \/ CheckUnusedFails \/ Tick \/ UNCHANGED vars
    BY <1>3, <1>4 DEF Start, SyncNamespaceSets, SyncAllPodSets, CheckUnusedFails, Tick, vars, trackVars
  <1>5. CASE Cluster
    BY <1>3, <1>5 DEF Cluster, ChangePod, ChangeNamespace, ChangePolicy, trackVars
  <1> QED
    BY <1>1, <1>2, <1>4, <1>5 DEF Next, Sync

-----------------------------------------------------------------------------
(* What is written is right                                                *)

\* By whichever path a set is written, as that of a key or as that of a selector
\* with a known label, it gets what both stand for.
LEMMA WritesRight ==
  ASSUME TypeOK, SelectorsNamed,
         NEW mapKeys \in SUBSET (MapKeys \cap keys), NEW owners \in SUBSET Policies,
         \A n \in owners : /\ selectorSet[n] # None
                           /\ Valid(NamespaceOf[n], selectorOf[n].labels) # {},
         NEW writes, writes = Writes(mapKeys, owners)
  PROVE  /\ \A k \in MapKeys \cap DOMAIN writes : k \in keys /\ writes[k] = Members(k)
         /\ \A n \in Policies :
              selectorSet[n] # None /\ selectorSet[n] \in DOMAIN writes =>
                writes[selectorSet[n]] = SelectorPods(NamespaceOf[n], selectorOf[n].labels)
  <1>1. /\ DOMAIN writes = mapKeys \cup {selectorSet[n] : n \in owners}
        /\ \A s \in DOMAIN writes :
             IF s \in mapKeys THEN writes[s] = Members(s)
             ELSE \E n \in owners : /\ selectorSet[n] = s
                                    /\ writes[s] = SelectorPods(NamespaceOf[n], selectorOf[n].labels)
    <2>1. DOMAIN writes = mapKeys \cup {selectorSet[n] : n \in owners}
      BY WriteTypes
    <2>2. ASSUME NEW s \in DOMAIN writes, s \in mapKeys
          PROVE  writes[s] = Members(s)
      BY <2>2 DEF Writes
    <2>3. ASSUME NEW s \in DOMAIN writes, s \notin mapKeys
          PROVE  \E n \in owners : /\ selectorSet[n] = s
                                   /\ writes[s] = SelectorPods(NamespaceOf[n], selectorOf[n].labels)
      <3> DEFINE n == CHOOSE m \in owners : selectorSet[m] = s
      <3>1. n \in owners /\ selectorSet[n] = s
        BY <2>1, <2>3
      <3>2. writes[s] = SelectorPods(NamespaceOf[n], selectorOf[n].labels)
        BY <2>3 DEF Writes
      <3> QED
        BY <3>1, <3>2
    <2> QED
      BY <2>1, <2>2, <2>3
  <1>2. \A n \in Policies :
          selectorSet[n] # None =>
            /\ NamespaceOf[n] \in Namespaces /\ selectorOf[n].labels \in SUBSET Labels
            /\ selectorSet[n] = SetName(SelectorKey(NamespaceOf[n], selectorOf[n].labels))
    BY NamespaceOfAssumption DEF TypeOK, SelectorsNamed
  <1>3. \A m, n \in Policies :
          selectorSet[m] # None /\ selectorSet[m] = selectorSet[n] =>
            NamespaceOf[m] = NamespaceOf[n] /\ selectorOf[m].labels = selectorOf[n].labels
    BY <1>2, NamesOfSelectors
  <1>4. ASSUME NEW n \in Policies, selectorSet[n] # None, selectorSet[n] \in MapKeys
        PROVE  /\ selectorSet[n] \in keys =>
                    SelectorPods(NamespaceOf[n], selectorOf[n].labels) = Members(selectorSet[n])
               /\ Valid(NamespaceOf[n], selectorOf[n].labels) # {} => selectorSet[n] \in keys
    <2>1. PICK l \in Labels : /\ selectorOf[n].labels = {l}
                              /\ selectorSet[n] = LabelKey(NamespaceOf[n], l)
      BY <1>2, <1>4, NamesOfSelectors
    <2>2. selectorSet[n] \in keys => Valid(NamespaceOf[n], selectorOf[n].labels) = {l}
      BY <2>1 DEF Valid
    <2>3. Members(selectorSet[n]) = LabelPods(NamespaceOf[n], l)
      BY <2>1, MembersOf
    <2>4. Valid(NamespaceOf[n], selectorOf[n].labels) # {} => selectorSet[n] \in keys
      BY <2>1 DEF Valid
    <2>5. selectorSet[n] \in keys =>
            SelectorPods(NamespaceOf[n], selectorOf[n].labels) = Members(selectorSet[n])
      BY <2>2, <2>3 DEF SelectorPods, LabelPods
    <2> QED
      BY <2>4, <2>5
  <1>5. ASSUME NEW k \in MapKeys \cap DOMAIN writes
        PROVE  k \in keys /\ writes[k] = Members(k)
    <2>1. CASE k \in mapKeys
      BY <1>1, <2>1
    <2>2. CASE k \notin mapKeys
      <3>1. PICK n \in owners : /\ selectorSet[n] = k
                               /\ writes[k] = SelectorPods(NamespaceOf[n], selectorOf[n].labels)
        BY <1>1, <2>2
      <3> QED
        BY <1>4, <3>1
    <2> QED
      BY <2>1, <2>2
  <1>6. ASSUME NEW n \in Policies, selectorSet[n] # None, selectorSet[n] \in DOMAIN writes
        PROVE  writes[selectorSet[n]] = SelectorPods(NamespaceOf[n], selectorOf[n].labels)
    <2>1. CASE selectorSet[n] \in mapKeys
      BY <1>1, <1>4, <1>6, <2>1
    <2>2. CASE selectorSet[n] \notin mapKeys
      BY <1>1, <1>3, <1>6, <2>2
    <2> QED
      BY <2>1, <2>2
  <1> QED
    BY <1>5, <1>6

\* What syncPodSets and syncNamespaceSets write, and what syncAllPodSets writes.
AllOwners == {n \in Policies : /\ selectorOf[n] # None /\ selectorSet[n] # None
                               /\ Valid(NamespaceOf[n], selectorOf[n].labels) # {}}
AllWrites == Writes(tracked \cap keys, AllOwners)

LEMMA AllWritesRight ==
  ASSUME TypeOK, SelectorsNamed, NEW writes, writes = AllWrites
  PROVE  /\ DOMAIN writes = (tracked \cap keys) \cup {selectorSet[n] : n \in AllOwners}
         /\ \A k \in MapKeys \cap DOMAIN writes : k \in keys /\ writes[k] = Members(k)
         /\ \A n \in Policies :
              selectorSet[n] # None /\ selectorSet[n] \in DOMAIN writes =>
                writes[selectorSet[n]] = SelectorPods(NamespaceOf[n], selectorOf[n].labels)
  <1>1. tracked \cap keys \in SUBSET (MapKeys \cap keys) /\ AllOwners \in SUBSET Policies
    BY DEF TypeOK, AllOwners
  <1>2. \A n \in AllOwners : /\ selectorSet[n] # None
                             /\ Valid(NamespaceOf[n], selectorOf[n].labels) # {}
    BY DEF AllOwners
  <1>3. DOMAIN writes = (tracked \cap keys) \cup {selectorSet[n] : n \in AllOwners}
    BY <1>1, WriteTypes DEF AllWrites, TypeOK
  <1>4. writes = Writes(tracked \cap keys, AllOwners)
    BY DEF AllWrites
  <1>5. /\ \A k \in MapKeys \cap DOMAIN writes : k \in keys /\ writes[k] = Members(k)
        /\ \A n \in Policies :
              selectorSet[n] # None /\ selectorSet[n] \in DOMAIN writes =>
                writes[selectorSet[n]] = SelectorPods(NamespaceOf[n], selectorOf[n].labels)
    BY <1>1, <1>2, <1>4, WritesRight
  <1> QED
    BY <1>3, <1>5

LEMMA ChangedWritesRight ==
  ASSUME TypeOK, SelectorsNamed, ChangedKnown, NEW candidates, candidates \subseteq tracked,
         NEW writes, writes = ChangedWrites(candidates)
  PROVE  /\ DOMAIN writes = ((candidates \ Inactive(candidates)) \cap keys)
                              \cup {selectorSet[n] : n \in Owners \ Lapsed(Owners)}
         /\ \A k \in MapKeys \cap DOMAIN writes : k \in keys /\ writes[k] = Members(k)
         /\ \A n \in Policies :
              selectorSet[n] # None /\ selectorSet[n] \in DOMAIN writes =>
                writes[selectorSet[n]] = SelectorPods(NamespaceOf[n], selectorOf[n].labels)
  <1> DEFINE mapKeys == (candidates \ Inactive(candidates)) \cap keys
             owners == Owners \ Lapsed(Owners)
  <1>1. mapKeys \in SUBSET (MapKeys \cap keys) /\ owners \in SUBSET Policies
    BY DEF TypeOK, Owners
  <1>2. ASSUME NEW n \in owners
        PROVE  selectorSet[n] # None /\ Valid(NamespaceOf[n], selectorOf[n].labels) # {}
    <2>1. n \in Policies /\ NamespaceOf[n] \in Namespaces /\ selectorOf[n].labels \in SUBSET Labels
      BY NamespaceOfAssumption DEF Owners, TypeOK
    <2>2. PICK l \in selectorOf[n].labels : LabelKey(NamespaceOf[n], l) \in changed
      BY DEF Owners
    <2>3. l \in Valid(NamespaceOf[n], selectorOf[n].labels)
      BY <2>1, <2>2 DEF ChangedKnown, Valid
    <2> QED
      BY <2>3 DEF Owners
  <1>3. writes = Writes(mapKeys, owners)
    BY DEF ChangedWrites
  <1>4. DOMAIN writes = mapKeys \cup {selectorSet[n] : n \in owners}
    BY <1>1, <1>3, WriteTypes
  <1> HIDE DEF mapKeys, owners
  <1>5. /\ \A k \in MapKeys \cap DOMAIN writes : k \in keys /\ writes[k] = Members(k)
        /\ \A n \in Policies :
              selectorSet[n] # None /\ selectorSet[n] \in DOMAIN writes =>
                writes[selectorSet[n]] = SelectorPods(NamespaceOf[n], selectorOf[n].labels)
    BY <1>1, <1>2, <1>3, WritesRight
  <1> QED
    BY <1>4, <1>5 DEF mapKeys, owners

\* As long as no command fails, every set gets what is written for it.
LEMMA WrittenFully ==
  ASSUME TypeOK, Clean', NEW existing, NEW writes, SyncIPSetEntries(existing, writes)
  PROVE  kernel' = Written(existing, writes)
  BY BoundAssumption DEF TypeOK, Clean, SyncIPSetEntries, Fail

-----------------------------------------------------------------------------
(* The rules                                                               *)

\* syncPolicyRules when every command succeeds.
LEMMA RulesWithoutFailure ==
  ASSUME TypeOK, Clean', SyncPolicyRules
  PROVE  /\ active' = UNION {NeededSets(n, None) : n \in Enforced}
         /\ tracked' = tracked \cup UNION {TrackedKeys(n, None) : n \in Enforced}
         /\ references' = UNION {MatchSets(n, None) : n \in Enforced}
         /\ \A n \in Enforced :
              policies[n].selector # {} =>
                /\ selectorOf'[n] = [labels |-> policies[n].selector]
                /\ selectorSet'[n] = SelectorSet(n)
         /\ DOMAIN kernel' = DOMAIN kernel \cup active'
         /\ \A s \in DOMAIN kernel' : kernel'[s] = IF s \in DOMAIN kernel THEN kernel[s] ELSE {}
  <1>1. PICK lost \in Creations \cup {None}, failed \in {"none", "save", "restore"} :
          LET installed == Installed(lost)
              existing == DOMAIN kernel \cup UNION {CreatedSets(n, lost) : n \in installed}
              matched  == UNION {MatchSets(n, lost) : n \in installed}
          IN
          /\ lost = None \/ failed = "none"
          /\ IF lost = None /\ failed = "none" THEN NoFail ELSE Fail
          /\ active' = UNION {NeededSets(n, lost) : n \in installed}
          /\ tracked' = tracked \cup UNION {TrackedKeys(n, lost) : n \in installed}
          /\ selectorOf' = [n \in Policies |->
                              IF n \in Selecting(lost) THEN [labels |-> SelectorOf(n, lost)[3]]
                              ELSE selectorOf[n]]
          /\ selectorSet' = [n \in Policies |->
                               IF n \in Selecting(lost) THEN SetName(SelectorOf(n, lost))
                               ELSE selectorSet[n]]
          /\ kernel' = [s \in existing |-> IF s \in DOMAIN kernel THEN kernel[s] ELSE {}]
          /\ IF failed = "restore" THEN references' = references
             ELSE Restore(matched, existing, failed # "save")
    BY DEF SyncPolicyRules
  <1>2. ~Fail
    BY BoundAssumption DEF TypeOK, Clean, Fail
  <1>3. lost = None /\ failed = "none"
    BY <1>1, <1>2
  <1>4. Installed(None) = Enforced
    BY NothingLost
  <1>5. /\ active' = UNION {NeededSets(n, None) : n \in Enforced}
        /\ tracked' = tracked \cup UNION {TrackedKeys(n, None) : n \in Enforced}
    BY <1>1, <1>3, <1>4
  <1>6. UNION {CreatedSets(n, None) : n \in Enforced} = active'
    BY <1>5, NothingLost
  <1>7. /\ DOMAIN kernel' = DOMAIN kernel \cup active'
        /\ \A s \in DOMAIN kernel' : kernel'[s] = IF s \in DOMAIN kernel THEN kernel[s] ELSE {}
    BY <1>1, <1>3, <1>4, <1>6
  <1>8. UNION {MatchSets(n, None) : n \in Enforced} \subseteq DOMAIN kernel'
    BY <1>5, <1>7, NothingLost
  <1>9. Restore(UNION {MatchSets(n, None) : n \in Enforced}, DOMAIN kernel', TRUE)
    BY <1>1, <1>3, <1>4
  <1>10. references' = UNION {MatchSets(n, None) : n \in Enforced}
    BY <1>8, <1>9 DEF Restore
  <1>11. ASSUME NEW n \in Enforced, policies[n].selector # {}
         PROVE  /\ selectorOf'[n] = [labels |-> policies[n].selector]
                /\ selectorSet'[n] = SelectorSet(n)
    <2>1. n \in Policies /\ n \in Selecting(None)
      BY <1>11, NothingLost DEF Enforced
    <2>2. /\ selectorOf'[n] = [labels |-> SelectorOf(n, None)[3]]
          /\ selectorSet'[n] = SetName(SelectorOf(n, None))
      BY <1>1, <1>3, <2>1
    <2>3. SelectorOf(n, None)[3] = policies[n].selector
      BY NothingLost DEF SelectorKey
    <2> QED
      BY <2>2, <2>3, NothingLost
  <1> QED
    BY <1>5, <1>7, <1>10, <1>11

\* What a policy needs depends on its spec only.
LEMMA SamePolicies ==
  ASSUME policies' = policies
  PROVE  /\ Enforced' = Enforced
         /\ \A n : /\ TrackedKeys(n, None)' = TrackedKeys(n, None)
                   /\ NeededSets(n, None)' = NeededSets(n, None)
                   /\ MatchSets(n, None)' = MatchSets(n, None)
                   /\ SelectorSet(n)' = SelectorSet(n)
  <1>1. Enforced' = Enforced
    BY DEF Enforced
  <1>2. \A n, ls : Labelled(n, ls, None)' = Labelled(n, ls, None)
    BY DEF Labelled
  <1>3. \A n : PodPeerKeys(n, None)' = PodPeerKeys(n, None)
    BY DEF PodPeerKeys, Labelled
  <1>4. \A n : NamespacePeerKeys(n, None)' = NamespacePeerKeys(n, None)
    BY DEF NamespacePeerKeys
  <1>5. \A n : PeerKeys(n, None)' = PeerKeys(n, None)
    BY <1>3, <1>4 DEF PeerKeys
  <1>6. \A n : TrackedKeys(n, None)' = TrackedKeys(n, None)
    BY <1>5 DEF TrackedKeys, Labelled
  <1>7. Selecting(None)' = Selecting(None)
    BY DEF Selecting, Installed
  <1>8. \A n : SelectorOf(n, None)' = SelectorOf(n, None)
    BY DEF SelectorOf, Labelled
  <1>9. \A n : SelectorSets(n, None)' = SelectorSets(n, None)
    BY <1>7, <1>8 DEF SelectorSets, SetName
  <1>10. \A n : NeededSets(n, None)' = NeededSets(n, None)
    BY <1>6, <1>9 DEF NeededSets
  <1>11. \A n : MatchSets(n, None)' = MatchSets(n, None)
    BY <1>5, <1>7 DEF MatchSets, SetName
  <1>12. \A n : SelectorSet(n)' = SelectorSet(n)
    BY DEF SelectorSet, SetName
  <1> QED
    BY <1>1, <1>6, <1>10, <1>11, <1>12

LEMMA RulesInstalledNext ==
  ASSUME TypeOK, Clean', RulesInstalled, [Next]_vars
  PROVE  RulesInstalled'
  <1>1. CASE SyncPolicyRules
    <2>1. policies' = policies
      BY <1>1 DEF SyncPolicyRules, clusterVars
    <2>2. /\ active' = UNION {NeededSets(n, None) : n \in Enforced}
          /\ references' = UNION {MatchSets(n, None) : n \in Enforced}
          /\ active' \subseteq DOMAIN kernel'
      BY <1>1, RulesWithoutFailure
    <2> QED
      BY <2>1, <2>2, SamePolicies DEF RulesInstalled
  <1>2. ASSUME policies' = policies, active' = active, references' = references,
               DOMAIN kernel \cap active \subseteq DOMAIN kernel', Settled' => Settled
        PROVE  RulesInstalled'
    BY <1>2, SamePolicies DEF RulesInstalled
  <1>3. CASE SyncPodSets
    <2>1. kernel' = Written(DOMAIN kernel, ChangedWrites(changed \cap tracked))
      BY <1>3, WrittenFully DEF SyncPodSets
    <2>2. DOMAIN kernel' = DOMAIN kernel
      BY <2>1 DEF Written
    <2> QED
      BY <1>2, <1>3, <2>2 DEF SyncPodSets, clusterVars, Settled
  <1>4. CASE SyncNamespaceSets
    <2> DEFINE deleted == {k \in changed \cap tracked : k[1] = "namespace"}
               candidates == (changed \cap tracked) \ deleted
    <2>1. Settled /\ policies' = policies /\ active' = active /\ references' = references
      BY <1>4 DEF SyncNamespaceSets, clusterVars, Settled
    <2>2. ~Fail
      BY BoundAssumption DEF TypeOK, Clean, Fail
    <2>3. SyncIPSetEntries(DOMAIN kernel \ (deleted \ references), ChangedWrites(candidates))
      BY <1>4, <2>2 DEF SyncNamespaceSets
    <2>4. kernel' = Written(DOMAIN kernel \ (deleted \ references), ChangedWrites(candidates))
      BY <2>3, WrittenFully
    <2>5. DOMAIN kernel' = DOMAIN kernel \ (deleted \ references)
      BY <2>4 DEF Written
    <2>6. deleted \cap active \subseteq references
      <3> SUFFICES ASSUME NEW k \in deleted \cap active PROVE k \in references
        OBVIOUS
      <3>1. k \in MapKeys /\ k \in SetNames /\ k[1] = "namespace"
        BY DEF TypeOK, SetNames
      <3>2. PICK a \in Namespaces : k = NamespaceKey(a)
        BY <3>1, MapKeyCases DEF NamespaceKey, LabelKey, NamespaceLabelKey
      <3>3. PICK n \in Enforced : k \in NeededSets(n, None)
        BY <2>1, <3>1 DEF RulesInstalled
      <3>4. k \in TrackedKeys(n, None)
        <4>1. policies[n].selector \in SUBSET Labels /\ NamespaceOf[n] \in Namespaces
          BY PolicySets
        <4>2. k # SelectorSet(n)
          BY <3>1, <3>2, <4>1, NamesOfSelectors, KeysApart DEF SelectorSet
        <4> QED
          BY <3>3, <4>2, PolicySets
      <3>5. k \in MatchSets(n, None)
        BY <3>2, <3>4, PolicySets
      <3> QED
        BY <2>1, <3>1, <3>5 DEF RulesInstalled
    <2> QED
      BY <1>2, <2>1, <2>5, <2>6
  <1>5. CASE SyncAllPodSets
    <2>1. kernel' = Written(DOMAIN kernel, AllWrites)
      BY <1>5, WrittenFully DEF SyncAllPodSets, AllWrites, AllOwners
    <2>2. DOMAIN kernel' = DOMAIN kernel
      BY <2>1 DEF Written
    <2> QED
      BY <1>2, <1>5, <2>2 DEF SyncAllPodSets, clusterVars, trackVars, Settled
  <1>6. CASE CheckUnusedIPSets
    <2>1. DOMAIN kernel \cap active \subseteq DOMAIN kernel'
      BY <1>6 DEF CheckUnusedIPSets
    <2> QED
      BY <1>2, <1>6, <2>1 DEF CheckUnusedIPSets, clusterVars, Settled
  <1>7. CASE CheckUnusedFails \/ UNCHANGED vars
    BY <1>2, <1>7 DEF CheckUnusedFails, vars, clusterVars, trackVars, kernelVars, Settled
  <1>8. CASE Start \/ Tick \/ Crash \/ \E n \in Policies, spec \in MaybeSpec : ChangePolicy(n, spec)
    <2>1. ~Settled'
      BY <1>8 DEF Start, Tick, Crash, ChangePolicy, Settled
    <2> QED
      BY <2>1 DEF RulesInstalled
  <1>9. ASSUME NEW p \in Pods, NEW pod \in MaybePod, ChangePod(p, pod)
        PROVE  RulesInstalled'
    BY <1>2, <1>9 DEF ChangePod, trackVars, kernelVars, Settled
  <1>10. ASSUME NEW a \in Namespaces, NEW namespace \in MaybeNamespace, ChangeNamespace(a, namespace)
         PROVE  RulesInstalled'
    BY <1>2, <1>10 DEF ChangeNamespace, trackVars, kernelVars, Settled
  <1> QED
    BY <1>1, <1>3, <1>4, <1>5, <1>6, <1>7, <1>8, <1>9, <1>10 DEF Next, Cluster, Sync

-----------------------------------------------------------------------------
(* The sets                                                                *)

LEMMA EmptyUnknownNext ==
  ASSUME TypeOK, Clean', SelectorsNamed, ChangedKnown, EmptyUnknown, [Next]_vars
  PROVE  EmptyUnknown'
  <1>1. ASSUME keys \subseteq keys', crashes' = crashes, kernel' = kernel,
               step' = "down" => step = "down"
        PROVE  EmptyUnknown'
    BY <1>1 DEF EmptyUnknown
  <1>2. ASSUME NEW existing \in SUBSET DOMAIN kernel, NEW writes,
               \A k \in MapKeys \cap DOMAIN writes : k \in keys,
               kernel' = Written(existing, writes), keys' = keys, crashes' = crashes, step' # "down"
        PROVE  EmptyUnknown'
    BY <1>2 DEF EmptyUnknown, Written
  <1>3. CASE SyncPodSets
    <2>1. kernel' = Written(DOMAIN kernel, ChangedWrites(changed \cap tracked))
      BY <1>3, WrittenFully DEF SyncPodSets
    <2>2. \A k \in MapKeys \cap DOMAIN ChangedWrites(changed \cap tracked) : k \in keys
      BY ChangedWritesRight
    <2> QED
      BY <1>2, <1>3, <2>1, <2>2 DEF SyncPodSets
  <1>4. CASE SyncNamespaceSets
    <2> DEFINE deleted == {k \in changed \cap tracked : k[1] = "namespace"}
               candidates == (changed \cap tracked) \ deleted
    <2>1. ~Fail
      BY BoundAssumption DEF TypeOK, Clean, Fail
    <2>2. SyncIPSetEntries(DOMAIN kernel \ (deleted \ references), ChangedWrites(candidates))
      BY <1>4, <2>1 DEF SyncNamespaceSets
    <2>3. kernel' = Written(DOMAIN kernel \ (deleted \ references), ChangedWrites(candidates))
      BY <2>2, WrittenFully
    <2>4. /\ candidates \subseteq tracked
          /\ DOMAIN kernel \ (deleted \ references) \in SUBSET DOMAIN kernel
      OBVIOUS
    <2>5. \A k \in MapKeys \cap DOMAIN ChangedWrites(candidates) : k \in keys
      BY <2>4, ChangedWritesRight
    <2>6. keys' = keys /\ crashes' = crashes /\ step' # "down"
      BY <1>4 DEF SyncNamespaceSets
    <2> HIDE DEF deleted, candidates
    <2> QED
      BY <1>2, <2>3, <2>4, <2>5, <2>6
  <1>5. CASE SyncAllPodSets
    <2>1. kernel' = Written(DOMAIN kernel, AllWrites)
      BY <1>5, WrittenFully DEF SyncAllPodSets, AllWrites, AllOwners
    <2>2. \A k \in MapKeys \cap DOMAIN AllWrites : k \in keys
      BY AllWritesRight
    <2> QED
      BY <1>2, <1>5, <2>1, <2>2 DEF SyncAllPodSets
  <1>6. CASE SyncPolicyRules
    <2>1. \A s \in DOMAIN kernel' : kernel'[s] = IF s \in DOMAIN kernel THEN kernel[s] ELSE {}
      BY <1>6, RulesWithoutFailure
    <2>2. UNCHANGED <<keys, crashes>> /\ step' # "down"
      BY <1>6 DEF SyncPolicyRules
    <2> QED
      BY <2>1, <2>2 DEF EmptyUnknown
  <1>7. CASE CheckUnusedIPSets
    <2>1. \A s \in DOMAIN kernel' : s \in DOMAIN kernel /\ kernel'[s] = kernel[s]
      BY <1>7 DEF CheckUnusedIPSets
    <2>2. UNCHANGED <<keys, crashes>> /\ step' # "down"
      BY <1>7 DEF CheckUnusedIPSets
    <2> QED
      BY <2>1, <2>2 DEF EmptyUnknown
  <1>8. CASE CheckUnusedFails \/ Tick \/ UNCHANGED vars
    BY <1>1, <1>8 DEF CheckUnusedFails, Tick, vars, kernelVars
  <1>9. CASE Cluster
    BY <1>1, <1>9 DEF Cluster, ChangePod, ChangeNamespace, ChangePolicy, kernelVars
  <1>10. CASE Start
    BY <1>10 DEF Start, EmptyUnknown, kernelVars
  <1>11. CASE Crash
    BY <1>11 DEF Crash, EmptyUnknown, TypeOK
  <1> QED
    BY <1>3, <1>4, <1>5, <1>6, <1>7, <1>8, <1>9, <1>10, <1>11 DEF Next, Sync

\* What is given up is not active, or of a namespace without policies.
LEMMA AllTrackedNext ==
  ASSUME TypeOK, Clean', RulesInstalled, NoneGivenUp, AllTracked, [Next]_vars
  PROVE  AllTracked'
  <1>1. ASSUME policies' = policies, Settled' => Settled,
               \A n \in Enforced : /\ TrackedKeys(n, None) \cap tracked \subseteq tracked'
                                   /\ selectorOf'[n] = selectorOf[n]
                                   /\ policies[n].selector # {} /\ selectorSet[n] = SelectorSet(n) =>
                                        selectorSet'[n] = selectorSet[n]
        PROVE  AllTracked'
    BY <1>1, SamePolicies DEF AllTracked
  <1>2. ASSUME Settled, NEW n \in Enforced
        PROVE  /\ policies[n].selector # {} /\ selectorSet[n] = SelectorSet(n) =>
                    n \notin Lapsed(Owners)
               /\ \A k \in TrackedKeys(n, None) : SetName(k) = k /\ k \in active
               /\ policies[n].selector # {} => SelectorSet(n) \in active
    <2>1. NeededSets(n, None) \subseteq active
      BY <1>2, PolicySets DEF RulesInstalled
    <2> QED
      BY <2>1, PolicySets, Names DEF Lapsed
  <1>3. CASE SyncPodSets
    <2>1. Settled /\ policies' = policies /\ selectorOf' = selectorOf
      BY <1>3 DEF SyncPodSets, clusterVars, Settled
    <2>2. ASSUME NEW n \in Enforced
          PROVE  /\ TrackedKeys(n, None) \cap tracked \subseteq tracked'
                 /\ policies[n].selector # {} /\ selectorSet[n] = SelectorSet(n) =>
                      selectorSet'[n] = selectorSet[n]
      BY <1>2, <1>3, <2>1 DEF SyncPodSets, Inactive, Enforced
    <2> QED
      BY <1>1, <2>1, <2>2
  <1>4. CASE SyncNamespaceSets
    <2>1. Settled /\ policies' = policies /\ selectorOf' = selectorOf /\ selectorSet' = selectorSet
      BY <1>4 DEF SyncNamespaceSets, clusterVars, Settled
    <2>2. ASSUME NEW n \in Enforced, NEW k \in TrackedKeys(n, None) \cap tracked
          PROVE  k \in tracked'
      <3>1. k \in active /\ SetName(k) = k
        BY <1>2, <2>1
      <3>2. ~(k \in changed /\ k[1] = "namespace")
        <4> SUFFICES ASSUME k \in changed, k[1] = "namespace" PROVE FALSE
          OBVIOUS
        <4>1. k \in MapKeys
          BY DEF TypeOK
        <4>2. PICK a \in Namespaces : k = NamespaceKey(a)
          BY <4>1, MapKeyCases DEF NamespaceKey, LabelKey, NamespaceLabelKey
        <4>3. a = NamespaceOf[n] /\ n \in Policies /\ policies[n] # None
          BY <4>2, PolicySets
        <4> QED
          BY <1>4, <4>2, <4>3 DEF SyncNamespaceSets, NoneGivenUp
      <3> QED
        BY <1>4, <3>1, <3>2 DEF SyncNamespaceSets, Inactive
    <2> QED
      BY <1>1, <2>1, <2>2
  <1>5. CASE SyncPolicyRules
    <2>1. policies' = policies
      BY <1>5 DEF SyncPolicyRules, clusterVars
    <2>2. \A n \in Enforced :
            /\ TrackedKeys(n, None) \subseteq tracked'
            /\ policies[n].selector # {} =>
                 /\ selectorOf'[n] = [labels |-> policies[n].selector]
                 /\ selectorSet'[n] = SelectorSet(n)
      BY <1>5, RulesWithoutFailure
    <2> QED
      BY <2>1, <2>2, SamePolicies DEF AllTracked
  <1>6. CASE CheckUnusedIPSets
    <2>1. Settled /\ policies' = policies /\ selectorOf' = selectorOf
      BY <1>6 DEF CheckUnusedIPSets, clusterVars, Settled
    <2>2. ASSUME NEW n \in Enforced
          PROVE  /\ TrackedKeys(n, None) \cap tracked \subseteq tracked'
                 /\ policies[n].selector # {} /\ selectorSet[n] = SelectorSet(n) =>
                      selectorSet'[n] = selectorSet[n]
      BY <1>2, <1>6, <2>1 DEF CheckUnusedIPSets, Inactive, Enforced
    <2> QED
      BY <1>1, <2>1, <2>2
  <1>7. CASE SyncAllPodSets \/ CheckUnusedFails \/ UNCHANGED vars
    BY <1>1, <1>7 DEF SyncAllPodSets, CheckUnusedFails, vars, clusterVars, trackVars, Settled
  <1>8. CASE Start \/ Tick \/ Crash \/ \E n \in Policies, spec \in MaybeSpec : ChangePolicy(n, spec)
    <2>1. ~Settled'
      BY <1>8 DEF Start, Tick, Crash, ChangePolicy, Settled
    <2> QED
      BY <2>1 DEF AllTracked
  <1>9. ASSUME NEW p \in Pods, NEW pod \in MaybePod, ChangePod(p, pod)
        PROVE  AllTracked'
    BY <1>1, <1>9 DEF ChangePod, trackVars, Settled
  <1>10. ASSUME NEW a \in Namespaces, NEW namespace \in MaybeNamespace, ChangeNamespace(a, namespace)
         PROVE  AllTracked'
    BY <1>1, <1>10 DEF ChangeNamespace, trackVars, Settled
  <1> QED
    BY <1>3, <1>4, <1>5, <1>6, <1>7, <1>8, <1>9, <1>10 DEF Next, Cluster, Sync

\* A key that the maps do not have has no pods, and the entries of a selector's set
\* are the pods selected, once its labels are known.
LEMMA UnknownEmpty ==
  ASSUME TypeOK, KeysKnown, step # "down", NEW k \in MapKeys, k \notin keys
  PROVE  Members(k) = {}
  <1>1. \A p \in Pods : /\ NamespaceOf[p] \in Namespaces
                        /\ KeysOfPod(p, pods[p], namespaces[NamespaceOf[p]]) \subseteq keys
    BY NamespaceOfAssumption DEF KeysKnown
  <1>2. ASSUME NEW a \in Namespaces, k = NamespaceKey(a)
        PROVE  Members(k) = {}
    BY <1>1, <1>2, MembersOf DEF NamespacePods, KeysOfPod
  <1>3. ASSUME NEW a \in Namespaces, NEW l \in Labels, k = LabelKey(a, l)
        PROVE  Members(k) = {}
    BY <1>1, <1>3, MembersOf DEF NamespacePods, LabelPods, KeysOfPod
  <1>4. ASSUME NEW g \in NamespaceLabels, k = NamespaceLabelKey(g)
        PROVE  Members(k) = {}
    <2>1. \A p \in Pods : pods[p] = None \/ namespaces[NamespaceOf[p]] = None
                            \/ g \notin namespaces[NamespaceOf[p]].labels
      BY <1>1, <1>4 DEF KeysOfPod
    <2> QED
      BY <1>4, <2>1, MembersOf DEF NamespaceLabelPods, NamespacePods
  <1> QED
    BY <1>2, <1>3, <1>4, MapKeyCases

LEMMA SelectedPods ==
  ASSUME TypeOK, KeysKnown, step # "down", NEW n \in Enforced
  PROVE  /\ Selected(n) \subseteq SelectorPods(NamespaceOf[n], policies[n].selector)
         /\ Known(n) => Selected(n) = SelectorPods(NamespaceOf[n], policies[n].selector)
         /\ policies[n].selector # {} /\ Valid(NamespaceOf[n], policies[n].selector) = {} =>
              Selected(n) = {} /\ ~Known(n)
  <1>1. \A p \in Pods : KeysOfPod(p, pods[p], namespaces[NamespaceOf[p]]) \subseteq keys
    BY DEF KeysKnown
  <1>2. Selected(n) \subseteq SelectorPods(NamespaceOf[n], policies[n].selector)
    BY DEF Selected, SelectorPods, Valid
  <1>3. Known(n) => Selected(n) = SelectorPods(NamespaceOf[n], policies[n].selector)
    BY DEF Selected, SelectorPods, Valid, Known
  <1>4. ASSUME policies[n].selector # {}, Valid(NamespaceOf[n], policies[n].selector) = {}
        PROVE  Selected(n) = {} /\ ~Known(n)
    <2>1. \A l \in policies[n].selector : LabelKey(NamespaceOf[n], l) \notin keys
      BY <1>4 DEF Valid
    <2>2. \A p \in NamespacePods(NamespaceOf[n]) : \A l \in pods[p].labels :
            LabelKey(NamespaceOf[n], l) \in keys
      BY <1>1 DEF NamespacePods, KeysOfPod
    <2> QED
      BY <1>4, <2>1, <2>2 DEF Selected, Known
  <1> QED
    BY <1>2, <1>3, <1>4

\* Every set of a policy is filled once each has been written, or has nothing to be
\* written, or was right before.
LEMMA FilledByWriting ==
  ASSUME TypeOK, KeysKnown, RulesInstalled, AllTracked, Settled,
         NEW existing \in SUBSET DOMAIN kernel, NEW writes, kernel' = Written(existing, writes),
         \A k \in MapKeys \cap DOMAIN writes : k \in keys /\ writes[k] = Members(k),
         \A m \in Policies :
           selectorSet[m] # None /\ selectorSet[m] \in DOMAIN writes =>
             writes[selectorSet[m]] = SelectorPods(NamespaceOf[m], selectorOf[m].labels),
         NEW n \in Enforced, NeededSets(n, None) \cap DOMAIN kernel \subseteq existing,
         SetsFilled, SetsExact, EmptyUnknown,
         \A k \in TrackedKeys(n, None) :
           k \in DOMAIN writes \/ k \notin keys \/ (Filled /\ k \notin changed),
         policies[n].selector # {} =>
           \/ SelectorSet(n) \in DOMAIN writes
           \/ Valid(NamespaceOf[n], policies[n].selector) = {}
           \/ Filled /\ ~Touched(n)
  PROVE  /\ \A k \in TrackedKeys(n, None) : /\ Members(k) \subseteq kernel'[k]
                                            /\ crashes = 0 => kernel'[k] = Members(k)
         /\ policies[n].selector # {} =>
              /\ Selected(n) \subseteq kernel'[SelectorSet(n)]
              /\ crashes = 0 /\ Known(n) => kernel'[SelectorSet(n)] = Selected(n)
  <1>1. step # "down" /\ NeededSets(n, None) \subseteq existing
    <2>1. NeededSets(n, None) \subseteq active /\ active \subseteq DOMAIN kernel
      BY PolicySets DEF RulesInstalled
    <2> QED
      BY <2>1 DEF Settled
  <1>2. ASSUME NEW k \in TrackedKeys(n, None)
        PROVE  /\ Members(k) \subseteq kernel'[k]
               /\ crashes = 0 => kernel'[k] = Members(k)
    <2>1. k \in existing /\ k \in MapKeys /\ k \in DOMAIN kernel
      BY <1>1, PolicySets
    <2>2. CASE k \in DOMAIN writes
      BY <2>1, <2>2 DEF Written
    <2>3. CASE k \notin DOMAIN writes /\ k \notin keys
      <3>1. Members(k) = {} /\ kernel'[k] = kernel[k]
        BY <1>1, <2>1, <2>3, UnknownEmpty DEF Written
      <3> QED
        BY <2>1, <2>3, <3>1 DEF EmptyUnknown
    <2>4. CASE k \notin DOMAIN writes /\ Filled /\ k \notin changed
      <3>1. kernel'[k] = kernel[k]
        BY <2>1, <2>4 DEF Written
      <3> QED
        BY <2>4, <3>1 DEF SetsFilled, SetsExact, PolicyFilled, PolicyExact
    <2> QED
      BY <2>2, <2>3, <2>4
  <1>3. ASSUME policies[n].selector # {}
        PROVE  /\ Selected(n) \subseteq kernel'[SelectorSet(n)]
               /\ crashes = 0 /\ Known(n) => kernel'[SelectorSet(n)] = Selected(n)
    <2>1. SelectorSet(n) \in existing
      BY <1>1, <1>3, PolicySets
    <2>2. CASE SelectorSet(n) \in DOMAIN writes
      <3>1. n \in Policies /\ selectorSet[n] = SelectorSet(n) /\ selectorSet[n] # None
            /\ selectorOf[n].labels = policies[n].selector
        <4>1. n \in Policies /\ SelectorSet(n) # None
          BY PolicySets
        <4>2. selectorOf[n] = [labels |-> policies[n].selector] /\ selectorSet[n] = SelectorSet(n)
          BY <1>3 DEF AllTracked
        <4> QED
          BY <4>1, <4>2
      <3>2. kernel'[SelectorSet(n)] = SelectorPods(NamespaceOf[n], policies[n].selector)
        <4>1. writes[selectorSet[n]] = SelectorPods(NamespaceOf[n], selectorOf[n].labels)
          BY <2>2, <3>1
        <4>2. kernel'[SelectorSet(n)] = writes[SelectorSet(n)]
          BY <2>1, <2>2 DEF Written
        <4> QED
          BY <3>1, <4>1, <4>2
      <3>3. /\ Selected(n) \subseteq SelectorPods(NamespaceOf[n], policies[n].selector)
            /\ Known(n) => Selected(n) = SelectorPods(NamespaceOf[n], policies[n].selector)
        BY <1>1, SelectedPods
      <3> QED
        BY <3>2, <3>3
    <2>3. CASE SelectorSet(n) \notin DOMAIN writes /\ Valid(NamespaceOf[n], policies[n].selector) = {}
      BY <1>1, <1>3, <2>3, SelectedPods
    <2>4. CASE SelectorSet(n) \notin DOMAIN writes /\ Filled /\ ~Touched(n)
      <3>1. kernel'[SelectorSet(n)] = kernel[SelectorSet(n)]
        BY <2>1, <2>4 DEF Written
      <3> QED
        BY <1>3, <2>4, <3>1 DEF SetsFilled, SetsExact, PolicyFilled, PolicyExact
    <2> QED
      BY <1>3, <2>2, <2>3, <2>4
  <1> QED
    BY <1>2, <1>3

\* What the sets should hold depends on the cluster only.
LEMMA SameContents ==
  ASSUME UNCHANGED <<pods, namespaces, policies, keys>>
  PROVE  /\ \A k \in MapKeys : Members(k)' = Members(k)
         /\ \A n : Selected(n)' = Selected(n) /\ Known(n)' = Known(n)
  <1>1. \A a : NamespacePods(a)' = NamespacePods(a)
    BY DEF NamespacePods
  <1>2. \A a, l : LabelPods(a, l)' = LabelPods(a, l)
    BY <1>1 DEF LabelPods
  <1>3. \A g : NamespaceLabelPods(g)' = NamespaceLabelPods(g)
    BY <1>1 DEF NamespaceLabelPods
  <1>4. \A k \in MapKeys : Members(k)' = Members(k)
    BY <1>1, <1>2, <1>3 DEF Members
  <1>5. \A n : Selected(n)' = Selected(n)
    BY <1>1 DEF Selected
  <1>6. \A n : Known(n)' = Known(n)
    BY DEF Known
  <1> QED
    BY <1>4, <1>5, <1>6

\* A step that leaves the cluster alone and every set right.
LEMMA FilledAfter ==
  ASSUME TypeOK, UNCHANGED <<pods, namespaces, policies, keys>>, crashes' = crashes,
         \A n \in Enforced :
           /\ \A k \in TrackedKeys(n, None) : /\ Members(k) \subseteq kernel'[k]
                                              /\ crashes = 0 => kernel'[k] = Members(k)
           /\ policies[n].selector # {} =>
                /\ Selected(n) \subseteq kernel'[SelectorSet(n)]
                /\ crashes = 0 /\ Known(n) => kernel'[SelectorSet(n)] = Selected(n)
  PROVE  SetsFilled' /\ SetsExact'
  <1>1. \A n \in Enforced : TrackedKeys(n, None) \subseteq MapKeys
    BY PolicySets
  <1> QED
    BY <1>1, SamePolicies, SameContents DEF SetsFilled, SetsExact, PolicyFilled, PolicyExact

\* The keys and selectors that the items are about are among what is written.
LEMMA ChangedReached ==
  ASSUME TypeOK, SelectorsNamed, ChangedKnown, RulesInstalled, AllTracked, Settled, Filled,
         NEW n \in Enforced,
         NEW candidates, candidates \subseteq tracked,
         TrackedKeys(n, None) \cap changed \subseteq candidates,
         NEW writes, writes = ChangedWrites(candidates)
  PROVE  /\ \A k \in TrackedKeys(n, None) :
              k \in DOMAIN writes \/ k \notin keys \/ (Filled /\ k \notin changed)
         /\ policies[n].selector # {} =>
              \/ SelectorSet(n) \in DOMAIN writes
              \/ Valid(NamespaceOf[n], policies[n].selector) = {}
              \/ Filled /\ ~Touched(n)
  <1>1. NeededSets(n, None) \subseteq active
    BY PolicySets DEF RulesInstalled
  <1>2. DOMAIN writes = ((candidates \ Inactive(candidates)) \cap keys)
                              \cup {selectorSet[m] : m \in Owners \ Lapsed(Owners)}
    BY ChangedWritesRight
  <1>3. ASSUME NEW k \in TrackedKeys(n, None), k \in keys, k \in changed
        PROVE  k \in DOMAIN writes
    <2>1. SetName(k) = k /\ k \in active
      BY <1>1, PolicySets, Names
    <2>2. k \in candidates \ Inactive(candidates)
      BY <1>3, <2>1 DEF Inactive
    <2> QED
      BY <1>2, <1>3, <2>2
  <1>4. ASSUME policies[n].selector # {}, Touched(n)
        PROVE  SelectorSet(n) \in DOMAIN writes
    <2>1. n \in Policies /\ SelectorSet(n) # None /\ SelectorSet(n) \in active
      BY <1>1, <1>4, PolicySets
    <2>2. selectorOf[n] = [labels |-> policies[n].selector] /\ selectorSet[n] = SelectorSet(n)
      BY <1>4 DEF AllTracked
    <2>3. selectorOf[n].labels = policies[n].selector /\ selectorOf[n] # None
      BY <2>1, <2>2 DEF TypeOK
    <2>4. n \in Owners \ Lapsed(Owners)
      BY <1>4, <2>1, <2>2, <2>3 DEF Owners, Lapsed, Touched
    <2> QED
      BY <1>2, <2>2, <2>4
  <1> QED
    BY <1>3, <1>4

LEMMA FilledSyncPodSets ==
  ASSUME TypeOK, Clean', KeysKnown, SelectorsNamed, ChangedKnown, RulesInstalled, AllTracked,
         EmptyUnknown, SetsFilled, SetsExact, SyncPodSets
  PROVE  SetsFilled' /\ SetsExact'
  <1> DEFINE candidates == changed \cap tracked
  <1>1. /\ Settled /\ Filled /\ UNCHANGED <<pods, namespaces, policies, keys>> /\ crashes' = crashes
        /\ SyncIPSetEntries(DOMAIN kernel, ChangedWrites(candidates))
    BY DEF SyncPodSets, clusterVars, Settled, Filled
  <1>2. PICK writes : writes = ChangedWrites(candidates)
    OBVIOUS
  <1>3. kernel' = Written(DOMAIN kernel, writes)
    BY <1>1, <1>2, WrittenFully
  <1>4. candidates \subseteq tracked
    OBVIOUS
  <1>5. /\ \A k \in MapKeys \cap DOMAIN writes : k \in keys /\ writes[k] = Members(k)
        /\ \A m \in Policies :
              selectorSet[m] # None /\ selectorSet[m] \in DOMAIN writes =>
                writes[selectorSet[m]] = SelectorPods(NamespaceOf[m], selectorOf[m].labels)
    BY <1>2, <1>4, ChangedWritesRight
  <1>6. ASSUME NEW n \in Enforced
        PROVE  /\ \A k \in TrackedKeys(n, None) : /\ Members(k) \subseteq kernel'[k]
                                                  /\ crashes = 0 => kernel'[k] = Members(k)
               /\ policies[n].selector # {} =>
                    /\ Selected(n) \subseteq kernel'[SelectorSet(n)]
                    /\ crashes = 0 /\ Known(n) => kernel'[SelectorSet(n)] = Selected(n)
    <2>1. TrackedKeys(n, None) \cap changed \subseteq candidates
      BY <1>1 DEF AllTracked
    <2>2. /\ \A k \in TrackedKeys(n, None) :
              k \in DOMAIN writes \/ k \notin keys \/ (Filled /\ k \notin changed)
          /\ policies[n].selector # {} =>
              \/ SelectorSet(n) \in DOMAIN writes
              \/ Valid(NamespaceOf[n], policies[n].selector) = {}
              \/ Filled /\ ~Touched(n)
      BY <1>1, <1>2, <1>4, <2>1, ChangedReached
    <2> QED
      BY <1>1, <1>3, <1>5, <2>2, FilledByWriting
  <1> QED
    BY <1>1, <1>6, FilledAfter

LEMMA FilledSyncNamespaceSets ==
  ASSUME TypeOK, Clean', KeysKnown, SelectorsNamed, ChangedKnown, NoneGivenUp, RulesInstalled,
         AllTracked, EmptyUnknown, SetsFilled, SetsExact, SyncNamespaceSets
  PROVE  SetsFilled' /\ SetsExact'
  <1> DEFINE deleted == {k \in changed \cap tracked : k[1] = "namespace"}
             candidates == (changed \cap tracked) \ deleted
             existing == DOMAIN kernel \ (deleted \ references)
  <1>1. /\ Settled /\ Filled /\ UNCHANGED <<pods, namespaces, policies, keys>> /\ crashes' = crashes
        /\ step = "namespaces"
    BY DEF SyncNamespaceSets, clusterVars, Settled, Filled
  <1>2. ~Fail
    BY BoundAssumption DEF TypeOK, Clean, Fail
  <1>3. SyncIPSetEntries(existing, ChangedWrites(candidates))
    BY <1>2 DEF SyncNamespaceSets
  <1>4. PICK writes : writes = ChangedWrites(candidates)
    OBVIOUS
  <1>5. kernel' = Written(existing, writes)
    BY <1>3, <1>4, WrittenFully
  <1>6. candidates \subseteq tracked /\ existing \in SUBSET DOMAIN kernel
    OBVIOUS
  <1>7. /\ \A k \in MapKeys \cap DOMAIN writes : k \in keys /\ writes[k] = Members(k)
        /\ \A m \in Policies :
              selectorSet[m] # None /\ selectorSet[m] \in DOMAIN writes =>
                writes[selectorSet[m]] = SelectorPods(NamespaceOf[m], selectorOf[m].labels)
    BY <1>4, <1>6, ChangedWritesRight
  <1>8. ASSUME NEW n \in Enforced
        PROVE  deleted \cap NeededSets(n, None) = {}
    <2> SUFFICES ASSUME NEW k \in deleted \cap NeededSets(n, None) PROVE FALSE
      OBVIOUS
    <2>1. k \in MapKeys /\ k[1] = "namespace" /\ k \in changed
      BY DEF TypeOK
    <2>2. PICK a \in Namespaces : k = NamespaceKey(a)
      BY <2>1, MapKeyCases DEF NamespaceKey, LabelKey, NamespaceLabelKey
    <2>3. n \in Policies /\ policies[n] # None /\ NamespaceOf[n] \in Namespaces
          /\ policies[n].selector \in SUBSET Labels
      BY PolicySets
    <2>4. k # SelectorSet(n)
      BY <2>1, <2>2, <2>3, NamesOfSelectors, KeysApart DEF SelectorSet
    <2>5. a = NamespaceOf[n]
      BY <2>2, <2>4, PolicySets
    <2> QED
      BY <1>1, <2>1, <2>2, <2>3, <2>5 DEF NoneGivenUp
  <1>9. ASSUME NEW n \in Enforced
        PROVE  /\ \A k \in TrackedKeys(n, None) : /\ Members(k) \subseteq kernel'[k]
                                                  /\ crashes = 0 => kernel'[k] = Members(k)
               /\ policies[n].selector # {} =>
                    /\ Selected(n) \subseteq kernel'[SelectorSet(n)]
                    /\ crashes = 0 /\ Known(n) => kernel'[SelectorSet(n)] = Selected(n)
    <2>1. TrackedKeys(n, None) \cap changed \subseteq candidates
      <3>1. TrackedKeys(n, None) \subseteq tracked /\ TrackedKeys(n, None) \subseteq NeededSets(n, None)
        BY <1>1, PolicySets DEF AllTracked
      <3> QED
        BY <1>8, <3>1
    <2>2. NeededSets(n, None) \cap DOMAIN kernel \subseteq existing
      BY <1>8
    <2>3. /\ \A k \in TrackedKeys(n, None) :
              k \in DOMAIN writes \/ k \notin keys \/ (Filled /\ k \notin changed)
          /\ policies[n].selector # {} =>
              \/ SelectorSet(n) \in DOMAIN writes
              \/ Valid(NamespaceOf[n], policies[n].selector) = {}
              \/ Filled /\ ~Touched(n)
      BY <1>1, <1>4, <1>6, <2>1, ChangedReached
    <2> HIDE DEF existing
    <2> QED
      BY <1>1, <1>5, <1>6, <1>7, <2>2, <2>3, FilledByWriting
  <1> QED
    BY <1>1, <1>9, FilledAfter

LEMMA FilledSyncAllPodSets ==
  ASSUME TypeOK, Clean', KeysKnown, SelectorsNamed, RulesInstalled, AllTracked,
         EmptyUnknown, SetsFilled, SetsExact, SyncAllPodSets
  PROVE  SetsFilled' /\ SetsExact'
  <1>1. /\ Settled /\ UNCHANGED <<pods, namespaces, policies, keys>> /\ crashes' = crashes
        /\ SyncIPSetEntries(DOMAIN kernel, AllWrites)
    BY DEF SyncAllPodSets, clusterVars, Settled, AllWrites, AllOwners
  <1>2. PICK writes : writes = AllWrites
    OBVIOUS
  <1>3. kernel' = Written(DOMAIN kernel, writes)
    BY <1>1, <1>2, WrittenFully
  <1>4. /\ DOMAIN writes = (tracked \cap keys) \cup {selectorSet[m] : m \in AllOwners}
        /\ \A k \in MapKeys \cap DOMAIN writes : k \in keys /\ writes[k] = Members(k)
        /\ \A m \in Policies :
              selectorSet[m] # None /\ selectorSet[m] \in DOMAIN writes =>
                writes[selectorSet[m]] = SelectorPods(NamespaceOf[m], selectorOf[m].labels)
    BY <1>2, AllWritesRight
  <1>5. ASSUME NEW n \in Enforced
        PROVE  /\ \A k \in TrackedKeys(n, None) : /\ Members(k) \subseteq kernel'[k]
                                                  /\ crashes = 0 => kernel'[k] = Members(k)
               /\ policies[n].selector # {} =>
                    /\ Selected(n) \subseteq kernel'[SelectorSet(n)]
                    /\ crashes = 0 /\ Known(n) => kernel'[SelectorSet(n)] = Selected(n)
    <2>1. \A k \in TrackedKeys(n, None) : k \in DOMAIN writes \/ k \notin keys
      <3>1. TrackedKeys(n, None) \subseteq tracked
        BY <1>1 DEF AllTracked
      <3> QED
        BY <1>4, <3>1
    <2>2. ASSUME policies[n].selector # {}, Valid(NamespaceOf[n], policies[n].selector) # {}
          PROVE  SelectorSet(n) \in DOMAIN writes
      <3>1. n \in Policies /\ SelectorSet(n) # None
        BY PolicySets
      <3>2. selectorOf[n] = [labels |-> policies[n].selector] /\ selectorSet[n] = SelectorSet(n)
        BY <1>1, <2>2 DEF AllTracked
      <3>3. selectorOf[n].labels = policies[n].selector /\ selectorOf[n] # None
            /\ selectorSet[n] = SelectorSet(n)
        BY <3>1, <3>2 DEF TypeOK
      <3>4. n \in AllOwners
        BY <2>2, <3>1, <3>3 DEF AllOwners
      <3>5. selectorSet[n] \in DOMAIN writes
        BY <1>4, <3>4
      <3> QED
        BY <3>3, <3>5
    <2>3. /\ \A k \in TrackedKeys(n, None) :
              k \in DOMAIN writes \/ k \notin keys \/ (Filled /\ k \notin changed)
          /\ policies[n].selector # {} =>
              \/ SelectorSet(n) \in DOMAIN writes
              \/ Valid(NamespaceOf[n], policies[n].selector) = {}
              \/ Filled /\ ~Touched(n)
      BY <2>1, <2>2
    <2>4. /\ \A k \in MapKeys \cap DOMAIN writes : k \in keys /\ writes[k] = Members(k)
          /\ \A m \in Policies :
                selectorSet[m] # None /\ selectorSet[m] \in DOMAIN writes =>
                  writes[selectorSet[m]] = SelectorPods(NamespaceOf[m], selectorOf[m].labels)
      BY <1>4
    <2> QED
      BY <1>1, <1>3, <2>3, <2>4, FilledByWriting
  <1> QED
    BY <1>1, <1>5, FilledAfter

\* The sets stay right while the items name everything whose contents have changed.
LEMMA FilledButForItems ==
  ASSUME TypeOK, SetsFilled, SetsExact, Filled, changed = {},
         UNCHANGED <<policies, kernel, crashes>>,
         \A k \in MapKeys : k \notin changed' => Members(k)' = Members(k),
         \A n \in Enforced :
           policies[n].selector # {} /\ ~Touched(n)' =>
             Selected(n)' = Selected(n) /\ (Known(n)' => Known(n))
  PROVE  SetsFilled' /\ SetsExact'
  <1>1. \A n \in Enforced : TrackedKeys(n, None) \subseteq MapKeys
    BY PolicySets
  <1>2. \A n : policies'[n] = policies[n]
    OBVIOUS
  <1>3. ASSUME NEW n \in Enforced
        PROVE  PolicyFilled(n) => PolicyFilled(n)'
    <2>1. \A k \in TrackedKeys(n, None)' \ changed' :
            k \in TrackedKeys(n, None) \ changed /\ Members(k)' = Members(k)
      BY <1>1, SamePolicies
    <2>2. ASSUME policies'[n].selector # {}, ~Touched(n)'
          PROVE  /\ policies[n].selector # {} /\ ~Touched(n)
                 /\ Selected(n)' = Selected(n) /\ SelectorSet(n)' = SelectorSet(n)
      BY <1>2, <2>2, SamePolicies DEF Touched
    <2> QED
      BY <2>1, <2>2 DEF PolicyFilled
  <1>4. ASSUME NEW n \in Enforced
        PROVE  PolicyExact(n) => PolicyExact(n)'
    <2>1. \A k \in TrackedKeys(n, None)' \ changed' :
            k \in TrackedKeys(n, None) \ changed /\ Members(k)' = Members(k)
      BY <1>1, SamePolicies
    <2>2. ASSUME policies'[n].selector # {}, ~Touched(n)', Known(n)'
          PROVE  /\ policies[n].selector # {} /\ ~Touched(n) /\ Known(n)
                 /\ Selected(n)' = Selected(n) /\ SelectorSet(n)' = SelectorSet(n)
      BY <1>2, <2>2, SamePolicies DEF Touched
    <2> QED
      BY <2>1, <2>2 DEF PolicyExact
  <1>5. Enforced' = Enforced
    BY SamePolicies
  <1> QED
    BY <1>3, <1>4, <1>5 DEF SetsFilled, SetsExact

\* A change of a pod: what does not change is not among the items, and only what is
\* among the items has new labels.
LEMMA FilledChangePod ==
  ASSUME TypeOK, SetsFilled, SetsExact, NEW p \in Pods, NEW pod \in MaybePod, ChangePod(p, pod)
  PROVE  SetsFilled' /\ SetsExact'
  <1>1. CASE step = "down"
    BY <1>1 DEF ChangePod, SetsFilled, SetsExact, Filled
  <1>2. CASE step = "idle"
    <2> DEFINE a == NamespaceOf[p]
               named(object) == IF object = None THEN {} ELSE {LabelKey(a, l) : l \in object.labels}
    <2>1. /\ pods' = [pods EXCEPT ![p] = pod] /\ UNCHANGED <<namespaces, policies, kernel, crashes>>
          /\ keys' = keys \cup KeysOfPod(p, pod, namespaces[a])
          /\ changed' = named(pods[p]) \cup named(pod) \cup {NamespaceKey(a)}
                          \cup (IF namespaces[a] = None THEN {}
                                ELSE {NamespaceLabelKey(g) : g \in namespaces[a].labels})
          /\ changed = {} /\ Filled
      BY <1>2 DEF ChangePod, kernelVars, TypeOK, Filled
    <2>2. /\ a \in Namespaces /\ pods[p] \in MaybePod /\ pods'[p] = pod
          /\ \A q \in Pods : q # p => pods'[q] = pods[q]
      BY <2>1, NamespaceOfAssumption DEF TypeOK
    <2>3. /\ NamespaceKey(a) \in changed'
          /\ \A l : LabelKey(a, l) \notin changed' =>
                      /\ pods[p] # None => l \notin pods[p].labels
                      /\ pod # None => l \notin pod.labels
          /\ \A g : NamespaceLabelKey(g) \notin changed' =>
                      namespaces[a] = None \/ g \notin namespaces[a].labels
      BY <2>1
    <2>4. \A b : b # a => NamespacePods(b)' = NamespacePods(b)
      BY <2>2 DEF NamespacePods
    <2>5. ASSUME NEW k \in MapKeys, k \notin changed'
          PROVE  Members(k)' = Members(k)
      <3>1. ASSUME NEW b \in Namespaces, k = NamespaceKey(b)
            PROVE  NamespacePods(b)' = NamespacePods(b)
        BY <2>3, <2>4, <2>5, <3>1
      <3>2. ASSUME NEW b \in Namespaces, NEW l \in Labels, k = LabelKey(b, l)
            PROVE  LabelPods(b, l)' = LabelPods(b, l)
        <4>1. CASE b # a
          BY <2>2, <2>4, <4>1 DEF LabelPods, NamespacePods
        <4>2. CASE b = a
          <5>1. p \notin LabelPods(a, l) /\ p \notin LabelPods(a, l)'
            BY <2>2, <2>3, <2>5, <3>2, <4>2 DEF LabelPods, NamespacePods
          <5>2. \A q \in Pods : q # p => (q \in LabelPods(a, l)' <=> q \in LabelPods(a, l))
            BY <2>2 DEF LabelPods, NamespacePods
          <5>3. LabelPods(a, l) \subseteq Pods /\ LabelPods(a, l)' \subseteq Pods
            BY DEF LabelPods, NamespacePods
          <5> QED
            BY <4>2, <5>1, <5>2, <5>3
        <4> QED
          BY <4>1, <4>2
      <3>3. ASSUME NEW g \in NamespaceLabels, k = NamespaceLabelKey(g)
            PROVE  NamespaceLabelPods(g)' = NamespaceLabelPods(g)
        <4>1. namespaces[a] = None \/ g \notin namespaces[a].labels
          BY <2>3, <2>5, <3>3
        <4> QED
          BY <2>1, <2>4, <4>1 DEF NamespaceLabelPods
      <3>4. CASE \E b \in Namespaces : k = NamespaceKey(b)
        <4>1. PICK b \in Namespaces : k = NamespaceKey(b)
          BY <3>4
        <4>2. Members(NamespaceKey(b))' = NamespacePods(b)'
          BY MembersOf DEF Members, NamespaceKey
        <4> QED
          BY <3>1, <4>1, <4>2, MembersOf
      <3>5. CASE \E b \in Namespaces, l \in Labels : k = LabelKey(b, l)
        <4>1. PICK b \in Namespaces, l \in Labels : k = LabelKey(b, l)
          BY <3>5
        <4>2. Members(LabelKey(b, l))' = LabelPods(b, l)'
          BY DEF Members, LabelKey
        <4> QED
          BY <3>2, <4>1, <4>2, MembersOf
      <3>6. CASE \E g \in NamespaceLabels : k = NamespaceLabelKey(g)
        <4>1. PICK g \in NamespaceLabels : k = NamespaceLabelKey(g)
          BY <3>6
        <4>2. Members(NamespaceLabelKey(g))' = NamespaceLabelPods(g)'
          BY DEF Members, NamespaceLabelKey
        <4> QED
          BY <3>3, <4>1, <4>2, MembersOf
      <3> QED
        BY <3>4, <3>5, <3>6, MapKeyCases
    <2>6. ASSUME NEW n \in Enforced, policies[n].selector # {}, ~Touched(n)'
          PROVE  Selected(n)' = Selected(n) /\ (Known(n)' => Known(n))
      <3>1. \A l \in policies[n].selector : LabelKey(NamespaceOf[n], l) \notin changed'
        BY <2>1, <2>6 DEF Touched
      <3>2. Known(n)' => Known(n)
        <4>1. \A l \in policies[n].selector :
                LabelKey(NamespaceOf[n], l) \in keys' => LabelKey(NamespaceOf[n], l) \in keys
          <5> SUFFICES ASSUME NEW l \in policies[n].selector,
                              LabelKey(NamespaceOf[n], l) \in KeysOfPod(p, pod, namespaces[a])
                       PROVE  LabelKey(NamespaceOf[n], l) \in changed'
            BY <2>1, <3>1
          <5> QED
            BY <2>1, KeysApart DEF KeysOfPod
        <4> QED
          BY <2>1, <4>1 DEF Known
      <3>3. Selected(n)' = Selected(n)
        <4>1. CASE NamespaceOf[n] # a
          BY <2>1, <2>2, <2>4, <4>1 DEF Selected, NamespacePods
        <4>2. CASE NamespaceOf[n] = a
          <5>1. PICK l \in policies[n].selector : TRUE
            BY <2>6
          <5>2. /\ pods[p] # None => l \notin pods[p].labels
                /\ pod # None => l \notin pod.labels
            BY <2>3, <3>1, <4>2, <5>1
          <5>3. p \notin Selected(n) /\ p \notin Selected(n)'
            BY <2>1, <2>2, <5>1, <5>2 DEF Selected, NamespacePods
          <5>4. \A q \in Pods : q # p => (q \in Selected(n)' <=> q \in Selected(n))
            BY <2>1, <2>2 DEF Selected, NamespacePods
          <5>5. Selected(n) \subseteq Pods /\ Selected(n)' \subseteq Pods
            BY DEF Selected, NamespacePods
          <5> QED
            BY <5>3, <5>4, <5>5
        <4> QED
          BY <4>1, <4>2
      <3> QED
        BY <3>2, <3>3
    <2> QED
      BY <2>1, <2>5, <2>6, FilledButForItems
  <1> QED
    BY <1>1, <1>2 DEF ChangePod

LEMMA FilledChangeNamespace ==
  ASSUME TypeOK, SetsFilled, SetsExact,
         NEW a \in Namespaces, NEW namespace \in MaybeNamespace, ChangeNamespace(a, namespace)
  PROVE  SetsFilled' /\ SetsExact'
  <1>1. CASE step = "down"
    BY <1>1 DEF ChangeNamespace, SetsFilled, SetsExact, Filled
  <1>2. CASE step = "idle"
    <2> DEFINE named(object) ==
                 IF object = None THEN {} ELSE {NamespaceLabelKey(g) : g \in object.labels}
    <2>1. /\ namespaces' = [namespaces EXCEPT ![a] = namespace]
          /\ UNCHANGED <<pods, policies, kernel, crashes>>
          /\ keys' = keys \cup KeysOfNamespace(a, namespace)
          /\ named(namespaces[a]) \cup named(namespace) \subseteq changed'
          /\ changed = {} /\ Filled
      BY <1>2 DEF ChangeNamespace, kernelVars, TypeOK, Filled
    <2>2. \A b : NamespacePods(b)' = NamespacePods(b)
      BY <2>1 DEF NamespacePods
    <2>3. \A b, l : LabelPods(b, l)' = LabelPods(b, l)
      BY <2>1, <2>2 DEF LabelPods
    <2>4. ASSUME NEW g \in NamespaceLabels, NamespaceLabelKey(g) \notin changed'
          PROVE  NamespaceLabelPods(g)' = NamespaceLabelPods(g)
      <3>1. /\ namespaces[a] = None \/ g \notin namespaces[a].labels
            /\ namespace = None \/ g \notin namespace.labels
        BY <2>1, <2>4
      <3>2. \A b \in Namespaces : namespaces'[b] # None /\ g \in namespaces'[b].labels
                                    <=> namespaces[b] # None /\ g \in namespaces[b].labels
        BY <2>1, <3>1 DEF TypeOK
      <3> QED
        BY <2>2, <3>2 DEF NamespaceLabelPods
    <2>5. ASSUME NEW k \in MapKeys, k \notin changed'
          PROVE  Members(k)' = Members(k)
      <3>1. CASE \E b \in Namespaces : k = NamespaceKey(b)
        BY <2>2, <3>1 DEF Members, NamespaceKey
      <3>2. CASE \E b \in Namespaces, l \in Labels : k = LabelKey(b, l)
        BY <2>3, <3>2 DEF Members, LabelKey
      <3>3. CASE \E g \in NamespaceLabels : k = NamespaceLabelKey(g)
        <4>1. PICK g \in NamespaceLabels : k = NamespaceLabelKey(g)
          BY <3>3
        <4>2. NamespaceLabelPods(g)' = NamespaceLabelPods(g)
          BY <2>4, <2>5, <4>1
        <4> QED
          BY <4>1, <4>2 DEF Members, NamespaceLabelKey
      <3> QED
        BY <3>1, <3>2, <3>3, MapKeyCases
    <2>6. ASSUME NEW n \in Enforced
          PROVE  Selected(n)' = Selected(n) /\ (Known(n)' => Known(n))
      <3>1. Selected(n)' = Selected(n)
        BY <2>1, <2>2 DEF Selected
      <3>2. \A b, l : LabelKey(b, l) \in keys' => LabelKey(b, l) \in keys
        BY <2>1, KeysApart DEF KeysOfNamespace
      <3> QED
        BY <2>1, <3>1, <3>2 DEF Known
    <2> QED
      BY <2>1, <2>5, <2>6, FilledButForItems
  <1> QED
    BY <1>1, <1>2 DEF ChangeNamespace

LEMMA FilledCheckUnused ==
  ASSUME TypeOK, RulesInstalled, SetsFilled, SetsExact, CheckUnusedIPSets
  PROVE  SetsFilled' /\ SetsExact'
  <1>1. /\ Settled /\ Filled /\ UNCHANGED <<pods, namespaces, policies, keys>> /\ crashes' = crashes
        /\ changed = {}
    BY DEF CheckUnusedIPSets, clusterVars, Settled, Filled, TypeOK
  <1>2. \A s \in DOMAIN kernel \cap active : kernel'[s] = kernel[s]
    BY DEF CheckUnusedIPSets
  <1>3. ASSUME NEW n \in Enforced
        PROVE  /\ \A k \in TrackedKeys(n, None) : kernel'[k] = kernel[k]
               /\ policies[n].selector # {} => kernel'[SelectorSet(n)] = kernel[SelectorSet(n)]
    <2>1. NeededSets(n, None) \subseteq DOMAIN kernel \cap active
      BY <1>1, PolicySets DEF RulesInstalled
    <2> QED
      BY <1>2, <2>1, PolicySets
  <1>4. \A n \in Enforced : PolicyFilled(n) /\ ~Touched(n) /\ (crashes = 0 => PolicyExact(n))
    BY <1>1 DEF SetsFilled, SetsExact, Touched
  <1>5. ASSUME NEW n \in Enforced
        PROVE  /\ \A k \in TrackedKeys(n, None) : /\ Members(k) \subseteq kernel'[k]
                                                  /\ crashes = 0 => kernel'[k] = Members(k)
               /\ policies[n].selector # {} =>
                    /\ Selected(n) \subseteq kernel'[SelectorSet(n)]
                    /\ crashes = 0 /\ Known(n) => kernel'[SelectorSet(n)] = Selected(n)
    BY <1>1, <1>3, <1>4 DEF PolicyFilled, PolicyExact
  <1> QED
    BY <1>1, <1>5, FilledAfter

LEMMA SetsFilledNext ==
  ASSUME TypeOK, Clean', KeysKnown, ChangedKnown, SelectorsNamed, NoneGivenUp, RulesInstalled,
         EmptyUnknown, AllTracked, SetsFilled, SetsExact, [Next]_vars
  PROVE  SetsFilled' /\ SetsExact'
  <1>1. CASE SyncPodSets
    BY <1>1, FilledSyncPodSets
  <1>2. CASE SyncNamespaceSets
    BY <1>2, FilledSyncNamespaceSets
  <1>3. CASE SyncAllPodSets
    BY <1>3, FilledSyncAllPodSets
  <1>4. CASE CheckUnusedIPSets
    BY <1>4, FilledCheckUnused
  <1>5. ASSUME NEW p \in Pods, NEW pod \in MaybePod, ChangePod(p, pod)
        PROVE  SetsFilled' /\ SetsExact'
    BY <1>5, FilledChangePod
  <1>6. ASSUME NEW a \in Namespaces, NEW namespace \in MaybeNamespace, ChangeNamespace(a, namespace)
        PROVE  SetsFilled' /\ SetsExact'
    BY <1>6, FilledChangeNamespace
  <1>7. CASE \/ Start \/ SyncPolicyRules \/ Tick \/ Crash
             \/ \E n \in Policies, spec \in MaybeSpec : ChangePolicy(n, spec)
    <2>1. ~Filled'
      BY <1>7 DEF Start, SyncPolicyRules, Tick, Crash, ChangePolicy, Filled
    <2> QED
      BY <2>1 DEF SetsFilled, SetsExact
  <1>8. CASE CheckUnusedFails
    BY <1>8, BoundAssumption DEF CheckUnusedFails, Fail, Clean, TypeOK
  <1>9. CASE UNCHANGED vars
    <2>1. /\ UNCHANGED <<policies, pods, namespaces, keys, kernel, crashes, changed, step>>
      BY <1>9 DEF vars
    <2>2. /\ \A n : TrackedKeys(n, None)' = TrackedKeys(n, None) /\ SelectorSet(n)' = SelectorSet(n)
          /\ Enforced' = Enforced
      BY <2>1, SamePolicies
    <2>3. \A n \in Enforced : \A k \in TrackedKeys(n, None) : Members(k)' = Members(k)
      BY <2>1, PolicySets, SameContents
    <2>4. \A n : Selected(n)' = Selected(n) /\ Known(n)' = Known(n) /\ Touched(n)' = Touched(n)
      BY <2>1, SameContents DEF Touched
    <2>5. \A n \in Enforced : /\ PolicyFilled(n) => PolicyFilled(n)'
                              /\ PolicyExact(n) => PolicyExact(n)'
      BY <2>1, <2>2, <2>3, <2>4 DEF PolicyFilled, PolicyExact
    <2> QED
      BY <2>1, <2>2, <2>5 DEF SetsFilled, SetsExact, Filled
  <1> QED
    BY <1>1, <1>2, <1>3, <1>4, <1>5, <1>6, <1>7, <1>8, <1>9 DEF Next, Cluster, Sync

-----------------------------------------------------------------------------
(* Theorems                                                                *)

LEMMA FailuresCount == TypeOK /\ [Next]_vars /\ Clean' => Clean
  <1> SUFFICES ASSUME TypeOK, [Next]_vars PROVE failures' = failures \/ failures' = failures + 1
    BY BoundAssumption DEF Clean, TypeOK
  <1>1. CASE Cluster
    BY <1>1 DEF Cluster, ChangePod, ChangeNamespace, ChangePolicy
  <1>2. CASE SyncPodSets \/ SyncNamespaceSets \/ SyncAllPodSets
    BY <1>2 DEF SyncPodSets, SyncNamespaceSets, SyncAllPodSets, SyncIPSetEntries, Fail, NoFail
  <1>3. CASE SyncPolicyRules
    <2>1. NoFail \/ Fail
      BY <1>3 DEF SyncPolicyRules
    <2> QED
      BY <2>1 DEF Fail, NoFail
  <1>4. CASE CheckUnusedIPSets \/ CheckUnusedFails
    BY <1>4 DEF CheckUnusedIPSets, CheckUnusedFails, Fail, NoFail
  <1>5. CASE Start \/ Tick \/ Crash \/ UNCHANGED vars
    BY <1>5 DEF Start, Tick, Crash, vars
  <1> QED
    BY <1>1, <1>2, <1>3, <1>4, <1>5 DEF Next, Sync

\* Only a selector that is not empty has a set that the rules match on.
LEMMA SelectorReferenced ==
  ASSUME TypeOK, Settled, RulesInstalled, NEW n \in Enforced, SelectorSet(n) \in references
  PROVE  policies[n].selector # {}
  <1>1. PICK m \in Enforced : SelectorSet(n) \in MatchSets(m, None)
    BY DEF RulesInstalled, TypeOK
  <1>2. /\ NamespaceOf[n] \in Namespaces /\ policies[n].selector \in SUBSET Labels
        /\ NamespaceOf[m] \in Namespaces /\ policies[m].selector \in SUBSET Labels
    BY PolicySets
  <1>3. CASE SelectorSet(n) \in TrackedKeys(m, None)
    <2>1. SelectorSet(n) \in MapKeys
      BY <1>3, PolicySets
    <2> QED
      BY <1>2, <2>1, NamesOfSelectors DEF SelectorSet
  <1>4. CASE policies[m].selector # {} /\ SelectorSet(n) = SelectorSet(m)
    BY <1>2, <1>4, NamesOfSelectors DEF SelectorSet
  <1> QED
    BY <1>1, <1>3, <1>4, PolicySets

LEMMA SetsInit == Init => SetsInv
  <1> SUFFICES ASSUME Init PROVE SetsInv
    OBVIOUS
  <1>1. KeysKnown /\ ChangedKnown /\ SelectorsNamed /\ NoneGivenUp
    BY DEF Init, KeysKnown, ChangedKnown, SelectorsNamed, NoneGivenUp
  <1>2. RulesInstalled /\ AllTracked /\ SetsFilled /\ SetsExact
    BY DEF Init, RulesInstalled, AllTracked, SetsFilled, SetsExact, Settled, Filled
  <1>3. EmptyUnknown
    BY DEF Init, EmptyUnknown, NoSets
  <1> QED
    BY <1>1, <1>2, <1>3, TypeInit DEF SetsInv, RulesInv

LEMMA RulesNext == RulesInv /\ [Next]_vars => RulesInv'
  <1> SUFFICES ASSUME RulesInv, [Next]_vars PROVE RulesInv'
    OBVIOUS
  <1>1. TypeOK /\ KeysKnown /\ ChangedKnown /\ SelectorsNamed
    BY DEF RulesInv
  <1>2. TypeOK' /\ KeysKnown' /\ ChangedKnown' /\ SelectorsNamed'
    BY <1>1, TypeNext, KeysKnownNext, ChangedKnownNext, SelectorsNamedNext
  <1>3. ASSUME Clean' PROVE RulesInstalled' /\ EmptyUnknown'
    <2>1. RulesInstalled /\ EmptyUnknown
      BY <1>1, <1>3, FailuresCount DEF RulesInv
    <2> QED
      BY <1>1, <1>3, <2>1, RulesInstalledNext, EmptyUnknownNext
  <1> QED
    BY <1>2, <1>3 DEF RulesInv

LEMMA SetsNext ==
  ASSUME NamespaceOutlivesPolicies
  PROVE  SetsInv /\ [Next]_vars => SetsInv'
  <1> SUFFICES ASSUME SetsInv, [Next]_vars PROVE SetsInv'
    OBVIOUS
  <1>1. RulesInv' /\ TypeOK /\ NoneGivenUp'
    BY RulesNext, NoneGivenUpNext DEF SetsInv, RulesInv
  <1>2. ASSUME Clean' PROVE AllTracked' /\ SetsFilled' /\ SetsExact'
    <2>1. /\ TypeOK /\ KeysKnown /\ ChangedKnown /\ SelectorsNamed /\ NoneGivenUp /\ RulesInstalled
          /\ EmptyUnknown /\ AllTracked /\ SetsFilled /\ SetsExact
      BY <1>1, <1>2, FailuresCount DEF SetsInv, RulesInv
    <2> QED
      BY <1>2, <2>1, AllTrackedNext, SetsFilledNext
  <1> QED
    BY <1>1, <1>2 DEF SetsInv

LEMMA RulesAlways == Spec => []RulesInv
  <1>1. Init => RulesInv
    BY SetsInit DEF SetsInv
  <1> QED
    BY <1>1, RulesNext, PTL DEF Spec

LEMMA SetsAlways ==
  ASSUME NamespaceOutlivesPolicies
  PROVE  Spec => []SetsInv
  <1>1. Init => SetsInv
    BY SetsInit
  <1>2. SetsInv /\ [Next]_vars => SetsInv'
    BY SetsNext
  <1> QED
    BY <1>1, <1>2, PTL DEF Spec

\* checkUnusedIPSets (policy.go): where no command fails, what the daemon leaves in
\* the kernel at SYNCALL are the active sets and no others, whatever a daemon before
\* it had left there, and it goes on tracking none but them.
THEOREM UnusedDestroyedHolds ==
  ASSUME MaxFailures = 0
  PROVE  Spec => UnusedDestroyed
  <1>1. RulesInv /\ [Next]_vars =>
          [CheckUnusedIPSets => DOMAIN kernel' = active' /\ tracked' \subseteq active']_vars
    <2> SUFFICES ASSUME RulesInv, CheckUnusedIPSets
                 PROVE  DOMAIN kernel' = active' /\ tracked' \subseteq active'
      OBVIOUS
    <2>1. TypeOK /\ Settled /\ active' = active
      BY DEF RulesInv, CheckUnusedIPSets, Settled
    <2>2. failures = 0 /\ ~Fail
      BY <2>1, BoundAssumption DEF TypeOK, Fail
    <2>3. RulesInstalled
      BY <2>2 DEF RulesInv, Clean
    <2>4. references \subseteq active
      <3>1. \A n \in Enforced : MatchSets(n, None) \subseteq NeededSets(n, None)
        BY <2>1, NothingLost
      <3> QED
        BY <2>1, <2>3, <3>1 DEF RulesInstalled, TypeOK
    <2>5. active \subseteq DOMAIN kernel
      BY <2>1, <2>3 DEF RulesInstalled
    <2>6. DOMAIN kernel' = active
      BY <2>2, <2>4, <2>5 DEF CheckUnusedIPSets
    <2>7. tracked' \subseteq active
      BY <2>1, Names DEF CheckUnusedIPSets, Inactive, TypeOK
    <2> QED
      BY <2>1, <2>6, <2>7
  <1> QED
    BY <1>1, RulesAlways, PTL DEF Spec, UnusedDestroyed

\* policy.go: where no command has failed, every set that the rules match on is
\* active and in one of the four maps, so that a later item reaches it.
THEOREM ReferencesFollowedHolds ==
  ASSUME NamespaceOutlivesPolicies
  PROVE  Spec => [](failures = 0 => ReferencesFollowed)
  <1>1. SetsInv => (failures = 0 => ReferencesFollowed)
    <2> SUFFICES ASSUME SetsInv, failures = 0, step = "idle", NEW s \in references
                 PROVE  /\ s \in active
                        /\ \/ s \in {SetName(k) : k \in tracked}
                           \/ s \in {selectorSet[n] : n \in Policies}
      BY DEF ReferencesFollowed
    <2>1. TypeOK /\ Settled /\ RulesInstalled /\ AllTracked /\ s \in SetNames
      BY DEF SetsInv, RulesInv, Clean, Settled, TypeOK
    <2>2. PICK n \in Enforced : s \in MatchSets(n, None)
      BY <2>1 DEF RulesInstalled
    <2>3. s \in NeededSets(n, None) /\ n \in Policies
      BY <2>1, <2>2, PolicySets
    <2>4. s \in active
      BY <2>1, <2>3 DEF RulesInstalled
    <2>5. CASE s \in TrackedKeys(n, None)
      <3>1. s \in tracked /\ SetName(s) = s
        BY <2>1, <2>5, PolicySets, Names DEF AllTracked
      <3> QED
        BY <2>4, <3>1
    <2>6. CASE policies[n].selector # {} /\ s = SelectorSet(n)
      <3>1. selectorSet[n] = s
        BY <2>1, <2>6 DEF AllTracked
      <3> QED
        BY <2>3, <2>4, <3>1
    <2> QED
      BY <2>1, <2>3, <2>5, <2>6, PolicySets
  <1> QED
    BY <1>1, SetsAlways, PTL

\* policy.go: where no command has failed, no pod is missing from a set that the rules
\* match on, whatever the kernel had kept from before a restart.
THEOREM NoneMissingHolds ==
  ASSUME NamespaceOutlivesPolicies
  PROVE  Spec => [](failures = 0 => NoneMissing)
  <1>1. SetsInv => (failures = 0 => NoneMissing)
    <2> SUFFICES ASSUME SetsInv, failures = 0, step = "idle", NEW n \in Enforced
                 PROVE  /\ \A k \in MatchKeys(n) : k \in DOMAIN kernel /\ Members(k) \subseteq kernel[k]
                        /\ SelectorSet(n) \in references => Selected(n) \subseteq kernel[SelectorSet(n)]
      BY DEF NoneMissing
    <2>1. TypeOK /\ Settled /\ Filled /\ RulesInstalled /\ SetsFilled /\ changed = {}
      BY DEF SetsInv, RulesInv, Clean, Settled, Filled, TypeOK
    <2>2. NeededSets(n, None) \subseteq DOMAIN kernel
      BY <2>1, PolicySets DEF RulesInstalled
    <2>3. PolicyFilled(n) /\ ~Touched(n)
      BY <2>1 DEF SetsFilled, Touched
    <2>4. /\ MatchKeys(n) \subseteq TrackedKeys(n, None)
          /\ TrackedKeys(n, None) \subseteq NeededSets(n, None)
      BY <2>1, PolicySets
    <2>5. \A k \in MatchKeys(n) : k \in DOMAIN kernel /\ Members(k) \subseteq kernel[k]
      BY <2>1, <2>2, <2>3, <2>4 DEF PolicyFilled
    <2> QED
      BY <2>1, <2>3, <2>5, SelectorReferenced DEF PolicyFilled
  <1> QED
    BY <1>1, SetsAlways, PTL

\* policy.go: as long as the daemon runs and no command fails, SYNCPOD and
\* SYNCNAMESPACE keep every set that the rules match on exact.
THEOREM EntriesExactHolds ==
  ASSUME NamespaceOutlivesPolicies
  PROVE  Spec => []EntriesExact
  <1>1. SetsInv => EntriesExact
    <2> SUFFICES ASSUME SetsInv, step = "idle", crashes = 0, failures = 0
                 PROVE  Exact
      BY DEF EntriesExact
    <2>1. TypeOK /\ Settled /\ Filled /\ RulesInstalled /\ SetsExact /\ changed = {}
      BY DEF SetsInv, RulesInv, Clean, Settled, Filled, TypeOK
    <2>2. \A n \in Enforced : PolicyExact(n) /\ ~Touched(n)
      BY <2>1 DEF SetsExact, Touched
    <2>3. references = UNION {MatchSets(n, None) : n \in Enforced}
      <3>1. \A n \in Enforced : MatchSets(n, None) \subseteq SetNames
        BY <2>1, PolicySets
      <3> QED
        BY <2>1, <3>1 DEF RulesInstalled, TypeOK
    <2>4. references \subseteq DOMAIN kernel
      <3>1. \A n \in Enforced : MatchSets(n, None) \subseteq active
        BY <2>1, PolicySets DEF RulesInstalled
      <3> QED
        BY <2>1, <2>3, <3>1 DEF RulesInstalled
    <2>5. ASSUME NEW n \in Enforced
          PROVE  /\ \A k \in MatchKeys(n) : kernel[k] = Members(k)
                 /\ SelectorSet(n) \in references /\ Known(n) => kernel[SelectorSet(n)] = Selected(n)
      BY <2>1, <2>2, PolicySets, SelectorReferenced DEF PolicyExact
    <2> QED
      BY <2>3, <2>4, <2>5 DEF Exact
  <1> QED
    BY <1>1, SetsAlways, PTL
=============================================================================
