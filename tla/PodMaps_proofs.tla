--------------------------- MODULE PodMaps_proofs ---------------------------
(***************************************************************************)
(* Theorems about PodMaps, for every set of pods, namespaces, addresses    *)
(* and labels: its types, and that the four maps hold exactly what they    *)
(* have been brought to, if an address goes to another pod only after its  *)
(* release has been applied.                                               *)
(***************************************************************************)
EXTENDS PodMaps, TLAPS

(* Types.                                                                  *)

LEMMA TypeInit == Init => TypeOK
  BY DEF Init, TypeOK, MaybePod, MaybeNamespace, PodItem, NamespaceItem, NoItem

\* The items that Update makes: none that is back where it began.
LEMMA ItemTypes ==
  /\ \A item \in PodItem, old, new \in MaybePod :
       UpdatedPodItem(item, old, new) \in PodItem /\ UpdatedItem(item, old, new) \in PodItem
  /\ \A item \in NamespaceItem, old, new \in MaybeNamespace :
       UpdatedItem(item, old, new) \in NamespaceItem
  <1>1. NoItem \in PodItem /\ NoItem \in NamespaceItem
    BY DEF PodItem, NamespaceItem, NoItem, MaybePod, MaybeNamespace
  <1>2. ASSUME NEW item \in PodItem, NEW old \in MaybePod, NEW new \in MaybePod
        PROVE  UpdatedPodItem(item, old, new) \in PodItem /\ UpdatedItem(item, old, new) \in PodItem
    BY <1>1 DEF UpdatedPodItem, UpdatedItem, Previous, SameLabelMap, PodItem
  <1>3. ASSUME NEW item \in NamespaceItem, NEW old \in MaybeNamespace, NEW new \in MaybeNamespace
        PROVE  UpdatedItem(item, old, new) \in NamespaceItem
    BY <1>1 DEF UpdatedItem, Previous, NamespaceItem
  <1> QED
    BY <1>2, <1>3

\* What a pod or namespace contributes has the type of the map it goes into.
LEMMA EntryTypes ==
  /\ \A pod \in MaybePod : Address(pod) \subseteq IPs
  /\ \A pod \in MaybePod, p \in Pods, k \in Namespaces \X Labels : LabelEntry(p, pod, k) \subseteq IPs
  BY DEF Address, LabelEntry, MaybePod, PodInfo

LEMMA TypeNext == TypeOK /\ [Next]_vars => TypeOK'
  <1> SUFFICES ASSUME TypeOK, [Next]_vars PROVE TypeOK'
    OBVIOUS
  <1> USE NamespaceOfAssumption, EntryTypes DEF TypeOK, mapVars, itemVars, storeVars
  <1>1. ASSUME NEW p \in Pods, NEW pod \in MaybePod, RecordPod(p, pod) PROVE TypeOK'
    BY <1>1, ItemTypes DEF RecordPod
  <1>2. ASSUME NEW a \in Namespaces, NEW n \in MaybeNamespace, RecordNamespace(a, n) PROVE TypeOK'
    BY <1>2, ItemTypes DEF RecordNamespace
  <1>3. CASE BeginPodSync
    BY <1>3 DEF BeginPodSync, PodKeys
  <1>4. UpdatedNamespaceInfoMap \in [Namespaces -> MaybeNamespace]
    BY DEF UpdatedNamespaceInfoMap, NamespaceItem
  <1>5. CASE BeginNamespaceSync
    BY <1>4, <1>5 DEF BeginNamespaceSync, NamespaceKeys
  <1>6. ASSUME NEW p \in Pods, UpdatePodMatchLabelMap(p) PROVE TypeOK'
    <2>1. podItems[p].previous \in MaybePod /\ podItems[p].current \in MaybePod
      BY DEF PodItem
    <2> QED
      BY <1>6, <2>1 DEF UpdatePodMatchLabelMap
  <1>7. ASSUME NEW p \in Pods, UpdateNamespacePodMap(p) PROVE TypeOK'
    <2>1. namespacePodItems[p].previous \in MaybePod /\ namespacePodItems[p].current \in MaybePod
      BY DEF PodItem
    <2> QED
      BY <1>7, <2>1 DEF UpdateNamespacePodMap
  <1>8. ASSUME NEW p \in Pods, UpdateNamespaceMatchLabelMapByPod(p) PROVE TypeOK'
    <2>1. namespacePodItems[p].previous \in MaybePod /\ namespacePodItems[p].current \in MaybePod
      BY DEF PodItem
    <2> QED
      BY <1>8, <2>1 DEF UpdateNamespaceMatchLabelMapByPod
  <1>9. ASSUME NEW a \in Namespaces, UpdateNamespaceMatchLabelMap(a) PROVE TypeOK'
    <2>1. \A n, g : NamespaceEntry(a, n, g) \subseteq IPs
      BY DEF NamespaceEntry
    <2> QED
      BY <1>9, <2>1 DEF UpdateNamespaceMatchLabelMap
  <1>10. CASE BeginNamespacePods \/ BeginByPod
    BY <1>10 DEF BeginNamespacePods, BeginByPod, NamespacePodKeys
  <1>11. CASE BeginNamespaceLabels
    BY <1>4, <1>11 DEF BeginNamespaceLabels, NamespaceKeys
  <1>12. NoPodItems \in [Pods -> PodItem] /\ NoNamespaceItems \in [Namespaces -> NamespaceItem]
    BY DEF NoPodItems, NoNamespaceItems, PodItem, NamespaceItem, NoItem, MaybePod, MaybeNamespace
  <1>13. CASE EndPodSync \/ EndNamespaceSync \/ EndInitSync
    BY <1>12, <1>13 DEF EndPodSync, EndNamespaceSync, EndInitSync
  <1>14. CASE UNCHANGED vars
    BY <1>14 DEF vars
  <1> QED
    BY <1>1, <1>2, <1>3, <1>5, <1>6, <1>7, <1>8, <1>9, <1>10, <1>11, <1>13, <1>14 DEF Next

\* Every variable keeps its type, and an item that is back at its beginning goes.
THEOREM TypeCorrect == Spec => []TypeOK
  BY TypeInit, TypeNext, PTL DEF Spec

-----------------------------------------------------------------------------
(* The loops and the items.                                                *)

\* The parts of syncEnnPolicy, their loops, and the keys that are left to each.
LoopsInOrder ==
  /\ sync = "none" <=> loop = "none"
  /\ sync = "none" => todo = {}
  /\ sync = "pod" => loop \in {"podLabels", "namespacePods", "byPod"}
  /\ sync = "init" => loop \in {"podLabels", "namespacePods", "namespaceLabels"}
  /\ sync = "namespace" => loop = "namespaceLabels"
  /\ loop = "podLabels" => todo \subseteq PodKeys
  /\ loop \in {"namespacePods", "byPod"} => todo \subseteq NamespacePodKeys
  /\ loop = "namespaceLabels" => todo \subseteq NamespaceKeys
  /\ initAllSynced => sync = "none"

\* An item leads to what has last been reported.
ItemsCurrent ==
  /\ \A p \in Pods : podItems[p] # NoItem => podItems[p].current = podStore[p]
  /\ \A p \in Pods :
       namespacePodItems[p] # NoItem => namespacePodItems[p].current = podStore[p]
  /\ \A a \in Namespaces :
       namespaceItems[a] # NoItem => namespaceItems[a].current = namespaceStore[a]

\* Up to the first synchronization no label of a namespace has been applied, so the
\* order in which it brings in pods and namespaces is of no account.
NothingLabelled ==
  initAllSynced \/ sync = "init" =>
    \A a \in Namespaces : IF namespaceItems[a] = NoItem THEN namespaceStore[a] = None
                          ELSE namespaceItems[a].previous = None

\* What the store and the items say of a pod after Update.
LEMMA ItemFacts ==
  ASSUME NEW item, NEW old, NEW new
  PROVE  /\ UpdatedItem(item, old, new) # NoItem =>
              /\ UpdatedItem(item, old, new).current = new
              /\ UpdatedItem(item, old, new).previous = Previous(item, old)
         /\ UpdatedItem(item, old, new) = NoItem => new = Previous(item, old)
         /\ UpdatedPodItem(item, old, new) # NoItem =>
              /\ UpdatedPodItem(item, old, new).current = new
              /\ UpdatedPodItem(item, old, new).previous = Previous(item, old)
         /\ UpdatedPodItem(item, old, new) = NoItem => SameLabelMap(Previous(item, old), new)
  BY DEF UpdatedItem, UpdatedPodItem, NoItem, SameLabelMap

LEMMA LoopsNext ==
  ASSUME TypeOK, LoopsInOrder, [Next]_vars
  PROVE  LoopsInOrder'
  <1> USE DEF LoopsInOrder, PodKeys, NamespacePodKeys, NamespaceKeys, mapVars, itemVars, storeVars
  <1>1. ASSUME NEW p \in Pods, NEW pod \in MaybePod, RecordPod(p, pod) PROVE LoopsInOrder'
    BY <1>1 DEF RecordPod, TypeOK
  <1>2. ASSUME NEW a \in Namespaces, NEW n \in MaybeNamespace, RecordNamespace(a, n)
        PROVE  LoopsInOrder'
    BY <1>2 DEF RecordNamespace, TypeOK
  <1>3. CASE BeginPodSync \/ BeginNamespaceSync
    BY <1>3 DEF BeginPodSync, BeginNamespaceSync
  <1>4. ASSUME NEW p \in Pods, UpdatePodMatchLabelMap(p) \/ UpdateNamespacePodMap(p)
                                 \/ UpdateNamespaceMatchLabelMapByPod(p)
        PROVE  LoopsInOrder'
    BY <1>4 DEF UpdatePodMatchLabelMap, UpdateNamespacePodMap, UpdateNamespaceMatchLabelMapByPod
  <1>5. ASSUME NEW a \in Namespaces, UpdateNamespaceMatchLabelMap(a) PROVE LoopsInOrder'
    BY <1>5 DEF UpdateNamespaceMatchLabelMap
  <1>6. CASE BeginNamespacePods \/ BeginByPod \/ BeginNamespaceLabels
    BY <1>6 DEF BeginNamespacePods, BeginByPod, BeginNamespaceLabels
  <1>7. CASE EndPodSync \/ EndNamespaceSync \/ EndInitSync
    BY <1>7 DEF EndPodSync, EndNamespaceSync, EndInitSync
  <1>8. CASE UNCHANGED vars
    BY <1>8 DEF vars
  <1> QED
    BY <1>1, <1>2, <1>3, <1>4, <1>5, <1>6, <1>7, <1>8 DEF Next

LEMMA ItemsNext ==
  ASSUME TypeOK, LoopsInOrder, ItemsCurrent, NothingLabelled, [Next]_vars
  PROVE  ItemsCurrent' /\ NothingLabelled'
  <1> USE DEF ItemsCurrent, NothingLabelled, mapVars, itemVars, storeVars
  <1>1. ASSUME NEW p \in Pods, NEW pod \in MaybePod, RecordPod(p, pod)
        PROVE  ItemsCurrent' /\ NothingLabelled'
    BY <1>1, ItemFacts DEF RecordPod, TypeOK
  <1>2. ASSUME NEW a \in Namespaces, NEW n \in MaybeNamespace, RecordNamespace(a, n)
        PROVE  ItemsCurrent' /\ NothingLabelled'
    BY <1>2, ItemFacts DEF RecordNamespace, TypeOK, Previous
  <1>3. CASE BeginPodSync \/ BeginNamespaceSync
    BY <1>3 DEF BeginPodSync, BeginNamespaceSync
  <1>4. ASSUME NEW p \in Pods, UpdatePodMatchLabelMap(p) \/ UpdateNamespacePodMap(p)
                                 \/ UpdateNamespaceMatchLabelMapByPod(p)
        PROVE  ItemsCurrent' /\ NothingLabelled'
    BY <1>4 DEF UpdatePodMatchLabelMap, UpdateNamespacePodMap, UpdateNamespaceMatchLabelMapByPod
  <1>5. ASSUME NEW a \in Namespaces, UpdateNamespaceMatchLabelMap(a)
        PROVE  ItemsCurrent' /\ NothingLabelled'
    BY <1>5 DEF UpdateNamespaceMatchLabelMap
  <1>6. CASE BeginNamespacePods \/ BeginByPod \/ BeginNamespaceLabels
    BY <1>6 DEF BeginNamespacePods, BeginByPod, BeginNamespaceLabels
  <1>7. CASE EndPodSync \/ EndNamespaceSync \/ EndInitSync
    BY <1>7 DEF EndPodSync, EndNamespaceSync, EndInitSync, NoPodItems, NoNamespaceItems,
                LoopsInOrder
  <1>8. CASE UNCHANGED vars
    BY <1>8 DEF vars
  <1> QED
    BY <1>1, <1>2, <1>3, <1>4, <1>5, <1>6, <1>7, <1>8 DEF Next

-----------------------------------------------------------------------------
(* Addresses.  Without it, unmerge for one pod takes out the address of     *)
(* another: the run PodMapsReuse shows how.                                *)

ClaimsApart == \A p, q \in Pods : p # q => Claims(p) \cap Claims(q) = {}

LEMMA ClaimsNext ==
  ASSUME ReuseAfterApply, TypeOK, ClaimsApart, [Next]_vars
  PROVE  ClaimsApart'
  <1> USE DEF mapVars, itemVars, storeVars
  <1>1. ASSUME NEW p \in Pods, NEW pod \in MaybePod, RecordPod(p, pod)
        PROVE  ClaimsApart'
    <2>1. \A q \in Pods \ {p} : Claims(q)' = Claims(q)
      BY <1>1 DEF RecordPod, Claims, TypeOK
    <2>2. /\ podStore'[p] = pod
          /\ podItems'[p].previous \in {None, Previous(podItems[p], podStore[p])}
          /\ namespacePodItems'[p].previous \in {None, Previous(namespacePodItems[p], podStore[p])}
      BY <1>1, ItemFacts DEF RecordPod, TypeOK, NoItem
    <2>3. Claims(p)' \subseteq Claims(p) \cup Address(pod)
      BY <2>2 DEF Claims, Previous, Address
    <2>4. \A q \in Pods \ {p} : Address(pod) \cap Claims(q) = {}
      BY <1>1, ReuseAfterApply DEF RecordPod, Assignable
    <2> QED
      BY <2>1, <2>3, <2>4 DEF ClaimsApart
  <1>2. CASE EndPodSync \/ EndNamespaceSync \/ EndInitSync
    <2>1. \A p \in Pods : Claims(p)' \subseteq Claims(p)
      BY <1>2 DEF EndPodSync, EndNamespaceSync, EndInitSync, NoPodItems, Claims, Address, NoItem
    <2> QED
      BY <2>1 DEF ClaimsApart
  <1>3. CASE UNCHANGED <<podStore, podItems, namespacePodItems>>
    BY <1>3 DEF ClaimsApart, Claims
  <1> QED
    BY <1>1, <1>2, <1>3
    DEF Next, vars, RecordNamespace, BeginPodSync, BeginNamespaceSync, UpdatePodMatchLabelMap,
        UpdateNamespacePodMap, UpdateNamespaceMatchLabelMapByPod, UpdateNamespaceMatchLabelMap,
        BeginNamespacePods, BeginByPod, BeginNamespaceLabels

-----------------------------------------------------------------------------
(* The maps.  PodSetsExact and NamespaceLabelSetsExact, address by address; *)
(* the two need each other, as UpdateNamespaceMatchLabelMap takes what      *)
(* namespacePodMap has.                                                    *)

PodLabelsExact ==
  \A k \in Namespaces \X Labels, x \in IPs :
    x \in podMatchLabelMap[k] <=> \E p \in Pods : x \in LabelEntry(p, InPodLabels(p), k)
NamespacePodsExact ==
  \A a \in Namespaces, x \in IPs :
    x \in namespacePodMap[a] <=>
      \E p \in Pods : NamespaceOf[p] = a /\ x \in Address(InNamespacePods(p))
InfosExact ==
  \A a \in Namespaces : namespaceInfoMap[a] = InfoOf(a)
NamespaceLabelsExact ==
  \A g \in NamespaceLabels, x \in IPs :
    x \in namespaceMatchLabelMap[g] <=>
      \E p \in Pods : Carries(LabelledAs(NamespaceOf[p]), g) /\ x \in Address(InNamespaceLabels(p))
MapsExact == PodLabelsExact /\ NamespacePodsExact /\ InfosExact /\ NamespaceLabelsExact

\* What a loop has brought a map to is something that the pod claims.
LEMMA ViewFacts ==
  ASSUME TypeOK, NEW p \in Pods
  PROVE  /\ InPodLabels(p) \in MaybePod /\ Address(InPodLabels(p)) \subseteq Claims(p)
         /\ InNamespacePods(p) \in MaybePod /\ Address(InNamespacePods(p)) \subseteq Claims(p)
         /\ InNamespaceLabels(p) \in MaybePod /\ Address(InNamespaceLabels(p)) \subseteq Claims(p)
         /\ \A k : LabelEntry(p, InPodLabels(p), k) \subseteq Claims(p)
  <1>1. /\ podStore[p] \in MaybePod /\ podItems[p].previous \in MaybePod
        /\ namespacePodItems[p].previous \in MaybePod
    BY DEF TypeOK, PodItem
  <1>2. /\ Address(podStore[p]) \subseteq Claims(p)
        /\ Address(podItems[p].previous) \subseteq Claims(p)
        /\ Address(namespacePodItems[p].previous) \subseteq Claims(p)
    BY DEF Claims
  <1>3. \A pod, k : LabelEntry(p, pod, k) \subseteq Address(pod)
    BY DEF LabelEntry, Address
  <1>4. /\ InPodLabels(p) \in {podStore[p], podItems[p].previous}
        /\ InNamespacePods(p) \in {podStore[p], namespacePodItems[p].previous}
        /\ InNamespaceLabels(p) \in {podStore[p], namespacePodItems[p].previous}
    BY DEF InPodLabels, InNamespacePods, InNamespaceLabels
  <1> QED
    BY <1>1, <1>2, <1>3, <1>4

LEMMA ExactByAddress ==
  ASSUME TypeOK
  PROVE  MapsExact <=> PodSetsExact /\ NamespaceLabelSetsExact
  <1> USE DEF TypeOK
  <1>1. PodLabelsExact <=>
          \A k \in Namespaces \X Labels :
            podMatchLabelMap[k] = UNION {LabelEntry(p, InPodLabels(p), k) : p \in Pods}
    <2>1. \A k \in Namespaces \X Labels :
            UNION {LabelEntry(p, InPodLabels(p), k) : p \in Pods} \subseteq IPs
      BY ViewFacts, EntryTypes
    <2> QED
      BY <2>1 DEF PodLabelsExact
  <1>2. NamespacePodsExact <=>
          \A a \in Namespaces :
            namespacePodMap[a] =
              UNION {Address(InNamespacePods(p)) : p \in {q \in Pods : NamespaceOf[q] = a}}
    <2>1. \A a \in Namespaces :
            UNION {Address(InNamespacePods(p)) : p \in {q \in Pods : NamespaceOf[q] = a}} \subseteq IPs
      BY ViewFacts, EntryTypes
    <2> QED
      BY <2>1 DEF NamespacePodsExact
  <1>3. NamespaceLabelsExact <=>
          \A g \in NamespaceLabels :
            namespaceMatchLabelMap[g] =
              UNION {Address(InNamespaceLabels(p)) :
                       p \in {q \in Pods : Carries(LabelledAs(NamespaceOf[q]), g)}}
    <2>1. \A g \in NamespaceLabels :
            UNION {Address(InNamespaceLabels(p)) :
                     p \in {q \in Pods : Carries(LabelledAs(NamespaceOf[q]), g)}} \subseteq IPs
      BY ViewFacts, EntryTypes
    <2> QED
      BY <2>1 DEF NamespaceLabelsExact
  <1>4. InfosExact <=> namespaceInfoMap = [a \in Namespaces |-> InfoOf(a)]
    BY DEF InfosExact
  <1> QED
    BY <1>1, <1>2, <1>3, <1>4 DEF MapsExact, PodSetsExact, NamespaceLabelSetsExact

\* A step that changes none of the maps, and nothing of what a pod or namespace
\* contributes to them.
SameLabels == \A p \in Pods, k \in Namespaces \X Labels :
                LabelEntry(p, InPodLabels(p)', k) = LabelEntry(p, InPodLabels(p), k)
SamePods == \A p \in Pods : InNamespacePods(p)' = InNamespacePods(p)
SameNamespacePods == \A p \in Pods : InNamespaceLabels(p)' = InNamespaceLabels(p)
SameInfos == \A a \in Namespaces : InfoOf(a)' = InfoOf(a)
SameLabelled == \A a \in Namespaces : LabelledAs(a)' = LabelledAs(a)

LEMMA PodLabelsKept ==
  ASSUME PodLabelsExact, SameLabels, UNCHANGED podMatchLabelMap
  PROVE  PodLabelsExact'
  BY DEF PodLabelsExact, SameLabels, LabelEntry

LEMMA NamespacePodsKept ==
  ASSUME NamespacePodsExact, SamePods, UNCHANGED namespacePodMap
  PROVE  NamespacePodsExact'
  BY DEF NamespacePodsExact, SamePods, Address

LEMMA NamespaceLabelsKept ==
  ASSUME NamespaceLabelsExact, SameNamespacePods, SameLabelled, UNCHANGED namespaceMatchLabelMap
  PROVE  NamespaceLabelsExact'
  <1>1. \A p \in Pods : NamespaceOf[p] \in Namespaces
    BY NamespaceOfAssumption
  <1> QED
    BY <1>1 DEF NamespaceLabelsExact, SameNamespacePods, SameLabelled, Address, Carries

LEMMA InfosKept ==
  ASSUME InfosExact, SameInfos, UNCHANGED namespaceInfoMap
  PROVE  InfosExact'
  BY DEF InfosExact, SameInfos

\* PodChangeMap.Update.
LEMMA ExactRecordPod ==
  ASSUME TypeOK, LoopsInOrder, ItemsCurrent, MapsExact,
         NEW p \in Pods, NEW pod \in MaybePod, RecordPod(p, pod)
  PROVE  MapsExact'
  <1>1. UNCHANGED <<namespaceStore, namespaceItems, mapVars, sync, loop, todo>>
    BY DEF RecordPod
  <1>2. loop \in {"none", "namespaceLabels"} /\ sync # "init"
    BY DEF RecordPod, LoopsInOrder, TypeOK
  <1>3. \A q \in Pods \ {p} : /\ podStore'[q] = podStore[q] /\ podItems'[q] = podItems[q]
                              /\ namespacePodItems'[q] = namespacePodItems[q]
    BY DEF RecordPod, TypeOK
  <1>4. /\ podStore'[p] = pod
        /\ podItems'[p] = UpdatedPodItem(podItems[p], podStore[p], pod)
        /\ namespacePodItems'[p] = UpdatedItem(namespacePodItems[p], podStore[p], pod)
    BY DEF RecordPod, TypeOK
  <1>5. InPodLabels(p) = Previous(podItems[p], podStore[p])
    BY <1>2 DEF InPodLabels, Previous
  <1>6. InNamespacePods(p) = Previous(namespacePodItems[p], podStore[p])
        /\ InNamespaceLabels(p) = Previous(namespacePodItems[p], podStore[p])
    BY <1>2 DEF InNamespacePods, InNamespaceLabels, Previous
  <1>7. InNamespacePods(p)' = InNamespacePods(p) /\ InNamespaceLabels(p)' = InNamespaceLabels(p)
    BY <1>1, <1>2, <1>4, <1>6, ItemFacts DEF InNamespacePods, InNamespaceLabels
  <1>8. SameLabelMap(InPodLabels(p), InPodLabels(p)')
    BY <1>1, <1>2, <1>4, <1>5, ItemFacts DEF InPodLabels, SameLabelMap
  <1>9. SameLabels
    <2>1. \A k \in Namespaces \X Labels :
            LabelEntry(p, InPodLabels(p)', k) = LabelEntry(p, InPodLabels(p), k)
      BY <1>8 DEF LabelEntry, SameLabelMap
    <2>2. \A q \in Pods \ {p} : InPodLabels(q)' = InPodLabels(q)
      BY <1>1, <1>3 DEF InPodLabels
    <2> QED
      BY <2>1, <2>2 DEF SameLabels
  <1>10. SamePods /\ SameNamespacePods
    <2>1. \A q \in Pods \ {p} : /\ InNamespacePods(q)' = InNamespacePods(q)
                                /\ InNamespaceLabels(q)' = InNamespaceLabels(q)
      BY <1>1, <1>3 DEF InNamespacePods, InNamespaceLabels
    <2> QED
      BY <1>7, <2>1 DEF SamePods, SameNamespacePods
  <1>11. SameInfos /\ SameLabelled
    BY <1>1 DEF SameInfos, SameLabelled, InfoOf, LabelledAs
  <1> QED
    BY <1>1, <1>9, <1>10, <1>11, PodLabelsKept, NamespacePodsKept, NamespaceLabelsKept, InfosKept
    DEF MapsExact, mapVars

\* NamespaceChangeMap.Update.
LEMMA ExactRecordNamespace ==
  ASSUME TypeOK, LoopsInOrder, MapsExact,
         NEW a \in Namespaces, NEW n \in MaybeNamespace, RecordNamespace(a, n)
  PROVE  MapsExact'
  <1>1. UNCHANGED <<podStore, podItems, namespacePodItems, mapVars, sync, loop, todo>>
    BY DEF RecordNamespace
  <1>2. loop # "namespaceLabels"
    BY DEF RecordNamespace, LoopsInOrder, TypeOK
  <1>3. \A b \in Namespaces \ {a} : /\ namespaceStore'[b] = namespaceStore[b]
                                    /\ namespaceItems'[b] = namespaceItems[b]
    BY DEF RecordNamespace, TypeOK
  <1>4. /\ namespaceStore'[a] = n
        /\ namespaceItems'[a] = UpdatedItem(namespaceItems[a], namespaceStore[a], n)
    BY DEF RecordNamespace, TypeOK
  <1>5. InfoOf(a)' = InfoOf(a) /\ LabelledAs(a)' = LabelledAs(a)
    BY <1>1, <1>2, <1>4, ItemFacts DEF InfoOf, LabelledAs, Previous
  <1>6. SameInfos /\ SameLabelled
    BY <1>1, <1>3, <1>5 DEF SameInfos, SameLabelled, InfoOf, LabelledAs
  <1>7. SameLabels /\ SamePods /\ SameNamespacePods
    BY <1>1 DEF SameLabels, SamePods, SameNamespacePods, InPodLabels, InNamespacePods,
                InNamespaceLabels
  <1> QED
    BY <1>1, <1>6, <1>7, PodLabelsKept, NamespacePodsKept, NamespaceLabelsKept, InfosKept
    DEF MapsExact, mapVars

\* A loop that begins has visited none of its keys, and one that ends all of them.
LEMMA ExactBetweenLoops ==
  ASSUME TypeOK, LoopsInOrder, MapsExact,
         BeginPodSync \/ BeginNamespacePods \/ BeginByPod
           \/ EndPodSync \/ EndNamespaceSync \/ EndInitSync
  PROVE  MapsExact'
  <1>1. UNCHANGED mapVars
    BY DEF BeginPodSync, BeginNamespacePods, BeginByPod, EndPodSync, EndNamespaceSync, EndInitSync
  <1>2. SameLabels /\ SamePods /\ SameNamespacePods /\ SameInfos /\ SameLabelled
    <2> USE DEF SameLabels, SamePods, SameNamespacePods, SameInfos, SameLabelled, InPodLabels,
                InNamespacePods, InNamespaceLabels, InfoOf, LabelledAs, storeVars, itemVars
    <2>1. CASE BeginPodSync
      BY <2>1 DEF BeginPodSync, PodKeys, LoopsInOrder
    <2>2. CASE BeginNamespacePods \/ BeginByPod
      BY <2>2 DEF BeginNamespacePods, BeginByPod, NamespacePodKeys, LoopsInOrder
    <2>3. CASE EndPodSync
      BY <2>3 DEF EndPodSync, NoPodItems, LoopsInOrder
    <2>4. CASE EndNamespaceSync
      BY <2>4 DEF EndNamespaceSync, NoNamespaceItems, LoopsInOrder
    <2>5. CASE EndInitSync
      BY <2>5 DEF EndInitSync, NoPodItems, NoNamespaceItems, LoopsInOrder
    <2> QED
      BY <2>1, <2>2, <2>3, <2>4, <2>5
  <1> QED
    BY <1>1, <1>2, PodLabelsKept, NamespacePodsKept, NamespaceLabelsKept, InfosKept
    DEF MapsExact, mapVars

\* UpdateNamespaceInfoMap, before the loop over the namespaces.
LEMMA InfosUpdated ==
  ASSUME TypeOK, LoopsInOrder, ItemsCurrent, InfosExact,
         loop # "namespaceLabels", loop' = "namespaceLabels",
         namespaceInfoMap' = UpdatedNamespaceInfoMap, UNCHANGED <<namespaceStore, namespaceItems>>
  PROVE  InfosExact'
  BY DEF InfosExact, InfoOf, UpdatedNamespaceInfoMap, NamespaceKeys, ItemsCurrent

LEMMA ExactBeginNamespaces ==
  ASSUME TypeOK, LoopsInOrder, ItemsCurrent, NothingLabelled, MapsExact,
         BeginNamespaceSync \/ BeginNamespaceLabels
  PROVE  MapsExact'
  <1>1. CASE BeginNamespaceSync
    <2>1. /\ UNCHANGED <<storeVars, itemVars, podMatchLabelMap, namespacePodMap,
                         namespaceMatchLabelMap>>
          /\ namespaceInfoMap' = UpdatedNamespaceInfoMap
          /\ loop = "none" /\ loop' = "namespaceLabels" /\ sync' = "namespace"
          /\ todo' = NamespaceKeys /\ sync = "none"
      BY <1>1 DEF BeginNamespaceSync, LoopsInOrder
    <2>2. SameLabels /\ SamePods /\ SameNamespacePods /\ SameLabelled
      BY <2>1 DEF SameLabels, SamePods, SameNamespacePods, SameLabelled, InPodLabels,
                  InNamespacePods, InNamespaceLabels, LabelledAs, NamespaceKeys, storeVars, itemVars
    <2> QED
      BY <2>1, <2>2, PodLabelsKept, NamespacePodsKept, NamespaceLabelsKept, InfosUpdated
      DEF MapsExact, storeVars, itemVars
  <1>2. CASE BeginNamespaceLabels
    <2>1. /\ UNCHANGED <<storeVars, itemVars, podMatchLabelMap, namespacePodMap,
                         namespaceMatchLabelMap, sync>>
          /\ namespaceInfoMap' = UpdatedNamespaceInfoMap
          /\ loop = "namespacePods" /\ loop' = "namespaceLabels" /\ sync = "init"
          /\ todo = {} /\ todo' = NamespaceKeys
      BY <1>2 DEF BeginNamespaceLabels
    <2>2. SameLabels /\ SamePods
      BY <2>1 DEF SameLabels, SamePods, InPodLabels, InNamespacePods, storeVars, itemVars
    <2>3. \A a \in Namespaces : LabelledAs(a) = None /\ LabelledAs(a)' = None
      BY <2>1 DEF LabelledAs, NothingLabelled, NamespaceKeys, storeVars, itemVars
    <2>4. NamespaceLabelsExact'
      BY <2>1, <2>3, NamespaceOfAssumption DEF MapsExact, NamespaceLabelsExact, Carries
    <2> QED
      BY <2>1, <2>2, <2>4, PodLabelsKept, NamespacePodsKept, InfosUpdated
      DEF MapsExact, storeVars, itemVars
  <1> QED
    BY <1>1, <1>2

\* UpdatePodMatchLabelMap: unmerge takes out what the map has of this pod and, as
\* claims are apart, nothing of another.
LEMMA ExactPodLabels ==
  ASSUME TypeOK, LoopsInOrder, ItemsCurrent, ClaimsApart, MapsExact,
         NEW p \in Pods, UpdatePodMatchLabelMap(p)
  PROVE  MapsExact'
  <1>1. /\ UNCHANGED <<storeVars, itemVars, namespacePodMap, namespaceInfoMap,
                       namespaceMatchLabelMap, sync, loop>>
        /\ loop = "podLabels" /\ p \in todo /\ todo' = todo \ {p}
    BY DEF UpdatePodMatchLabelMap
  <1>2. podItems[p] # NoItem /\ podItems[p].current = podStore[p]
    BY <1>1 DEF LoopsInOrder, PodKeys, ItemsCurrent
  <1>3. InPodLabels(p) = podItems[p].previous /\ InPodLabels(p)' = podItems[p].current
    BY <1>1, <1>2 DEF InPodLabels, LoopsInOrder, storeVars, itemVars
  <1>4. \A q \in Pods \ {p} : InPodLabels(q)' = InPodLabels(q)
    BY <1>1 DEF InPodLabels, storeVars, itemVars
  <1>5. PodLabelsExact'
    <2> SUFFICES ASSUME NEW k \in Namespaces \X Labels, NEW x \in IPs
                 PROVE  x \in podMatchLabelMap'[k] <=>
                          \E q \in Pods : x \in LabelEntry(q, InPodLabels(q)', k)
      BY DEF PodLabelsExact, LabelEntry
    <2>1. x \in podMatchLabelMap'[k] <=>
            \/ x \in podMatchLabelMap[k] /\ x \notin LabelEntry(p, InPodLabels(p), k)
            \/ x \in LabelEntry(p, InPodLabels(p)', k)
      BY <1>3 DEF UpdatePodMatchLabelMap
    <2>2. x \in podMatchLabelMap[k] <=> \E q \in Pods : x \in LabelEntry(q, InPodLabels(q), k)
      BY DEF MapsExact, PodLabelsExact
    <2>3. \A q \in Pods \ {p} : x \in LabelEntry(q, InPodLabels(q), k) =>
                                  x \notin LabelEntry(p, InPodLabels(p), k)
      BY ViewFacts DEF ClaimsApart
    <2> QED
      BY <1>4, <2>1, <2>2, <2>3
  <1>6. SamePods /\ SameNamespacePods /\ SameInfos /\ SameLabelled
    BY <1>1 DEF SamePods, SameNamespacePods, SameInfos, SameLabelled, InNamespacePods,
                InNamespaceLabels, InfoOf, LabelledAs, storeVars, itemVars
  <1> QED
    BY <1>1, <1>5, <1>6, NamespacePodsKept, NamespaceLabelsKept, InfosKept DEF MapsExact

\* UpdateNamespacePodMap.
LEMMA ExactNamespacePods ==
  ASSUME TypeOK, LoopsInOrder, ItemsCurrent, ClaimsApart, MapsExact,
         NEW p \in Pods, UpdateNamespacePodMap(p)
  PROVE  MapsExact'
  <1>1. /\ UNCHANGED <<storeVars, itemVars, podMatchLabelMap, namespaceInfoMap,
                       namespaceMatchLabelMap, sync, loop>>
        /\ loop = "namespacePods" /\ p \in todo /\ todo' = todo \ {p}
    BY DEF UpdateNamespacePodMap
  <1>2. namespacePodItems[p] # NoItem /\ namespacePodItems[p].current = podStore[p]
    BY <1>1 DEF LoopsInOrder, NamespacePodKeys, ItemsCurrent
  <1>3. /\ InNamespacePods(p) = namespacePodItems[p].previous
        /\ InNamespacePods(p)' = namespacePodItems[p].current
    BY <1>1, <1>2 DEF InNamespacePods, LoopsInOrder, storeVars, itemVars
  <1>4. \A q \in Pods \ {p} : InNamespacePods(q)' = InNamespacePods(q)
    BY <1>1 DEF InNamespacePods, storeVars, itemVars
  <1>5. NamespacePodsExact'
    <2> SUFFICES ASSUME NEW a \in Namespaces, NEW x \in IPs
                 PROVE  x \in namespacePodMap'[a] <=>
                          \E q \in Pods : NamespaceOf[q] = a /\ x \in Address(InNamespacePods(q)')
      BY DEF NamespacePodsExact, Address
    <2>1. x \in namespacePodMap[a] <=>
            \E q \in Pods : NamespaceOf[q] = a /\ x \in Address(InNamespacePods(q))
      BY DEF MapsExact, NamespacePodsExact
    <2>2. \A q \in Pods \ {p} : x \in Address(InNamespacePods(q)) => x \notin Address(InNamespacePods(p))
      BY ViewFacts DEF ClaimsApart
    <2>3. CASE a = NamespaceOf[p]
      <3>1. x \in namespacePodMap'[a] <=>
              \/ x \in namespacePodMap[a] /\ x \notin Address(InNamespacePods(p))
              \/ x \in Address(InNamespacePods(p)')
        BY <1>3, <2>3 DEF UpdateNamespacePodMap, TypeOK
      <3> QED
        BY <1>4, <2>1, <2>2, <2>3, <3>1
    <2>4. CASE a # NamespaceOf[p]
      <3>1. namespacePodMap'[a] = namespacePodMap[a]
        BY <2>4 DEF UpdateNamespacePodMap, TypeOK
      <3> QED
        BY <1>4, <2>1, <2>4, <3>1
    <2> QED
      BY <2>3, <2>4
  <1>6. SameLabels /\ SameNamespacePods /\ SameInfos /\ SameLabelled
    BY <1>1 DEF SameLabels, SameNamespacePods, SameInfos, SameLabelled, InPodLabels,
                InNamespaceLabels, InfoOf, LabelledAs, storeVars, itemVars
  <1> QED
    BY <1>1, <1>5, <1>6, PodLabelsKept, NamespaceLabelsKept, InfosKept DEF MapsExact

\* UpdateNamespaceMatchLabelMapByPod finds in namespaceInfoMap the labels under which
\* namespaceMatchLabelMap has the pod.
LEMMA ExactByPod ==
  ASSUME TypeOK, LoopsInOrder, ItemsCurrent, ClaimsApart, MapsExact,
         NEW p \in Pods, UpdateNamespaceMatchLabelMapByPod(p)
  PROVE  MapsExact'
  <1>1. /\ UNCHANGED <<storeVars, itemVars, podMatchLabelMap, namespacePodMap, namespaceInfoMap,
                       sync, loop>>
        /\ loop = "byPod" /\ p \in todo /\ todo' = todo \ {p}
    BY DEF UpdateNamespaceMatchLabelMapByPod
  <1>2. namespacePodItems[p] # NoItem /\ namespacePodItems[p].current = podStore[p]
    BY <1>1 DEF LoopsInOrder, NamespacePodKeys, ItemsCurrent
  <1>3. /\ InNamespaceLabels(p) = namespacePodItems[p].previous
        /\ InNamespaceLabels(p)' = namespacePodItems[p].current
    BY <1>1, <1>2 DEF InNamespaceLabels, LoopsInOrder, storeVars, itemVars
  <1>4. \A q \in Pods \ {p} : InNamespaceLabels(q)' = InNamespaceLabels(q)
    BY <1>1 DEF InNamespaceLabels, storeVars, itemVars
  <1>5. \A a \in Namespaces : namespaceInfoMap[a] = LabelledAs(a) /\ LabelledAs(a)' = LabelledAs(a)
    BY <1>1 DEF MapsExact, InfosExact, InfoOf, LabelledAs, storeVars, itemVars
  <1>6. \A q \in Pods : NamespaceOf[q] \in Namespaces
    BY NamespaceOfAssumption
  <1>7. NamespaceLabelsExact'
    <2> SUFFICES ASSUME NEW g \in NamespaceLabels, NEW x \in IPs
                 PROVE  x \in namespaceMatchLabelMap'[g] <=>
                          \E q \in Pods : /\ Carries(LabelledAs(NamespaceOf[q])', g)
                                          /\ x \in Address(InNamespaceLabels(q)')
      BY DEF NamespaceLabelsExact, Address, Carries
    <2>1. x \in namespaceMatchLabelMap[g] <=>
            \E q \in Pods : /\ Carries(LabelledAs(NamespaceOf[q]), g)
                            /\ x \in Address(InNamespaceLabels(q))
      BY DEF MapsExact, NamespaceLabelsExact
    <2>2. \A q \in Pods \ {p} :
            x \in Address(InNamespaceLabels(q)) => x \notin Address(InNamespaceLabels(p))
      BY ViewFacts DEF ClaimsApart
    <2>3. CASE Carries(LabelledAs(NamespaceOf[p]), g)
      <3>1. x \in namespaceMatchLabelMap'[g] <=>
              \/ x \in namespaceMatchLabelMap[g] /\ x \notin Address(InNamespaceLabels(p))
              \/ x \in Address(InNamespaceLabels(p)')
        BY <1>3, <1>5, <1>6, <2>3 DEF UpdateNamespaceMatchLabelMapByPod
      <3> QED
        BY <1>4, <1>5, <1>6, <2>1, <2>2, <2>3, <3>1
    <2>4. CASE ~Carries(LabelledAs(NamespaceOf[p]), g)
      <3>1. namespaceMatchLabelMap'[g] = namespaceMatchLabelMap[g]
        BY <1>5, <1>6, <2>4 DEF UpdateNamespaceMatchLabelMapByPod
      <3> QED
        BY <1>4, <1>5, <1>6, <2>1, <2>4, <3>1
    <2> QED
      BY <2>3, <2>4
  <1>8. SameLabels /\ SamePods /\ SameInfos
    BY <1>1 DEF SameLabels, SamePods, SameInfos, InPodLabels, InNamespacePods, InfoOf,
                storeVars, itemVars
  <1> QED
    BY <1>1, <1>7, <1>8, PodLabelsKept, NamespacePodsKept, InfosKept DEF MapsExact

\* UpdateNamespaceMatchLabelMap finds in namespacePodMap the addresses under which
\* namespaceMatchLabelMap has the namespace.
LEMMA ExactByNamespace ==
  ASSUME TypeOK, LoopsInOrder, ItemsCurrent, ClaimsApart, MapsExact,
         NEW a \in Namespaces, UpdateNamespaceMatchLabelMap(a)
  PROVE  MapsExact'
  <1>1. /\ UNCHANGED <<storeVars, itemVars, podMatchLabelMap, namespacePodMap, namespaceInfoMap,
                       sync, loop>>
        /\ loop = "namespaceLabels" /\ a \in todo /\ todo' = todo \ {a}
    BY DEF UpdateNamespaceMatchLabelMap
  <1>2. namespaceItems[a] # NoItem /\ namespaceItems[a].current = namespaceStore[a]
    BY <1>1 DEF LoopsInOrder, NamespaceKeys, ItemsCurrent
  <1>3. LabelledAs(a) = namespaceItems[a].previous /\ LabelledAs(a)' = namespaceItems[a].current
    BY <1>1, <1>2 DEF LabelledAs, storeVars, itemVars
  <1>4. \A b \in Namespaces \ {a} : LabelledAs(b)' = LabelledAs(b)
    BY <1>1 DEF LabelledAs, storeVars, itemVars
  <1>5. \A q \in Pods : /\ InNamespaceLabels(q) = InNamespacePods(q)
                        /\ InNamespaceLabels(q)' = InNamespaceLabels(q)
    BY <1>1 DEF InNamespaceLabels, InNamespacePods, storeVars, itemVars
  <1>6. \A q \in Pods : NamespaceOf[q] \in Namespaces
    BY NamespaceOfAssumption
  <1>7. NamespaceLabelsExact'
    <2> SUFFICES ASSUME NEW g \in NamespaceLabels, NEW x \in IPs
                 PROVE  x \in namespaceMatchLabelMap'[g] <=>
                          \E q \in Pods : /\ Carries(LabelledAs(NamespaceOf[q])', g)
                                          /\ x \in Address(InNamespaceLabels(q)')
      BY DEF NamespaceLabelsExact, Address, Carries
    <2>1. x \in namespaceMatchLabelMap[g] <=>
            \E q \in Pods : /\ Carries(LabelledAs(NamespaceOf[q]), g)
                            /\ x \in Address(InNamespaceLabels(q))
      BY DEF MapsExact, NamespaceLabelsExact
    <2>2. x \in namespacePodMap[a] <=>
            \E q \in Pods : NamespaceOf[q] = a /\ x \in Address(InNamespaceLabels(q))
      BY <1>5 DEF MapsExact, NamespacePodsExact
    <2>3. \A q, r \in Pods : x \in Address(InNamespaceLabels(q)) /\ x \in Address(InNamespaceLabels(r))
                               => q = r
      BY ViewFacts DEF ClaimsApart
    <2>4. x \in namespaceMatchLabelMap'[g] <=>
            \/ /\ x \in namespaceMatchLabelMap[g]
               /\ ~(Carries(LabelledAs(a), g) /\ x \in namespacePodMap[a])
            \/ Carries(LabelledAs(a)', g) /\ x \in namespacePodMap[a]
      BY <1>3 DEF UpdateNamespaceMatchLabelMap, NamespaceEntry
    <2> QED
      BY <1>4, <1>5, <1>6, <2>1, <2>2, <2>3, <2>4
  <1>8. SameLabels /\ SamePods /\ SameInfos
    BY <1>1 DEF SameLabels, SamePods, SameInfos, InPodLabels, InNamespacePods, InfoOf,
                storeVars, itemVars
  <1> QED
    BY <1>1, <1>7, <1>8, PodLabelsKept, NamespacePodsKept, InfosKept DEF MapsExact

-----------------------------------------------------------------------------
MapsInv == TypeOK /\ LoopsInOrder /\ ItemsCurrent /\ NothingLabelled /\ ClaimsApart /\ MapsExact

LEMMA MapsInit == Init => MapsInv
  <1> SUFFICES ASSUME Init PROVE MapsInv
    OBVIOUS
  <1>1. LoopsInOrder /\ ItemsCurrent /\ NothingLabelled
    BY DEF Init, LoopsInOrder, ItemsCurrent, NothingLabelled
  <1>2. ClaimsApart
    BY DEF Init, ClaimsApart, Claims, Address, NoItem
  <1>3. /\ \A p \in Pods : /\ InPodLabels(p) = None /\ InNamespacePods(p) = None
                           /\ InNamespaceLabels(p) = None
        /\ \A a \in Namespaces : InfoOf(a) = None
    BY DEF Init, InPodLabels, InNamespacePods, InNamespaceLabels, InfoOf
  <1>4. MapsExact
    BY <1>3 DEF Init, MapsExact, PodLabelsExact, NamespacePodsExact, InfosExact,
                NamespaceLabelsExact, LabelEntry, Address
  <1> QED
    BY <1>1, <1>2, <1>4, TypeInit DEF MapsInv

LEMMA MapsNext == ReuseAfterApply /\ MapsInv /\ [Next]_vars => MapsInv'
  <1> SUFFICES ASSUME ReuseAfterApply, MapsInv, [Next]_vars PROVE MapsInv'
    OBVIOUS
  <1>1. TypeOK' /\ LoopsInOrder' /\ ItemsCurrent' /\ NothingLabelled' /\ ClaimsApart'
    BY TypeNext, LoopsNext, ItemsNext, ClaimsNext DEF MapsInv
  <1>2. MapsExact'
    <2> USE DEF MapsInv
    <2>1. CASE UNCHANGED vars
      <3>1. SameLabels /\ SamePods /\ SameNamespacePods /\ SameInfos /\ SameLabelled
        BY <2>1 DEF vars, SameLabels, SamePods, SameNamespacePods, SameInfos, SameLabelled,
                    InPodLabels, InNamespacePods, InNamespaceLabels, InfoOf, LabelledAs
      <3> QED
        BY <2>1, <3>1, PodLabelsKept, NamespacePodsKept, NamespaceLabelsKept, InfosKept
        DEF vars, MapsExact
    <2> QED
      BY <2>1, ExactRecordPod, ExactRecordNamespace, ExactBetweenLoops, ExactBeginNamespaces,
         ExactPodLabels, ExactNamespacePods, ExactByPod, ExactByNamespace DEF Next
  <1> QED
    BY <1>1, <1>2 DEF MapsInv

LEMMA MapsAlways ==
  ASSUME ReuseAfterApply
  PROVE  Spec => []MapsInv
  <1>1. Init => MapsInv
    BY MapsInit
  <1>2. MapsInv /\ [Next]_vars => MapsInv'
    BY MapsNext
  <1> QED
    BY <1>1, <1>2, PTL DEF Spec

\* podinfo.go: whatever the order of the items, podMatchLabelMap and namespacePodMap
\* hold exactly the addresses of the pods they have been brought to.
THEOREM PodSetsExactHolds ==
  ASSUME ReuseAfterApply
  PROVE  Spec => []PodSetsExact
  <1>1. MapsInv => PodSetsExact
    BY ExactByAddress DEF MapsInv
  <1> QED
    BY <1>1, MapsAlways, PTL

\* The two paths to namespaceMatchLabelMap, by pod and by namespace, agree.
THEOREM NamespaceLabelSetsExactHolds ==
  ASSUME ReuseAfterApply
  PROVE  Spec => []NamespaceLabelSetsExact
  <1>1. MapsInv => NamespaceLabelSetsExact
    BY ExactByAddress DEF MapsInv
  <1> QED
    BY <1>1, MapsAlways, PTL

\* Once everything reported has been applied, the maps are what the cluster defines.
THEOREM ConvergedHolds ==
  ASSUME ReuseAfterApply
  PROVE  Spec => []Converged
  <1>1. ASSUME MapsInv, sync = "none", PodKeys = {}, NamespacePodKeys = {}, NamespaceKeys = {}
        PROVE  /\ \A p \in Pods : /\ InPodLabels(p) = podStore[p]
                                  /\ InNamespacePods(p) = podStore[p]
                                  /\ InNamespaceLabels(p) = podStore[p]
               /\ \A a \in Namespaces : LabelledAs(a) = namespaceStore[a]
    BY <1>1 DEF PodKeys, NamespacePodKeys, NamespaceKeys, InPodLabels, InNamespacePods,
                InNamespaceLabels, LabelledAs
  <1>2. ASSUME MapsInv, sync = "none", PodKeys = {}, NamespacePodKeys = {}, NamespaceKeys = {}
        PROVE  Converged
    <2>1. MapsExact /\ TypeOK
      BY <1>2 DEF MapsInv
    <2>2. \A p \in Pods : NamespaceOf[p] \in Namespaces /\ podStore[p] \in MaybePod
      BY <2>1, NamespaceOfAssumption DEF TypeOK
    <2>3. \A p \in Pods : podStore[p] # None => podStore[p].ip \in IPs
      BY <2>2 DEF MaybePod, PodInfo
    <2>4. ASSUME NEW k \in Namespaces \X Labels
          PROVE  podMatchLabelMap[k] =
                   {podStore[p].ip : p \in {q \in Pods : /\ podStore[q] # None
                                                         /\ NamespaceOf[q] = k[1]
                                                         /\ k[2] \in podStore[q].labels}}
      BY <1>1, <1>2, <2>1, <2>3 DEF MapsExact, PodLabelsExact, LabelEntry, TypeOK
    <2>5. ASSUME NEW a \in Namespaces
          PROVE  namespacePodMap[a] =
                   {podStore[p].ip : p \in {q \in Pods : podStore[q] # None /\ NamespaceOf[q] = a}}
      BY <1>1, <1>2, <2>1, <2>3 DEF MapsExact, NamespacePodsExact, Address, TypeOK
    <2>6. ASSUME NEW g \in NamespaceLabels
          PROVE  namespaceMatchLabelMap[g] =
                   {podStore[p].ip : p \in {q \in Pods :
                      podStore[q] # None /\ Carries(namespaceStore[NamespaceOf[q]], g)}}
      BY <1>1, <1>2, <2>1, <2>2, <2>3 DEF MapsExact, NamespaceLabelsExact, Address, TypeOK
    <2> QED
      BY <2>4, <2>5, <2>6 DEF Converged
  <1>3. MapsInv => Converged
    BY <1>2 DEF Converged
  <1> QED
    BY <1>3, MapsAlways, PTL
=============================================================================
