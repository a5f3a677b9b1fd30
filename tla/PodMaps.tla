------------------------------ MODULE PodMaps ------------------------------
(***************************************************************************)
(* The data of pkg/policy/util/podinfo.go and namespaceinfo.go: the change *)
(* maps of pods and namespaces, and the four maps that syncEnnPolicy       *)
(* derives from them.  The loops over the items of a change map go one     *)
(* item at a time, in any order, as Go ranges over a map; the locks that   *)
(* EventSync models keep the change map of the running loop unchanged.     *)
(*                                                                         *)
(* A pod that has no IP, uses the host network or has finished is None,    *)
(* like no pod.  A map from IP to PodInfo is its set of IPs, and a key     *)
(* that is absent is an empty set.                                         *)
(***************************************************************************)
EXTENDS Naturals, FiniteSets

CONSTANTS
  Pods,             \* namespaced names of pods
  Namespaces,
  NamespaceOf,      \* the namespace of a pod
  IPs,
  Labels,           \* labels of pods, key and value
  NamespaceLabels,  \* labels of namespaces, key and value
  None,             \* nil
  ReuseAfterApply   \* environment: an IP goes to another pod only after its
                    \* release has been applied, not merely been reported

PodInfo == [ip : IPs, labels : SUBSET Labels]
NamespaceInfo == [labels : SUBSET NamespaceLabels]
MaybePod == PodInfo \cup {None}
MaybeNamespace == NamespaceInfo \cup {None}

ASSUME NamespaceOfAssumption == NamespaceOf \in [Pods -> Namespaces]
ASSUME NoneAssumption == None \notin PodInfo \cup NamespaceInfo

VARIABLES
  podStore,               \* podStore[p]: the pod as last reported
  namespaceStore,         \* namespaceStore[a]: labels of the namespace as last reported
  podItems,               \* PodChangeMap.PodItems
  namespacePodItems,      \* NamespacePodItems, and NamespaceLabelItems, which get
                          \* the same statements
  namespaceItems,         \* NamespaceChangeMap.Items
  podMatchLabelMap,       \* <<namespace, label>> to the IPs of its pods
  namespacePodMap,        \* namespace to the IPs of its pods
  namespaceInfoMap,       \* namespace to its labels
  namespaceMatchLabelMap, \* namespace label to the IPs of pods in such namespaces
  sync,                   \* which part of syncEnnPolicy runs, or "none"
  loop,                   \* the loop it is in
  todo,                   \* the keys that loop has not visited
  initAllSynced

storeVars == <<podStore, namespaceStore>>
itemVars  == <<podItems, namespacePodItems, namespaceItems>>
mapVars   == <<podMatchLabelMap, namespacePodMap, namespaceInfoMap, namespaceMatchLabelMap>>
vars == <<podStore, namespaceStore, podItems, namespacePodItems, namespaceItems,
          podMatchLabelMap, namespacePodMap, namespaceInfoMap, namespaceMatchLabelMap,
          sync, loop, todo, initAllSynced>>

NoItem == [previous |-> None, current |-> None]
PodItem == {item \in [previous : MaybePod, current : MaybePod] :
              item = NoItem \/ item.previous # item.current}
NamespaceItem == {item \in [previous : MaybeNamespace, current : MaybeNamespace] :
                    item = NoItem \/ item.previous # item.current}

Init ==
  /\ podStore = [p \in Pods |-> None]
  /\ namespaceStore = [a \in Namespaces |-> None]
  /\ podItems = [p \in Pods |-> NoItem]
  /\ namespacePodItems = [p \in Pods |-> NoItem]
  /\ namespaceItems = [a \in Namespaces |-> NoItem]
  /\ podMatchLabelMap = [k \in Namespaces \X Labels |-> {}]
  /\ namespacePodMap = [a \in Namespaces |-> {}]
  /\ namespaceInfoMap = [a \in Namespaces |-> None]
  /\ namespaceMatchLabelMap = [g \in NamespaceLabels |-> {}]
  /\ sync = "none" /\ loop = "none" /\ todo = {}
  /\ initAllSynced = TRUE

-----------------------------------------------------------------------------
(* Update of the change maps                                               *)

\* The contribution of a pod to one key of a map, a set of at most one IP.
Address(pod) == IF pod = None THEN {} ELSE {pod.ip}
LabelEntry(p, pod, k) ==
  IF pod # None /\ k[1] = NamespaceOf[p] /\ k[2] \in pod.labels THEN {pod.ip} ELSE {}

\* PodToPodMatchLabelMap gives equal maps: two pods without labels both give an
\* empty map, whatever their IPs.
SameLabelMap(pod, other) ==
  \/ pod = other
  \/ pod # None /\ other # None /\ pod.labels = {} /\ other.labels = {}

\* Variant: the event's own previous object is taken each time.
PreviousOfEvent(item, old) == old

\* Previous is set by the first event of a batch only.
Previous(item, old) == IF item = NoItem THEN old ELSE item.previous

UpdatedPodItem(item, old, new) ==
  IF SameLabelMap(Previous(item, old), new) THEN NoItem
  ELSE [previous |-> Previous(item, old), current |-> new]

\* Variant: an item that is back at its beginning stays.
UpdatedItemKept(item, old, new) == [previous |-> Previous(item, old), current |-> new]

UpdatedItem(item, old, new) ==
  IF Previous(item, old) = new THEN NoItem
  ELSE [previous |-> Previous(item, old), current |-> new]

\* The IPs that pod q holds, as reported or as still present in the maps.
Claims(q) ==
  Address(podStore[q]) \cup Address(podItems[q].previous)
    \cup Address(namespacePodItems[q].previous)

\* What the cluster may assign: no IP of another reported pod, and with
\* ReuseAfterApply none that the maps may still hold for another pod.
Assignable(p, pod) ==
  \A q \in Pods \ {p} :
    Address(pod) \cap (IF ReuseAfterApply THEN Claims(q) ELSE Address(podStore[q])) = {}

\* PodChangeMap.Update, for an add, an update or a delete.
RecordPod(p, pod) ==
  /\ sync \notin {"pod", "init"}
  /\ Assignable(p, pod)
  /\ podItems' = [podItems EXCEPT ![p] = UpdatedPodItem(@, podStore[p], pod)]
  /\ namespacePodItems' = [namespacePodItems EXCEPT ![p] = UpdatedItem(@, podStore[p], pod)]
  /\ podStore' = [podStore EXCEPT ![p] = pod]
  /\ UNCHANGED <<namespaceStore, namespaceItems, mapVars, sync, loop, todo, initAllSynced>>

\* NamespaceChangeMap.Update.
RecordNamespace(a, namespace) ==
  /\ sync \notin {"namespace", "init"}
  /\ namespaceItems' = [namespaceItems EXCEPT ![a] = UpdatedItem(@, namespaceStore[a], namespace)]
  /\ namespaceStore' = [namespaceStore EXCEPT ![a] = namespace]
  /\ UNCHANGED <<podStore, podItems, namespacePodItems, mapVars, sync, loop, todo, initAllSynced>>

-----------------------------------------------------------------------------
(* syncEnnPolicy: the loops over the items                                 *)

PodKeys          == {p \in Pods : podItems[p] # NoItem}
NamespacePodKeys == {p \in Pods : namespacePodItems[p] # NoItem}
NamespaceKeys    == {a \in Namespaces : namespaceItems[a] # NoItem}

\* UpdateNamespaceInfoMap: unmerge and merge by name.
UpdatedNamespaceInfoMap ==
  [a \in Namespaces |-> IF a \in NamespaceKeys THEN namespaceItems[a].current
                        ELSE namespaceInfoMap[a]]

\* The first synchronization, and SYNCPOD, start with UpdatePodMatchLabelMap.
BeginPodSync ==
  /\ sync = "none"
  /\ sync' = IF initAllSynced THEN "init" ELSE "pod"
  /\ initAllSynced' = FALSE
  /\ loop' = "podLabels"
  /\ todo' = PodKeys
  /\ UNCHANGED <<storeVars, itemVars, mapVars>>

\* SYNCNAMESPACE: UpdateNamespaceInfoMap, then UpdateNamespaceMatchLabelMap.
BeginNamespaceSync ==
  /\ sync = "none"
  /\ ~initAllSynced
  /\ sync' = "namespace"
  /\ namespaceInfoMap' = UpdatedNamespaceInfoMap
  /\ loop' = "namespaceLabels"
  /\ todo' = NamespaceKeys
  /\ UNCHANGED <<storeVars, itemVars, podMatchLabelMap, namespacePodMap,
                 namespaceMatchLabelMap, initAllSynced>>

\* UpdatePodMatchLabelMap: unmerge(Previous), then merge(Current).
UpdatePodMatchLabelMap(p) ==
  /\ loop = "podLabels"
  /\ p \in todo
  /\ podMatchLabelMap' =
       [k \in Namespaces \X Labels |->
          (podMatchLabelMap[k] \ LabelEntry(p, podItems[p].previous, k))
            \cup LabelEntry(p, podItems[p].current, k)]
  /\ todo' = todo \ {p}
  /\ UNCHANGED <<storeVars, itemVars, namespacePodMap, namespaceInfoMap,
                 namespaceMatchLabelMap, sync, loop, initAllSynced>>

\* UpdateNamespacePodMap: the same for the namespace of the pod.
UpdateNamespacePodMap(p) ==
  /\ loop = "namespacePods"
  /\ p \in todo
  /\ namespacePodMap' =
       [namespacePodMap EXCEPT ![NamespaceOf[p]] =
          (@ \ Address(namespacePodItems[p].previous)) \cup Address(namespacePodItems[p].current)]
  /\ todo' = todo \ {p}
  /\ UNCHANGED <<storeVars, itemVars, podMatchLabelMap, namespaceInfoMap,
                 namespaceMatchLabelMap, sync, loop, initAllSynced>>

\* The namespace is known and has the label.
Carries(namespace, g) == namespace # None /\ g \in namespace.labels

\* Variant: the previous IP is not taken out of the label sets.
UpdateByPodMergeOnly(p) ==
  /\ loop = "byPod"
  /\ p \in todo
  /\ namespaceMatchLabelMap' =
       [g \in NamespaceLabels |->
          IF Carries(namespaceInfoMap[NamespaceOf[p]], g)
          THEN namespaceMatchLabelMap[g] \cup Address(namespacePodItems[p].current)
          ELSE namespaceMatchLabelMap[g]]
  /\ todo' = todo \ {p}
  /\ UNCHANGED <<storeVars, itemVars, podMatchLabelMap, namespacePodMap, namespaceInfoMap,
                 sync, loop, initAllSynced>>

\* UpdateNamespaceMatchLabelMapByPod: in every label of the pod's namespace; a
\* namespace that is not in namespaceInfoMap is skipped.
UpdateNamespaceMatchLabelMapByPod(p) ==
  /\ loop = "byPod"
  /\ p \in todo
  /\ namespaceMatchLabelMap' =
       [g \in NamespaceLabels |->
          IF Carries(namespaceInfoMap[NamespaceOf[p]], g)
          THEN (namespaceMatchLabelMap[g] \ Address(namespacePodItems[p].previous))
                 \cup Address(namespacePodItems[p].current)
          ELSE namespaceMatchLabelMap[g]]
  /\ todo' = todo \ {p}
  /\ UNCHANGED <<storeVars, itemVars, podMatchLabelMap, namespacePodMap, namespaceInfoMap,
                 sync, loop, initAllSynced>>

\* What unmerge and merge of a namespace take out of and put into label g: all
\* the IPs that namespacePodMap has for it.
NamespaceEntry(a, namespace, g) == IF Carries(namespace, g) THEN namespacePodMap[a] ELSE {}

\* UpdateNamespaceMatchLabelMap: unmerge(Previous), then merge(Current).
UpdateNamespaceMatchLabelMap(a) ==
  /\ loop = "namespaceLabels"
  /\ a \in todo
  /\ namespaceMatchLabelMap' =
       [g \in NamespaceLabels |->
          (namespaceMatchLabelMap[g] \ NamespaceEntry(a, namespaceItems[a].previous, g))
            \cup NamespaceEntry(a, namespaceItems[a].current, g)]
  /\ todo' = todo \ {a}
  /\ UNCHANGED <<storeVars, itemVars, podMatchLabelMap, namespacePodMap, namespaceInfoMap,
                 sync, loop, initAllSynced>>

\* A loop ends and the next begins.  The first synchronization updates
\* namespaceMatchLabelMap by namespace only, all others by what changed.
BeginNamespacePods ==
  /\ loop = "podLabels" /\ todo = {}
  /\ loop' = "namespacePods"
  /\ todo' = NamespacePodKeys
  /\ UNCHANGED <<storeVars, itemVars, mapVars, sync, initAllSynced>>

BeginByPod ==
  /\ loop = "namespacePods" /\ todo = {}
  /\ sync = "pod"
  /\ loop' = "byPod"
  /\ todo' = NamespacePodKeys
  /\ UNCHANGED <<storeVars, itemVars, mapVars, sync, initAllSynced>>

BeginNamespaceLabels ==
  /\ loop = "namespacePods" /\ todo = {}
  /\ sync = "init"
  /\ loop' = "namespaceLabels"
  /\ todo' = NamespaceKeys
  /\ namespaceInfoMap' = UpdatedNamespaceInfoMap
  /\ UNCHANGED <<storeVars, itemVars, podMatchLabelMap, namespacePodMap,
                 namespaceMatchLabelMap, sync, initAllSynced>>

NoPodItems       == [p \in Pods |-> NoItem]
NoNamespaceItems == [a \in Namespaces |-> NoItem]

\* Variant: SYNCPOD cleans up the namespace items too.
EndPodSyncAll ==
  /\ loop = "byPod" /\ todo = {}
  /\ podItems' = NoPodItems
  /\ namespacePodItems' = NoPodItems
  /\ namespaceItems' = NoNamespaceItems
  /\ sync' = "none" /\ loop' = "none"
  /\ UNCHANGED <<storeVars, mapVars, todo, initAllSynced>>

\* CleanUpItem at the end of SYNCPOD,
EndPodSync ==
  /\ loop = "byPod" /\ todo = {}
  /\ podItems' = NoPodItems
  /\ namespacePodItems' = NoPodItems
  /\ sync' = "none" /\ loop' = "none"
  /\ UNCHANGED <<storeVars, namespaceItems, mapVars, todo, initAllSynced>>

\* of SYNCNAMESPACE,
EndNamespaceSync ==
  /\ loop = "namespaceLabels" /\ todo = {}
  /\ sync = "namespace"
  /\ namespaceItems' = NoNamespaceItems
  /\ sync' = "none" /\ loop' = "none"
  /\ UNCHANGED <<storeVars, podItems, namespacePodItems, mapVars, todo, initAllSynced>>

\* and of both change maps in the first synchronization.
EndInitSync ==
  /\ loop = "namespaceLabels" /\ todo = {}
  /\ sync = "init"
  /\ podItems' = NoPodItems
  /\ namespacePodItems' = NoPodItems
  /\ namespaceItems' = NoNamespaceItems
  /\ sync' = "none" /\ loop' = "none"
  /\ UNCHANGED <<storeVars, mapVars, todo, initAllSynced>>

-----------------------------------------------------------------------------
Next ==
  \/ \E p \in Pods, pod \in MaybePod : RecordPod(p, pod)
  \/ \E a \in Namespaces, namespace \in MaybeNamespace : RecordNamespace(a, namespace)
  \/ BeginPodSync \/ BeginNamespaceSync
  \/ \E p \in Pods : \/ UpdatePodMatchLabelMap(p) \/ UpdateNamespacePodMap(p)
                     \/ UpdateNamespaceMatchLabelMapByPod(p)
  \/ \E a \in Namespaces : UpdateNamespaceMatchLabelMap(a)
  \/ BeginNamespacePods \/ BeginByPod \/ BeginNamespaceLabels
  \/ EndPodSync \/ EndNamespaceSync \/ EndInitSync

Spec == Init /\ [][Next]_vars

-----------------------------------------------------------------------------
(* Correctness                                                             *)

\* The values of every variable; no item has come back to where it began.
TypeOK ==
  /\ podStore \in [Pods -> MaybePod]
  /\ namespaceStore \in [Namespaces -> MaybeNamespace]
  /\ podItems \in [Pods -> PodItem]
  /\ namespacePodItems \in [Pods -> PodItem]
  /\ namespaceItems \in [Namespaces -> NamespaceItem]
  /\ podMatchLabelMap \in [Namespaces \X Labels -> SUBSET IPs]
  /\ namespacePodMap \in [Namespaces -> SUBSET IPs]
  /\ namespaceInfoMap \in [Namespaces -> MaybeNamespace]
  /\ namespaceMatchLabelMap \in [NamespaceLabels -> SUBSET IPs]
  /\ sync \in {"none", "pod", "namespace", "init"}
  /\ loop \in {"none", "podLabels", "namespacePods", "byPod", "namespaceLabels"}
  /\ todo \in SUBSET (Pods \cup Namespaces)
  /\ initAllSynced \in BOOLEAN

\* The pod that each of the three pod loops has brought the maps to: what was
\* reported, or what was there before for an item the loop has still to visit.
InPodLabels(p) ==
  IF podItems[p] = NoItem \/ loop \in {"namespacePods", "byPod"}
     \/ (loop = "podLabels" /\ p \notin todo) \/ (sync = "init" /\ loop = "namespaceLabels")
  THEN podStore[p] ELSE podItems[p].previous

InNamespacePods(p) ==
  IF namespacePodItems[p] = NoItem \/ loop = "byPod"
     \/ (loop = "namespacePods" /\ p \notin todo) \/ (sync = "init" /\ loop = "namespaceLabels")
  THEN podStore[p] ELSE namespacePodItems[p].previous

InNamespaceLabels(p) ==
  IF namespacePodItems[p] = NoItem \/ (loop = "byPod" /\ p \notin todo)
     \/ (sync = "init" /\ loop = "namespaceLabels")
  THEN podStore[p] ELSE namespacePodItems[p].previous

\* The labels that namespaceInfoMap and namespaceMatchLabelMap have for a.
InfoOf(a) ==
  IF namespaceItems[a] = NoItem \/ loop = "namespaceLabels"
  THEN namespaceStore[a] ELSE namespaceItems[a].previous

LabelledAs(a) ==
  IF namespaceItems[a] = NoItem \/ (loop = "namespaceLabels" /\ a \notin todo)
  THEN namespaceStore[a] ELSE namespaceItems[a].previous

\* podMatchLabelMap and namespacePodMap hold exactly the IPs of the pods they
\* have been brought to, after every iteration in whatever order: unmerge never
\* takes out the IP of another pod, and no IP stays behind (podinfo.go).
PodSetsExact ==
  /\ \A k \in Namespaces \X Labels :
       podMatchLabelMap[k] = UNION {LabelEntry(p, InPodLabels(p), k) : p \in Pods}
  /\ \A a \in Namespaces :
       namespacePodMap[a] =
         UNION {Address(InNamespacePods(p)) : p \in {q \in Pods : NamespaceOf[q] = a}}

\* namespaceMatchLabelMap, which pods and namespaces update on two paths (by pod
\* through namespaceInfoMap, by namespace through namespacePodMap), holds for
\* each label exactly the IPs of the pods of the namespaces that carry it.
NamespaceLabelSetsExact ==
  /\ namespaceInfoMap = [a \in Namespaces |-> InfoOf(a)]
  /\ \A g \in NamespaceLabels :
       namespaceMatchLabelMap[g] =
         UNION {Address(InNamespaceLabels(p)) :
                  p \in {q \in Pods : Carries(LabelledAs(NamespaceOf[q]), g)}}

\* Once everything reported has been applied, every set is the one the cluster
\* defines: the pods with the label in the namespace, the pods of the namespace,
\* the pods of the namespaces with the label ("PodMatchLabelMap represent the
\* pods set for corresponding label of pod", podinfo.go, and its siblings).
Converged ==
  sync = "none" /\ PodKeys = {} /\ NamespacePodKeys = {} /\ NamespaceKeys = {} =>
    /\ \A k \in Namespaces \X Labels :
         podMatchLabelMap[k] =
           {podStore[p].ip : p \in {q \in Pods : /\ podStore[q] # None
                                                 /\ NamespaceOf[q] = k[1]
                                                 /\ k[2] \in podStore[q].labels}}
    /\ \A a \in Namespaces :
         namespacePodMap[a] =
           {podStore[p].ip : p \in {q \in Pods : podStore[q] # None /\ NamespaceOf[q] = a}}
    /\ \A g \in NamespaceLabels :
         namespaceMatchLabelMap[g] =
           {podStore[p].ip : p \in {q \in Pods : /\ podStore[q] # None
                                                 /\ Carries(namespaceStore[NamespaceOf[q]], g)}}

=============================================================================
