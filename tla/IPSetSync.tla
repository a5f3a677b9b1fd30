----------------------------- MODULE IPSetSync -----------------------------
(***************************************************************************)
(* Which ipsets pkg/policy/policy.go keeps in the kernel and what it puts  *)
(* into them: syncPolicyRules creates the sets that the policies need,     *)
(* records them as tracked and active, and installs rules that refer to    *)
(* them; syncAllPodSets and checkUnusedIPSets go over all of them; the     *)
(* synchronizations of pods and namespaces touch only what has changed.    *)
(*                                                                         *)
(* The maps of pods and namespaces are exact (module PodMaps), so they are *)
(* functions of pods and namespaces here, and a pod is its own IP.  What   *)
(* is left of a map is `keys`: unmerge never deletes a key, and a set      *)
(* whose key is absent is not synchronized.  The sets of the IP range and  *)
(* of flannel, which are always active, are left out.                      *)
(***************************************************************************)
EXTENDS Naturals, FiniteSets

CONSTANTS
  Pods, Namespaces, Labels, NamespaceLabels,
  Policies,               \* names of NetworkPolicies
  NamespaceOf,            \* the namespace of a pod or a policy
  Specs,                  \* the specs that a policy may get
  SharedNames,            \* labels whose key sorts before their value: see SetName
  None,                   \* nil
  MaxFailures,            \* bound: commands that fail
  MaxCrashes,             \* bound: restarts of the daemon
  NamespaceOutlivesPolicies \* environment: the deletion of a namespace is seen
                            \* when no policy of it is left

MaybePod == [labels : SUBSET Labels] \cup {None}
MaybeNamespace == [labels : SUBSET NamespaceLabels] \cup {None}
MaybeSpec == Specs \cup {None}

ASSUME NamespaceOfAssumption == NamespaceOf \in [Pods \cup Policies -> Namespaces]
ASSUME SpecsAssumption ==
  Specs \subseteq [selector : SUBSET Labels, podPeers : SUBSET Labels,
                   namespacePeers : SUBSET NamespaceLabels]
ASSUME BoundAssumption == MaxFailures \in Nat /\ MaxCrashes \in Nat

\* The keys of namespacePodSet, podLabelSet, namespacePodLabelSet, and what a
\* podXLabelSet entry stands for.
NamespaceKey(a)      == <<"namespace", a>>
LabelKey(a, l)       == <<"label", a, l>>
NamespaceLabelKey(g) == <<"namespaceLabel", g>>
SelectorKey(a, ls)   == <<"selector", a, ls>>

LabelKeys == {LabelKey(a, l) : a \in Namespaces, l \in Labels}
MapKeys == {NamespaceKey(a) : a \in Namespaces} \cup LabelKeys
             \cup {NamespaceLabelKey(g) : g \in NamespaceLabels}
SelectorKeys == {SelectorKey(a, ls) : a \in Namespaces, ls \in SUBSET Labels}

\* The names are hashes of the keys, and as good as the keys, but for one case:
\* ennXLabelIPSetName sorts keys and values, and for a single label whose key
\* comes first the result is the name that ennLabelIPSetName gives.
SetName(key) ==
  IF key \in SelectorKeys /\ \E l \in SharedNames : key[3] = {l}
  THEN LabelKey(key[2], CHOOSE l \in SharedNames : key[3] = {l})
  ELSE key

SetNames == MapKeys \cup SelectorKeys
NoSets == [s \in {} |-> {}]

\* nil is no name of a set, no entry of podXLabelMap, and no creation of a set.
ASSUME NoneAssumption ==
  None \notin SetNames \cup [labels : SUBSET Labels] \cup (Policies \X SetNames)

VARIABLES
  pods, namespaces,  \* the objects behind the maps of PodMaps
  keys,              \* the keys present in those maps
  policies,          \* networkPolicyMap
  tracked,           \* keys of podLabelSet, namespacePodLabelSet, namespacePodSet
  selectorOf,        \* podXLabelMap, a selector or None
  selectorSet,       \* podXLabelSet, a name or None
  active,            \* activeIPSets
  kernel,            \* the ipsets in the kernel, with their entries
  references,        \* the sets that the rules in the kernel refer to
  step,              \* where syncEnnPolicy is, "idle" outside, "down" after a crash
  syncAll,           \* its syncType is SYNCALL
  changed,           \* keys of the items of the change map being synchronized
  failures, crashes

clusterVars == <<pods, namespaces, policies>>
trackVars   == <<tracked, selectorOf, selectorSet, active>>
kernelVars  == <<kernel, references>>
vars == <<pods, namespaces, keys, policies, tracked, selectorOf, selectorSet, active,
          kernel, references, step, syncAll, changed, failures, crashes>>

Init ==
  /\ pods = [p \in Pods |-> None]
  /\ namespaces = [a \in Namespaces |-> None]
  /\ policies = [n \in Policies |-> None]
  /\ keys = {} /\ tracked = {} /\ active = {}
  /\ selectorOf = [n \in Policies |-> None]
  /\ selectorSet = [n \in Policies |-> None]
  /\ kernel = NoSets /\ references = {}
  /\ step = "down" /\ syncAll = TRUE /\ changed = {}
  /\ failures = 0 /\ crashes = 0

-----------------------------------------------------------------------------
(* The contents of the maps                                                *)

NamespacePods(a) == {p \in Pods : pods[p] # None /\ NamespaceOf[p] = a}
LabelPods(a, l)  == {p \in NamespacePods(a) : l \in pods[p].labels}
NamespaceLabelPods(g) ==
  UNION {NamespacePods(a) : a \in {b \in Namespaces : namespaces[b] # None
                                                       /\ g \in namespaces[b].labels}}

Members(key) ==
  CASE key[1] = "namespace"      -> NamespacePods(key[2])
    [] key[1] = "label"          -> LabelPods(key[2], key[3])
    [] key[1] = "namespaceLabel" -> NamespaceLabelPods(key[2])

\* The AND of podXLabelMap's labels; one without a key in podMatchLabelMap does
\* not count.
Valid(a, ls) == {l \in ls : LabelKey(a, l) \in keys}
SelectorPods(a, ls) == {p \in NamespacePods(a) : Valid(a, ls) \subseteq pods[p].labels}

\* The keys that the maps get from a pod, and from a namespace.
KeysOfPod(p, pod, namespace) ==
  IF pod = None THEN {}
  ELSE {NamespaceKey(NamespaceOf[p])}
         \cup {LabelKey(NamespaceOf[p], l) : l \in pod.labels}
         \cup (IF namespace = None THEN {} ELSE {NamespaceLabelKey(g) : g \in namespace.labels})

KeysOfNamespace(a, namespace) ==
  IF namespace = None \/ NamespaceKey(a) \notin keys THEN {}
  ELSE {NamespaceLabelKey(g) : g \in namespace.labels}

-----------------------------------------------------------------------------
(* syncIPSetEntry                                                          *)

\* The last command for an entry may fail: then the set is anywhere between
\* what it was and what it should be.
Between(old, new) == {entries \in SUBSET (old \cup new) : old \cap new \subseteq entries}

\* What remains of the budget for a failure in this step.
Fail == failures < MaxFailures /\ failures' = failures + 1
NoFail == failures' = failures

\* Variant: entries are deleted and none is added.
WrittenDeleteOnly(existing, writes) ==
  [s \in existing |-> IF s \in DOMAIN writes THEN kernel[s] \cap writes[s] ELSE kernel[s]]

Written(existing, writes) ==
  [s \in existing |-> IF s \in DOMAIN writes THEN writes[s] ELSE kernel[s]]

\* Every set in DOMAIN writes gets its content, at most one of them in part.  A
\* set that does not exist is an error of GetIPSet and stays absent.
SyncIPSetEntries(existing, writes) ==
  \/ /\ NoFail
     /\ kernel' = Written(existing, writes)
  \/ /\ Fail
     /\ \E damaged \in DOMAIN writes \cap existing :
          \E entries \in Between(kernel[damaged], writes[damaged]) :
            kernel' = [Written(existing, writes) EXCEPT ![damaged] = entries]

\* What is written for a set of keys and a set of policies' selectors.
Writes(mapKeys, owners) ==
  LET names == {SetName(k) : k \in mapKeys} \cup {selectorSet[n] : n \in owners}
  IN  [s \in names |->
         IF s \in mapKeys THEN Members(s)
         ELSE LET n == CHOOSE m \in owners : selectorSet[m] = s
              IN  SelectorPods(NamespaceOf[n], selectorOf[n].labels)]

-----------------------------------------------------------------------------
(* The cluster changes: SYNCPOD and SYNCNAMESPACE                          *)

\* A pod is added, updated or deleted.  The daemon, when it runs, brings its
\* maps up to date and goes on to the sets; the sync holds mu to its end.
ChangePod(p, pod) ==
  LET a == NamespaceOf[p]
      named(object) == IF object = None THEN {} ELSE {LabelKey(a, l) : l \in object.labels}
  IN
  /\ step \in {"idle", "down"}
  /\ pod # pods[p]
  /\ pods' = [pods EXCEPT ![p] = pod]
  /\ IF step = "down" THEN UNCHANGED <<keys, step, changed>>
     ELSE /\ keys' = keys \cup KeysOfPod(p, pod, namespaces[a])
          /\ changed' = named(pods[p]) \cup named(pod) \cup {NamespaceKey(a)}
                          \cup (IF namespaces[a] = None THEN {}
                                ELSE {NamespaceLabelKey(g) : g \in namespaces[a].labels})
          /\ step' = "pods"
  /\ UNCHANGED <<namespaces, policies, trackVars, kernelVars, syncAll, failures, crashes>>

\* A namespace is added, updated or deleted; only when it is deleted does
\* syncNamespaceSets touch the set of the namespace itself.
ChangeNamespace(a, namespace) ==
  LET named(object) ==
        IF object = None THEN {} ELSE {NamespaceLabelKey(g) : g \in object.labels}
  IN
  /\ step \in {"idle", "down"}
  /\ namespace # namespaces[a]
  /\ NamespaceOutlivesPolicies /\ namespace = None =>
       \A n \in Policies : NamespaceOf[n] = a => policies[n] = None
  /\ namespaces' = [namespaces EXCEPT ![a] = namespace]
  /\ IF step = "down" THEN UNCHANGED <<keys, step, changed>>
     ELSE /\ keys' = keys \cup KeysOfNamespace(a, namespace)
          /\ changed' = named(namespaces[a]) \cup named(namespace)
                          \cup (IF namespace = None THEN {NamespaceKey(a)} ELSE {})
          /\ step' = "namespaces"
  /\ UNCHANGED <<pods, policies, trackVars, kernelVars, syncAll, failures, crashes>>

\* Variant: only the selectors all of whose labels have changed.
OwnersOfAll == {n \in Policies : /\ selectorOf[n] # None /\ selectorSet[n] # None
                                 /\ \A l \in selectorOf[n].labels :
                                      LabelKey(NamespaceOf[n], l) \in changed}

\* The selector sets in which one of the changed labels takes part.
Owners == {n \in Policies : /\ selectorOf[n] # None /\ selectorSet[n] # None
                            /\ \E l \in selectorOf[n].labels :
                                 LabelKey(NamespaceOf[n], l) \in changed}

\* Variant: what is active is dropped, and what is not is kept.
ActiveOnes(mapKeys) == {k \in mapKeys : SetName(k) \in active}
Inactive(mapKeys) == {k \in mapKeys : SetName(k) \notin active}
Lapsed(owners) == {n \in owners : selectorSet[n] \notin active}

\* trySyncPodLabelSet, trySyncPodXLabelSet, trySyncNamespacePodSet and
\* trySyncNamespacePodLabelSet: what is tracked is synchronized if its set is
\* active and the map has the key; it is no longer tracked if not active.
ChangedWrites(candidates) ==
  Writes((candidates \ Inactive(candidates)) \cap keys, Owners \ Lapsed(Owners))

\* Variant: without CleanUpItem.
SyncPodSetsKeepingItems ==
  LET candidates == changed \cap tracked IN
  /\ step = "pods"
  /\ SyncIPSetEntries(DOMAIN kernel, ChangedWrites(candidates))
  /\ tracked' = tracked \ Inactive(candidates)
  /\ selectorSet' = [n \in Policies |-> IF n \in Lapsed(Owners) THEN None ELSE selectorSet[n]]
  /\ step' = "idle" /\ changed' = changed
  /\ UNCHANGED <<clusterVars, keys, selectorOf, active, references, syncAll, crashes>>

SyncPodSets ==
  LET candidates == changed \cap tracked IN
  /\ step = "pods"
  /\ SyncIPSetEntries(DOMAIN kernel, ChangedWrites(candidates))
  /\ tracked' = tracked \ Inactive(candidates)
  /\ selectorSet' = [n \in Policies |-> IF n \in Lapsed(Owners) THEN None ELSE selectorSet[n]]
  /\ step' = "idle" /\ changed' = {}
  /\ UNCHANGED <<clusterVars, keys, selectorOf, active, references, syncAll, crashes>>

\* tryDeleteNamespacePodSet destroys the set, which the kernel refuses while a
\* rule refers to it, and stops tracking it in either case.
SyncNamespaceSets ==
  LET deleted == {k \in changed \cap tracked : k[1] = "namespace"}
      candidates == (changed \cap tracked) \ deleted
  IN
  /\ step = "namespaces"
  /\ \/ SyncIPSetEntries(DOMAIN kernel \ (deleted \ references), ChangedWrites(candidates))
     \/ Fail /\ kernel' = Written(DOMAIN kernel, ChangedWrites(candidates))
  /\ tracked' = tracked \ (deleted \cup Inactive(candidates))
  /\ step' = "idle" /\ changed' = {}
  /\ UNCHANGED <<clusterVars, keys, selectorOf, selectorSet, active, references, syncAll, crashes>>

-----------------------------------------------------------------------------
(* SYNCNETWORKPOLICY and SYNCALL                                           *)

\* UpdateNetworkPolicyMap, then all rules and sets.
ChangePolicy(n, spec) ==
  /\ step \in {"idle", "down"}
  /\ spec # policies[n]
  /\ policies' = [policies EXCEPT ![n] = spec]
  /\ IF step = "down" THEN UNCHANGED <<step, syncAll>>
     ELSE step' = "rules" /\ syncAll' = FALSE
  /\ UNCHANGED <<pods, namespaces, keys, trackVars, kernelVars, changed, failures, crashes>>

\* The ticker of SyncLoop.
Tick ==
  /\ step = "idle"
  /\ step' = "rules" /\ syncAll' = TRUE
  /\ UNCHANGED <<clusterVars, keys, trackVars, kernelVars, changed, failures, crashes>>

\* The daemon starts and its first synchronization fills the maps from all that
\* the informers listed.
Start ==
  /\ step = "down"
  /\ keys' = UNION {KeysOfPod(p, pods[p], namespaces[NamespaceOf[p]]) : p \in Pods}
  /\ step' = "rules" /\ syncAll' = TRUE
  /\ UNCHANGED <<clusterVars, trackVars, kernelVars, changed, failures, crashes>>

\* The sets that policy n needs, by key.  `lost` is the pair of a policy and a
\* key whose creation failed, or None: without its namespace set the policy is
\* skipped, a label without its set is left out of the selector or of the peers.
Labelled(n, ls, lost) == {l \in ls : <<n, LabelKey(NamespaceOf[n], l)>> # lost}

Installed(lost) ==
  {n \in Policies : policies[n] # None /\ <<n, NamespaceKey(NamespaceOf[n])>> # lost}

\* dispatchPodSelector and dispatchNamespaceSelector: a set for each label.
PodPeerKeys(n, lost) ==
  {LabelKey(NamespaceOf[n], l) : l \in Labelled(n, policies[n].podPeers, lost)}
NamespacePeerKeys(n, lost) ==
  {NamespaceLabelKey(g) :
     g \in {h \in policies[n].namespacePeers : <<n, NamespaceLabelKey(h)>> # lost}}
PeerKeys(n, lost) == PodPeerKeys(n, lost) \cup NamespacePeerKeys(n, lost)

TrackedKeys(n, lost) ==
  {NamespaceKey(NamespaceOf[n])} \cup PeerKeys(n, lost)
    \cup {LabelKey(NamespaceOf[n], l) : l \in Labelled(n, policies[n].selector, lost)}

SelectorOf(n, lost) == SelectorKey(NamespaceOf[n], Labelled(n, policies[n].selector, lost))
Selecting(lost) == {n \in Installed(lost) : policies[n].selector # {}}

\* What becomes active, and what then exists: the selector's set is active even
\* if it could not be created.
SelectorSets(n, lost) == IF n \in Selecting(lost) THEN {SetName(SelectorOf(n, lost))} ELSE {}
NeededSets(n, lost)  == TrackedKeys(n, lost) \cup SelectorSets(n, lost)
CreatedSets(n, lost) ==
  IF <<n, SelectorOf(n, lost)>> = lost THEN TrackedKeys(n, lost) ELSE NeededSets(n, lost)

\* The sets that the rules of policy n match on: of its namespace, of each peer,
\* and, in a rule with a peer, of the whole selector.
MatchSets(n, lost) ==
  {NamespaceKey(NamespaceOf[n])} \cup PeerKeys(n, lost)
    \cup (IF n \in Selecting(lost) /\ PeerKeys(n, lost) # {}
          THEN {SetName(SelectorKey(NamespaceOf[n], policies[n].selector))} ELSE {})

\* The creations that may fail; the sets of a label in the selector and in the
\* peers of one policy count as one.
Creations ==
  UNION {{<<n, k>> : k \in TrackedKeys(n, None)
                             \cup (IF n \in Selecting(None) THEN {SelectorOf(n, None)} ELSE {})} :
           n \in Installed(None)}

\* Variant: chains that are no longer wanted stay.
RestoreKeepingChains(matched, existing, saved) ==
  IF matched \subseteq existing THEN references' = matched \cup references
  ELSE references' = references

\* What iptables-restore does with rules on `matched`: all or nothing, and it
\* refuses a set that does not exist.  Chains that are no longer wanted go, but
\* when iptables-save failed they are not known and some may stay.
Restore(matched, existing, saved) ==
  IF matched \subseteq existing
  THEN \E stale \in (IF saved THEN {{}} ELSE SUBSET (references \ matched)) :
         references' = matched \cup stale
  ELSE references' = references

\* initActiveIPSets and syncPolicyRules, in which at most one command fails.
SyncPolicyRules ==
  /\ step = "rules"
  /\ \E lost \in Creations \cup {None}, failed \in {"none", "save", "restore"} :
       LET installed == Installed(lost)
           existing == DOMAIN kernel \cup UNION {CreatedSets(n, lost) : n \in installed}
           matched  == UNION {MatchSets(n, lost) : n \in installed}
       IN
       /\ lost = None \/ failed = "none"
       /\ IF lost = None /\ failed = "none" THEN NoFail ELSE Fail
       /\ active' = UNION {NeededSets(n, lost) : n \in installed}
       /\ tracked' = tracked \cup UNION {TrackedKeys(n, lost) : n \in installed}
       /\ selectorOf' = [n \in Policies |->
                           IF n \in Selecting(lost) THEN [labels |-> SelectorOf(n, lost)[3]]
                           ELSE selectorOf[n]]
       /\ selectorSet' = [n \in Policies |->
                            IF n \in Selecting(lost) THEN SetName(SelectorOf(n, lost))
                            ELSE selectorSet[n]]
       /\ kernel' = [s \in existing |-> IF s \in DOMAIN kernel THEN kernel[s] ELSE {}]
       /\ IF failed = "restore" THEN references' = references
          ELSE Restore(matched, existing, failed # "save")
  /\ step' = "entries"
  /\ UNCHANGED <<clusterVars, keys, syncAll, changed, crashes>>

\* Variant: only sets that are still empty are filled.
SyncEmptyPodSets ==
  /\ step = "entries"
  /\ SyncIPSetEntries(DOMAIN kernel,
       Writes({k \in tracked \cap keys : k \in DOMAIN kernel /\ kernel[k] = {}}, {}))
  /\ step' = IF syncAll THEN "unused" ELSE "idle"
  /\ UNCHANGED <<clusterVars, keys, trackVars, references, syncAll, changed, crashes>>

\* syncAllPodSets: every tracked set whose key the map has, active or not, and
\* every selector set that has a label with a key.
SyncAllPodSets ==
  /\ step = "entries"
  /\ SyncIPSetEntries(DOMAIN kernel,
       Writes(tracked \cap keys,
              {n \in Policies : /\ selectorOf[n] # None /\ selectorSet[n] # None
                                /\ Valid(NamespaceOf[n], selectorOf[n].labels) # {}}))
  /\ step' = IF syncAll THEN "unused" ELSE "idle"
  /\ UNCHANGED <<clusterVars, keys, trackVars, references, syncAll, changed, crashes>>

\* checkUnusedIPSets: what is not active is destroyed, if no rule refers to it,
\* and no longer tracked.  A destroy may fail, and the list at the start, which
\* ends the function.
CheckUnusedIPSets ==
  /\ step = "unused"
  /\ \/ /\ NoFail
        /\ kernel' = [s \in DOMAIN kernel \cap (active \cup references) |-> kernel[s]]
     \/ /\ Fail
        /\ \E kept \in DOMAIN kernel \ (active \cup references) :
             kernel' = [s \in DOMAIN kernel \cap (active \cup references \cup {kept}) |-> kernel[s]]
  /\ tracked' = tracked \ Inactive(tracked)
  /\ selectorSet' = [n \in Policies |-> IF selectorSet[n] \in active THEN selectorSet[n] ELSE None]
  /\ step' = "idle"
  /\ UNCHANGED <<clusterVars, keys, selectorOf, active, references, syncAll, changed, crashes>>

CheckUnusedFails ==
  /\ step = "unused"
  /\ Fail
  /\ step' = "idle"
  /\ UNCHANGED <<clusterVars, keys, trackVars, kernelVars, syncAll, changed, crashes>>

\* The daemon dies, anywhere, and the kernel keeps its sets and rules.
Crash ==
  /\ step # "down"
  /\ crashes < MaxCrashes
  /\ crashes' = crashes + 1
  /\ step' = "down" /\ syncAll' = TRUE
  /\ keys' = {} /\ tracked' = {} /\ active' = {} /\ changed' = {}
  /\ selectorOf' = [n \in Policies |-> None]
  /\ selectorSet' = [n \in Policies |-> None]
  /\ UNCHANGED <<clusterVars, kernelVars, failures>>

-----------------------------------------------------------------------------
Cluster ==
  \/ \E p \in Pods, pod \in MaybePod : ChangePod(p, pod)
  \/ \E a \in Namespaces, namespace \in MaybeNamespace : ChangeNamespace(a, namespace)
  \/ \E n \in Policies, spec \in MaybeSpec : ChangePolicy(n, spec)

Sync ==
  \/ Start \/ SyncPodSets \/ SyncNamespaceSets
  \/ SyncPolicyRules \/ SyncAllPodSets \/ CheckUnusedIPSets \/ CheckUnusedFails

Next == Cluster \/ Sync \/ Tick \/ Crash

Spec == Init /\ [][Next]_vars

\* A synchronization that has begun goes on, and SyncLoop's ticks get their turn
\* at mu however often the cluster changes.
Fairness == WF_vars(Sync) /\ SF_vars(Tick)
FairSpec == Spec /\ Fairness

-----------------------------------------------------------------------------
(* Correctness                                                             *)

\* The values of every variable; items of a change map are left only in its
\* synchronization, and an entry of podXLabelSet has one of podXLabelMap.
TypeOK ==
  /\ pods \in [Pods -> MaybePod]
  /\ namespaces \in [Namespaces -> MaybeNamespace]
  /\ policies \in [Policies -> MaybeSpec]
  /\ keys \subseteq MapKeys /\ tracked \subseteq MapKeys /\ changed \subseteq MapKeys
  /\ selectorOf \in [Policies -> [labels : SUBSET Labels] \cup {None}]
  /\ selectorSet \in [Policies -> SetNames \cup {None}]
  /\ active \subseteq SetNames
  /\ DOMAIN kernel \subseteq SetNames
  /\ \A s \in DOMAIN kernel : kernel[s] \subseteq Pods
  /\ references \subseteq SetNames
  /\ step \in {"down", "idle", "pods", "namespaces", "rules", "entries", "unused"}
  /\ syncAll \in BOOLEAN
  /\ changed # {} => step \in {"pods", "namespaces"}
  /\ \A n \in Policies : selectorSet[n] # None => selectorOf[n] # None
  /\ failures \in 0..MaxFailures /\ crashes \in 0..MaxCrashes

\* What policy n selects, "logic of matchLabels should be and" (policy.go).
Selected(n) == {p \in NamespacePods(NamespaceOf[n]) : policies[n].selector \subseteq pods[p].labels}

SelectorSet(n) == SetName(SelectorKey(NamespaceOf[n], policies[n].selector))
Enforced == {n \in Policies : policies[n] # None}
MatchKeys(n) == {NamespaceKey(NamespaceOf[n])} \cup PeerKeys(n, None)
Known(n) == \A l \in policies[n].selector : LabelKey(NamespaceOf[n], l) \in keys

\* The rules match on the sets of all policies, and these hold exactly the pods
\* of the namespace, the pods of each peer, and the pods with all labels of a
\* selector whose labels are known.
Exact ==
  /\ references = UNION {MatchSets(n, None) : n \in Enforced}
  /\ references \subseteq DOMAIN kernel
  /\ \A n \in Enforced :
       /\ \A k \in MatchKeys(n) : kernel[k] = Members(k)
       /\ SelectorSet(n) \in references /\ Known(n) => kernel[SelectorSet(n)] = Selected(n)

\* As long as the daemon runs and no command fails, the kernel enforces what the
\* policies say between synchronizations, although SYNCPOD and SYNCNAMESPACE
\* touch only the sets of what has changed ("since policy is not changed,
\* iptables rule do not need to be changed, only need to sync ipset", policy.go).
EntriesExact == step = "idle" /\ crashes = 0 /\ failures = 0 => Exact

\* Whatever the kernel had kept from before a restart, no pod is missing from a
\* set that the rules match on.
NoneMissing ==
  step = "idle" =>
    \A n \in Enforced :
      /\ \A k \in MatchKeys(n) : k \in DOMAIN kernel /\ Members(k) \subseteq kernel[k]
      /\ SelectorSet(n) \in references => Selected(n) \subseteq kernel[SelectorSet(n)]

\* Every set that the rules match on is active and some entry of the four maps
\* leads to it, so that a later change of a pod or namespace reaches it.
ReferencesFollowed ==
  step = "idle" =>
    references \subseteq active
      \cap ({SetName(k) : k \in tracked} \cup {selectorSet[n] : n \in Policies})

\* SYNCALL leaves no set behind that no policy needs, be it from before a restart.
UnusedDestroyed ==
  [][CheckUnusedIPSets => DOMAIN kernel' = active' /\ tracked' \subseteq active']_vars

\* Failed commands leave sets and rules that are wrong, and the next SYNCALL
\* repairs them: from some time on the kernel is right between synchronizations.
Repaired == <>[](step = "idle" => Exact)

\* "logic of matchLabels should be and" (policy.go): the set of a selector holds
\* only pods that have all its labels.
SelectorIsConjunction ==
  step = "idle" =>
    \A n \in Enforced :
      SelectorSet(n) \in references => kernel[SelectorSet(n)] \subseteq Selected(n)

\* "syncAllPodSets will sync all the ipsets defined in networkPolicy" (policy.go):
\* a set of a peer holds only pods of that peer.
AllSetsSynced ==
  step = "idle" =>
    \A n \in Enforced : \A k \in PeerKeys(n, None) : kernel[k] \subseteq Members(k)

=============================================================================
