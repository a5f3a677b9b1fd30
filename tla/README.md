# enn-policy in TLA+

enn-policy is a Kubernetes node agent that turns `networking/v1` NetworkPolicies into
iptables rules and ipsets. Three informers tell it about pods, namespaces and policies.
It keeps maps from labels to pod IPs, one kernel ipset for every namespace, label and
selector that some policy mentions, and chains of rules that match on these sets. This
directory holds TLA+ models of the agent, the TLC configurations that check them on small
clusters, and proofs for TLAPS.

## 1. The system

Paths are relative to `src/`; `policy.go` is `pkg/policy/policy.go`.

| component | state | operations | hard behaviour | what makes it correct |
|---|---|---|---|---|
| Event pipeline: informers, handlers, change maps, `SyncLoop`, `syncEnnPolicy` (`policy.go`, `pkg/policy/config/*`, `pkg/policy/util/*info.go`) | three change maps with their locks, `mu`, `podSynced`, `namespaceSynced`, `networkPolicySynced`, `initialized`, `initAllSynced` | `OnXAdd/Update/Delete`, `OnXSynced`, `Sync`, `syncEnnPolicy` | up to seven goroutines; events coalesced while other goroutines apply them; early returns; first synchronization by whichever goroutine is first to see all flags | no event lost or applied twice; the maps catch up; no deadlock; stops on a signal |
| Pod and namespace maps (`podinfo.go`, `namespaceinfo.go`) | `podMatchLabelMap`, `namespacePodMap`, `namespaceInfoMap`, `namespaceMatchLabelMap` | `Update*Map*`, `merge`, `unmerge` | items in the random order of a Go map; one map updated on two paths | each map is the one the reported objects define |
| Policy map (`policyinfo.go`) | `networkPolicyMap` | `UpdateNetworkPolicyMap`, `buildNetworkPolicyInfo` | defaults and empty lists | as above |
| ipset bookkeeping (`policy.go`, `pkg/util/ipset`) | `podLabelSet`, `podXLabelMap`, `podXLabelSet`, `namespacePodLabelSet`, `namespacePodSet`, `activeIPSets`; in the kernel the sets and their entries | `initActiveIPSets`, `syncPolicyRules`, `syncAllPodSets`, `syncPodSets`, `syncNamespaceSets`, `checkUnusedIPSets` | incremental updates of what changed; lazily dropped entries; commands that fail; restarts with sets left in the kernel | every set a rule matches on exists and holds the right pods; unused sets go |
| Rule construction (`policy.go` 814-2036) | buffers for `iptables-restore`, chains in the kernel | `syncPolicyRules`, `syncIngressRule`, `syncEgressRule`, `dispatch*`, `handleIPBlockChain`, `ensureEnnEntry` | several policies and peers in one chain; order of rules; default reject | a packet passes exactly if some policy allows it |
| Names (`policy.go` 3003-3090) | none | `enn*Name` | hashes of concatenated strings | different things get different names |
| Flannel and IP range sets (`policy.go` 579-796, `pkg/util/tool`) | two sets | `ensureFlannelNetSet*`, `ensureIPRangeSet*` | address arithmetic with carries | the sets hold the addresses of the node's gateways |
| Server (`app/server.go`) | `StopCh`, a wait group | `Run`, `CleanUpAndExit` | unbuffered channel to a loop that may be waiting for `mu` | ends after a signal |
| Cleanup mode (`policy.go` 2782-3001) | rules, sets | `CleanupLeftovers` | rules deleted by index while a list is walked | nothing of enn-policy is left, nothing else goes |
| iptables runner (`pkg/util/k8siptables`) | two lock files | `RestoreAll`, `SaveInto`, `grabIptablesLocks` | two locks with timeouts | locks exclude and are released |

How they interact. Each informer calls its handler sequentially. A handler calls `Update`
of its change map, which takes the lock of that map, and then, if `initialized` is set,
`syncEnnPolicy(SYNCPOD | SYNCNAMESPACE | SYNCNETWORKPOLICY)`, which holds `mu` from beginning to
end. `syncEnnPolicy` ensures the entry chains and the two node-wide sets, returns unless all
three caches are synced, and on its first passage applies all change maps and does a full
synchronization. After that each kind updates its own maps and then the kernel: SYNCPOD and
SYNCNAMESPACE only the sets of the labels in the change map, SYNCNETWORKPOLICY all rules and all
sets, SYNCALL (the ticker) all of it and the destruction of unused sets, without looking at
the change maps. The kernel keeps sets and rules over a restart.

Not modelled: vendored code (the informers are an environment that
delivers events in order), the D-Bus watch (no reload function is registered), options, version
parsing, command lines and the parsing of command output, and functions that nothing calls
(`cleanupPolicy`, `cleanupEntry`, most of the two iptables wrappers).

## 2. Modules

| module | models | composed with |
|---|---|---|
| `EventSync` | threads, locks, flags, change maps and the control of `syncEnnPolicy` | implements `Mirror` |
| `Mirror` | what `EventSync` promises: the maps follow what was recorded, whole kinds at a time | |
| `EventSync_proofs` | theorems about `EventSync` | extends `EventSync` |
| `PodMaps` | the data behind `EventSync`'s `applied`: the four maps, item by item | |
| `PodMaps_proofs` | theorems about `PodMaps` | extends `PodMaps` |
| `IPSetSync` | which sets exist, are tracked and active, what they hold, what rules refer to | takes the maps of `PodMaps` as exact |
| `IPSetSync_proofs` | theorems about `IPSetSync` | extends `IPSetSync` |
| `PolicyRules` | the chains that policies turn into, the restore that installs them, and the verdict of a packet | takes the sets of `IPSetSync` as exact |
| `PolicyRules_proofs` | theorems about `PolicyRules`: types and chains | extends `PolicyRules` |
| `PolicyVerdicts_proofs` | theorem about `PolicyRules`: verdicts | extends `PolicyRules_proofs` |
| `FlannelNet` | the addresses of the nodes' gateways | |
| `FlannelNet_proofs` | theorems about `FlannelNet` | extends `FlannelNet` |
| `NodeTables` | jumps into the entry chains, node-wide sets, locks of iptables, crash and restart, cleanup mode, other programs | extends `FlannelNet`; has `PolicyRules`' chains as one flag |
| `NodeTables_proofs` | theorems about `NodeTables` | extends `NodeTables` and `FlannelNet_proofs` |
| `Induction_proofs` | least numbers, induction, and that recursive functions exist | used by `FlannelNet_proofs` and `PolicyRules_proofs` |
| `MCEventSync`, `MCPodMaps`, `MCIPSetSync`, `MCPolicyRules`, `MCNodeTables` | constants and symmetries for TLC | |

The first three detailed modules cut the daemon in layers. `EventSync` has every interleaving and no
data beyond "what an object contributes"; it shows that the loops which `PodMaps` runs item by
item are not disturbed by another goroutine (`LockDiscipline`) and see each event once
(`NoLostUpdate`). `PodMaps` shows that the maps are functions of the reported objects
(`Converged`); `IPSetSync` starts from there, and keeps of the maps only which keys they have.
`PolicyRules` goes on from `IPSetSync`: the sets hold what they should, and what is left is which
rules match on them and in which order. `NodeTables` is what lies around one synchronization: the
`ensure` steps before it and the restore at its end, on a node with other programs.

### EventSync

A thread is a pair such as `<<"informer", "pod">>`, so that it is its own default argument of
`syncEnnPolicy`: `pc[t]` says where it is and `syncType[t]` the argument of its call. Actions
follow the code between two points where another goroutine can see a difference.

| code | action |
|---|---|
| informer calls `OnXAdd/Update/Delete`, `Update` takes the lock | `HandleEvent` |
| rest of `Update` | `RecordChange`, with `Updated` for an item |
| `if changed && policy.isInitialized()` | `CheckInitialized` |
| `OnXSynced` up to `mu.Unlock` | `OnSynced` |
| ticker case of `SyncLoop` | `Tick` |
| `policy.mu.Lock()` | `Lock` |
| an `ensure*` step returns an error | `EnsureFails` |
| `if !(podSynced && ...) return` | `NotAllSynced` |
| `if policy.initAllSynced` and its block | `BeginInitAll`, `InitLockPods`, `InitLockNamespaces`, `InitPolicies`, `InitMaps` |
| `switch syncType` | `SyncAll`, or `LockChanges`, `UpdateMaps`, `CleanUpItem` |
| `Run`: signal, `StopCh <- struct{}{}`, `wg.Wait` | `Signal`, `StopHandoff`, `Exit` |

`applied[k][n]` is the *set* of contributions of object `n` in the maps, so that an event applied
twice, or against the wrong previous value, shows as a set with the wrong members.

### PodMaps

`RecordPod` is `PodChangeMap.Update` with its two kinds of items: `podItems`, which compares label
maps and therefore takes two pods without labels for equal, and `namespacePodItems`, which compares IP and labels;
the code's third map `NamespaceLabelItems` gets the same statements as the second and is not
repeated. `UpdatePodMatchLabelMap(p)` and its siblings are one iteration of a loop over the
items, and `todo` the keys that the loop has not visited; `Begin...` and `End...` go from loop to
loop in the order of `syncEnnPolicy`, which differs between the first synchronization, SYNCPOD and
SYNCNAMESPACE. `RecordPod` is possible while SYNCNAMESPACE runs and the other way round, as the two change
maps have different locks.

Pods with the host network, without an IP or finished are `None`, like no pod: both conversions in `podinfo.go` give nil or an empty map for them.
An IP belongs to one pod at a time; with `ReuseAfterApply` it also goes to another pod only after
its release was applied. Section 5 says what happens without.

### IPSetSync

One action per phase of a synchronization, all under `mu`, with the crash and the failing
command between or inside them. `ChangePod`, `ChangeNamespace` and `ChangePolicy` are the event with the
map update that follows; `SyncPodSets`, `SyncNamespaceSets`, `SyncPolicyRules`, `SyncAllPodSets` and
`CheckUnusedIPSets` are the functions of those names, whole. `Writes` is the list of (set, content) pairs
that a function passes to `syncIPSetEntry`; `SyncIPSetEntries` does them, the last one
partly if a command fails. `SyncPolicyRules` lets at most one command fail per run: the creation of a
set (`lost`), `iptables-save` or `iptables-restore`, and each has the consequence that the
code gives it: a policy skipped, a label left out of the selector, stale chains kept, the
whole restore refused.

`SetName` models the one regular sharing of set names: `ennXLabelIPSetName` sorts its label keys and values
together, and for one label whose key sorts before its value the result is what
`ennLabelIPSetName` gives. `SharedNames` are those labels; for them the set of a selector
and the set of a label in a peer are one.

### PolicyRules

A chain or set name is the tuple of what the code hashes; `Owner` keeps the one concatenation in which
two policies could meet. `lines` is the buffer `filterRules`; the chain lines of `filterChains` are
the domain of the chains named there (`EntryChains`, `Active`). A rule is the sets that it matches on
for each direction, its ports and its target.

| code | definition |
|---|---|
| `buildNetworkPolicyInfo` | `NetworkPolicyInfo`, `RuleInfo` |
| `syncPolicyRules` up to its loop, after `UpdateNetworkPolicyMap` | `Begin`, in `ChangePolicy` (SYNCNETWORKPOLICY) and `Resync` (SYNCALL) |
| one iteration, policies in any order | `SyncPolicy` |
| `syncIngressRule`, `syncEgressRule` | `DirectionLines`, `EntryLines`, `FlannelLines`, `IPRangeLines`, `RuleLines` |
| `dispatchOnlyPorts`, `dispatchPodSelector`, `dispatchNamespaceSelector`, `dispatchIPBlock`, `handleIPBlockChain` | the operators of these names |
| `syncIPSetEntryForNet` for the ipBlocks of an entry, of a direction, of a policy | `BlockWrites`, `DirectionWrites`, `ExceptWrites`; `Written` for what remains |
| established and reject rules, `-X` of unused chains, `RestoreAll` | `ChainRules`, `Unused`, `RestoreAll` |

`Verdict` walks a packet through the installed chains as the kernel does. `Judgement` is the reference,
written from the policies alone: `Selects`, `PeerAllows`, `PortAllows`, `Grants` follow the fields of
`NetworkPolicySpec`. `PlainSpecs` says of which specs the code makes what these fields mean; `MCPolicyRules` assumes it
of its configuration (`PlainSpecsAssumption`), and section 5 says what happens to the others. A failing command leaves a policy out (`skipped`), rules of peers (`narrowed`: then more may be
refused, never more accepted), or makes the sets unknown, about which nothing is said.

### NodeTables

One process at a time. The daemon's `Sync` begins `syncEnnPolicy` and goes through `NewChain`, `Exists`, `DeleteJump`,
`InsertJump` (the three commands of `PrependUnique`), `EnsureSets`, `DropRange`, `AddRange`, `EnsureFlannel`,
`SaveInto`, `GrabLock16`, `GrabLock14`, `Restore`. Cleanup goes through `List`, `DeleteByIndex` and `HookDone` for each hook,
`SaveInto` and `Restore`, `CleanupIPSets`. Each command is an action, atomic under its lock, and may fail with
the consequence the code gives it. `Crash` is possible everywhere and keeps the kernel's state; other programs insert and
remove rules of their own (`OtherRules`) and take the locks (`OtherLocks`) between any two commands. The rules of all
policies are one flag, `policing`; `options.iPRange` says whether `--ip-range` is its default 0.0.0.0/0, for which `AddRange`
adds nothing, and if not, whether it is written as the kernel lists it; `options.restoreWaits` says whether `iptables-restore` has a `--wait` flag, without which the runner takes the locks
itself.

`FlannelNet` has the arithmetic of `ensureFlannelNetSetMember` and `IpOperateAdd`, byte by byte with its carries, against
`Gateways`, which is computed with two halves of 16 bits. `FlannelIpsInt` is the loop's variable as a function of the iterations,
and `Invalid` from where the loop breaks off. A network need not be aligned: what would lie beyond 255.255.255.255 is in
neither set.

## 3. Runs

| run | question | result |
|---|---|---|
| `EventSyncSafety` | two pods and two policies with two contributions each, informers, config goroutines and ticks: `TypeOK`, `LockDiscipline`, `NoLostUpdate`, `PendingIsOwned`, and the refinement `MirrorsRecorded`; is there a deadlock (TLC's own check, on for every run) | holds |
| `EventSyncLive` | do the maps catch up (`MirrorCatchesUp`), although seven threads compete for `mu` | holds |
| `EventSyncStop` | does the process end after a signal (`Shutdown`), with failures and events that never stop | holds |
| `EventSyncRefresh` | is a change whose synchronization returned early brought in by a refresh (`RefreshRepairs`) | violated, finding 1 |
| `PodMapsExact` | are the maps right after every iteration (`PodSetsExact`, `NamespaceLabelSetsExact`) and at rest (`Converged`) | holds |
| `PodMapsReuse` | the same (`Converged`) when an IP goes to another pod within a batch | violated, finding 2 |
| `IPSetSyncExact` | are sets and rules right between synchronizations (`EntriesExact`), do later changes reach them (`ReferencesFollowed`), what is left after a restart (`NoneMissing`, `UnusedDestroyed`) | holds |
| `IPSetSyncFailures` | is what a failed command left repaired by the ticker (`Repaired`) | holds |
| `IPSetSyncSelector` | does a selector's set hold only pods with all its labels (`SelectorIsConjunction`) | violated, finding 3 |
| `IPSetSyncStale` | does a full synchronization bring every set of a peer up to date (`AllSetsSynced`) | violated, finding 4 |
| `PolicyRulesExact` | is every packet judged as the policies have it (`VerdictsExact`), and are exactly the chains there that rules jump to (`ChainsExact`), whatever policies came and went in which order and with which failure | holds |
| `NodeTables` | are the tables consistent at every moment (`TablesConsistent`), the locks taken and given back (`LocksHeld`, `RestoreEnds`), the gateways right (`FlannelExact`), other programs' rules untouched (`OthersKept`), nothing left by cleanup (`CleanupComplete`), and is a daemon that goes on in force again and again (`PolicedAgain`) | holds |

Bounds, and why they are enough.

- `Names`, `Infos`: two objects make a batch with several items, two contributions make the update that
  replaces one by another as well as add and delete. The objects of a kind meet only in
  "is any item pending". `EventKinds` bounds which informers deliver events; all three config
  goroutines always run. Pods stand for the kinds whose lock is taken at the beginning of the first
  synchronization, policies for the one whose lock is taken last. The safety theorems hold without
  these bounds.
- `MaxEnsureFailures` counts failing ensure steps and `MaySignal` allows the signal: 0 and FALSE in
  `EventSyncSafety` (the theorems cover any number), 1 and TRUE in `EventSyncStop`, 1 in
  `EventSyncRefresh`, where a single failure suffices. `EventSyncLive` has neither, as its property is about
  a daemon that runs.
- `PodMapsExact` has two pods in one namespace, so that they share a namespace set and a label set, and a
  third in another namespace that may share a namespace label; two IPs so that three pods must
  hand them on; two namespace labels so that an item may change one and keep the other. The IPs are
  symmetric.
- `IPSetSyncExact` has one pod, as entries do not influence each other: what matters is which *keys* have
  been seen, and one pod that changes its labels produces every set of keys. Two policies share the
  namespace's set and may share each label's; the specs are a selector of one label with the other as
  peer, one of two labels with a namespace peer, and an empty one with both kinds of peer, so the same
  label is a selector for one policy and a peer for the other; label `l1` shares its set name
  and `l2` does not. The policies are symmetric.
- `MaxFailures = 1` in `IPSetSyncFailures`: a single failure at every command, in a run where
  changes go on before and after; the same property also held with two.
  `MaxCrashes = 1`: a second crash starts from the same kind of state as the first.
- `PolicyRulesExact` has two policies in one namespace, so that they share its chains, and one in another; each has two
  specs and may be absent. Between them the specs have both directions and one, selectors of no, one and two labels, peers of
  the three kinds, rules with ports only, peers only and both, an excepted CIDR, and a default deny. The six addresses are two
  pods of one namespace of which both have one label and only one has the other, so that a selector of two labels is told from either
  of them alone, a pod of the other namespace, a gateway, a host in the narrow CIDR and one outside
  `--ip-range`; all packets between them are judged at both hooks. One option set accepts flannel with a range, the
  other has neither.
- `NodeTables` has two hooks, of which the second can see what the loop over the first leaves, one rule of another program,
  one crash and one failure. The networks put a node's part in one byte, two and three, with the carry within, one
  reaches beyond the end of the address space, a prefix that leaves less than 8 bits (refused), and flannel not accepted. `--ip-range` is the default, written as the kernel writes it, and written otherwise. `BinaryLock` is the lock of
  iptables 1.6.

The environment assumptions are constants. `ReuseAfterApply` is above.
`NamespaceOutlivesPolicies` lets a namespace be deleted only when its policies have gone, as the
namespace controller of Kubernetes does, and as seen through the informers.

## 4. Fairness

`EventSync!Fairness`. A goroutine that can go on does: weak fairness of the steps of a handler outside
`mu`, of the ticker and of the exit. `sync.Mutex` hands a contended lock to the longest
waiter after 1 ms (starvation mode), so an acquisition of `mu` that is possible again and again
happens: strong fairness per acquiring thread. The steps inside `syncEnnPolicy` get strong fairness because
some of them wait for a change-map lock, a mutex as well. `select` picks at random among
ready cases: strong fairness of `StopHandoff`. Nothing is assumed of events, of the signal, or of failures.

`IPSetSync!Fairness`. A started synchronization goes on (`WF` of `Sync`; it includes `Start`, the supervisor
that restarts the daemon), and the ticker's call gets `mu` in the end however often the cluster
changes (`SF` of `Tick`, again the mutex).

`NodeTables!Fairness`. A process that runs goes on: weak fairness of `Step`, which includes the commands and both ends of
polling. The ticker of `SyncLoop` comes again and again: strong fairness of `Sync("all")`, as handlers' synchronizations may come in between.
Nothing is assumed of other programs; `PolicedAgain` says in its antecedent that from some time on the daemon is not stopped and
nobody else sits on the locks.

## 5. What the code does not do

1. *No refresh* (`EventSyncRefresh`). `ConfigSyncPeriod` of the server is never assigned, the informers
   are made with period 0, and never resync, although the option is described as "How often
   configuration from the apiserver is refreshed. Must be greater than 0." A handler whose
   `syncEnnPolicy` returned early, because an ensure step failed, leaves its item in the change map; the ticker's
   SYNCALL does not look there, and the change waits for the next event of its kind.
2. *An IP that moves within a batch* (`PodMapsReuse`). One batch says that pod 1 lost IP x and that pod 2 got
   it. The items are visited in random order; if pod 2 is first, `unmerge` for pod 1 deletes pod 2's entry.
   An informer delivers the next event only after its handler's `syncEnnPolicy`, and before the first synchronization every
   `Previous` is nil. So the batch needs an early return as in finding 1: an ensure step failed, and the
   item of pod 1 was still in the change map when pod 2 reported the IP.
3. *Unknown labels in a selector* (`IPSetSyncSelector`). `syncAllPodSets` intersects the pods of a
   selector's labels, but skips a label that no pod has ever had; then pods with only the other labels are
   selected, against "logic of matchLabels should be and". `EntriesExact` is stated for
   selectors whose labels have all been seen; that is the largest claim that holds.
4. *Stale entries after a restart* (`IPSetSyncStale`). A tracked set is skipped if its map has no such key.
   In one life of the daemon a key never goes away, so the set empties as it should; after a restart
   the key is absent, and the kernel's set keeps the IP of a pod that is gone.
   `NoneMissing` is what still holds: sets may hold too much after a restart, never too little.

What the reference of `PolicyRules` grants the code. `VerdictsExact` is the largest claim that
holds of the rules, and these are the places where NetworkPolicy as Kubernetes documents it says more. The first three are
the conditions of `PlainSpecs`: specs outside it are not judged by the reference, and TLC finds a packet judged otherwise when
a spec of the configuration breaks any one of them.

- The labels of one peer are alternatives, each with a set and a chain of its own, while the API means their conjunction;
  the configuration has one label in each peer, so the reference does not tell the two apart.
- A peer with an empty selector or without a field gives no rule, and an entry `{}` without peers and ports allows nothing; the configuration has neither.
  `matchExpressions` are not looked at.
- Two ipBlocks of one policy and direction with the same CIDR share a chain and a set of excepted CIDRs. The second write flushes
  the first, so the exceptions of the second hold for both; a packet is judged otherwise if the two stand in entries with different
  ports. The configuration has one list of exceptions per CIDR.
- The chains of a direction end in REJECT for the whole namespace: a pod that no policy selects is refused as soon
  as its namespace has a policy for the direction (`Judges`, `Judgement`).
- The rules of both ends of a packet are in ENN-FORWARD, in the order in which the policies' namespaces were met first: an ACCEPT of
  the sender's egress chain is final and the receiver's ingress chain is not reached, and the other way round. So
  `VerdictsExact` says that *one* of the namespaces at the ends judges the packet.
- REJECT for an excepted CIDR is final as well, also when another policy or peer would grant (`Excepts`).
- `NamesApartAssumption`: namespace and policy name are concatenated and hashed, so policy `bc` of namespace `a` and
  `c` of `ab` would share their chains; keys and values of labels run together in the same way.

And of `NodeTables`:

- Cleanup deletes by an index from a list. If another program changed the hook since, it may delete that program's rule or
  leave the jump; then chains and sets stay too, as the restore is refused. `OthersKept` and `CleanupComplete` say so in
  their conditions. `Others` are rules without "ENN" in their text; cleanup would delete any other.
- An `--ip-range` that is not written as the kernel lists it (`10.244.1.0/16`) is deleted and added again at every full synchronization;
  meanwhile, with an empty set, everything is outside the range.
- Between `Delete` and `Insert` of `PrependUnique` the hook has no jump; `PolicedAgain` says that it comes back.
- A daemon and a cleanup at the same time are not modelled. `0.0.0.0/0` and networks of length 0 are beyond
  TLC's integers; the theorems of section 6 include them.

## 6. Proofs

`EventSync_proofs` proves, for every set of names and contributions, every set of event kinds
and any number of failures:

- `TypeCorrect`: `Spec => []TypeOK`.
- `LockDisciplineHolds`: `Spec => []LockDiscipline`. With `TypeOK` the invariant is inductive: it ties
  every program counter to the locks held there (inside `syncEnnPolicy` iff `mu` is held; the change-map lock of its
  own kind at `maps` and `cleanup`; pods, then namespaces during the first synchronization), so two threads
  can never be at two points that need one lock. It does not say that nobody waits for ever: a lock order that deadlocks
  is what TLC's deadlock check and `MirrorCatchesUp` find.
- `NothingLost`: `Spec => []NoLostUpdate`, inductive together with `TypeOK` and
  `LockDiscipline`. `NoLostUpdate` says of each object what the maps have of it: the previous
  value of its item if it has one that is not being cleaned up, else the latest recorded value. The
  heart is `MergedExact` (an item applied to its previous contribution gives its current one) and `NotMerging`
  (nobody else is between `UpdateMaps` and `CleanUpItem` while a thread holds the lock), which
  is where the lock that the code holds over both calls is needed.
- `MapsImplementMirror`: `Spec => MirrorsRecorded`. The mapping takes `recorded` to the informers'
  store without the events still in a handler's hand. `RecordChange` maps to `Record`, `InitPolicies`, `InitMaps` and
  `UpdateMaps` to `CatchUp` of one or two kinds (by `NothingLost`), and every other step to a stutter.

- `PendingOwned`: `Spec => []PendingIsOwned`. `PendingIsOwned` alone is not inductive: a handler that is not idle might be
  about to return. `AllOwned` says at which points, and with which `syncType`, it still gets to its
  items, or that some thread is in the first synchronization before the point where items of the kind are
  applied. It rests on `FlagsAgree` (`initialized` iff all caches are synced, and the first synchronization only after
  that), which is why a handler that reads `initialized` late enough goes on, and on `LockDiscipline`
  (nobody else is inside when a thread returns).

The assumptions are `NoneAssumption` (`None` is no contribution and no name) and `BoundAssumption`.

`NodeTables_proofs` proves, for every list of hooks without repetitions, every set of options, any rules of other programs, and any
number of them, of failures and of crashes:

- `TypeCorrect`: `Spec => []TypeOK`. It is inductive only together with "no hook has two jumps" (`OneJump`), because
  `DeleteJump` takes out the first one and `InsertJump` relies on there being no other, and with `Placed`: cleanup
  and the daemon are at steps of their own, and at `insert` the hook has no jump. The lemmas before it say what `RemoveAt`,
  `RemoveFirst` and a rule put first do to the places of the jumps in a list.
- `LocksHeldHolds`: `Spec => []LocksHeld`. What `LocksHeld` leaves out is that the file lock is held while the
  socket lock is asked for (`LocksInv`).
- `TablesConsistentHolds`: `Spec => []TablesConsistent`. Its part about the entry for `--ip-range` is for a range that is not the default and
  is written as the kernel lists it: for the default no rule matches on the set (`IPRangeLines` of `PolicyRules`), and section 5 has the third case. The restore at the end of a synchronization refers to
  sets and chains that earlier steps have made, so the invariant `TablesInv` says of each step what is there by then: after
  `i` steps of `NewChain` the first `i` chains, after the last one all of them, after `EnsureSets` the sets, after
  `AddRange` the entry (`Known`, `Ranged`). That other programs, failed commands and a crash with a later start as daemon or cleanup
  do not break it is part of the theorem.

- `CleanupCompleteHolds`: `Spec => []CleanupComplete`. Cleanup deletes by the indexes of a list it took before the first deletion;
  that this is right rests on `OneJump`: a list has one jump at most. `CleanupInv` says, while nothing has failed and no list went out
  of date (`untidy`), that the hooks before the one at hand have no jump (`Swept`), that what is left to delete of this one is the place
  of its jump (`Listed`), and what the restore and `CleanupIPSets` have removed by each later step.
- `OthersKeptHolds`: `Spec => OthersKept`, an action property: a step that is neither another program's nor a deletion by a list out of
  date leaves the same rules of other programs in the same order. `InsertOrder` and `RemoveOrder` say so of a rule put first
  and of a jump taken out; `IndexesInv` says that only places of jumps are ever left to delete.

- `FlannelExactHolds`: `Spec => []FlannelExact`. `FlannelInv` says when the set is what the options ask for: in a daemon from its first `SYNCALL`
  on, except between the steps that lead to `EnsureFlannel`; a process that starts finds there what another left, which
  is that or nothing. That what the options ask for are the gateways is the theorem `FlanelIPsExact` of `FlannelNet_proofs`.

The assumptions are `HooksAssumption` (the hooks are a sequence without repetitions, and not empty), `NoneAssumption`,
`OthersAssumption` (rules of other programs are not the jump) and `BoundsAssumption`.

`FlannelNet_proofs` proves, for every address, mask and length of 32-bit addresses, where TLC's integers would overflow too:

- `AddExact`: `IpOperateAdd` adds `step` times the weight of the byte to the number that an address is, and fails exactly when the sum is no
  address. Each of the four bytes is one `Carries`, and a sum above a sum is `AddDigit`.
- `FlanelIPsExact`: for every network that is not refused, `FlanelIPs(net) = Gateways(net)`. The step in one byte is the size of
  a node's network (`StepExact`), so the loop's variable lies that much further on after each iteration and is `Invalid` from the first
  that is no address (`WalkLies`, by induction over the iterations); `AtSum` says the same of the two halves in `Gateways`.
  A length of 0 with mask 0 is the one case where the code asks for a fifth byte, after its only network (`IpOperateAddBeyond`).

Induction is the lemma `Induction` of `Induction_proofs`, about a set of numbers, from the well-foundedness of `<`; that `Power2` and `FlannelIpsInt`
are the functions that their equations describe is its lemma `Recursion`. There is no assumption beside the types of the network's parts.

`PodMaps_proofs` proves, for every set of pods, namespaces, addresses and labels:

- `TypeCorrect`: `Spec => []TypeOK`, in which an item is not kept when its object is back where it began.
- `PodSetsExactHolds`, `NamespaceLabelSetsExactHolds`, `ConvergedHolds`: `Spec => []P` for the three properties, if `ReuseAfterApply`.
  The condition is needed, as finding 2 shows. The inductive invariant is `MapsInv`: where each synchronization is and which keys its loops have
  left (`LoopsInOrder`); an item leads to what was last reported (`ItemsCurrent`); before the first synchronization no
  label of a namespace was applied (`NothingLabelled`), which is why it may bring in pods before or after namespaces;
  what the items and the maps have of different pods are different addresses (`ClaimsApart`), so that `unmerge` for one pod never takes
  out the address of another; and each of the four maps is what the objects it was brought to contribute, told
  pod by pod by whether its key is still in `todo` (`MapsExact`). A loop may visit its keys in any order, as the code's loops over Go maps do.

`IPSetSync_proofs` proves, for every cluster, any policies and any number of crashes:

- `TypeCorrect`: `Spec => []TypeOK`, with any number of failures.
- `ReferencesFollowedHolds`, `NoneMissingHolds`: `Spec => [](failures = 0 => P)`, and `EntriesExactHolds`: `Spec => []EntriesExact`, which has
  that condition itself, each if `NamespaceOutlivesPolicies`. Without the former a set may be missing that the rules match on, until
  `Repaired`; without the latter a set may be given up that they match on. The run `IPSetSyncExact` has both.
  The invariant `SetsInv` is in two parts. `RulesInv` needs no assumption: the maps have the keys of all pods seen
  (`KeysKnown`, `ChangedKnown`), the two entries of a selector belong together (`SelectorsNamed`), and after `syncPolicyRules` the active
  sets, the references and the sets in the kernel are those that the policies need (`RulesInstalled`). The rest says that the
  tracking maps lead to all of them (`AllTracked`) and what they hold: nobody missing (`SetsFilled`), and before the first crash nobody
  too many (`SetsExact`), except for what the batch under way has still to write. The lemma `WritesRight` is why one pass
  over the writes is enough although a selector and a label may have one set: all writes to a set agree.
- `UnusedDestroyedHolds`: `Spec => UnusedDestroyed`, an action property, if `MaxFailures = 0`: a failed `ipset destroy` does leave a set.

The assumption beside those of the constants' types is `NoneAssumption` (`None` is no name of a set and no entry of `podXLabelMap`).

`PolicyRules_proofs` proves, for any policies, any spec with any number of rules, ports and peers, and any number of failures:

- `TypeCorrect`: `Spec => []TypeOK`.
- `ChainsExactHolds`: `Spec => []ChainsExact`. What the buffer holds refers to itself (`LinesKnown`): whatever it appends to is
  an entry chain or a chain that it jumps to as well. This goes through every operator that writes lines (`DispatchPiece`, `PodSelectorPiece`,
  `NamespaceSelectorPiece`, `IPBlockPiece`, `RulePiece`, `HeadPiece`, `DirectionPiece`), with any set left out; the chains of a namespace
  are written for its first policy only, so a piece may lean on jumps that are in the buffer already. `ChainsInv` then says
  of the kernel that jumps lead to chains, and that the listing is the kernel's or empty while rules are built. If it is
  empty, old chains stay and so does all that they jump to (`RestoredJumps`); if not, nothing but `KUBE-FORWARD` and the chains of the buffer stays
  (`RestoredDomain`). The buffers are flattened sequences, and `FlattenSeq` is recursive: the lemmas `FlattenExists`
  and `Flatten` argue with the least length for which the claim would fail (`LeastNumber` of `Induction_proofs`).

The assumptions are `SpecsAssumption` (the shape of a spec), `FiniteAssumption` (ports and labels are finitely many, so that a set of them
can be put in some order), and `MaxFailuresAssumption`.

`PolicyVerdicts_proofs` proves, for any cluster, any policies in any order and any number of failures:

- `VerdictsExactHolds`: `PlainSpecs => (Spec => []VerdictsExact)`. The order of the lines is different for every order in which the policies were
  visited, so the inductive invariant `VerdictsInv`, which TLC checked on `PolicyRulesExact` before it was proved, speaks of the *set* of lines
  and of the few orders that matter:
  - `LinesRight`, of the buffer: every line comes from a policy visited (`Sound`); each of these policies has the chains of its namespace
    (`Heads`) and, unless a set was not created, all its rules (`AllRules`); the line for the gateways is before the one for
    the range, that before the accepting one for what is outside, and the reject of excepted CIDRs before the accept (`Ordered`); the sets of excepted CIDRs hold
    what their block says (`ExceptsRight`, which is where two blocks with one CIDR would break it).
  - `RestoredRight`: after a restore the kernel's chains are `ChainRules` of that buffer, and `enforced` and `narrowed` tell
    which policies and losses went into it.
  - `Levelled`: a rule jumps to a chain of a lower level. Chains that no restore names any more keep their rules, so this is said of the whole kernel.

  From it the verdict is derived from the bottom. What a chain decides depends on lower levels only (`AgreeUp`), so
  six rounds from any function give the one that `Verdicts` describes (`VerdictsFixed`), and
  `VerdictOf` says that the first rule decides that matches and does not return. Then come the chain of an ipBlock (`BlockVerdict`), a dispatch
  chain (`DispatchVerdict`), what one granting policy makes of `ENN-PLY` (`GrantDecides`, `RangeVerdict`, where a reject is either the last
  rule or an excepted CIDR), the chain of a namespace (`NamespaceVerdict`) and the hook (`HookVerdict`).

Its assumptions are those above with `ClusterAssumption` (the types of the cluster's sets), `NoneAssumption` (`None` is no name of a set) and
`NamesApartAssumption`, without which two policies share dispatch chains.

Only model-checked: all liveness (`MirrorCatchesUp`, `Shutdown`, `Repaired`, `PolicedAgain`, `RestoreEnds`), as fairness and `ENABLED` are
out of the prover's reach. Every invariant and action property that a passing run checks is a theorem.

## 7. Plan

Done: all modules of section 2, and proofs about the five detailed ones and `FlannelNet`. What would come next is `IPSetSync` without
`NamespaceOutlivesPolicies`, with the orders in which three informers can tell of a namespace and its policies.

## 8. How to check

`tlc -config X.cfg M` for each run (`PROJECT.json` lists module and configuration), and `tlapm M.tla` for
`EventSync_proofs`, `PodMaps_proofs`, `IPSetSync_proofs`, `PolicyRules_proofs`, `PolicyVerdicts_proofs`, `FlannelNet_proofs`, `NodeTables_proofs` and `Induction_proofs`. The longest run takes about two minutes with
two workers, the proofs about one each, `PolicyVerdicts_proofs` about three. Definitions marked
"Variant" in the modules are small faults of the code, one for each checked property; replacing
the definition named in `PROJECT.json` by its variant makes the property fail, so no property holds
merely by the shape of the model.
