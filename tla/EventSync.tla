----------------------------- MODULE EventSync -----------------------------
(***************************************************************************)
(* The control skeleton of EnnPolicy (pkg/policy/policy.go): three         *)
(* informers deliver pod, namespace and networkpolicy events to handlers   *)
(* that record them in a change map, then call syncEnnPolicy; three config *)
(* goroutines report that their cache is synced; SyncLoop ticks; main      *)
(* waits for a signal and hands SyncLoop the stop message.                 *)
(*                                                                         *)
(* Data is abstracted to what the change maps compare: the information     *)
(* (Infos) an object contributes to the maps of the daemon, None when      *)
(* there is no object or it contributes nothing.  PodMaps refines the      *)
(* maps; here applied[k][n] is the set of contributions of object n that   *)
(* the maps of kind k hold.                                                *)
(***************************************************************************)
EXTENDS Naturals, FiniteSets

CONSTANTS
  Names,              \* object names, the keys of a change map
  Infos,              \* what an object contributes to the maps
  None,               \* nil: no object, or one that contributes nothing
  EventKinds,         \* bound: the kinds whose informer delivers events
  MaxEnsureFailures,  \* bound: how often the entry chains or sets cannot be ensured
  MaySignal           \* bound: whether SIGINT or SIGTERM may arrive

Kinds == {"pod", "namespace", "networkpolicy"}

ASSUME NoneAssumption  == None \notin Infos \cup Names
ASSUME BoundAssumption == /\ EventKinds \subseteq Kinds
                          /\ MaxEnsureFailures \in Nat
                          /\ MaySignal \in BOOLEAN

VARIABLES
  store,          \* store[k][n]: the information last delivered by the informer
  event,          \* event[k]: the event a handler has taken and not yet recorded
  changes,        \* changes[k][n]: the item of the change map, NoChange if none
  changeLock,     \* changeLock[k]: the thread that holds the Lock of the map
  applied,        \* applied[k][n]: contributions of n in the maps of kind k
  synced,         \* podSynced, namespaceSynced, networkPolicySynced
  initialized,    \* the flag the handlers read without mu
  initAllSynced,  \* TRUE until the first full synchronization
  mu,             \* the thread that holds EnnPolicy.mu
  pc,             \* where each thread is
  syncType,       \* the argument of the thread's call of syncEnnPolicy
  main,           \* the goroutine that runs EnnPolicyServer.Run
  failures        \* ensure failures so far

dataVars == <<store, event, changes, applied>>
flagVars == <<synced, initialized, initAllSynced>>
vars == <<store, event, changes, changeLock, applied, synced, initialized,
          initAllSynced, mu, pc, syncType, main, failures>>

-----------------------------------------------------------------------------
Informer(k) == <<"informer", k>>
Config(k)   == <<"config", k>>
SyncLoop    == <<"syncloop", "all">>
Nobody      == <<"nobody", "none">>

Threads == {Informer(k) : k \in Kinds} \cup {Config(k) : k \in Kinds} \cup {SyncLoop}

MaybeInfo == Infos \cup {None}
Change    == [previous : MaybeInfo, current : MaybeInfo]
NoChange  == [previous |-> None, current |-> None]
Event     == [name : Names \cup {None}, previous : MaybeInfo, current : MaybeInfo]
NoEvent   == [name |-> None, previous |-> None, current |-> None]

\* Program points outside syncEnnPolicy, then inside it (holding mu).
OutsidePCs == {"idle", "update", "isInitialized", "lock", "waitSynced", "done", "stopped"}
InsidePCs  == {"ensure", "initPods", "initNamespaces", "initPolicies", "initMaps",
               "switch", "maps", "cleanup"}

Pending(k) == {n \in Names : changes[k][n] # NoChange}
AllSynced  == \A k \in Kinds : synced[k]

Init ==
  /\ store         = [k \in Kinds |-> [n \in Names |-> None]]
  /\ event         = [k \in Kinds |-> NoEvent]
  /\ changes       = [k \in Kinds |-> [n \in Names |-> NoChange]]
  /\ changeLock    = [k \in Kinds |-> Nobody]
  /\ applied       = [k \in Kinds |-> [n \in Names |-> {}]]
  /\ synced        = [k \in Kinds |-> FALSE]
  /\ initialized   = FALSE
  /\ initAllSynced = TRUE
  /\ mu            = Nobody
  /\ pc            = [t \in Threads |-> IF t[1] = "config" THEN "waitSynced" ELSE "idle"]
  /\ syncType      = [t \in Threads |-> t[2]]
  /\ main          = "run"
  /\ failures      = 0

-----------------------------------------------------------------------------
(* Handlers: OnPodAdd, OnPodUpdate, OnPodDelete and their two siblings.    *)

\* Variant: Update does not take the lock of the change map.
HandleEventUnlocked(k, n, v) ==
  /\ k \in EventKinds
  /\ pc[Informer(k)] = "idle"
  /\ store' = [store EXCEPT ![k][n] = v]
  /\ event' = [event EXCEPT ![k] = [name |-> n, previous |-> store[k][n], current |-> v]]
  /\ pc' = [pc EXCEPT ![Informer(k)] = "update"]
  /\ UNCHANGED <<changes, changeLock, applied, flagVars, mu, syncType, main, failures>>

\* An informer hands its handler one event; the handler enters Update, which
\* takes the lock of the change map.
HandleEvent(k, n, v) ==
  /\ k \in EventKinds
  /\ pc[Informer(k)] = "idle"
  /\ changeLock[k] = Nobody
  /\ store' = [store EXCEPT ![k][n] = v]
  /\ event' = [event EXCEPT ![k] = [name |-> n, previous |-> store[k][n], current |-> v]]
  /\ changeLock' = [changeLock EXCEPT ![k] = Informer(k)]
  /\ pc' = [pc EXCEPT ![Informer(k)] = "update"]
  /\ UNCHANGED <<changes, applied, flagVars, mu, syncType, main, failures>>

\* Variant: every event of a batch overwrites Previous.
UpdatedOverwritingPrevious(item, e) ==
  IF e.previous = e.current THEN NoChange
  ELSE [previous |-> e.previous, current |-> e.current]

\* What Update makes of an item and an event: the first event of a batch sets
\* Previous, each sets Current, and an item without a difference is deleted.
Updated(item, e) ==
  LET previous == IF item = NoChange THEN e.previous ELSE item.previous
  IN  IF previous = e.current THEN NoChange
      ELSE [previous |-> previous, current |-> e.current]

\* The rest of Update, up to its result: are there items?
RecordChange(k) ==
  LET n == event[k].name
  IN  /\ pc[Informer(k)] = "update"
      /\ changes' = [changes EXCEPT ![k][n] = Updated(@, event[k])]
      /\ event' = [event EXCEPT ![k] = NoEvent]
      /\ changeLock' = [changeLock EXCEPT ![k] = Nobody]
      /\ pc' = [pc EXCEPT ![Informer(k)] =
                  IF \E m \in Names : changes'[k][m] # NoChange THEN "isInitialized" ELSE "idle"]
      /\ UNCHANGED <<store, applied, flagVars, mu, syncType, main, failures>>

\* The handler reads initialized and calls syncEnnPolicy only if it is set.
CheckInitialized(k) ==
  /\ pc[Informer(k)] = "isInitialized"
  /\ pc' = [pc EXCEPT ![Informer(k)] = IF initialized THEN "lock" ELSE "idle"]
  /\ UNCHANGED <<dataVars, changeLock, flagVars, mu, syncType, main, failures>>

\* Variant: initialized is computed before the flag is set.
OnSyncedStale(k) ==
  /\ pc[Config(k)] = "waitSynced"
  /\ mu = Nobody
  /\ synced' = [synced EXCEPT ![k] = TRUE]
  /\ initialized' = AllSynced
  /\ pc' = [pc EXCEPT ![Config(k)] = "lock"]
  /\ UNCHANGED <<dataVars, changeLock, initAllSynced, mu, syncType, main, failures>>

\* OnPodSynced, OnNamespaceSynced, OnNetworkPolicySynced: the flags are set in
\* one critical section of mu, then syncEnnPolicy is called.
OnSynced(k) ==
  /\ pc[Config(k)] = "waitSynced"
  /\ mu = Nobody
  /\ synced' = [synced EXCEPT ![k] = TRUE]
  /\ initialized' = \A j \in Kinds : synced'[j]
  /\ pc' = [pc EXCEPT ![Config(k)] = "lock"]
  /\ UNCHANGED <<dataVars, changeLock, initAllSynced, mu, syncType, main, failures>>

\* SyncLoop: the ticker fires and Sync calls syncEnnPolicy(SYNCALL).
Tick ==
  /\ pc[SyncLoop] = "idle"
  /\ pc' = [pc EXCEPT ![SyncLoop] = "lock"]
  /\ UNCHANGED <<dataVars, changeLock, flagVars, mu, syncType, main, failures>>

-----------------------------------------------------------------------------
(* syncEnnPolicy                                                           *)

\* Where a thread goes when syncEnnPolicy returns.
Home(t) == IF t[1] = "config" THEN "done" ELSE "idle"

Return(t) ==
  /\ mu' = Nobody
  /\ pc' = [pc EXCEPT ![t] = Home(t)]
  /\ syncType' = [syncType EXCEPT ![t] = t[2]]

Goto(t, label) == pc' = [pc EXCEPT ![t] = label]

Lock(t) ==
  /\ pc[t] = "lock"
  /\ mu = Nobody
  /\ mu' = t
  /\ Goto(t, "ensure")
  /\ UNCHANGED <<dataVars, changeLock, flagVars, syncType, main, failures>>

\* ensureEnnEntry, ensureFlannelNetSet or ensureIPRangeSet returns an error.
EnsureFails(t) ==
  /\ pc[t] = "ensure"
  /\ failures < MaxEnsureFailures
  /\ failures' = failures + 1
  /\ Return(t)
  /\ UNCHANGED <<dataVars, changeLock, flagVars, main>>

\* Everything is ensured, but some cache has not been received yet.
NotAllSynced(t) ==
  /\ pc[t] = "ensure"
  /\ ~AllSynced
  /\ Return(t)
  /\ UNCHANGED <<dataVars, changeLock, flagVars, main, failures>>

\* The first synchronization becomes a full one, whatever was asked for.
BeginInitAll(t) ==
  /\ pc[t] = "ensure"
  /\ AllSynced
  /\ initAllSynced
  /\ syncType' = [syncType EXCEPT ![t] = "all"]
  /\ initAllSynced' = FALSE
  /\ Goto(t, "initPods")
  /\ UNCHANGED <<dataVars, changeLock, synced, initialized, mu, main, failures>>

BeginSync(t) ==
  /\ pc[t] = "ensure"
  /\ AllSynced
  /\ ~initAllSynced
  /\ Goto(t, "switch")
  /\ UNCHANGED <<dataVars, changeLock, flagVars, mu, syncType, main, failures>>

\* Variant: merge does not return early on a nil Current.
MergedNil(k, S, item) ==
  IF k = "pod" THEN (S \ {item.previous}) \cup {item.current} ELSE {item.current}

\* unmerge(previous) then merge(current) on the contributions S of one object.
\* The pod maps delete and add the entries of that contribution; the maps of
\* namespaces and policies are keyed by name.
Merged(k, S, item) ==
  IF k = "pod"
  THEN (S \ {item.previous}) \cup ({item.current} \ {None})
  ELSE IF item.current # None THEN {item.current}
       ELSE IF item.previous # None THEN {} ELSE S

\* UpdatePodMatchLabelMap, UpdateNamespaceInfoMap, UpdateNetworkPolicyMap...
\* on every item of the change map of kind k.
MergedAll(k) == [n \in Names |-> Merged(k, applied[k][n], changes[k][n])]
NoChanges    == [n \in Names |-> NoChange]

InitLockPods(t) ==
  /\ pc[t] = "initPods"
  /\ changeLock["pod"] = Nobody
  /\ changeLock' = [changeLock EXCEPT !["pod"] = t]
  /\ Goto(t, "initNamespaces")
  /\ UNCHANGED <<dataVars, flagVars, mu, syncType, main, failures>>

InitLockNamespaces(t) ==
  /\ pc[t] = "initNamespaces"
  /\ changeLock["namespace"] = Nobody
  /\ changeLock' = [changeLock EXCEPT !["namespace"] = t]
  /\ Goto(t, "initPolicies")
  /\ UNCHANGED <<dataVars, flagVars, mu, syncType, main, failures>>

\* UpdateNetworkPolicyMap takes, uses and releases the lock of its own map.
InitPolicies(t) ==
  /\ pc[t] = "initPolicies"
  /\ changeLock["networkpolicy"] = Nobody
  /\ applied' = [applied EXCEPT !["networkpolicy"] = MergedAll("networkpolicy")]
  /\ changes' = [changes EXCEPT !["networkpolicy"] = NoChanges]
  /\ Goto(t, "initMaps")
  /\ UNCHANGED <<store, event, changeLock, flagVars, mu, syncType, main, failures>>

InitMaps(t) ==
  /\ pc[t] = "initMaps"
  /\ applied' = [applied EXCEPT !["pod"] = MergedAll("pod"),
                                !["namespace"] = MergedAll("namespace")]
  /\ changes' = [changes EXCEPT !["pod"] = NoChanges, !["namespace"] = NoChanges]
  /\ changeLock' = [changeLock EXCEPT !["pod"] = Nobody, !["namespace"] = Nobody]
  /\ Goto(t, "switch")
  /\ UNCHANGED <<store, event, flagVars, mu, syncType, main, failures>>

\* case SYNCALL: rules and sets are programmed from the maps as they are.
SyncAll(t) ==
  /\ pc[t] = "switch"
  /\ syncType[t] = "all"
  /\ Return(t)
  /\ UNCHANGED <<dataVars, changeLock, flagVars, main, failures>>

\* case SYNCPOD, SYNCNAMESPACE, SYNCNETWORKPOLICY: take the lock of the change
\* map, update the maps, and clean up the items that were applied.
LockChanges(t) ==
  /\ pc[t] = "switch"
  /\ syncType[t] \in Kinds
  /\ changeLock[syncType[t]] = Nobody
  /\ changeLock' = [changeLock EXCEPT ![syncType[t]] = t]
  /\ Goto(t, "maps")
  /\ UNCHANGED <<dataVars, flagVars, mu, syncType, main, failures>>

\* Variant: the lock is released before the items are cleaned up.
UpdateMapsUnlocking(t) ==
  /\ pc[t] = "maps"
  /\ applied' = [applied EXCEPT ![syncType[t]] = MergedAll(syncType[t])]
  /\ changeLock' = [changeLock EXCEPT ![syncType[t]] = Nobody]
  /\ Goto(t, "cleanup")
  /\ UNCHANGED <<store, event, changes, flagVars, mu, syncType, main, failures>>

UpdateMaps(t) ==
  /\ pc[t] = "maps"
  /\ applied' = [applied EXCEPT ![syncType[t]] = MergedAll(syncType[t])]
  /\ Goto(t, "cleanup")
  /\ UNCHANGED <<store, event, changes, changeLock, flagVars, mu, syncType, main, failures>>

CleanUpItem(t) ==
  /\ pc[t] = "cleanup"
  /\ changes' = [changes EXCEPT ![syncType[t]] = NoChanges]
  /\ changeLock' = [changeLock EXCEPT ![syncType[t]] = Nobody]
  /\ Return(t)
  /\ UNCHANGED <<store, event, applied, flagVars, main, failures>>

-----------------------------------------------------------------------------
(* EnnPolicyServer.Run: a signal, the unbuffered StopCh, wg.Wait.          *)

Signal ==
  /\ MaySignal
  /\ main = "run"
  /\ main' = "stop"
  /\ UNCHANGED <<dataVars, changeLock, flagVars, mu, pc, syncType, failures>>

\* Variant: the stop case leaves the select but not the loop.
StopHandoffBreak ==
  /\ main = "stop"
  /\ pc[SyncLoop] = "idle"
  /\ main' = "wait"
  /\ UNCHANGED <<dataVars, changeLock, flagVars, mu, pc, syncType, failures>>

\* StopCh <- struct{}{} meets SyncLoop in its select, which then returns.
StopHandoff ==
  /\ main = "stop"
  /\ pc[SyncLoop] = "idle"
  /\ Goto(SyncLoop, "stopped")
  /\ main' = "wait"
  /\ UNCHANGED <<dataVars, changeLock, flagVars, mu, syncType, failures>>

\* wg.Wait returns and so does Run: the process ends with all its goroutines.
Exit ==
  /\ main = "wait"
  /\ pc[SyncLoop] = "stopped"
  /\ main' = "exited"
  /\ UNCHANGED <<dataVars, changeLock, flagVars, mu, pc, syncType, failures>>

Exited == main = "exited" /\ UNCHANGED vars

-----------------------------------------------------------------------------
SyncStep(t) ==
  \/ EnsureFails(t) \/ NotAllSynced(t) \/ BeginInitAll(t) \/ BeginSync(t)
  \/ InitLockPods(t) \/ InitLockNamespaces(t) \/ InitPolicies(t) \/ InitMaps(t)
  \/ SyncAll(t) \/ LockChanges(t) \/ UpdateMaps(t) \/ CleanUpItem(t)

Running ==
  \/ \E k \in Kinds : \/ \E n \in Names, v \in MaybeInfo : HandleEvent(k, n, v)
                      \/ RecordChange(k)
                      \/ CheckInitialized(k)
                      \/ OnSynced(k)
  \/ \E t \in Threads : Lock(t) \/ SyncStep(t)
  \/ Tick \/ Signal \/ StopHandoff \/ Exit

Next == \/ main # "exited" /\ Running
        \/ Exited

Spec == Init /\ [][Next]_vars

\* Goroutines run: a step that stays enabled is taken.  sync.Mutex hands a
\* contended lock to each waiter in turn and select picks among ready cases at
\* random, so an acquisition that is enabled again and again happens.  The API
\* server, the signal and failures owe nothing.
Alive(A) == main # "exited" /\ A

Acquire(t) == Lock(t) \/ \E k \in Kinds : t = Config(k) /\ OnSynced(k)

Fairness ==
  /\ \A k \in Kinds : WF_vars(Alive(RecordChange(k) \/ CheckInitialized(k)))
  /\ \A k \in EventKinds : SF_vars(Alive(Acquire(Informer(k))))
  /\ \A k \in Kinds : SF_vars(Alive(Acquire(Config(k))))
  /\ SF_vars(Alive(Acquire(SyncLoop)))
  /\ SF_vars(Alive(\E t \in Threads : SyncStep(t)))
  /\ WF_vars(Alive(Tick))
  /\ SF_vars(Alive(StopHandoff))
  /\ WF_vars(Alive(Exit))

FairSpec == Spec /\ Fairness

-----------------------------------------------------------------------------
(* Correctness                                                             *)

\* The values of every variable.  mu and the change-map locks name threads.
TypeOK ==
  /\ store \in [Kinds -> [Names -> MaybeInfo]]
  /\ event \in [Kinds -> Event]
  /\ changes \in [Kinds -> [Names -> Change]]
  /\ changeLock \in [Kinds -> Threads \cup {Nobody}]
  /\ applied \in [Kinds -> [Names -> SUBSET Infos]]
  /\ synced \in [Kinds -> BOOLEAN]
  /\ initialized \in BOOLEAN
  /\ initAllSynced \in BOOLEAN
  /\ mu \in Threads \cup {Nobody}
  /\ pc \in [Threads -> OutsidePCs \cup InsidePCs]
  /\ syncType \in [Threads -> Kinds \cup {"all"}]
  /\ main \in {"run", "stop", "wait", "exited"}
  /\ failures \in 0..MaxEnsureFailures

HoldsMu(t) == pc[t] \in InsidePCs <=> mu = t

HoldsChangeLocks(t) ==
  /\ pc[t] \in {"maps", "cleanup"} => syncType[t] \in Kinds /\ changeLock[syncType[t]] = t
  /\ pc[t] \in {"initNamespaces", "initPolicies", "initMaps"} => changeLock["pod"] = t
  /\ pc[t] \in {"initPolicies", "initMaps"} => changeLock["namespace"] = t

EventInHand(k) ==
  IF pc[Informer(k)] = "update"
  THEN /\ changeLock[k] = Informer(k)
       /\ event[k].name \in Names
       /\ event[k].current = store[k][event[k].name]
  ELSE event[k] = NoEvent

\* Who may touch what (mu and the Lock of each change map): one thread is inside
\* syncEnnPolicy and holds mu; a handler in Update and a thread that reads,
\* applies or cleans up the items of a change map hold its lock; an event is in
\* a handler's hand exactly while it is in Update.
LockDiscipline ==
  /\ \A t \in Threads : HoldsMu(t) /\ HoldsChangeLocks(t)
  /\ \A k \in Kinds : EventInHand(k)

Contribution(v) == {v} \ {None}

\* What the change map of kind k has been told: the store, without the event
\* that a handler has in hand.
Recorded(k) == [n \in Names |-> IF event[k].name = n THEN event[k].previous ELSE store[k][n]]

\* The maps have been updated with items that are not cleaned up yet.
Merging(k) == \E t \in Threads : pc[t] = "cleanup" /\ syncType[t] = k

\* What the maps hold of object n, with the item of n applied to it, is exactly
\* what was last recorded of n.
Accounted(k, n) ==
  LET item == changes[k][n]
      latest == Recorded(k)[n]
  IN  IF item = NoChange \/ Merging(k)
      THEN applied[k][n] = Contribution(latest)
      ELSE applied[k][n] = Contribution(item.previous) /\ item.current = latest

\* No event is lost or applied twice (Update, Update*Map and CleanUpItem of
\* every change map), however events were coalesced and whoever applied them.
NoLostUpdate == \A k \in Kinds, n \in Names : Accounted(k, n)

\* No change is forgotten (handlers against OnXSynced and the first
\* synchronization): once initAllSynced is cleared, a pending item has a thread
\* that will apply it, either its own handler or the thread that is running the
\* first synchronization, as long as no ensure step failed.
PendingIsOwned ==
  ~initAllSynced /\ failures = 0 =>
    \A k \in Kinds : Pending(k) # {} =>
      \/ pc[Informer(k)] # "idle"
      \/ \E t \in Threads : pc[t] \in {"initPods", "initNamespaces", "initPolicies", "initMaps"}

\* The daemon as a mirror of what the informers told it (Mirror.tla).
Maps == INSTANCE Mirror WITH recorded <- [k \in Kinds |-> Recorded(k)], mirror <- applied

\* The maps only ever change to what is recorded of whole kinds: syncEnnPolicy
\* never exposes a half-applied batch to another thread.
MirrorsRecorded == Maps!Spec

\* With no failure and no signal, the maps catch up with every kind.
MirrorCatchesUp == Maps!FairSpec

\* A SIGTERM ends the process even when events and ticks keep coming, whatever
\* SyncLoop is doing (Run blocks on the unbuffered StopCh).
Shutdown == main = "stop" ~> main = "exited"

\* "How often configuration from the apiserver is refreshed. Must be greater
\* than 0." (options.go, config-sync-period): after an ensure step has failed,
\* the refresh brings the recorded change to the maps all the same.
RefreshRepairs ==
  \A k \in Kinds : AllSynced /\ Pending(k) # {} ~> Pending(k) = {}

=============================================================================
