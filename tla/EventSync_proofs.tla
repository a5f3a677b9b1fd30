-------------------------- MODULE EventSync_proofs --------------------------
(***************************************************************************)
(* Theorems about EventSync, for every set of names and contributions and  *)
(* every bound: its types, its locking, that no event is lost, that the    *)
(* maps implement Mirror, and that every pending change is owned.          *)
(***************************************************************************)
EXTENDS EventSync, TLAPS

\* The thread identifiers are distinct, and distinct from Nobody.
LEMMA ThreadFacts ==
  /\ \A k \in Kinds : Informer(k) \in Threads /\ Config(k) \in Threads
  /\ SyncLoop \in Threads
  /\ Nobody \notin Threads
  /\ \A j, k \in Kinds : /\ Informer(j) # Config(k) /\ Informer(k) # SyncLoop
                         /\ Config(k) # SyncLoop
                         /\ Informer(j) = Informer(k) => j = k
  /\ \A t \in Threads : t[2] \in Kinds \cup {"all"}
  BY DEF Threads, Informer, Config, SyncLoop, Nobody, Kinds

\* unmerge and merge keep sets of contributions.
LEMMA MergedType ==
  ASSUME NEW k \in Kinds, NEW S \in SUBSET Infos, NEW item \in Change
  PROVE  Merged(k, S, item) \in SUBSET Infos
  BY DEF Merged, Change, MaybeInfo

\* Updated yields an item of the change map.
LEMMA UpdatedType ==
  ASSUME NEW item \in Change, NEW e \in Event
  PROVE  Updated(item, e) \in Change
  BY DEF Updated, Change, Event, NoChange, MaybeInfo

\* The items of a change map, and the maps after applying them, have their types.
LEMMA MergedAllType ==
  ASSUME TypeOK, NEW k \in Kinds
  PROVE  MergedAll(k) \in [Names -> SUBSET Infos]
  BY MergedType DEF MergedAll, TypeOK

LEMMA NoChangesType == NoChanges \in [Names -> Change]
  BY DEF NoChanges, NoChange, Change, MaybeInfo

\* Every variable keeps its type.
LEMMA TypeInit == Init => TypeOK
  <1> SUFFICES ASSUME Init PROVE TypeOK
    OBVIOUS
  <1> USE ThreadFacts, BoundAssumption DEF Init
  <1>1. store \in [Kinds -> [Names -> MaybeInfo]]
    BY DEF MaybeInfo
  <1>2. event \in [Kinds -> Event]
    BY DEF Event, NoEvent, MaybeInfo
  <1>3. changes \in [Kinds -> [Names -> Change]]
    BY DEF Change, NoChange, MaybeInfo
  <1>4. pc \in [Threads -> OutsidePCs \cup InsidePCs]
    BY DEF OutsidePCs, InsidePCs
  <1>5. syncType \in [Threads -> Kinds \cup {"all"}]
    BY DEF Kinds
  <1>6. /\ applied \in [Kinds -> [Names -> SUBSET Infos]]
        /\ changeLock \in [Kinds -> Threads \cup {Nobody}]
        /\ mu \in Threads \cup {Nobody}
    OBVIOUS
  <1>7. /\ synced \in [Kinds -> BOOLEAN]
        /\ initialized \in BOOLEAN
        /\ initAllSynced \in BOOLEAN
    OBVIOUS
  <1>8. failures \in 0..MaxEnsureFailures /\ main \in {"run", "stop", "wait", "exited"}
    OBVIOUS
  <1> QED
    BY <1>1, <1>2, <1>3, <1>4, <1>5, <1>6, <1>7, <1>8, Zenon DEF TypeOK

\* Storing a thread's new program point keeps pc in its type.
LEMMA GotoType ==
  ASSUME TypeOK, NEW t \in Threads, NEW label \in OutsidePCs \cup InsidePCs, Goto(t, label)
  PROVE  pc' \in [Threads -> OutsidePCs \cup InsidePCs]
  BY DEF Goto, TypeOK

LEMMA ReturnType ==
  ASSUME TypeOK, NEW t \in Threads, Return(t)
  PROVE  /\ mu' \in Threads \cup {Nobody}
         /\ pc' \in [Threads -> OutsidePCs \cup InsidePCs]
         /\ syncType' \in [Threads -> Kinds \cup {"all"}]
  <1>1. t[2] \in Kinds \cup {"all"}
    BY ThreadFacts
  <1>2. Home(t) \in OutsidePCs
    BY DEF Home, OutsidePCs
  <1> QED
    BY <1>1, <1>2 DEF Return, TypeOK

LEMMA TypeHandlers ==
  ASSUME TypeOK, NEW k \in Kinds,
         \/ \E n \in Names, v \in MaybeInfo : HandleEvent(k, n, v)
         \/ RecordChange(k) \/ CheckInitialized(k) \/ OnSynced(k)
  PROVE  TypeOK'
  <1> USE ThreadFacts
  <1>1. ASSUME NEW n \in Names, NEW v \in MaybeInfo, HandleEvent(k, n, v)
        PROVE  TypeOK'
    <2>1. store' \in [Kinds -> [Names -> MaybeInfo]]
      BY <1>1 DEF HandleEvent, TypeOK
    <2>2. event' \in [Kinds -> Event]
      BY <1>1 DEF HandleEvent, TypeOK, Event
    <2>3. pc' \in [Threads -> OutsidePCs \cup InsidePCs]
      BY <1>1 DEF HandleEvent, TypeOK, OutsidePCs
    <2>4. changeLock' \in [Kinds -> Threads \cup {Nobody}]
      BY <1>1 DEF HandleEvent, TypeOK
    <2> QED
      BY <1>1, <2>1, <2>2, <2>3, <2>4 DEF HandleEvent, TypeOK, flagVars
  <1>2. CASE RecordChange(k)
    <2>1. changes' \in [Kinds -> [Names -> Change]]
      <3>1. /\ changes \in [Kinds -> [Names -> Change]]
            /\ event[k] \in Event
        BY DEF TypeOK
      <3>2. \A n \in Names : Updated(changes[k][n], event[k]) \in Change
        BY <3>1, UpdatedType
      <3> QED
        BY <1>2, <3>1, <3>2 DEF RecordChange
    <2>2. event' \in [Kinds -> Event]
      BY <1>2 DEF RecordChange, TypeOK, Event, NoEvent, MaybeInfo
    <2>3. pc' \in [Threads -> OutsidePCs \cup InsidePCs]
      BY <1>2 DEF RecordChange, TypeOK, OutsidePCs
    <2>4. changeLock' \in [Kinds -> Threads \cup {Nobody}]
      BY <1>2 DEF RecordChange, TypeOK
    <2> QED
      BY <1>2, <2>1, <2>2, <2>3, <2>4 DEF RecordChange, TypeOK, flagVars
  <1>3. CASE CheckInitialized(k)
    <2>1. pc' \in [Threads -> OutsidePCs \cup InsidePCs]
      BY <1>3 DEF CheckInitialized, TypeOK, OutsidePCs
    <2> QED
      BY <1>3, <2>1 DEF CheckInitialized, TypeOK, flagVars, dataVars
  <1>4. CASE OnSynced(k)
    <2>1. pc' \in [Threads -> OutsidePCs \cup InsidePCs]
      BY <1>4 DEF OnSynced, TypeOK, OutsidePCs
    <2>2. synced' \in [Kinds -> BOOLEAN] /\ initialized' \in BOOLEAN
      BY <1>4 DEF OnSynced, TypeOK
    <2> QED
      BY <1>4, <2>1, <2>2 DEF OnSynced, TypeOK, dataVars
  <1> QED
    BY <1>1, <1>2, <1>3, <1>4

LEMMA TypeSync ==
  ASSUME TypeOK, NEW t \in Threads, Lock(t) \/ SyncStep(t)
  PROVE  TypeOK'
  <1> USE ThreadFacts
  <1>1. CASE Lock(t)
    BY <1>1, GotoType DEF Lock, TypeOK, flagVars, dataVars, InsidePCs
  <1>2. CASE EnsureFails(t)
    <2>1. failures' \in 0..MaxEnsureFailures
      BY <1>2, BoundAssumption DEF EnsureFails, TypeOK
    <2> QED
      BY <1>2, <2>1, ReturnType DEF EnsureFails, TypeOK, flagVars, dataVars
  <1>3. CASE NotAllSynced(t)
    BY <1>3, ReturnType DEF NotAllSynced, TypeOK, flagVars, dataVars
  <1>4. CASE BeginInitAll(t)
    <2>1. syncType' \in [Threads -> Kinds \cup {"all"}]
      BY <1>4 DEF BeginInitAll, TypeOK
    <2> QED
      BY <1>4, <2>1, GotoType DEF BeginInitAll, TypeOK, dataVars, InsidePCs
  <1>5. CASE BeginSync(t)
    BY <1>5, GotoType DEF BeginSync, TypeOK, flagVars, dataVars, InsidePCs
  <1>6. CASE InitLockPods(t)
    <2>1. changeLock' \in [Kinds -> Threads \cup {Nobody}]
      BY <1>6 DEF InitLockPods, TypeOK
    <2> QED
      BY <1>6, <2>1, GotoType DEF InitLockPods, TypeOK, flagVars, dataVars, InsidePCs
  <1>7. CASE InitLockNamespaces(t)
    <2>1. changeLock' \in [Kinds -> Threads \cup {Nobody}]
      BY <1>7 DEF InitLockNamespaces, TypeOK
    <2> QED
      BY <1>7, <2>1, GotoType DEF InitLockNamespaces, TypeOK, flagVars, dataVars, InsidePCs
  <1>8. CASE InitPolicies(t)
    <2>1. /\ applied' \in [Kinds -> [Names -> SUBSET Infos]]
          /\ changes' \in [Kinds -> [Names -> Change]]
      BY <1>8, MergedAllType, NoChangesType DEF InitPolicies, TypeOK, Kinds
    <2> QED
      BY <1>8, <2>1, GotoType DEF InitPolicies, TypeOK, flagVars, InsidePCs
  <1>9. CASE InitMaps(t)
    <2>1. /\ applied' \in [Kinds -> [Names -> SUBSET Infos]]
          /\ changes' \in [Kinds -> [Names -> Change]]
          /\ changeLock' \in [Kinds -> Threads \cup {Nobody}]
      BY <1>9, MergedAllType, NoChangesType DEF InitMaps, TypeOK, Kinds
    <2> QED
      BY <1>9, <2>1, GotoType DEF InitMaps, TypeOK, flagVars, InsidePCs
  <1>10. CASE SyncAll(t)
    BY <1>10, ReturnType DEF SyncAll, TypeOK, flagVars, dataVars
  <1>11. CASE LockChanges(t)
    <2>1. changeLock' \in [Kinds -> Threads \cup {Nobody}]
      BY <1>11 DEF LockChanges, TypeOK
    <2> QED
      BY <1>11, <2>1, GotoType DEF LockChanges, TypeOK, flagVars, dataVars, InsidePCs
  <1>12. CASE UpdateMaps(t)
    <2>1. applied' \in [Kinds -> [Names -> SUBSET Infos]]
      <3>1. CASE syncType[t] \in Kinds
        BY <1>12, <3>1, MergedAllType DEF UpdateMaps, TypeOK
      <3>2. CASE syncType[t] \notin Kinds
        BY <1>12, <3>2 DEF UpdateMaps, TypeOK
      <3> QED
        BY <3>1, <3>2
    <2> QED
      BY <1>12, <2>1, GotoType DEF UpdateMaps, TypeOK, flagVars, InsidePCs
  <1>13. CASE CleanUpItem(t)
    <2>1. changes' \in [Kinds -> [Names -> Change]]
      <3>1. CASE syncType[t] \in Kinds
        BY <1>13, <3>1, NoChangesType DEF CleanUpItem, TypeOK
      <3>2. CASE syncType[t] \notin Kinds
        BY <1>13, <3>2 DEF CleanUpItem, TypeOK
      <3> QED
        BY <3>1, <3>2
    <2>2. changeLock' \in [Kinds -> Threads \cup {Nobody}]
      BY <1>13 DEF CleanUpItem, TypeOK
    <2> QED
      BY <1>13, <2>1, <2>2, ReturnType DEF CleanUpItem, TypeOK, flagVars
  <1> QED
    BY <1>1, <1>2, <1>3, <1>4, <1>5, <1>6, <1>7, <1>8, <1>9, <1>10, <1>11, <1>12, <1>13
    DEF SyncStep

LEMMA TypeServer ==
  ASSUME TypeOK, Tick \/ Signal \/ StopHandoff \/ Exit \/ UNCHANGED vars
  PROVE  TypeOK'
  <1> USE ThreadFacts DEF flagVars, dataVars
  <1>1. CASE Tick
    <2>1. pc' \in [Threads -> OutsidePCs \cup InsidePCs]
      BY <1>1 DEF Tick, TypeOK, OutsidePCs
    <2> QED
      BY <1>1, <2>1 DEF Tick, TypeOK
  <1>2. CASE Signal
    BY <1>2 DEF Signal, TypeOK
  <1>3. CASE StopHandoff
    BY <1>3, GotoType DEF StopHandoff, TypeOK, OutsidePCs
  <1>4. CASE Exit
    BY <1>4 DEF Exit, TypeOK
  <1>5. CASE UNCHANGED vars
    BY <1>5 DEF vars, TypeOK
  <1> QED
    BY <1>1, <1>2, <1>3, <1>4, <1>5

\* Every step of the daemon keeps every variable in its type.
LEMMA TypeNext == TypeOK /\ [Next]_vars => TypeOK'
  <1> SUFFICES ASSUME TypeOK, [Next]_vars PROVE TypeOK'
    OBVIOUS
  <1> QED
    BY TypeHandlers, TypeSync, TypeServer DEF Next, Running, Exited

\* Every variable has its type in every reachable state, whatever the names,
\* contributions and bounds.
THEOREM TypeCorrect == Spec => []TypeOK
  BY TypeInit, TypeNext, PTL DEF Spec

-----------------------------------------------------------------------------
(* Locking                                                                 *)

LEMMA LockInit == Init => LockDiscipline
  BY ThreadFacts DEF Init, LockDiscipline, HoldsMu, HoldsChangeLocks, EventInHand,
     InsidePCs, NoEvent

LEMMA LockHandlers ==
  ASSUME TypeOK, LockDiscipline, NEW k \in Kinds,
         \/ \E n \in Names, v \in MaybeInfo : HandleEvent(k, n, v)
         \/ RecordChange(k) \/ CheckInitialized(k) \/ OnSynced(k)
  PROVE  LockDiscipline'
  <1> USE ThreadFacts DEF LockDiscipline, HoldsMu, HoldsChangeLocks, EventInHand, InsidePCs
  <1>1. ASSUME NEW n \in Names, NEW v \in MaybeInfo, HandleEvent(k, n, v)
        PROVE  LockDiscipline'
    <2>1. ASSUME NEW t \in Threads PROVE HoldsMu(t)' /\ HoldsChangeLocks(t)'
      BY <1>1, <2>1 DEF HandleEvent, TypeOK
    <2>2. ASSUME NEW j \in Kinds PROVE EventInHand(j)'
      BY <1>1, <2>2 DEF HandleEvent, TypeOK
    <2> QED
      BY <2>1, <2>2
  <1>2. CASE RecordChange(k)
    <2>1. ASSUME NEW t \in Threads PROVE HoldsMu(t)' /\ HoldsChangeLocks(t)'
      BY <1>2, <2>1 DEF RecordChange, TypeOK
    <2>2. ASSUME NEW j \in Kinds PROVE EventInHand(j)'
      BY <1>2, <2>2 DEF RecordChange, TypeOK
    <2> QED
      BY <2>1, <2>2
  <1>3. CASE CheckInitialized(k)
    <2>1. ASSUME NEW t \in Threads PROVE HoldsMu(t)' /\ HoldsChangeLocks(t)'
      BY <1>3, <2>1 DEF CheckInitialized, TypeOK, dataVars
    <2>2. ASSUME NEW j \in Kinds PROVE EventInHand(j)'
      BY <1>3, <2>2 DEF CheckInitialized, TypeOK, dataVars
    <2> QED
      BY <2>1, <2>2
  <1>4. CASE OnSynced(k)
    <2>1. ASSUME NEW t \in Threads PROVE HoldsMu(t)' /\ HoldsChangeLocks(t)'
      BY <1>4, <2>1 DEF OnSynced, TypeOK, dataVars
    <2>2. ASSUME NEW j \in Kinds PROVE EventInHand(j)'
      BY <1>4, <2>2 DEF OnSynced, TypeOK, dataVars
    <2> QED
      BY <2>1, <2>2
  <1> QED
    BY <1>1, <1>2, <1>3, <1>4

\* A step of syncEnnPolicy that returns, with no lock of a change map held.
LEMMA LockReturns ==
  ASSUME TypeOK, LockDiscipline, NEW t \in Threads,
         pc[t] \in {"ensure", "switch"}, Return(t),
         UNCHANGED <<dataVars, changeLock>>
  PROVE  LockDiscipline'
  <1> USE ThreadFacts DEF LockDiscipline, HoldsMu, HoldsChangeLocks, EventInHand, InsidePCs,
          Return, Home, dataVars
  <1>1. ASSUME NEW u \in Threads PROVE HoldsMu(u)' /\ HoldsChangeLocks(u)'
    BY <1>1 DEF TypeOK
  <1>2. ASSUME NEW j \in Kinds PROVE EventInHand(j)'
    BY <1>2 DEF TypeOK
  <1> QED
    BY <1>1, <1>2

LEMMA LockSync ==
  ASSUME TypeOK, LockDiscipline, NEW t \in Threads, Lock(t) \/ SyncStep(t)
  PROVE  LockDiscipline'
  <1> USE ThreadFacts DEF LockDiscipline, HoldsMu, HoldsChangeLocks, EventInHand, InsidePCs
  <1>1. CASE Lock(t)
    <2>1. ASSUME NEW u \in Threads PROVE HoldsMu(u)' /\ HoldsChangeLocks(u)'
      BY <1>1, <2>1 DEF Lock, Goto, TypeOK, flagVars, dataVars
    <2>2. ASSUME NEW j \in Kinds PROVE EventInHand(j)'
      BY <1>1, <2>2 DEF Lock, Goto, TypeOK, flagVars, dataVars
    <2> QED
      BY <2>1, <2>2
  <1>2. CASE BeginInitAll(t)
    <2>1. ASSUME NEW u \in Threads PROVE HoldsMu(u)' /\ HoldsChangeLocks(u)'
      BY <1>2, <2>1 DEF BeginInitAll, Goto, TypeOK, dataVars
    <2>2. ASSUME NEW j \in Kinds PROVE EventInHand(j)'
      BY <1>2, <2>2 DEF BeginInitAll, Goto, TypeOK, dataVars
    <2> QED
      BY <2>1, <2>2
  <1>3. CASE BeginSync(t)
    <2>1. ASSUME NEW u \in Threads PROVE HoldsMu(u)' /\ HoldsChangeLocks(u)'
      BY <1>3, <2>1 DEF BeginSync, Goto, TypeOK, flagVars, dataVars
    <2>2. ASSUME NEW j \in Kinds PROVE EventInHand(j)'
      BY <1>3, <2>2 DEF BeginSync, Goto, TypeOK, flagVars, dataVars
    <2> QED
      BY <2>1, <2>2
  <1>4. CASE InitLockPods(t)
    <2>1. ASSUME NEW u \in Threads PROVE HoldsMu(u)' /\ HoldsChangeLocks(u)'
      BY <1>4, <2>1 DEF InitLockPods, Goto, TypeOK, dataVars, Kinds
    <2>2. ASSUME NEW j \in Kinds PROVE EventInHand(j)'
      BY <1>4, <2>2 DEF InitLockPods, Goto, TypeOK, dataVars
    <2> QED
      BY <2>1, <2>2
  <1>5. CASE InitLockNamespaces(t)
    <2>1. ASSUME NEW u \in Threads PROVE HoldsMu(u)' /\ HoldsChangeLocks(u)'
      BY <1>5, <2>1 DEF InitLockNamespaces, Goto, TypeOK, dataVars, Kinds
    <2>2. ASSUME NEW j \in Kinds PROVE EventInHand(j)'
      BY <1>5, <2>2 DEF InitLockNamespaces, Goto, TypeOK, dataVars
    <2> QED
      BY <2>1, <2>2
  <1>6. CASE InitPolicies(t)
    <2>1. ASSUME NEW u \in Threads PROVE HoldsMu(u)' /\ HoldsChangeLocks(u)'
      BY <1>6, <2>1 DEF InitPolicies, Goto, TypeOK
    <2>2. ASSUME NEW j \in Kinds PROVE EventInHand(j)'
      BY <1>6, <2>2 DEF InitPolicies, Goto, TypeOK
    <2> QED
      BY <2>1, <2>2
  <1>7. CASE InitMaps(t)
    <2>1. ASSUME NEW u \in Threads PROVE HoldsMu(u)' /\ HoldsChangeLocks(u)'
      BY <1>7, <2>1 DEF InitMaps, Goto, TypeOK
    <2>2. ASSUME NEW j \in Kinds PROVE EventInHand(j)'
      BY <1>7, <2>2 DEF InitMaps, Goto, TypeOK
    <2> QED
      BY <2>1, <2>2
  <1>8. CASE LockChanges(t)
    <2>1. ASSUME NEW u \in Threads PROVE HoldsMu(u)' /\ HoldsChangeLocks(u)'
      BY <1>8, <2>1 DEF LockChanges, Goto, TypeOK, dataVars
    <2>2. ASSUME NEW j \in Kinds PROVE EventInHand(j)'
      BY <1>8, <2>2 DEF LockChanges, Goto, TypeOK, dataVars
    <2> QED
      BY <2>1, <2>2
  <1>9. CASE UpdateMaps(t)
    <2>1. ASSUME NEW u \in Threads PROVE HoldsMu(u)' /\ HoldsChangeLocks(u)'
      BY <1>9, <2>1 DEF UpdateMaps, Goto, TypeOK
    <2>2. ASSUME NEW j \in Kinds PROVE EventInHand(j)'
      BY <1>9, <2>2 DEF UpdateMaps, Goto, TypeOK
    <2> QED
      BY <2>1, <2>2
  <1>10. CASE EnsureFails(t)
    BY <1>10, LockReturns DEF EnsureFails
  <1>11. CASE NotAllSynced(t)
    BY <1>11, LockReturns DEF NotAllSynced
  <1>12. CASE SyncAll(t)
    BY <1>12, LockReturns DEF SyncAll
  <1>13. CASE CleanUpItem(t)
    <2>1. ASSUME NEW u \in Threads PROVE HoldsMu(u)' /\ HoldsChangeLocks(u)'
      BY <1>13, <2>1 DEF CleanUpItem, Return, Home, TypeOK
    <2>2. ASSUME NEW j \in Kinds PROVE EventInHand(j)'
      BY <1>13, <2>2 DEF CleanUpItem, Return, Home, TypeOK
    <2> QED
      BY <2>1, <2>2
  <1> QED
    BY <1>1, <1>2, <1>3, <1>4, <1>5, <1>6, <1>7, <1>8, <1>9, <1>10, <1>11, <1>12, <1>13
    DEF SyncStep

LEMMA LockServer ==
  ASSUME TypeOK, LockDiscipline, Tick \/ Signal \/ StopHandoff \/ Exit \/ UNCHANGED vars
  PROVE  LockDiscipline'
  <1> USE ThreadFacts DEF LockDiscipline, HoldsMu, HoldsChangeLocks, EventInHand, InsidePCs,
          dataVars
  <1>1. CASE Tick
    BY <1>1 DEF Tick, TypeOK
  <1>2. CASE Signal
    BY <1>2 DEF Signal, TypeOK
  <1>3. CASE StopHandoff
    BY <1>3 DEF StopHandoff, Goto, TypeOK
  <1>4. CASE Exit
    BY <1>4 DEF Exit, TypeOK
  <1>5. CASE UNCHANGED vars
    BY <1>5 DEF vars, TypeOK
  <1> QED
    BY <1>1, <1>2, <1>3, <1>4, <1>5

LEMMA LockNext == TypeOK /\ LockDiscipline /\ [Next]_vars => LockDiscipline'
  <1> SUFFICES ASSUME TypeOK, LockDiscipline, [Next]_vars PROVE LockDiscipline'
    OBVIOUS
  <1> QED
    BY LockHandlers, LockSync, LockServer DEF Next, Running, Exited

\* mu and the locks of the change maps exclude each other's critical sections
\* in every reachable state (the Lock and Unlock calls of policy.go and of the
\* Update and Update*Map functions).
THEOREM LockDisciplineHolds == Spec => []LockDiscipline
  BY TypeInit, TypeNext, LockInit, LockNext, PTL DEF Spec

-----------------------------------------------------------------------------
(* No event is lost                                                        *)

\* Applying an item to what it says was there leaves what it says is there now.
LEMMA MergedExact ==
  ASSUME NEW k \in Kinds, NEW item \in Change
  PROVE  Merged(k, Contribution(item.previous), item) = Contribution(item.current)
  BY NoneAssumption DEF Merged, Contribution, Change, MaybeInfo

\* Where there is no item, applying the change map changes nothing.
LEMMA MergedNoChange ==
  ASSUME NEW k \in Kinds, NEW S \in SUBSET Infos
  PROVE  Merged(k, S, NoChange) = S
  BY NoneAssumption DEF Merged, NoChange

\* With the lock of the change map held, applying all its items brings every
\* object of the kind to what is recorded.
LEMMA MergedAllExact ==
  ASSUME TypeOK, NoLostUpdate, NEW k \in Kinds, ~Merging(k), NEW n \in Names
  PROVE  MergedAll(k)[n] = Contribution(Recorded(k)[n])
  <1>1. Accounted(k, n)
    BY DEF NoLostUpdate
  <1>2. MergedAll(k)[n] = Merged(k, applied[k][n], changes[k][n])
    BY DEF MergedAll
  <1>3. applied[k][n] \in SUBSET Infos /\ changes[k][n] \in Change
    BY DEF TypeOK
  <1>4. CASE changes[k][n] = NoChange
    BY <1>1, <1>2, <1>3, <1>4, MergedNoChange DEF Accounted
  <1>5. CASE changes[k][n] # NoChange
    BY <1>1, <1>2, <1>3, <1>5, MergedExact DEF Accounted
  <1> QED
    BY <1>4, <1>5

LEMMA LostInit == Init => NoLostUpdate
  BY ThreadFacts DEF Init, NoLostUpdate, Accounted, Recorded, Contribution, NoChange, NoEvent

\* Steps that touch no data and enter or leave no clean-up keep every object
\* accounted for.
LEMMA LostQuiet ==
  ASSUME TypeOK, NoLostUpdate, UNCHANGED dataVars,
         \A t \in Threads : /\ pc'[t] = "cleanup" <=> pc[t] = "cleanup"
                            /\ pc[t] = "cleanup" => syncType'[t] = syncType[t]
  PROVE  NoLostUpdate'
  <1>1. ASSUME NEW k \in Kinds PROVE Merging(k)' = Merging(k)
    BY <1>1 DEF Merging
  <1>2. ASSUME NEW k \in Kinds PROVE Recorded(k)' = Recorded(k)
    BY <1>2 DEF Recorded, dataVars
  <1>3. ASSUME NEW k \in Kinds, NEW n \in Names PROVE Accounted(k, n)'
    <2>1. Accounted(k, n)
      BY DEF NoLostUpdate
    <2> QED
      BY <1>1, <1>2, <2>1 DEF Accounted, dataVars
  <1> QED
    BY <1>3 DEF NoLostUpdate

\* Nobody cleans up a change map whose lock another thread holds.
LEMMA NotMerging ==
  ASSUME TypeOK, LockDiscipline, NEW k \in Kinds, NEW t \in Threads,
         changeLock[k] = t, pc[t] # "cleanup"
  PROVE  ~Merging(k)
  BY DEF Merging, LockDiscipline, HoldsChangeLocks

\* At most the holder of mu is cleaning up.
LEMMA OnlyHolderMerges ==
  ASSUME LockDiscipline, NEW t \in Threads, mu = t, NEW u \in Threads, u # t
  PROVE  pc[u] \notin InsidePCs
  BY DEF LockDiscipline, HoldsMu

LEMMA LostHandlers ==
  ASSUME TypeOK, LockDiscipline, NoLostUpdate, NEW k \in Kinds,
         \/ \E n \in Names, v \in MaybeInfo : HandleEvent(k, n, v)
         \/ RecordChange(k) \/ CheckInitialized(k) \/ OnSynced(k)
  PROVE  NoLostUpdate'
  <1> USE ThreadFacts
  <1>1. ASSUME NEW n \in Names, NEW v \in MaybeInfo, HandleEvent(k, n, v)
        PROVE  NoLostUpdate'
    <2>1. event[k] = NoEvent
      BY <1>1 DEF LockDiscipline, EventInHand, HandleEvent
    <2>2. ASSUME NEW j \in Kinds PROVE Recorded(j)' = Recorded(j)
      <3>1. CASE j = k
        <4>1. event'[k] = [name |-> n, previous |-> store[k][n], current |-> v]
          BY <1>1 DEF HandleEvent, TypeOK
        <4>2. \A m \in Names : m # n => store'[k][m] = store[k][m]
          BY <1>1 DEF HandleEvent, TypeOK
        <4> QED
          BY <2>1, <3>1, <4>1, <4>2, NoneAssumption DEF Recorded, NoEvent
      <3>2. CASE j # k
        BY <1>1, <3>2 DEF Recorded, HandleEvent, TypeOK
      <3> QED
        BY <3>1, <3>2
    <2>3. ASSUME NEW j \in Kinds PROVE Merging(j)' = Merging(j)
      BY <1>1 DEF Merging, HandleEvent, TypeOK
    <2>4. ASSUME NEW j \in Kinds, NEW m \in Names PROVE Accounted(j, m)'
      <3>1. Accounted(j, m)
        BY DEF NoLostUpdate
      <3> QED
        BY <1>1, <2>2, <2>3, <3>1 DEF Accounted, HandleEvent
    <2> QED
      BY <2>4 DEF NoLostUpdate
  <1>2. CASE RecordChange(k)
    <2>1. PICK n \in Names : /\ n = event[k].name
                             /\ event[k].current = store[k][n]
                             /\ changeLock[k] = Informer(k)
      BY <1>2 DEF LockDiscipline, EventInHand, RecordChange
    <2>2. ~Merging(k)
      BY <1>2, <2>1, NotMerging DEF RecordChange
    <2>3. ASSUME NEW j \in Kinds PROVE Merging(j)' = Merging(j)
      BY <1>2 DEF Merging, RecordChange, TypeOK
    <2>4. ASSUME NEW j \in Kinds, NEW m \in Names, j # k \/ m # n
          PROVE  Recorded(j)'[m] = Recorded(j)[m] /\ changes'[j][m] = changes[j][m]
      BY <1>2, <2>1, <2>4, NoneAssumption DEF Recorded, RecordChange, TypeOK, NoEvent
    <2>5. Recorded(k)[n] = event[k].previous /\ Recorded(k)'[n] = event[k].current
      BY <1>2, <2>1, NoneAssumption DEF Recorded, RecordChange, TypeOK, NoEvent
    <2>6. changes'[k][n] = Updated(changes[k][n], event[k])
      BY <1>2, <2>1 DEF RecordChange, TypeOK
    <2>7. Accounted(k, n)'
      <3>1. Accounted(k, n)
        BY <2>1 DEF NoLostUpdate
      <3>2. ~Merging(k)'
        BY <2>2, <2>3
      <3>3. applied' = applied
        BY <1>2 DEF RecordChange
      <3>4. CASE changes[k][n] = NoChange
        BY <2>2, <2>5, <2>6, <3>1, <3>2, <3>3, <3>4 DEF Accounted, Updated, NoChange
      <3>5. CASE changes[k][n] # NoChange
        BY <2>2, <2>5, <2>6, <3>1, <3>2, <3>3, <3>5 DEF Accounted, Updated, NoChange
      <3> QED
        BY <3>4, <3>5
    <2>8. ASSUME NEW j \in Kinds, NEW m \in Names, j # k \/ m # n PROVE Accounted(j, m)'
      <3>1. Accounted(j, m)
        BY DEF NoLostUpdate
      <3> QED
        BY <1>2, <2>3, <2>4, <2>8, <3>1 DEF Accounted, RecordChange
    <2> QED
      BY <2>7, <2>8 DEF NoLostUpdate
  <1>3. CASE CheckInitialized(k)
    BY <1>3, LostQuiet DEF CheckInitialized, TypeOK
  <1>4. CASE OnSynced(k)
    BY <1>4, LostQuiet DEF OnSynced, TypeOK
  <1> QED
    BY <1>1, <1>2, <1>3, <1>4

LEMMA LostSync ==
  ASSUME TypeOK, LockDiscipline, NoLostUpdate, NEW t \in Threads, Lock(t) \/ SyncStep(t)
  PROVE  NoLostUpdate'
  <1> USE ThreadFacts
  <1>1. CASE Lock(t)
    BY <1>1, LostQuiet DEF Lock, Goto, TypeOK
  <1>2. CASE EnsureFails(t)
    BY <1>2, LostQuiet DEF EnsureFails, Return, Home, TypeOK
  <1>3. CASE NotAllSynced(t)
    BY <1>3, LostQuiet DEF NotAllSynced, Return, Home, TypeOK
  <1>4. CASE BeginInitAll(t)
    BY <1>4, LostQuiet DEF BeginInitAll, Goto, TypeOK
  <1>5. CASE BeginSync(t)
    BY <1>5, LostQuiet DEF BeginSync, Goto, TypeOK
  <1>6. CASE InitLockPods(t)
    BY <1>6, LostQuiet DEF InitLockPods, Goto, TypeOK
  <1>7. CASE InitLockNamespaces(t)
    BY <1>7, LostQuiet DEF InitLockNamespaces, Goto, TypeOK
  <1>8. CASE SyncAll(t)
    BY <1>8, LostQuiet DEF SyncAll, Return, Home, TypeOK
  <1>9. CASE LockChanges(t)
    BY <1>9, LostQuiet DEF LockChanges, Goto, TypeOK
  <1>10. CASE InitPolicies(t)
    <2>1. mu = t /\ ~Merging("networkpolicy")
      <3>1. mu = t
        BY <1>10 DEF LockDiscipline, HoldsMu, InitPolicies, InsidePCs
      <3> QED
        BY <1>10, <3>1, OnlyHolderMerges DEF Merging, InitPolicies, InsidePCs
    <2>2. ASSUME NEW k \in Kinds PROVE Merging(k)' = Merging(k)
      BY <1>10 DEF Merging, InitPolicies, Goto, TypeOK
    <2>3. ASSUME NEW k \in Kinds PROVE Recorded(k)' = Recorded(k)
      BY <1>10 DEF Recorded, InitPolicies
    <2>4. ASSUME NEW k \in Kinds, NEW n \in Names PROVE Accounted(k, n)'
      <3>1. CASE k = "networkpolicy"
        <4>1. applied'[k][n] = MergedAll(k)[n] /\ changes'[k][n] = NoChange
          BY <1>10, <3>1 DEF InitPolicies, NoChanges, TypeOK
        <4>2. MergedAll(k)[n] = Contribution(Recorded(k)[n])
          BY <2>1, <3>1, MergedAllExact
        <4> QED
          BY <2>3, <4>1, <4>2 DEF Accounted
      <3>2. CASE k # "networkpolicy"
        <4>1. applied'[k] = applied[k] /\ changes'[k] = changes[k]
          BY <1>10, <3>2 DEF InitPolicies, TypeOK
        <4>2. Accounted(k, n)
          BY DEF NoLostUpdate
        <4> QED
          BY <2>2, <2>3, <4>1, <4>2 DEF Accounted
      <3> QED
        BY <3>1, <3>2
    <2> QED
      BY <2>4 DEF NoLostUpdate
  <1>11. CASE InitMaps(t)
    <2>1. ~Merging("pod") /\ ~Merging("namespace")
      <3>1. mu = t
        BY <1>11 DEF LockDiscipline, HoldsMu, InitMaps, InsidePCs
      <3> QED
        BY <1>11, <3>1, OnlyHolderMerges DEF Merging, InitMaps, InsidePCs
    <2>2. ASSUME NEW k \in Kinds PROVE Merging(k)' = Merging(k)
      BY <1>11 DEF Merging, InitMaps, Goto, TypeOK
    <2>3. ASSUME NEW k \in Kinds PROVE Recorded(k)' = Recorded(k)
      BY <1>11 DEF Recorded, InitMaps
    <2>4. ASSUME NEW k \in Kinds, NEW n \in Names PROVE Accounted(k, n)'
      <3>1. CASE k \in {"pod", "namespace"}
        <4>1. applied'[k][n] = MergedAll(k)[n] /\ changes'[k][n] = NoChange
          BY <1>11, <3>1 DEF InitMaps, NoChanges, TypeOK
        <4>2. MergedAll(k)[n] = Contribution(Recorded(k)[n])
          BY <2>1, <3>1, MergedAllExact
        <4> QED
          BY <2>3, <4>1, <4>2 DEF Accounted
      <3>2. CASE k = "networkpolicy"
        <4>1. applied'[k] = applied[k] /\ changes'[k] = changes[k]
          BY <1>11, <3>2 DEF InitMaps, TypeOK
        <4>2. Accounted(k, n)
          BY DEF NoLostUpdate
        <4> QED
          BY <2>2, <2>3, <4>1, <4>2 DEF Accounted
      <3> QED
        BY <3>1, <3>2 DEF Kinds
    <2> QED
      BY <2>4 DEF NoLostUpdate
  <1>12. CASE UpdateMaps(t)
    <2>1. PICK j \in Kinds : j = syncType[t] /\ changeLock[j] = t
      BY <1>12 DEF LockDiscipline, HoldsChangeLocks, UpdateMaps
    <2>2. ~Merging(j)
      BY <1>12, <2>1, NotMerging DEF UpdateMaps
    <2>3. ASSUME NEW k \in Kinds PROVE Recorded(k)' = Recorded(k)
      BY <1>12 DEF Recorded, UpdateMaps
    <2>4. ASSUME NEW k \in Kinds, NEW n \in Names PROVE Accounted(k, n)'
      <3>1. CASE k = j
        <4>1. applied'[k][n] = MergedAll(k)[n]
          BY <1>12, <2>1, <3>1 DEF UpdateMaps, TypeOK
        <4>2. MergedAll(k)[n] = Contribution(Recorded(k)[n])
          BY <2>2, <3>1, MergedAllExact
        <4>3. Merging(k)'
          BY <1>12, <2>1, <3>1 DEF UpdateMaps, Goto, Merging, TypeOK
        <4> QED
          BY <2>3, <4>1, <4>2, <4>3 DEF Accounted
      <3>2. CASE k # j
        <4>1. applied'[k] = applied[k] /\ changes'[k] = changes[k]
          BY <1>12, <2>1, <3>2 DEF UpdateMaps, TypeOK
        <4>2. Accounted(k, n)
          BY DEF NoLostUpdate
        <4>3. Merging(k)' = Merging(k)
          BY <1>12, <2>1, <3>2 DEF UpdateMaps, Goto, Merging, TypeOK
        <4> QED
          BY <2>3, <4>1, <4>2, <4>3 DEF Accounted
      <3> QED
        BY <3>1, <3>2
    <2> QED
      BY <2>4 DEF NoLostUpdate
  <1>13. CASE CleanUpItem(t)
    <2>1. PICK j \in Kinds : j = syncType[t]
      BY <1>13 DEF LockDiscipline, HoldsChangeLocks, CleanUpItem
    <2>2. Merging(j)
      BY <1>13, <2>1 DEF Merging, CleanUpItem
    <2>3. ASSUME NEW k \in Kinds PROVE Recorded(k)' = Recorded(k)
      BY <1>13 DEF Recorded, CleanUpItem
    <2>4. ASSUME NEW k \in Kinds, NEW n \in Names PROVE Accounted(k, n)'
      <3>0. Accounted(k, n)
        BY DEF NoLostUpdate
      <3>1. CASE k = j
        <4>1. changes'[k][n] = NoChange /\ applied'[k][n] = applied[k][n]
          BY <1>13, <2>1, <3>1 DEF CleanUpItem, NoChanges, TypeOK
        <4> QED
          BY <2>2, <2>3, <3>0, <3>1, <4>1 DEF Accounted
      <3>2. CASE k # j
        <4>1. applied'[k] = applied[k] /\ changes'[k] = changes[k]
          BY <1>13, <2>1, <3>2 DEF CleanUpItem, TypeOK
        <4>2. mu = t
          BY <1>13 DEF LockDiscipline, HoldsMu, CleanUpItem, InsidePCs
        <4>3. ~Merging(k)
          BY <2>1, <3>2, <4>2, OnlyHolderMerges DEF Merging, InsidePCs
        <4>4. ~Merging(k)'
          BY <1>13, <2>1, <3>2, <4>2, OnlyHolderMerges
          DEF CleanUpItem, Return, Home, Merging, InsidePCs, TypeOK
        <4> QED
          BY <2>3, <3>0, <4>1, <4>3, <4>4 DEF Accounted
      <3> QED
        BY <3>1, <3>2
    <2> QED
      BY <2>4 DEF NoLostUpdate
  <1> QED
    BY <1>1, <1>2, <1>3, <1>4, <1>5, <1>6, <1>7, <1>8, <1>9, <1>10, <1>11, <1>12, <1>13
    DEF SyncStep

LEMMA LostServer ==
  ASSUME TypeOK, NoLostUpdate, Tick \/ Signal \/ StopHandoff \/ Exit \/ UNCHANGED vars
  PROVE  NoLostUpdate'
  <1> USE ThreadFacts
  <1>1. CASE Tick
    BY <1>1, LostQuiet DEF Tick, TypeOK
  <1>2. CASE Signal
    BY <1>2, LostQuiet DEF Signal
  <1>3. CASE StopHandoff
    BY <1>3, LostQuiet DEF StopHandoff, Goto, TypeOK
  <1>4. CASE Exit
    BY <1>4, LostQuiet DEF Exit
  <1>5. CASE UNCHANGED vars
    BY <1>5, LostQuiet DEF vars, dataVars
  <1> QED
    BY <1>1, <1>2, <1>3, <1>4, <1>5

LEMMA LostNext ==
  TypeOK /\ LockDiscipline /\ NoLostUpdate /\ [Next]_vars => NoLostUpdate'
  <1> SUFFICES ASSUME TypeOK, LockDiscipline, NoLostUpdate, [Next]_vars PROVE NoLostUpdate'
    OBVIOUS
  <1> QED
    BY LostHandlers, LostSync, LostServer DEF Next, Running, Exited

\* No event an informer delivered is lost or applied twice, whatever the names,
\* the contributions, the interleaving and the ensure failures (Update,
\* Update*Map and CleanUpItem of the three change maps).
THEOREM NothingLost == Spec => []NoLostUpdate
  BY TypeInit, TypeNext, LockInit, LockNext, LostInit, LostNext, PTL DEF Spec

-----------------------------------------------------------------------------
(* The maps implement Mirror                                               *)

\* What is recorded of every kind: the refinement mapping of Mirror's recorded.
AllRecorded == [k \in Kinds |-> Recorded(k)]

LEMMA MirrorInit == Init => Maps!Init
  BY NoneAssumption DEF Init, Maps!Init, Recorded, NoEvent

\* A step that leaves what is recorded and the maps alone is a stutter.
LEMMA MirrorStutter ==
  ASSUME UNCHANGED <<store, event, applied>>
  PROVE  UNCHANGED <<AllRecorded, applied>>
  BY DEF AllRecorded, Recorded

\* Taking an event in hand changes nothing of what is recorded.
LEMMA RecordedHandle ==
  ASSUME TypeOK, LockDiscipline, NEW k \in Kinds, NEW n \in Names, NEW v \in MaybeInfo,
         HandleEvent(k, n, v)
  PROVE  UNCHANGED AllRecorded
  <1>1. event[k] = NoEvent
    BY ThreadFacts DEF LockDiscipline, EventInHand, HandleEvent
  <1>2. event'[k] = [name |-> n, previous |-> store[k][n], current |-> v]
    BY DEF HandleEvent, TypeOK
  <1>3. \A m \in Names : m # n => store'[k][m] = store[k][m]
    BY DEF HandleEvent, TypeOK
  <1>4. Recorded(k)' = Recorded(k)
    BY <1>1, <1>2, <1>3, NoneAssumption DEF Recorded, NoEvent
  <1>5. ASSUME NEW j \in Kinds, j # k PROVE Recorded(j)' = Recorded(j)
    BY <1>5 DEF Recorded, HandleEvent, TypeOK
  <1> QED
    BY <1>4, <1>5 DEF AllRecorded

LEMMA MirrorRecord ==
  ASSUME TypeOK, LockDiscipline, NEW k \in Kinds, RecordChange(k)
  PROVE  Maps!Next
  <1>1. PICK n \in Names : n = event[k].name /\ event[k].current = store[k][n]
    BY ThreadFacts DEF LockDiscipline, EventInHand, RecordChange
  <1> DEFINE v == store[k][n]
  <1>2. v \in MaybeInfo
    BY DEF TypeOK
  <1>3. Recorded(k)' = [Recorded(k) EXCEPT ![n] = v]
    BY <1>1, NoneAssumption DEF Recorded, RecordChange, TypeOK, NoEvent
  <1>4. ASSUME NEW j \in Kinds, j # k PROVE Recorded(j)' = Recorded(j)
    BY <1>4 DEF Recorded, RecordChange, TypeOK
  <1>5. AllRecorded' = [AllRecorded EXCEPT ![k][n] = v]
    BY <1>3, <1>4 DEF AllRecorded
  <1>6. applied' = applied
    BY DEF RecordChange
  <1>7. Maps!Record(k, n, v)
    BY <1>5, <1>6 DEF Maps!Record, AllRecorded
  <1> QED
    BY <1>2, <1>7 DEF Maps!Next

\* Applying all the items of the kinds in K is one step of catching up.
LEMMA MirrorMerge ==
  ASSUME TypeOK, NoLostUpdate, NEW K \in SUBSET Kinds,
         \A k \in K : ~Merging(k),
         UNCHANGED <<store, event>>,
         applied' = [k \in Kinds |-> IF k \in K THEN MergedAll(k) ELSE applied[k]]
  PROVE  Maps!Next
  <1>1. UNCHANGED AllRecorded
    BY DEF AllRecorded, Recorded
  <1>2. ASSUME NEW k \in K
        PROVE  MergedAll(k) = [n \in Names |-> {AllRecorded[k][n]} \ {None}]
    <2>1. \A n \in Names : MergedAll(k)[n] = Contribution(Recorded(k)[n])
      BY MergedAllExact
    <2>2. MergedAll(k) \in [Names -> SUBSET Infos]
      BY MergedAllType
    <2> QED
      BY <2>1, <2>2 DEF Contribution, AllRecorded
  <1>3. applied' = [k \in Kinds |-> IF k \in K THEN [n \in Names |-> {AllRecorded[k][n]} \ {None}]
                                    ELSE applied[k]]
    BY <1>2
  <1>4. Maps!CatchUp(K)
    BY <1>1, <1>3 DEF Maps!CatchUp, AllRecorded
  <1> QED
    BY <1>4 DEF Maps!Next

LEMMA MirrorSync ==
  ASSUME TypeOK, LockDiscipline, NoLostUpdate, NEW t \in Threads, Lock(t) \/ SyncStep(t)
  PROVE  Maps!Next \/ UNCHANGED <<AllRecorded, applied>>
  <1>1. CASE InitPolicies(t)
    <2>1. mu = t /\ ~Merging("networkpolicy")
      <3>1. mu = t
        BY <1>1 DEF LockDiscipline, HoldsMu, InitPolicies, InsidePCs
      <3> QED
        BY <1>1, <3>1, OnlyHolderMerges DEF Merging, InitPolicies, InsidePCs
    <2>2. applied' = [k \in Kinds |-> IF k \in {"networkpolicy"} THEN MergedAll(k) ELSE applied[k]]
      BY <1>1 DEF InitPolicies, TypeOK
    <2> QED
      BY <1>1, <2>1, <2>2, MirrorMerge DEF InitPolicies, Kinds
  <1>2. CASE InitMaps(t)
    <2>1. ~Merging("pod") /\ ~Merging("namespace")
      <3>1. mu = t
        BY <1>2 DEF LockDiscipline, HoldsMu, InitMaps, InsidePCs
      <3> QED
        BY <1>2, <3>1, OnlyHolderMerges DEF Merging, InitMaps, InsidePCs
    <2>2. applied' = [k \in Kinds |-> IF k \in {"pod", "namespace"} THEN MergedAll(k)
                                      ELSE applied[k]]
      BY <1>2 DEF InitMaps, TypeOK
    <2>3. {"pod", "namespace"} \in SUBSET Kinds
      BY DEF Kinds
    <2> QED
      BY <1>2, <2>1, <2>2, <2>3, MirrorMerge DEF InitMaps
  <1>3. CASE UpdateMaps(t)
    <2>1. PICK j \in Kinds : j = syncType[t] /\ changeLock[j] = t
      BY <1>3 DEF LockDiscipline, HoldsChangeLocks, UpdateMaps
    <2>2. ~Merging(j)
      BY <1>3, <2>1, NotMerging DEF UpdateMaps
    <2>3. applied' = [k \in Kinds |-> IF k \in {j} THEN MergedAll(k) ELSE applied[k]]
      BY <1>3, <2>1 DEF UpdateMaps, TypeOK
    <2> QED
      BY <1>3, <2>2, <2>3, MirrorMerge DEF UpdateMaps
  <1>4. CASE Lock(t) \/ EnsureFails(t) \/ NotAllSynced(t) \/ BeginInitAll(t) \/ BeginSync(t)
             \/ InitLockPods(t) \/ InitLockNamespaces(t) \/ SyncAll(t) \/ LockChanges(t)
    <2>1. UNCHANGED <<store, event, applied>>
      BY <1>4 DEF Lock, EnsureFails, NotAllSynced, BeginInitAll, BeginSync, InitLockPods,
                  InitLockNamespaces, SyncAll, LockChanges, dataVars
    <2> QED
      BY <2>1, MirrorStutter
  <1>5. CASE CleanUpItem(t)
    BY <1>5, MirrorStutter DEF CleanUpItem
  <1> QED
    BY <1>1, <1>2, <1>3, <1>4, <1>5 DEF SyncStep

LEMMA MirrorNext ==
  ASSUME TypeOK, LockDiscipline, NoLostUpdate, [Next]_vars
  PROVE  Maps!Next \/ UNCHANGED <<AllRecorded, applied>>
  <1>1. ASSUME NEW k \in Kinds, NEW n \in Names, NEW v \in MaybeInfo, HandleEvent(k, n, v)
        PROVE  UNCHANGED <<AllRecorded, applied>>
    BY <1>1, RecordedHandle DEF HandleEvent
  <1>2. ASSUME NEW k \in Kinds, RecordChange(k)
        PROVE  Maps!Next
    BY <1>2, MirrorRecord
  <1>3. ASSUME NEW k \in Kinds, CheckInitialized(k) \/ OnSynced(k)
        PROVE  UNCHANGED <<AllRecorded, applied>>
    BY <1>3, MirrorStutter DEF CheckInitialized, OnSynced, dataVars
  <1>4. ASSUME Tick \/ Signal \/ StopHandoff \/ Exit \/ UNCHANGED vars
        PROVE  UNCHANGED <<AllRecorded, applied>>
    BY <1>4, MirrorStutter DEF Tick, Signal, StopHandoff, Exit, vars, dataVars
  <1> QED
    BY <1>1, <1>2, <1>3, <1>4, MirrorSync DEF Next, Running, Exited

\* The maps of the daemon implement the mirror: they change only by catching up
\* with everything recorded of whole kinds (syncEnnPolicy and Update*Map).
THEOREM MapsImplementMirror == Spec => MirrorsRecorded
  <1>1. TypeOK /\ LockDiscipline /\ NoLostUpdate /\ [Next]_vars
          => [Maps!Next]_<<[k \in Kinds |-> Recorded(k)], applied>>
    BY MirrorNext DEF AllRecorded
  <1>2. Spec => [](TypeOK /\ LockDiscipline /\ NoLostUpdate)
    BY TypeCorrect, LockDisciplineHolds, NothingLost, PTL
  <1>3. Spec => Maps!Init
    BY MirrorInit DEF Spec
  <1>4. Spec => [][Maps!Next]_<<[k \in Kinds |-> Recorded(k)], applied>>
    BY <1>1, <1>2, PTL DEF Spec
  <1> QED
    BY <1>3, <1>4, PTL DEF MirrorsRecorded, Maps!Spec
-----------------------------------------------------------------------------
(* Every pending change is owned                                           *)

\* The flags: initialized says that all caches are synced, the first
\* synchronization has begun only then, and outside it a thread's syncType is
\* the argument of its own call.
FlagsAgree ==
  /\ initialized <=> AllSynced
  /\ ~initAllSynced => AllSynced
  /\ \A t \in Threads : pc[t] \in OutsidePCs \cup {"ensure"} => syncType[t] = t[2]

\* Inside the first synchronization, before the items of kind k are applied.
BeforeInit(k) ==
  {"initPods", "initNamespaces", "initPolicies"}
    \cup (IF k = "networkpolicy" THEN {} ELSE {"initMaps"})

\* Who is going to apply the pending items of kind k: its own handler, at a
\* point from which its call of syncEnnPolicy gets to them, or the thread that
\* runs the first synchronization.
Owned(k) ==
  \/ pc[Informer(k)] \in {"update", "isInitialized", "lock"}
  \/ pc[Informer(k)] \in {"ensure", "switch", "maps", "cleanup"} /\ syncType[Informer(k)] = k
  \/ \E t \in Threads : pc[t] \in BeforeInit(k)

AllOwned == ~initAllSynced /\ failures = 0 => \A k \in Kinds : Pending(k) # {} => Owned(k)

LEMMA FlagsInit == Init => FlagsAgree
  BY DEF Init, FlagsAgree, AllSynced, Kinds

LEMMA FlagsHandlers ==
  ASSUME TypeOK, FlagsAgree, NEW k \in Kinds,
         \/ \E n \in Names, v \in MaybeInfo : HandleEvent(k, n, v)
         \/ RecordChange(k) \/ CheckInitialized(k) \/ OnSynced(k)
  PROVE  FlagsAgree'
  <1> USE ThreadFacts DEF FlagsAgree, AllSynced, OutsidePCs, flagVars
  <1>1. CASE \E n \in Names, v \in MaybeInfo : HandleEvent(k, n, v)
    <2>1. PICK n \in Names, v \in MaybeInfo : HandleEvent(k, n, v)
      BY <1>1
    <2> QED
      BY <2>1 DEF HandleEvent, TypeOK
  <1>2. CASE RecordChange(k)
    BY <1>2 DEF RecordChange, TypeOK
  <1>3. CASE CheckInitialized(k)
    BY <1>3 DEF CheckInitialized, TypeOK
  <1>4. CASE OnSynced(k)
    BY <1>4 DEF OnSynced, TypeOK
  <1> QED
    BY <1>1, <1>2, <1>3, <1>4

LEMMA FlagsSync ==
  ASSUME TypeOK, FlagsAgree, NEW t \in Threads, Lock(t) \/ SyncStep(t)
  PROVE  FlagsAgree'
  <1> USE DEF FlagsAgree, AllSynced, OutsidePCs, flagVars
  <1>1. CASE Lock(t)
    BY <1>1 DEF Lock, Goto, TypeOK
  <1>2. CASE EnsureFails(t) \/ NotAllSynced(t) \/ SyncAll(t) \/ CleanUpItem(t)
    <2>1. Return(t) /\ UNCHANGED flagVars
      BY <1>2 DEF EnsureFails, NotAllSynced, SyncAll, CleanUpItem
    <2> QED
      BY <2>1 DEF Return, TypeOK
  <1>3. CASE BeginInitAll(t)
    BY <1>3 DEF BeginInitAll, Goto, TypeOK
  <1>4. CASE BeginSync(t)
    BY <1>4 DEF BeginSync, Goto, TypeOK
  <1>5. CASE InitLockPods(t) \/ InitLockNamespaces(t)
    BY <1>5 DEF InitLockPods, InitLockNamespaces, Goto, TypeOK
  <1>6. CASE InitPolicies(t) \/ InitMaps(t)
    BY <1>6 DEF InitPolicies, InitMaps, Goto, TypeOK
  <1>7. CASE LockChanges(t) \/ UpdateMaps(t)
    BY <1>7 DEF LockChanges, UpdateMaps, Goto, TypeOK
  <1> QED
    BY <1>1, <1>2, <1>3, <1>4, <1>5, <1>6, <1>7 DEF SyncStep

LEMMA FlagsServer ==
  ASSUME TypeOK, FlagsAgree, Tick \/ Signal \/ StopHandoff \/ Exit \/ UNCHANGED vars
  PROVE  FlagsAgree'
  <1> USE ThreadFacts DEF FlagsAgree, AllSynced, OutsidePCs, flagVars
  <1>1. CASE Tick
    BY <1>1 DEF Tick, TypeOK
  <1>2. CASE StopHandoff
    BY <1>2 DEF StopHandoff, Goto, TypeOK
  <1>3. CASE Signal \/ Exit \/ UNCHANGED vars
    BY <1>3 DEF Signal, Exit, vars
  <1> QED
    BY <1>1, <1>2, <1>3

LEMMA FlagsNext == TypeOK /\ FlagsAgree /\ [Next]_vars => FlagsAgree'
  BY FlagsHandlers, FlagsSync, FlagsServer DEF Next, Running, Exited

LEMMA OwnedInit == Init => AllOwned
  BY DEF Init, AllOwned

\* A handler adds a pending item only on its way to syncEnnPolicy, and reads
\* initialized after the first synchronization has begun.
LEMMA OwnedHandlers ==
  ASSUME TypeOK, FlagsAgree, AllOwned, NEW k \in Kinds,
         \/ \E n \in Names, v \in MaybeInfo : HandleEvent(k, n, v)
         \/ RecordChange(k) \/ CheckInitialized(k) \/ OnSynced(k)
  PROVE  AllOwned'
  <1> SUFFICES ASSUME ~initAllSynced', failures' = 0, NEW j \in Kinds, (Pending(j) # {})'
               PROVE  Owned(j)'
    BY DEF AllOwned
  <1> USE ThreadFacts DEF flagVars, dataVars
  <1>1. CASE \E n \in Names, v \in MaybeInfo : HandleEvent(k, n, v)
    <2>1. PICK n \in Names, v \in MaybeInfo : HandleEvent(k, n, v)
      BY <1>1
    <2>2. Owned(j)
      BY <2>1 DEF AllOwned, Pending, HandleEvent
    <2> QED
      BY <2>1, <2>2 DEF HandleEvent, Owned, BeforeInit, TypeOK
  <1>2. CASE RecordChange(k) /\ j = k
    <2>1. pc'[Informer(k)] = "isInitialized"
      BY <1>2 DEF RecordChange, Pending, TypeOK
    <2> QED
      BY <1>2, <2>1 DEF Owned
  <1>3. CASE RecordChange(k) /\ j # k
    <2>1. Owned(j)
      BY <1>3 DEF RecordChange, AllOwned, Pending, TypeOK
    <2> QED
      BY <1>3, <2>1 DEF RecordChange, Owned, BeforeInit, TypeOK
  <1>4. CASE CheckInitialized(k)
    <2>1. Owned(j) /\ initialized
      BY <1>4 DEF CheckInitialized, AllOwned, Pending, FlagsAgree
    <2> QED
      BY <1>4, <2>1 DEF CheckInitialized, Owned, BeforeInit, TypeOK
  <1>5. CASE OnSynced(k)
    <2>1. Owned(j)
      BY <1>5 DEF OnSynced, AllOwned, Pending
    <2> QED
      BY <1>5, <2>1 DEF OnSynced, Owned, BeforeInit, TypeOK
  <1> QED
    BY <1>1, <1>2, <1>3, <1>4, <1>5

LEMMA OwnedServer ==
  ASSUME TypeOK, AllOwned, Tick \/ Signal \/ StopHandoff \/ Exit \/ UNCHANGED vars
  PROVE  AllOwned'
  <1> SUFFICES ASSUME ~initAllSynced', failures' = 0, NEW j \in Kinds, (Pending(j) # {})'
               PROVE  Owned(j)'
    BY DEF AllOwned
  <1> USE ThreadFacts DEF flagVars, dataVars
  <1>1. Owned(j)
    BY DEF AllOwned, Pending, Tick, Signal, StopHandoff, Exit, vars
  <1>2. CASE Tick
    BY <1>1, <1>2 DEF Tick, Owned, BeforeInit, TypeOK
  <1>3. CASE StopHandoff
    BY <1>1, <1>3 DEF StopHandoff, Goto, Owned, BeforeInit, TypeOK
  <1>4. CASE Signal \/ Exit \/ UNCHANGED vars
    BY <1>1, <1>4 DEF Signal, Exit, vars, Owned
  <1> QED
    BY <1>2, <1>3, <1>4

\* Only one thread is inside syncEnnPolicy: whoever ends the first
\* synchronization, or returns, leaves no item to itself.
LEMMA OwnedSync ==
  ASSUME TypeOK, LockDiscipline, FlagsAgree, AllOwned, NEW t \in Threads, Lock(t) \/ SyncStep(t)
  PROVE  AllOwned'
  <1> SUFFICES ASSUME ~initAllSynced', failures' = 0, NEW j \in Kinds, (Pending(j) # {})'
               PROVE  Owned(j)'
    BY DEF AllOwned
  <1>a. \A u \in Threads : pc[t] \in InsidePCs /\ pc[u] \in InsidePCs => u = t
    BY DEF LockDiscipline, HoldsMu
  <1>b. ~initAllSynced /\ failures = 0 /\ Pending(j) # {} => Owned(j)
    BY DEF AllOwned
  <1> USE ThreadFacts DEF flagVars, dataVars
  <1>1. CASE Lock(t)
    <2>1. Owned(j) /\ syncType[t] = t[2]
      BY <1>1, <1>b DEF Lock, Pending, FlagsAgree, OutsidePCs
    <2>2. Informer(j)[2] = j
      BY DEF Informer
    <2> QED
      BY <1>1, <2>1, <2>2 DEF Lock, Goto, Owned, BeforeInit, TypeOK
  <1>2. CASE EnsureFails(t)
    BY <1>2 DEF EnsureFails, TypeOK
  <1>3. CASE NotAllSynced(t)
    BY <1>3 DEF NotAllSynced, FlagsAgree
  <1>4. CASE BeginInitAll(t)
    <2>1. pc'[t] = "initPods"
      BY <1>4 DEF BeginInitAll, Goto, TypeOK
    <2> QED
      BY <2>1 DEF Owned, BeforeInit
  <1>5. CASE BeginSync(t)
    <2>1. Owned(j)
      BY <1>5, <1>b DEF BeginSync, Pending
    <2> QED
      BY <1>5, <2>1 DEF BeginSync, Goto, Owned, BeforeInit, TypeOK
  <1>6. CASE InitLockPods(t) \/ InitLockNamespaces(t)
    <2>1. pc'[t] \in {"initNamespaces", "initPolicies"}
      BY <1>6 DEF InitLockPods, InitLockNamespaces, Goto, TypeOK
    <2> QED
      BY <2>1 DEF Owned, BeforeInit
  <1>7. CASE InitPolicies(t)
    <2>1. j # "networkpolicy"
      BY <1>7 DEF InitPolicies, NoChanges, Pending, TypeOK
    <2>2. pc'[t] = "initMaps"
      BY <1>7 DEF InitPolicies, Goto, TypeOK
    <2> QED
      BY <2>1, <2>2 DEF Owned, BeforeInit
  <1>8. CASE InitMaps(t)
    <2>1. j = "networkpolicy" /\ Owned(j)
      BY <1>8, <1>b DEF InitMaps, NoChanges, Pending, TypeOK, Kinds
    <2>2. \A u \in Threads : pc[u] \notin BeforeInit(j)
      BY <1>8, <1>a, <2>1 DEF InitMaps, BeforeInit, InsidePCs
    <2> QED
      BY <1>8, <2>1, <2>2 DEF InitMaps, Goto, Owned, TypeOK
  <1>9. CASE SyncAll(t)
    <2>1. Owned(j)
      BY <1>9, <1>b DEF SyncAll, Pending
    <2>2. \A u \in Threads : pc[u] \notin BeforeInit(j)
      BY <1>9, <1>a DEF SyncAll, BeforeInit, InsidePCs
    <2>3. t # Informer(j) \/ syncType[t] # j
      BY <1>9 DEF SyncAll, Kinds
    <2> QED
      BY <1>9, <2>1, <2>2, <2>3 DEF SyncAll, Return, Owned, TypeOK
  <1>10. CASE LockChanges(t) \/ UpdateMaps(t)
    <2>1. Owned(j)
      BY <1>10, <1>b DEF LockChanges, UpdateMaps, Pending
    <2> QED
      BY <1>10, <2>1 DEF LockChanges, UpdateMaps, Goto, Owned, BeforeInit, TypeOK
  <1>11. CASE CleanUpItem(t)
    <2>1. syncType[t] # j /\ Owned(j)
      BY <1>11, <1>b DEF CleanUpItem, NoChanges, Pending, TypeOK, LockDiscipline, HoldsChangeLocks
    <2>2. \A u \in Threads : pc[u] \notin BeforeInit(j)
      BY <1>11, <1>a DEF CleanUpItem, BeforeInit, InsidePCs
    <2> QED
      BY <1>11, <2>1, <2>2 DEF CleanUpItem, Return, Owned, TypeOK
  <1> QED
    BY <1>1, <1>2, <1>3, <1>4, <1>5, <1>6, <1>7, <1>8, <1>9, <1>10, <1>11 DEF SyncStep

LEMMA OwnedNext == TypeOK /\ LockDiscipline /\ FlagsAgree /\ AllOwned /\ [Next]_vars => AllOwned'
  BY OwnedHandlers, OwnedSync, OwnedServer DEF Next, Running, Exited

LEMMA OwnedIsEnough == AllOwned => PendingIsOwned
  BY DEF AllOwned, PendingIsOwned, Owned, BeforeInit

\* No change is left in a change map without a thread that will apply it, once
\* the first synchronization has begun and unless an ensure step failed (the
\* handlers' test of initialized against OnXSynced and initAllSynced).
THEOREM PendingOwned == Spec => []PendingIsOwned
  <1>1. Init => FlagsAgree /\ AllOwned
    BY FlagsInit, OwnedInit
  <1>2. TypeOK /\ LockDiscipline /\ FlagsAgree /\ AllOwned /\ [Next]_vars
          => FlagsAgree' /\ AllOwned'
    BY FlagsNext, OwnedNext
  <1> QED
    BY <1>1, <1>2, TypeCorrect, LockDisciplineHolds, OwnedIsEnough, PTL DEF Spec
=============================================================================
