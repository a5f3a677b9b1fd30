------------------------- MODULE NodeTables_proofs -------------------------
(***************************************************************************)
(* Theorems about NodeTables, for every list of hooks, every set of rules  *)
(* of other programs, all options and any number of failures and crashes:  *)
(* its types, the locks, that the tables are always consistent, that       *)
(* cleanup is complete and that the rules of other programs are kept.      *)
(***************************************************************************)
EXTENDS NodeTables, FlannelNet_proofs, SequenceTheorems, TLAPS

Rules == Others \cup {Jump}

\* What SequencesExt's RemoveAt leaves of a sequence.
LEMMA RemoveAtFacts ==
  ASSUME NEW S, NEW s \in Seq(S), NEW i \in DOMAIN s
  PROVE  /\ RemoveAt(s, i) \in Seq(S)
         /\ Len(RemoveAt(s, i)) = Len(s) - 1
         /\ \A j \in 1 .. Len(s) - 1 : RemoveAt(s, i)[j] = IF j < i THEN s[j] ELSE s[j + 1]
  <1> DEFINE left == SubSeq(s, 1, i - 1)
             right == SubSeq(s, i + 1, Len(s))
  <1>1. Len(s) \in Nat /\ i \in 1 .. Len(s) /\ \A j \in 1 .. Len(s) : s[j] \in S
    BY LenProperties, ElementOfSeq
  <1>2. /\ left \in Seq(S) /\ Len(left) = i - 1
        /\ \A j \in 1 .. i - 1 : left[j] = s[j]
    <2>1. \A j \in 1 .. i - 1 : s[j] \in S
      BY <1>1
    <2>2. /\ left \in Seq(S)
          /\ Len(left) = IF 1 <= i - 1 THEN (i - 1) - 1 + 1 ELSE 0
          /\ \A j \in 1 .. (i - 1) - 1 + 1 : left[j] = s[1 + j - 1]
      BY <1>1, <2>1, SubSeqProperties
    <2> QED
      BY <1>1, <2>2
  <1>3. /\ right \in Seq(S) /\ Len(right) = Len(s) - i
        /\ \A j \in 1 .. Len(s) - i : right[j] = s[i + j]
    <2>1. \A j \in i + 1 .. Len(s) : s[j] \in S
      BY <1>1
    <2>2. /\ right \in Seq(S)
          /\ Len(right) = IF i + 1 <= Len(s) THEN Len(s) - (i + 1) + 1 ELSE 0
          /\ \A j \in 1 .. Len(s) - (i + 1) + 1 : right[j] = s[(i + 1) + j - 1]
      BY <1>1, <2>1, SubSeqProperties
    <2> QED
      BY <1>1, <2>2
  <1> HIDE DEF left, right
  <1>4. /\ left \o right \in Seq(S)
        /\ Len(left \o right) = Len(left) + Len(right)
        /\ \A j \in 1 .. Len(left) + Len(right) :
             (left \o right)[j] = IF j <= Len(left) THEN left[j] ELSE right[j - Len(left)]
    BY <1>2, <1>3, ConcatProperties
  <1>5. RemoveAt(s, i) = left \o right
    BY DEF RemoveAt, left, right
  <1>6. ASSUME NEW j \in 1 .. Len(s) - 1
        PROVE  (left \o right)[j] = IF j < i THEN s[j] ELSE s[j + 1]
    <2>1. CASE j < i
      BY <1>1, <1>2, <1>3, <1>4, <2>1
    <2>2. CASE ~(j < i)
      <3>1. /\ j - (i - 1) \in 1 .. Len(s) - i /\ i + (j - (i - 1)) = j + 1
            /\ ~(j <= i - 1)
        BY <1>1, <2>2
      <3>2. j \in 1 .. (i - 1) + (Len(s) - i)
        BY <1>1
      <3>3. (left \o right)[j] = right[j - (i - 1)]
        BY <1>2, <1>3, <1>4, <3>1, <3>2
      <3> QED
        BY <1>3, <2>2, <3>1, <3>3
    <2> QED
      BY <2>1, <2>2
  <1>7. Len(left \o right) = Len(s) - 1
    BY <1>1, <1>2, <1>3, <1>4
  <1> QED
    BY <1>4, <1>5, <1>6, <1>7

\* The places of the jump in a list of rules; AtMostOne is what
\* PrependUnique is for.
Places(s) == {i \in DOMAIN s : s[i] = Jump}
AtMostOne(s) == \A i, j \in Places(s) : i = j

\* A rule before the others moves the jumps by one place.
LEMMA InsertFacts ==
  ASSUME NEW s \in Seq(Rules), NEW r \in Rules
  PROVE  /\ <<r>> \o s \in Seq(Rules)
         /\ r = Jump /\ Places(s) = {} => AtMostOne(<<r>> \o s)
         /\ r # Jump /\ AtMostOne(s) => AtMostOne(<<r>> \o s)
         /\ r # Jump /\ Places(s) = {} => Places(<<r>> \o s) = {}
         /\ r # Jump /\ Places(<<r>> \o s) # {} => Places(s) # {}
  <1>1. <<r>> \in Seq(Rules) /\ Len(<<r>>) = 1 /\ <<r>>[1] = r
    OBVIOUS
  <1>2. Len(s) \in Nat /\ DOMAIN s = 1 .. Len(s)
    BY LenProperties
  <1>3. /\ <<r>> \o s \in Seq(Rules)
        /\ Len(<<r>> \o s) = 1 + Len(s)
        /\ \A i \in 1 .. 1 + Len(s) : (<<r>> \o s)[i] = IF i <= 1 THEN <<r>>[i] ELSE s[i - 1]
    BY <1>1, ConcatProperties
  <1>4. DOMAIN (<<r>> \o s) = 1 .. 1 + Len(s)
    BY <1>3, LenProperties
  <1>5. \A i \in Places(<<r>> \o s) : (i = 1 /\ r = Jump) \/ (i - 1 \in Places(s) /\ i \in Nat)
    BY <1>1, <1>2, <1>3, <1>4 DEF Places
  <1> QED
    BY <1>2, <1>3, <1>5 DEF AtMostOne, Places

\* Removing a rule brings no jump.
LEMMA RemoveFacts ==
  ASSUME NEW s \in Seq(Rules), NEW i \in DOMAIN s
  PROVE  /\ RemoveAt(s, i) \in Seq(Rules)
         /\ AtMostOne(s) => AtMostOne(RemoveAt(s, i))
         /\ Places(RemoveAt(s, i)) # {} => Places(s) # {}
         /\ AtMostOne(s) /\ s[i] = Jump => Places(RemoveAt(s, i)) = {}
  <1>1. /\ RemoveAt(s, i) \in Seq(Rules)
        /\ Len(RemoveAt(s, i)) = Len(s) - 1
        /\ \A j \in 1 .. Len(s) - 1 : RemoveAt(s, i)[j] = IF j < i THEN s[j] ELSE s[j + 1]
    BY RemoveAtFacts
  <1>2. Len(s) \in Nat /\ DOMAIN s = 1 .. Len(s) /\ i \in 1 .. Len(s)
    BY LenProperties
  <1>3. DOMAIN RemoveAt(s, i) = 1 .. Len(s) - 1
    BY <1>1, LenProperties
  <1>4. \A j \in Places(RemoveAt(s, i)) :
          /\ j \in 1 .. Len(s) - 1
          /\ j < i => j \in Places(s)
          /\ ~(j < i) => j + 1 \in Places(s)
    BY <1>1, <1>2, <1>3 DEF Places
  <1>5. s[i] = Jump => i \in Places(s)
    BY DEF Places
  <1> QED
    BY <1>1, <1>2, <1>4, <1>5 DEF AtMostOne

\* Delete takes out the jump, if there is one only.
LEMMA DeleteFacts ==
  ASSUME NEW s \in Seq(Rules), AtMostOne(s), Jump \in ToSet(s)
  PROVE  /\ RemoveFirst(s, Jump) \in Seq(Rules) /\ Places(RemoveFirst(s, Jump)) = {}
         /\ \E i \in DOMAIN s : s[i] = Jump /\ RemoveFirst(s, Jump) = RemoveAt(s, i)
  <1>1. Len(s) \in Nat /\ DOMAIN s = 1 .. Len(s)
    BY LenProperties
  <1>2. PICK i \in DOMAIN s : s[i] = Jump
    BY DEF ToSet
  <1>3. {k \in 1 .. Len(s) : s[k] = Jump} = {i}
    BY <1>1, <1>2 DEF AtMostOne, Places
  <1>4. Min({i}) = i
    BY <1>1, <1>2 DEF Min
  <1>5. SelectInSeq(s, LAMBDA v : v = Jump) = i
    BY <1>3, <1>4 DEF SelectInSeq
  <1>6. RemoveFirst(s, Jump) = RemoveAt(s, i)
    BY <1>1, <1>2, <1>5 DEF RemoveFirst
  <1> QED
    BY <1>2, <1>6, RemoveFacts

-----------------------------------------------------------------------------
(* Types.  That PrependUnique finds one jump at most is needed for Delete,  *)
(* and the types for that, so both are one invariant.                       *)

OneJump == \A h \in ToSet(Hooks) : AtMostOne(rules[h])

\* Where the two kinds of process are, and between Delete and Insert there is
\* no jump.
DaemonPCs == {"idle", "newChain", "exists", "delete", "insert", "sets", "dropRange",
              "addRange", "flannel"}
CleanupPCs == {"list", "byIndex", "destroy"}
PCs == DaemonPCs \cup CleanupPCs \cup {"off", "save", "lock16", "lock14", "restore"}
Placed ==
  /\ mode = "daemon" => pc \notin CleanupPCs
  /\ mode = "cleanup" => pc \notin DaemonPCs
  /\ pc = "insert" => Places(rules[Hook]) = {}

TypeInv == TypeOK /\ OneJump /\ Placed

LEMMA HookFacts ==
  ASSUME at \in DOMAIN Hooks
  PROVE  Hook \in ToSet(Hooks) /\ (at < Len(Hooks) => at + 1 \in DOMAIN Hooks)
         /\ 1 \in DOMAIN Hooks
  <1>1. Len(Hooks) \in Nat /\ DOMAIN Hooks = 1 .. Len(Hooks)
    BY HooksAssumption, LenProperties
  <1> QED
    BY <1>1 DEF Hook, ToSet

LEMMA FirstHook == 1 \in DOMAIN Hooks
  <1>1. Len(Hooks) \in Nat \ {0} /\ DOMAIN Hooks = 1 .. Len(Hooks)
    BY HooksAssumption, LenProperties, EmptySeq
  <1> QED
    BY <1>1

LEMMA TypeInit == Init => TypeInv
  <1> SUFFICES ASSUME Init PROVE TypeInv
    OBVIOUS
  <1>1. rules \in [ToSet(Hooks) -> Seq(Rules)] /\ listed \in Seq(Rules)
    BY EmptySeq DEF Init
  <1>2. Places(<<>>) = {}
    BY DEF Places
  <1>3. at \in DOMAIN Hooks /\ failures \in 0 .. MaxFailures /\ crashes \in 0 .. MaxCrashes
    BY FirstHook, BoundsAssumption DEF Init
  <1>4. TypeOK
    BY <1>1, <1>3 DEF Init, TypeOK, Rules
  <1>5. OneJump
    BY <1>2 DEF Init, OneJump, AtMostOne
  <1> QED
    BY <1>4, <1>5 DEF Init, TypeInv, Placed, CleanupPCs, DaemonPCs

\* A step that changes one hook's rules to a list with one jump at most.
LEMMA RulesChanged ==
  ASSUME rules \in [ToSet(Hooks) -> Seq(Rules)], OneJump,
         NEW h \in ToSet(Hooks), NEW s \in Seq(Rules), AtMostOne(s),
         rules' = [rules EXCEPT ![h] = s]
  PROVE  /\ rules' \in [ToSet(Hooks) -> Seq(Rules)]
         /\ OneJump'
         /\ rules'[h] = s
         /\ \A g \in ToSet(Hooks) : g # h => rules'[g] = rules[g]
  <1>1. /\ rules' \in [ToSet(Hooks) -> Seq(Rules)]
        /\ rules'[h] = s
        /\ \A g \in ToSet(Hooks) : g # h => rules'[g] = rules[g]
    OBVIOUS
  <1>2. \A g \in ToSet(Hooks) : AtMostOne(rules'[g])
    BY <1>1 DEF OneJump
  <1> QED
    BY <1>1, <1>2 DEF OneJump

\* Steps that leave the rules alone.
LEMMA TypeProcess ==
  ASSUME TypeInv,
         \/ \E m \in {"daemon", "cleanup"} : Start(m)
         \/ \E k \in {"all", "policy", "pods"} : Sync(k)
         \/ Crash \/ Stop \/ OtherLocks \/ UNCHANGED vars
  PROVE  TypeInv'
  <1> USE FirstHook DEF TypeInv, TypeOK, OneJump, Placed, DaemonPCs, CleanupPCs, Hook,
          memory, kernel, locks, ghosts
  <1>1. CASE \E m \in {"daemon", "cleanup"} : Start(m)
    <2> PICK m \in {"daemon", "cleanup"} : Start(m)
      BY <1>1
    <2>1. listed' \in Seq(Rules) /\ Len(listed') \in Nat
      BY EmptySeq DEF Start
    <2> QED
      BY <2>1 DEF Start, Rules
  <1>2. CASE \E k \in {"all", "policy", "pods"} : Sync(k)
    BY <1>2 DEF Sync
  <1>3. CASE Crash
    BY <1>3, BoundsAssumption DEF Crash
  <1>4. CASE Stop
    BY <1>4 DEF Stop
  <1>5. CASE OtherLocks
    BY <1>5 DEF OtherLocks
  <1>6. CASE UNCHANGED vars
    BY <1>6 DEF vars
  <1> QED
    BY <1>1, <1>2, <1>3, <1>4, <1>5, <1>6

\* Rules of other programs are no jumps.
LEMMA OthersFacts ==
  ASSUME TypeInv, OtherRules
  PROVE  /\ rules' \in [ToSet(Hooks) -> Seq(Rules)] /\ OneJump'
         /\ \A h \in ToSet(Hooks) : Places(rules[h]) = {} => Places(rules'[h]) = {}
  <1>1. PICK h \in ToSet(Hooks) :
          \/ \E r \in Others \ ToSet(rules[h]) : rules' = [rules EXCEPT ![h] = <<r>> \o @]
          \/ \E i \in DOMAIN rules[h] :
               rules[h][i] \in Others /\ rules' = [rules EXCEPT ![h] = RemoveAt(@, i)]
    BY DEF OtherRules
  <1>2. /\ rules \in [ToSet(Hooks) -> Seq(Rules)] /\ OneJump
        /\ rules[h] \in Seq(Rules) /\ AtMostOne(rules[h])
    BY DEF TypeInv, TypeOK, Rules, OneJump
  <1>3. CASE \E r \in Others \ ToSet(rules[h]) : rules' = [rules EXCEPT ![h] = <<r>> \o @]
    <2> PICK r \in Others : rules' = [rules EXCEPT ![h] = <<r>> \o @]
      BY <1>3
    <2>1. r # Jump /\ r \in Rules
      BY OthersAssumption DEF Rules
    <2> DEFINE s == <<r>> \o rules[h]
    <2>2. s \in Seq(Rules) /\ AtMostOne(s) /\ (Places(rules[h]) = {} => Places(s) = {})
      BY <1>2, <2>1, InsertFacts
    <2> HIDE DEF s
    <2>3. rules' = [rules EXCEPT ![h] = s]
      BY DEF s
    <2> QED
      BY <1>2, <2>2, <2>3, RulesChanged
  <1>4. CASE \E i \in DOMAIN rules[h] :
               rules[h][i] \in Others /\ rules' = [rules EXCEPT ![h] = RemoveAt(@, i)]
    <2> PICK i \in DOMAIN rules[h] : rules' = [rules EXCEPT ![h] = RemoveAt(@, i)]
      BY <1>4
    <2> DEFINE s == RemoveAt(rules[h], i)
    <2>2. s \in Seq(Rules) /\ AtMostOne(s) /\ (Places(rules[h]) = {} => Places(s) = {})
      BY <1>2, RemoveFacts
    <2> HIDE DEF s
    <2>3. rules' = [rules EXCEPT ![h] = s]
      BY DEF s
    <2> QED
      BY <1>2, <2>2, <2>3, RulesChanged
  <1> QED
    BY <1>1, <1>3, <1>4

LEMMA TypeOthers ==
  ASSUME TypeInv, OtherRules
  PROVE  TypeInv'
  <1> USE DEF TypeInv, TypeOK
  <1>1. /\ rules' \in [ToSet(Hooks) -> Seq(Rules)] /\ OneJump'
        /\ \A h \in ToSet(Hooks) : Places(rules[h]) = {} => Places(rules'[h]) = {}
    BY OthersFacts
  <1>2. Hook \in ToSet(Hooks)
    BY HookFacts
  <1>3. UNCHANGED <<options, mode, pc, memory, chains, policing, sets, range, flannel, locks,
                    ghosts, failures>>
    BY DEF OtherRules
  <1>4. Placed'
    BY <1>1, <1>2, <1>3 DEF Placed, Hook, memory
  <1>5. TypeOK'
    BY <1>1, <1>3 DEF memory, locks, ghosts, Rules
  <1> QED
    BY <1>1, <1>4, <1>5

\* ensureEnnEntry, with the three commands of PrependUnique.
LEMMA TypeEntry ==
  ASSUME TypeInv, NewChain \/ Exists \/ DeleteJump \/ InsertJump
  PROVE  TypeInv'
  <1> USE HookFacts, BoundsAssumption
      DEF TypeInv, TypeOK, Placed, DaemonPCs, CleanupPCs, memory, kernel, locks, ghosts, Ok, Fail
  <1>1. CASE NewChain
    BY <1>1 DEF NewChain, OneJump, Hook
  <1>2. CASE Exists
    <2>1. Jump \notin ToSet(rules[Hook]) => Places(rules[Hook]) = {}
      BY DEF ToSet, Places
    <2> QED
      BY <1>2, <2>1 DEF Exists, OneJump, Hook
  <1>3. CASE DeleteJump
    <2>1. CASE /\ Jump \in ToSet(rules[Hook])
               /\ rules' = [rules EXCEPT ![Hook] = RemoveFirst(@, Jump)]
               /\ Ok("insert") /\ UNCHANGED <<chains, policing, sets, range, flannel>>
      <3> DEFINE s == RemoveFirst(rules[Hook], Jump)
      <3>1. rules \in [ToSet(Hooks) -> Seq(Rules)] /\ rules[Hook] \in Seq(Rules)
            /\ AtMostOne(rules[Hook])
        BY DEF Rules, OneJump
      <3>2. s \in Seq(Rules) /\ Places(s) = {} /\ AtMostOne(s)
        BY <2>1, <3>1, DeleteFacts DEF AtMostOne
      <3>3. rules' = [rules EXCEPT ![Hook] = s]
        BY <2>1
      <3> HIDE DEF s
      <3>4. /\ rules' \in [ToSet(Hooks) -> Seq(Rules)] /\ OneJump'
            /\ rules'[Hook] = s
        BY <3>1, <3>2, <3>3, RulesChanged
      <3>5. Hook' = Hook
        BY <1>3 DEF DeleteJump, Hook
      <3> QED
        BY <1>3, <2>1, <3>2, <3>4, <3>5 DEF DeleteJump, Rules
    <2>2. CASE Fail("idle")
      BY <1>3, <2>2 DEF DeleteJump, OneJump
    <2> QED
      BY <1>3, <2>1, <2>2 DEF DeleteJump
  <1>4. CASE InsertJump
    <2>1. CASE /\ rules' = [rules EXCEPT ![Hook] = <<Jump>> \o @]
               /\ IF at < Len(Hooks) THEN at' = at + 1 /\ Ok("exists") ELSE at' = 1 /\ Ok("sets")
               /\ UNCHANGED <<chains, policing, sets, range, flannel>>
      <3> DEFINE s == <<Jump>> \o rules[Hook]
      <3>1. rules \in [ToSet(Hooks) -> Seq(Rules)] /\ rules[Hook] \in Seq(Rules)
            /\ Places(rules[Hook]) = {}
        BY <1>4 DEF InsertJump, Rules
      <3>2. s \in Seq(Rules) /\ AtMostOne(s)
        BY <3>1, InsertFacts DEF Rules
      <3>3. rules' = [rules EXCEPT ![Hook] = s]
        BY <2>1
      <3> HIDE DEF s
      <3>4. rules' \in [ToSet(Hooks) -> Seq(Rules)] /\ OneJump'
        BY <3>1, <3>2, <3>3, RulesChanged
      <3> QED
        BY <1>4, <2>1, <3>4 DEF InsertJump, Rules
    <2>2. CASE Fail("idle") /\ UNCHANGED at
      BY <1>4, <2>2 DEF InsertJump, OneJump
    <2> QED
      BY <1>4, <2>1, <2>2 DEF InsertJump
  <1> QED
    BY <1>1, <1>2, <1>3, <1>4

\* What is left to show of a step that leaves the rules and cleanup's list alone.
LEMMA SameRules ==
  ASSUME TypeInv, UNCHANGED <<options, mode, at, listed, todo, rules>>,
         pc' \in PCs, Placed', kind' \in {"all", "policy", "pods"}, first' \in BOOLEAN,
         chains' \subseteq ToSet(Hooks), policing' \in BOOLEAN, sets' \in BOOLEAN,
         range' \in BOOLEAN, untidy' \in BOOLEAN,
         lock16' \in {"enn", "other", None}, lock14' \in {"enn", "other", None},
         failures' \in 0 .. MaxFailures, crashes' \in 0 .. MaxCrashes
  PROVE  TypeInv'
  <1>1. OneJump'
    BY DEF TypeInv, OneJump
  <1> QED
    BY <1>1 DEF TypeInv, TypeOK, PCs, DaemonPCs, CleanupPCs

\* The ensure steps for the sets, and cleanupIPSets.
LEMMA TypeSets ==
  ASSUME TypeInv, EnsureSets \/ DropRange \/ AddRange \/ EnsureFlannel \/ CleanupIPSets
  PROVE  TypeInv'
  <1> USE DEF memory, kernel, locks, ghosts, Ok, Fail,
              EnsureSets, DropRange, AddRange, EnsureFlannel, CleanupIPSets
  <1>1. UNCHANGED <<options, mode, at, listed, todo, rules, chains, policing, locks, crashes>>
    OBVIOUS
  <1>2. pc' \in PCs /\ Placed' /\ kind' \in {"all", "policy", "pods"}
    BY DEF TypeInv, TypeOK, Placed, PCs, DaemonPCs, CleanupPCs, Hook
  <1>3. sets' \in BOOLEAN /\ range' \in BOOLEAN
    BY DEF TypeInv, TypeOK
  <1>4. untidy' \in BOOLEAN
    BY DEF TypeInv, TypeOK
  <1>5. first' \in BOOLEAN
    BY DEF TypeInv, TypeOK
  <1>6. failures' \in 0 .. MaxFailures
    BY BoundsAssumption DEF TypeInv, TypeOK
  <1> QED
    BY <1>1, <1>2, <1>3, <1>4, <1>5, <1>6, SameRules DEF TypeInv, TypeOK

\* SaveInto, the locks and Restore.
LEMMA TypeRestore ==
  ASSUME TypeInv, SaveInto \/ GrabLock16 \/ GrabLock14 \/ Restore
  PROVE  TypeInv'
  <1> USE DEF memory, kernel, locks, ghosts, Ok, Fail, GiveUp, Release, After,
              SaveInto, GrabLock16, GrabLock14, Restore, Restored
  <1>1. UNCHANGED <<options, mode, at, kind, first, listed, todo, rules, sets, range, crashes>>
    OBVIOUS
  <1>2. pc' \in PCs /\ Placed'
    BY DEF TypeInv, TypeOK, Placed, PCs, DaemonPCs, CleanupPCs, Hook
  <1>3. chains' \subseteq ToSet(Hooks)
    BY DEF TypeInv, TypeOK
  <1>4. policing' \in BOOLEAN
    BY DEF TypeInv, TypeOK
  <1>5. untidy' \in BOOLEAN
    BY DEF TypeInv, TypeOK
  <1>6. lock16' \in {"enn", "other", None} /\ lock14' \in {"enn", "other", None}
    BY DEF TypeInv, TypeOK
  <1>7. failures' \in 0 .. MaxFailures
    BY BoundsAssumption DEF TypeInv, TypeOK
  <1> QED
    BY <1>1, <1>2, <1>3, <1>4, <1>5, <1>6, <1>7, SameRules DEF TypeInv, TypeOK

\* cleanupIPTables up to the restore.
LEMMA TypeCleanup ==
  ASSUME TypeInv, List \/ DeleteByIndex \/ HookDone
  PROVE  TypeInv'
  <1>1. <<>> \in Seq(Rules) /\ Len(<<>>) = 0
    BY EmptySeq
  <1>2. /\ rules \in [ToSet(Hooks) -> Seq(Rules)] /\ OneJump
        /\ Hook \in ToSet(Hooks) /\ rules[Hook] \in Seq(Rules)
    BY HookFacts DEF TypeInv, TypeOK, Rules
  <1>3. CASE List
    <2>1. Indexes(rules[Hook]) \subseteq 0 .. Len(rules[Hook])
      BY <1>2, LenProperties DEF Indexes
    <2>2. UNCHANGED <<options, mode, kind, first, kernel, locks, crashes>>
      BY <1>3 DEF List, Ok, ghosts
    <2>3. pc' \in {"byIndex", "list", "save"} /\ at' \in DOMAIN Hooks /\ mode # "daemon"
      BY <1>3, HookFacts DEF TypeInv, TypeOK, Placed, CleanupPCs, List, NextHook, Ok
    <2>4. listed' \in Seq(Rules) /\ todo' \subseteq 0 .. Len(listed')
      BY <1>1, <1>2, <1>3, <2>1 DEF List, NextHook
    <2>5. untidy' \in BOOLEAN
      BY <1>3 DEF TypeInv, TypeOK, List, Ok, ghosts
    <2>6. failures' \in 0 .. MaxFailures
      BY <1>3, BoundsAssumption DEF TypeInv, TypeOK, List, Ok
    <2>7. OneJump'
      BY <1>2, <2>2 DEF OneJump, kernel
    <2>8. Placed'
      BY <2>2, <2>3 DEF TypeInv, TypeOK, Placed, DaemonPCs
    <2>9. TypeOK'
      BY <2>2, <2>3, <2>4, <2>5, <2>6 DEF TypeInv, TypeOK, Rules, kernel, locks
    <2> QED
      BY <2>7, <2>8, <2>9 DEF TypeInv
  <1>4. CASE DeleteByIndex
    <2>1. PICK i \in todo :
            /\ todo' = todo \ {i}
            /\ \/ /\ rules' = [rules EXCEPT ![Hook] = IF i \in DOMAIN @ THEN RemoveAt(@, i) ELSE @]
                  /\ untidy' = (untidy \/ listed # rules[Hook])
                  /\ UNCHANGED failures
               \/ /\ failures < MaxFailures /\ failures' = failures + 1
                  /\ untidy' = TRUE /\ UNCHANGED rules
      BY <1>4 DEF DeleteByIndex
    <2>2. UNCHANGED <<options, mode, pc, at, kind, first, listed, chains, policing, sets, range,
                      flannel, locks, crashes>> /\ pc = "byIndex"
      BY <1>4 DEF DeleteByIndex
    <2> DEFINE s == IF i \in DOMAIN rules[Hook] THEN RemoveAt(rules[Hook], i) ELSE rules[Hook]
    <2>3. s \in Seq(Rules) /\ AtMostOne(s)
      BY <1>2, RemoveFacts DEF OneJump
    <2>4. rules' = [rules EXCEPT ![Hook] = s] \/ UNCHANGED rules
      BY <2>1
    <2> HIDE DEF s
    <2>5. rules' \in [ToSet(Hooks) -> Seq(Rules)] /\ OneJump'
      <3>1. CASE rules' = [rules EXCEPT ![Hook] = s]
        BY <1>2, <2>3, <3>1, RulesChanged
      <3>2. CASE UNCHANGED rules
        BY <1>2, <3>2 DEF OneJump
      <3> QED
        BY <2>4, <3>1, <3>2
    <2>6. untidy' \in BOOLEAN
      BY <2>1 DEF TypeInv, TypeOK
    <2>7. failures' \in 0 .. MaxFailures
      BY <2>1, BoundsAssumption DEF TypeInv, TypeOK
    <2>8. Placed'
      BY <2>2 DEF TypeInv, Placed
    <2>9. todo' \subseteq 0 .. Len(listed')
      BY <2>1, <2>2 DEF TypeInv, TypeOK
    <2>10. TypeOK'
      BY <2>2, <2>5, <2>6, <2>7, <2>9 DEF TypeInv, TypeOK, Rules, locks
    <2> QED
      BY <2>5, <2>8, <2>10 DEF TypeInv
  <1>5. CASE HookDone
    <2>1. UNCHANGED <<options, mode, kind, first, kernel, locks, ghosts, failures>>
          /\ mode # "daemon" /\ pc' \in {"list", "save"} /\ at' \in DOMAIN Hooks
          /\ listed' = <<>> /\ todo' = {}
      BY <1>5, HookFacts DEF TypeInv, TypeOK, Placed, CleanupPCs, HookDone, NextHook
    <2>2. OneJump' /\ Placed'
      BY <2>1 DEF TypeInv, TypeOK, OneJump, Placed, DaemonPCs, kernel
    <2>3. TypeOK'
      BY <1>1, <2>1 DEF TypeInv, TypeOK, Rules, kernel, locks, ghosts
    <2> QED
      BY <2>2, <2>3 DEF TypeInv
  <1> QED
    BY <1>3, <1>4, <1>5

LEMMA TypeNext == TypeInv /\ [Next]_vars => TypeInv'
  BY TypeProcess, TypeOthers, TypeEntry, TypeSets, TypeRestore, TypeCleanup
  DEF Next, Step, Other

\* Every variable keeps its type: the hook that is visited exists, cleanup's
\* indexes are those of its list, and rules stay sequences under every deletion.
THEOREM TypeCorrect == Spec => []TypeOK
  <1>1. TypeInv => TypeOK
    BY DEF TypeInv
  <1> QED
    BY <1>1, TypeInit, TypeNext, PTL DEF Spec

-----------------------------------------------------------------------------
(* The locks.  The second is asked for only when the first is held, which   *)
(* LocksHeld alone does not say.                                            *)

LocksInv == LocksHeld /\ (pc = "lock14" => lock16 = "enn")

\* Only GrabLock16 and GrabLock14 take a lock, and what they go on to gives it back.
LEMMA LocksNext ==
  ASSUME TypeInv, LocksInv, [Next]_vars
  PROVE  LocksInv'
  <1> USE NoneAssumption DEF LocksInv, LocksHeld, memory, locks, ghosts
  <1>0. /\ mode \in {"daemon", "cleanup"} /\ lock16 \in {"enn", "other", None}
        /\ lock14 \in {"enn", "other", None}
    BY DEF TypeInv, TypeOK
  <1>1. CASE \/ \E m \in {"daemon", "cleanup"} : Start(m)
             \/ \E k \in {"all", "policy", "pods"} : Sync(k)
             \/ Crash \/ Stop \/ Other \/ UNCHANGED vars
    BY <1>0, <1>1 DEF Start, Sync, Crash, Stop, Other, OtherRules, OtherLocks, vars
  <1>2. CASE NewChain \/ Exists \/ DeleteJump \/ InsertJump
    BY <1>2 DEF NewChain, Exists, DeleteJump, InsertJump, Ok, Fail
  <1>3. CASE EnsureSets \/ DropRange \/ AddRange \/ EnsureFlannel \/ CleanupIPSets
    <2>1. kind \in {"all", "policy", "pods"}
      BY DEF TypeInv, TypeOK
    <2> QED
      BY <1>3, <2>1 DEF EnsureSets, DropRange, AddRange, EnsureFlannel, CleanupIPSets, Ok, Fail
  <1>4. CASE List \/ DeleteByIndex \/ HookDone
    BY <1>4 DEF List, DeleteByIndex, HookDone, NextHook, Ok
  <1>5. CASE SaveInto \/ GrabLock16 \/ GrabLock14 \/ Restore
    <2>1. CASE SaveInto
      BY <1>0, <2>1 DEF SaveInto, Ok, Fail
    <2>2. CASE GrabLock16
      BY <1>0, <2>2 DEF GrabLock16, GiveUp, Release, After, Ok
    <2>3. CASE GrabLock14
      BY <1>0, <2>3 DEF GrabLock14, GiveUp, Release, After, Ok
    <2>4. CASE Restore
      <3>1. lock16' # "enn" /\ lock14' # "enn" /\ pc' \in {"idle", "destroy"}
        BY <1>0, <2>4 DEF Restore, Release, After, Ok, Fail
      <3> QED
        BY <3>1
    <2> QED
      BY <1>5, <2>1, <2>2, <2>3, <2>4
  <1> QED
    BY <1>1, <1>2, <1>3, <1>4, <1>5 DEF Next, Step

\* grabIptablesLocks: iptables-restore runs with both locks held, a lock is kept no
\* longer, and the first is given back when the second is not got.
THEOREM LocksHeldHolds == Spec => []LocksHeld
  <1>1. Init => LocksInv
    BY NoneAssumption DEF Init, LocksInv, LocksHeld
  <1>2. TypeInv /\ LocksInv /\ [Next]_vars => LocksInv'
    BY LocksNext
  <1>3. LocksInv => LocksHeld
    BY DEF LocksInv
  <1> QED
    BY <1>1, <1>2, <1>3, TypeInit, TypeNext, PTL DEF Spec

-----------------------------------------------------------------------------
(* The tables.  What is written into the kernel at the end of a            *)
(* synchronization rests on what its earlier steps have left behind them,   *)
(* which their places in the program stand for.                             *)

\* A jump leads to a chain that exists.
Linked == \A h \in ToSet(Hooks) : Places(rules[h]) # {} => h \in chains
\* What the policies' chains refer to exists.
Complete == policing => sets /\ chains = ToSet(Hooks)
\* The daemon after ensureFlannelNetSet and ensureIPRangeSet.
SetsPCs == {"dropRange", "addRange", "flannel", "save", "lock16", "lock14", "restore"}
\* What the daemon has seen to before it gets to where it is.
Known ==
  /\ pc = "newChain" => \A i \in 1 .. at - 1 : Hooks[i] \in chains
  /\ mode = "daemon" /\ pc \in {"exists", "delete", "insert", "sets"} \cup SetsPCs =>
       chains = ToSet(Hooks)
  /\ mode = "daemon" /\ pc \in SetsPCs => sets /\ ~first
\* The set of the IP range has its entry where the policies' chains are, and in a daemon
\* that has synchronized, except between DropRange and AddRange.
Ranged ==
  failures = 0 /\ options.iPRange = "canonical" =>
    /\ policing => range
    /\ mode = "daemon" /\ pc \notin {"off", "dropRange", "addRange"} /\ ~first => range
TablesInv == Linked /\ Complete /\ Known /\ Ranged

\* A step that brings a jump only where the chain is, and takes no chain away.
LEMMA LinkedKept ==
  ASSUME Linked, chains \subseteq chains',
         \A h \in ToSet(Hooks) : Places(rules'[h]) # {} => Places(rules[h]) # {} \/ h \in chains
  PROVE  Linked'
  BY DEF Linked

\* Steps that change nothing in the kernel's tables.
LEMMA KernelKept ==
  ASSUME TypeInv, TablesInv, UNCHANGED kernel,
         \/ \E m \in {"daemon", "cleanup"} : Start(m)
         \/ \E k \in {"all", "policy", "pods"} : Sync(k)
         \/ Crash \/ Stop \/ OtherLocks \/ UNCHANGED vars
         \/ Exists \/ SaveInto \/ GrabLock16 \/ GrabLock14 \/ List \/ HookDone
  PROVE  TablesInv'
  <1> USE DEF TablesInv, kernel, memory, ghosts
  <1>0. mode \in {"daemon", "cleanup"} /\ failures \in Nat /\ (mode = "daemon" => pc \notin CleanupPCs)
    BY BoundsAssumption DEF TypeInv, TypeOK, Placed
  <1>1. Linked' /\ Complete'
    BY DEF Linked, Complete
  <1>2. Known' /\ Ranged'
    <2> USE DEF Known, Ranged, SetsPCs, CleanupPCs
    <2>1. CASE \E m \in {"daemon", "cleanup"} : Start(m)
      BY <2>1 DEF Start
    <2>2. CASE \E k \in {"all", "policy", "pods"} : Sync(k)
      BY <2>2 DEF Sync
    <2>3. CASE Crash
      BY <2>3 DEF Crash
    <2>4. CASE Stop \/ OtherLocks \/ UNCHANGED vars
      BY <2>4 DEF Stop, OtherLocks, vars
    <2>5. CASE Exists
      BY <1>0, <2>5 DEF Exists, Ok, Fail
    <2>6. CASE SaveInto
      BY <1>0, <2>6 DEF SaveInto, Ok, Fail
    <2>7. CASE GrabLock16 \/ GrabLock14
      BY <1>0, <2>7 DEF GrabLock16, GrabLock14, GiveUp, After, Ok
    <2>8. CASE List \/ HookDone
      BY <1>0, <2>8 DEF List, HookDone, NextHook, Ok
    <2> QED
      BY <2>1, <2>2, <2>3, <2>4, <2>5, <2>6, <2>7, <2>8
  <1> QED
    BY <1>1, <1>2
LEMMA LastHook ==
  ASSUME at \in DOMAIN Hooks
  PROVE  /\ at \in 1 .. Len(Hooks) /\ DOMAIN Hooks = 1 .. Len(Hooks) /\ Len(Hooks) \in Nat
         /\ at < Len(Hooks) \/ at = Len(Hooks)
  <1>1. at \in 1 .. Len(Hooks) /\ Len(Hooks) \in Nat
    BY HooksAssumption, LenProperties
  <1> QED
    BY <1>1, HooksAssumption, LenProperties

\* ensureEnnEntry: after the last NewChain all the chains are there.
LEMMA TablesEntry ==
  ASSUME TypeInv, TablesInv, NewChain \/ DeleteJump \/ InsertJump
  PROVE  TablesInv'
  <1> USE DEF TablesInv, Ok, Fail, ghosts
  <1>1. /\ rules \in [ToSet(Hooks) -> Seq(Rules)] /\ Hook \in ToSet(Hooks)
        /\ rules[Hook] \in Seq(Rules) /\ AtMostOne(rules[Hook])
        /\ chains \subseteq ToSet(Hooks) /\ failures \in Nat
        /\ mode \in {"daemon", "cleanup"} /\ (mode = "cleanup" => pc \notin DaemonPCs)
    BY HookFacts, BoundsAssumption DEF TypeInv, TypeOK, Placed, OneJump, Rules
  <1>2. at \in 1 .. Len(Hooks) /\ DOMAIN Hooks = 1 .. Len(Hooks) /\ Len(Hooks) \in Nat
    BY LastHook DEF TypeInv, TypeOK
  <1>3. CASE NewChain
    <2>1. UNCHANGED <<rules, policing, sets, range, options, mode, first>>
      BY <1>3 DEF NewChain, kernel
    <2>2. chains \subseteq chains' /\ chains' \subseteq ToSet(Hooks)
      BY <1>1, <1>3 DEF NewChain, kernel
    <2>3. Linked'
      BY <2>1, <2>2, LinkedKept
    <2>4. Complete'
      BY <2>1, <2>2 DEF Complete
    <2>5. mode = "daemon"
      BY <1>1, <1>3 DEF NewChain, DaemonPCs
    <2>6. CASE /\ chains' = chains \cup {Hook}
               /\ IF at < Len(Hooks) THEN at' = at + 1 /\ Ok("newChain") ELSE at' = 1 /\ Ok("exists")
      <3>1. \A i \in 1 .. at : Hooks[i] \in chains'
        BY <1>2, <1>3, <2>6 DEF Known, NewChain, Hook
      <3>2. at = Len(Hooks) => chains' = ToSet(Hooks)
        BY <1>2, <2>2, <3>1 DEF ToSet
      <3>3. Known'
        <4>1. CASE at < Len(Hooks)
          <5>1. pc' = "newChain" /\ at' = at + 1
            BY <2>6, <4>1
          <5>2. \A i \in 1 .. at' - 1 : Hooks[i] \in chains'
            BY <1>2, <3>1, <5>1
          <5> QED
            BY <5>1, <5>2 DEF Known, SetsPCs
        <4>2. CASE at = Len(Hooks)
          <5>1. pc' = "exists"
            BY <1>2, <2>6, <4>2
          <5> QED
            BY <3>2, <4>2, <5>1 DEF Known, SetsPCs
        <4> QED
          BY LastHook, <4>1, <4>2 DEF TypeInv, TypeOK
      <3>4. Ranged'
        <4>1. pc = "newChain" /\ UNCHANGED failures
          BY <1>3, <2>6 DEF NewChain
        <4> QED
          BY <2>1, <2>5, <4>1 DEF Ranged
      <3> QED
        BY <2>3, <2>4, <3>3, <3>4
    <2>7. CASE Fail("idle") /\ UNCHANGED at
      <3>1. Known' /\ Ranged'
        BY <1>1, <2>7 DEF Known, Ranged, SetsPCs
      <3> QED
        BY <2>3, <2>4, <3>1
    <2> QED
      BY <1>3, <2>6, <2>7 DEF NewChain
  <1>4. CASE DeleteJump \/ InsertJump
    <2>1. UNCHANGED <<chains, policing, sets, range, options, mode, first>>
      BY <1>4 DEF DeleteJump, InsertJump, kernel, memory
    <2>2. mode = "daemon" /\ pc \in {"delete", "insert"}
      BY <1>1, <1>4 DEF DeleteJump, InsertJump, DaemonPCs
    <2>3. chains = ToSet(Hooks)
      BY <2>2 DEF Known
    <2>4. Linked' /\ Complete'
      BY <2>1, <2>3 DEF Linked, Complete
    <2>5. /\ pc' \in {"idle", "exists", "insert", "sets"}
          /\ failures' = failures \/ (failures' = failures + 1)
      BY <1>4 DEF DeleteJump, InsertJump
    <2>6. Known' /\ Ranged'
      BY <1>1, <2>1, <2>2, <2>3, <2>5 DEF Known, Ranged, SetsPCs
    <2> QED
      BY <2>4, <2>6
  <1> QED
    BY <1>3, <1>4

\* The ensure steps for the sets, and cleanupIPSets, which spares sets in use.
LEMMA TablesSets ==
  ASSUME TypeInv, TablesInv, EnsureSets \/ DropRange \/ AddRange \/ EnsureFlannel \/ CleanupIPSets
  PROVE  TablesInv'
  <1> USE DEF TablesInv, Ok, Fail, ghosts, kernel, memory
  <1>1. /\ mode \in {"daemon", "cleanup"} /\ failures \in Nat /\ first \in BOOLEAN
        /\ (mode = "cleanup" => pc \notin DaemonPCs) /\ (mode = "daemon" => pc \notin CleanupPCs)
        /\ kind \in {"all", "policy", "pods"}
    BY BoundsAssumption DEF TypeInv, TypeOK, Placed
  <1>2. UNCHANGED <<rules, chains, policing, options, mode, at>>
    BY DEF EnsureSets, DropRange, AddRange, EnsureFlannel, CleanupIPSets
  <1>3. Linked'
    BY <1>2 DEF Linked
  <1>4. Complete'
    BY <1>2 DEF Complete, EnsureSets, DropRange, AddRange, EnsureFlannel, CleanupIPSets
  <1>5. Known'
    <2>1. CASE EnsureSets
      BY <1>1, <2>1 DEF Known, SetsPCs, EnsureSets, DaemonPCs
    <2>2. CASE DropRange \/ AddRange \/ EnsureFlannel
      BY <1>1, <2>2 DEF Known, SetsPCs, DaemonPCs, DropRange, AddRange, EnsureFlannel
    <2>3. CASE CleanupIPSets
      BY <1>1, <2>3 DEF Known, SetsPCs, CleanupPCs, CleanupIPSets
    <2> QED
      BY <2>1, <2>2, <2>3
  <1>6. Ranged'
    <2>1. CASE EnsureSets
      <3>1. mode = "daemon" /\ pc = "sets" /\ UNCHANGED range
        BY <1>1, <2>1 DEF EnsureSets, DaemonPCs
      <3>2. (first /\ pc' = "dropRange" /\ failures' = failures) \/ ~first \/ failures' = failures + 1
        BY <1>1, <2>1 DEF EnsureSets
      <3>3. failures' = failures \/ failures' = failures + 1
        BY <2>1 DEF EnsureSets
      <3> QED
        BY <1>1, <1>2, <3>1, <3>2, <3>3 DEF Ranged
    <2>2. CASE DropRange
      <3>1. failures' = 0 => failures = 0 /\ pc' = "addRange" /\ range' = (range /\ options.iPRange = "canonical")
        BY <1>1, <2>2 DEF DropRange
      <3> QED
        BY <1>2, <3>1 DEF Ranged
    <2>4. CASE AddRange
      <3>1. \/ failures' = failures /\ range' = (range \/ options.iPRange # "default")
            \/ failures' = failures + 1
        BY <2>4 DEF AddRange
      <3>2. CASE failures' = failures /\ range' = (range \/ options.iPRange # "default")
        <4>1. options.iPRange = "canonical" => range' = TRUE
          BY <3>2
        <4> QED
          BY <1>2, <4>1 DEF Ranged
      <3>3. CASE failures' = failures + 1
        BY <1>1, <3>3 DEF Ranged
      <3> QED
        BY <3>1, <3>2, <3>3
    <2>5. CASE EnsureFlannel
      <3>1. mode = "daemon" /\ pc = "flannel" /\ UNCHANGED <<range, first>>
            /\ (failures' = failures \/ failures' = failures + 1)
        BY <1>1, <2>5 DEF EnsureFlannel, DaemonPCs
      <3> QED
        BY <1>1, <1>2, <3>1 DEF Ranged
    <2>3. CASE CleanupIPSets
      <3>1. failures' = 0 => failures = 0 /\ range' = (range /\ policing)
        BY <1>1, <2>3 DEF CleanupIPSets
      <3>2. mode # "daemon"
        BY <1>1, <2>3 DEF CleanupIPSets, CleanupPCs
      <3> QED
        BY <1>2, <3>1, <3>2 DEF Ranged
    <2> QED
      BY <2>1, <2>2, <2>3, <2>4, <2>5
  <1> QED
    BY <1>3, <1>4, <1>5, <1>6

\* iptables-restore: the daemon's finds the sets, cleanup's finds no jump.
LEMMA TablesRestore ==
  ASSUME TypeInv, TablesInv, Restore
  PROVE  TablesInv'
  <1> USE DEF TablesInv, Ok, Fail, ghosts, kernel, memory
  <1>1. /\ mode \in {"daemon", "cleanup"} /\ failures \in Nat
        /\ rules \in [ToSet(Hooks) -> Seq(Rules)]
    BY BoundsAssumption DEF TypeInv, TypeOK, Rules
  <1>2. UNCHANGED <<rules, sets, range, options, mode, at, first>>
        /\ pc = "restore" /\ pc' = After
    BY DEF Restore
  <1>3. CASE Restored /\ Ok(After) /\ mode = "daemon"
    <2>1. chains' = ToSet(Hooks) /\ policing' /\ pc' = "idle" /\ UNCHANGED failures
      BY <1>3 DEF Restored, After
    <2>2. sets /\ ~first
      BY <1>2, <1>3 DEF Known, SetsPCs
    <2>3. Linked' /\ Complete'
      BY <1>2, <2>1, <2>2 DEF Linked, Complete
    <2>4. Known' /\ Ranged'
      BY <1>2, <1>3, <2>1, <2>2 DEF Known, Ranged, SetsPCs
    <2> QED
      BY <2>3, <2>4
  <1>4. CASE Restored /\ Ok(After) /\ mode # "daemon"
    <2>1. chains' = {} /\ ~policing' /\ pc' = "destroy"
          /\ \A h \in ToSet(Hooks) : Jump \notin ToSet(rules[h])
      BY <1>4 DEF Restored, After
    <2>2. \A h \in ToSet(Hooks) : Places(rules[h]) = {}
      BY <2>1 DEF ToSet, Places
    <2>3. Linked' /\ Complete'
      BY <1>2, <2>1, <2>2 DEF Linked, Complete
    <2>4. Known' /\ Ranged'
      BY <1>2, <1>4, <2>1 DEF Known, Ranged, SetsPCs
    <2> QED
      BY <2>3, <2>4
  <1>5. CASE UNCHANGED kernel
    <2>1. failures' = failures \/ failures' = failures + 1
      BY DEF Restore
    <2>2. Linked' /\ Complete'
      BY <1>5 DEF Linked, Complete
    <2>3. Known' /\ Ranged'
      BY <1>1, <1>2, <1>5, <2>1 DEF Known, Ranged, SetsPCs, After
    <2> QED
      BY <2>2, <2>3
  <1> QED
    BY <1>3, <1>4, <1>5 DEF Restore

\* Rules that come and go without enn-policy's doing, and deletions by index.
LEMMA TablesRules ==
  ASSUME TypeInv, TablesInv, OtherRules \/ DeleteByIndex
  PROVE  TablesInv'
  <1> USE DEF TablesInv, ghosts, memory
  <1>1. \A h \in ToSet(Hooks) : Places(rules'[h]) # {} => Places(rules[h]) # {}
    <2>1. CASE OtherRules
      BY <2>1, OthersFacts
    <2>2. CASE DeleteByIndex
      <3>1. /\ rules \in [ToSet(Hooks) -> Seq(Rules)] /\ Hook \in ToSet(Hooks)
            /\ rules[Hook] \in Seq(Rules)
        BY HookFacts DEF TypeInv, TypeOK, Rules
      <3>2. CASE UNCHANGED rules
        BY <3>2
      <3>3. CASE \E i \in todo : rules' = [rules EXCEPT ![Hook] =
                                   IF i \in DOMAIN @ THEN RemoveAt(@, i) ELSE @]
        <4> PICK i \in todo : rules' = [rules EXCEPT ![Hook] =
                                IF i \in DOMAIN @ THEN RemoveAt(@, i) ELSE @]
          BY <3>3
        <4> DEFINE s == IF i \in DOMAIN rules[Hook] THEN RemoveAt(rules[Hook], i) ELSE rules[Hook]
        <4>1. Places(s) # {} => Places(rules[Hook]) # {}
          BY <3>1, RemoveFacts
        <4>2. rules' = [rules EXCEPT ![Hook] = s]
          OBVIOUS
        <4> HIDE DEF s
        <4> QED
          BY <3>1, <4>1, <4>2
      <3> QED
        BY <2>2, <3>2, <3>3 DEF DeleteByIndex
    <2> QED
      BY <2>1, <2>2
  <1>2. /\ UNCHANGED <<options, mode, pc, at, first, chains, policing, sets, range>>
        /\ failures' = failures \/ failures' = failures + 1
    BY DEF OtherRules, DeleteByIndex
  <1>3. Linked'
    BY <1>1, <1>2, LinkedKept
  <1>4. failures \in Nat
    BY BoundsAssumption DEF TypeInv, TypeOK
  <1>5. Complete' /\ Known' /\ Ranged'
    BY <1>2, <1>4 DEF Complete, Known, Ranged
  <1> QED
    BY <1>3, <1>5

LEMMA TablesNext == TypeInv /\ TablesInv /\ [Next]_vars => TablesInv'
  <1> SUFFICES ASSUME TypeInv, TablesInv, [Next]_vars PROVE TablesInv'
    OBVIOUS
  <1>1. CASE \/ \E m \in {"daemon", "cleanup"} : Start(m)
             \/ \E k \in {"all", "policy", "pods"} : Sync(k)
             \/ Crash \/ Stop \/ OtherLocks \/ UNCHANGED vars
             \/ Exists \/ SaveInto \/ GrabLock16 \/ GrabLock14 \/ List \/ HookDone
    <2>1. UNCHANGED kernel
      BY <1>1 DEF Start, Sync, Crash, Stop, OtherLocks, vars, Exists, SaveInto, GrabLock16,
                  GrabLock14, List, HookDone, Fail
    <2> QED
      BY <1>1, <2>1, KernelKept
  <1> QED
    BY <1>1, TablesEntry, TablesSets, TablesRestore, TablesRules DEF Next, Step, Other

LEMMA TablesInit == Init => TablesInv
  <1>1. Places(<<>>) = {}
    BY DEF Places
  <1> QED
    BY <1>1 DEF Init, TablesInv, Linked, Complete, Known, Ranged, SetsPCs

\* Each hook has at most one jump, none to a chain that does not exist, and the sets
\* that rules match on exist, whatever fails or crashes; without a failure the range's has its
\* entry, if --ip-range is not 0.0.0.0/0 and is written as the kernel writes it.
THEOREM TablesConsistentHolds == Spec => []TablesConsistent
  <1>1. Init => TablesInv
    BY TablesInit
  <1>2. TypeInv /\ TablesInv => TablesConsistent
    BY DEF TypeInv, OneJump, AtMostOne, Places, TablesInv, Linked, Complete, Ranged,
           TablesConsistent, Jumps
  <1> QED
    BY <1>1, <1>2, TypeInit, TypeNext, TablesNext, PTL DEF Spec

-----------------------------------------------------------------------------
(* The set of gateways.  A process that starts finds what another one has   *)
(* left; from its first SYNCALL on, and except between the steps that lead  *)
(* to ensureFlannelNetSetMember, it has what the options say.               *)

\* What ensureFlannelNetSetMember fills the set with.
Wanted ==
  IF ~options.acceptFlannel \/ Refused(options.net) THEN {} ELSE FlanelIPMap[options.net]
FlannelInv ==
  /\ flannel \in {{}, Wanted}
  /\ mode = "daemon" /\ failures = 0 /\ ~first
       /\ pc \notin {"off", "dropRange", "addRange", "flannel"} => flannel = Wanted

LEMMA FlannelNext ==
  ASSUME TypeInv, FlannelInv, [Next]_vars
  PROVE  FlannelInv'
  <1> USE DEF FlannelInv, Ok, Fail, ghosts, memory, kernel
  <1>1. /\ mode \in {"daemon", "cleanup"} /\ failures \in Nat /\ kind \in {"all", "policy", "pods"}
        /\ (mode = "cleanup" => pc \notin DaemonPCs) /\ (mode = "daemon" => pc \notin CleanupPCs)
        /\ first \in BOOLEAN
    BY BoundsAssumption DEF TypeInv, TypeOK, Placed
  <1>2. UNCHANGED options
    BY DEF Next, Step, Other, Start, Sync, Crash, Stop, OtherRules, OtherLocks, vars, NewChain,
           Exists, DeleteJump, InsertJump, EnsureSets, DropRange, AddRange, EnsureFlannel, List,
           DeleteByIndex, HookDone, CleanupIPSets, SaveInto, GrabLock16, GrabLock14, Restore
  <1>3. Wanted' = Wanted
    BY <1>2 DEF Wanted, FlanelIPMap
  <1> HIDE DEF Wanted
  <1>4. CASE (\E m \in {"daemon", "cleanup"} : Start(m)) \/ (\E k \in {"all", "policy", "pods"} : Sync(k))
    BY <1>3, <1>4 DEF Start, Sync
  <1>5. CASE Crash \/ Stop \/ Other \/ UNCHANGED vars
    BY <1>3, <1>5 DEF Crash, Stop, Other, OtherRules, OtherLocks, vars
  <1>6. CASE NewChain \/ Exists \/ DeleteJump \/ InsertJump
    <2>1. /\ UNCHANGED <<mode, first, flannel>> /\ failures' \in {failures, failures + 1}
          /\ pc \in {"newChain", "exists", "delete", "insert"}
      BY <1>6 DEF NewChain, Exists, DeleteJump, InsertJump
    <2> QED
      BY <1>1, <1>3, <2>1
  <1>7. CASE EnsureSets
    <2>1. /\ UNCHANGED <<mode, flannel>> /\ pc = "sets"
          /\ \/ failures' = failures + 1
             \/ failures' = failures /\ (pc' = "dropRange" \/ ~first)
      BY <1>1, <1>7 DEF EnsureSets
    <2> QED
      BY <1>1, <1>3, <2>1
  <1>8. CASE DropRange \/ AddRange
    <2>1. UNCHANGED <<mode, first, flannel>> /\ pc' \in {"addRange", "flannel"}
      BY <1>8 DEF DropRange, AddRange
    <2> QED
      BY <1>3, <2>1
  <1>9. CASE EnsureFlannel
    <2>1. UNCHANGED <<mode, first>> /\ pc' = "save"
      BY <1>9 DEF EnsureFlannel
    <2>2. CASE failures' = failures + 1 /\ UNCHANGED flannel
      BY <1>1, <1>3, <2>1, <2>2
    <2>3. CASE flannel' = IF ~options.acceptFlannel \/ Refused(options.net) THEN flannel
                          ELSE FlanelIPMap[options.net]
      <3>1. flannel' = Wanted
        BY <2>3 DEF Wanted
      <3> QED
        BY <1>3, <3>1
    <2> QED
      BY <1>9, <2>2, <2>3 DEF EnsureFlannel
  <1>10. CASE List \/ DeleteByIndex \/ HookDone \/ CleanupIPSets
    <2>1. UNCHANGED mode /\ mode = "cleanup" /\ flannel' \in {flannel, {}}
      BY <1>1, <1>10 DEF List, DeleteByIndex, HookDone, CleanupIPSets, CleanupPCs
    <2> QED
      BY <1>3, <2>1
  <1>11. CASE SaveInto \/ GrabLock16 \/ GrabLock14 \/ Restore
    <2>1. /\ UNCHANGED <<mode, first, flannel>> /\ failures' \in {failures, failures + 1}
          /\ pc \in {"save", "lock16", "lock14", "restore"}
      BY <1>11 DEF SaveInto, GrabLock16, GrabLock14, GiveUp, Restore, Restored
    <2> QED
      BY <1>1, <1>3, <2>1
  <1> QED
    BY <1>4, <1>5, <1>6, <1>7, <1>8, <1>9, <1>10, <1>11 DEF Next, Step

\* What the set is filled with are the gateways of the options' network.
LEMMA WantedExact ==
  ASSUME TypeInv
  PROVE  Wanted = IF ~options.acceptFlannel \/ Refused(options.net) THEN {} ELSE Gateways(options.net)
  <1>1. options \in OptionSets /\ options \in Options
    BY HooksAssumption DEF TypeInv, TypeOK
  <1>2. options.net.ip \in IPs /\ options.net.mask \in 0 .. 32 /\ options.net.len \in Nat
    BY <1>1 DEF Options
  <1>3. FlanelIPMap[options.net] = FlanelIPs(options.net)
    BY <1>1 DEF FlanelIPMap
  <1> QED
    BY <1>2, <1>3, FlanelIPsExact DEF Wanted

\* ensureFlannelNetSetMember: whenever a daemon whose commands did not fail goes on to
\* write its rules, the set has the first two addresses of every network of a node,
\* for every network, mask and length.
THEOREM FlannelExactHolds == Spec => []FlannelExact
  <1>1. Init => FlannelInv
    BY DEF Init, FlannelInv
  <1>2. TypeInv /\ TablesInv /\ FlannelInv => FlannelExact
    <2>1. TypeInv /\ TablesInv /\ FlannelInv /\ pc = "save" /\ mode = "daemon" /\ failures = 0 =>
            flannel = Wanted
      BY DEF TablesInv, Known, SetsPCs, FlannelInv
    <2> QED
      BY <2>1, WantedExact DEF FlannelExact
  <1>3. TypeInv /\ FlannelInv /\ [Next]_vars => FlannelInv'
    BY FlannelNext
  <1> QED
    BY <1>1, <1>2, <1>3, TablesInit, TypeInit, TypeNext, TablesNext, PTL DEF Spec

-----------------------------------------------------------------------------
(* Cleanup.  As long as nothing fails and no list goes out of date, the     *)
(* hooks before the one that it is at have no jump; a list with one jump at *)
(* most is why deleting by the indexes of a list taken before is right.     *)

Swept(n) == \A i \in DOMAIN Hooks : i < n => Places(rules[Hooks[i]]) = {}
AfterHooks == {"save", "lock16", "lock14", "restore", "destroy", "off"}
\* What is left to delete of the hook that cleanup is at.
Listed ==
  IF todo = {} THEN Places(rules[Hook]) = {}
  ELSE AtMostOne(listed) /\ todo = Places(listed)
Tidy ==
  /\ pc \in {"list", "byIndex"} => Swept(at)
  /\ pc = "byIndex" => Listed
  /\ pc \in AfterHooks => Swept(Len(Hooks) + 1)
  /\ pc \in {"destroy", "off"} => chains = {} /\ ~policing
  /\ pc = "off" => ~sets
CleanupInv == mode = "cleanup" /\ ~untidy => Tidy

LEMMA SweptAll ==
  Swept(Len(Hooks) + 1) <=> \A h \in ToSet(Hooks) : Places(rules[h]) = {}
  <1>1. Len(Hooks) \in Nat /\ DOMAIN Hooks = 1 .. Len(Hooks)
    BY HooksAssumption, LenProperties
  <1>2. \A i \in DOMAIN Hooks : i < Len(Hooks) + 1
    BY <1>1
  <1>3. Swept(Len(Hooks) + 1) <=> \A i \in DOMAIN Hooks : Places(rules[Hooks[i]]) = {}
    BY <1>2 DEF Swept
  <1> QED
    BY <1>3, Zenon DEF ToSet

\* The next hook, or the end of the hooks, when the one at hand has no jump.
LEMMA SweptNext ==
  ASSUME at \in DOMAIN Hooks, Swept(at), Places(rules[Hook]) = {}, NextHook, UNCHANGED rules
  PROVE  /\ pc' = "list" => Swept(at)'
         /\ pc' \in {"list", "save"}
         /\ pc' = "save" => Swept(Len(Hooks) + 1)'
  <1>1. /\ at \in 1 .. Len(Hooks) /\ DOMAIN Hooks = 1 .. Len(Hooks) /\ Len(Hooks) \in Nat
        /\ at < Len(Hooks) \/ at = Len(Hooks)
    BY LastHook
  <1>2. \A i \in DOMAIN Hooks : i < at + 1 => Places(rules[Hooks[i]]) = {}
    <2> SUFFICES ASSUME NEW i \in DOMAIN Hooks, i < at + 1 PROVE Places(rules[Hooks[i]]) = {}
      OBVIOUS
    <2>1. i < at \/ i = at
      BY <1>1
    <2> QED
      BY <2>1 DEF Swept, Hook
  <1>3. CASE at < Len(Hooks)
    BY <1>1, <1>2, <1>3 DEF NextHook, Swept
  <1>4. CASE at = Len(Hooks)
    BY <1>1, <1>2, <1>4 DEF NextHook, Swept
  <1> QED
    BY <1>1, <1>3, <1>4

\* No rule that others add or remove, and none that cleanup deletes, brings a jump.
LEMMA SweptKept ==
  ASSUME NEW n, Swept(n), n' = n, \A h \in ToSet(Hooks) : Places(rules[h]) = {} => Places(rules'[h]) = {}
  PROVE  Swept(n)'
  BY DEF Swept, ToSet

\* Steps that do not belong to cleanup: a daemon's, and the end of a process.
LEMMA TidyElsewhere ==
  ASSUME TypeInv, CleanupInv,
         \/ \E m \in {"daemon", "cleanup"} : Start(m)
         \/ \E k \in {"all", "policy", "pods"} : Sync(k)
         \/ Crash \/ Stop \/ OtherLocks \/ UNCHANGED vars
         \/ NewChain \/ Exists \/ DeleteJump \/ InsertJump \/ EnsureSets
         \/ DropRange \/ AddRange \/ EnsureFlannel
  PROVE  CleanupInv'
  <1> USE DEF CleanupInv, memory, kernel, locks, ghosts
  <1>0. /\ mode \in {"daemon", "cleanup"} /\ at \in DOMAIN Hooks
        /\ mode = "cleanup" => pc \notin DaemonPCs
    BY DEF TypeInv, TypeOK, Placed
  <1>1. CASE \E m \in {"daemon", "cleanup"} : Start(m)
    <2> PICK m \in {"daemon", "cleanup"} : Start(m)
      BY <1>1
    <2>1. mode' = "cleanup" => pc' = "list" /\ at' = 1
      BY DEF Start
    <2>2. at' = 1 => Swept(at)'
      BY LenProperties, HooksAssumption DEF Swept
    <2> QED
      BY <2>1, <2>2 DEF Tidy, AfterHooks
  <1>2. CASE Crash
    BY <1>0, <1>2 DEF Crash
  <1>3. CASE OtherLocks \/ UNCHANGED vars
    BY <1>3 DEF OtherLocks, vars, Tidy, Swept, Listed, Hook
  <1>4. CASE \/ \E k \in {"all", "policy", "pods"} : Sync(k)
             \/ Stop \/ NewChain \/ Exists \/ DeleteJump \/ InsertJump \/ EnsureSets
             \/ DropRange \/ AddRange \/ EnsureFlannel
    <2>1. mode = "daemon" /\ mode' = mode
      BY <1>0, <1>4 DEF DaemonPCs, Sync, Stop, NewChain, Exists, DeleteJump, InsertJump,
                        EnsureSets, DropRange, AddRange, EnsureFlannel
    <2> QED
      BY <2>1
  <1> QED
    BY <1>1, <1>2, <1>3, <1>4

\* The hooks, one by one.
LEMMA TidyHooks ==
  ASSUME TypeInv, CleanupInv, List \/ DeleteByIndex \/ HookDone
  PROVE  CleanupInv'
  <1> SUFFICES ASSUME mode' = "cleanup", ~untidy' PROVE Tidy'
    BY DEF CleanupInv
  <1>0. /\ at \in DOMAIN Hooks /\ Hook \in ToSet(Hooks)
        /\ rules \in [ToSet(Hooks) -> Seq(Rules)] /\ rules[Hook] \in Seq(Rules)
        /\ AtMostOne(rules[Hook]) /\ untidy \in BOOLEAN
    BY HookFacts DEF TypeInv, TypeOK, OneJump, Rules
  <1>1. mode = "cleanup" /\ ~untidy
    BY <1>0 DEF List, DeleteByIndex, HookDone, Ok, ghosts
  <1>2. Tidy
    BY <1>1 DEF CleanupInv
  <1>3. CASE List
    <2>1. /\ listed' = rules[Hook] /\ todo' = Indexes(rules[Hook])
          /\ pc' = "byIndex" /\ at' = at /\ UNCHANGED kernel /\ pc = "list"
      BY <1>3 DEF List, Ok
    <2>2. Swept(at)'
      BY <1>2, <2>1 DEF Tidy, Swept, kernel
    <2>3. Listed'
      BY <1>0, <2>1 DEF Listed, Hook, Indexes, Places, kernel
    <2> QED
      BY <2>1, <2>2, <2>3 DEF Tidy, AfterHooks
  <1>4. CASE DeleteByIndex
    <2>1. PICK i \in todo :
            /\ todo' = todo \ {i}
            /\ rules' = [rules EXCEPT ![Hook] = IF i \in DOMAIN @ THEN RemoveAt(@, i) ELSE @]
            /\ untidy' = (untidy \/ listed # rules[Hook])
      BY <1>4 DEF DeleteByIndex
    <2>2. pc = "byIndex" /\ UNCHANGED <<pc, at, listed>>
      BY <1>4 DEF DeleteByIndex
    <2>3. listed = rules[Hook] /\ todo = Places(rules[Hook])
      BY <1>2, <2>1, <2>2 DEF Tidy, Listed
    <2> DEFINE s == RemoveAt(rules[Hook], i)
    <2>4. i \in DOMAIN rules[Hook] /\ rules[Hook][i] = Jump /\ todo' = {}
      BY <1>0, <2>1, <2>3 DEF Places, AtMostOne
    <2>5. Places(s) = {}
      BY <1>0, <2>4, RemoveFacts
    <2>6. rules' = [rules EXCEPT ![Hook] = s]
      BY <2>1, <2>4
    <2> HIDE DEF s
    <2>7. /\ rules'[Hook] = s
          /\ \A h \in ToSet(Hooks) : Places(rules[h]) = {} => Places(rules'[h]) = {}
      BY <1>0, <2>5, <2>6
    <2>8. Swept(at)
      BY <1>2, <2>2 DEF Tidy
    <2>9. Swept(at)'
      BY <2>2, <2>7, <2>8, SweptKept
    <2>10. Listed'
      BY <2>2, <2>4, <2>5, <2>7 DEF Listed, Hook
    <2> QED
      BY <2>2, <2>9, <2>10 DEF Tidy, AfterHooks
  <1>5. CASE HookDone
    <2>1. pc = "byIndex" /\ todo = {} /\ NextHook /\ UNCHANGED rules
      BY <1>5 DEF HookDone, kernel
    <2>2. Swept(at) /\ Places(rules[Hook]) = {}
      BY <1>2, <2>1 DEF Tidy, Listed
    <2>3. /\ pc' = "list" => Swept(at)'
          /\ pc' \in {"list", "save"}
          /\ pc' = "save" => Swept(Len(Hooks) + 1)'
      BY <1>0, <2>1, <2>2, SweptNext
    <2> QED
      BY <2>3 DEF Tidy, AfterHooks
  <1> QED
    BY <1>3, <1>4, <1>5

\* What comes after the hooks.  Only the restore that deletes the chains leads to
\* cleanupIPSets without leaving anything behind, and it then finds the sets unused.
LEMMA TidyRest ==
  ASSUME TypeInv, CleanupInv,
         SaveInto \/ GrabLock16 \/ GrabLock14 \/ Restore \/ CleanupIPSets
  PROVE  CleanupInv'
  <1> SUFFICES ASSUME mode' = "cleanup", ~untidy' PROVE Tidy'
    BY DEF CleanupInv
  <1>0. untidy \in BOOLEAN /\ policing \in BOOLEAN
    BY DEF TypeInv, TypeOK
  <1>1. mode = "cleanup" /\ ~untidy /\ UNCHANGED rules
    BY <1>0 DEF SaveInto, GrabLock16, GrabLock14, Restore, CleanupIPSets, Ok, Fail, GiveUp,
                ghosts, kernel
  <1>2. Tidy /\ pc \in AfterHooks
    BY <1>1 DEF CleanupInv, AfterHooks, SaveInto, GrabLock16, GrabLock14, Restore, CleanupIPSets
  <1>3. Swept(Len(Hooks) + 1) /\ Swept(Len(Hooks) + 1)'
    BY <1>1, <1>2 DEF Tidy, Swept
  <1>4. CASE SaveInto \/ GrabLock16 \/ GrabLock14
    <2>1. pc' \in {"lock16", "lock14", "restore"}
      BY <1>1, <1>4 DEF SaveInto, GrabLock16, GrabLock14, GiveUp, Ok, Fail
    <2> QED
      BY <1>3, <2>1 DEF Tidy
  <1>5. CASE Restore
    <2>1. ~\E h \in ToSet(Hooks) : Jump \in ToSet(rules[h])
      BY <1>3, SweptAll DEF ToSet, Places
    <2>2. Restored /\ pc' = "destroy"
      BY <1>1, <1>5, <2>1 DEF Restore, Fail, Ok, After
    <2>3. chains' = {} /\ ~policing'
      BY <1>1, <2>2 DEF Restored
    <2> QED
      BY <1>3, <2>2, <2>3 DEF Tidy
  <1>6. CASE CleanupIPSets
    <2>1. pc = "destroy" /\ pc' = "off" /\ sets' = (sets /\ policing) /\ UNCHANGED <<chains, policing>>
      BY <1>1, <1>6 DEF CleanupIPSets, Fail, Ok
    <2> QED
      BY <1>2, <1>3, <2>1 DEF Tidy
  <1> QED
    BY <1>4, <1>5, <1>6

LEMMA CleanupNext ==
  ASSUME TypeInv, CleanupInv, [Next]_vars
  PROVE  CleanupInv'
  <1>1. CASE OtherRules
    <2>1. /\ \A h \in ToSet(Hooks) : Places(rules[h]) = {} => Places(rules'[h]) = {}
          /\ Hook \in ToSet(Hooks)
      BY <1>1, OthersFacts, HookFacts DEF TypeInv, TypeOK
    <2>2. UNCHANGED <<mode, pc, at, listed, todo, chains, policing, sets, untidy>>
      BY <1>1 DEF OtherRules, memory, ghosts
    <2>3. Swept(at) => Swept(at)'
      BY <2>1, <2>2, SweptKept
    <2>4. Swept(Len(Hooks) + 1) => Swept(Len(Hooks) + 1)'
      BY <2>1 DEF Swept, ToSet
    <2>5. Listed => Listed'
      BY <2>1, <2>2 DEF Listed, Hook
    <2> QED
      BY <2>2, <2>3, <2>4, <2>5 DEF CleanupInv, Tidy
  <1> QED
    BY <1>1, TidyElsewhere, TidyHooks, TidyRest DEF Next, Step, Other

\* user-guide.md:26: a cleanup in which no command failed and no list went out of date
\* leaves no jump, no chain and no set, whatever the daemon before it had left.
THEOREM CleanupCompleteHolds == Spec => []CleanupComplete
  <1>1. Init => CleanupInv
    BY DEF Init, CleanupInv
  <1>2. CleanupInv => CleanupComplete
    BY SweptAll DEF CleanupInv, Tidy, AfterHooks, CleanupComplete, Places, Jumps
  <1> QED
    BY <1>1, <1>2, TypeInit, TypeNext, CleanupNext, PTL DEF Spec

-----------------------------------------------------------------------------
(* The rules of other programs.  A jump that comes or goes leaves the order *)
(* of the others alone; cleanup deletes by index, and as long as its list   *)
(* is up to date the indexes are those of jumps.                            *)

LEMMA InsertOrder ==
  ASSUME NEW s \in Seq(Rules), NEW r \in Others, NEW q \in Others
  PROVE  Before(<<Jump>> \o s, r, q) <=> Before(s, r, q)
  <1> DEFINE t == <<Jump>> \o s
  <1>1. <<Jump>> \in Seq(Rules) /\ Len(<<Jump>>) = 1 /\ <<Jump>>[1] = Jump
    BY DEF Rules
  <1>2. Len(s) \in Nat /\ DOMAIN s = 1 .. Len(s)
    BY LenProperties
  <1>3. /\ t \in Seq(Rules) /\ Len(t) = 1 + Len(s)
        /\ \A i \in 1 .. 1 + Len(s) : t[i] = IF i <= 1 THEN <<Jump>>[i] ELSE s[i - 1]
    BY <1>1, ConcatProperties
  <1>4. DOMAIN t = 1 .. 1 + Len(s)
    BY <1>3, LenProperties
  <1> HIDE DEF t
  <1>5. t[1] = Jump /\ \A i \in 1 .. Len(s) : t[i + 1] = s[i]
    BY <1>1, <1>2, <1>3
  <1>6. r # Jump /\ q # Jump
    BY OthersAssumption
  <1>7. ASSUME NEW i \in DOMAIN t, NEW j \in DOMAIN t, i <= j, t[i] = r, t[j] = q
        PROVE  Before(s, r, q)
    <2>1. i - 1 \in DOMAIN s /\ j - 1 \in DOMAIN s /\ i - 1 <= j - 1
      BY <1>2, <1>4, <1>5, <1>6, <1>7
    <2>2. s[i - 1] = r /\ s[j - 1] = q
      BY <1>2, <1>5, <1>7, <2>1
    <2> QED
      BY <2>1, <2>2 DEF Before
  <1>8. ASSUME NEW i \in DOMAIN s, NEW j \in DOMAIN s, i <= j, s[i] = r, s[j] = q
        PROVE  Before(t, r, q)
    <2>1. i + 1 \in DOMAIN t /\ j + 1 \in DOMAIN t /\ i + 1 <= j + 1
      BY <1>2, <1>4, <1>8
    <2>2. t[i + 1] = r /\ t[j + 1] = q
      BY <1>2, <1>5, <1>8
    <2> QED
      BY <2>1, <2>2 DEF Before
  <1> QED
    BY <1>7, <1>8 DEF Before, t

LEMMA RemoveOrder ==
  ASSUME NEW s \in Seq(Rules), NEW k \in DOMAIN s, s[k] = Jump,
         NEW r \in Others, NEW q \in Others
  PROVE  Before(RemoveAt(s, k), r, q) <=> Before(s, r, q)
  <1> DEFINE t == RemoveAt(s, k)
  <1>1. /\ t \in Seq(Rules) /\ Len(t) = Len(s) - 1
        /\ \A i \in 1 .. Len(s) - 1 : t[i] = IF i < k THEN s[i] ELSE s[i + 1]
    BY RemoveAtFacts
  <1>2. Len(s) \in Nat /\ DOMAIN s = 1 .. Len(s) /\ k \in 1 .. Len(s)
    BY LenProperties
  <1>3. DOMAIN t = 1 .. Len(s) - 1
    BY <1>1, LenProperties
  <1> HIDE DEF t
  <1>4. r # Jump /\ q # Jump
    BY OthersAssumption
  <1> DEFINE up(i) == IF i < k THEN i ELSE i + 1
             down(i) == IF i < k THEN i ELSE i - 1
  <1>5. ASSUME NEW i \in DOMAIN t, NEW j \in DOMAIN t, i <= j, t[i] = r, t[j] = q
        PROVE  Before(s, r, q)
    <2>1. up(i) \in DOMAIN s /\ up(j) \in DOMAIN s /\ up(i) <= up(j)
      BY <1>2, <1>3, <1>5
    <2>2. s[up(i)] = r /\ s[up(j)] = q
      BY <1>1, <1>3, <1>5
    <2> QED
      BY <2>1, <2>2 DEF Before
  <1>6. ASSUME NEW i \in DOMAIN s, NEW j \in DOMAIN s, i <= j, s[i] = r, s[j] = q
        PROVE  Before(t, r, q)
    <2>1. i # k /\ j # k
      BY <1>4, <1>6
    <2>2. down(i) \in DOMAIN t /\ down(j) \in DOMAIN t /\ down(i) <= down(j)
      BY <1>2, <1>3, <1>6, <2>1
    <2>3. t[down(i)] = r /\ t[down(j)] = q
      BY <1>1, <1>2, <1>3, <1>6, <2>1, <2>2
    <2> QED
      BY <2>2, <2>3 DEF Before
  <1> QED
    BY <1>5, <1>6 DEF Before, t

\* Cleanup's indexes are those of jumps in its list.
IndexesInv == pc = "byIndex" => todo \subseteq Places(listed)

LEMMA IndexesNext == TypeInv /\ IndexesInv /\ [Next]_vars => IndexesInv'
  <1> SUFFICES ASSUME TypeInv, IndexesInv, [Next]_vars PROVE IndexesInv'
    OBVIOUS
  <1> USE DEF IndexesInv
  <1>0. kind \in {"all", "policy", "pods"}
    BY DEF TypeInv, TypeOK
  <1>1. CASE List
    <2>1. pc' = "byIndex" => listed' = rules[Hook] /\ todo' = Indexes(rules[Hook])
      BY <1>1 DEF List, NextHook
    <2> QED
      BY <2>1 DEF Indexes, Places
  <1>2. CASE DeleteByIndex
    BY <1>2 DEF DeleteByIndex
  <1>3. CASE Other \/ UNCHANGED vars
    BY <1>3 DEF Other, OtherRules, OtherLocks, vars, memory
  <1>4. CASE \/ \E m \in {"daemon", "cleanup"} : Start(m)
             \/ \E k \in {"all", "policy", "pods"} : Sync(k)
             \/ Crash \/ Stop \/ HookDone
    BY <1>4 DEF Start, Sync, Crash, Stop, HookDone, NextHook
  <1>5. CASE NewChain \/ Exists \/ DeleteJump \/ InsertJump \/ EnsureSets
             \/ DropRange \/ AddRange \/ EnsureFlannel \/ CleanupIPSets
    <2>1. CASE EnsureSets
      BY <1>0, <2>1 DEF EnsureSets, Ok, Fail
    <2> QED
      BY <1>5, <2>1 DEF NewChain, Exists, DeleteJump, InsertJump, DropRange, AddRange,
                  EnsureFlannel, CleanupIPSets, Ok, Fail
  <1>6. CASE SaveInto \/ GrabLock16 \/ GrabLock14 \/ Restore
    BY <1>6 DEF SaveInto, GrabLock16, GrabLock14, Restore, GiveUp, After, Ok, Fail
  <1> QED
    BY <1>1, <1>2, <1>3, <1>4, <1>5, <1>6 DEF Next, Step

OrderKept ==
  \A h \in ToSet(Hooks), r, s \in Others : Before(rules[h], r, s)' <=> Before(rules[h], r, s)

\* A step that changes one hook's rules to a list with the others' in the same order.
LEMMA OrderChanged ==
  ASSUME rules \in [ToSet(Hooks) -> Seq(Rules)], NEW h \in ToSet(Hooks), NEW list,
         rules' = [rules EXCEPT ![h] = list],
         \A r, q \in Others : Before(list, r, q) <=> Before(rules[h], r, q)
  PROVE  OrderKept
  <1>1. rules'[h] = list /\ \A g \in ToSet(Hooks) : g # h => rules'[g] = rules[g]
    OBVIOUS
  <1>2. ASSUME NEW g \in ToSet(Hooks), NEW r \in Others, NEW q \in Others
        PROVE  Before(rules'[g], r, q) <=> Before(rules[g], r, q)
    <2>1. CASE g = h
      BY <1>1, <2>1
    <2>2. CASE g # h
      BY <1>1, <2>2
    <2> QED
      BY <2>1, <2>2
  <1> QED
    BY <1>2 DEF OrderKept, Before

LEMMA OrderNext ==
  ASSUME TypeInv, IndexesInv, Next
  PROVE  Other \/ Outdated \/ OrderKept
  <1>0. /\ rules \in [ToSet(Hooks) -> Seq(Rules)] /\ Hook \in ToSet(Hooks)
        /\ rules[Hook] \in Seq(Rules) /\ AtMostOne(rules[Hook])
    BY HookFacts DEF TypeInv, TypeOK, OneJump, Rules
  <1>1. CASE UNCHANGED rules
    BY <1>1 DEF OrderKept, Before
  <1>2. CASE DeleteJump /\ rules' # rules
    <2>1. /\ Jump \in ToSet(rules[Hook])
          /\ rules' = [rules EXCEPT ![Hook] = RemoveFirst(@, Jump)]
      BY <1>2 DEF DeleteJump, Fail, kernel
    <2>2. PICK i \in DOMAIN rules[Hook] :
            rules[Hook][i] = Jump /\ RemoveFirst(rules[Hook], Jump) = RemoveAt(rules[Hook], i)
      BY <1>0, <2>1, DeleteFacts
    <2> DEFINE list == RemoveAt(rules[Hook], i)
    <2>3. \A r, q \in Others : Before(list, r, q) <=> Before(rules[Hook], r, q)
      BY <1>0, <2>2, RemoveOrder
    <2>4. rules' = [rules EXCEPT ![Hook] = list]
      BY <2>1, <2>2
    <2> HIDE DEF list
    <2> QED
      BY <1>0, <2>3, <2>4, OrderChanged
  <1>3. CASE InsertJump /\ rules' # rules
    <2> DEFINE list == <<Jump>> \o rules[Hook]
    <2>1. rules' = [rules EXCEPT ![Hook] = list]
      BY <1>3 DEF InsertJump, Fail, kernel
    <2>2. \A r, q \in Others : Before(list, r, q) <=> Before(rules[Hook], r, q)
      BY <1>0, InsertOrder
    <2> HIDE DEF list
    <2> QED
      BY <1>0, <2>1, <2>2, OrderChanged
  <1>4. CASE DeleteByIndex /\ rules' # rules /\ ~Outdated
    <2>1. PICK i \in todo :
            rules' = [rules EXCEPT ![Hook] = IF i \in DOMAIN @ THEN RemoveAt(@, i) ELSE @]
      BY <1>4 DEF DeleteByIndex
    <2>2. listed = rules[Hook] /\ i \in Places(listed)
      BY <1>4 DEF DeleteByIndex, Outdated, IndexesInv
    <2>3. i \in DOMAIN rules[Hook] /\ rules[Hook][i] = Jump
      BY <2>2 DEF Places
    <2> DEFINE list == RemoveAt(rules[Hook], i)
    <2>4. \A r, q \in Others : Before(list, r, q) <=> Before(rules[Hook], r, q)
      BY <1>0, <2>3, RemoveOrder
    <2>5. rules' = [rules EXCEPT ![Hook] = list]
      BY <2>1, <2>3
    <2> HIDE DEF list
    <2> QED
      BY <1>0, <2>4, <2>5, OrderChanged
  <1>5. \/ UNCHANGED rules \/ Other
        \/ (DeleteJump \/ InsertJump \/ DeleteByIndex) /\ rules' # rules
    <2>1. CASE \/ \E m \in {"daemon", "cleanup"} : Start(m)
               \/ \E k \in {"all", "policy", "pods"} : Sync(k)
               \/ Crash \/ Stop \/ Other
      BY <2>1 DEF Start, Sync, Crash, Stop, kernel
    <2>2. CASE NewChain \/ Exists \/ EnsureSets \/ DropRange \/ AddRange \/ EnsureFlannel
      BY <2>2 DEF NewChain, Exists, EnsureSets, DropRange, AddRange, EnsureFlannel, Fail, kernel
    <2>3. CASE List \/ HookDone \/ CleanupIPSets \/ SaveInto \/ GrabLock16 \/ GrabLock14 \/ Restore
      BY <2>3 DEF List, HookDone, CleanupIPSets, SaveInto, GrabLock16, GrabLock14, Restore, Fail, kernel
    <2> QED
      BY <2>1, <2>2, <2>3 DEF Next, Step
  <1> QED
    BY <1>1, <1>2, <1>3, <1>4, <1>5

\* No step of enn-policy adds, removes or moves a rule of another program, except for
\* a deletion by an index from a list that is out of date.
THEOREM OthersKeptHolds == Spec => OthersKept
  <1>1. Init => IndexesInv
    BY DEF Init, IndexesInv
  <1>2. TypeInv /\ IndexesInv /\ [Next]_vars =>
          [Other \/ Outdated \/ \A h \in ToSet(Hooks), r, s \in Others :
                                  Before(rules[h], r, s)' <=> Before(rules[h], r, s)]_vars
    BY OrderNext DEF OrderKept
  <1> QED
    BY <1>1, <1>2, TypeInit, TypeNext, IndexesNext, PTL DEF Spec, OthersKept

=============================================================================
