---------------------------- MODULE NodeTables -----------------------------
(***************************************************************************)
(* enn-policy on a node that it shares with other programs: the jumps into *)
(* its entry chains, the two sets that do not come from policies, the      *)
(* locks of iptables, and the cleanup mode.                                *)
(*                                                                         *)
(* One process at a time: the daemon, whose synchronizations begin with    *)
(* the ensure steps of syncEnnPolicy and end with iptables-restore, or     *)
(* CleanUpAndExit.  It may crash anywhere and be started again as either.  *)
(* Other programs add and remove rules of their own and hold the locks.    *)
(***************************************************************************)
EXTENDS Naturals, SequencesExt, FlannelNet

CONSTANTS
  Hooks,         \* the built-in chains, in the order in which they are visited
  Others,        \* rules of other programs, which do not have "ENN" in their text
  OptionSets,    \* the options of the daemon, see Options below
  BinaryLock,    \* the lock that the node's iptables takes: "lock16" or "lock14"
  None,
  MaxFailures,   \* bound: commands that fail
  MaxCrashes     \* bound: crashes

Options == [acceptFlannel : BOOLEAN,
            net : [ip : IPs, mask : 0 .. 32, len : Nat],
            iPRange : {"default",    \* --ip-range is 0.0.0.0/0,
                       "canonical",  \* is written as the kernel writes it,
                       "other"},     \* or is not
            restoreWaits : BOOLEAN]   \* iptables-restore has a --wait flag

ASSUME HooksAssumption ==
  /\ Hooks \in Seq(STRING) /\ Hooks # <<>> /\ IsInjective(Hooks)
  /\ OptionSets \subseteq Options /\ BinaryLock \in {"lock16", "lock14"}
ASSUME NoneAssumption == None \notin {"enn", "other"}
ASSUME BoundsAssumption == MaxFailures \in Nat /\ MaxCrashes \in Nat

Jump == "jump"          \* the rule -j ENN-<hook>
ASSUME OthersAssumption == Jump \notin Others

VARIABLES
  options,
  mode,       \* what the process is: "daemon" or "cleanup"
  pc,         \* where it is; "off" when there is none
  at,         \* the index of the hook that it is at
  kind,       \* the sync type: "all", "policy" or "pods"
  first,      \* initAllSynced: the first synchronization is still to come
  listed,     \* inputLists: the rules of a hook as cleanup has listed them
  todo,       \* the indexes of the lines with "ENN" in them
  rules,      \* kernel: the rules of each hook
  chains,     \* kernel: the hooks whose entry chain exists
  policing,   \* kernel: whether the policy chains are there
  sets,       \* kernel: whether the two sets are there
  range,      \* kernel: whether the set of --ip-range has its entry
  flannel,    \* kernel: the entries of the set of gateways
  lock16, lock14, \* the file lock and the socket lock: "enn", "other" or None
  untidy,     \* ghost: cleanup had a command fail or a list go out of date
  failures, crashes

memory == <<at, kind, first, listed, todo>>
kernel == <<rules, chains, policing, sets, range, flannel>>
locks  == <<lock16, lock14>>
ghosts == <<untidy, crashes>>
vars == <<options, mode, pc, memory, kernel, locks, ghosts, failures>>

Init ==
  /\ options \in OptionSets
  /\ mode = "daemon" /\ pc = "off"
  /\ at = 1 /\ kind = "all" /\ first = TRUE /\ listed = <<>> /\ todo = {}
  /\ rules = [h \in ToSet(Hooks) |-> <<>>]
  /\ chains = {} /\ policing = FALSE /\ sets = FALSE /\ range = FALSE /\ flannel = {}
  /\ lock16 = None /\ lock14 = None
  /\ untidy = FALSE /\ failures = 0 /\ crashes = 0

Hook == Hooks[at]

\* An iptables command waits for its lock and is atomic under it.
BinaryFree == (IF BinaryLock = "lock16" THEN lock16 ELSE lock14) = None

\* A command fails; the daemon gives the synchronization up unless it goes on
\* to somewhere else.
Fail(then) ==
  /\ failures < MaxFailures /\ failures' = failures + 1
  /\ pc' = then
  /\ untidy' = (untidy \/ mode = "cleanup")
  /\ UNCHANGED <<kernel, crashes>>

Ok(then) == pc' = then /\ UNCHANGED <<failures, ghosts>>

-----------------------------------------------------------------------------
(* The process comes and goes.                                             *)

Start(m) ==
  /\ pc = "off"
  /\ mode' = m
  /\ pc' = IF m = "daemon" THEN "idle" ELSE "list"
  /\ at' = 1 /\ kind' = "all" /\ first' = TRUE
  /\ listed' = <<>> /\ todo' = {}
  /\ untidy' = FALSE
  /\ UNCHANGED <<options, kernel, locks, failures, crashes>>

\* The kernel closes the files of a process that ends.
Crash ==
  /\ pc # "off" /\ crashes < MaxCrashes
  /\ crashes' = crashes + 1
  /\ pc' = "off"
  /\ lock16' = IF lock16 = "enn" THEN None ELSE lock16
  /\ lock14' = IF lock14 = "enn" THEN None ELSE lock14
  /\ untidy' = (mode = "cleanup")
  /\ UNCHANGED <<options, mode, memory, kernel, failures>>

Stop ==
  /\ mode = "daemon" /\ pc = "idle"
  /\ pc' = "off"
  /\ UNCHANGED <<options, mode, memory, kernel, locks, ghosts, failures>>

-----------------------------------------------------------------------------
(* syncEnnPolicy: the ensure steps                                         *)

Sync(k) ==
  /\ mode = "daemon" /\ pc = "idle"
  /\ kind' = k /\ at' = 1
  /\ pc' = "newChain"
  /\ UNCHANGED <<options, mode, first, listed, todo, kernel, locks, ghosts, failures>>

\* ensureEnnEntry: NewChain for every hook; that the chain exists is no error.
NewChain ==
  /\ pc = "newChain" /\ BinaryFree
  /\ \/ /\ chains' = chains \cup {Hook}
        /\ IF at < Len(Hooks) THEN at' = at + 1 /\ Ok("newChain") ELSE at' = 1 /\ Ok("exists")
        /\ UNCHANGED <<rules, policing, sets, range, flannel>>
     \/ Fail("idle") /\ UNCHANGED at
  /\ UNCHANGED <<options, mode, kind, first, listed, todo, locks>>

\* Variant: without the question, only the insertion.
ExistsNot ==
  /\ pc = "exists" /\ BinaryFree
  /\ \/ Ok("insert") /\ UNCHANGED kernel
     \/ Fail("idle")
  /\ UNCHANGED <<options, mode, memory, locks>>

\* PrependUnique: Exists, Delete if it does, Insert at the first place.
Exists ==
  /\ pc = "exists" /\ BinaryFree
  /\ \/ Ok(IF Jump \in ToSet(rules[Hook]) THEN "delete" ELSE "insert") /\ UNCHANGED kernel
     \/ Fail("idle")
  /\ UNCHANGED <<options, mode, memory, locks>>

DeleteJump ==
  /\ pc = "delete" /\ BinaryFree
  /\ \/ /\ Jump \in ToSet(rules[Hook])
        /\ rules' = [rules EXCEPT ![Hook] = RemoveFirst(@, Jump)]
        /\ Ok("insert") /\ UNCHANGED <<chains, policing, sets, range, flannel>>
     \/ Fail("idle")
  /\ UNCHANGED <<options, mode, memory, locks>>

\* Variant: appended.
AppendJump ==
  /\ pc = "insert" /\ BinaryFree
  /\ \/ /\ rules' = [rules EXCEPT ![Hook] = Append(@, Jump)]
        /\ IF at < Len(Hooks) THEN at' = at + 1 /\ Ok("exists") ELSE at' = 1 /\ Ok("sets")
        /\ UNCHANGED <<chains, policing, sets, range, flannel>>
     \/ Fail("idle") /\ UNCHANGED at
  /\ UNCHANGED <<options, mode, kind, first, listed, todo, locks>>

InsertJump ==
  /\ pc = "insert" /\ BinaryFree
  /\ \/ /\ rules' = [rules EXCEPT ![Hook] = <<Jump>> \o @]
        /\ IF at < Len(Hooks) THEN at' = at + 1 /\ Ok("exists") ELSE at' = 1 /\ Ok("sets")
        /\ UNCHANGED <<chains, policing, sets, range, flannel>>
     \/ Fail("idle") /\ UNCHANGED at
  /\ UNCHANGED <<options, mode, kind, first, listed, todo, locks>>

\* ensureFlannelNetSet and ensureIPRangeSet; the first synchronization is SYNCALL.
EnsureSets ==
  /\ pc = "sets"
  /\ \/ /\ sets' = TRUE
        /\ kind' = IF first THEN "all" ELSE kind
        /\ first' = FALSE
        /\ Ok(CASE kind' = "all" -> "dropRange" [] kind' = "policy" -> "save" [] kind' = "pods" -> "idle")
        /\ UNCHANGED <<rules, chains, policing, range, flannel>>
     \/ Fail("idle") /\ UNCHANGED <<kind, first>>
  /\ UNCHANGED <<options, mode, at, listed, todo, locks>>

\* ensureIPRangeSetMember: entries that are not written as the option is go.
DropRange ==
  /\ pc = "dropRange"
  /\ \/ /\ range' = (range /\ options.iPRange = "canonical")
        /\ Ok("addRange") /\ UNCHANGED <<rules, chains, policing, sets, flannel>>
     \/ Fail("flannel")
  /\ UNCHANGED <<options, mode, memory, locks>>

\* The entry for --ip-range; ipset has none for 0.0.0.0/0.
AddRange ==
  /\ pc = "addRange"
  /\ \/ /\ range' = (range \/ options.iPRange # "default")
        /\ Ok("flannel") /\ UNCHANGED <<rules, chains, policing, sets, flannel>>
     \/ options.iPRange # "default" /\ Fail("flannel")
  /\ UNCHANGED <<options, mode, memory, locks>>

\* flanelIPMap for each network that the options may name.
FlanelIPMap == [net \in {o.net : o \in OptionSets} |-> FlanelIPs(net)]

\* ensureFlannelNetSetMember
EnsureFlannel ==
  /\ pc = "flannel"
  /\ \/ /\ flannel' = IF ~options.acceptFlannel \/ Refused(options.net) THEN flannel
                      ELSE FlanelIPMap[options.net]
        /\ Ok("save") /\ UNCHANGED <<rules, chains, policing, sets, range>>
     \/ Fail("save")
  /\ UNCHANGED <<options, mode, memory, locks>>

-----------------------------------------------------------------------------
(* CleanupLeftovers                                                        *)

\* Variant: the hooks are counted from zero.
NextHookFromZero ==
  /\ listed' = <<>> /\ todo' = {}
  /\ IF at <= Len(Hooks) THEN at' = at + 1 /\ pc' = "list" ELSE at' = at /\ pc' = "save"

\* Variant: the last hook is forgotten.
NextHookButLast ==
  /\ listed' = <<>> /\ todo' = {}
  /\ IF at + 1 < Len(Hooks) THEN at' = at + 1 /\ pc' = "list" ELSE at' = at /\ pc' = "save"

\* The next hook, or iptables-save after the last one.
NextHook ==
  /\ listed' = <<>> /\ todo' = {}
  /\ IF at < Len(Hooks) THEN at' = at + 1 /\ pc' = "list" ELSE at' = at /\ pc' = "save"

\* Variant: as if the list began with the first rule, which would have index 0.
IndexesOfRules(list) == {i - 1 : i \in {i \in DOMAIN list : list[i] = Jump}}

\* The indexes of the lines with "ENN" in them.  The first line of the list is the
\* policy of the chain and has index 0.
Indexes(list) == {i \in DOMAIN list : list[i] = Jump}

List ==
  /\ pc = "list" /\ BinaryFree
  /\ \/ /\ listed' = rules[Hook]
        /\ todo' = Indexes(rules[Hook])
        /\ Ok("byIndex") /\ UNCHANGED at
     \/ /\ failures < MaxFailures /\ failures' = failures + 1
        /\ untidy' = TRUE
        /\ NextHook /\ UNCHANGED crashes
  /\ UNCHANGED <<options, mode, kind, first, kernel, locks>>

\* Delete of the rule with the number that a line has in the list; whether it
\* fails is not looked at.
DeleteByIndex ==
  /\ pc = "byIndex" /\ BinaryFree
  /\ \E i \in todo :
       /\ \A j \in todo : i <= j
       /\ todo' = todo \ {i}
       /\ \/ /\ rules' = [rules EXCEPT ![Hook] = IF i \in DOMAIN @ THEN RemoveAt(@, i) ELSE @]
             /\ untidy' = (untidy \/ listed # rules[Hook])
             /\ UNCHANGED failures
          \/ /\ failures < MaxFailures /\ failures' = failures + 1
             /\ untidy' = TRUE /\ UNCHANGED rules
  /\ UNCHANGED <<options, mode, pc, at, kind, first, listed, chains, policing, sets,
                 range, flannel, locks, crashes>>

HookDone ==
  /\ pc = "byIndex" /\ todo = {}
  /\ NextHook
  /\ UNCHANGED <<options, mode, kind, first, kernel, locks, ghosts, failures>>

\* cleanupIPSets: a set that a rule refers to is not destroyed.
CleanupIPSets ==
  /\ pc = "destroy"
  /\ \/ /\ sets' = (sets /\ policing) /\ range' = (range /\ policing)
        /\ flannel' = IF policing THEN flannel ELSE {}
        /\ Ok("off") /\ UNCHANGED <<rules, chains, policing>>
     \/ Fail("off")
  /\ UNCHANGED <<options, mode, memory, locks>>

-----------------------------------------------------------------------------
(* pkg/util/k8siptables: SaveInto, RestoreAll and Restore                  *)

\* Where a process goes on after its restore, successful or not.
After == IF mode = "daemon" THEN "idle" ELSE "destroy"

\* A daemon whose iptables-save fails goes on, cleanup gives the chains up.
SaveInto ==
  /\ pc = "save"
  /\ \/ Ok(IF options.restoreWaits THEN "restore" ELSE "lock16") /\ UNCHANGED kernel
     \/ Fail(IF mode = "cleanup" THEN "destroy"
             ELSE IF options.restoreWaits THEN "restore" ELSE "lock16")
  /\ UNCHANGED <<options, mode, memory, locks>>

\* Close of what has been got, on failure too.
Release ==
  /\ lock16' = IF lock16 = "enn" THEN None ELSE lock16
  /\ lock14' = IF lock14 = "enn" THEN None ELSE lock14

\* Variant: only the lock that has been got last is closed.
GiveUpKeepingLock16 ==
  /\ untidy' = (untidy \/ mode = "cleanup")
  /\ pc' = After
  /\ UNCHANGED <<locks, failures, crashes>>

\* Variant: polled without an end.
GiveUpNever == UNCHANGED <<pc, locks, ghosts, failures>>

\* Two seconds are over and the lock has always been taken.
GiveUp ==
  /\ untidy' = (untidy \/ mode = "cleanup")
  /\ pc' = After
  /\ Release
  /\ UNCHANGED <<failures, crashes>>

\* grabIptablesLocks: the file lock of iptables 1.6, then the socket of 1.4.
GrabLock16 ==
  /\ pc = "lock16"
  /\ \/ lock16 = None /\ lock16' = "enn" /\ UNCHANGED lock14 /\ Ok("lock14")
     \/ lock16 # None /\ GiveUp
  /\ UNCHANGED <<options, mode, memory, kernel>>

GrabLock14 ==
  /\ pc = "lock14"
  /\ \/ lock14 = None /\ lock14' = "enn" /\ UNCHANGED lock16 /\ Ok("restore")
     \/ lock14 # None /\ GiveUp
  /\ UNCHANGED <<options, mode, memory, kernel>>

\* iptables-restore --noflush, all or nothing.  The daemon's creates the chains
\* it names; cleanup's deletes all of them, and the kernel refuses that while
\* another chain jumps there.
Restored ==
  IF mode = "daemon"
  THEN chains' = ToSet(Hooks) /\ policing' = TRUE
  ELSE /\ \A h \in ToSet(Hooks) : Jump \notin ToSet(rules[h])
       /\ chains' = {} /\ policing' = FALSE

Restore ==
  /\ pc = "restore"
  /\ options.restoreWaits => BinaryFree
  /\ Release
  /\ \/ Restored /\ Ok(After) /\ UNCHANGED <<rules, sets, range, flannel>>
     \/ Fail(After)
     \/ /\ mode = "cleanup" /\ \E h \in ToSet(Hooks) : Jump \in ToSet(rules[h])
        /\ Ok(After) /\ UNCHANGED kernel
  /\ UNCHANGED <<options, mode, memory>>

-----------------------------------------------------------------------------
(* Other programs, with the same locks.                                    *)

OtherRules ==
  /\ BinaryFree
  /\ \E h \in ToSet(Hooks) :
       \/ \E r \in Others \ ToSet(rules[h]) : rules' = [rules EXCEPT ![h] = <<r>> \o @]
       \/ \E i \in DOMAIN rules[h] :
            rules[h][i] \in Others /\ rules' = [rules EXCEPT ![h] = RemoveAt(@, i)]
  /\ UNCHANGED <<options, mode, pc, memory, chains, policing, sets, range, flannel, locks,
                 ghosts, failures>>

OtherLocks ==
  /\ \/ lock16 = None /\ lock16' = "other" /\ UNCHANGED lock14
     \/ lock16 = "other" /\ lock16' = None /\ UNCHANGED lock14
     \/ lock14 = None /\ lock14' = "other" /\ UNCHANGED lock16
     \/ lock14 = "other" /\ lock14' = None /\ UNCHANGED lock16
  /\ UNCHANGED <<options, mode, pc, memory, kernel, ghosts, failures>>

Other == OtherRules \/ OtherLocks

-----------------------------------------------------------------------------
Step ==
  \/ NewChain \/ Exists \/ DeleteJump \/ InsertJump \/ EnsureSets
  \/ DropRange \/ AddRange \/ EnsureFlannel
  \/ List \/ DeleteByIndex \/ HookDone \/ CleanupIPSets
  \/ SaveInto \/ GrabLock16 \/ GrabLock14 \/ Restore

Next ==
  \/ \E m \in {"daemon", "cleanup"} : Start(m)
  \/ \E k \in {"all", "policy", "pods"} : Sync(k)
  \/ Crash \/ Stop \/ Step \/ Other

\* A process that runs goes on, and the ticker of SyncLoop comes again and again.
Fairness == WF_vars(Step) /\ SF_vars(Sync("all"))

Spec == Init /\ [][Next]_vars /\ Fairness

-----------------------------------------------------------------------------
(* Properties                                                              *)

\* Rule r is in a list, and not after s.
Before(list, r, s) == \E i, j \in DOMAIN list : i <= j /\ list[i] = r /\ list[j] = s
Jumps(h) == {i \in DOMAIN rules[h] : rules[h][i] = Jump}
Outdated == pc = "byIndex" /\ listed # rules[Hook]

TypeOK ==
  /\ options \in OptionSets /\ mode \in {"daemon", "cleanup"}
  /\ pc \in {"off", "idle", "newChain", "exists", "delete", "insert", "sets", "dropRange",
             "addRange", "flannel", "list", "byIndex", "destroy", "save", "lock16",
             "lock14", "restore"}
  /\ at \in DOMAIN Hooks /\ kind \in {"all", "policy", "pods"}
  /\ first \in BOOLEAN
  /\ listed \in Seq(Others \cup {Jump}) /\ todo \subseteq 0 .. Len(listed)
  /\ rules \in [ToSet(Hooks) -> Seq(Others \cup {Jump})]
  /\ chains \subseteq ToSet(Hooks) /\ policing \in BOOLEAN /\ sets \in BOOLEAN
  /\ range \in BOOLEAN /\ lock16 \in {"enn", "other", None} /\ lock14 \in {"enn", "other", None}
  /\ untidy \in BOOLEAN /\ failures \in 0 .. MaxFailures /\ crashes \in 0 .. MaxCrashes

(* Each hook has at most one jump, whatever has crashed or failed between  *)
(* PrependUnique's commands, and none to a chain that does not exist; the  *)
(* sets that rules match on exist, and the range's has its entry, if the   *)
(* option is a range as the kernel writes it: for 0.0.0.0/0 no rule        *)
(* matches on the set, and any other is taken out and put in again.        *)
TablesConsistent ==
  /\ \A h \in ToSet(Hooks) : (\A i, j \in Jumps(h) : i = j) /\ (Jumps(h) # {} => h \in chains)
  /\ policing => sets /\ chains = ToSet(Hooks)
  /\ policing /\ failures = 0 /\ options.iPRange = "canonical" => range

(* grabIptablesLocks: iptables-restore runs with both locks held, a lock   *)
(* is kept no longer, and it is given back when the other is not got.      *)
LocksHeld ==
  /\ lock14 = "enn" => lock16 = "enn" /\ pc = "restore"
  /\ lock16 = "enn" => pc \in {"lock14", "restore"}
  /\ pc = "restore" /\ ~options.restoreWaits => lock16 = "enn" /\ lock14 = "enn"

(* ensureFlannelNetSetMember: the set has the first two addresses of every *)
(* network of a node, with carries over all bytes.                         *)
FlannelExact ==
  pc = "save" /\ mode = "daemon" /\ failures = 0 =>
    flannel = IF ~options.acceptFlannel \/ Refused(options.net) THEN {} ELSE Gateways(options.net)

(* user-guide.md:26: cleanup removes all ipset and iptables rules, if no   *)
(* command failed and no list went out of date.                            *)
CleanupComplete ==
  mode = "cleanup" /\ pc = "off" /\ ~untidy =>
    /\ \A h \in ToSet(Hooks) : Jumps(h) = {}
    /\ chains = {} /\ ~policing /\ ~sets

(* Nothing that enn-policy does adds, removes or moves a rule of another   *)
(* program, except for a deletion by an index from a list that is out of   *)
(* date.                                                                   *)
OthersKept ==
  [][Other \/ Outdated \/ \A h \in ToSet(Hooks), r, s \in Others :
                           Before(rules[h], r, s)' <=> Before(rules[h], r, s)]_vars

\* The policies' chains are there and every hook jumps to them, the last one
\* before anything else.
InForce ==
  /\ policing
  /\ \A h \in ToSet(Hooks) : Jumps(h) # {}
  /\ Head(rules[Last(Hooks)]) = Jump

(* A crash or a failure between Delete and Insert leaves a hook without    *)
(* its jump, and other programs put rules before it: a daemon that goes on *)
(* running, with locks that can be had, is in force again and again.       *)
PolicedAgain ==
  <>[](mode = "daemon" /\ pc # "off" /\ lock16 # "other" /\ lock14 # "other") => []<>InForce

(* The locks are waited for two seconds and no longer.                     *)
RestoreEnds == pc \in {"lock16", "lock14"} ~> pc \notin {"lock16", "lock14"}

============================================================================
