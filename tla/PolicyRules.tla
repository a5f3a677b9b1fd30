---------------------------- MODULE PolicyRules ----------------------------
(***************************************************************************)
(* The chains of the filter table that syncPolicyRules (pkg/policy/        *)
(* policy.go) builds from the network policies, and the verdict that a     *)
(* packet meets in them.                                                   *)
(*                                                                         *)
(*   ENN-FORWARD, ENN-OUTPUT -> ENN-INGRESS-<ns>, ENN-EGRESS-<ns>          *)
(*     -> ENN-PLY-IN-<ns>, ENN-PLY-E-<ns>                                  *)
(*       -> ENN-DPATCH-<policy, kind of peer, peer> -> ENN-IPCIDR-<...>    *)
(*                                                                         *)
(* The sets that the rules match on hold what they should (IPSetSync), so  *)
(* they are functions of the cluster here, except the sets of excepted     *)
(* CIDRs, which are written while the rules are built.                     *)
(***************************************************************************)
EXTENDS Naturals, SequencesExt

CONSTANTS
  Addresses, Ports,
  Namespaces,          \* names, as sequences of letters
  Policies,            \* pairs of a namespace and a name, a sequence of letters
  Labels, NamespaceLabels, Cidrs,
  Specs,               \* the specs that each NetworkPolicy may have
  InNamespace,         \* the addresses of the pods of a namespace
  WithLabel,           \* the addresses of the pods of a namespace with a label
  WithNamespaceLabel,  \* the addresses of the pods whose namespace has a label
  InCidr,              \* the addresses of a CIDR
  FlannelNet,          \* the addresses of the nodes' gateways
  OptionSets,          \* whether they are accepted, and the addresses of --ip-range,
                       \* which are all Addresses for 0.0.0.0/0
  None,                \* nil
  MaxFailures          \* bound: commands that fail

Directions == {"Ingress", "Egress"}

\* spec.ingress[] and spec.egress[]: the ports and the From or To peers, each
\* peer with one or more of its three fields.
Peers == [podSelector : (SUBSET Labels) \cup {None},
          namespaceSelector : (SUBSET NamespaceLabels) \cup {None},
          ipBlock : [cidr : Cidrs, except : SUBSET Cidrs] \cup {None}]

ASSUME ClusterAssumption ==
  /\ Policies \subseteq Namespaces \X Seq(STRING)
  /\ InNamespace \in [Namespaces -> SUBSET Addresses]
  /\ WithLabel \in [Namespaces \X Labels -> SUBSET Addresses]
  /\ \A n \in Namespaces, l \in Labels : WithLabel[n, l] \subseteq InNamespace[n]
  /\ WithNamespaceLabel \in [NamespaceLabels -> SUBSET Addresses]
  /\ InCidr \in [Cidrs -> SUBSET Addresses]
  /\ FlannelNet \subseteq Addresses
  /\ OptionSets \subseteq [acceptFlannel : BOOLEAN, iPRange : SUBSET Addresses]
ASSUME SpecsAssumption == \A p \in Policies : \A s \in Specs[p] :
  /\ s.types \in Seq(Directions) /\ s.podSelector \subseteq Labels
  /\ \A d \in Directions : s[d] \in Seq([ports : SUBSET Ports, peers : Seq(Peers)])
ASSUME FiniteAssumption == IsFiniteSet(Ports) /\ IsFiniteSet(Labels) /\ IsFiniteSet(NamespaceLabels)
\* Without it, policies share chains: `bc` of namespace `a` with `c` of `ab`.
ASSUME NamesApartAssumption == \A p, q \in Policies : p[1] \o p[2] = q[1] \o q[2] => p = q
ASSUME MaxFailuresAssumption == MaxFailures \in Nat

-----------------------------------------------------------------------------
(* Names.  A hash of a concatenation is as good as the concatenation.      *)

Owner(p) == p[1] \o p[2]

NamespaceChain(d, n)    == <<IF d = "Ingress" THEN "ENN-INGRESS" ELSE "ENN-EGRESS", n>>
IPRangeChain(d, n)      == <<IF d = "Ingress" THEN "ENN-PLY-IN" ELSE "ENN-PLY-E", n>>
DispatchChain(d, p, match, key) == <<"ENN-DPATCH", Owner(p), d, match, key>>
IPBlockChain(d, p, cidr) == <<"ENN-IPCIDR", Owner(p), d, cidr>>

NamespaceSet(n)         == <<"ENN-NS", n>>
LabelsSet(n, ls)        == <<"ENN-PODSET", n, ls>>
NamespaceLabelSet(g)    == <<"ENN-NSSET", g>>
FlannelSet              == <<"ENN-FLANNEL">>
IPRangeSet              == <<"ENN-RANGEIP">>
ExceptSet(d, p, cidr)   == <<"ENN-IPTSET", Owner(p), d, cidr>>
CidrMatch(cidr)         == <<"cidr", cidr>>

\* nil is not the name of a set.
ASSUME NoneAssumption ==
  /\ \A n \in Namespaces, l \in Labels : LabelsSet(n, {l}) # None
  /\ \A g \in NamespaceLabels : NamespaceLabelSet(g) # None
  /\ \A p \in Policies, d \in Directions, cidr \in Cidrs : ExceptSet(d, p, cidr) # None

EntryChains == {<<"ENN-INPUT">>, <<"ENN-OUTPUT">>, <<"ENN-FORWARD">>}
Accept == <<"ACCEPT">>
Reject == <<"REJECT">>
KubeForward == <<"KUBE-FORWARD">>   \* a chain of another program

\* The prefixes of the chains that syncPolicyRules deletes when they are not in use.
OwnPrefixes == {"ENN-INGRESS", "ENN-EGRESS", "ENN-PLY-IN", "ENN-PLY-E",
                "ENN-DPATCH", "ENN-IPCIDR"}

-----------------------------------------------------------------------------
VARIABLES
  options,
  policies,   \* networkPolicyMap
  step,       \* "idle", or "rules" inside syncPolicyRules
  existing,   \* existingFilterChains
  todo,       \* the policies that the loop has not visited
  skipped,    \* the policies that the loop has left out
  lost,       \* what failed commands have cost: "nothing", "rules" of peers that are
              \* left out, or "sets" that the rules match on
  lines,      \* filterRules: the -A lines of the buffer
  excepts,    \* kernel: the entries of the sets of excepted CIDRs
  kernel,     \* kernel: the rules of every chain
  enforced,   \* ghost: the policies that the last restore enforces; None if unknown
  narrowed,   \* ghost: whether rules of peers were left out of it
  failures    \* failed commands so far

vars == <<options, policies, step, existing, todo, skipped, lost, lines, excepts, kernel,
          enforced, narrowed, failures>>

MaybeSpec(p) == Specs[p] \cup {None}
PolicyMaps == {m \in [Policies -> UNION {MaybeSpec(p) : p \in Policies}] :
                 \A p \in Policies : m[p] \in MaybeSpec(p)}

\* ensureEnnEntry has created the entry chains.
Init ==
  /\ options \in OptionSets
  /\ policies \in PolicyMaps
  /\ step = "idle"
  /\ existing = {}
  /\ todo = {}
  /\ skipped = {}
  /\ lost = "nothing"
  /\ lines = <<>>
  /\ excepts = [s \in {} |-> {}]
  /\ kernel = [c \in EntryChains \cup {KubeForward} |-> <<>>]
  /\ enforced = None
  /\ narrowed = FALSE
  /\ failures = 0

-----------------------------------------------------------------------------
(* buildNetworkPolicyInfo: the peers of a rule, apart by kind.             *)

Present(peers, field) ==
  FlattenSeq([i \in DOMAIN peers |-> IF peers[i][field] = None THEN <<>> ELSE <<peers[i][field]>>])

RuleInfo(rule) ==
  [ports |-> rule.ports,
   podSelector |-> Present(rule.peers, "podSelector"),
   namespaceSelector |-> Present(rule.peers, "namespaceSelector"),
   ipBlock |-> Present(rule.peers, "ipBlock")]

NetworkPolicyInfo(spec) ==
  [types |-> spec.types, podSelector |-> spec.podSelector,
   Ingress |-> [i \in DOMAIN spec.Ingress |-> RuleInfo(spec.Ingress[i])],
   Egress |-> [i \in DOMAIN spec.Egress |-> RuleInfo(spec.Egress[i])]]

-----------------------------------------------------------------------------
(* One policy: the lines that syncIngressRule and syncEgressRule write.    *)

AnyPort == Ports

\* A rule matches on sets for the policy's own side of a packet, which is the
\* destination of an ingress rule, and for the peer's side.
Rule(d, own, peer, ports, target) ==
  [src |-> IF d = "Ingress" THEN peer ELSE own,
   dst |-> IF d = "Ingress" THEN own ELSE peer,
   ports |-> ports, established |-> FALSE, target |-> target]

Line(chain, rule) == [chain |-> chain, rule |-> rule]

\* The chains of a namespace, written for its first policy with this direction.
EntryLines(d, n) ==
  LET jump == Rule(d, {NamespaceSet(n)}, {}, AnyPort, NamespaceChain(d, n))
  IN  <<Line(<<"ENN-FORWARD">>, jump), Line(<<"ENN-OUTPUT">>, jump)>>

FlannelLines(d, n) ==
  IF options.acceptFlannel
  THEN <<Line(NamespaceChain(d, n), Rule(d, {}, {FlannelSet}, AnyPort, Accept))>>
  ELSE <<>>

IPRangeLines(d, n) ==
  LET chain == NamespaceChain(d, n)
      inside(sets) == Line(chain, Rule(d, {}, sets, AnyPort, IPRangeChain(d, n)))
  IN  IF options.iPRange = Addresses THEN <<inside({})>>
      ELSE <<inside({IPRangeSet}), Line(chain, Rule(d, {}, {}, AnyPort, Accept))>>

\* The jump to a dispatch chain and the rules in it, one for each port.
DispatchLines(d, p, info, match, key, peerSets, ports, target) ==
  LET chain == DispatchChain(d, p, match, key)
      own == IF info.podSelector = {} THEN {} ELSE {LabelsSet(p[1], info.podSelector)}
      each == IF ports = {} THEN <<AnyPort>> ELSE SetToSeq({{port} : port \in ports})
  IN  <<Line(IPRangeChain(d, p[1]), Rule(d, {}, {}, AnyPort, chain))>>
        \o [i \in DOMAIN each |-> Line(chain, Rule(d, own, peerSets, each[i], target))]

DispatchOnlyPorts(d, p, info, ports) ==
  DispatchLines(d, p, info, "onlyPorts", "", {}, ports, Accept)

\* The labels of a peer one by one, each with a set and a chain of its own; a
\* label whose set is not created is left out.
DispatchPodSelector(d, p, info, selector, ports, failed) ==
  LET labels == SetToSeq({l \in selector : LabelsSet(p[1], {l}) # failed})
  IN  FlattenSeq([i \in DOMAIN labels |->
        DispatchLines(d, p, info, "podSelector", labels[i],
                      {LabelsSet(p[1], {labels[i]})}, ports, Accept)])

DispatchNamespaceSelector(d, p, info, selector, ports, failed) ==
  LET labels == SetToSeq({g \in selector : NamespaceLabelSet(g) # failed})
  IN  FlattenSeq([i \in DOMAIN labels |->
        DispatchLines(d, p, info, "namespaceSelector", labels[i],
                      {NamespaceLabelSet(labels[i])}, ports, Accept)])

HandleIPBlockChain(d, p, block, failed) ==
  LET chain == IPBlockChain(d, p, block.cidr)
      except == ExceptSet(d, p, block.cidr)
  IN  IF except = failed THEN <<>>
      ELSE <<Line(chain, Rule(d, {}, {except}, AnyPort, Reject)),
             Line(chain, Rule(d, {}, {}, AnyPort, Accept))>>

DispatchIPBlock(d, p, info, block, ports, failed) ==
  DispatchLines(d, p, info, "ipBlock", block.cidr, {CidrMatch(block.cidr)}, ports,
                IPBlockChain(d, p, block.cidr))
    \o HandleIPBlockChain(d, p, block, failed)

\* One ingress[] or egress[] entry.  An entry without peers counts only if it
\* has ports.
RuleLines(d, p, info, rule, failed) ==
  (IF /\ rule.podSelector = <<>> /\ rule.namespaceSelector = <<>> /\ rule.ipBlock = <<>>
      /\ rule.ports # {}
   THEN DispatchOnlyPorts(d, p, info, rule.ports) ELSE <<>>)
  \o FlattenSeq([i \in DOMAIN rule.podSelector |->
       DispatchPodSelector(d, p, info, rule.podSelector[i], rule.ports, failed)])
  \o FlattenSeq([i \in DOMAIN rule.namespaceSelector |->
       DispatchNamespaceSelector(d, p, info, rule.namespaceSelector[i], rule.ports, failed)])
  \o FlattenSeq([i \in DOMAIN rule.ipBlock |->
       DispatchIPBlock(d, p, info, rule.ipBlock[i], rule.ports, failed)])

\* activeFilterChains
Active(ls) ==
  (UNION {{ls[i].chain, ls[i].rule.target} : i \in DOMAIN ls})
    \ (EntryChains \cup {Accept, Reject})

\* syncIngressRule and syncEgressRule
DirectionLines(d, p, info, failed) ==
  (IF NamespaceChain(d, p[1]) \in Active(lines) THEN <<>>
   ELSE EntryLines(d, p[1]) \o FlannelLines(d, p[1]) \o IPRangeLines(d, p[1]))
  \o FlattenSeq([i \in DOMAIN info[d] |-> RuleLines(d, p, info, info[d][i], failed)])

PolicyLines(p, info, failed) ==
  FlattenSeq([i \in DOMAIN info.types |-> DirectionLines(info.types[i], p, info, failed)])

\* The sets that the loop creates for the peers of a policy.
PeerSets(p, info) ==
  UNION {UNION {LET rule == info[d][i] IN
                  {LabelsSet(p[1], {l}) : l \in UNION ToSet(rule.podSelector)}
                  \cup {NamespaceLabelSet(g) : g \in UNION ToSet(rule.namespaceSelector)}
                  \cup {ExceptSet(d, p, b.cidr) : b \in ToSet(rule.ipBlock)}
                : i \in DOMAIN info[d]} : d \in ToSet(info.types)}

\* syncIPSetEntryForNet for every ipBlock: the last one of a set remains.
BlockWrites(d, p, blocks, failed) ==
  FlattenSeq([i \in DOMAIN blocks |->
    LET set == ExceptSet(d, p, blocks[i].cidr) IN
    IF set = failed THEN <<>> ELSE <<[set |-> set, except |-> blocks[i].except]>>])

DirectionWrites(d, p, info, failed) ==
  FlattenSeq([i \in DOMAIN info[d] |-> BlockWrites(d, p, info[d][i].ipBlock, failed)])

ExceptWrites(p, info, failed) ==
  FlattenSeq([i \in DOMAIN info.types |-> DirectionWrites(info.types[i], p, info, failed)])

Written(entries, writes) ==
  LET of(s) == {i \in DOMAIN writes : writes[i].set = s}
      sets == {w.set : w \in ToSet(writes)}
  IN  [s \in DOMAIN entries \cup sets |->
         IF s \in sets THEN writes[Max(of(s))].except ELSE entries[s]]

-----------------------------------------------------------------------------
(* syncPolicyRules                                                         *)

\* iptables-save; a failure is logged and leaves existingFilterChains empty.
SaveInto ==
  \/ existing' = DOMAIN kernel /\ UNCHANGED failures
  \/ failures < MaxFailures /\ existing' = {} /\ failures' = failures + 1

\* Variant: filterRules is not Reset.
BeginKeepingRules(new) ==
  /\ policies' = new
  /\ step' = "rules"
  /\ todo' = {p \in Policies : new[p] # None}
  /\ skipped' = {}
  /\ lost' = "nothing"
  /\ SaveInto
  /\ UNCHANGED <<options, lines, excepts, kernel, enforced, narrowed>>

\* Variant: a deleted policy stays in the map as nil.
BeginWithDeleted(new) ==
  /\ policies' = new
  /\ step' = "rules"
  /\ todo' = Policies
  /\ skipped' = {}
  /\ lost' = "nothing"
  /\ lines' = <<>>
  /\ SaveInto
  /\ UNCHANGED <<options, excepts, kernel, enforced, narrowed>>

Begin(new) ==
  /\ policies' = new
  /\ step' = "rules"
  /\ todo' = {p \in Policies : new[p] # None}
  /\ skipped' = {}
  /\ lost' = "nothing"
  /\ lines' = <<>>
  /\ SaveInto
  /\ UNCHANGED <<options, excepts, kernel, enforced, narrowed>>

\* SYNCNETWORKPOLICY: UpdateNetworkPolicyMap with an added, updated or deleted
\* policy, then syncPolicyRules.
ChangePolicy(p) ==
  /\ step = "idle"
  /\ \E spec \in MaybeSpec(p) \ {policies[p]} : Begin([policies EXCEPT ![p] = spec])

\* SYNCALL and the first synchronization.
Resync ==
  /\ step = "idle"
  /\ Begin(policies)

\* One iteration of the loop over networkPolicyMap, in any order.
SyncPolicy(p) ==
  /\ p \in todo
  /\ todo' = todo \ {p}
  /\ LET info == NetworkPolicyInfo(policies[p]) IN
     \/ /\ lines' = lines \o PolicyLines(p, info, None)
        /\ excepts' = Written(excepts, ExceptWrites(p, info, None))
        /\ UNCHANGED <<skipped, lost, failures>>
     \/ \* the namespace's set is not created
        /\ failures < MaxFailures /\ failures' = failures + 1
        /\ skipped' = skipped \cup {p}
        /\ UNCHANGED <<lines, excepts, lost>>
     \/ \* a set of a peer is not created
        /\ failures < MaxFailures /\ failures' = failures + 1
        /\ \E failed \in PeerSets(p, info) :
             /\ lines' = lines \o PolicyLines(p, info, failed)
             /\ excepts' = Written(excepts, ExceptWrites(p, info, failed))
        /\ lost' = IF lost = "sets" THEN lost ELSE "rules"
        /\ UNCHANGED skipped
     \/ \* a set of the podSelector is not created, or one of CIDRs not filled
        /\ failures < MaxFailures /\ failures' = failures + 1
        /\ info.podSelector # {} \/ ExceptWrites(p, info, None) # <<>>
        /\ lines' = lines \o PolicyLines(p, info, None)
        /\ lost' = "sets"
        /\ UNCHANGED <<excepts, skipped>>
  /\ UNCHANGED <<options, policies, step, existing, kernel, enforced, narrowed>>

Appended(chain) ==
  FlattenSeq([i \in DOMAIN lines |-> IF lines[i].chain = chain THEN <<lines[i].rule>> ELSE <<>>])

\* ENN-PLY-*: established connections first and the default reject last.
Established == [src |-> {}, dst |-> {}, ports |-> AnyPort, established |-> TRUE, target |-> Accept]
DefaultReject == [src |-> {}, dst |-> {}, ports |-> AnyPort, established |-> FALSE, target |-> Reject]

\* Variant: the reject rule inserted with -I too.
ChainRulesRejectInserted(chain) ==
  IF chain[1] \in {"ENN-PLY-IN", "ENN-PLY-E"}
  THEN <<DefaultReject, Established>> \o Appended(chain)
  ELSE Appended(chain)

ChainRules(chain) ==
  IF chain[1] \in {"ENN-PLY-IN", "ENN-PLY-E"}
  THEN <<Established>> \o Appended(chain) \o <<DefaultReject>>
  ELSE Appended(chain)

\* Variant: the chains of ipBlocks forgotten.
UnusedButIPBlocks == {c \in existing \ Active(lines) : c[1] \in OwnPrefixes \ {"ENN-IPCIDR"}}

Unused == {c \in existing \ Active(lines) : c[1] \in OwnPrefixes}

\* iptables-restore --noflush: chain lines empty the chains they name.
Restored ==
  LET named == EntryChains \cup Active(lines)
  IN  [c \in (DOMAIN kernel \ Unused) \cup named |->
         IF c \in named THEN ChainRules(c) ELSE kernel[c]]

Enforced == [p \in Policies |-> IF p \in skipped THEN None ELSE policies[p]]

\* RestoreAll does everything or nothing.  It is refused when a set is missing.
RestoreAll ==
  /\ step = "rules" /\ todo = {}
  /\ step' = "idle"
  /\ \/ /\ kernel' = Restored
        /\ enforced' = IF lost = "sets" THEN None ELSE Enforced
        /\ narrowed' = (lost = "rules")
        /\ UNCHANGED failures
     \/ /\ lost = "sets" \/ failures < MaxFailures
        /\ failures' = IF lost = "sets" THEN failures ELSE failures + 1
        /\ enforced' = None
        /\ UNCHANGED <<kernel, narrowed>>
  /\ UNCHANGED <<options, policies, existing, todo, skipped, lost, lines, excepts>>

Next ==
  \/ \E p \in Policies : ChangePolicy(p) \/ SyncPolicy(p)
  \/ Resync
  \/ RestoreAll

Spec == Init /\ [][Next]_vars

-----------------------------------------------------------------------------
(* Properties                                                              *)

Packets == [src : Addresses, dst : Addresses, port : Ports, established : BOOLEAN]
Hooks == {<<"ENN-FORWARD">>, <<"ENN-OUTPUT">>}

Own(d, packet)  == IF d = "Ingress" THEN packet.dst ELSE packet.src
Peer(d, packet) == IF d = "Ingress" THEN packet.src ELSE packet.dst

Settled == step = "idle" /\ enforced # None

\* The addresses that a set matches, all of them filled as IPSetSync has it.
Members(set) ==
  CASE set[1] = "ENN-NS"      -> InNamespace[set[2]]
    [] set[1] = "ENN-PODSET"  -> {a \in InNamespace[set[2]] : \A l \in set[3] : a \in WithLabel[set[2], l]}
    [] set[1] = "ENN-NSSET"   -> WithNamespaceLabel[set[2]]
    [] set[1] = "ENN-FLANNEL" -> FlannelNet
    [] set[1] = "ENN-RANGEIP" -> options.iPRange
    [] set[1] = "cidr"        -> InCidr[set[2]]
    [] set[1] = "ENN-IPTSET"  -> UNION {InCidr[c] : c \in excepts[set]}

Matches(rule, packet) ==
  /\ \A s \in rule.src : packet.src \in Members(s)
  /\ \A s \in rule.dst : packet.dst \in Members(s)
  /\ packet.port \in rule.ports
  /\ rule.established => packet.established

\* What the kernel does with a packet that enters a chain: the first rule that
\* matches and does not come back decides.
Return == <<"RETURN">>
Verdicts(packet) ==
  LET v[c \in DOMAIN kernel \cup {Accept, Reject}] ==
        LET deciding == {i \in DOMAIN kernel[c] : /\ Matches(kernel[c][i], packet)
                                                 /\ v[kernel[c][i].target] # Return}
        IN  IF c \in {Accept, Reject} THEN c
            ELSE IF deciding = {} THEN Return
            ELSE v[kernel[c][Min(deciding)].target]
  IN  v
Verdict(hook, packet) == Verdicts(packet)[hook]

\* What the fields of a NetworkPolicySpec mean (k8s.io/api/networking/v1).
Selects(p, a) ==
  /\ a \in InNamespace[p[1]]
  /\ \A l \in enforced[p].podSelector : a \in WithLabel[p[1], l]

InBlock(block, a)    == a \in InCidr[block.cidr]
InExcept(block, a)   == a \in UNION {InCidr[c] : c \in block.except}

PeerAllows(n, peer, a) ==
  \/ /\ peer.podSelector # None
     /\ a \in InNamespace[n] /\ \A l \in peer.podSelector : a \in WithLabel[n, l]
  \/ /\ peer.namespaceSelector # None
     /\ \A g \in peer.namespaceSelector : a \in WithNamespaceLabel[g]
  \/ /\ peer.ipBlock # None
     /\ InBlock(peer.ipBlock, a) /\ ~InExcept(peer.ipBlock, a)

PortAllows(rule, packet) == rule.ports = {} \/ packet.port \in rule.ports

Policing(d, n, packet) ==
  {p \in Policies : /\ p[1] = n /\ enforced[p] # None
                    /\ d \in ToSet(enforced[p].types) /\ Selects(p, Own(d, packet))}

Grants(p, d, packet) ==
  \E rule \in ToSet(enforced[p][d]) :
    /\ PortAllows(rule, packet)
    /\ \/ rule.peers = <<>>
       \/ \E peer \in ToSet(rule.peers) : PeerAllows(p[1], peer, Peer(d, packet))

Excepts(p, d, packet) ==
  \E rule \in ToSet(enforced[p][d]) :
    /\ PortAllows(rule, packet)
    /\ \E peer \in ToSet(rule.peers) :
         /\ peer.ipBlock # None
         /\ InBlock(peer.ipBlock, Peer(d, packet)) /\ InExcept(peer.ipBlock, Peer(d, packet))

\* Traffic that the options leave alone, and answers.
Open(d, packet) ==
  \/ options.acceptFlannel /\ Peer(d, packet) \in FlannelNet
  \/ Peer(d, packet) \notin options.iPRange
  \/ packet.established

\* The namespaces that police a packet, on the way in or on the way out.
Judges(packet) ==
  {j \in Directions \X Namespaces :
     /\ Own(j[1], packet) \in InNamespace[j[2]]
     /\ \E p \in Policies : p[1] = j[2] /\ enforced[p] # None /\ j[1] \in ToSet(enforced[p].types)}

\* A namespace with a policy for a direction refuses what none of its policies
\* grants.  An address that one policy excepts may be refused although another
\* grants it: the first to match decides.
Judgement(d, n, packet) ==
  LET policing == Policing(d, n, packet) IN
  IF Open(d, packet) THEN {Accept}
  ELSE {v \in {Accept, Reject} :
          IF \E p \in policing : Grants(p, d, packet)
          THEN v = Reject => narrowed \/ \E p \in policing : Excepts(p, d, packet)
          ELSE v = Reject}

\* The specs of which the code makes what their fields mean.  Of the others it
\* makes something else: a peer without a field is none, the labels of a peer
\* are alternatives, an entry without peers and ports allows nothing, and of two
\* ipBlocks with one CIDR the second has its exceptions hold for the first.
PlainRule(rule) ==
  /\ rule.peers = <<>> => rule.ports # {}
  /\ \A peer \in ToSet(rule.peers) :
       /\ peer.podSelector # None \/ peer.namespaceSelector # None \/ peer.ipBlock # None
       /\ peer.podSelector # None => \E l \in Labels : peer.podSelector = {l}
       /\ peer.namespaceSelector # None => \E g \in NamespaceLabels : peer.namespaceSelector = {g}

Blocks(rule) == {peer.ipBlock : peer \in ToSet(rule.peers)} \ {None}

PlainSpecs ==
  \A p \in Policies, d \in Directions : \A s \in Specs[p] :
    /\ \A rule \in ToSet(s[d]) : PlainRule(rule)
    /\ \A first, second \in ToSet(s[d]) : \A a \in Blocks(first), b \in Blocks(second) :
         a.cidr = b.cidr => a.except = b.except

(* The type of the variables.                                              *)
TypeOK ==
  /\ options \in OptionSets
  /\ policies \in PolicyMaps
  /\ step \in {"idle", "rules"}
  /\ todo \subseteq {p \in Policies : policies[p] # None} /\ skipped \subseteq Policies
  /\ todo # {} => step = "rules"
  /\ lost \in {"nothing", "rules", "sets"} /\ narrowed \in BOOLEAN
  /\ enforced = None \/ enforced \in PolicyMaps
  /\ EntryChains \subseteq DOMAIN kernel
  /\ failures \in 0 .. MaxFailures

(* Chains: no rule jumps to a chain that does not exist, another program's *)
(* chain is never deleted, and after a synchronization that could list the *)
(* chains none of ours is left that no rule jumps to.                      *)
ChainsExact ==
  LET targets == {r.target : r \in UNION {ToSet(kernel[c]) : c \in DOMAIN kernel}} IN
  /\ targets \subseteq DOMAIN kernel \cup {Accept, Reject}
  /\ KubeForward \in DOMAIN kernel
  /\ Settled /\ existing # {} => DOMAIN kernel \subseteq EntryChains \cup {KubeForward} \cup targets

(* Verdicts: once the rules are restored, a packet is judged as one of the *)
(* namespaces at its ends judges it, whatever order the policies, peers    *)
(* and ports were written in, and passes when none of them has a policy.   *)
VerdictsExact ==
  Settled =>
    \A hook \in Hooks, packet \in Packets :
      LET judges == Judges(packet) IN
      IF judges = {} THEN Verdict(hook, packet) = Return
      ELSE Verdict(hook, packet) \in UNION {Judgement(j[1], j[2], packet) : j \in judges}

============================================================================
