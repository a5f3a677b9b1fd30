------------------------ MODULE PolicyVerdicts_proofs ------------------------
(***************************************************************************)
(* Theorem about PolicyRules, for every cluster, any policies that come,   *)
(* change and go and any number of failures: the verdicts of the chains    *)
(* are those of the network policies, if their specs are plain.            *)
(***************************************************************************)
EXTENDS PolicyRules_proofs

(***************************************************************************)
(* What the lines are, apart from how they are written: the lines that a   *)
(* namespace's first policy brings, those of an entry of a policy, and     *)
(* those of an ipBlock.                                                    *)
(***************************************************************************)

HookJump(h, d, n)  == Line(h, Rule(d, {NamespaceSet(n)}, {}, AnyPort, NamespaceChain(d, n)))
FlannelLine(d, n)  == Line(NamespaceChain(d, n), Rule(d, {}, {FlannelSet}, AnyPort, Accept))
RangeSets(opt)     == IF opt.iPRange = Addresses THEN {} ELSE {IPRangeSet}
RangeLine(opt, d, n) ==
  Line(NamespaceChain(d, n), Rule(d, {}, RangeSets(opt), AnyPort, IPRangeChain(d, n)))
OutsideLine(d, n)  == Line(NamespaceChain(d, n), Rule(d, {}, {}, AnyPort, Accept))
HeadSet(opt, d, n) ==
  {HookJump(h, d, n) : h \in Hooks}
  \cup (IF opt.acceptFlannel THEN {FlannelLine(d, n)} ELSE {})
  \cup {RangeLine(opt, d, n)}
  \cup (IF opt.iPRange = Addresses THEN {} ELSE {OutsideLine(d, n)})

\* What a dispatch chain is for: a peer of a rule, or no peer.
PortsEntry    == [match |-> "onlyPorts", key |-> "", sets |-> {}, target |-> Accept]
PodEntry(p, l) ==
  [match |-> "podSelector", key |-> l, sets |-> {LabelsSet(p[1], {l})}, target |-> Accept]
SpaceEntry(g) ==
  [match |-> "namespaceSelector", key |-> g, sets |-> {NamespaceLabelSet(g)}, target |-> Accept]
BlockEntry(d, p, cidr) ==
  [match |-> "ipBlock", key |-> cidr, sets |-> {CidrMatch(cidr)}, target |-> IPBlockChain(d, p, cidr)]

Labelled(rule) == UNION ({peer.podSelector : peer \in ToSet(rule.peers)} \ {None})
Spaced(rule)   == UNION ({peer.namespaceSelector : peer \in ToSet(rule.peers)} \ {None})
EntrySet(d, p, rule, failed) ==
  {e \in {PortsEntry} : rule.peers = <<>> /\ rule.ports # {}}
  \cup {PodEntry(p, l) : l \in {m \in Labelled(rule) : LabelsSet(p[1], {m}) # failed}}
  \cup {SpaceEntry(g) : g \in {m \in Spaced(rule) : NamespaceLabelSet(m) # failed}}
  \cup {BlockEntry(d, p, b.cidr) : b \in Blocks(rule)}

Each(ports) == IF ports = {} THEN {AnyPort} ELSE {{port} : port \in ports}
OwnSets(p, selector) == IF selector = {} THEN {} ELSE {LabelsSet(p[1], selector)}
JumpLine(d, p, e) ==
  Line(IPRangeChain(d, p[1]), Rule(d, {}, {}, AnyPort, DispatchChain(d, p, e.match, e.key)))
PortLine(d, p, selector, e, ports) ==
  Line(DispatchChain(d, p, e.match, e.key), Rule(d, OwnSets(p, selector), e.sets, ports, e.target))
EntryLinesOf(d, p, selector, ports, e) ==
  {JumpLine(d, p, e)} \cup {PortLine(d, p, selector, e, each) : each \in Each(ports)}

RejectLine(d, p, cidr) ==
  Line(IPBlockChain(d, p, cidr), Rule(d, {}, {ExceptSet(d, p, cidr)}, AnyPort, Reject))
AcceptLine(d, p, cidr) == Line(IPBlockChain(d, p, cidr), Rule(d, {}, {}, AnyPort, Accept))

RuleSet(d, p, selector, rule, failed) ==
  (UNION {EntryLinesOf(d, p, selector, rule.ports, e) : e \in EntrySet(d, p, rule, failed)})
  \cup (UNION {{RejectLine(d, p, b.cidr), AcceptLine(d, p, b.cidr)} :
                 b \in {c \in Blocks(rule) : ExceptSet(d, p, c.cidr) # failed}})

(***************************************************************************)
(* The order that the verdicts need: the first of two lines is before      *)
(* every occurrence of the second.                                         *)
(***************************************************************************)
Preceded(s, x, y) == \A j \in DOMAIN s : s[j] = y => \E i \in DOMAIN s : i < j /\ s[i] = x

InOrder(opt) ==
  {<<FlannelLine(j[1], j[2]), RangeLine(opt, j[1], j[2])>> :
      j \in {k \in Directions \X Namespaces : opt.acceptFlannel}}
  \cup {<<RangeLine(opt, j[1], j[2]), OutsideLine(j[1], j[2])>> :
      j \in {k \in Directions \X Namespaces : opt.iPRange # Addresses}}
  \cup {<<RejectLine(j[1], j[2], j[3]), AcceptLine(j[1], j[2], j[3])>> :
      j \in Directions \X Policies \X Cidrs}
Ordered(opt, s) == \A o \in InOrder(opt) : Preceded(s, o[1], o[2])

(***************************************************************************)
(* The buffer, given the policies in it.                                   *)
(***************************************************************************)
Sound(opt, X, m, done) ==
  \A l \in X : \E p \in done : \E d \in ToSet(m[p].types) :
    \/ l \in HeadSet(opt, d, p[1])
    \/ \E rule \in ToSet(m[p][d]) : l \in RuleSet(d, p, m[p].podSelector, rule, None)
Heads(opt, X, m, done) ==
  \A p \in done : \A d \in ToSet(m[p].types) : HeadSet(opt, d, p[1]) \subseteq X
AllRules(X, m, done) ==
  \A p \in done : \A d \in ToSet(m[p].types) : \A rule \in ToSet(m[p][d]) :
    RuleSet(d, p, m[p].podSelector, rule, None) \subseteq X
ExceptsRight(X, m, done, ex) ==
  \A p \in done : \A d \in ToSet(m[p].types) : \A rule \in ToSet(m[p][d]) : \A b \in Blocks(rule) :
    RejectLine(d, p, b.cidr) \in X =>
      ExceptSet(d, p, b.cidr) \in DOMAIN ex /\ ex[ExceptSet(d, p, b.cidr)] = b.except

Done == {p \in Policies : policies[p] # None /\ p \notin todo /\ p \notin skipped}
LinesRight ==
  step = "rules" \/ enforced # None =>
    /\ todo \cap skipped = {}
    /\ IsSeq(lines) /\ Ordered(options, lines)
    /\ Sound(options, ToSet(lines), policies, Done)
    /\ Heads(options, ToSet(lines), policies, Done)
    /\ lost = "nothing" => AllRules(ToSet(lines), policies, Done)
    /\ lost # "sets" => ExceptsRight(ToSet(lines), policies, Done, excepts)

RestoredRight ==
  Settled =>
    /\ \A c \in EntryChains \cup Active(lines) : c \in DOMAIN kernel /\ kernel[c] = ChainRules(c)
    /\ enforced = Enforced /\ todo = {}
    /\ lost # "sets" /\ narrowed = (lost = "rules")

\* How deep the jumps from a chain may go.
Rank(c) == CASE c[1] \in {"ACCEPT", "REJECT"} -> 0
             [] c[1] = "ENN-IPCIDR" -> 1
             [] c[1] = "ENN-DPATCH" -> 2
             [] c[1] \in {"ENN-PLY-IN", "ENN-PLY-E"} -> 3
             [] c[1] \in {"ENN-INGRESS", "ENN-EGRESS"} -> 4
             [] OTHER -> 5
Levelled(k) == \A c \in DOMAIN k : IsSeq(k[c]) /\ \A r \in ToSet(k[c]) : Rank(r.target) < Rank(c)

VerdictsInv == LinesRight /\ RestoredRight /\ Levelled(kernel)

-----------------------------------------------------------------------------
(* Sequences: order, and all that a finite set or a list of peers holds.   *)

LEMMA PrecededConcat ==
  ASSUME NEW s, NEW t, IsSeq(s), IsSeq(t), NEW x, NEW y,
         Preceded(s, x, y), Preceded(t, x, y) \/ x \in ToSet(s)
  PROVE  Preceded(s \o t, x, y)
  <1> DEFINE S == ToSet(s) \cup ToSet(t)
             u == s \o t
  <1>1. s \in Seq(S) /\ t \in Seq(S)
    BY SeqIn
  <1>2. /\ Len(u) = Len(s) + Len(t)
        /\ \A i \in 1 .. Len(s) + Len(t) : u[i] = IF i <= Len(s) THEN s[i] ELSE t[i - Len(s)]
    BY <1>1, ConcatProperties
  <1>3. IsSeq(u)
    BY Concat
  <1>4. /\ Len(s) \in Nat /\ DOMAIN s = 1 .. Len(s)
        /\ Len(t) \in Nat /\ DOMAIN t = 1 .. Len(t)
        /\ DOMAIN u = 1 .. Len(u)
    BY <1>3, SeqDomain
  <1> HIDE DEF u
  <1>5. ASSUME NEW j \in DOMAIN u, u[j] = y
        PROVE  \E i \in DOMAIN u : i < j /\ u[i] = x
    <2>1. CASE j <= Len(s)
      <3>1. j \in DOMAIN s /\ s[j] = y
        BY <1>2, <1>4, <1>5, <2>1
      <3>2. PICK i \in DOMAIN s : i < j /\ s[i] = x
        BY <3>1 DEF Preceded
      <3>3. i \in DOMAIN u /\ u[i] = x
        BY <1>2, <1>4, <3>2
      <3> QED
        BY <3>2, <3>3
    <2>2. CASE ~(j <= Len(s)) /\ x \in ToSet(s)
      <3>1. PICK i \in DOMAIN s : s[i] = x
        BY <2>2 DEF ToSet
      <3>2. i \in DOMAIN u /\ u[i] = x /\ i < j
        BY <1>2, <1>4, <2>2, <3>1
      <3> QED
        BY <3>2
    <2>3. CASE ~(j <= Len(s)) /\ Preceded(t, x, y)
      <3>1. j - Len(s) \in DOMAIN t /\ t[j - Len(s)] = y
        BY <1>2, <1>4, <1>5, <2>3
      <3>2. PICK i \in DOMAIN t : i < j - Len(s) /\ t[i] = x
        BY <2>3, <3>1 DEF Preceded
      <3>3. i + Len(s) \in DOMAIN u /\ u[i + Len(s)] = x /\ i + Len(s) < j
        <4>1. i \in Nat /\ i >= 1 /\ i <= Len(t) /\ j \in Nat
          BY <1>4, <3>2
        <4>2. i + Len(s) \in 1 .. Len(s) + Len(t) /\ ~(i + Len(s) <= Len(s))
              /\ (i + Len(s)) - Len(s) = i
          BY <1>4, <4>1
        <4>3. u[i + Len(s)] = x
          BY <1>2, <3>2, <4>2
        <4> QED
          BY <1>2, <1>4, <3>2, <4>1, <4>2, <4>3
      <3> QED
        BY <3>3
    <2> QED
      BY <2>1, <2>2, <2>3
  <1> QED
    BY <1>5 DEF Preceded, u

LEMMA PrecededAbsent ==
  ASSUME NEW s, NEW x, NEW y, y \notin ToSet(s)
  PROVE  Preceded(s, x, y)
  BY DEF Preceded, ToSet

\* In a sequence of sequences, each one has the first of the two before the
\* second, or some sequence before it has the first.
LEMMA PrecededFlatten ==
  ASSUME NEW s, IsSeq(s), \A i \in DOMAIN s : IsSeq(s[i]), NEW x, NEW y,
         \A i \in DOMAIN s : \/ Preceded(s[i], x, y)
                             \/ \E j \in DOMAIN s : j < i /\ x \in ToSet(s[j])
  PROVE  Preceded(FlattenSeq(s), x, y)
  <1> DEFINE N == Len(s)
  <1>1. N \in Nat /\ DOMAIN s = 1 .. N
    BY SeqDomain
  <1>2. CASE N = 0
    <2>1. s = <<>>
      BY <1>2, EmptySeq DEF IsSeq
    <2>2. FlattenSeq(s) = <<>>
      BY <2>1 DEF FlattenSeq
    <2> QED
      BY <2>2, Empty, PrecededAbsent
  <1>3. CASE N # 0
    <2> DEFINE flat == CHOOSE f : f = [i \in 1 .. N |-> IF i = 1 THEN s[i] ELSE f[i - 1] \o s[i]]
    <2>1. FlattenSeq(s) = flat[N]
      BY <1>3 DEF FlattenSeq
    <2>2. \E f : f = [i \in 1 .. N |-> IF i = 1 THEN s[i] ELSE f[i - 1] \o s[i]]
      BY <1>1, FlattenExists
    <2>3. flat = [i \in 1 .. N |-> IF i = 1 THEN s[i] ELSE flat[i - 1] \o s[i]]
      BY <2>2
    <2> HIDE DEF flat, N
    <2> DEFINE Right(k) == /\ IsSeq(flat[k]) /\ Preceded(flat[k], x, y)
                           /\ \A i \in 1 .. k : ToSet(s[i]) \subseteq ToSet(flat[k])
               bad == {k \in 1 .. N : ~Right(k)}
    <2>4. bad = {}
      <3> SUFFICES ASSUME bad # {} PROVE FALSE
        OBVIOUS
      <3>1. bad \in SUBSET Nat
        OBVIOUS
      <3>2. PICK b \in bad : \A k \in bad : b <= k
        BY <3>1, LeastNumber
      <3>3. b \in 1 .. N /\ ~Right(b) /\ IsSeq(s[b]) /\ b \in DOMAIN s
        BY <1>1
      <3>4. CASE b = 1
        <4>1. flat[b] = s[b]
          BY <2>3, <3>3, <3>4
        <4>2. ~\E j \in DOMAIN s : j < b
          BY <1>1, <3>4
        <4>3. Preceded(s[b], x, y)
          BY <3>3, <4>2
        <4>4. \A i \in 1 .. b : i = b
          BY <3>4
        <4> QED
          BY <3>3, <4>1, <4>3, <4>4
      <3>5. CASE b # 1
        <4>1. b - 1 \in 1 .. N /\ ~(b <= b - 1)
          BY <1>1, <3>3, <3>5
        <4>2. Right(b - 1)
          BY <3>2, <4>1
        <4>3. flat[b] = flat[b - 1] \o s[b]
          BY <2>3, <3>3, <3>5
        <4>4. IsSeq(flat[b]) /\ ToSet(flat[b]) = ToSet(flat[b - 1]) \cup ToSet(s[b])
          BY <3>3, <4>2, <4>3, Concat
        <4>5. \A i \in 1 .. b : i = b \/ i \in 1 .. b - 1
          BY <1>1, <3>3
        <4>6. \A i \in 1 .. b : ToSet(s[i]) \subseteq ToSet(flat[b])
          BY <4>2, <4>4, <4>5
        <4>7. Preceded(s[b], x, y) \/ x \in ToSet(flat[b - 1])
          <5>1. \A j \in DOMAIN s : j < b => j \in 1 .. b - 1
            BY <1>1, <3>3
          <5> QED
            BY <3>3, <4>2, <5>1
        <4>8. Preceded(flat[b], x, y)
          BY <3>3, <4>2, <4>3, <4>7, PrecededConcat
        <4> QED
          BY <3>3, <4>4, <4>6, <4>8
      <3> QED
        BY <3>4, <3>5
    <2>5. N \in 1 .. N
      BY <1>1, <1>3 DEF N
    <2>6. Right(N)
      BY <2>4, <2>5
    <2> QED
      BY <2>1, <2>6
  <1> QED
    BY <1>2, <1>3

\* SetToSeq lists the whole set: as many elements as the set has, all different.
LEMMA AllInSomeOrder ==
  ASSUME NEW S, IsFiniteSet(S)
  PROVE  IsSeq(SetToSeq(S)) /\ ToSet(SetToSeq(S)) = S
  <1> DEFINE n == Cardinality(S)
             f == SetToSeq(S)
  <1>1. n \in Nat /\ ExistsBijection(1 .. n, S)
    BY FS_CardinalityType
  <1>2. \E g \in [1 .. n -> S] : IsInjective(g)
    BY <1>1 DEF ExistsBijection, Bijection, Injection, IsInjective
  <1>3. f \in [1 .. n -> S] /\ IsInjective(f)
    BY <1>2 DEF SetToSeq
  <1> HIDE DEF f, n
  <1>4. ToSet(f) \subseteq S /\ IsFiniteSet(ToSet(f))
    <2>1. ToSet(f) \subseteq S
      BY <1>3 DEF ToSet
    <2> QED
      BY <2>1, FS_Subset
  <1>5. f \in Bijection(1 .. n, ToSet(f))
    BY <1>3 DEF Bijection, Injection, Surjection, IsInjective, ToSet
  <1>6. Cardinality(ToSet(f)) = n
    <2>1. ExistsBijection(1 .. n, ToSet(f))
      BY <1>5 DEF ExistsBijection
    <2> QED
      BY <1>1, <1>4, <2>1, FS_CountingElements
  <1>7. ToSet(f) = S
    BY <1>4, <1>6, FS_Subset DEF n
  <1> QED
    BY <1>7, InSomeOrder DEF f

LEMMA EmptyList ==
  ASSUME NEW s, IsSeq(s)
  PROVE  s = <<>> <=> ToSet(s) = {}
  <1>1. Len(s) \in Nat /\ DOMAIN s = 1 .. Len(s)
    BY SeqDomain
  <1>2. ASSUME ToSet(s) = {} PROVE s = <<>>
    <2>1. Len(s) = 0
      <3> SUFFICES ASSUME Len(s) # 0 PROVE FALSE
        OBVIOUS
      <3>1. 1 \in DOMAIN s
        BY <1>1
      <3> QED
        BY <1>2, <3>1 DEF ToSet
    <2> QED
      BY <2>1, EmptySeq DEF IsSeq
  <1> QED
    BY <1>2, Empty

\* The peers' fields of one kind.
LEMMA PresentExact ==
  ASSUME NEW peers, IsSeq(peers), NEW field
  PROVE  /\ IsSeq(Present(peers, field))
         /\ ToSet(Present(peers, field)) = {peer[field] : peer \in ToSet(peers)} \ {None}
  <1> DEFINE each == [i \in DOMAIN peers |->
                        IF peers[i][field] = None THEN <<>> ELSE <<peers[i][field]>>]
             s == Present(peers, field)
  <1>1. IsSeq(each) /\ DOMAIN each = DOMAIN peers
    BY Mapped
  <1>2. ASSUME NEW i \in DOMAIN peers
        PROVE  IsSeq(each[i]) /\ ToSet(each[i]) = {peers[i][field]} \ {None}
    <2>1. CASE peers[i][field] = None
      <3>1. each[i] = <<>>
        BY <2>1
      <3> QED
        BY <2>1, <3>1, Empty
    <2>2. CASE peers[i][field] # None
      <3>1. each[i] = <<peers[i][field]>>
        BY <2>2
      <3>2. IsSeq(<<peers[i][field]>>) /\ ToSet(<<peers[i][field]>>) = {peers[i][field]}
        BY One
      <3> QED
        BY <2>2, <3>1, <3>2
    <2> QED
      BY <2>1, <2>2
  <1>3. s = FlattenSeq(each)
    BY DEF Present
  <1> HIDE DEF each, s
  <1>4. IsSeq(s) /\ \A e : e \in ToSet(s) <=> \E i \in DOMAIN each : e \in ToSet(each[i])
    BY <1>1, <1>2, <1>3, Flatten
  <1>5. \A e : e \in ToSet(s) <=> \E i \in DOMAIN peers : e \in {peers[i][field]} \ {None}
    BY <1>1, <1>2, <1>4
  <1>6. \A e : e \in ToSet(s) <=> e \in {peer[field] : peer \in ToSet(peers)} \ {None}
    BY <1>5 DEF ToSet
  <1> QED
    BY <1>4, <1>6 DEF s

-----------------------------------------------------------------------------
(* Order of lines.                                                         *)

LEMMA InOrderFacts ==
  ASSUME NEW opt, NEW o \in InOrder(opt)
  PROVE  o[2].chain[1] \in {"ENN-INGRESS", "ENN-EGRESS", "ENN-IPCIDR"}
  <1>1. CASE \E j \in Directions \X Namespaces : o = <<FlannelLine(j[1], j[2]), RangeLine(opt, j[1], j[2])>>
    BY <1>1, LineFields, KindsOfChains DEF RangeLine
  <1>2. CASE \E j \in Directions \X Namespaces : o = <<RangeLine(opt, j[1], j[2]), OutsideLine(j[1], j[2])>>
    BY <1>2, LineFields, KindsOfChains DEF OutsideLine
  <1>3. CASE \E j \in Directions \X Policies \X Cidrs :
               o = <<RejectLine(j[1], j[2], j[3]), AcceptLine(j[1], j[2], j[3])>>
    <2>1. PICK j \in Directions \X Policies \X Cidrs :
                 o = <<RejectLine(j[1], j[2], j[3]), AcceptLine(j[1], j[2], j[3])>>
      BY <1>3
    <2>2. o[2].chain = IPBlockChain(j[1], j[2], j[3])
      BY <2>1, LineFields DEF AcceptLine
    <2> QED
      BY <2>2 DEF IPBlockChain
  <1> QED
    BY <1>1, <1>2, <1>3 DEF InOrder

LEMMA OrderedFree ==
  ASSUME NEW opt, NEW s,
         \A l \in ToSet(s) : l.chain[1] \notin {"ENN-INGRESS", "ENN-EGRESS", "ENN-IPCIDR"}
  PROVE  Ordered(opt, s)
  <1>1. ASSUME NEW o \in InOrder(opt) PROVE Preceded(s, o[1], o[2])
    BY InOrderFacts, PrecededAbsent
  <1> QED
    BY <1>1 DEF Ordered

LEMMA OrderedConcat ==
  ASSUME NEW opt, NEW s, NEW t, IsSeq(s), IsSeq(t), Ordered(opt, s), Ordered(opt, t)
  PROVE  Ordered(opt, s \o t)
  BY PrecededConcat DEF Ordered

LEMMA OrderedFlatten ==
  ASSUME NEW opt, NEW s, IsSeq(s), \A i \in DOMAIN s : IsSeq(s[i]) /\ Ordered(opt, s[i])
  PROVE  Ordered(opt, FlattenSeq(s))
  <1>1. ASSUME NEW o \in InOrder(opt) PROVE Preceded(FlattenSeq(s), o[1], o[2])
    <2>1. \A i \in DOMAIN s : Preceded(s[i], o[1], o[2])
      BY DEF Ordered
    <2> QED
      BY <2>1, PrecededFlatten
  <1> QED
    BY <1>1 DEF Ordered

\* A list of lines that is in order and has exactly the lines X.
Holds(opt, s, X) == IsSeq(s) /\ Ordered(opt, s) /\ ToSet(s) = X

LEMMA HoldsNone ==
  ASSUME NEW opt
  PROVE  Holds(opt, <<>>, {})
  BY Empty, OrderedFree DEF Holds

LEMMA HoldsConcat ==
  ASSUME NEW opt, NEW s, NEW t, NEW X, NEW Y, Holds(opt, s, X), Holds(opt, t, Y)
  PROVE  Holds(opt, s \o t, X \cup Y)
  BY Concat, OrderedConcat DEF Holds

LEMMA HoldsFlatten ==
  ASSUME NEW opt, NEW s, IsSeq(s), NEW Z, \A i \in DOMAIN s : Holds(opt, s[i], Z[i])
  PROVE  Holds(opt, FlattenSeq(s), UNION {Z[i] : i \in DOMAIN s})
  <1>1. \A i \in DOMAIN s : IsSeq(s[i]) /\ Ordered(opt, s[i]) /\ ToSet(s[i]) = Z[i]
    BY DEF Holds
  <1>2. IsSeq(FlattenSeq(s)) /\ \A l : l \in ToSet(FlattenSeq(s)) <=> \E i \in DOMAIN s : l \in ToSet(s[i])
    BY <1>1, Flatten
  <1>3. Ordered(opt, FlattenSeq(s))
    BY <1>1, OrderedFlatten
  <1>4. \A l : l \in ToSet(FlattenSeq(s)) <=> l \in UNION {Z[i] : i \in DOMAIN s}
    BY <1>1, <1>2
  <1> QED
    BY <1>2, <1>3, <1>4 DEF Holds

\* The same, of a set that is known by its elements.
LEMMA HoldsJoin ==
  ASSUME NEW opt, NEW s, IsSeq(s), NEW X, \A i \in DOMAIN s : IsSeq(s[i]) /\ Ordered(opt, s[i]),
         \A l : l \in X <=> \E i \in DOMAIN s : l \in ToSet(s[i])
  PROVE  Holds(opt, FlattenSeq(s), X)
  <1>1. IsSeq(FlattenSeq(s)) /\ \A l : l \in ToSet(FlattenSeq(s)) <=> \E i \in DOMAIN s : l \in ToSet(s[i])
    BY Flatten
  <1>2. Ordered(opt, FlattenSeq(s))
    BY OrderedFlatten
  <1>3. \A l : l \in ToSet(FlattenSeq(s)) <=> l \in X
    BY <1>1
  <1>4. ToSet(FlattenSeq(s)) = X
    BY <1>3
  <1> QED
    BY <1>1, <1>2, <1>4 DEF Holds

-----------------------------------------------------------------------------
(* The lines of a rule are those of its entries and ipBlocks.               *)

LEMMA EachPorts ==
  ASSUME NEW ports \in SUBSET Ports
  PROVE  LET each == IF ports = {} THEN <<AnyPort>> ELSE SetToSeq({{port} : port \in ports})
         IN  IsSeq(each) /\ ToSet(each) = Each(ports)
  <1>1. CASE ports = {}
    BY <1>1, One DEF Each
  <1>2. CASE ports # {}
    <2>1. IsFiniteSet(ports)
      BY FiniteAssumption, FS_Subset
    <2>2. IsFiniteSet({{port} : port \in ports})
      <3> DEFINE single == [port \in ports |-> {port}]
      <3>1. single \in Surjection(ports, {{port} : port \in ports})
        BY DEF Surjection
      <3> QED
        BY <2>1, <3>1, FS_Surjection
    <2> QED
      BY <1>2, <2>2, AllInSomeOrder DEF Each
  <1> QED
    BY <1>1, <1>2

LEMMA DispatchHolds ==
  ASSUME NEW opt, NEW d \in Directions, NEW p, NEW info, NEW e, NEW ports \in SUBSET Ports
  PROVE  Holds(opt, DispatchLines(d, p, info, e.match, e.key, e.sets, ports, e.target),
               EntryLinesOf(d, p, info.podSelector, ports, e))
  <1> DEFINE s == DispatchLines(d, p, info, e.match, e.key, e.sets, ports, e.target)
             chain == DispatchChain(d, p, e.match, e.key)
             own == IF info.podSelector = {} THEN {} ELSE {LabelsSet(p[1], info.podSelector)}
             each == IF ports = {} THEN <<AnyPort>> ELSE SetToSeq({{port} : port \in ports})
             rules == [i \in DOMAIN each |-> Line(chain, Rule(d, own, e.sets, each[i], e.target))]
  <1>1. s = <<JumpLine(d, p, e)>> \o rules
    BY DEF DispatchLines, JumpLine
  <1>2. IsSeq(each) /\ ToSet(each) = Each(ports)
    BY EachPorts
  <1>3. \A x : Line(chain, Rule(d, own, e.sets, x, e.target)) = PortLine(d, p, info.podSelector, e, x)
    BY DEF PortLine, OwnSets
  <1> HIDE DEF each, own
  <1>4. IsSeq(rules) /\ DOMAIN rules = DOMAIN each
    BY <1>2, Mapped
  <1>5. ToSet(rules) = {PortLine(d, p, info.podSelector, e, x) : x \in Each(ports)}
    <2>1. \A i \in DOMAIN each : rules[i] = PortLine(d, p, info.podSelector, e, each[i])
      BY <1>3
    <2> HIDE DEF rules
    <2>2. ToSet(rules) = {PortLine(d, p, info.podSelector, e, x) : x \in ToSet(each)}
      BY <1>4, <2>1, Zenon DEF ToSet
    <2> QED
      BY <1>2, <2>2
  <1> HIDE DEF rules, s
  <1>6. IsSeq(s) /\ ToSet(s) = EntryLinesOf(d, p, info.podSelector, ports, e)
    BY <1>1, <1>4, <1>5, One, Concat DEF EntryLinesOf
  <1>7. ASSUME NEW l \in EntryLinesOf(d, p, info.podSelector, ports, e)
        PROVE  l.chain[1] \notin {"ENN-INGRESS", "ENN-EGRESS", "ENN-IPCIDR"}
    <2>1. l.chain \in {IPRangeChain(d, p[1]), chain}
      BY <1>7, LineFields DEF EntryLinesOf, JumpLine, PortLine
    <2>2. chain[1] = "ENN-DPATCH" /\ IPRangeChain(d, p[1])[1] \in {"ENN-PLY-IN", "ENN-PLY-E"}
      BY KindsOfChains
    <2> QED
      BY <2>1, <2>2
  <1>8. Ordered(opt, s)
    BY <1>6, <1>7, OrderedFree
  <1> QED
    BY <1>6, <1>8 DEF Holds, s

\* The lines of the labels X of peers, and of their namespaces'.
PodSet(d, p, selector, ports, X, failed) ==
  UNION {EntryLinesOf(d, p, selector, ports, PodEntry(p, l)) :
           l \in {m \in X : LabelsSet(p[1], {m}) # failed}}
SpaceSet(d, p, selector, ports, X, failed) ==
  UNION {EntryLinesOf(d, p, selector, ports, SpaceEntry(g)) :
           g \in {m \in X : NamespaceLabelSet(m) # failed}}

LEMMA PodSelectorHolds ==
  ASSUME NEW opt, NEW d \in Directions, NEW p, NEW info, NEW selector \in SUBSET Labels,
         NEW ports \in SUBSET Ports, NEW failed
  PROVE  Holds(opt, DispatchPodSelector(d, p, info, selector, ports, failed),
               PodSet(d, p, info.podSelector, ports, selector, failed))
  <1> DEFINE V == {l \in selector : LabelsSet(p[1], {l}) # failed}
             labels == SetToSeq(V)
             each == [i \in DOMAIN labels |->
                        DispatchLines(d, p, info, "podSelector", labels[i],
                                      {LabelsSet(p[1], {labels[i]})}, ports, Accept)]
             of(l) == EntryLinesOf(d, p, info.podSelector, ports, PodEntry(p, l))
             Z == [i \in DOMAIN labels |-> of(labels[i])]
  <1>1. DispatchPodSelector(d, p, info, selector, ports, failed) = FlattenSeq(each)
    BY DEF DispatchPodSelector
  <1>2. IsSeq(labels) /\ ToSet(labels) = V
    <2>1. IsFiniteSet(V)
      BY FiniteAssumption, FS_Subset
    <2> QED
      BY <2>1, AllInSomeOrder
  <1> HIDE DEF labels
  <1>3. IsSeq(each) /\ DOMAIN each = DOMAIN labels
    BY <1>2, Mapped
  <1>4. \A i \in DOMAIN labels : Holds(opt, each[i], Z[i])
    <2> TAKE i \in DOMAIN labels
    <2> DEFINE e == PodEntry(p, labels[i])
    <2>1. e.match = "podSelector" /\ e.key = labels[i] /\ e.sets = {LabelsSet(p[1], {labels[i]})}
          /\ e.target = Accept
      BY DEF PodEntry
    <2>2. each[i] = DispatchLines(d, p, info, e.match, e.key, e.sets, ports, e.target)
      BY <2>1
    <2>3. Z[i] = EntryLinesOf(d, p, info.podSelector, ports, e)
      OBVIOUS
    <2> HIDE DEF e, each, Z
    <2> QED
      BY <2>2, <2>3, DispatchHolds
  <1> HIDE DEF each
  <1>5. Holds(opt, FlattenSeq(each), UNION {Z[i] : i \in DOMAIN each})
    <2> HIDE DEF Z
    <2> QED
      BY <1>3, <1>4, HoldsFlatten
  <1>6. UNION {Z[i] : i \in DOMAIN each} = UNION {of(l) : l \in ToSet(labels)}
    <2> HIDE DEF of
    <2> QED
      BY <1>3 DEF ToSet
  <1> QED
    BY <1>1, <1>2, <1>5, <1>6 DEF PodSet

LEMMA NamespaceSelectorHolds ==
  ASSUME NEW opt, NEW d \in Directions, NEW p, NEW info, NEW selector \in SUBSET NamespaceLabels,
         NEW ports \in SUBSET Ports, NEW failed
  PROVE  Holds(opt, DispatchNamespaceSelector(d, p, info, selector, ports, failed),
               SpaceSet(d, p, info.podSelector, ports, selector, failed))
  <1> DEFINE V == {g \in selector : NamespaceLabelSet(g) # failed}
             labels == SetToSeq(V)
             each == [i \in DOMAIN labels |->
                        DispatchLines(d, p, info, "namespaceSelector", labels[i],
                                      {NamespaceLabelSet(labels[i])}, ports, Accept)]
             of(g) == EntryLinesOf(d, p, info.podSelector, ports, SpaceEntry(g))
             Z == [i \in DOMAIN labels |-> of(labels[i])]
  <1>1. DispatchNamespaceSelector(d, p, info, selector, ports, failed) = FlattenSeq(each)
    BY DEF DispatchNamespaceSelector
  <1>2. IsSeq(labels) /\ ToSet(labels) = V
    <2>1. IsFiniteSet(V)
      BY FiniteAssumption, FS_Subset
    <2> QED
      BY <2>1, AllInSomeOrder
  <1> HIDE DEF labels
  <1>3. IsSeq(each) /\ DOMAIN each = DOMAIN labels
    BY <1>2, Mapped
  <1>4. \A i \in DOMAIN labels : Holds(opt, each[i], Z[i])
    <2> TAKE i \in DOMAIN labels
    <2> DEFINE e == SpaceEntry(labels[i])
    <2>1. e.match = "namespaceSelector" /\ e.key = labels[i] /\ e.sets = {NamespaceLabelSet(labels[i])}
          /\ e.target = Accept
      BY DEF SpaceEntry
    <2>2. each[i] = DispatchLines(d, p, info, e.match, e.key, e.sets, ports, e.target)
      BY <2>1
    <2>3. Z[i] = EntryLinesOf(d, p, info.podSelector, ports, e)
      OBVIOUS
    <2> HIDE DEF e, each, Z
    <2> QED
      BY <2>2, <2>3, DispatchHolds
  <1> HIDE DEF each
  <1>5. Holds(opt, FlattenSeq(each), UNION {Z[i] : i \in DOMAIN each})
    <2> HIDE DEF Z
    <2> QED
      BY <1>3, <1>4, HoldsFlatten
  <1>6. UNION {Z[i] : i \in DOMAIN each} = UNION {of(g) : g \in ToSet(labels)}
    <2> HIDE DEF of
    <2> QED
      BY <1>3 DEF ToSet
  <1> QED
    BY <1>1, <1>2, <1>5, <1>6 DEF SpaceSet

\* The reject rule of an ipBlock is before its accept rule.
LEMMA BlockChainHolds ==
  ASSUME NEW opt, NEW d \in Directions, NEW p, NEW block, NEW failed
  PROVE  Holds(opt, HandleIPBlockChain(d, p, block, failed),
               IF ExceptSet(d, p, block.cidr) = failed THEN {}
               ELSE {RejectLine(d, p, block.cidr), AcceptLine(d, p, block.cidr)})
  <1> DEFINE chain == IPBlockChain(d, p, block.cidr)
             a == RejectLine(d, p, block.cidr)
             b == AcceptLine(d, p, block.cidr)
             s == <<a, b>>
  <1>1. HandleIPBlockChain(d, p, block, failed) =
          IF ExceptSet(d, p, block.cidr) = failed THEN <<>> ELSE s
    BY DEF HandleIPBlockChain, RejectLine, AcceptLine
  <1>2. a.chain = chain /\ b.chain = chain /\ a.rule.target = Reject /\ b.rule.target = Accept
    BY LineFields DEF RejectLine, AcceptLine
  <1>3. a # b /\ chain[1] = "ENN-IPCIDR"
    <2>1. Accept # Reject
      BY DEF Accept, Reject
    <2> QED
      BY <1>2, <2>1 DEF IPBlockChain
  <1>4. ASSUME NEW o \in InOrder(opt), o[2] = b PROVE o[1] = a
    <2>1. CASE \E j \in Directions \X Policies \X Cidrs :
                 o = <<RejectLine(j[1], j[2], j[3]), AcceptLine(j[1], j[2], j[3])>>
      <3>1. PICK j \in Directions \X Policies \X Cidrs :
                 o = <<RejectLine(j[1], j[2], j[3]), AcceptLine(j[1], j[2], j[3])>>
        BY <2>1
      <3>2. AcceptLine(j[1], j[2], j[3]).chain = chain
        BY <1>2, <1>4, <3>1
      <3>3. IPBlockChain(j[1], j[2], j[3]) = chain
        BY <3>2, LineFields DEF AcceptLine
      <3>4. Owner(j[2]) = Owner(p) /\ j[1] = d /\ j[3] = block.cidr
        BY <3>3 DEF IPBlockChain
      <3>5. RejectLine(j[1], j[2], j[3]) = a
        BY <3>3, <3>4 DEF RejectLine, ExceptSet
      <3> QED
        BY <3>1, <3>5
    <2>2. CASE \E j \in Directions \X Namespaces : o = <<FlannelLine(j[1], j[2]), RangeLine(opt, j[1], j[2])>>
      <3>1. PICK j \in Directions \X Namespaces : o = <<FlannelLine(j[1], j[2]), RangeLine(opt, j[1], j[2])>>
        BY <2>2
      <3>2. chain = NamespaceChain(j[1], j[2])
        BY <1>2, <1>4, <3>1, LineFields DEF RangeLine
      <3> QED
        BY <1>3, <3>2, KindsOfChains
    <2>3. CASE \E j \in Directions \X Namespaces : o = <<RangeLine(opt, j[1], j[2]), OutsideLine(j[1], j[2])>>
      <3>1. PICK j \in Directions \X Namespaces : o = <<RangeLine(opt, j[1], j[2]), OutsideLine(j[1], j[2])>>
        BY <2>3
      <3>2. chain = NamespaceChain(j[1], j[2])
        BY <1>2, <1>4, <3>1, LineFields DEF OutsideLine
      <3> QED
        BY <1>3, <3>2, KindsOfChains
    <2> QED
      BY <2>1, <2>2, <2>3 DEF InOrder
  <1>5. ASSUME NEW o \in InOrder(opt), o[2] = a PROVE FALSE
    <2>1. CASE \E j \in Directions \X Policies \X Cidrs :
                 o = <<RejectLine(j[1], j[2], j[3]), AcceptLine(j[1], j[2], j[3])>>
      <3>1. PICK j \in Directions \X Policies \X Cidrs :
                 o = <<RejectLine(j[1], j[2], j[3]), AcceptLine(j[1], j[2], j[3])>>
        BY <2>1
      <3>2. AcceptLine(j[1], j[2], j[3]).rule.target = Accept
        BY LineFields DEF AcceptLine
      <3> QED
        BY <1>2, <1>5, <3>1, <3>2 DEF Accept, Reject
    <2>2. CASE \E j \in Directions \X Namespaces : o = <<FlannelLine(j[1], j[2]), RangeLine(opt, j[1], j[2])>>
      <3>1. PICK j \in Directions \X Namespaces : o = <<FlannelLine(j[1], j[2]), RangeLine(opt, j[1], j[2])>>
        BY <2>2
      <3>2. chain = NamespaceChain(j[1], j[2])
        BY <1>2, <1>5, <3>1, LineFields DEF RangeLine
      <3> QED
        BY <1>3, <3>2, KindsOfChains
    <2>3. CASE \E j \in Directions \X Namespaces : o = <<RangeLine(opt, j[1], j[2]), OutsideLine(j[1], j[2])>>
      <3>1. PICK j \in Directions \X Namespaces : o = <<RangeLine(opt, j[1], j[2]), OutsideLine(j[1], j[2])>>
        BY <2>3
      <3>2. chain = NamespaceChain(j[1], j[2])
        BY <1>2, <1>5, <3>1, LineFields DEF OutsideLine
      <3> QED
        BY <1>3, <3>2, KindsOfChains
    <2> QED
      BY <2>1, <2>2, <2>3 DEF InOrder
  <1> HIDE DEF a, b, chain
  <1>6. s[1] = a /\ s[2] = b /\ DOMAIN s = 1 .. 2
    <2>1. s \in Seq({a, b}) /\ Len(s) = 2 /\ s[1] = a /\ s[2] = b
      OBVIOUS
    <2> QED
      BY <2>1, LenProperties
  <1>7. Ordered(opt, s)
    <2> HIDE DEF s
    <2> SUFFICES ASSUME NEW o \in InOrder(opt), NEW j \in DOMAIN s, s[j] = o[2]
                 PROVE  \E i \in DOMAIN s : i < j /\ s[i] = o[1]
      BY DEF Ordered, Preceded
    <2>1. j = 2
      BY <1>5, <1>6
    <2>2. o[1] = a
      BY <1>4, <1>6, <2>1
    <2> QED
      BY <1>6, <2>1, <2>2
  <1>8. Holds(opt, s, {a, b})
    BY <1>7, Two DEF Holds
  <1> QED
    BY <1>1, <1>8, HoldsNone DEF a, b

LEMMA BlockHolds ==
  ASSUME NEW opt, NEW d \in Directions, NEW p, NEW info, NEW block, NEW ports \in SUBSET Ports, NEW failed
  PROVE  Holds(opt, DispatchIPBlock(d, p, info, block, ports, failed),
               EntryLinesOf(d, p, info.podSelector, ports, BlockEntry(d, p, block.cidr))
               \cup (IF ExceptSet(d, p, block.cidr) = failed THEN {}
                     ELSE {RejectLine(d, p, block.cidr), AcceptLine(d, p, block.cidr)}))
  <1> DEFINE e == BlockEntry(d, p, block.cidr)
             s == DispatchLines(d, p, info, e.match, e.key, e.sets, ports, e.target)
             t == HandleIPBlockChain(d, p, block, failed)
  <1>1. DispatchIPBlock(d, p, info, block, ports, failed) = s \o t
    BY DEF DispatchIPBlock, BlockEntry
  <1>2. Holds(opt, s, EntryLinesOf(d, p, info.podSelector, ports, e))
    <2> HIDE DEF e
    <2> QED
      BY DispatchHolds
  <1> DEFINE Y == IF ExceptSet(d, p, block.cidr) = failed THEN {}
                  ELSE {RejectLine(d, p, block.cidr), AcceptLine(d, p, block.cidr)}
  <1>3. Holds(opt, t, Y)
    BY BlockChainHolds
  <1> HIDE DEF s, t, Y, e
  <1>4. Holds(opt, s \o t, EntryLinesOf(d, p, info.podSelector, ports, e) \cup Y)
    BY <1>2, <1>3, HoldsConcat
  <1> QED
    BY <1>1, <1>4 DEF Y, e

\* What buildNetworkPolicyInfo keeps of the peers, kind by kind.
LEMMA RuleInfoExact ==
  ASSUME NEW rule \in [ports : SUBSET Ports, peers : Seq(Peers)]
  PROVE  LET r == RuleInfo(rule) IN
         /\ IsRuleInfo(r) /\ r.ports = rule.ports
         /\ UNION ToSet(r.podSelector) = Labelled(rule)
         /\ UNION ToSet(r.namespaceSelector) = Spaced(rule)
         /\ ToSet(r.ipBlock) = Blocks(rule)
         /\ PlainRule(rule) =>
              (r.podSelector = <<>> /\ r.namespaceSelector = <<>> /\ r.ipBlock = <<>> <=> rule.peers = <<>>)
  <1> DEFINE r == RuleInfo(rule)
             of(field) == Present(rule.peers, field)
  <1>1. IsRuleInfo(r)
    BY RuleInfoFacts
  <1>2. r.ports = rule.ports /\ r.podSelector = of("podSelector")
        /\ r.namespaceSelector = of("namespaceSelector") /\ r.ipBlock = of("ipBlock")
    BY DEF RuleInfo
  <1>3. IsSeq(rule.peers)
    BY SeqFacts
  <1>4. \A field : /\ IsSeq(of(field))
                   /\ ToSet(of(field)) = {peer[field] : peer \in ToSet(rule.peers)} \ {None}
    BY <1>3, PresentExact
  <1> HIDE DEF of, r
  <1>5. /\ ToSet(r.podSelector) = {peer.podSelector : peer \in ToSet(rule.peers)} \ {None}
        /\ ToSet(r.namespaceSelector) = {peer.namespaceSelector : peer \in ToSet(rule.peers)} \ {None}
        /\ ToSet(r.ipBlock) = {peer.ipBlock : peer \in ToSet(rule.peers)} \ {None}
    BY <1>2, <1>4
  <1>6. /\ UNION ToSet(r.podSelector) = Labelled(rule)
        /\ UNION ToSet(r.namespaceSelector) = Spaced(rule)
        /\ ToSet(r.ipBlock) = Blocks(rule)
    BY <1>5 DEF Labelled, Spaced, Blocks
  <1>7. /\ r.podSelector = <<>> <=> ToSet(r.podSelector) = {}
        /\ r.namespaceSelector = <<>> <=> ToSet(r.namespaceSelector) = {}
        /\ r.ipBlock = <<>> <=> ToSet(r.ipBlock) = {}
        /\ rule.peers = <<>> <=> ToSet(rule.peers) = {}
    BY <1>2, <1>3, <1>4, EmptyList
  <1>8. ASSUME PlainRule(rule)
        PROVE  r.podSelector = <<>> /\ r.namespaceSelector = <<>> /\ r.ipBlock = <<>> <=> rule.peers = <<>>
    <2>1. \A peer \in ToSet(rule.peers) :
            peer.podSelector # None \/ peer.namespaceSelector # None \/ peer.ipBlock # None
      BY <1>8 DEF PlainRule
    <2>2. ASSUME NEW peer \in ToSet(rule.peers)
          PROVE  ~(ToSet(r.podSelector) = {} /\ ToSet(r.namespaceSelector) = {} /\ ToSet(r.ipBlock) = {})
      BY <1>5, <2>1
    <2>3. ToSet(rule.peers) = {} => ToSet(r.podSelector) = {} /\ ToSet(r.namespaceSelector) = {} /\ ToSet(r.ipBlock) = {}
      BY <1>5
    <2> QED
      BY <1>7, <2>2, <2>3
  <1> QED
    BY <1>1, <1>2, <1>6, <1>8 DEF r

\* Lists of peers of one kind.
LEMMA PodSelectorsHold ==
  ASSUME NEW opt, NEW d \in Directions, NEW p, NEW info, NEW selectors, IsSeq(selectors),
         \A i \in DOMAIN selectors : selectors[i] \in SUBSET Labels,
         NEW ports \in SUBSET Ports, NEW failed
  PROVE  Holds(opt, FlattenSeq([i \in DOMAIN selectors |->
                      DispatchPodSelector(d, p, info, selectors[i], ports, failed)]),
               PodSet(d, p, info.podSelector, ports, UNION ToSet(selectors), failed))
  <1> DEFINE each == [i \in DOMAIN selectors |->
                        DispatchPodSelector(d, p, info, selectors[i], ports, failed)]
             of(X) == PodSet(d, p, info.podSelector, ports, X, failed)
             U == UNION ToSet(selectors)
  <1>1. IsSeq(each) /\ DOMAIN each = DOMAIN selectors
    BY Mapped
  <1>2. \A i \in DOMAIN selectors : Holds(opt, each[i], of(selectors[i]))
    <2> TAKE i \in DOMAIN selectors
    <2>1. selectors[i] \in SUBSET Labels
      OBVIOUS
    <2>2. Holds(opt, DispatchPodSelector(d, p, info, selectors[i], ports, failed), of(selectors[i]))
      BY <2>1, PodSelectorHolds
    <2>3. each[i] = DispatchPodSelector(d, p, info, selectors[i], ports, failed)
      OBVIOUS
    <2> HIDE DEF each, of
    <2> QED
      BY <2>2, <2>3
  <1> HIDE DEF each
  <1>3. \A X, x : x \in of(X) <=> \E l \in X : x \in of({l})
    BY DEF PodSet
  <1>4. \A l : l \in U <=> \E i \in DOMAIN selectors : l \in selectors[i]
    BY DEF ToSet
  <1> HIDE DEF of, U
  <1>5. \A i \in DOMAIN each : IsSeq(each[i]) /\ Ordered(opt, each[i]) /\ ToSet(each[i]) = of(selectors[i])
    BY <1>1, <1>2 DEF Holds
  <1>6. ASSUME NEW x PROVE x \in of(U) <=> \E i \in DOMAIN each : x \in ToSet(each[i])
    <2>1. x \in of(U) <=> \E l \in U : x \in of({l})
      BY <1>3
    <2>2. \A i \in DOMAIN selectors : x \in of(selectors[i]) <=> \E l \in selectors[i] : x \in of({l})
      BY <1>3
    <2>3. x \in of(U) <=> \E i \in DOMAIN selectors : x \in of(selectors[i])
      BY <1>4, <2>1, <2>2, Zenon
    <2> QED
      BY <1>1, <1>5, <2>3
  <1>7. Holds(opt, FlattenSeq(each), of(U))
    BY <1>1, <1>5, <1>6, HoldsJoin
  <1> QED
    BY <1>7 DEF each, of, U

LEMMA NamespaceSelectorsHold ==
  ASSUME NEW opt, NEW d \in Directions, NEW p, NEW info, NEW selectors, IsSeq(selectors),
         \A i \in DOMAIN selectors : selectors[i] \in SUBSET NamespaceLabels,
         NEW ports \in SUBSET Ports, NEW failed
  PROVE  Holds(opt, FlattenSeq([i \in DOMAIN selectors |->
                      DispatchNamespaceSelector(d, p, info, selectors[i], ports, failed)]),
               SpaceSet(d, p, info.podSelector, ports, UNION ToSet(selectors), failed))
  <1> DEFINE each == [i \in DOMAIN selectors |->
                        DispatchNamespaceSelector(d, p, info, selectors[i], ports, failed)]
             of(X) == SpaceSet(d, p, info.podSelector, ports, X, failed)
             U == UNION ToSet(selectors)
  <1>1. IsSeq(each) /\ DOMAIN each = DOMAIN selectors
    BY Mapped
  <1>2. \A i \in DOMAIN selectors : Holds(opt, each[i], of(selectors[i]))
    <2> TAKE i \in DOMAIN selectors
    <2>1. selectors[i] \in SUBSET NamespaceLabels
      OBVIOUS
    <2>2. Holds(opt, DispatchNamespaceSelector(d, p, info, selectors[i], ports, failed), of(selectors[i]))
      BY <2>1, NamespaceSelectorHolds
    <2>3. each[i] = DispatchNamespaceSelector(d, p, info, selectors[i], ports, failed)
      OBVIOUS
    <2> HIDE DEF each, of
    <2> QED
      BY <2>2, <2>3
  <1> HIDE DEF each
  <1>3. \A X, x : x \in of(X) <=> \E g \in X : x \in of({g})
    BY DEF SpaceSet
  <1>4. \A g : g \in U <=> \E i \in DOMAIN selectors : g \in selectors[i]
    BY DEF ToSet
  <1> HIDE DEF of, U
  <1>5. \A i \in DOMAIN each : IsSeq(each[i]) /\ Ordered(opt, each[i]) /\ ToSet(each[i]) = of(selectors[i])
    BY <1>1, <1>2 DEF Holds
  <1>6. ASSUME NEW x PROVE x \in of(U) <=> \E i \in DOMAIN each : x \in ToSet(each[i])
    <2>1. x \in of(U) <=> \E g \in U : x \in of({g})
      BY <1>3
    <2>2. \A i \in DOMAIN selectors : x \in of(selectors[i]) <=> \E g \in selectors[i] : x \in of({g})
      BY <1>3
    <2>3. x \in of(U) <=> \E i \in DOMAIN selectors : x \in of(selectors[i])
      BY <1>4, <2>1, <2>2, Zenon
    <2> QED
      BY <1>1, <1>5, <2>3
  <1>7. Holds(opt, FlattenSeq(each), of(U))
    BY <1>1, <1>5, <1>6, HoldsJoin
  <1> QED
    BY <1>7 DEF each, of, U

\* The lines of an ipBlock: its entry and the rules of its own chain.
BlockSet(d, p, selector, ports, block, failed) ==
  EntryLinesOf(d, p, selector, ports, BlockEntry(d, p, block.cidr))
  \cup (IF ExceptSet(d, p, block.cidr) = failed THEN {}
        ELSE {RejectLine(d, p, block.cidr), AcceptLine(d, p, block.cidr)})
BlocksSet(d, p, selector, ports, B, failed) == UNION {BlockSet(d, p, selector, ports, b, failed) : b \in B}

LEMMA BlocksHold ==
  ASSUME NEW opt, NEW d \in Directions, NEW p, NEW info, NEW blocks, IsSeq(blocks),
         NEW ports \in SUBSET Ports, NEW failed
  PROVE  Holds(opt, FlattenSeq([i \in DOMAIN blocks |->
                      DispatchIPBlock(d, p, info, blocks[i], ports, failed)]),
               BlocksSet(d, p, info.podSelector, ports, ToSet(blocks), failed))
  <1> DEFINE of(b) == BlockSet(d, p, info.podSelector, ports, b, failed)
             each == [i \in DOMAIN blocks |-> DispatchIPBlock(d, p, info, blocks[i], ports, failed)]
             Z == [i \in DOMAIN blocks |-> of(blocks[i])]
  <1>1. IsSeq(each) /\ DOMAIN each = DOMAIN blocks
    BY Mapped
  <1>2. \A i \in DOMAIN blocks : Holds(opt, each[i], Z[i])
    <2> TAKE i \in DOMAIN blocks
    <2>1. each[i] = DispatchIPBlock(d, p, info, blocks[i], ports, failed) /\ Z[i] = of(blocks[i])
      OBVIOUS
    <2> HIDE DEF each, Z
    <2> QED
      BY <2>1, BlockHolds DEF BlockSet
  <1> HIDE DEF each
  <1>3. Holds(opt, FlattenSeq(each), UNION {Z[i] : i \in DOMAIN each})
    <2> HIDE DEF Z, of
    <2>1. \A i \in DOMAIN each : Holds(opt, each[i], Z[i])
      BY <1>1, <1>2
    <2>2. IsSeq(each)
      BY <1>1
    <2> QED
      BY ONLY <2>1, <2>2, HoldsFlatten
  <1> HIDE DEF of
  <1>4. UNION {Z[i] : i \in DOMAIN each} = UNION {of(b) : b \in ToSet(blocks)}
    BY <1>1 DEF ToSet
  <1> QED
    BY <1>3, <1>4 DEF each, of, BlocksSet

LEMMA OnlyPortsHolds ==
  ASSUME NEW opt, NEW d \in Directions, NEW p, NEW info, NEW ports \in SUBSET Ports
  PROVE  Holds(opt, DispatchOnlyPorts(d, p, info, ports),
               EntryLinesOf(d, p, info.podSelector, ports, PortsEntry))
  <1> DEFINE e == PortsEntry
  <1>1. DispatchOnlyPorts(d, p, info, ports) =
          DispatchLines(d, p, info, e.match, e.key, e.sets, ports, e.target)
    BY DEF DispatchOnlyPorts, PortsEntry
  <1> HIDE DEF e
  <1>2. Holds(opt, DispatchOnlyPorts(d, p, info, ports), EntryLinesOf(d, p, info.podSelector, ports, e))
    BY <1>1, DispatchHolds
  <1> QED
    BY <1>2 DEF e

LEMMA RuleHolds ==
  ASSUME NEW opt, NEW d \in Directions, NEW p, NEW info,
         NEW rule \in [ports : SUBSET Ports, peers : Seq(Peers)], PlainRule(rule), NEW failed
  PROVE  Holds(opt, RuleLines(d, p, info, RuleInfo(rule), failed),
               RuleSet(d, p, info.podSelector, rule, failed))
  <1> DEFINE r == RuleInfo(rule)
             of(e) == EntryLinesOf(d, p, info.podSelector, rule.ports, e)
             only == IF /\ r.podSelector = <<>> /\ r.namespaceSelector = <<>>
                        /\ r.ipBlock = <<>> /\ r.ports # {}
                     THEN DispatchOnlyPorts(d, p, info, r.ports) ELSE <<>>
             pods == FlattenSeq([i \in DOMAIN r.podSelector |->
                        DispatchPodSelector(d, p, info, r.podSelector[i], r.ports, failed)])
             spaces == FlattenSeq([i \in DOMAIN r.namespaceSelector |->
                          DispatchNamespaceSelector(d, p, info, r.namespaceSelector[i],
                                                    r.ports, failed)])
             blocks == FlattenSeq([i \in DOMAIN r.ipBlock |->
                          DispatchIPBlock(d, p, info, r.ipBlock[i], r.ports, failed)])
             O == {e \in {PortsEntry} : rule.peers = <<>> /\ rule.ports # {}}
             L == {m \in Labelled(rule) : LabelsSet(p[1], {m}) # failed}
             G == {m \in Spaced(rule) : NamespaceLabelSet(m) # failed}
             two(b) == {RejectLine(d, p, b.cidr), AcceptLine(d, p, b.cidr)}
             kept(b) == ExceptSet(d, p, b.cidr) # failed
             XO == UNION {of(e) : e \in O}
             XL == PodSet(d, p, info.podSelector, rule.ports, Labelled(rule), failed)
             XG == SpaceSet(d, p, info.podSelector, rule.ports, Spaced(rule), failed)
             XB == BlocksSet(d, p, info.podSelector, rule.ports, Blocks(rule), failed)
  <1>1. RuleLines(d, p, info, r, failed) = ((only \o pods) \o spaces) \o blocks
    BY DEF RuleLines
  <1>2. /\ IsRuleInfo(r) /\ r.ports = rule.ports
        /\ UNION ToSet(r.podSelector) = Labelled(rule)
        /\ UNION ToSet(r.namespaceSelector) = Spaced(rule)
        /\ ToSet(r.ipBlock) = Blocks(rule)
        /\ r.podSelector = <<>> /\ r.namespaceSelector = <<>> /\ r.ipBlock = <<>> <=> rule.peers = <<>>
    BY RuleInfoExact
  <1>3. rule.ports \in SUBSET Ports
    OBVIOUS
  <1> HIDE DEF r
  <1>4. Holds(opt, only, XO)
    <2>1. CASE rule.peers = <<>> /\ rule.ports # {}
      <3>1. only = DispatchOnlyPorts(d, p, info, rule.ports) /\ XO = of(PortsEntry)
        BY <1>2, <2>1
      <3> HIDE DEF only, XO
      <3> QED
        BY <1>3, <3>1, OnlyPortsHolds
    <2>2. CASE ~(rule.peers = <<>> /\ rule.ports # {})
      <3>1. only = <<>> /\ XO = {}
        BY <1>2, <2>2
      <3> HIDE DEF only, XO
      <3> QED
        BY <3>1, HoldsNone
    <2> QED
      BY <2>1, <2>2
  <1>5. Holds(opt, pods, XL)
    <2>1. IsSeq(r.podSelector) /\ \A i \in DOMAIN r.podSelector : r.podSelector[i] \in SUBSET Labels
      BY <1>2 DEF IsRuleInfo
    <2>2. Holds(opt, pods, PodSet(d, p, info.podSelector, r.ports, UNION ToSet(r.podSelector), failed))
      BY <1>2, <1>3, <2>1, PodSelectorsHold
    <2> HIDE DEF pods
    <2> QED
      BY <1>2, <2>2
  <1>6. Holds(opt, spaces, XG)
    <2>1. IsSeq(r.namespaceSelector)
          /\ \A i \in DOMAIN r.namespaceSelector : r.namespaceSelector[i] \in SUBSET NamespaceLabels
      BY <1>2 DEF IsRuleInfo
    <2>2. Holds(opt, spaces,
                SpaceSet(d, p, info.podSelector, r.ports, UNION ToSet(r.namespaceSelector), failed))
      BY <1>2, <1>3, <2>1, NamespaceSelectorsHold
    <2> HIDE DEF spaces
    <2> QED
      BY <1>2, <2>2
  <1>7. Holds(opt, blocks, XB)
    <2>1. IsSeq(r.ipBlock)
      BY <1>2 DEF IsRuleInfo
    <2>2. Holds(opt, blocks,
                BlocksSet(d, p, info.podSelector, r.ports, ToSet(r.ipBlock), failed))
      BY <1>2, <1>3, <2>1, BlocksHold
    <2> HIDE DEF blocks
    <2> QED
      BY <1>2, <2>2
  <1> HIDE DEF only, pods, spaces, blocks
  <1>8. Holds(opt, RuleLines(d, p, info, r, failed), ((XO \cup XL) \cup XG) \cup XB)
    <2> HIDE DEF XO, XL, XG, XB
    <2>1. Holds(opt, only \o pods, XO \cup XL)
      BY <1>4, <1>5, HoldsConcat
    <2>2. Holds(opt, (only \o pods) \o spaces, (XO \cup XL) \cup XG)
      BY <1>6, <2>1, HoldsConcat
    <2> QED
      BY <1>1, <1>7, <2>2, HoldsConcat
  <1>9. ((XO \cup XL) \cup XG) \cup XB = RuleSet(d, p, info.podSelector, rule, failed)
    <2> DEFINE BB == {BlockEntry(d, p, b.cidr) : b \in Blocks(rule)}
               PL == {PodEntry(p, l) : l \in L}
               SG == {SpaceEntry(g) : g \in G}
               K == {c \in Blocks(rule) : kept(c)}
    <2>1. EntrySet(d, p, rule, failed) = ((O \cup PL) \cup SG) \cup BB
      BY DEF EntrySet
    <2>2. RuleSet(d, p, info.podSelector, rule, failed) =
            (UNION {of(e) : e \in ((O \cup PL) \cup SG) \cup BB}) \cup (UNION {two(b) : b \in K})
      <3> HIDE DEF O, PL, SG, BB
      <3> QED
        BY <2>1 DEF RuleSet
    <2>3. XB = (UNION {of(e) : e \in BB}) \cup (UNION {two(b) : b \in K})
      <3>1. \A b : BlockSet(d, p, info.podSelector, rule.ports, b, failed) =
                     of(BlockEntry(d, p, b.cidr)) \cup (IF kept(b) THEN two(b) ELSE {})
        BY DEF BlockSet
      <3> HIDE DEF of, kept, two
      <3>2. \A x : x \in XB <=> \E b \in Blocks(rule) :
                     x \in of(BlockEntry(d, p, b.cidr)) \/ (kept(b) /\ x \in two(b))
        BY <3>1 DEF BlocksSet
      <3>3. \A x : x \in UNION {of(e) : e \in BB} <=> \E b \in Blocks(rule) : x \in of(BlockEntry(d, p, b.cidr))
        OBVIOUS
      <3>4. \A x : x \in UNION {two(b) : b \in K} <=> \E b \in Blocks(rule) : kept(b) /\ x \in two(b)
        OBVIOUS
      <3> HIDE DEF XB, BB, K
      <3> QED
        BY <3>2, <3>3, <3>4
    <2>4. XL = UNION {of(e) : e \in PL}
      <3>1. XL = UNION {of(PodEntry(p, l)) : l \in L}
        BY DEF PodSet
      <3> HIDE DEF XL, of, L
      <3> QED
        BY <3>1
    <2>5. XG = UNION {of(e) : e \in SG}
      <3>1. XG = UNION {of(SpaceEntry(g)) : g \in G}
        BY DEF SpaceSet
      <3> HIDE DEF XG, of, G
      <3> QED
        BY <3>1
    <2> HIDE DEF XL, XG, XB, PL, SG, BB, O, of, two, K
    <2> QED
      BY <2>2, <2>3, <2>4, <2>5 DEF XO
  <1> QED
    BY <1>8, <1>9 DEF r

-----------------------------------------------------------------------------
(* The lines that a namespace's first policy with a direction brings.      *)

LEMMA ChainNames ==
  ASSUME NEW d \in Directions, NEW e \in Directions, NEW n, NEW m
  PROVE  /\ NamespaceChain(d, n) = NamespaceChain(e, m) => d = e /\ n = m
         /\ IPRangeChain(d, n) = IPRangeChain(e, m) => d = e /\ n = m
  BY DEF NamespaceChain, IPRangeChain, Directions

LEMMA HeadOrder ==
  ASSUME NEW opt, NEW d \in Directions, NEW n, NEW o \in InOrder(opt)
  PROVE  /\ o[2] = RangeLine(opt, d, n) => o[1] = FlannelLine(d, n) /\ opt.acceptFlannel
         /\ o[2] = OutsideLine(d, n) => o[1] = RangeLine(opt, d, n)
         /\ o[2] # FlannelLine(d, n)
  <1> DEFINE c == NamespaceChain(d, n)
             r == IPRangeChain(d, n)
  <1>1. /\ RangeLine(opt, d, n).chain = c /\ RangeLine(opt, d, n).rule.target = r
        /\ OutsideLine(d, n).chain = c /\ OutsideLine(d, n).rule.target = Accept
        /\ FlannelLine(d, n).chain = c /\ FlannelLine(d, n).rule.target = Accept
    BY LineFields DEF RangeLine, OutsideLine, FlannelLine
  <1>2. c[1] \in {"ENN-INGRESS", "ENN-EGRESS"} /\ r[1] \in {"ENN-PLY-IN", "ENN-PLY-E"} /\ Accept[1] = "ACCEPT"
    BY KindsOfChains
  <1>3. r # Accept
    BY <1>2
  <1>4. OutsideLine(d, n) # FlannelLine(d, n)
    BY DEF OutsideLine, FlannelLine, Line, Rule, FlannelSet
  <1> HIDE DEF c, r
  <1>5. CASE \E j \in {k \in Directions \X Namespaces : opt.acceptFlannel} :
               o = <<FlannelLine(j[1], j[2]), RangeLine(opt, j[1], j[2])>>
    <2>1. PICK j \in Directions \X Namespaces :
                 o = <<FlannelLine(j[1], j[2]), RangeLine(opt, j[1], j[2])>> /\ opt.acceptFlannel
      BY <1>5
    <2>2. PICK e \in Directions, m \in Namespaces :
                 o = <<FlannelLine(e, m), RangeLine(opt, e, m)>> /\ opt.acceptFlannel
      BY <2>1
    <2>3. o[1] = FlannelLine(e, m) /\ o[2] = RangeLine(opt, e, m)
      BY <2>2
    <2>4. o[2].chain = NamespaceChain(e, m) /\ o[2].rule.target = IPRangeChain(e, m)
      BY <2>3, LineFields DEF RangeLine
    <2>5. IPRangeChain(e, m)[1] \in {"ENN-PLY-IN", "ENN-PLY-E"}
      BY KindsOfChains
    <2>6. o[2].rule.target # Accept
      BY <1>2, <2>4, <2>5
    <2>7. o[2].chain = c => e = d /\ m = n
      BY <2>4, ChainNames DEF c
    <2> QED
      BY <1>1, <2>2, <2>3, <2>6, <2>7
  <1>6. CASE \E j \in {k \in Directions \X Namespaces : opt.iPRange # Addresses} :
               o = <<RangeLine(opt, j[1], j[2]), OutsideLine(j[1], j[2])>>
    <2>1. PICK e \in Directions, m \in Namespaces : o = <<RangeLine(opt, e, m), OutsideLine(e, m)>>
      BY <1>6
    <2>2. o[1] = RangeLine(opt, e, m) /\ o[2] = OutsideLine(e, m)
      BY <2>1
    <2>3. o[2].chain = NamespaceChain(e, m) /\ o[2].rule.target = Accept
      BY <2>2, LineFields DEF OutsideLine
    <2>4. o[2].chain = c => e = d /\ m = n
      BY <2>3, ChainNames DEF c
    <2> QED
      BY <1>1, <1>3, <1>4, <2>2, <2>3, <2>4
  <1>7. CASE \E j \in Directions \X Policies \X Cidrs :
               o = <<RejectLine(j[1], j[2], j[3]), AcceptLine(j[1], j[2], j[3])>>
    <2>1. PICK j \in Directions \X Policies \X Cidrs :
                 o = <<RejectLine(j[1], j[2], j[3]), AcceptLine(j[1], j[2], j[3])>>
      BY <1>7
    <2>2. o[2].chain = IPBlockChain(j[1], j[2], j[3])
      BY <2>1, LineFields DEF AcceptLine
    <2>3. o[2].chain # c
      BY <1>2, <2>2 DEF IPBlockChain
    <2> QED
      BY <1>1, <2>3
  <1> QED
    BY <1>5, <1>6, <1>7 DEF InOrder

LEMMA HeadHolds ==
  ASSUME NEW d \in Directions, NEW n
  PROVE  Holds(options, (EntryLines(d, n) \o FlannelLines(d, n)) \o IPRangeLines(d, n),
               HeadSet(options, d, n))
  <1> DEFINE entry == EntryLines(d, n)
             flannel == FlannelLines(d, n)
             range == IPRangeLines(d, n)
             h1 == HookJump(<<"ENN-FORWARD">>, d, n)
             h2 == HookJump(<<"ENN-OUTPUT">>, d, n)
             f == FlannelLine(d, n)
             r == RangeLine(options, d, n)
             o == OutsideLine(d, n)
             F == IF options.acceptFlannel THEN {f} ELSE {}
             R == IF options.iPRange = Addresses THEN {r} ELSE {r, o}
  <1>1. entry = <<h1, h2>>
    BY DEF EntryLines, HookJump
  <1>2. flannel = IF options.acceptFlannel THEN <<f>> ELSE <<>>
    BY DEF FlannelLines, FlannelLine
  <1>3. range = IF options.iPRange = Addresses THEN <<r>> ELSE <<r, o>>
    BY DEF IPRangeLines, RangeLine, OutsideLine, RangeSets
  <1>4. h1.chain[1] = "ENN-FORWARD" /\ h2.chain[1] = "ENN-OUTPUT"
    BY LineFields DEF HookJump
  <1>5. r # o
    <2>1. r.rule.target = IPRangeChain(d, n) /\ o.rule.target = Accept
      BY LineFields DEF RangeLine, OutsideLine
    <2>2. IPRangeChain(d, n)[1] \in {"ENN-PLY-IN", "ENN-PLY-E"} /\ Accept[1] = "ACCEPT"
      BY KindsOfChains
    <2> QED
      BY <2>1, <2>2
  <1>6. HeadSet(options, d, n) = ({h1, h2} \cup F) \cup R
    <2>1. {HookJump(h, d, n) : h \in Hooks} = {h1, h2}
      BY DEF Hooks
    <2> QED
      BY <2>1 DEF HeadSet
  <1>7. \A p \in InOrder(options) : /\ p[2] = r => p[1] = f /\ options.acceptFlannel
                                    /\ p[2] = o => p[1] = r
                                    /\ p[2] # f
    BY HeadOrder
  <1> HIDE DEF entry, flannel, range, h1, h2, f, r, o
  <1>8. Holds(options, entry, {h1, h2})
    <2>1. IsSeq(entry) /\ ToSet(entry) = {h1, h2}
      BY <1>1, Two
    <2>2. Ordered(options, entry)
      BY <1>4, <2>1, OrderedFree
    <2> QED
      BY <2>1, <2>2 DEF Holds
  <1>9. Holds(options, flannel, F)
    <2>1. IsSeq(flannel) /\ ToSet(flannel) = F
      BY <1>2, One, Empty
    <2>2. ASSUME NEW p \in InOrder(options) PROVE Preceded(flannel, p[1], p[2])
      <3>1. p[2] \notin ToSet(flannel)
        BY <1>7, <2>1
      <3> QED
        BY <3>1, PrecededAbsent
    <2> QED
      BY <2>1, <2>2 DEF Holds, Ordered
  <1>10. Holds(options, entry \o flannel, {h1, h2} \cup F)
    <2> HIDE DEF F
    <2> QED
      BY <1>8, <1>9, HoldsConcat
  <1>11. IsSeq(range) /\ ToSet(range) = R
    BY <1>3, One, Two
  <1>12. ASSUME NEW p \in InOrder(options)
         PROVE  Preceded(range, p[1], p[2]) \/ p[1] \in ToSet(entry \o flannel)
    <2>1. CASE p[2] = r
      BY <1>7, <1>10, <2>1 DEF Holds
    <2>2. CASE p[2] = o /\ options.iPRange # Addresses
      <3>1. p[1] = r /\ range = <<r, o>>
        BY <1>3, <1>7, <2>2
      <3>2. DOMAIN range = 1 .. 2 /\ range[1] = r /\ range[2] = o
        <4>1. <<r, o>> \in Seq({r, o}) /\ Len(<<r, o>>) = 2 /\ <<r, o>>[1] = r /\ <<r, o>>[2] = o
          OBVIOUS
        <4> QED
          BY <3>1, <4>1, LenProperties
      <3> QED
        BY <1>5, <2>2, <3>1, <3>2 DEF Preceded
    <2>3. CASE p[2] \notin R
      BY <1>11, <2>3, PrecededAbsent
    <2> QED
      BY <2>1, <2>2, <2>3
  <1>13. IsSeq(entry \o flannel) /\ Ordered(options, entry \o flannel)
         /\ ToSet(entry \o flannel) = {h1, h2} \cup F
    BY <1>10 DEF Holds
  <1>14. Ordered(options, (entry \o flannel) \o range)
    <2> SUFFICES ASSUME NEW p \in InOrder(options)
                 PROVE  Preceded((entry \o flannel) \o range, p[1], p[2])
      BY DEF Ordered
    <2>1. Preceded(entry \o flannel, p[1], p[2])
      BY <1>13 DEF Ordered
    <2> QED
      BY <1>11, <1>12, <1>13, <2>1, PrecededConcat
  <1> HIDE DEF F, R
  <1>15. Holds(options, (entry \o flannel) \o range, ({h1, h2} \cup F) \cup R)
    BY <1>11, <1>13, <1>14, Concat DEF Holds
  <1> QED
    BY <1>6, <1>15 DEF entry, flannel, range

-----------------------------------------------------------------------------
(* The lines of a policy.                                                  *)

\* The rules of a policy for a direction, and its lines.
DirectionSet(d, p, spec, failed) ==
  UNION {RuleSet(d, p, spec.podSelector, rule, failed) : rule \in ToSet(spec[d])}
NewHead(opt, d, n, active) == IF NamespaceChain(d, n) \in active THEN {} ELSE HeadSet(opt, d, n)
PolicySet(opt, p, spec, failed, active) ==
  UNION {NewHead(opt, d, p[1], active) \cup DirectionSet(d, p, spec, failed) : d \in ToSet(spec.types)}

LEMMA SpecFacts ==
  ASSUME NEW p \in Policies, NEW spec \in Specs[p]
  PROVE  /\ IsSeq(spec.types) /\ ToSet(spec.types) \subseteq Directions
         /\ spec.podSelector \subseteq Labels
         /\ \A d \in Directions : /\ IsSeq(spec[d])
                                  /\ ToSet(spec[d]) \subseteq [ports : SUBSET Ports, peers : Seq(Peers)]
  BY SpecsAssumption, SeqFacts

LEMMA InfoRules ==
  ASSUME NEW p \in Policies, NEW spec \in Specs[p]
  PROVE  LET info == NetworkPolicyInfo(spec) IN
         /\ info.types = spec.types /\ info.podSelector = spec.podSelector
         /\ \A d \in Directions : /\ DOMAIN info[d] = DOMAIN spec[d]
                                  /\ \A i \in DOMAIN spec[d] : info[d][i] = RuleInfo(spec[d][i])
  BY DEF NetworkPolicyInfo, Directions

LEMMA DirectionHolds ==
  ASSUME PlainSpecs, NEW p \in Policies, NEW spec \in Specs[p], NEW d \in Directions, NEW failed
  PROVE  Holds(options, DirectionLines(d, p, NetworkPolicyInfo(spec), failed),
               NewHead(options, d, p[1], Active(lines)) \cup DirectionSet(d, p, spec, failed))
  <1> DEFINE info == NetworkPolicyInfo(spec)
             head == IF NamespaceChain(d, p[1]) \in Active(lines) THEN <<>>
                     ELSE (EntryLines(d, p[1]) \o FlannelLines(d, p[1])) \o IPRangeLines(d, p[1])
             each == [i \in DOMAIN info[d] |-> RuleLines(d, p, info, info[d][i], failed)]
             X == DirectionSet(d, p, spec, failed)
             H == NewHead(options, d, p[1], Active(lines))
             of(rule) == RuleSet(d, p, spec.podSelector, rule, failed)
  <1>1. DirectionLines(d, p, info, failed) = head \o FlattenSeq(each)
    BY DEF DirectionLines
  <1>2. /\ info.podSelector = spec.podSelector /\ DOMAIN info[d] = DOMAIN spec[d]
        /\ \A i \in DOMAIN spec[d] : info[d][i] = RuleInfo(spec[d][i])
    BY InfoRules
  <1>3. IsSeq(info[d])
    BY InfoFacts DEF IsInfo
  <1>4. \A i \in DOMAIN spec[d] : /\ spec[d][i] \in ToSet(spec[d])
                                  /\ spec[d][i] \in [ports : SUBSET Ports, peers : Seq(Peers)]
                                  /\ PlainRule(spec[d][i])
    <2>1. \A i \in DOMAIN spec[d] : spec[d][i] \in ToSet(spec[d])
      BY DEF ToSet
    <2>2. \A rule \in ToSet(spec[d]) : PlainRule(rule)
      BY DEF PlainSpecs
    <2> QED
      BY <2>1, <2>2, SpecFacts
  <1> HIDE DEF info
  <1>5. Holds(options, head, H)
    <2>1. CASE NamespaceChain(d, p[1]) \in Active(lines)
      BY <2>1, HoldsNone DEF NewHead
    <2>2. CASE NamespaceChain(d, p[1]) \notin Active(lines)
      BY <2>2, HeadHolds DEF NewHead
    <2> QED
      BY <2>1, <2>2
  <1>6. IsSeq(each) /\ DOMAIN each = DOMAIN spec[d]
    <2>1. IsSeq(each) /\ DOMAIN each = DOMAIN info[d]
      BY <1>3, Mapped
    <2> QED
      BY <1>2, <2>1
  <1>7. \A i \in DOMAIN each : Holds(options, each[i], of(spec[d][i]))
    <2> TAKE i \in DOMAIN each
    <2> DEFINE rule == spec[d][i]
    <2>1. rule \in [ports : SUBSET Ports, peers : Seq(Peers)] /\ PlainRule(rule)
      BY <1>4, <1>6
    <2>2. each[i] = RuleLines(d, p, info, RuleInfo(rule), failed)
      BY <1>2, <1>6
    <2> HIDE DEF each, rule
    <2>3. Holds(options, RuleLines(d, p, info, RuleInfo(rule), failed), RuleSet(d, p, info.podSelector, rule, failed))
      BY <2>1, RuleHolds
    <2> QED
      BY <1>2, <2>2, <2>3 DEF rule
  <1>8. \A x : x \in X <=> \E i \in DOMAIN spec[d] : x \in of(spec[d][i])
    BY DEF DirectionSet, ToSet
  <1> HIDE DEF each, X, of
  <1>9. \A i \in DOMAIN each : IsSeq(each[i]) /\ Ordered(options, each[i]) /\ ToSet(each[i]) = of(spec[d][i])
    BY <1>7 DEF Holds
  <1>10. \A x : x \in X <=> \E i \in DOMAIN each : x \in ToSet(each[i])
    BY <1>6, <1>8, <1>9
  <1>11. Holds(options, FlattenSeq(each), X)
    BY <1>6, <1>9, <1>10, HoldsJoin
  <1> HIDE DEF head, H
  <1>12. Holds(options, head \o FlattenSeq(each), H \cup X)
    BY <1>5, <1>11, HoldsConcat
  <1> QED
    BY <1>1, <1>12 DEF info, H, X

LEMMA PolicyHolds ==
  ASSUME PlainSpecs, NEW p \in Policies, NEW spec \in Specs[p], NEW failed
  PROVE  Holds(options, PolicyLines(p, NetworkPolicyInfo(spec), failed),
               PolicySet(options, p, spec, failed, Active(lines)))
  <1> DEFINE info == NetworkPolicyInfo(spec)
             each == [i \in DOMAIN info.types |-> DirectionLines(info.types[i], p, info, failed)]
             of(d) == NewHead(options, d, p[1], Active(lines)) \cup DirectionSet(d, p, spec, failed)
             X == PolicySet(options, p, spec, failed, Active(lines))
  <1>1. PolicyLines(p, info, failed) = FlattenSeq(each)
    BY DEF PolicyLines
  <1>2. info.types = spec.types /\ IsSeq(spec.types) /\ ToSet(spec.types) \subseteq Directions
    BY InfoRules, SpecFacts
  <1>3. IsSeq(each) /\ DOMAIN each = DOMAIN spec.types
    BY <1>2, Mapped
  <1>4. \A i \in DOMAIN each : Holds(options, each[i], of(spec.types[i]))
    <2> TAKE i \in DOMAIN each
    <2>1. spec.types[i] \in Directions
      BY <1>2, <1>3 DEF ToSet
    <2>2. each[i] = DirectionLines(spec.types[i], p, info, failed)
      BY <1>2, <1>3
    <2> HIDE DEF each
    <2> QED
      BY <2>1, <2>2, DirectionHolds
  <1>5. \A x : x \in X <=> \E i \in DOMAIN spec.types : x \in of(spec.types[i])
    BY DEF PolicySet, ToSet
  <1> HIDE DEF each, X, of, info
  <1>6. \A i \in DOMAIN each : IsSeq(each[i]) /\ Ordered(options, each[i]) /\ ToSet(each[i]) = of(spec.types[i])
    BY <1>4 DEF Holds
  <1>7. \A x : x \in X <=> \E i \in DOMAIN each : x \in ToSet(each[i])
    BY <1>3, <1>5, <1>6
  <1>8. Holds(options, FlattenSeq(each), X)
    BY <1>3, <1>6, <1>7, HoldsJoin
  <1> QED
    BY <1>1, <1>8 DEF info, X

\* A set that is not created takes lines away and brings none.
LEMMA RuleTypes ==
  ASSUME NEW rule \in [ports : SUBSET Ports, peers : Seq(Peers)]
  PROVE  /\ Labelled(rule) \subseteq Labels /\ Spaced(rule) \subseteq NamespaceLabels
         /\ Blocks(rule) \subseteq [cidr : Cidrs, except : SUBSET Cidrs]
  <1>1. ToSet(rule.peers) \subseteq Peers
    BY SeqFacts
  <1>2. \A peer \in ToSet(rule.peers) :
          /\ peer.podSelector \in (SUBSET Labels) \cup {None}
          /\ peer.namespaceSelector \in (SUBSET NamespaceLabels) \cup {None}
          /\ peer.ipBlock \in [cidr : Cidrs, except : SUBSET Cidrs] \cup {None}
    BY <1>1 DEF Peers
  <1> QED
    BY <1>2 DEF Labelled, Spaced, Blocks

LEMMA RuleSetLess ==
  ASSUME NEW p \in Policies, NEW d \in Directions, NEW selector,
         NEW rule \in [ports : SUBSET Ports, peers : Seq(Peers)], NEW failed
  PROVE  RuleSet(d, p, selector, rule, failed) \subseteq RuleSet(d, p, selector, rule, None)
  <1>1. p[1] \in Namespaces
    BY ClusterAssumption
  <1>2. /\ \A l \in Labelled(rule) : LabelsSet(p[1], {l}) # None
        /\ \A g \in Spaced(rule) : NamespaceLabelSet(g) # None
        /\ \A b \in Blocks(rule) : ExceptSet(d, p, b.cidr) # None
    <2>1. \A b \in Blocks(rule) : b.cidr \in Cidrs
      BY RuleTypes
    <2> QED
      BY <1>1, <2>1, RuleTypes, NoneAssumption
  <1>3. EntrySet(d, p, rule, failed) \subseteq EntrySet(d, p, rule, None)
    <2>1. {m \in Labelled(rule) : LabelsSet(p[1], {m}) # failed} \subseteq {m \in Labelled(rule) : LabelsSet(p[1], {m}) # None}
      BY <1>2
    <2>2. {m \in Spaced(rule) : NamespaceLabelSet(m) # failed} \subseteq {m \in Spaced(rule) : NamespaceLabelSet(m) # None}
      BY <1>2
    <2> QED
      BY <2>1, <2>2 DEF EntrySet
  <1>4. {c \in Blocks(rule) : ExceptSet(d, p, c.cidr) # failed} \subseteq {c \in Blocks(rule) : ExceptSet(d, p, c.cidr) # None}
    BY <1>2
  <1> QED
    BY <1>3, <1>4 DEF RuleSet

-----------------------------------------------------------------------------
(* The entries of the sets of excepted CIDRs.                              *)

WriteOf(d, p, b) == [set |-> ExceptSet(d, p, b.cidr), except |-> b.except]

LEMMA BlockWritesExact ==
  ASSUME NEW d, NEW p, NEW blocks, IsSeq(blocks), NEW failed
  PROVE  LET s == BlockWrites(d, p, blocks, failed) IN
         /\ IsSeq(s)
         /\ \A w : w \in ToSet(s) <=> \E b \in ToSet(blocks) : ExceptSet(d, p, b.cidr) # failed /\ w = WriteOf(d, p, b)
  <1> DEFINE each == [i \in DOMAIN blocks |->
                        LET set == ExceptSet(d, p, blocks[i].cidr) IN
                        IF set = failed THEN <<>> ELSE <<[set |-> set, except |-> blocks[i].except]>>]
             s == BlockWrites(d, p, blocks, failed)
  <1>1. s = FlattenSeq(each)
    BY DEF BlockWrites
  <1>2. IsSeq(each) /\ DOMAIN each = DOMAIN blocks
    BY Mapped
  <1>3. \A i \in DOMAIN blocks :
          each[i] = IF ExceptSet(d, p, blocks[i].cidr) = failed THEN <<>> ELSE <<WriteOf(d, p, blocks[i])>>
    BY DEF WriteOf
  <1> HIDE DEF each, s
  <1>4. \A i \in DOMAIN blocks :
          /\ IsSeq(each[i])
          /\ \A w : w \in ToSet(each[i]) <=> ExceptSet(d, p, blocks[i].cidr) # failed /\ w = WriteOf(d, p, blocks[i])
    BY <1>3, One, Empty
  <1>5. IsSeq(s) /\ \A w : w \in ToSet(s) <=> \E i \in DOMAIN each : w \in ToSet(each[i])
    BY <1>1, <1>2, <1>4, Flatten
  <1>6. \A w : w \in ToSet(s) <=> \E i \in DOMAIN blocks : ExceptSet(d, p, blocks[i].cidr) # failed /\ w = WriteOf(d, p, blocks[i])
    BY <1>2, <1>4, <1>5
  <1>7. \A w : w \in ToSet(s) <=> \E b \in ToSet(blocks) : ExceptSet(d, p, b.cidr) # failed /\ w = WriteOf(d, p, b)
    BY <1>6 DEF ToSet
  <1> QED
    BY <1>5, <1>7 DEF s

LEMMA DirectionWritesExact ==
  ASSUME NEW p \in Policies, NEW spec \in Specs[p], NEW d \in Directions, NEW failed
  PROVE  LET s == DirectionWrites(d, p, NetworkPolicyInfo(spec), failed) IN
         /\ IsSeq(s)
         /\ \A w : w \in ToSet(s) <=> \E rule \in ToSet(spec[d]) : \E b \in Blocks(rule) :
                                        ExceptSet(d, p, b.cidr) # failed /\ w = WriteOf(d, p, b)
  <1> DEFINE info == NetworkPolicyInfo(spec)
             each == [i \in DOMAIN info[d] |-> BlockWrites(d, p, info[d][i].ipBlock, failed)]
             s == DirectionWrites(d, p, NetworkPolicyInfo(spec), failed)
             Writes(b, w) == ExceptSet(d, p, b.cidr) # failed /\ w = WriteOf(d, p, b)
  <1>1. s = FlattenSeq(each)
    BY DEF DirectionWrites
  <1>2. /\ DOMAIN info[d] = DOMAIN spec[d] /\ IsSeq(info[d])
        /\ \A i \in DOMAIN spec[d] : info[d][i] = RuleInfo(spec[d][i])
    BY InfoRules, InfoFacts DEF IsInfo
  <1>3. \A i \in DOMAIN spec[d] : spec[d][i] \in [ports : SUBSET Ports, peers : Seq(Peers)]
    BY SpecFacts DEF ToSet
  <1> HIDE DEF info
  <1>4. IsSeq(each) /\ DOMAIN each = DOMAIN spec[d]
    <2>1. IsSeq(each) /\ DOMAIN each = DOMAIN info[d]
      BY <1>2, Mapped
    <2> QED
      BY <1>2, <2>1
  <1>5. \A i \in DOMAIN spec[d] :
          IsSeq(each[i]) /\ \A w : w \in ToSet(each[i]) <=> \E b \in Blocks(spec[d][i]) : Writes(b, w)
    <2> TAKE i \in DOMAIN spec[d]
    <2>1. each[i] = BlockWrites(d, p, RuleInfo(spec[d][i]).ipBlock, failed)
      BY <1>2
    <2>2. IsSeq(RuleInfo(spec[d][i]).ipBlock) /\ ToSet(RuleInfo(spec[d][i]).ipBlock) = Blocks(spec[d][i])
      BY <1>3, RuleInfoExact DEF IsRuleInfo
    <2> HIDE DEF each
    <2> QED
      BY <2>1, <2>2, BlockWritesExact
  <1> HIDE DEF each, s, Writes
  <1>6. IsSeq(s) /\ \A w : w \in ToSet(s) <=> \E i \in DOMAIN each : w \in ToSet(each[i])
    BY <1>1, <1>4, <1>5, Flatten
  <1>7. \A w : w \in ToSet(s) <=> \E i \in DOMAIN spec[d] : \E b \in Blocks(spec[d][i]) : Writes(b, w)
    BY <1>4, <1>5, <1>6
  <1>8. \A w : w \in ToSet(s) <=> \E rule \in ToSet(spec[d]) : \E b \in Blocks(rule) : Writes(b, w)
    BY <1>7 DEF ToSet
  <1> QED
    BY <1>6, <1>8 DEF s, Writes

LEMMA WritesExact ==
  ASSUME NEW p \in Policies, NEW spec \in Specs[p], NEW failed
  PROVE  LET s == ExceptWrites(p, NetworkPolicyInfo(spec), failed) IN
         /\ IsSeq(s)
         /\ \A w : w \in ToSet(s) <=> \E d \in ToSet(spec.types) : \E rule \in ToSet(spec[d]) : \E b \in Blocks(rule) :
                                        ExceptSet(d, p, b.cidr) # failed /\ w = WriteOf(d, p, b)
  <1> DEFINE info == NetworkPolicyInfo(spec)
             each == [i \in DOMAIN info.types |-> DirectionWrites(info.types[i], p, info, failed)]
             s == ExceptWrites(p, NetworkPolicyInfo(spec), failed)
             Writes(d, w) == \E rule \in ToSet(spec[d]) : \E b \in Blocks(rule) :
                               ExceptSet(d, p, b.cidr) # failed /\ w = WriteOf(d, p, b)
  <1>1. s = FlattenSeq(each)
    BY DEF ExceptWrites
  <1>2. info.types = spec.types /\ IsSeq(spec.types) /\ ToSet(spec.types) \subseteq Directions
    BY InfoRules, SpecFacts
  <1>3. IsSeq(each) /\ DOMAIN each = DOMAIN spec.types
    BY <1>2, Mapped
  <1>4. \A i \in DOMAIN spec.types :
          IsSeq(each[i]) /\ \A w : w \in ToSet(each[i]) <=> Writes(spec.types[i], w)
    <2> TAKE i \in DOMAIN spec.types
    <2>1. spec.types[i] \in Directions
      BY <1>2 DEF ToSet
    <2>2. each[i] = DirectionWrites(spec.types[i], p, info, failed)
      BY <1>2
    <2> HIDE DEF each
    <2> QED
      BY <2>1, <2>2, DirectionWritesExact
  <1> HIDE DEF each, s, Writes, info
  <1>5. IsSeq(s) /\ \A w : w \in ToSet(s) <=> \E i \in DOMAIN each : w \in ToSet(each[i])
    BY <1>1, <1>3, <1>4, Flatten
  <1>6. \A w : w \in ToSet(s) <=> \E d \in ToSet(spec.types) : Writes(d, w)
    BY <1>3, <1>4, <1>5 DEF ToSet
  <1> QED
    BY <1>5, <1>6 DEF s, Writes

\* The last write to a set is what it holds.
LEMMA GreatestNumber ==
  ASSUME NEW n \in Nat, NEW T \in SUBSET (1 .. n), T # {}
  PROVE  Max(T) \in T
  <1> DEFINE below == {m \in Nat : \A t \in T : t <= m}
  <1>1. n \in below
    OBVIOUS
  <1>2. below \in SUBSET Nat /\ below # {}
    BY <1>1
  <1> HIDE DEF below
  <1>3. PICK m \in below : \A k \in below : m <= k
    BY <1>2, LeastNumber
  <1>4. m \in Nat /\ \A t \in T : t <= m
    BY <1>3 DEF below
  <1>5. m \in T
    <2> SUFFICES ASSUME m \notin T PROVE FALSE
      OBVIOUS
    <2>1. PICK t \in T : TRUE
      OBVIOUS
    <2>2. m >= 1 /\ m - 1 \in Nat
      BY <1>4, <2>1
    <2>3. \A u \in T : u <= m - 1
      BY <1>4
    <2>4. m - 1 \in below
      BY <2>2, <2>3 DEF below
    <2> QED
      BY <1>3, <1>4, <2>4
  <1>6. \A t \in T : m >= t
    BY <1>4
  <1> QED
    BY <1>5, <1>6 DEF Max

LEMMA WrittenExact ==
  ASSUME NEW entries, NEW writes, IsSeq(writes)
  PROVE  LET W == Written(entries, writes) IN
         /\ \A s \in DOMAIN entries : (\A w \in ToSet(writes) : w.set # s) => s \in DOMAIN W /\ W[s] = entries[s]
         /\ \A w \in ToSet(writes) : w.set \in DOMAIN W /\ \E v \in ToSet(writes) : v.set = w.set /\ W[w.set] = v.except
  <1> DEFINE of(s) == {i \in DOMAIN writes : writes[i].set = s}
             sets == {w.set : w \in ToSet(writes)}
             W == Written(entries, writes)
  <1>1. W = [s \in DOMAIN entries \cup sets |-> IF s \in sets THEN writes[Max(of(s))].except ELSE entries[s]]
    BY DEF Written
  <1>2. ASSUME NEW w \in ToSet(writes)
        PROVE  \E v \in ToSet(writes) : v.set = w.set /\ writes[Max(of(w.set))] = v
    <2>1. Len(writes) \in Nat /\ DOMAIN writes = 1 .. Len(writes)
      BY SeqDomain
    <2>2. PICK i \in DOMAIN writes : writes[i] = w
      BY DEF ToSet
    <2>3. of(w.set) \in SUBSET (1 .. Len(writes)) /\ of(w.set) # {}
      BY <2>1, <2>2
    <2> DEFINE m == Max(of(w.set))
    <2>4. m \in of(w.set)
      <3> HIDE DEF of
      <3> QED
        BY <2>1, <2>3, GreatestNumber
    <2> HIDE DEF m
    <2>5. m \in DOMAIN writes /\ writes[m].set = w.set /\ writes[m] \in ToSet(writes)
      BY <2>4 DEF ToSet
    <2> QED
      BY <2>5 DEF m
  <1>3. \A w \in ToSet(writes) : w.set \in sets
    OBVIOUS
  <1>4. \A s : (\A w \in ToSet(writes) : w.set # s) => s \notin sets
    OBVIOUS
  <1> HIDE DEF W, sets, of
  <1>5. \A w \in ToSet(writes) : w.set \in DOMAIN W /\ W[w.set] = writes[Max(of(w.set))].except
    BY <1>1, <1>3
  <1>6. \A s \in DOMAIN entries : s \notin sets => s \in DOMAIN W /\ W[s] = entries[s]
    BY <1>1
  <1>7. \A w \in ToSet(writes) : w.set \in DOMAIN W /\ \E v \in ToSet(writes) : v.set = w.set /\ W[w.set] = v.except
    BY <1>2, <1>5
  <1> QED
    BY <1>4, <1>6, <1>7 DEF W

-----------------------------------------------------------------------------
(* Lines of a namespace and lines of a policy are told apart by the kinds   *)
(* of their chains.                                                        *)

LEMMA HeadLines ==
  ASSUME NEW opt, NEW d \in Directions, NEW n, NEW l \in HeadSet(opt, d, n)
  PROVE  \/ l.chain \in Hooks /\ l = HookJump(l.chain, d, n) /\ l.rule.target = NamespaceChain(d, n)
         \/ /\ l.chain = NamespaceChain(d, n) /\ l.rule.target \in {IPRangeChain(d, n), Accept}
            /\ \/ l = FlannelLine(d, n) /\ opt.acceptFlannel
               \/ l = RangeLine(opt, d, n)
               \/ l = OutsideLine(d, n) /\ opt.iPRange # Addresses
  <1>1. CASE \E h \in Hooks : l = HookJump(h, d, n)
    BY <1>1, LineFields DEF HookJump
  <1>2. CASE l = FlannelLine(d, n) /\ opt.acceptFlannel
    BY <1>2, LineFields DEF FlannelLine
  <1>3. CASE l = RangeLine(opt, d, n)
    BY <1>3, LineFields DEF RangeLine
  <1>4. CASE l = OutsideLine(d, n) /\ opt.iPRange # Addresses
    BY <1>4, LineFields DEF OutsideLine
  <1> QED
    BY <1>1, <1>2, <1>3, <1>4 DEF HeadSet

LEMMA EntryTargets ==
  ASSUME NEW d \in Directions, NEW p, NEW rule, NEW failed, NEW e \in EntrySet(d, p, rule, failed)
  PROVE  e.target = Accept \/ \E b \in Blocks(rule) : e = BlockEntry(d, p, b.cidr) /\ e.target = IPBlockChain(d, p, b.cidr)
  <1>1. CASE e = PortsEntry
    BY <1>1 DEF PortsEntry
  <1>2. CASE \E l \in Labelled(rule) : e = PodEntry(p, l)
    BY <1>2 DEF PodEntry
  <1>3. CASE \E g \in Spaced(rule) : e = SpaceEntry(g)
    BY <1>3 DEF SpaceEntry
  <1>4. CASE \E b \in Blocks(rule) : e = BlockEntry(d, p, b.cidr)
    <2>1. PICK b \in Blocks(rule) : e = BlockEntry(d, p, b.cidr)
      BY <1>4
    <2>2. BlockEntry(d, p, b.cidr).target = IPBlockChain(d, p, b.cidr)
      BY DEF BlockEntry
    <2> QED
      BY <2>1, <2>2
  <1> QED
    BY <1>1, <1>2, <1>3, <1>4 DEF EntrySet

LEMMA RuleSetLines ==
  ASSUME NEW d \in Directions, NEW p, NEW selector, NEW rule, NEW failed,
         NEW l \in RuleSet(d, p, selector, rule, failed)
  PROVE  \/ \E e \in EntrySet(d, p, rule, failed) :
              /\ l = JumpLine(d, p, e) /\ l.chain = IPRangeChain(d, p[1])
              /\ l.rule.target = DispatchChain(d, p, e.match, e.key)
         \/ \E e \in EntrySet(d, p, rule, failed) : \E each \in Each(rule.ports) :
              /\ l = PortLine(d, p, selector, e, each) /\ l.chain = DispatchChain(d, p, e.match, e.key)
              /\ l.rule.target = e.target
         \/ \E b \in Blocks(rule) :
              /\ ExceptSet(d, p, b.cidr) # failed
              /\ l.chain = IPBlockChain(d, p, b.cidr)
              /\ \/ l = RejectLine(d, p, b.cidr) /\ l.rule.target = Reject
                 \/ l = AcceptLine(d, p, b.cidr) /\ l.rule.target = Accept
  <1>1. \/ \E e \in EntrySet(d, p, rule, failed) : l = JumpLine(d, p, e)
        \/ \E e \in EntrySet(d, p, rule, failed) : \E each \in Each(rule.ports) : l = PortLine(d, p, selector, e, each)
        \/ \E b \in Blocks(rule) : /\ ExceptSet(d, p, b.cidr) # failed
                                   /\ l = RejectLine(d, p, b.cidr) \/ l = AcceptLine(d, p, b.cidr)
    BY DEF RuleSet, EntryLinesOf
  <1>2. CASE \E e \in EntrySet(d, p, rule, failed) : l = JumpLine(d, p, e)
    BY <1>2, LineFields DEF JumpLine
  <1>3. CASE \E e \in EntrySet(d, p, rule, failed) : \E each \in Each(rule.ports) : l = PortLine(d, p, selector, e, each)
    BY <1>3, LineFields DEF PortLine
  <1>4. CASE \E b \in Blocks(rule) : /\ ExceptSet(d, p, b.cidr) # failed
                                     /\ l = RejectLine(d, p, b.cidr) \/ l = AcceptLine(d, p, b.cidr)
    <2>1. PICK b \in Blocks(rule) : /\ ExceptSet(d, p, b.cidr) # failed
                                    /\ l = RejectLine(d, p, b.cidr) \/ l = AcceptLine(d, p, b.cidr)
      BY <1>4
    <2>2. /\ RejectLine(d, p, b.cidr).chain = IPBlockChain(d, p, b.cidr)
          /\ RejectLine(d, p, b.cidr).rule.target = Reject
          /\ AcceptLine(d, p, b.cidr).chain = IPBlockChain(d, p, b.cidr)
          /\ AcceptLine(d, p, b.cidr).rule.target = Accept
      BY LineFields DEF RejectLine, AcceptLine
    <2>3. /\ ExceptSet(d, p, b.cidr) # failed /\ l.chain = IPBlockChain(d, p, b.cidr)
          /\ \/ l = RejectLine(d, p, b.cidr) /\ l.rule.target = Reject
             \/ l = AcceptLine(d, p, b.cidr) /\ l.rule.target = Accept
      BY <2>1, <2>2
    <2> QED
      BY <2>3
  <1> QED
    BY <1>1, <1>2, <1>3, <1>4

LEMMA RuleSetKinds ==
  ASSUME NEW d \in Directions, NEW p, NEW selector, NEW rule, NEW failed,
         NEW l \in RuleSet(d, p, selector, rule, failed)
  PROVE  /\ l.chain[1] \in {"ENN-PLY-IN", "ENN-PLY-E", "ENN-DPATCH", "ENN-IPCIDR"}
         /\ l.rule.target[1] \in {"ENN-DPATCH", "ENN-IPCIDR", "ACCEPT", "REJECT"}
  <1>1. CASE \E e \in EntrySet(d, p, rule, failed) :
               l.chain = IPRangeChain(d, p[1]) /\ l.rule.target = DispatchChain(d, p, e.match, e.key)
    BY <1>1, KindsOfChains
  <1>2. CASE \E e \in EntrySet(d, p, rule, failed) :
               l.chain = DispatchChain(d, p, e.match, e.key) /\ l.rule.target = e.target
    <2>1. PICK e \in EntrySet(d, p, rule, failed) :
               l.chain = DispatchChain(d, p, e.match, e.key) /\ l.rule.target = e.target
      BY <1>2
    <2>2. e.target = Accept \/ \E b \in Blocks(rule) : e.target = IPBlockChain(d, p, b.cidr)
      BY EntryTargets
    <2>3. \A b : IPBlockChain(d, p, b)[1] = "ENN-IPCIDR"
      BY DEF IPBlockChain
    <2>4. Accept[1] = "ACCEPT" /\ DispatchChain(d, p, e.match, e.key)[1] = "ENN-DPATCH"
      BY KindsOfChains
    <2> QED
      BY <2>1, <2>2, <2>3, <2>4
  <1>3. CASE \E b \in Blocks(rule) : l.chain = IPBlockChain(d, p, b.cidr) /\ l.rule.target \in {Accept, Reject}
    <2>1. \A b : IPBlockChain(d, p, b)[1] = "ENN-IPCIDR"
      BY DEF IPBlockChain
    <2>2. Accept[1] = "ACCEPT" /\ Reject[1] = "REJECT"
      BY KindsOfChains
    <2> QED
      BY <1>3, <2>1, <2>2
  <1> QED
    BY <1>1, <1>2, <1>3, RuleSetLines

\* The heads are there once, for the first policy of a namespace that has the direction.
LEMMA ActiveHead ==
  ASSUME NEW opt, NEW m, NEW done, NEW d \in Directions, NEW n,
         \A p \in done : ToSet(m[p].types) \subseteq Directions,
         Sound(opt, ToSet(lines), m, done), Heads(opt, ToSet(lines), m, done),
         NamespaceChain(d, n) \in Active(lines)
  PROVE  HeadSet(opt, d, n) \subseteq ToSet(lines)
  <1> DEFINE c == NamespaceChain(d, n)
  <1>1. PICK l \in ToSet(lines) : c \in {l.chain, l.rule.target}
    BY DEF Active, ToSet
  <1>2. c[1] \in {"ENN-INGRESS", "ENN-EGRESS"}
    BY KindsOfChains
  <1>3. PICK p \in done : \E e \in ToSet(m[p].types) :
          \/ l \in HeadSet(opt, e, p[1])
          \/ \E rule \in ToSet(m[p][e]) : l \in RuleSet(e, p, m[p].podSelector, rule, None)
    BY DEF Sound
  <1>4. PICK e \in ToSet(m[p].types) :
          \/ l \in HeadSet(opt, e, p[1])
          \/ \E rule \in ToSet(m[p][e]) : l \in RuleSet(e, p, m[p].podSelector, rule, None)
    BY <1>3
  <1>5. e \in Directions
    OBVIOUS
  <1>6. ~\E rule \in ToSet(m[p][e]) : l \in RuleSet(e, p, m[p].podSelector, rule, None)
    <2> SUFFICES ASSUME NEW rule \in ToSet(m[p][e]), l \in RuleSet(e, p, m[p].podSelector, rule, None)
                 PROVE  FALSE
      OBVIOUS
    <2>1. /\ l.chain[1] \in {"ENN-PLY-IN", "ENN-PLY-E", "ENN-DPATCH", "ENN-IPCIDR"}
          /\ l.rule.target[1] \in {"ENN-DPATCH", "ENN-IPCIDR", "ACCEPT", "REJECT"}
      BY <1>5, RuleSetKinds
    <2> QED
      BY <1>1, <1>2, <2>1
  <1>7. l \in HeadSet(opt, e, p[1])
    BY <1>4, <1>6
  <1>8. /\ l.chain \in Hooks \cup {NamespaceChain(e, p[1])}
        /\ l.rule.target \in {NamespaceChain(e, p[1]), IPRangeChain(e, p[1]), Accept}
    BY <1>5, <1>7, HeadLines
  <1>9. c = NamespaceChain(e, p[1])
    <2>1. IPRangeChain(e, p[1])[1] \in {"ENN-PLY-IN", "ENN-PLY-E"} /\ Accept[1] = "ACCEPT"
          /\ \A h \in Hooks : h[1] \in {"ENN-FORWARD", "ENN-OUTPUT"}
      BY <1>5, KindsOfChains DEF Hooks
    <2> HIDE DEF c
    <2> QED
      BY <1>1, <1>2, <1>8, <2>1
  <1>10. e = d /\ p[1] = n
    BY <1>5, <1>9, ChainNames
  <1> QED
    BY <1>10 DEF Heads

\* The chain of an ipBlock is one policy's.
LEMMA RejectLineOf ==
  ASSUME NEW d \in Directions, NEW e \in Directions, NEW p \in Policies, NEW q \in Policies,
         NEW selector, NEW rule, NEW failed, NEW cidr,
         RejectLine(d, q, cidr) \in RuleSet(e, p, selector, rule, failed)
  PROVE  p = q /\ e = d /\ ExceptSet(d, q, cidr) # failed /\ \E b \in Blocks(rule) : b.cidr = cidr
  <1> DEFINE l == RejectLine(d, q, cidr)
  <1>1. l.chain = IPBlockChain(d, q, cidr) /\ l.chain[1] = "ENN-IPCIDR"
    BY LineFields DEF RejectLine, IPBlockChain
  <1>2. \A f : DispatchChain(e, p, f.match, f.key)[1] = "ENN-DPATCH"
    BY DEF DispatchChain
  <1>3. IPRangeChain(e, p[1])[1] \in {"ENN-PLY-IN", "ENN-PLY-E"}
    BY KindsOfChains
  <1> HIDE DEF l
  <1>4. PICK b \in Blocks(rule) : ExceptSet(e, p, b.cidr) # failed /\ l.chain = IPBlockChain(e, p, b.cidr)
    <2>1. l \in RuleSet(e, p, selector, rule, failed)
      BY DEF l
    <2> QED
      BY <1>1, <1>2, <1>3, <2>1, RuleSetLines
  <1>5. Owner(p) = Owner(q) /\ e = d /\ b.cidr = cidr
    BY <1>1, <1>4 DEF IPBlockChain
  <1>6. p = q
    BY <1>5, NamesApartAssumption DEF Owner
  <1> QED
    BY <1>4, <1>5, <1>6

-----------------------------------------------------------------------------
(* Another policy in the buffer.                                           *)

LEMMA KnownSpec ==
  ASSUME NEW m \in PolicyMaps, NEW q \in Policies, m[q] # None
  PROVE  /\ m[q] \in Specs[q] /\ ToSet(m[q].types) \subseteq Directions
         /\ \A d \in Directions : ToSet(m[q][d]) \subseteq [ports : SUBSET Ports, peers : Seq(Peers)]
  <1>1. m[q] \in Specs[q]
    BY PolicyMapsFacts DEF MaybeSpec
  <1> QED
    BY <1>1, SpecFacts

LEMMA PolicyAdded ==
  ASSUME PlainSpecs, NEW m \in PolicyMaps, NEW done \in SUBSET {q \in Policies : m[q] # None},
         NEW p \in Policies, m[p] # None, NEW failed, IsSeq(lines), Ordered(options, lines),
         Sound(options, ToSet(lines), m, done), Heads(options, ToSet(lines), m, done)
  PROVE  LET new == lines \o PolicyLines(p, NetworkPolicyInfo(m[p]), failed) IN
         /\ ToSet(new) = ToSet(lines) \cup PolicySet(options, p, m[p], failed, Active(lines))
         /\ IsSeq(new) /\ Ordered(options, new)
         /\ Sound(options, ToSet(new), m, done \cup {p})
         /\ Heads(options, ToSet(new), m, done \cup {p})
  <1> DEFINE more == PolicyLines(p, NetworkPolicyInfo(m[p]), failed)
             X == PolicySet(options, p, m[p], failed, Active(lines))
             L == ToSet(lines)
             N == ToSet(lines \o more)
             spec == m[p]
  <1>1. /\ spec \in Specs[p] /\ ToSet(spec.types) \subseteq Directions
        /\ \A d \in Directions : ToSet(spec[d]) \subseteq [ports : SUBSET Ports, peers : Seq(Peers)]
    BY KnownSpec
  <1>2. Holds(options, more, X)
    BY <1>1, PolicyHolds
  <1>3. IsSeq(more) /\ ToSet(more) = X /\ Ordered(options, more)
    BY <1>2 DEF Holds
  <1> HIDE DEF more
  <1>4. N = L \cup X /\ IsSeq(lines \o more) /\ Ordered(options, lines \o more)
    BY <1>3, Concat, OrderedConcat
  <1> HIDE DEF N, L, X, spec
  <1>5. \A l \in X : \E d \in ToSet(spec.types) :
          \/ l \in HeadSet(options, d, p[1])
          \/ \E rule \in ToSet(spec[d]) : l \in RuleSet(d, p, spec.podSelector, rule, None)
    <2> SUFFICES ASSUME NEW l \in X
                 PROVE  \E d \in ToSet(spec.types) :
                          \/ l \in HeadSet(options, d, p[1])
                          \/ \E rule \in ToSet(spec[d]) : l \in RuleSet(d, p, spec.podSelector, rule, None)
      OBVIOUS
    <2>1. PICK d \in ToSet(spec.types) :
            l \in NewHead(options, d, p[1], Active(lines)) \cup DirectionSet(d, p, spec, failed)
      BY DEF X, PolicySet, spec
    <2>2. d \in Directions
      BY <1>1
    <2>3. CASE l \in NewHead(options, d, p[1], Active(lines))
      BY <2>3 DEF NewHead
    <2>4. CASE l \in DirectionSet(d, p, spec, failed)
      <3>1. PICK rule \in ToSet(spec[d]) : l \in RuleSet(d, p, spec.podSelector, rule, failed)
        BY <2>4 DEF DirectionSet
      <3>2. rule \in [ports : SUBSET Ports, peers : Seq(Peers)]
        BY <1>1, <2>2
      <3>3. l \in RuleSet(d, p, spec.podSelector, rule, None)
        BY <2>2, <3>1, <3>2, RuleSetLess
      <3> QED
        BY <3>3
    <2> QED
      BY <2>1, <2>3, <2>4
  <1>6. Sound(options, N, m, done \cup {p})
    <2> SUFFICES ASSUME NEW l \in N
                 PROVE  \E q \in done \cup {p} : \E d \in ToSet(m[q].types) :
                          \/ l \in HeadSet(options, d, q[1])
                          \/ \E rule \in ToSet(m[q][d]) : l \in RuleSet(d, q, m[q].podSelector, rule, None)
      BY DEF Sound
    <2>1. CASE l \in L
      <3>1. PICK q \in done : \E d \in ToSet(m[q].types) :
              \/ l \in HeadSet(options, d, q[1])
              \/ \E rule \in ToSet(m[q][d]) : l \in RuleSet(d, q, m[q].podSelector, rule, None)
        BY <2>1 DEF Sound, L
      <3> QED
        BY <3>1
    <2>2. CASE l \in X
      BY <1>5, <2>2 DEF spec
    <2> QED
      BY <1>4, <2>1, <2>2
  <1>7. ASSUME NEW d \in ToSet(spec.types) PROVE HeadSet(options, d, p[1]) \subseteq N
    <2>1. d \in Directions
      BY <1>1
    <2>2. CASE NamespaceChain(d, p[1]) \in Active(lines)
      <3>1. \A q \in done : ToSet(m[q].types) \subseteq Directions
        BY KnownSpec
      <3>2. HeadSet(options, d, p[1]) \subseteq L
        BY <2>1, <2>2, <3>1, ActiveHead DEF L
      <3> QED
        BY <1>4, <3>2
    <2>3. CASE NamespaceChain(d, p[1]) \notin Active(lines)
      <3>1. HeadSet(options, d, p[1]) \subseteq X
        BY <2>3 DEF X, PolicySet, NewHead, spec
      <3> QED
        BY <1>4, <3>1
    <2> QED
      BY <2>2, <2>3
  <1>8. Heads(options, N, m, done \cup {p})
    BY <1>4, <1>7 DEF Heads, L, spec
  <1> QED
    BY <1>4, <1>6, <1>8 DEF more, X, L, N, spec

LEMMA RulesAdded ==
  ASSUME NEW m, NEW done, NEW p, NEW L, NEW N, NEW active, AllRules(L, m, done),
         N = L \cup PolicySet(options, p, m[p], None, active)
  PROVE  AllRules(N, m, done \cup {p})
  <1>1. ASSUME NEW d \in ToSet(m[p].types), NEW rule \in ToSet(m[p][d])
        PROVE  RuleSet(d, p, m[p].podSelector, rule, None) \subseteq N
    <2>1. RuleSet(d, p, m[p].podSelector, rule, None) \subseteq DirectionSet(d, p, m[p], None)
      BY DEF DirectionSet
    <2>2. DirectionSet(d, p, m[p], None) \subseteq PolicySet(options, p, m[p], None, active)
      BY DEF PolicySet
    <2> QED
      BY <2>1, <2>2
  <1> QED
    BY <1>1 DEF AllRules

LEMMA SameBlocks ==
  ASSUME PlainSpecs, NEW p \in Policies, NEW d \in Directions, NEW s \in Specs[p],
         NEW first \in ToSet(s[d]), NEW second \in ToSet(s[d]),
         NEW a \in Blocks(first), NEW b \in Blocks(second), a.cidr = b.cidr
  PROVE  a.except = b.except
  BY DEF PlainSpecs

\* The sets of the new policy's blocks hold what it excepts, and those of the
\* policies before it are not written.
LEMMA ExceptsAdded ==
  ASSUME PlainSpecs, NEW m \in PolicyMaps, NEW done \in SUBSET {q \in Policies : m[q] # None},
         NEW p \in Policies \ done, m[p] # None, NEW failed, NEW L, NEW N, NEW active, NEW ex,
         Sound(options, L, m, done), ExceptsRight(L, m, done, ex),
         N = L \cup PolicySet(options, p, m[p], failed, active)
  PROVE  ExceptsRight(N, m, done \cup {p}, Written(ex, ExceptWrites(p, NetworkPolicyInfo(m[p]), failed)))
  <1> DEFINE writes == ExceptWrites(p, NetworkPolicyInfo(m[p]), failed)
             W == Written(ex, writes)
             spec == m[p]
  <1>1. /\ spec \in Specs[p] /\ ToSet(spec.types) \subseteq Directions
        /\ \A d \in Directions : ToSet(spec[d]) \subseteq [ports : SUBSET Ports, peers : Seq(Peers)]
    BY KnownSpec
  <1>2. /\ IsSeq(writes)
        /\ \A w : w \in ToSet(writes) <=> \E d \in ToSet(spec.types) : \E rule \in ToSet(spec[d]) : \E b \in Blocks(rule) :
                                           ExceptSet(d, p, b.cidr) # failed /\ w = WriteOf(d, p, b)
    BY <1>1, WritesExact
  <1> HIDE DEF writes, spec
  <1>3. /\ \A s \in DOMAIN ex : (\A w \in ToSet(writes) : w.set # s) => s \in DOMAIN W /\ W[s] = ex[s]
        /\ \A w \in ToSet(writes) : w.set \in DOMAIN W /\ \E v \in ToSet(writes) : v.set = w.set /\ W[w.set] = v.except
    BY <1>2, WrittenExact
  <1> HIDE DEF W
  \* A reject rule is of the policy that it names.
  <1>4. ASSUME NEW q \in Policies, NEW d \in Directions, NEW cidr, RejectLine(d, q, cidr) \in L
        PROVE  q \in done
    <2> DEFINE l == RejectLine(d, q, cidr)
    <2>1. PICK o \in done : \E e \in ToSet(m[o].types) :
            \/ l \in HeadSet(options, e, o[1])
            \/ \E rule \in ToSet(m[o][e]) : l \in RuleSet(e, o, m[o].podSelector, rule, None)
      BY <1>4 DEF Sound
    <2>2. PICK e \in ToSet(m[o].types) :
            \/ l \in HeadSet(options, e, o[1])
            \/ \E rule \in ToSet(m[o][e]) : l \in RuleSet(e, o, m[o].podSelector, rule, None)
      BY <2>1
    <2>3. e \in Directions
      BY KnownSpec
    <2>4. CASE l \in HeadSet(options, e, o[1])
      <3>1. l.rule.target = Reject
        BY LineFields DEF RejectLine
      <3> HIDE DEF l
      <3>2. l.rule.target \in {NamespaceChain(e, o[1]), IPRangeChain(e, o[1]), Accept}
        BY <2>3, <2>4, HeadLines
      <3>3. Reject[1] = "REJECT" /\ Accept[1] = "ACCEPT" /\ NamespaceChain(e, o[1])[1] \in {"ENN-INGRESS", "ENN-EGRESS"}
            /\ IPRangeChain(e, o[1])[1] \in {"ENN-PLY-IN", "ENN-PLY-E"}
        BY <2>3, KindsOfChains
      <3> QED
        BY <3>1, <3>2, <3>3
    <2>5. CASE \E rule \in ToSet(m[o][e]) : l \in RuleSet(e, o, m[o].podSelector, rule, None)
      <3>1. PICK rule \in ToSet(m[o][e]) : l \in RuleSet(e, o, m[o].podSelector, rule, None)
        BY <2>5
      <3>2. o = q
        BY <2>3, <3>1, RejectLineOf
      <3> QED
        BY <3>2
    <2> QED
      BY <2>2, <2>4, <2>5
  <1>5. ASSUME NEW q \in Policies, NEW d \in Directions, NEW cidr,
               RejectLine(d, q, cidr) \in PolicySet(options, p, spec, failed, active)
        PROVE  q = p /\ ExceptSet(d, q, cidr) # failed
    <2> DEFINE l == RejectLine(d, q, cidr)
    <2>1. PICK e \in ToSet(spec.types) :
            l \in NewHead(options, e, p[1], active) \cup DirectionSet(e, p, spec, failed)
      BY <1>5 DEF PolicySet
    <2>2. e \in Directions
      BY <1>1
    <2>3. CASE l \in NewHead(options, e, p[1], active)
      <3>1. l.rule.target = Reject
        BY LineFields DEF RejectLine
      <3> HIDE DEF l
      <3>2. l \in HeadSet(options, e, p[1])
        BY <2>3 DEF NewHead
      <3>3. l.rule.target \in {NamespaceChain(e, p[1]), IPRangeChain(e, p[1]), Accept}
        BY <2>2, <3>2, HeadLines
      <3>4. Reject[1] = "REJECT" /\ Accept[1] = "ACCEPT" /\ NamespaceChain(e, p[1])[1] \in {"ENN-INGRESS", "ENN-EGRESS"}
            /\ IPRangeChain(e, p[1])[1] \in {"ENN-PLY-IN", "ENN-PLY-E"}
        BY <2>2, KindsOfChains
      <3> QED
        BY <3>1, <3>3, <3>4
    <2>4. CASE l \in DirectionSet(e, p, spec, failed)
      <3>1. PICK rule \in ToSet(spec[e]) : l \in RuleSet(e, p, spec.podSelector, rule, failed)
        BY <2>4 DEF DirectionSet
      <3> QED
        BY <2>2, <3>1, RejectLineOf
    <2> QED
      BY <2>1, <2>3, <2>4
  <1>6. ASSUME NEW q \in done \cup {p}, NEW d \in ToSet(m[q].types), NEW rule \in ToSet(m[q][d]),
               NEW b \in Blocks(rule), RejectLine(d, q, b.cidr) \in N
        PROVE  ExceptSet(d, q, b.cidr) \in DOMAIN W /\ W[ExceptSet(d, q, b.cidr)] = b.except
    <2> DEFINE s == ExceptSet(d, q, b.cidr)
    <2>1. q \in Policies /\ m[q] # None /\ d \in Directions
      BY KnownSpec
    <2>2. CASE q # p
      <3>1. RejectLine(d, q, b.cidr) \in L
        BY <1>5, <1>6, <2>1, <2>2 DEF spec
      <3>2. s \in DOMAIN ex /\ ex[s] = b.except
        BY <2>2, <3>1 DEF ExceptsRight
      <3>3. ASSUME NEW w \in ToSet(writes) PROVE w.set # s
        <4>1. \E e \in ToSet(spec.types) : \E other \in ToSet(spec[e]) : \E c \in Blocks(other) : w = WriteOf(e, p, c)
          BY <1>2
        <4> PICK e \in ToSet(spec.types) : \E other \in ToSet(spec[e]) : \E c \in Blocks(other) : w = WriteOf(e, p, c)
          BY <4>1
        <4> PICK other \in ToSet(spec[e]) : \E c \in Blocks(other) : w = WriteOf(e, p, c)
          OBVIOUS
        <4> PICK c \in Blocks(other) : w = WriteOf(e, p, c)
          OBVIOUS
        <4>2. w.set = ExceptSet(e, p, c.cidr)
          BY DEF WriteOf
        <4>3. Owner(p) # Owner(q)
          BY <2>1, <2>2, NamesApartAssumption DEF Owner
        <4> QED
          BY <4>2, <4>3 DEF ExceptSet
      <3> QED
        BY <1>3, <3>2, <3>3
    <2>3. CASE q = p
      <3>1. RejectLine(d, q, b.cidr) \notin L
        BY <1>4, <2>1, <2>3
      <3>2. s # failed
        BY <1>5, <1>6, <2>1, <3>1 DEF spec
      <3>3. WriteOf(d, p, b) \in ToSet(writes)
        BY <1>2, <2>3, <3>2 DEF spec
      <3>4. WriteOf(d, p, b).set = s
        BY <2>3 DEF WriteOf
      <3>5. PICK v \in ToSet(writes) : v.set = s /\ W[s] = v.except
        BY <1>3, <3>3, <3>4
      <3>6. s \in DOMAIN W
        BY <1>3, <3>3, <3>4
      <3>7. PICK e \in ToSet(spec.types) : \E other \in ToSet(spec[e]) : \E c \in Blocks(other) : v = WriteOf(e, p, c)
        BY <1>2
      <3>8. PICK other \in ToSet(spec[e]) : \E c \in Blocks(other) : v = WriteOf(e, p, c)
        BY <3>7
      <3>9. PICK c \in Blocks(other) : v = WriteOf(e, p, c)
        BY <3>8
      <3>10. v.set = ExceptSet(e, p, c.cidr) /\ v.except = c.except
        BY <3>9 DEF WriteOf
      <3>11. e = d /\ c.cidr = b.cidr
        BY <2>3, <3>5, <3>10 DEF ExceptSet
      <3>12. c.except = b.except
        <4>1. rule \in ToSet(spec[d]) /\ other \in ToSet(spec[d])
          BY <2>3, <3>11 DEF spec
        <4> QED
          BY <1>1, <2>1, <3>11, <4>1, SameBlocks
      <3> QED
        BY <3>5, <3>6, <3>10, <3>12
    <2> QED
      BY <2>2, <2>3
  <1> QED
    BY <1>6 DEF ExceptsRight, W, writes

-----------------------------------------------------------------------------
(* Jumps lead down: from the entry chains to a namespace's, to its IP range *)
(* chain, to a peer's, and to an ipBlock's.                                 *)

LEMMA Ranks ==
  ASSUME NEW c
  PROVE  /\ Rank(c) \in 0 .. 5
         /\ c[1] \in {"ACCEPT", "REJECT"} => Rank(c) = 0
         /\ c[1] = "ENN-IPCIDR" => Rank(c) = 1
         /\ c[1] = "ENN-DPATCH" => Rank(c) = 2
         /\ c[1] \in {"ENN-PLY-IN", "ENN-PLY-E"} => Rank(c) = 3
         /\ c[1] \in {"ENN-INGRESS", "ENN-EGRESS"} => Rank(c) = 4
         /\ c[1] \in {"ENN-INPUT", "ENN-OUTPUT", "ENN-FORWARD"} => Rank(c) = 5
         /\ c[1] \notin {"ACCEPT", "REJECT"} => Rank(c) >= 1
  BY DEF Rank

LEMMA HeadLevelled ==
  ASSUME NEW opt, NEW d \in Directions, NEW n, NEW l \in HeadSet(opt, d, n)
  PROVE  Rank(l.rule.target) < Rank(l.chain)
  <1>1. /\ NamespaceChain(d, n)[1] \in {"ENN-INGRESS", "ENN-EGRESS"}
        /\ IPRangeChain(d, n)[1] \in {"ENN-PLY-IN", "ENN-PLY-E"}
        /\ Accept[1] = "ACCEPT" /\ \A h \in Hooks : h[1] \in {"ENN-FORWARD", "ENN-OUTPUT"}
    BY KindsOfChains DEF Hooks
  <1>2. /\ Rank(NamespaceChain(d, n)) = 4 /\ Rank(IPRangeChain(d, n)) = 3 /\ Rank(Accept) = 0
        /\ \A h \in Hooks : Rank(h) = 5
    BY <1>1, Ranks
  <1>3. \/ l.chain \in Hooks /\ l.rule.target = NamespaceChain(d, n)
        \/ l.chain = NamespaceChain(d, n) /\ l.rule.target \in {IPRangeChain(d, n), Accept}
    BY HeadLines
  <1> QED
    BY <1>2, <1>3

LEMMA RuleSetLevelled ==
  ASSUME NEW d \in Directions, NEW p, NEW selector, NEW rule, NEW failed,
         NEW l \in RuleSet(d, p, selector, rule, failed)
  PROVE  Rank(l.rule.target) < Rank(l.chain)
  <1>1. /\ \A e : Rank(DispatchChain(d, p, e.match, e.key)) = 2
        /\ \A cidr : Rank(IPBlockChain(d, p, cidr)) = 1
        /\ Rank(IPRangeChain(d, p[1])) = 3 /\ Rank(Accept) = 0 /\ Rank(Reject) = 0
    <2>1. /\ \A e : DispatchChain(d, p, e.match, e.key)[1] = "ENN-DPATCH"
          /\ \A cidr : IPBlockChain(d, p, cidr)[1] = "ENN-IPCIDR"
      BY DEF DispatchChain, IPBlockChain
    <2>2. IPRangeChain(d, p[1])[1] \in {"ENN-PLY-IN", "ENN-PLY-E"} /\ Accept[1] = "ACCEPT" /\ Reject[1] = "REJECT"
      BY KindsOfChains
    <2> QED
      BY <2>1, <2>2, Ranks
  <1>2. CASE \E e \in EntrySet(d, p, rule, failed) :
               l.chain = IPRangeChain(d, p[1]) /\ l.rule.target = DispatchChain(d, p, e.match, e.key)
    BY <1>1, <1>2
  <1>3. CASE \E e \in EntrySet(d, p, rule, failed) :
               l.chain = DispatchChain(d, p, e.match, e.key) /\ l.rule.target = e.target
    <2>1. PICK e \in EntrySet(d, p, rule, failed) :
               l.chain = DispatchChain(d, p, e.match, e.key) /\ l.rule.target = e.target
      BY <1>3
    <2>2. e.target = Accept \/ \E b \in Blocks(rule) : e.target = IPBlockChain(d, p, b.cidr)
      BY EntryTargets
    <2> QED
      BY <1>1, <2>1, <2>2
  <1>4. CASE \E b \in Blocks(rule) : l.chain = IPBlockChain(d, p, b.cidr) /\ l.rule.target \in {Accept, Reject}
    BY <1>1, <1>4
  <1> QED
    BY <1>2, <1>3, <1>4, RuleSetLines

LEMMA SoundLevelled ==
  ASSUME NEW opt, NEW X, NEW m, NEW done, \A p \in done : ToSet(m[p].types) \subseteq Directions,
         Sound(opt, X, m, done), NEW l \in X
  PROVE  Rank(l.rule.target) < Rank(l.chain)
  <1>1. PICK p \in done : \E d \in ToSet(m[p].types) :
          \/ l \in HeadSet(opt, d, p[1])
          \/ \E rule \in ToSet(m[p][d]) : l \in RuleSet(d, p, m[p].podSelector, rule, None)
    BY DEF Sound
  <1>2. PICK d \in ToSet(m[p].types) :
          \/ l \in HeadSet(opt, d, p[1])
          \/ \E rule \in ToSet(m[p][d]) : l \in RuleSet(d, p, m[p].podSelector, rule, None)
    BY <1>1
  <1>3. d \in Directions
    OBVIOUS
  <1> QED
    BY <1>2, <1>3, HeadLevelled, RuleSetLevelled

LEMMA DoneFacts ==
  ASSUME policies \in PolicyMaps
  PROVE  /\ Done \in SUBSET {q \in Policies : policies[q] # None}
         /\ \A q \in Done : ToSet(policies[q].types) \subseteq Directions
  BY KnownSpec DEF Done

LEMMA ChainRulesSeq ==
  ASSUME IsSeq(lines), NEW c
  PROVE  IsSeq(ChainRules(c))
  <1>1. IsSeq(Appended(c))
    BY AppendedFacts
  <1>2. IsSeq(<<Established>>) /\ IsSeq(<<DefaultReject>>)
    BY One
  <1>3. IsSeq((<<Established>> \o Appended(c)) \o <<DefaultReject>>)
    BY <1>1, <1>2, Concat
  <1> QED
    BY <1>1, <1>3 DEF ChainRules

LEMMA RestoredLevelled ==
  ASSUME TypeOK, ChainsInv, LinesKnown, Sound(options, ToSet(lines), policies, Done), Levelled(kernel)
  PROVE  Levelled(Restored)
  <1>0. ASSUME NEW c \in DOMAIN Restored PROVE IsSeq(Restored[c])
    <2>1. IsSeq(lines)
      BY DEF LinesKnown, IsPiece
    <2>2. IsSeq(ChainRules(c))
      BY <2>1, ChainRulesSeq
    <2> QED
      BY <2>2, RestoredFacts DEF Levelled
  <1> SUFFICES ASSUME NEW c \in DOMAIN Restored, NEW r \in ToSet(Restored[c])
               PROVE  Rank(r.target) < Rank(c)
    BY <1>0 DEF Levelled
  <1>1. CASE c \in EntryChains \cup Active(lines)
    <2>1. r \in ToSet(ChainRules(c))
      BY <1>1, RestoredFacts
    <2>2. CASE r.target \in {Accept, Reject}
      <3>1. c[1] \notin {"ACCEPT", "REJECT"}
        BY <1>1, ActiveFacts, KindsOfChains DEF IsOwn, OwnPrefixes, EntryChains
      <3>2. Accept[1] = "ACCEPT" /\ Reject[1] = "REJECT"
        BY DEF Accept, Reject
      <3> QED
        BY <2>2, <3>1, <3>2, Ranks
    <2>3. CASE \E l \in ToSet(lines) : l.chain = c /\ l.rule = r
      BY <2>3, SoundLevelled, DoneFacts DEF TypeOK
    <2>4. IsSeq(lines)
      BY DEF LinesKnown, IsPiece
    <2> QED
      BY <2>1, <2>2, <2>3, <2>4, ChainRulesFacts
  <1>2. CASE c \notin EntryChains \cup Active(lines)
    BY <1>2, RestoredFacts DEF Levelled
  <1> QED
    BY <1>1, <1>2

-----------------------------------------------------------------------------
(* The invariant.                                                          *)

LEMMA VerdictsInit == Init => VerdictsInv
  <1> SUFFICES ASSUME Init PROVE VerdictsInv
    OBVIOUS
  <1>1. step = "idle" /\ enforced = None /\ kernel = [c \in EntryChains \cup {KubeForward} |-> <<>>]
    BY DEF Init
  <1>2. LinesRight /\ RestoredRight
    BY <1>1 DEF LinesRight, RestoredRight, Settled
  <1>3. Levelled(kernel)
    BY <1>1, Empty DEF Levelled
  <1> QED
    BY <1>2, <1>3 DEF VerdictsInv

LEMMA VerdictsBegin ==
  ASSUME VerdictsInv, NEW new \in PolicyMaps, Begin(new)
  PROVE  VerdictsInv'
  <1>1. /\ policies' = new /\ step' = "rules" /\ todo' = {p \in Policies : new[p] # None}
        /\ skipped' = {} /\ lines' = <<>> /\ kernel' = kernel /\ options' = options
    BY DEF Begin
  <1>2. Done' = {}
    BY <1>1 DEF Done
  <1>3. /\ IsSeq(<<>>) /\ Ordered(options, <<>>)
        /\ Sound(options, ToSet(<<>>), new, {}) /\ Heads(options, ToSet(<<>>), new, {})
        /\ AllRules(ToSet(<<>>), new, {}) /\ \A ex : ExceptsRight(ToSet(<<>>), new, {}, ex)
    BY Empty, OrderedFree DEF Sound, Heads, AllRules, ExceptsRight
  <1>4. LinesRight'
    BY <1>1, <1>2, <1>3 DEF LinesRight
  <1>5. RestoredRight'
    BY <1>1 DEF RestoredRight, Settled
  <1> QED
    BY <1>1, <1>4, <1>5 DEF VerdictsInv

LEMMA VerdictsSync ==
  ASSUME PlainSpecs, TypeOK, ChainsInv, VerdictsInv, NEW p \in Policies, SyncPolicy(p)
  PROVE  VerdictsInv'
  <1> DEFINE info == NetworkPolicyInfo(policies[p])
  <1>1. /\ p \in todo /\ todo' = todo \ {p} /\ options' = options /\ policies' = policies /\ step' = step
        /\ kernel' = kernel /\ step = "rules" /\ policies \in PolicyMaps
    BY DEF SyncPolicy, TypeOK
  <1>2. policies[p] # None /\ p \notin Done /\ IsSeq(lines)
    BY <1>1 DEF TypeOK, Done, ChainsInv, LinesKnown, IsPiece
  <1>3. /\ todo \cap skipped = {} /\ IsSeq(lines) /\ Ordered(options, lines)
        /\ Sound(options, ToSet(lines), policies, Done)
        /\ Heads(options, ToSet(lines), policies, Done)
        /\ lost = "nothing" => AllRules(ToSet(lines), policies, Done)
        /\ lost # "sets" => ExceptsRight(ToSet(lines), policies, Done, excepts)
    BY <1>1 DEF VerdictsInv, LinesRight
  <1>4. Done \in SUBSET {q \in Policies : policies[q] # None}
    BY <1>1, DoneFacts
  <1>5. RestoredRight' /\ Levelled(kernel)'
    BY <1>1 DEF RestoredRight, Settled, VerdictsInv
  <1>6. skipped' = skipped => Done' = Done \cup {p}
    BY <1>1, <1>2, <1>3 DEF Done
  <1>7. ASSUME NEW failed, lines' = lines \o PolicyLines(p, info, failed), skipped' = skipped
        PROVE  /\ ToSet(lines') = ToSet(lines) \cup PolicySet(options, p, policies[p], failed, Active(lines))
               /\ todo' \cap skipped' = {} /\ IsSeq(lines') /\ Ordered(options', lines')
               /\ Sound(options', ToSet(lines'), policies', Done')
               /\ Heads(options', ToSet(lines'), policies', Done')
    <2> HIDE DEF info
    <2>1. LET new == lines \o PolicyLines(p, NetworkPolicyInfo(policies[p]), failed) IN
          /\ ToSet(new) = ToSet(lines) \cup PolicySet(options, p, policies[p], failed, Active(lines))
          /\ IsSeq(new) /\ Ordered(options, new)
          /\ Sound(options, ToSet(new), policies, Done \cup {p})
          /\ Heads(options, ToSet(new), policies, Done \cup {p})
      BY <1>1, <1>2, <1>3, <1>4, PolicyAdded
    <2> QED
      BY <1>1, <1>3, <1>6, <1>7, <2>1 DEF info
  <1>8. ASSUME NEW failed, lines' = lines \o PolicyLines(p, info, failed), skipped' = skipped,
               excepts' = Written(excepts, ExceptWrites(p, info, failed)), lost # "sets"
        PROVE  ExceptsRight(ToSet(lines'), policies', Done', excepts')
    <2>1. ToSet(lines') = ToSet(lines) \cup PolicySet(options, p, policies[p], failed, Active(lines))
      BY <1>7, <1>8
    <2>2. p \in Policies \ Done
      BY <1>2
    <2>3. ExceptsRight(ToSet(lines'), policies, Done \cup {p}, excepts')
      BY <1>1, <1>2, <1>3, <1>4, <1>8, <2>1, <2>2, ExceptsAdded
    <2> QED
      BY <1>1, <1>6, <1>8, <2>3
  <1>9. \/ /\ lines' = lines \o PolicyLines(p, info, None)
           /\ excepts' = Written(excepts, ExceptWrites(p, info, None))
           /\ skipped' = skipped /\ lost' = lost
        \/ skipped' = skipped \cup {p} /\ lines' = lines /\ excepts' = excepts /\ lost' = lost
        \/ /\ \E failed \in PeerSets(p, info) :
                /\ lines' = lines \o PolicyLines(p, info, failed)
                /\ excepts' = Written(excepts, ExceptWrites(p, info, failed))
           /\ lost' = IF lost = "sets" THEN lost ELSE "rules"
           /\ skipped' = skipped
        \/ /\ lines' = lines \o PolicyLines(p, info, None)
           /\ lost' = "sets" /\ skipped' = skipped
    BY DEF SyncPolicy
  <1> HIDE DEF info
  <1>10. CASE /\ lines' = lines \o PolicyLines(p, info, None)
              /\ excepts' = Written(excepts, ExceptWrites(p, info, None))
              /\ skipped' = skipped /\ lost' = lost
    <2>1. lost' = "nothing" => AllRules(ToSet(lines'), policies', Done')
      <3>1. ToSet(lines') = ToSet(lines) \cup PolicySet(options, p, policies[p], None, Active(lines))
        BY <1>7, <1>10
      <3>2. lost = "nothing" => AllRules(ToSet(lines'), policies, Done \cup {p})
        BY <1>3, <3>1, RulesAdded
      <3> QED
        BY <1>1, <1>6, <1>10, <3>2
    <2>2. lost' # "sets" => ExceptsRight(ToSet(lines'), policies', Done', excepts')
      BY <1>8, <1>10
    <2>3. LinesRight'
      BY <1>7, <1>10, <2>1, <2>2 DEF LinesRight
    <2> QED
      BY <1>5, <2>3 DEF VerdictsInv
  <1>11. CASE skipped' = skipped \cup {p} /\ lines' = lines /\ excepts' = excepts /\ lost' = lost
    <2>1. Done' = Done /\ todo' \cap skipped' = {}
      BY <1>1, <1>3, <1>11 DEF Done
    <2>2. LinesRight'
      BY <1>1, <1>3, <1>11, <2>1 DEF LinesRight
    <2> QED
      BY <1>5, <2>2 DEF VerdictsInv
  <1>12. CASE /\ \E failed \in PeerSets(p, info) :
                   /\ lines' = lines \o PolicyLines(p, info, failed)
                   /\ excepts' = Written(excepts, ExceptWrites(p, info, failed))
              /\ lost' = IF lost = "sets" THEN lost ELSE "rules"
              /\ skipped' = skipped
    <2>1. PICK failed : /\ lines' = lines \o PolicyLines(p, info, failed)
                        /\ excepts' = Written(excepts, ExceptWrites(p, info, failed))
      BY <1>12
    <2>2. lost' # "nothing" /\ (lost' # "sets" => lost # "sets")
      BY <1>12
    <2>3. lost' # "sets" => ExceptsRight(ToSet(lines'), policies', Done', excepts')
      BY <1>8, <1>12, <2>1, <2>2
    <2>4. LinesRight'
      BY <1>7, <1>12, <2>1, <2>2, <2>3 DEF LinesRight
    <2> QED
      BY <1>5, <2>4 DEF VerdictsInv
  <1>13. CASE lines' = lines \o PolicyLines(p, info, None) /\ lost' = "sets" /\ skipped' = skipped
    <2>1. LinesRight'
      BY <1>7, <1>13 DEF LinesRight
    <2> QED
      BY <1>5, <2>1 DEF VerdictsInv
  <1> QED
    BY <1>9, <1>10, <1>11, <1>12, <1>13

LEMMA VerdictsRestore ==
  ASSUME TypeOK, ChainsInv, VerdictsInv, RestoreAll
  PROVE  VerdictsInv'
  <1>1. /\ step = "rules" /\ todo = {} /\ options' = options /\ policies' = policies /\ todo' = todo
        /\ skipped' = skipped /\ lost' = lost /\ lines' = lines /\ excepts' = excepts
    BY DEF RestoreAll
  <1>2. Done' = Done /\ Enforced' = Enforced /\ \A c : ChainRules(c)' = ChainRules(c)
    BY <1>1 DEF Done, Enforced, ChainRules, Appended
  <1>3. /\ todo \cap skipped = {} /\ IsSeq(lines) /\ Ordered(options, lines)
        /\ Sound(options, ToSet(lines), policies, Done)
        /\ Heads(options, ToSet(lines), policies, Done)
        /\ lost = "nothing" => AllRules(ToSet(lines), policies, Done)
        /\ lost # "sets" => ExceptsRight(ToSet(lines), policies, Done, excepts)
    BY <1>1 DEF VerdictsInv, LinesRight
  <1>4. LinesRight'
    BY <1>1, <1>2, <1>3 DEF LinesRight
  <1>5. LinesKnown
    BY <1>1 DEF ChainsInv
  <1>6. CASE /\ kernel' = Restored /\ enforced' = (IF lost = "sets" THEN None ELSE Enforced)
             /\ narrowed' = (lost = "rules")
    <2>1. Levelled(kernel')
      BY <1>3, <1>5, <1>6, RestoredLevelled DEF VerdictsInv
    <2>2. \A c \in EntryChains \cup Active(lines) : c \in DOMAIN kernel' /\ kernel'[c] = ChainRules(c)
      BY <1>5, <1>6, RestoredFacts
    <2>3. ASSUME Settled' PROVE lost # "sets" /\ enforced' = Enforced
      BY <1>6, <2>3 DEF Settled
    <2>4. RestoredRight'
      BY <1>1, <1>2, <1>6, <2>2, <2>3 DEF RestoredRight
    <2> QED
      BY <1>4, <2>1, <2>4 DEF VerdictsInv
  <1>7. CASE enforced' = None /\ kernel' = kernel
    <2>1. RestoredRight' /\ Levelled(kernel')
      BY <1>7 DEF RestoredRight, Settled, VerdictsInv
    <2> QED
      BY <1>4, <2>1 DEF VerdictsInv
  <1> QED
    BY <1>6, <1>7 DEF RestoreAll

LEMMA VerdictsNext == PlainSpecs /\ TypeOK /\ ChainsInv /\ VerdictsInv /\ [Next]_vars => VerdictsInv'
  <1> SUFFICES ASSUME PlainSpecs, TypeOK, ChainsInv, VerdictsInv, [Next]_vars PROVE VerdictsInv'
    OBVIOUS
  <1>1. ASSUME NEW p \in Policies, ChangePolicy(p) PROVE VerdictsInv'
    <2>1. PICK spec \in MaybeSpec(p) : Begin([policies EXCEPT ![p] = spec])
      BY <1>1 DEF ChangePolicy
    <2>2. [policies EXCEPT ![p] = spec] \in PolicyMaps
      BY PolicyMapsFacts DEF TypeOK
    <2> QED
      BY <2>1, <2>2, VerdictsBegin
  <1>2. ASSUME NEW p \in Policies, SyncPolicy(p) PROVE VerdictsInv'
    BY <1>2, VerdictsSync
  <1>3. CASE Resync
    BY <1>3, VerdictsBegin DEF Resync, TypeOK
  <1>4. CASE RestoreAll
    BY <1>4, VerdictsRestore
  <1>5. CASE UNCHANGED vars
    <2>1. /\ options' = options /\ policies' = policies /\ step' = step /\ todo' = todo /\ skipped' = skipped
          /\ lost' = lost /\ lines' = lines /\ excepts' = excepts /\ kernel' = kernel
          /\ enforced' = enforced /\ narrowed' = narrowed
      BY <1>5 DEF vars
    <2>2. Done' = Done /\ Enforced' = Enforced /\ \A c : ChainRules(c)' = ChainRules(c)
      BY <2>1 DEF Done, Enforced, ChainRules, Appended
    <2>3. LinesRight'
      BY <2>1, <2>2 DEF LinesRight, VerdictsInv
    <2>4. RestoredRight'
      BY <2>1, <2>2 DEF RestoredRight, Settled, VerdictsInv
    <2>5. Levelled(kernel')
      BY <2>1 DEF VerdictsInv
    <2> QED
      BY <2>3, <2>4, <2>5 DEF VerdictsInv
  <1> QED
    BY <1>1, <1>2, <1>3, <1>4, <1>5 DEF Next

-----------------------------------------------------------------------------
(* Verdicts: as jumps lead down, a packet gets one in every chain, that of  *)
(* the first rule that matches and does not come back.                      *)

LEMMA LeastOf ==
  ASSUME NEW T \in SUBSET Nat, T # {}
  PROVE  Min(T) \in T /\ \A t \in T : Min(T) <= t
  <1>1. \E x \in T : \A y \in T : x <= y
    BY LeastNumber
  <1> QED
    BY <1>1 DEF Min

Judged == DOMAIN kernel \cup {Accept, Reject}
Deciding(v, c, packet) ==
  {i \in DOMAIN kernel[c] : Matches(kernel[c][i], packet) /\ v[kernel[c][i].target] # Return}
Decision(v, c, packet) ==
  IF c \in {Accept, Reject} THEN c
  ELSE IF Deciding(v, c, packet) = {} THEN Return
  ELSE v[kernel[c][Min(Deciding(v, c, packet))].target]
Again(v, packet) == [c \in Judged |-> Decision(v, c, packet)]
AgreeBelow(u, v, n) == \A c \in Judged : Rank(c) < n => u[c] = v[c]

LEMMA FirstDecides ==
  ASSUME Levelled(kernel), NEW c \in DOMAIN kernel, NEW v, NEW packet, Deciding(v, c, packet) # {}
  PROVE  LET first == Min(Deciding(v, c, packet)) IN
         /\ first \in DOMAIN kernel[c] /\ kernel[c][first] \in ToSet(kernel[c])
         /\ Matches(kernel[c][first], packet) /\ v[kernel[c][first].target] # Return
         /\ \A i \in DOMAIN kernel[c] :
              Matches(kernel[c][i], packet) /\ v[kernel[c][i].target] # Return => ~(i < first)
  <1> DEFINE first == Min(Deciding(v, c, packet))
  <1>1. IsSeq(kernel[c])
    BY DEF Levelled
  <1>2. DOMAIN kernel[c] \subseteq Nat
    BY <1>1, SeqDomain
  <1>3. Deciding(v, c, packet) \in SUBSET Nat
    BY <1>2 DEF Deciding
  <1>4. first \in Deciding(v, c, packet) /\ \A i \in Deciding(v, c, packet) : first <= i
    BY <1>3, LeastOf
  <1> HIDE DEF first
  <1>5. \A i \in Deciding(v, c, packet) : ~(i < first)
    BY <1>3, <1>4
  <1>6. \A i : i \in Deciding(v, c, packet) <=>
          i \in DOMAIN kernel[c] /\ Matches(kernel[c][i], packet) /\ v[kernel[c][i].target] # Return
    BY DEF Deciding
  <1>7. kernel[c][first] \in ToSet(kernel[c])
    BY <1>4, <1>6 DEF ToSet
  <1> QED
    BY <1>4, <1>5, <1>6, <1>7 DEF first

LEMMA AgreeUp ==
  ASSUME Levelled(kernel), JumpedTo \subseteq Judged, NEW u, NEW v, NEW packet, NEW n \in Nat,
         AgreeBelow(u, v, n)
  PROVE  AgreeBelow(Again(u, packet), Again(v, packet), n + 1)
  <1> SUFFICES ASSUME NEW c \in Judged, Rank(c) < n + 1
               PROVE  Decision(u, c, packet) = Decision(v, c, packet)
    BY DEF AgreeBelow, Again
  <1>1. CASE c \in {Accept, Reject}
    BY <1>1 DEF Decision
  <1>2. CASE c \notin {Accept, Reject}
    <2>1. c \in DOMAIN kernel
      BY <1>2 DEF Judged
    <2>2. ASSUME NEW r \in ToSet(kernel[c]) PROVE u[r.target] = v[r.target]
      <3>1. r.target \in Judged
        BY <2>1, JumpFacts DEF JumpedTo
      <3>2. Rank(r.target) < Rank(c)
        BY <2>1 DEF Levelled
      <3>3. Rank(r.target) < n
        <4>1. Rank(c) \in 0 .. 5 /\ Rank(r.target) \in 0 .. 5
          BY Ranks
        <4> QED
          BY <3>2, <4>1
      <3> QED
        BY <3>1, <3>3 DEF AgreeBelow
    <2>3. \A i \in DOMAIN kernel[c] : u[kernel[c][i].target] = v[kernel[c][i].target]
      BY <2>2 DEF ToSet
    <2>4. Deciding(u, c, packet) = Deciding(v, c, packet)
      BY <2>3 DEF Deciding
    <2>5. CASE Deciding(v, c, packet) = {}
      BY <1>2, <2>4, <2>5 DEF Decision
    <2>6. CASE Deciding(v, c, packet) # {}
      <3>1. Min(Deciding(v, c, packet)) \in DOMAIN kernel[c]
        BY <2>1, <2>6, FirstDecides
      <3> QED
        BY <1>2, <2>3, <2>4, <2>6, <3>1 DEF Decision
    <2> QED
      BY <2>5, <2>6
  <1> QED
    BY <1>1, <1>2

LEMMA VerdictsFixed ==
  ASSUME Levelled(kernel), JumpedTo \subseteq Judged, NEW packet
  PROVE  \A c \in Judged : Verdicts(packet)[c] = Decision(Verdicts(packet), c, packet)
  <1> DEFINE v0 == Again([c \in Judged |-> Return], packet)
             v1 == Again(v0, packet)
             v2 == Again(v1, packet)
             v3 == Again(v2, packet)
             v4 == Again(v3, packet)
             v5 == Again(v4, packet)
             v6 == Again(v5, packet)
  <1>1. AgreeBelow([c \in Judged |-> Return], v0, 0)
    <2>1. \A c : ~(Rank(c) < 0)
      BY Ranks
    <2> QED
      BY <2>1 DEF AgreeBelow
  <1>2. AgreeBelow(v0, v1, 1)
    BY <1>1, AgreeUp
  <1> HIDE DEF v0
  <1>3. AgreeBelow(v1, v2, 2)
    <2>1. AgreeBelow(v1, v2, 1 + 1)
      BY <1>2, AgreeUp
    <2> QED
      BY <2>1
  <1> HIDE DEF v1
  <1>4. AgreeBelow(v2, v3, 3)
    <2>1. AgreeBelow(v2, v3, 2 + 1)
      BY <1>3, AgreeUp
    <2> QED
      BY <2>1
  <1> HIDE DEF v2
  <1>5. AgreeBelow(v3, v4, 4)
    <2>1. AgreeBelow(v3, v4, 3 + 1)
      BY <1>4, AgreeUp
    <2> QED
      BY <2>1
  <1> HIDE DEF v3
  <1>6. AgreeBelow(v4, v5, 5)
    <2>1. AgreeBelow(v4, v5, 4 + 1)
      BY <1>5, AgreeUp
    <2> QED
      BY <2>1
  <1> HIDE DEF v4
  <1>7. AgreeBelow(v5, v6, 6)
    <2>1. AgreeBelow(v5, v6, 5 + 1)
      BY <1>6, AgreeUp
    <2> QED
      BY <2>1
  <1>8. \A c \in Judged : v5[c] = Decision(v5, c, packet)
    <2>1. \A c \in Judged : Rank(c) < 6
      BY Ranks
    <2>2. \A c \in Judged : v6[c] = Decision(v5, c, packet)
      <3> HIDE DEF v5
      <3> QED
        BY DEF Again
    <2> HIDE DEF v5, v6
    <2> QED
      BY <1>7, <2>1, <2>2 DEF AgreeBelow
  <1>9. v5 = [c \in Judged |-> v5[c]]
    BY DEF Again
  <1> HIDE DEF v5
  <1>10. v5 = [c \in Judged |-> Decision(v5, c, packet)]
    BY <1>8, <1>9
  <1> DEFINE IsIt(v) == v = [c \in DOMAIN kernel \cup {Accept, Reject} |->
                LET deciding == {i \in DOMAIN kernel[c] : /\ Matches(kernel[c][i], packet)
                                                         /\ v[kernel[c][i].target] # Return}
                IN  IF c \in {Accept, Reject} THEN c
                    ELSE IF deciding = {} THEN Return
                    ELSE v[kernel[c][Min(deciding)].target]]
  <1>11. \A v : IsIt(v) <=> v = [c \in Judged |-> Decision(v, c, packet)]
    BY DEF Judged, Decision, Deciding
  <1>12. Verdicts(packet) = CHOOSE v : IsIt(v)
    BY DEF Verdicts
  <1> HIDE DEF IsIt
  <1>13. IsIt(Verdicts(packet))
    BY <1>10, <1>11, <1>12
  <1>14. Verdicts(packet) = [c \in Judged |-> Decision(Verdicts(packet), c, packet)]
    BY <1>11, <1>13
  <1> QED
    BY <1>14

\* A chain that does not decide has no rule that does; one that decides has a
\* first rule that does.
LEMMA VerdictOf ==
  ASSUME Levelled(kernel), JumpedTo \subseteq Judged, NEW packet,
         NEW c \in DOMAIN kernel \ {Accept, Reject}
  PROVE  LET v == Verdicts(packet) IN
         /\ v[c] = Return => \A r \in ToSet(kernel[c]) : Matches(r, packet) => v[r.target] = Return
         /\ v[c] # Return => \E r \in ToSet(kernel[c]) :
              /\ Matches(r, packet) /\ v[c] = v[r.target]
              /\ \A x : Preceded(kernel[c], x, r) => ~(Matches(x, packet) /\ v[x.target] # Return)
  <1> DEFINE v == Verdicts(packet)
             D == Deciding(v, c, packet)
             first == Min(D)
  <1>1. v[c] = IF D = {} THEN Return ELSE v[kernel[c][first].target]
    BY VerdictsFixed DEF Judged, Decision
  <1> HIDE DEF v
  <1>2. CASE D = {}
    <2>1. \A r \in ToSet(kernel[c]) : Matches(r, packet) => v[r.target] = Return
      BY <1>2 DEF Deciding, ToSet
    <2> QED
      BY <1>1, <1>2, <2>1 DEF v
  <1>3. CASE D # {}
    <2>1. /\ first \in DOMAIN kernel[c] /\ kernel[c][first] \in ToSet(kernel[c])
          /\ Matches(kernel[c][first], packet) /\ v[kernel[c][first].target] # Return
          /\ \A i \in DOMAIN kernel[c] :
               Matches(kernel[c][i], packet) /\ v[kernel[c][i].target] # Return => ~(i < first)
      BY <1>3, FirstDecides
    <2> HIDE DEF first, D
    <2>2. ASSUME NEW x, Preceded(kernel[c], x, kernel[c][first])
          PROVE  ~(Matches(x, packet) /\ v[x.target] # Return)
      <3>1. PICK i \in DOMAIN kernel[c] : i < first /\ kernel[c][i] = x
        BY <2>1, <2>2 DEF Preceded
      <3> QED
        BY <2>1, <3>1
    <2>3. v[c] # Return /\ v[c] = v[kernel[c][first].target]
      BY <1>1, <1>3, <2>1
    <2> QED
      BY <2>1, <2>2, <2>3 DEF v
  <1> QED
    BY <1>2, <1>3

LEMMA VerdictTargets ==
  ASSUME Levelled(kernel), JumpedTo \subseteq Judged, NEW packet
  PROVE  /\ Verdicts(packet)[Accept] = Accept /\ Verdicts(packet)[Reject] = Reject
         /\ Accept # Return /\ Reject # Return /\ Accept # Reject
  <1>1. Verdicts(packet)[Accept] = Accept /\ Verdicts(packet)[Reject] = Reject
    BY VerdictsFixed DEF Judged, Decision
  <1> QED
    BY <1>1 DEF Accept, Reject, Return

-----------------------------------------------------------------------------
(* The chains of a settled kernel, by the lines they were written from.    *)

Ready == PlainSpecs /\ TypeOK /\ ChainsInv /\ VerdictsInv /\ Settled

LEMMA ReadyFacts ==
  ASSUME Ready
  PROVE  /\ IsSeq(lines) /\ Ordered(options, lines)
         /\ Sound(options, ToSet(lines), policies, Done)
         /\ Heads(options, ToSet(lines), policies, Done)
         /\ lost = "nothing" => AllRules(ToSet(lines), policies, Done)
         /\ ExceptsRight(ToSet(lines), policies, Done, excepts)
         /\ \A c \in EntryChains \cup Active(lines) : c \in DOMAIN kernel /\ kernel[c] = ChainRules(c)
         /\ ~narrowed => lost = "nothing"
         /\ Levelled(kernel) /\ JumpedTo \subseteq Judged
  <1>1. enforced # None /\ LinesRight /\ RestoredRight /\ Levelled(kernel)
    BY DEF Ready, VerdictsInv, Settled
  <1>2. lost # "sets" /\ narrowed = (lost = "rules") /\ lost \in {"nothing", "rules", "sets"}
    BY <1>1 DEF RestoredRight, Ready, TypeOK
  <1>3. \A c \in EntryChains \cup Active(lines) : c \in DOMAIN kernel /\ kernel[c] = ChainRules(c)
    BY <1>1 DEF RestoredRight, Ready
  <1>4. JumpedTo \subseteq Judged
    BY DEF Ready, ChainsInv, Judged
  <1> QED
    BY <1>1, <1>2, <1>3, <1>4 DEF LinesRight

LEMMA ReadyPolicies ==
  ASSUME Ready, NEW p \in Policies
  PROVE  /\ enforced[p] # None <=> p \in Done
         /\ p \in Done => /\ enforced[p] = policies[p] /\ policies[p] \in Specs[p]
                          /\ ToSet(policies[p].types) \subseteq Directions
                          /\ \A d \in Directions :
                               /\ ToSet(policies[p][d]) \subseteq [ports : SUBSET Ports, peers : Seq(Peers)]
                               /\ \A rule \in ToSet(policies[p][d]) : PlainRule(rule)
  <1>1. enforced = Enforced /\ todo = {} /\ policies \in PolicyMaps
    BY DEF Ready, VerdictsInv, RestoredRight, TypeOK
  <1>2. enforced[p] = IF p \in skipped THEN None ELSE policies[p]
    BY <1>1 DEF Enforced
  <1>3. p \in Done <=> policies[p] # None /\ p \notin skipped
    BY <1>1 DEF Done
  <1>4. policies[p] # None => policies[p] \in Specs[p]
    BY <1>1, KnownSpec
  <1>5. ASSUME policies[p] # None
        PROVE  /\ ToSet(policies[p].types) \subseteq Directions
               /\ \A d \in Directions : ToSet(policies[p][d]) \subseteq [ports : SUBSET Ports, peers : Seq(Peers)]
    BY <1>1, <1>5, KnownSpec
  <1>6. ASSUME policies[p] # None, NEW d \in Directions, NEW rule \in ToSet(policies[p][d])
        PROVE  PlainRule(rule)
    BY <1>4, <1>6 DEF PlainSpecs, Ready
  <1> QED
    BY <1>2, <1>3, <1>4, <1>5, <1>6

\* Where a line comes from.
LEMMA LineOrigin ==
  ASSUME Ready, NEW l \in ToSet(lines)
  PROVE  \E p \in Done : \E d \in ToSet(policies[p].types) :
           /\ d \in Directions /\ p \in Policies /\ p[1] \in Namespaces
           /\ \/ l \in HeadSet(options, d, p[1])
              \/ \E rule \in ToSet(policies[p][d]) : l \in RuleSet(d, p, policies[p].podSelector, rule, None)
  <1>1. PICK p \in Done : \E d \in ToSet(policies[p].types) :
           \/ l \in HeadSet(options, d, p[1])
           \/ \E rule \in ToSet(policies[p][d]) : l \in RuleSet(d, p, policies[p].podSelector, rule, None)
    BY ReadyFacts DEF Sound
  <1>2. p \in Policies /\ p[1] \in Namespaces
    BY ClusterAssumption DEF Done
  <1>3. ToSet(policies[p].types) \subseteq Directions
    BY <1>2, ReadyPolicies
  <1> QED
    BY <1>1, <1>2, <1>3

LEMMA LineIsPair ==
  ASSUME Ready, NEW l \in ToSet(lines)
  PROVE  l = Line(l.chain, l.rule)
  <1>1. \A c, r : Line(c, r) = Line(Line(c, r).chain, Line(c, r).rule)
    BY DEF Line
  <1>2. PICK p \in Done : \E d \in ToSet(policies[p].types) :
           /\ d \in Directions /\ p \in Policies /\ p[1] \in Namespaces
           /\ \/ l \in HeadSet(options, d, p[1])
              \/ \E rule \in ToSet(policies[p][d]) : l \in RuleSet(d, p, policies[p].podSelector, rule, None)
    BY LineOrigin
  <1>3. PICK d \in Directions :
           \/ l \in HeadSet(options, d, p[1])
           \/ \E rule \in ToSet(policies[p][d]) : l \in RuleSet(d, p, policies[p].podSelector, rule, None)
    BY <1>2
  <1>4. CASE l \in HeadSet(options, d, p[1])
    <2>1. l \in {HookJump(l.chain, d, p[1]), FlannelLine(d, p[1]), RangeLine(options, d, p[1]), OutsideLine(d, p[1])}
      BY <1>4, HeadLines
    <2>2. \E c, r : l = Line(c, r)
      BY <2>1 DEF HookJump, FlannelLine, RangeLine, OutsideLine
    <2> QED
      BY <1>1, <2>2
  <1>5. CASE \E rule \in ToSet(policies[p][d]) : l \in RuleSet(d, p, policies[p].podSelector, rule, None)
    <2>1. PICK rule \in ToSet(policies[p][d]) : l \in RuleSet(d, p, policies[p].podSelector, rule, None)
      BY <1>5
    <2>2. \/ \E e : l = JumpLine(d, p, e)
          \/ \E e, each : l = PortLine(d, p, policies[p].podSelector, e, each)
          \/ \E cidr : l = RejectLine(d, p, cidr) \/ l = AcceptLine(d, p, cidr)
      BY <2>1, RuleSetLines
    <2>3. \E c, r : l = Line(c, r)
      BY <2>2 DEF JumpLine, PortLine, RejectLine, AcceptLine
    <2> QED
      BY <1>1, <2>3
  <1> QED
    BY <1>3, <1>4, <1>5

\* The rules of a chain are in the order of its lines.
LEMMA AppendedOrder ==
  ASSUME Ready, NEW x \in ToSet(lines), NEW y, Preceded(lines, x, y), y = Line(x.chain, y.rule)
  PROVE  Preceded(Appended(x.chain), x.rule, y.rule)
  <1> DEFINE c == x.chain
             each == [i \in DOMAIN lines |-> IF lines[i].chain = c THEN <<lines[i].rule>> ELSE <<>>]
  <1>1. Appended(c) = FlattenSeq(each)
    BY DEF Appended
  <1>2. IsSeq(each) /\ DOMAIN each = DOMAIN lines
    BY ReadyFacts, Mapped
  <1>3. \A i \in DOMAIN lines :
          /\ lines[i].chain = c => each[i] = <<lines[i].rule>>
          /\ lines[i].chain # c => each[i] = <<>>
    OBVIOUS
  <1> HIDE DEF each, c
  <1>4. \A i \in DOMAIN lines :
          /\ IsSeq(each[i])
          /\ \A r : r \in ToSet(each[i]) <=> lines[i].chain = c /\ r = lines[i].rule
    BY <1>3, One, Empty
  <1>5. ASSUME NEW i \in DOMAIN lines
        PROVE  \/ Preceded(each[i], x.rule, y.rule)
               \/ \E j \in DOMAIN lines : j < i /\ x.rule \in ToSet(each[j])
    <2>1. CASE y.rule \notin ToSet(each[i])
      BY <2>1, PrecededAbsent
    <2>2. CASE y.rule \in ToSet(each[i])
      <3>1. lines[i] \in ToSet(lines) /\ lines[i].chain = c /\ lines[i].rule = y.rule
        BY <1>4, <2>2 DEF ToSet
      <3>2. lines[i] = y
        BY <3>1, LineIsPair DEF c
      <3>3. PICK j \in DOMAIN lines : j < i /\ lines[j] = x
        BY <3>2 DEF Preceded
      <3>4. x.rule \in ToSet(each[j])
        BY <1>4, <3>3 DEF c
      <3> QED
        BY <3>3, <3>4
    <2> QED
      BY <2>1, <2>2
  <1>6. Preceded(FlattenSeq(each), x.rule, y.rule)
    BY <1>2, <1>4, <1>5, PrecededFlatten
  <1> QED
    BY <1>1, <1>6 DEF c

\* Chains other than the IP range chains have the rules of their lines.
LEMMA ChainIsLines ==
  ASSUME Ready, NEW c \in EntryChains \cup Active(lines), c[1] \notin {"ENN-PLY-IN", "ENN-PLY-E"}
  PROVE  /\ c \in DOMAIN kernel
         /\ \A r : r \in ToSet(kernel[c]) <=> \E l \in ToSet(lines) : l.chain = c /\ l.rule = r
         /\ \A x \in ToSet(lines) : \A y : x.chain = c /\ Preceded(lines, x, y) /\ y = Line(c, y.rule) =>
              Preceded(kernel[c], x.rule, y.rule)
  <1>1. c \in DOMAIN kernel /\ kernel[c] = Appended(c)
    BY ReadyFacts DEF ChainRules
  <1> QED
    BY <1>1, ReadyFacts, AppendedFacts, AppendedOrder

\* The IP range chains have established connections first and the reject last.
LEMMA RangeChainIsLines ==
  ASSUME Ready, NEW c \in Active(lines), c[1] \in {"ENN-PLY-IN", "ENN-PLY-E"},
         \A l \in ToSet(lines) : l.chain = c => l.rule # Established /\ l.rule # DefaultReject
  PROVE  /\ c \in DOMAIN kernel
         /\ \A r : r \in ToSet(kernel[c]) <=>
              r \in {Established, DefaultReject} \/ \E l \in ToSet(lines) : l.chain = c /\ l.rule = r
         /\ \A r : r # Established => Preceded(kernel[c], Established, r)
         /\ \A l \in ToSet(lines) : l.chain = c => Preceded(kernel[c], l.rule, DefaultReject)
  <1> DEFINE A == Appended(c)
             E == <<Established>>
             R == <<DefaultReject>>
  <1>1. c \in DOMAIN kernel /\ kernel[c] = (E \o A) \o R
    BY ReadyFacts DEF ChainRules
  <1>2. IsSeq(A) /\ \A r : r \in ToSet(A) <=> \E l \in ToSet(lines) : l.chain = c /\ l.rule = r
    BY ReadyFacts, AppendedFacts
  <1>3. IsSeq(E) /\ ToSet(E) = {Established} /\ IsSeq(R) /\ ToSet(R) = {DefaultReject}
    BY One
  <1>4. Established # DefaultReject
    BY DEF Established, DefaultReject
  <1> HIDE DEF A, E, R
  <1>5. IsSeq(E \o A) /\ ToSet(E \o A) = ToSet(E) \cup ToSet(A)
        /\ ToSet((E \o A) \o R) = ToSet(E \o A) \cup ToSet(R)
    BY <1>2, <1>3, Concat
  <1>6. ASSUME NEW r, r # Established PROVE Preceded(kernel[c], Established, r)
    <2>1. Preceded(E, Established, r)
      BY <1>3, <1>6, PrecededAbsent
    <2>2. Established \in ToSet(E) /\ Established \in ToSet(E \o A)
      BY <1>3, <1>5
    <2>3. Preceded(E \o A, Established, r)
      BY <1>2, <1>3, <2>1, <2>2, PrecededConcat
    <2> QED
      BY <1>1, <1>3, <1>5, <2>2, <2>3, PrecededConcat
  <1>7. ASSUME NEW l \in ToSet(lines), l.chain = c PROVE Preceded(kernel[c], l.rule, DefaultReject)
    <2>1. DefaultReject \notin ToSet(E \o A)
      BY <1>2, <1>3, <1>4, <1>5
    <2>2. Preceded(E \o A, l.rule, DefaultReject)
      BY <2>1, PrecededAbsent
    <2>3. l.rule \in ToSet(E \o A)
      BY <1>2, <1>5, <1>7
    <2> QED
      BY <1>1, <1>3, <1>5, <2>2, <2>3, PrecededConcat
  <1> QED
    BY <1>1, <1>2, <1>3, <1>5, <1>6, <1>7

-----------------------------------------------------------------------------
(* What the lines of each kind of chain are.                               *)

OfHook(l) ==
  /\ l.chain[1] \in {"ENN-FORWARD", "ENN-OUTPUT"}
  /\ \E p \in Done : /\ p \in Policies /\ p[1] \in Namespaces
       /\ \E d \in ToSet(policies[p].types) : d \in Directions /\ l = HookJump(l.chain, d, p[1])
OfNamespace(l) ==
  /\ l.chain[1] \in {"ENN-INGRESS", "ENN-EGRESS"}
  /\ \E p \in Done : \E d \in ToSet(policies[p].types) : /\ d \in Directions
       /\ l.chain = NamespaceChain(d, p[1])
       /\ \/ l = FlannelLine(d, p[1]) /\ options.acceptFlannel
          \/ l = RangeLine(options, d, p[1])
          \/ l = OutsideLine(d, p[1]) /\ options.iPRange # Addresses
OfRange(l) ==
  /\ l.chain[1] \in {"ENN-PLY-IN", "ENN-PLY-E"}
  /\ \E p \in Done : p \in Policies /\ \E d \in ToSet(policies[p].types) : d \in Directions
       /\ \E rule \in ToSet(policies[p][d]) : \E e \in EntrySet(d, p, rule, None) :
            l.chain = IPRangeChain(d, p[1]) /\ l = JumpLine(d, p, e)
OfDispatch(l) ==
  /\ l.chain[1] = "ENN-DPATCH"
  /\ \E p \in Done : p \in Policies /\ \E d \in ToSet(policies[p].types) : d \in Directions
       /\ \E rule \in ToSet(policies[p][d]) : \E e \in EntrySet(d, p, rule, None) :
          \E each \in Each(rule.ports) :
            /\ l.chain = DispatchChain(d, p, e.match, e.key)
            /\ l = PortLine(d, p, policies[p].podSelector, e, each)
OfBlock(l) ==
  /\ l.chain[1] = "ENN-IPCIDR"
  /\ \E p \in Done : p \in Policies /\ \E d \in ToSet(policies[p].types) : d \in Directions
       /\ \E rule \in ToSet(policies[p][d]) : \E b \in Blocks(rule) :
            /\ l.chain = IPBlockChain(d, p, b.cidr)
            /\ l = RejectLine(d, p, b.cidr) \/ l = AcceptLine(d, p, b.cidr)

LEMMA KindOf ==
  /\ \A d \in Directions : \A n :
       /\ NamespaceChain(d, n)[1] \in {"ENN-INGRESS", "ENN-EGRESS"}
       /\ IPRangeChain(d, n)[1] \in {"ENN-PLY-IN", "ENN-PLY-E"}
  /\ \A d, p, e : DispatchChain(d, p, e.match, e.key)[1] = "ENN-DPATCH"
  /\ \A d, p, cidr : IPBlockChain(d, p, cidr)[1] = "ENN-IPCIDR"
  /\ \A h \in Hooks : h[1] \in {"ENN-FORWARD", "ENN-OUTPUT"}
  BY DEF NamespaceChain, IPRangeChain, DispatchChain, IPBlockChain, Hooks

LEMMA LineKinds ==
  ASSUME Ready, NEW l \in ToSet(lines)
  PROVE  OfHook(l) \/ OfNamespace(l) \/ OfRange(l) \/ OfDispatch(l) \/ OfBlock(l)
  <1>1. PICK p \in Done : \E d \in ToSet(policies[p].types) :
           /\ d \in Directions /\ p \in Policies /\ p[1] \in Namespaces
           /\ \/ l \in HeadSet(options, d, p[1])
              \/ \E rule \in ToSet(policies[p][d]) : l \in RuleSet(d, p, policies[p].podSelector, rule, None)
    BY LineOrigin
  <1>2. PICK d \in ToSet(policies[p].types) :
           /\ d \in Directions /\ p \in Policies /\ p[1] \in Namespaces
           /\ \/ l \in HeadSet(options, d, p[1])
              \/ \E rule \in ToSet(policies[p][d]) : l \in RuleSet(d, p, policies[p].podSelector, rule, None)
    BY <1>1
  <1>3. CASE l \in HeadSet(options, d, p[1])
    <2>1. CASE l.chain \in Hooks /\ l = HookJump(l.chain, d, p[1])
      BY <1>2, <2>1, KindOf DEF OfHook
    <2>2. CASE /\ l.chain = NamespaceChain(d, p[1])
               /\ \/ l = FlannelLine(d, p[1]) /\ options.acceptFlannel
                  \/ l = RangeLine(options, d, p[1])
                  \/ l = OutsideLine(d, p[1]) /\ options.iPRange # Addresses
      BY <1>2, <2>2, KindOf DEF OfNamespace
    <2>3. d \in Directions /\ l \in HeadSet(options, d, p[1])
      BY <1>2, <1>3
    <2>4. \/ l.chain \in Hooks /\ l = HookJump(l.chain, d, p[1]) /\ l.rule.target = NamespaceChain(d, p[1])
          \/ /\ l.chain = NamespaceChain(d, p[1]) /\ l.rule.target \in {IPRangeChain(d, p[1]), Accept}
             /\ \/ l = FlannelLine(d, p[1]) /\ options.acceptFlannel
                \/ l = RangeLine(options, d, p[1])
                \/ l = OutsideLine(d, p[1]) /\ options.iPRange # Addresses
      BY <2>3, HeadLines
    <2> QED
      BY <2>1, <2>2, <2>4
  <1>4. CASE \E rule \in ToSet(policies[p][d]) : l \in RuleSet(d, p, policies[p].podSelector, rule, None)
    <2>1. PICK rule \in ToSet(policies[p][d]) : l \in RuleSet(d, p, policies[p].podSelector, rule, None)
      BY <1>4
    <2>2. CASE \E e \in EntrySet(d, p, rule, None) : l.chain = IPRangeChain(d, p[1]) /\ l = JumpLine(d, p, e)
      BY <1>2, <2>2, KindOf DEF OfRange
    <2>3. CASE \E e \in EntrySet(d, p, rule, None) : \E each \in Each(rule.ports) :
                 /\ l.chain = DispatchChain(d, p, e.match, e.key)
                 /\ l = PortLine(d, p, policies[p].podSelector, e, each)
      <3>1. l.chain[1] = "ENN-DPATCH"
        BY <2>3, KindOf
      <3> QED
        BY <1>2, <2>3, <3>1 DEF OfDispatch
    <2>4. CASE \E b \in Blocks(rule) : /\ l.chain = IPBlockChain(d, p, b.cidr)
                                       /\ l = RejectLine(d, p, b.cidr) \/ l = AcceptLine(d, p, b.cidr)
      <3>1. l.chain[1] = "ENN-IPCIDR"
        BY <2>4, KindOf
      <3> QED
        BY <1>2, <2>4, <3>1 DEF OfBlock
    <2>5. d \in Directions
      BY <1>2
    <2> QED
      BY <2>1, <2>2, <2>3, <2>4, <2>5, RuleSetLines
  <1> QED
    BY <1>2, <1>3, <1>4

LEMMA HookLines ==
  ASSUME Ready, NEW l \in ToSet(lines), l.chain \in Hooks
  PROVE  \E p \in Done : /\ p \in Policies /\ p[1] \in Namespaces
           /\ \E d \in ToSet(policies[p].types) : d \in Directions /\ l = HookJump(l.chain, d, p[1])
  <1>1. l.chain[1] \in {"ENN-FORWARD", "ENN-OUTPUT"}
    BY KindOf
  <1>2. OfHook(l)
    BY <1>1, LineKinds DEF OfNamespace, OfRange, OfDispatch, OfBlock
  <1> QED
    BY <1>2 DEF OfHook

LEMMA NamespaceLines ==
  ASSUME Ready, NEW d \in Directions, NEW n, NEW l \in ToSet(lines), l.chain = NamespaceChain(d, n)
  PROVE  \/ l = FlannelLine(d, n) /\ options.acceptFlannel
         \/ l = RangeLine(options, d, n)
         \/ l = OutsideLine(d, n) /\ options.iPRange # Addresses
  <1>1. l.chain[1] \in {"ENN-INGRESS", "ENN-EGRESS"}
    BY KindOf
  <1>2. OfNamespace(l)
    BY <1>1, LineKinds DEF OfHook, OfRange, OfDispatch, OfBlock
  <1>3. PICK p \in Done, e \in Directions :
           /\ l.chain = NamespaceChain(e, p[1])
           /\ \/ l = FlannelLine(e, p[1]) /\ options.acceptFlannel
              \/ l = RangeLine(options, e, p[1])
              \/ l = OutsideLine(e, p[1]) /\ options.iPRange # Addresses
    BY <1>2 DEF OfNamespace
  <1>4. e = d /\ p[1] = n
    <2>1. NamespaceChain(d, n) = NamespaceChain(e, p[1])
      BY <1>3
    <2> QED
      BY <2>1, ChainNames
  <1> QED
    BY <1>3, <1>4

LEMMA RangeLines ==
  ASSUME Ready, NEW d \in Directions, NEW n, NEW l \in ToSet(lines), l.chain = IPRangeChain(d, n)
  PROVE  \E q \in Done : /\ q \in Policies /\ q[1] = n /\ d \in ToSet(policies[q].types)
           /\ \E rule \in ToSet(policies[q][d]) : \E e \in EntrySet(d, q, rule, None) : l = JumpLine(d, q, e)
  <1>1. l.chain[1] \in {"ENN-PLY-IN", "ENN-PLY-E"}
    BY KindOf
  <1>2. OfRange(l)
    BY <1>1, LineKinds DEF OfHook, OfNamespace, OfDispatch, OfBlock
  <1>3. PICK p \in Done : p \in Policies /\ \E c \in ToSet(policies[p].types) : c \in Directions
          /\ \E rule \in ToSet(policies[p][c]) : \E e \in EntrySet(c, p, rule, None) :
               l.chain = IPRangeChain(c, p[1]) /\ l = JumpLine(c, p, e)
    BY <1>2 DEF OfRange
  <1>4. PICK c \in ToSet(policies[p].types) : c \in Directions
          /\ \E rule \in ToSet(policies[p][c]) : \E e \in EntrySet(c, p, rule, None) :
               l.chain = IPRangeChain(c, p[1]) /\ l = JumpLine(c, p, e)
    BY <1>3
  <1>5. l.chain = IPRangeChain(c, p[1])
    BY <1>4
  <1>6. c = d /\ p[1] = n
    <2>1. c \in Directions /\ IPRangeChain(d, n) = IPRangeChain(c, p[1])
      BY <1>4, <1>5
    <2> QED
      BY <2>1, ChainNames
  <1> QED
    BY <1>3, <1>4, <1>6

LEMMA DispatchLinesOf ==
  ASSUME Ready, NEW d \in Directions, NEW q \in Policies, NEW f, NEW l \in ToSet(lines),
         l.chain = DispatchChain(d, q, f.match, f.key)
  PROVE  /\ q \in Done /\ d \in ToSet(policies[q].types)
         /\ \E rule \in ToSet(policies[q][d]) : \E e \in EntrySet(d, q, rule, None) :
            \E each \in Each(rule.ports) :
              /\ l.chain = DispatchChain(d, q, e.match, e.key)
              /\ l = PortLine(d, q, policies[q].podSelector, e, each)
  <1>1. l.chain[1] = "ENN-DPATCH"
    BY KindOf
  <1>2. OfDispatch(l)
    BY <1>1, LineKinds DEF OfHook, OfNamespace, OfRange, OfBlock
  <1>3. PICK p \in Done : p \in Policies /\ \E c \in ToSet(policies[p].types) : c \in Directions
          /\ \E rule \in ToSet(policies[p][c]) : \E e \in EntrySet(c, p, rule, None) :
             \E each \in Each(rule.ports) :
               /\ l.chain = DispatchChain(c, p, e.match, e.key)
               /\ l = PortLine(c, p, policies[p].podSelector, e, each)
    BY <1>2 DEF OfDispatch
  <1>4. PICK c \in ToSet(policies[p].types) : c \in Directions
          /\ \E rule \in ToSet(policies[p][c]) : \E e \in EntrySet(c, p, rule, None) :
             \E each \in Each(rule.ports) :
               /\ l.chain = DispatchChain(c, p, e.match, e.key)
               /\ l = PortLine(c, p, policies[p].podSelector, e, each)
    BY <1>3
  <1>5. \E e : l.chain = DispatchChain(c, p, e.match, e.key)
    BY <1>4
  <1>6. c = d /\ Owner(p) = Owner(q)
    BY <1>5 DEF DispatchChain
  <1>7. p = q
    BY <1>3, <1>6, NamesApartAssumption DEF Owner
  <1> QED
    BY <1>3, <1>4, <1>6, <1>7

LEMMA BlockLines ==
  ASSUME Ready, NEW d \in Directions, NEW q \in Policies, NEW cidr, NEW l \in ToSet(lines),
         l.chain = IPBlockChain(d, q, cidr)
  PROVE  l = RejectLine(d, q, cidr) \/ l = AcceptLine(d, q, cidr)
  <1>1. l.chain[1] = "ENN-IPCIDR"
    BY KindOf
  <1>2. OfBlock(l)
    BY <1>1, LineKinds DEF OfHook, OfNamespace, OfRange, OfDispatch
  <1>3. PICK p \in Policies, c \in Directions : \E b :
          /\ l.chain = IPBlockChain(c, p, b.cidr)
          /\ l = RejectLine(c, p, b.cidr) \/ l = AcceptLine(c, p, b.cidr)
    BY <1>2 DEF OfBlock
  <1>4. PICK b : /\ l.chain = IPBlockChain(c, p, b.cidr)
                 /\ l = RejectLine(c, p, b.cidr) \/ l = AcceptLine(c, p, b.cidr)
    BY <1>3
  <1>5. c = d /\ Owner(p) = Owner(q) /\ b.cidr = cidr
    BY <1>4 DEF IPBlockChain
  <1>6. p = q
    BY <1>5, NamesApartAssumption DEF Owner
  <1> QED
    BY <1>4, <1>5, <1>6

LEMMA OwnActive ==
  ASSUME NEW l \in ToSet(lines)
  PROVE  /\ l.chain[1] \in OwnPrefixes => l.chain \in Active(lines)
         /\ l.rule.target[1] \in OwnPrefixes => l.rule.target \in Active(lines)
  <1>1. PICK i \in DOMAIN lines : l = lines[i]
    BY DEF ToSet
  <1>2. \A c \in EntryChains \cup {Accept, Reject} : c[1] \notin OwnPrefixes
    BY DEF EntryChains, Accept, Reject, OwnPrefixes
  <1>3. {l.chain, l.rule.target} \subseteq UNION {{lines[k].chain, lines[k].rule.target} : k \in DOMAIN lines}
    BY <1>1
  <1> QED
    BY <1>2, <1>3 DEF Active

LEMMA PrecededIn ==
  ASSUME NEW s, NEW x, NEW y \in ToSet(s), Preceded(s, x, y)
  PROVE  x \in ToSet(s)
  BY DEF Preceded, ToSet

-----------------------------------------------------------------------------
(* Verdicts, chain by chain from below.                                    *)

Within(sets, a) == \A s \in sets : a \in Members(s)

LEMMA RuleMatches ==
  ASSUME NEW d \in Directions, NEW own, NEW peer, NEW ports, NEW target, NEW packet
  PROVE  /\ Matches(Rule(d, own, peer, ports, target), packet) <=>
              /\ Within(own, Own(d, packet))
              /\ Within(peer, Peer(d, packet))
              /\ packet.port \in ports
         /\ Rule(d, own, peer, ports, target).target = target
  <1>1. CASE d = "Ingress"
    BY <1>1 DEF Matches, Rule, Own, Peer, Within
  <1>2. CASE d = "Egress"
    BY <1>2 DEF Matches, Rule, Own, Peer, Within
  <1> QED
    BY <1>1, <1>2 DEF Directions

LEMMA MembersOf ==
  /\ \A n : Members(NamespaceSet(n)) = InNamespace[n]
  /\ \A n, ls : Members(LabelsSet(n, ls)) = {a \in InNamespace[n] : \A l \in ls : a \in WithLabel[n, l]}
  /\ \A g : Members(NamespaceLabelSet(g)) = WithNamespaceLabel[g]
  /\ Members(FlannelSet) = FlannelNet
  /\ Members(IPRangeSet) = options.iPRange
  /\ \A cidr : Members(CidrMatch(cidr)) = InCidr[cidr]
  /\ \A d, p, cidr : \A a :
       a \in Members(ExceptSet(d, p, cidr)) <=> \E c \in excepts[ExceptSet(d, p, cidr)] : a \in InCidr[c]
  <1>1. \A n : Members(NamespaceSet(n)) = InNamespace[n]
    BY DEF Members, NamespaceSet
  <1>2. \A n, ls : Members(LabelsSet(n, ls)) = {a \in InNamespace[n] : \A l \in ls : a \in WithLabel[n, l]}
    BY DEF Members, LabelsSet
  <1>3. \A g : Members(NamespaceLabelSet(g)) = WithNamespaceLabel[g]
    BY DEF Members, NamespaceLabelSet
  <1>4. Members(FlannelSet) = FlannelNet
    BY DEF Members, FlannelSet
  <1>5. Members(IPRangeSet) = options.iPRange
    BY DEF Members, IPRangeSet
  <1>6. \A cidr : Members(CidrMatch(cidr)) = InCidr[cidr]
    BY DEF Members, CidrMatch
  <1>7. ASSUME NEW d, NEW p, NEW cidr, NEW a
        PROVE  a \in Members(ExceptSet(d, p, cidr)) <=> \E c \in excepts[ExceptSet(d, p, cidr)] : a \in InCidr[c]
    <2>1. ExceptSet(d, p, cidr)[1] = "ENN-IPTSET"
      BY DEF ExceptSet
    <2> QED
      BY <2>1 DEF Members
  <1> QED
    BY <1>1, <1>2, <1>3, <1>4, <1>5, <1>6, <1>7

LEMMA BlockVerdict ==
  ASSUME Ready, NEW packet \in Packets, NEW d \in Directions, NEW q \in Policies, q \in Done,
         d \in ToSet(policies[q].types), NEW rule \in ToSet(policies[q][d]), NEW b \in Blocks(rule),
         IPBlockChain(d, q, b.cidr) \in Active(lines)
  PROVE  LET c == IPBlockChain(d, q, b.cidr)
             v == Verdicts(packet)
         IN  /\ v[c] \in {Return, Accept, Reject}
             /\ v[c] = Accept => ~InExcept(b, Peer(d, packet))
             /\ v[c] = Reject => InExcept(b, Peer(d, packet))
             /\ lost = "nothing" => v[c] # Return
  <1> DEFINE c == IPBlockChain(d, q, b.cidr)
             v == Verdicts(packet)
             es == ExceptSet(d, q, b.cidr)
             rl == RejectLine(d, q, b.cidr)
             al == AcceptLine(d, q, b.cidr)
  <1>1. packet.port \in AnyPort
    BY DEF Packets, AnyPort
  <1>2. /\ rl.chain = c /\ rl.rule.target = Reject
        /\ al.chain = c /\ al.rule.target = Accept /\ al = Line(c, al.rule)
    BY DEF RejectLine, AcceptLine, Line, Rule
  <1>3. Matches(rl.rule, packet) <=> Peer(d, packet) \in Members(es)
    <2>1. rl.rule = Rule(d, {}, {es}, AnyPort, Reject)
      BY DEF RejectLine, Line
    <2> HIDE DEF rl, es
    <2> QED
      BY <1>1, <2>1, RuleMatches DEF Within
  <1>4. Matches(al.rule, packet)
    <2>1. al.rule = Rule(d, {}, {}, AnyPort, Accept)
      BY DEF AcceptLine, Line
    <2> HIDE DEF al
    <2> QED
      BY <1>1, <2>1, RuleMatches DEF Within
  <1>5. rl \in ToSet(lines) => (Peer(d, packet) \in Members(es) <=> InExcept(b, Peer(d, packet)))
    <2>1. rl \in ToSet(lines) => excepts[es] = b.except
      BY ReadyFacts DEF ExceptsRight
    <2>2. Peer(d, packet) \in Members(es) <=> \E x \in excepts[es] : Peer(d, packet) \in InCidr[x]
      BY MembersOf
    <2> QED
      BY <2>1, <2>2 DEF InExcept
  <1>6. Preceded(lines, rl, al)
    <2>1. b.cidr \in Cidrs
      <3>1. policies[q] \in Specs[q] /\ rule \in [ports : SUBSET Ports, peers : Seq(Peers)]
        BY ReadyPolicies
      <3> QED
        BY <3>1, RuleTypes
    <2>2. <<rl, al>> \in InOrder(options)
      <3>1. <<d, q, b.cidr>> \in Directions \X Policies \X Cidrs
        BY <2>1
      <3> QED
        BY <3>1 DEF InOrder
    <2> QED
      BY <2>2, ReadyFacts DEF Ordered
  <1>7. c[1] = "ENN-IPCIDR" /\ c \notin {Accept, Reject}
    BY DEF IPBlockChain, Accept, Reject
  <1>8. v[Accept] = Accept /\ v[Reject] = Reject /\ Accept # Return /\ Reject # Return /\ Accept # Reject
    BY ReadyFacts, VerdictTargets
  <1>9. \A l \in ToSet(lines) : l.chain = c => l = rl \/ l = al
    BY BlockLines
  <1>10. lost = "nothing" => al \in ToSet(lines)
    <2>1. ExceptSet(d, q, b.cidr) # None
      <3>1. policies[q] \in Specs[q] /\ rule \in [ports : SUBSET Ports, peers : Seq(Peers)]
        BY ReadyPolicies
      <3>2. b.cidr \in Cidrs
        BY <3>1, RuleTypes
      <3> QED
        BY <3>2, NoneAssumption
    <2>2. al \in RuleSet(d, q, policies[q].podSelector, rule, None)
      BY <2>1 DEF RuleSet
    <2> HIDE DEF al
    <2> QED
      BY <2>2, ReadyFacts DEF AllRules
  <1> HIDE DEF c, v, rl, al, es
  <1>11. c \in Active(lines)
    BY DEF c
  <1>12. /\ c \in DOMAIN kernel
         /\ \A r : r \in ToSet(kernel[c]) <=> \E l \in ToSet(lines) : l.chain = c /\ l.rule = r
         /\ \A x \in ToSet(lines) : \A y : x.chain = c /\ Preceded(lines, x, y) /\ y = Line(c, y.rule) =>
              Preceded(kernel[c], x.rule, y.rule)
    BY <1>7, <1>11, ChainIsLines
  <1>13. /\ v[c] = Return => \A r \in ToSet(kernel[c]) : Matches(r, packet) => v[r.target] = Return
         /\ v[c] # Return => \E r \in ToSet(kernel[c]) :
              /\ Matches(r, packet) /\ v[c] = v[r.target]
              /\ \A x : Preceded(kernel[c], x, r) => ~(Matches(x, packet) /\ v[x.target] # Return)
    BY <1>7, <1>12, ReadyFacts, VerdictOf DEF v
  <1>14. ASSUME v[c] # Return
         PROVE  \/ v[c] = Reject /\ InExcept(b, Peer(d, packet))
                \/ v[c] = Accept /\ ~InExcept(b, Peer(d, packet))
    <2>1. PICK r \in ToSet(kernel[c]) :
              /\ Matches(r, packet) /\ v[c] = v[r.target]
              /\ \A x : Preceded(kernel[c], x, r) => ~(Matches(x, packet) /\ v[x.target] # Return)
      BY <1>13, <1>14
    <2>2. PICK l \in ToSet(lines) : l.chain = c /\ l.rule = r
      BY <1>12, <2>1
    <2>3. CASE l = rl
      BY <1>2, <1>3, <1>5, <1>8, <2>1, <2>2, <2>3
    <2>4. CASE l = al
      <3>1. rl \in ToSet(lines)
        BY <1>6, <2>4, PrecededIn
      <3>2. Preceded(kernel[c], rl.rule, al.rule)
        BY <1>2, <1>6, <1>12, <3>1
      <3>3. ~Matches(rl.rule, packet)
        BY <1>2, <1>8, <2>1, <2>2, <2>4, <3>2
      <3> QED
        BY <1>2, <1>3, <1>5, <1>8, <2>1, <2>2, <2>4, <3>1, <3>3
    <2> QED
      BY <1>9, <2>2, <2>3, <2>4
  <1>15. ASSUME lost = "nothing" PROVE v[c] # Return
    <2>1. al.rule \in ToSet(kernel[c])
      BY <1>2, <1>10, <1>12, <1>15
    <2> QED
      BY <1>2, <1>4, <1>8, <1>13, <2>1
  <1> QED
    BY <1>8, <1>14, <1>15 DEF c, v

\* A dispatch rule matches on the policy's own pods, on a port and on a peer.
LEMMA OwnMatches ==
  ASSUME Ready, NEW q \in Policies, q \in Done, NEW a
  PROVE  Selects(q, a) <=> /\ a \in InNamespace[q[1]]
                           /\ Within(OwnSets(q, policies[q].podSelector), a)
  <1> DEFINE selector == policies[q].podSelector
  <1>1. enforced[q] = policies[q]
    BY ReadyPolicies
  <1>2. Selects(q, a) <=> a \in InNamespace[q[1]] /\ \A l \in selector : a \in WithLabel[q[1], l]
    BY <1>1 DEF Selects
  <1> HIDE DEF selector
  <1>3. CASE selector = {}
    BY <1>2, <1>3 DEF OwnSets, selector, Within
  <1>4. CASE selector # {}
    <2>1. OwnSets(q, selector) = {LabelsSet(q[1], selector)}
      BY <1>4 DEF OwnSets
    <2>2. Members(LabelsSet(q[1], selector)) =
            {x \in InNamespace[q[1]] : \A l \in selector : x \in WithLabel[q[1], l]}
      BY MembersOf
    <2> QED
      BY <1>2, <2>1, <2>2 DEF selector, Within
  <1> QED
    BY <1>3, <1>4

LEMMA PortMatches ==
  ASSUME NEW packet \in Packets, NEW rule
  PROVE  PortAllows(rule, packet) <=> \E each \in Each(rule.ports) : packet.port \in each
  BY DEF PortAllows, Each, Packets, AnyPort

LEMMA EntryFields ==
  /\ PortsEntry.sets = {} /\ PortsEntry.target = Accept
  /\ \A p, l : PodEntry(p, l).sets = {LabelsSet(p[1], {l})} /\ PodEntry(p, l).target = Accept
  /\ \A g : SpaceEntry(g).sets = {NamespaceLabelSet(g)} /\ SpaceEntry(g).target = Accept
  /\ \A d, p, cidr : /\ BlockEntry(d, p, cidr).sets = {CidrMatch(cidr)}
                     /\ BlockEntry(d, p, cidr).target = IPBlockChain(d, p, cidr)
  BY DEF PortsEntry, PodEntry, SpaceEntry, BlockEntry

LEMMA OneLabel ==
  ASSUME NEW n, NEW l, NEW a
  PROVE  a \in Members(LabelsSet(n, {l})) <=> a \in InNamespace[n] /\ a \in WithLabel[n, l]
  <1>1. Members(LabelsSet(n, {l})) = {x \in InNamespace[n] : \A k \in {l} : x \in WithLabel[n, k]}
    BY MembersOf
  <1> QED
    BY <1>1

LEMMA EntryAllows ==
  ASSUME NEW rule, PlainRule(rule), NEW d, NEW p, NEW e \in EntrySet(d, p, rule, None), NEW a,
         Within(e.sets, a)
  PROVE  \/ /\ e.target = Accept
            /\ rule.peers = <<>> \/ \E peer \in ToSet(rule.peers) : PeerAllows(p[1], peer, a)
         \/ \E peer \in ToSet(rule.peers) :
              /\ peer.ipBlock # None /\ InBlock(peer.ipBlock, a)
              /\ e.target = IPBlockChain(d, p, peer.ipBlock.cidr)
  <1>1. CASE e = PortsEntry /\ rule.peers = <<>>
    BY <1>1, EntryFields
  <1>2. CASE \E l \in Labelled(rule) : e = PodEntry(p, l)
    <2>1. PICK l \in Labelled(rule) : e = PodEntry(p, l)
      BY <1>2
    <2>2. PICK peer \in ToSet(rule.peers) : peer.podSelector # None /\ l \in peer.podSelector
      BY DEF Labelled
    <2>3. peer.podSelector = {l}
      BY <2>2 DEF PlainRule
    <2>4. a \in Members(LabelsSet(p[1], {l})) /\ e.target = Accept
      <3> DEFINE set == LabelsSet(p[1], {l})
      <3>1. e.sets = {set} /\ e.target = Accept
        BY <2>1, EntryFields
      <3> HIDE DEF set
      <3>2. a \in Members(set)
        BY <3>1 DEF Within
      <3> QED
        BY <3>1, <3>2 DEF set
    <2>5. a \in InNamespace[p[1]] /\ \A k \in {l} : a \in WithLabel[p[1], k]
      BY <2>4, OneLabel
    <2>6. PeerAllows(p[1], peer, a)
      BY <2>2, <2>3, <2>5 DEF PeerAllows
    <2> QED
      BY <2>4, <2>6
  <1>3. CASE \E g \in Spaced(rule) : e = SpaceEntry(g)
    <2>1. PICK g \in Spaced(rule) : e = SpaceEntry(g)
      BY <1>3
    <2>2. PICK peer \in ToSet(rule.peers) : peer.namespaceSelector # None /\ g \in peer.namespaceSelector
      BY DEF Spaced
    <2>3. peer.namespaceSelector = {g}
      BY <2>2 DEF PlainRule
    <2>4. a \in Members(NamespaceLabelSet(g)) /\ e.target = Accept
      BY <2>1, EntryFields DEF Within
    <2>5. a \in WithNamespaceLabel[g]
      BY <2>4, MembersOf
    <2>6. PeerAllows(p[1], peer, a)
      BY <2>2, <2>3, <2>5 DEF PeerAllows
    <2> QED
      BY <2>4, <2>6
  <1>4. CASE \E b \in Blocks(rule) : e = BlockEntry(d, p, b.cidr)
    <2>1. PICK b \in Blocks(rule) : e = BlockEntry(d, p, b.cidr)
      BY <1>4
    <2>2. PICK peer \in ToSet(rule.peers) : peer.ipBlock # None /\ b = peer.ipBlock
      BY DEF Blocks
    <2>3. a \in Members(CidrMatch(b.cidr)) /\ e.target = IPBlockChain(d, p, b.cidr)
      BY <2>1, EntryFields DEF Within
    <2>4. InBlock(b, a)
      BY <2>3, MembersOf DEF InBlock
    <2> QED
      BY <2>2, <2>3, <2>4
  <1> QED
    BY <1>1, <1>2, <1>3, <1>4 DEF EntrySet

LEMMA AllowedEntry ==
  ASSUME NEW p \in Policies, NEW rule \in [ports : SUBSET Ports, peers : Seq(Peers)], PlainRule(rule),
         NEW d, NEW a,
         rule.peers = <<>> \/ \E peer \in ToSet(rule.peers) : PeerAllows(p[1], peer, a)
  PROVE  \E e \in EntrySet(d, p, rule, None) : Within(e.sets, a)
  <1>0. p[1] \in Namespaces
    BY ClusterAssumption
  <1>1. CASE rule.peers = <<>>
    <2>1. PortsEntry \in EntrySet(d, p, rule, None)
      BY <1>1 DEF EntrySet, PlainRule
    <2> QED
      BY <2>1, EntryFields DEF Within
  <1>2. CASE \E peer \in ToSet(rule.peers) : PeerAllows(p[1], peer, a)
    <2>1. PICK peer \in ToSet(rule.peers) : PeerAllows(p[1], peer, a)
      BY <1>2
    <2>2. CASE peer.podSelector # None /\ a \in InNamespace[p[1]] /\ \A l \in peer.podSelector : a \in WithLabel[p[1], l]
      <3>1. PICK l \in Labels : peer.podSelector = {l}
        BY <2>2 DEF PlainRule
      <3>2. l \in Labelled(rule)
        BY <2>2, <3>1 DEF Labelled
      <3>3. LabelsSet(p[1], {l}) # None
        BY <1>0, NoneAssumption
      <3>4. PodEntry(p, l) \in EntrySet(d, p, rule, None)
        BY <3>2, <3>3 DEF EntrySet
      <3> DEFINE set == LabelsSet(p[1], {l})
      <3>5. a \in Members(set)
        BY <2>2, <3>1, OneLabel
      <3>6. PodEntry(p, l).sets = {set}
        BY EntryFields
      <3> HIDE DEF set
      <3> QED
        BY <3>4, <3>5, <3>6 DEF Within
    <2>3. CASE peer.namespaceSelector # None /\ \A g \in peer.namespaceSelector : a \in WithNamespaceLabel[g]
      <3>1. PICK g \in NamespaceLabels : peer.namespaceSelector = {g}
        BY <2>3 DEF PlainRule
      <3>2. g \in Spaced(rule)
        BY <2>3, <3>1 DEF Spaced
      <3>3. NamespaceLabelSet(g) # None
        BY NoneAssumption
      <3>4. SpaceEntry(g) \in EntrySet(d, p, rule, None)
        BY <3>2, <3>3 DEF EntrySet
      <3>5. a \in Members(NamespaceLabelSet(g))
        <4>1. Members(NamespaceLabelSet(g)) = WithNamespaceLabel[g]
          BY MembersOf
        <4> QED
          BY <2>3, <3>1, <4>1
      <3> QED
        BY <3>4, <3>5, EntryFields DEF Within
    <2>4. CASE peer.ipBlock # None /\ InBlock(peer.ipBlock, a)
      <3>1. peer.ipBlock \in Blocks(rule)
        BY <2>4 DEF Blocks
      <3>2. BlockEntry(d, p, peer.ipBlock.cidr) \in EntrySet(d, p, rule, None)
        BY <3>1 DEF EntrySet
      <3>3. a \in Members(CidrMatch(peer.ipBlock.cidr))
        BY <2>4, MembersOf DEF InBlock
      <3> QED
        BY <3>2, <3>3, EntryFields DEF Within
    <2> QED
      BY <2>1, <2>2, <2>3, <2>4 DEF PeerAllows
  <1> QED
    BY <1>1, <1>2

\* The rule of a port line.
LEMMA PortLineMatches ==
  ASSUME NEW d \in Directions, NEW p, NEW selector, NEW e, NEW ports, NEW packet
  PROVE  LET l == PortLine(d, p, selector, e, ports) IN
         /\ l.chain = DispatchChain(d, p, e.match, e.key) /\ l.rule.target = e.target
         /\ l = Line(l.chain, l.rule)
         /\ Matches(l.rule, packet) <=>
              /\ Within(OwnSets(p, selector), Own(d, packet))
              /\ Within(e.sets, Peer(d, packet))
              /\ packet.port \in ports
  <1> DEFINE l == PortLine(d, p, selector, e, ports)
             own == OwnSets(p, selector)
  <1>1. l.chain = DispatchChain(d, p, e.match, e.key)
    BY DEF PortLine, Line
  <1>2. l.rule = Rule(d, own, e.sets, ports, e.target)
    BY DEF PortLine, Line
  <1>3. l = Line(l.chain, l.rule)
    BY DEF PortLine, Line
  <1> HIDE DEF own, l
  <1>4. \A mine, other, target :
          /\ Matches(Rule(d, mine, other, ports, target), packet) <=>
              /\ Within(mine, Own(d, packet))
              /\ Within(other, Peer(d, packet))
              /\ packet.port \in ports
          /\ Rule(d, mine, other, ports, target).target = target
    BY RuleMatches
  <1> QED
    BY <1>1, <1>2, <1>3, <1>4 DEF own, l

LEMMA PortVerdict ==
  ASSUME Ready, NEW packet \in Packets, NEW d \in Directions, NEW q \in Policies, q \in Done,
         d \in ToSet(policies[q].types), NEW rule \in ToSet(policies[q][d]),
         NEW e \in EntrySet(d, q, rule, None), NEW each \in Each(rule.ports),
         PortLine(d, q, policies[q].podSelector, e, each) \in ToSet(lines),
         Matches(PortLine(d, q, policies[q].podSelector, e, each).rule, packet),
         Own(d, packet) \in InNamespace[q[1]]
  PROVE  LET v == Verdicts(packet) IN
         /\ v[e.target] \in {Return, Accept, Reject}
         /\ v[e.target] = Accept => q \in Policing(d, q[1], packet) /\ Grants(q, d, packet)
         /\ v[e.target] = Reject => q \in Policing(d, q[1], packet) /\ Excepts(q, d, packet)
  <1> DEFINE v == Verdicts(packet)
             l == PortLine(d, q, policies[q].podSelector, e, each)
             a == Peer(d, packet)
  <1>1. /\ l.rule.target = e.target
        /\ Within(OwnSets(q, policies[q].podSelector), Own(d, packet))
        /\ Within(e.sets, a)
        /\ packet.port \in each
    BY PortLineMatches
  <1>2. Selects(q, Own(d, packet)) /\ PortAllows(rule, packet)
    BY <1>1, OwnMatches, PortMatches
  <1>3. enforced[q] # None /\ enforced[q] = policies[q] /\ PlainRule(rule)
    BY ReadyPolicies
  <1>4. q \in Policing(d, q[1], packet)
    BY <1>2, <1>3 DEF Policing
  <1>5. v[Accept] = Accept /\ v[Reject] = Reject /\ Accept # Return /\ Reject # Return /\ Accept # Reject
    BY ReadyFacts, VerdictTargets
  <1> HIDE DEF v, l, a
  <1>6. \/ /\ e.target = Accept
           /\ rule.peers = <<>> \/ \E peer \in ToSet(rule.peers) : PeerAllows(q[1], peer, a)
        \/ \E peer \in ToSet(rule.peers) :
             /\ peer.ipBlock # None /\ InBlock(peer.ipBlock, a)
             /\ e.target = IPBlockChain(d, q, peer.ipBlock.cidr)
    BY <1>1, <1>3, EntryAllows
  <1>7. Grants(q, d, packet) <=>
          \E r \in ToSet(policies[q][d]) :
            /\ PortAllows(r, packet)
            /\ r.peers = <<>> \/ \E peer \in ToSet(r.peers) : PeerAllows(q[1], peer, a)
    BY <1>3 DEF Grants, a
  <1>8. Excepts(q, d, packet) <=>
          \E r \in ToSet(policies[q][d]) :
            /\ PortAllows(r, packet)
            /\ \E peer \in ToSet(r.peers) :
                 peer.ipBlock # None /\ InBlock(peer.ipBlock, a) /\ InExcept(peer.ipBlock, a)
    BY <1>3 DEF Excepts, a
  <1>9. CASE /\ e.target = Accept
             /\ rule.peers = <<>> \/ \E peer \in ToSet(rule.peers) : PeerAllows(q[1], peer, a)
    <2>1. Grants(q, d, packet)
      BY <1>2, <1>7, <1>9
    <2> QED
      BY <1>4, <1>5, <1>9, <2>1 DEF v
  <1>10. CASE \E peer \in ToSet(rule.peers) :
                /\ peer.ipBlock # None /\ InBlock(peer.ipBlock, a)
                /\ e.target = IPBlockChain(d, q, peer.ipBlock.cidr)
    <2>1. PICK peer \in ToSet(rule.peers) :
                /\ peer.ipBlock # None /\ InBlock(peer.ipBlock, a)
                /\ e.target = IPBlockChain(d, q, peer.ipBlock.cidr)
      BY <1>10
    <2>2. peer.ipBlock \in Blocks(rule)
      BY <2>1 DEF Blocks
    <2>3. e.target \in Active(lines)
      <3>1. e.target[1] \in OwnPrefixes
        BY <2>1 DEF IPBlockChain, OwnPrefixes
      <3>2. l \in ToSet(lines)
        BY DEF l
      <3> QED
        BY <1>1, <3>1, <3>2, OwnActive
    <2>4. /\ v[e.target] \in {Return, Accept, Reject}
          /\ v[e.target] = Accept => ~InExcept(peer.ipBlock, a)
          /\ v[e.target] = Reject => InExcept(peer.ipBlock, a)
      BY <2>1, <2>2, <2>3, BlockVerdict DEF v, a
    <2>5. ~InExcept(peer.ipBlock, a) => Grants(q, d, packet)
      <3>1. ~InExcept(peer.ipBlock, a) => PeerAllows(q[1], peer, a)
        BY <2>1 DEF PeerAllows
      <3> QED
        BY <1>2, <1>7, <3>1
    <2>6. InExcept(peer.ipBlock, a) => Excepts(q, d, packet)
      BY <1>2, <1>8, <2>1
    <2> QED
      BY <1>4, <2>4, <2>5, <2>6 DEF v
  <1> QED
    BY <1>6, <1>9, <1>10

LEMMA DispatchVerdict ==
  ASSUME Ready, NEW packet \in Packets, NEW d \in Directions, NEW q \in Policies, NEW f,
         DispatchChain(d, q, f.match, f.key) \in Active(lines), Own(d, packet) \in InNamespace[q[1]]
  PROVE  LET c == DispatchChain(d, q, f.match, f.key)
             v == Verdicts(packet)
         IN  /\ v[c] \in {Return, Accept, Reject}
             /\ v[c] = Accept => q \in Policing(d, q[1], packet) /\ Grants(q, d, packet)
             /\ v[c] = Reject => q \in Policing(d, q[1], packet) /\ Excepts(q, d, packet)
  <1> DEFINE c == DispatchChain(d, q, f.match, f.key)
             v == Verdicts(packet)
  <1>1. c[1] = "ENN-DPATCH" /\ c \notin {Accept, Reject}
    BY DEF DispatchChain, Accept, Reject
  <1>2. \A l \in ToSet(lines) : l.chain = c =>
          /\ q \in Done /\ d \in ToSet(policies[q].types)
          /\ \E rule \in ToSet(policies[q][d]) : \E e \in EntrySet(d, q, rule, None) :
             \E each \in Each(rule.ports) : l = PortLine(d, q, policies[q].podSelector, e, each)
    BY DispatchLinesOf
  <1>3. c \in Active(lines)
    OBVIOUS
  <1> HIDE DEF c, v
  <1>4. /\ c \in DOMAIN kernel
        /\ \A r : r \in ToSet(kernel[c]) <=> \E l \in ToSet(lines) : l.chain = c /\ l.rule = r
    BY <1>1, <1>3, ChainIsLines
  <1>5. SUFFICES ASSUME v[c] # Return
                 PROVE  /\ v[c] \in {Return, Accept, Reject}
                        /\ v[c] = Accept => q \in Policing(d, q[1], packet) /\ Grants(q, d, packet)
                        /\ v[c] = Reject => q \in Policing(d, q[1], packet) /\ Excepts(q, d, packet)
    BY VerdictTargets, ReadyFacts DEF c, v
  <1>6. PICK r \in ToSet(kernel[c]) : Matches(r, packet) /\ v[c] = v[r.target]
    BY <1>1, <1>4, <1>5, ReadyFacts, VerdictOf DEF v
  <1>7. PICK l \in ToSet(lines) : l.chain = c /\ l.rule = r
    BY <1>4, <1>6
  <1>8. PICK rule \in ToSet(policies[q][d]) : \E e \in EntrySet(d, q, rule, None) :
          \E each \in Each(rule.ports) : l = PortLine(d, q, policies[q].podSelector, e, each)
    BY <1>2, <1>7
  <1>9. PICK e \in EntrySet(d, q, rule, None), each \in Each(rule.ports) :
          l = PortLine(d, q, policies[q].podSelector, e, each)
    BY <1>8
  <1>10. r.target = e.target
    BY <1>7, <1>9, PortLineMatches
  <1>11. q \in Done /\ d \in ToSet(policies[q].types)
    BY <1>2, <1>7
  <1>12. /\ v[e.target] \in {Return, Accept, Reject}
         /\ v[e.target] = Accept => q \in Policing(d, q[1], packet) /\ Grants(q, d, packet)
         /\ v[e.target] = Reject => q \in Policing(d, q[1], packet) /\ Excepts(q, d, packet)
    BY <1>6, <1>7, <1>9, <1>11, PortVerdict DEF v
  <1> QED
    BY <1>6, <1>10, <1>12

\* If no rule is left out, a policy that grants has a dispatch chain that decides.
LEMMA GrantDecides ==
  ASSUME Ready, NEW packet \in Packets, NEW d \in Directions, NEW q \in Policies, q \in Done,
         d \in ToSet(policies[q].types), Selects(q, Own(d, packet)), Grants(q, d, packet),
         lost = "nothing"
  PROVE  \E e : /\ JumpLine(d, q, e) \in ToSet(lines)
                /\ Verdicts(packet)[DispatchChain(d, q, e.match, e.key)] # Return
  <1> DEFINE v == Verdicts(packet)
             a == Peer(d, packet)
             selector == policies[q].podSelector
  <1>1. enforced[q] = policies[q]
    BY ReadyPolicies
  <1>2. PICK rule \in ToSet(policies[q][d]) :
          /\ PortAllows(rule, packet)
          /\ rule.peers = <<>> \/ \E peer \in ToSet(rule.peers) : PeerAllows(q[1], peer, a)
    BY <1>1 DEF Grants
  <1>3. rule \in [ports : SUBSET Ports, peers : Seq(Peers)] /\ PlainRule(rule)
    BY ReadyPolicies
  <1> HIDE DEF a, v
  <1>4. PICK e \in EntrySet(d, q, rule, None) : Within(e.sets, a)
    BY <1>2, <1>3, AllowedEntry
  <1>5. PICK each \in Each(rule.ports) : packet.port \in each
    BY <1>2, PortMatches
  <1> DEFINE l == PortLine(d, q, selector, e, each)
             c == DispatchChain(d, q, e.match, e.key)
  <1>6. Within(OwnSets(q, selector), Own(d, packet))
    BY OwnMatches
  <1> HIDE DEF selector
  <1>7. l.chain = c /\ l.rule.target = e.target /\ Matches(l.rule, packet)
    BY <1>4, <1>5, <1>6, PortLineMatches DEF a
  <1>8. l \in RuleSet(d, q, selector, rule, None) /\ JumpLine(d, q, e) \in RuleSet(d, q, selector, rule, None)
    BY DEF RuleSet, EntryLinesOf
  <1> HIDE DEF l, c
  <1>9. l \in ToSet(lines) /\ JumpLine(d, q, e) \in ToSet(lines)
    BY <1>8, ReadyFacts DEF AllRules, selector
  <1>10. c[1] = "ENN-DPATCH" /\ c \notin {Accept, Reject} /\ c[1] \in OwnPrefixes
    BY DEF c, DispatchChain, Accept, Reject, OwnPrefixes
  <1>11. c \in Active(lines)
    BY <1>7, <1>9, <1>10, OwnActive
  <1>12. /\ c \in DOMAIN kernel
         /\ \A r : r \in ToSet(kernel[c]) <=> \E k \in ToSet(lines) : k.chain = c /\ k.rule = r
    BY <1>10, <1>11, ChainIsLines
  <1>13. l.rule \in ToSet(kernel[c])
    BY <1>7, <1>9, <1>12
  <1>14. v[c] = Return => v[e.target] = Return
    BY <1>7, <1>10, <1>12, <1>13, ReadyFacts, VerdictOf DEF v
  <1>15. v[e.target] # Return
    <2>1. CASE e.target = Accept
      BY <2>1, ReadyFacts, VerdictTargets DEF v
    <2>2. CASE \E b \in Blocks(rule) : e.target = IPBlockChain(d, q, b.cidr)
      <3>1. PICK b \in Blocks(rule) : e.target = IPBlockChain(d, q, b.cidr)
        BY <2>2
      <3>2. e.target[1] \in OwnPrefixes
        BY <3>1 DEF IPBlockChain, OwnPrefixes
      <3>3. e.target \in Active(lines)
        BY <1>7, <1>9, <3>2, OwnActive
      <3> QED
        BY <3>1, <3>3, BlockVerdict DEF v
    <2> QED
      BY <2>1, <2>2, EntryTargets
  <1> QED
    BY <1>9, <1>14, <1>15 DEF v, c

\* The IP range chain: what the policies of the namespace grant, and a reject.
LEMMA JumpLineFacts ==
  ASSUME NEW d \in Directions, NEW q, NEW e, NEW packet \in Packets
  PROVE  LET l == JumpLine(d, q, e) IN
         /\ l.chain = IPRangeChain(d, q[1]) /\ l.rule.target = DispatchChain(d, q, e.match, e.key)
         /\ Matches(l.rule, packet) /\ l.rule # Established /\ l.rule # DefaultReject
  <1> DEFINE l == JumpLine(d, q, e)
             c == DispatchChain(d, q, e.match, e.key)
  <1>1. l.chain = IPRangeChain(d, q[1]) /\ l.rule = Rule(d, {}, {}, AnyPort, c)
    BY DEF JumpLine, Line
  <1>2. c # Accept /\ c # Reject /\ Established.target = Accept /\ DefaultReject.target = Reject
    BY DEF DispatchChain, Accept, Reject, Established, DefaultReject
  <1>3. packet.port \in AnyPort
    BY DEF Packets, AnyPort
  <1> HIDE DEF l, c
  <1>4. l.rule.target = c /\ Matches(l.rule, packet)
    BY <1>1, <1>3, RuleMatches DEF Within
  <1>5. l.rule # Established /\ l.rule # DefaultReject
    BY <1>2, <1>4
  <1> QED
    BY <1>1, <1>4, <1>5 DEF l, c

LEMMA RangeVerdict ==
  ASSUME Ready, NEW packet \in Packets, NEW d \in Directions, NEW n,
         IPRangeChain(d, n) \in Active(lines), Own(d, packet) \in InNamespace[n]
  PROVE  LET v == Verdicts(packet)[IPRangeChain(d, n)]
             policing == Policing(d, n, packet)
         IN  /\ v \in {Accept, Reject}
             /\ packet.established => v = Accept
             /\ v = Accept => packet.established \/ \E p \in policing : Grants(p, d, packet)
             /\ v = Reject /\ (\E p \in policing : Grants(p, d, packet)) =>
                  narrowed \/ \E p \in policing : Excepts(p, d, packet)
  <1> DEFINE c == IPRangeChain(d, n)
             v == Verdicts(packet)
             policing == Policing(d, n, packet)
  <1>1. c[1] \in {"ENN-PLY-IN", "ENN-PLY-E"} /\ c \notin {Accept, Reject}
    BY DEF IPRangeChain, Accept, Reject
  <1>2. \A q : q[1] = n => IPRangeChain(d, q[1]) = c
    OBVIOUS
  <1>3. \A l \in ToSet(lines) : l.chain = c =>
          \E q \in Done : /\ q \in Policies /\ q[1] = n /\ d \in ToSet(policies[q].types)
                          /\ \E e : l = JumpLine(d, q, e)
    BY RangeLines
  <1>4. c \in Active(lines)
    OBVIOUS
  <1> HIDE DEF c, v, policing
  <1>5. \A l \in ToSet(lines) : l.chain = c => l.rule # Established /\ l.rule # DefaultReject
    BY <1>3, JumpLineFacts
  <1>6. /\ c \in DOMAIN kernel
        /\ \A r : r \in ToSet(kernel[c]) <=>
             r \in {Established, DefaultReject} \/ \E l \in ToSet(lines) : l.chain = c /\ l.rule = r
        /\ \A r : r # Established => Preceded(kernel[c], Established, r)
        /\ \A l \in ToSet(lines) : l.chain = c => Preceded(kernel[c], l.rule, DefaultReject)
    BY <1>1, <1>4, <1>5, RangeChainIsLines
  <1>7. v[Accept] = Accept /\ v[Reject] = Reject /\ Accept # Return /\ Reject # Return /\ Accept # Reject
    BY ReadyFacts, VerdictTargets DEF v
  <1>8. /\ Matches(Established, packet) <=> packet.established
        /\ Matches(DefaultReject, packet)
        /\ Established.target = Accept /\ DefaultReject.target = Reject
    BY DEF Matches, Established, DefaultReject, Packets, AnyPort
  <1>9. v[c] # Return
    <2>1. DefaultReject \in ToSet(kernel[c])
      BY <1>6
    <2>2. v[c] = Return => v[DefaultReject.target] = Return
      BY <1>1, <1>6, <1>8, <2>1, ReadyFacts, VerdictOf DEF v
    <2> QED
      BY <1>7, <1>8, <2>2
  <1>10. PICK r \in ToSet(kernel[c]) :
           /\ Matches(r, packet) /\ v[c] = v[r.target]
           /\ \A x : Preceded(kernel[c], x, r) => ~(Matches(x, packet) /\ v[x.target] # Return)
    BY <1>1, <1>6, <1>9, ReadyFacts, VerdictOf DEF v
  <1>11. packet.established => r = Established
    BY <1>6, <1>7, <1>8, <1>10
  <1>12. CASE r = Established
    BY <1>7, <1>8, <1>10, <1>12 DEF c, v
  <1>13. CASE r = DefaultReject
    <2>1. v[c] = Reject /\ ~packet.established
      <3>1. Established # DefaultReject
        BY <1>7, <1>8
      <3> QED
        BY <1>7, <1>8, <1>10, <1>11, <1>13, <3>1
    <2>2. ASSUME NEW p \in policing, Grants(p, d, packet), ~narrowed PROVE FALSE
      <3>1. p \in Policies /\ p[1] = n /\ enforced[p] # None /\ d \in ToSet(enforced[p].types)
            /\ Selects(p, Own(d, packet))
        BY DEF policing, Policing
      <3>2. p \in Done /\ d \in ToSet(policies[p].types)
        BY <3>1, ReadyPolicies
      <3>3. lost = "nothing"
        BY <2>2, ReadyFacts
      <3>4. PICK e : /\ JumpLine(d, p, e) \in ToSet(lines)
                     /\ v[DispatchChain(d, p, e.match, e.key)] # Return
        BY <2>2, <3>1, <3>2, <3>3, GrantDecides DEF v
      <3> DEFINE l == JumpLine(d, p, e)
      <3>5. /\ l.chain = IPRangeChain(d, p[1]) /\ l.rule.target = DispatchChain(d, p, e.match, e.key)
            /\ Matches(l.rule, packet)
        BY JumpLineFacts
      <3> HIDE DEF l
      <3>6. l.chain = c /\ l \in ToSet(lines)
        BY <1>2, <3>1, <3>4, <3>5 DEF l
      <3>7. Preceded(kernel[c], l.rule, r)
        BY <1>6, <1>13, <3>6
      <3> QED
        BY <1>10, <3>4, <3>5, <3>7
    <2> QED
      BY <1>7, <2>1, <2>2 DEF c, v, policing
  <1>14. CASE \E l \in ToSet(lines) : l.chain = c /\ l.rule = r
    <2>1. PICK l \in ToSet(lines) : l.chain = c /\ l.rule = r
      BY <1>14
    <2>2. PICK q \in Done : /\ q \in Policies /\ q[1] = n /\ d \in ToSet(policies[q].types)
                            /\ \E e : l = JumpLine(d, q, e)
      BY <1>3, <2>1
    <2>3. PICK e : l = JumpLine(d, q, e)
      BY <2>2
    <2> DEFINE dispatch == DispatchChain(d, q, e.match, e.key)
    <2>4. l.rule.target = dispatch /\ l.rule # Established
      BY <2>3, JumpLineFacts
    <2>5. dispatch[1] \in OwnPrefixes
      BY DEF DispatchChain, OwnPrefixes
    <2>6. dispatch \in Active(lines)
      <3> HIDE DEF dispatch
      <3> QED
        BY <2>1, <2>4, <2>5, OwnActive
    <2>7. Own(d, packet) \in InNamespace[q[1]]
      BY <2>2
    <2>8. /\ v[dispatch] \in {Return, Accept, Reject}
          /\ v[dispatch] = Accept => q \in Policing(d, q[1], packet) /\ Grants(q, d, packet)
          /\ v[dispatch] = Reject => q \in Policing(d, q[1], packet) /\ Excepts(q, d, packet)
      BY <2>2, <2>6, <2>7, DispatchVerdict DEF v
    <2>9. Policing(d, q[1], packet) = policing
      BY <2>2 DEF policing
    <2>10. ~packet.established
      BY <1>11, <2>1, <2>4
    <2>11. v[c] = v[dispatch]
      BY <1>10, <2>1, <2>4
    <2> HIDE DEF dispatch
    <2>12. /\ v[c] \in {Accept, Reject}
           /\ v[c] = Accept => \E p \in policing : Grants(p, d, packet)
           /\ v[c] = Reject => \E p \in policing : Excepts(p, d, packet)
      BY <1>9, <2>8, <2>9, <2>11
    <2> QED
      BY <2>10, <2>12 DEF c, v, policing
  <1> QED
    BY <1>6, <1>12, <1>13, <1>14

\* The three lines of a namespace's chain.
LEMMA NamespaceLineFacts ==
  ASSUME NEW d \in Directions, NEW n, NEW packet \in Packets, options.iPRange \subseteq Addresses
  PROVE  LET c == NamespaceChain(d, n)
             fl == FlannelLine(d, n)
             rl == RangeLine(options, d, n)
             ol == OutsideLine(d, n)
         IN  /\ fl.chain = c /\ fl.rule.target = Accept
             /\ Matches(fl.rule, packet) <=> Peer(d, packet) \in FlannelNet
             /\ rl.chain = c /\ rl.rule.target = IPRangeChain(d, n) /\ rl = Line(c, rl.rule)
             /\ Matches(rl.rule, packet) <=> Peer(d, packet) \in options.iPRange
             /\ ol.chain = c /\ ol.rule.target = Accept /\ ol = Line(c, ol.rule)
             /\ Matches(ol.rule, packet)
  <1> DEFINE c == NamespaceChain(d, n)
             fl == FlannelLine(d, n)
             rl == RangeLine(options, d, n)
             ol == OutsideLine(d, n)
             none == {}
             flannel == {FlannelSet}
  <1>1. /\ fl.chain = c /\ fl.rule = Rule(d, none, flannel, AnyPort, Accept)
        /\ rl.chain = c /\ rl.rule = Rule(d, none, RangeSets(options), AnyPort, IPRangeChain(d, n))
        /\ rl = Line(c, rl.rule)
        /\ ol.chain = c /\ ol.rule = Rule(d, none, none, AnyPort, Accept)
        /\ ol = Line(c, ol.rule)
    BY DEF FlannelLine, RangeLine, OutsideLine, Line
  <1>2. packet.port \in AnyPort
    BY DEF Packets, AnyPort
  <1>3. \A a : /\ Within(none, a)
               /\ Within(flannel, a) <=> a \in FlannelNet
    BY MembersOf DEF Within
  <1>4. Within(RangeSets(options), Peer(d, packet)) <=> Peer(d, packet) \in options.iPRange
    <2>1. Peer(d, packet) \in Addresses
      BY DEF Peer, Packets
    <2>2. CASE options.iPRange = Addresses
      BY <1>3, <2>1, <2>2 DEF RangeSets
    <2>3. CASE options.iPRange # Addresses
      <3>1. RangeSets(options) = {IPRangeSet}
        BY <2>3 DEF RangeSets
      <3> QED
        BY <3>1, MembersOf DEF Within
    <2> QED
      BY <2>2, <2>3
  <1> HIDE DEF fl, rl, ol, c, none, flannel
  <1>5. /\ fl.rule.target = Accept
        /\ Matches(fl.rule, packet) <=> Peer(d, packet) \in FlannelNet
    <2>1. Within(none, Own(d, packet)) /\ (Within(flannel, Peer(d, packet)) <=> Peer(d, packet) \in FlannelNet)
      BY <1>3
    <2>2. /\ Rule(d, none, flannel, AnyPort, Accept).target = Accept
          /\ Matches(Rule(d, none, flannel, AnyPort, Accept), packet) <=>
               /\ Within(none, Own(d, packet)) /\ Within(flannel, Peer(d, packet)) /\ packet.port \in AnyPort
      BY RuleMatches
    <2> QED
      BY <1>1, <1>2, <2>1, <2>2
  <1>6. /\ rl.rule.target = IPRangeChain(d, n)
        /\ Matches(rl.rule, packet) <=> Peer(d, packet) \in options.iPRange
    BY <1>1, <1>2, <1>3, <1>4, RuleMatches
  <1>7. ol.rule.target = Accept /\ Matches(ol.rule, packet)
    BY <1>1, <1>2, <1>3, RuleMatches
  <1> QED
    BY <1>1, <1>5, <1>6, <1>7 DEF fl, rl, ol, c

LEMMA NamespaceVerdict ==
  ASSUME Ready, NEW packet \in Packets, NEW p \in Policies, p \in Done,
         NEW d \in ToSet(policies[p].types), Own(d, packet) \in InNamespace[p[1]]
  PROVE  /\ Verdicts(packet)[NamespaceChain(d, p[1])] \in Judgement(d, p[1], packet)
         /\ Verdicts(packet)[NamespaceChain(d, p[1])] # Return
  <1> DEFINE n == p[1]
             c == NamespaceChain(d, n)
             range == IPRangeChain(d, n)
             v == Verdicts(packet)
             fl == FlannelLine(d, n)
             rl == RangeLine(options, d, n)
             ol == OutsideLine(d, n)
  <1>1. d \in Directions /\ n \in Namespaces
    BY ReadyPolicies, ClusterAssumption
  <1>2. options.iPRange \subseteq Addresses
    BY ClusterAssumption DEF Ready, TypeOK
  <1>3. /\ options.acceptFlannel => fl \in ToSet(lines)
        /\ rl \in ToSet(lines)
        /\ options.iPRange # Addresses => ol \in ToSet(lines)
    <2>1. HeadSet(options, d, n) \subseteq ToSet(lines)
      BY ReadyFacts DEF Heads
    <2> QED
      BY <2>1 DEF HeadSet
  <1>4. /\ options.acceptFlannel => Preceded(lines, fl, rl)
        /\ options.iPRange # Addresses => Preceded(lines, rl, ol)
    <2>1. <<d, n>> \in Directions \X Namespaces
      BY <1>1
    <2>2. /\ options.acceptFlannel => <<fl, rl>> \in InOrder(options)
          /\ options.iPRange # Addresses => <<rl, ol>> \in InOrder(options)
      BY <2>1 DEF InOrder
    <2> QED
      BY <2>2, ReadyFacts DEF Ordered
  <1>5. \A l \in ToSet(lines) : l.chain = c => \/ l = fl /\ options.acceptFlannel
                                               \/ l = rl
                                               \/ l = ol /\ options.iPRange # Addresses
    BY <1>1, NamespaceLines
  <1>6. /\ fl.chain = c /\ fl.rule.target = Accept
        /\ Matches(fl.rule, packet) <=> Peer(d, packet) \in FlannelNet
        /\ rl.chain = c /\ rl.rule.target = range /\ rl = Line(c, rl.rule)
        /\ Matches(rl.rule, packet) <=> Peer(d, packet) \in options.iPRange
        /\ ol.chain = c /\ ol.rule.target = Accept /\ ol = Line(c, ol.rule)
        /\ Matches(ol.rule, packet)
    BY <1>1, <1>2, NamespaceLineFacts
  <1>7. /\ c[1] \in OwnPrefixes /\ c[1] \notin {"ENN-PLY-IN", "ENN-PLY-E"} /\ c \notin {Accept, Reject}
        /\ range[1] \in OwnPrefixes
    BY DEF NamespaceChain, IPRangeChain, OwnPrefixes, Accept, Reject
  <1>8. v[Accept] = Accept /\ v[Reject] = Reject /\ Accept # Return /\ Reject # Return /\ Accept # Reject
    BY ReadyFacts, VerdictTargets
  <1> DEFINE policing == Policing(d, n, packet)
             granted == \E q \in policing : Grants(q, d, packet)
             excepted == \E q \in policing : Excepts(q, d, packet)
  <1>9. c \in Active(lines) /\ range \in Active(lines)
    <2> HIDE DEF c, range, rl
    <2> QED
      BY <1>3, <1>6, <1>7, OwnActive
  <1>10. /\ v[range] \in {Accept, Reject}
         /\ packet.established => v[range] = Accept
         /\ v[range] = Accept => packet.established \/ granted
         /\ v[range] = Reject /\ granted => narrowed \/ excepted
    BY <1>1, <1>9, RangeVerdict
  <1>11. Open(d, packet) <=> \/ options.acceptFlannel /\ Peer(d, packet) \in FlannelNet
                             \/ Peer(d, packet) \notin options.iPRange
                             \/ packet.established
    BY DEF Open
  <1>12. \A x : x \in Judgement(d, n, packet) <=>
           IF Open(d, packet) THEN x = Accept
           ELSE /\ x \in {Accept, Reject}
                /\ IF granted THEN x = Reject => narrowed \/ excepted ELSE x = Reject
    BY DEF Judgement
  <1> HIDE DEF n, c, range, v, fl, rl, ol, policing, granted, excepted
  <1>13. /\ c \in DOMAIN kernel
         /\ \A r : r \in ToSet(kernel[c]) <=> \E l \in ToSet(lines) : l.chain = c /\ l.rule = r
         /\ \A x \in ToSet(lines) : \A y : x.chain = c /\ Preceded(lines, x, y) /\ y = Line(c, y.rule) =>
              Preceded(kernel[c], x.rule, y.rule)
    BY <1>7, <1>9, ChainIsLines
  <1>14. /\ v[c] = Return => \A r \in ToSet(kernel[c]) : Matches(r, packet) => v[r.target] = Return
         /\ v[c] # Return => \E r \in ToSet(kernel[c]) :
              /\ Matches(r, packet) /\ v[c] = v[r.target]
              /\ \A x : Preceded(kernel[c], x, r) => ~(Matches(x, packet) /\ v[x.target] # Return)
    BY <1>7, <1>13, ReadyFacts, VerdictOf DEF v
  <1>15. v[c] # Return
    <2>1. CASE Peer(d, packet) \in options.iPRange
      <3>1. rl.rule \in ToSet(kernel[c])
        BY <1>3, <1>6, <1>13
      <3> QED
        BY <1>6, <1>8, <1>10, <1>14, <2>1, <3>1
    <2>2. CASE Peer(d, packet) \notin options.iPRange
      <3>1. options.iPRange # Addresses
        BY <1>1, <2>2 DEF Peer, Packets
      <3>2. ol.rule \in ToSet(kernel[c])
        BY <1>3, <1>6, <1>13, <3>1
      <3> QED
        BY <1>6, <1>8, <1>14, <3>2
    <2> QED
      BY <2>1, <2>2
  <1>16. PICK r \in ToSet(kernel[c]) :
           /\ Matches(r, packet) /\ v[c] = v[r.target]
           /\ \A x : Preceded(kernel[c], x, r) => ~(Matches(x, packet) /\ v[x.target] # Return)
    BY <1>14, <1>15
  <1>17. PICK l \in ToSet(lines) : l.chain = c /\ l.rule = r
    BY <1>13, <1>16
  <1>18. ASSUME l = fl /\ options.acceptFlannel
         PROVE  v[c] \in Judgement(d, n, packet) /\ v[c] # Return
    <2>1. Open(d, packet) /\ v[c] = Accept
      BY <1>6, <1>8, <1>11, <1>16, <1>17, <1>18
    <2> QED
      BY <1>12, <1>15, <2>1
  <1>19. ASSUME l = rl
         PROVE  v[c] \in Judgement(d, n, packet) /\ v[c] # Return
    <2>1. v[c] = v[range] /\ Peer(d, packet) \in options.iPRange
      BY <1>6, <1>16, <1>17, <1>19
    <2>2. options.acceptFlannel => Peer(d, packet) \notin FlannelNet
      <3>1. options.acceptFlannel => Preceded(kernel[c], fl.rule, rl.rule)
        BY <1>3, <1>4, <1>6, <1>13
      <3> QED
        BY <1>6, <1>8, <1>16, <1>17, <1>19, <3>1
    <2>3. Open(d, packet) <=> packet.established
      BY <1>11, <2>1, <2>2
    <2> QED
      BY <1>8, <1>10, <1>12, <1>15, <2>1, <2>3
  <1>20. ASSUME l = ol /\ options.iPRange # Addresses
         PROVE  v[c] \in Judgement(d, n, packet) /\ v[c] # Return
    <2>1. Preceded(kernel[c], rl.rule, ol.rule)
      BY <1>3, <1>4, <1>6, <1>13, <1>20
    <2>2. Peer(d, packet) \notin options.iPRange
      BY <1>6, <1>8, <1>10, <1>16, <1>17, <1>20, <2>1
    <2>3. Open(d, packet) /\ v[c] = Accept
      BY <1>6, <1>8, <1>11, <1>16, <1>17, <1>20, <2>2
    <2> QED
      BY <1>12, <1>15, <2>3
  <1>21. v[c] \in Judgement(d, n, packet) /\ v[c] # Return
    BY <1>5, <1>15, <1>17, <1>18, <1>19, <1>20
  <1> QED
    BY <1>21 DEF v, c, n

\* The hooks: a packet goes through the chains of the namespaces that police it.
LEMMA HookJumpFacts ==
  ASSUME NEW hook, NEW d \in Directions, NEW n, NEW packet \in Packets
  PROVE  LET l == HookJump(hook, d, n) IN
         /\ l.chain = hook /\ l.rule.target = NamespaceChain(d, n)
         /\ Matches(l.rule, packet) <=> Own(d, packet) \in InNamespace[n]
  <1> DEFINE l == HookJump(hook, d, n)
             c == NamespaceChain(d, n)
             set == NamespaceSet(n)
             sets == {set}
             none == {}
  <1>1. l.chain = hook /\ l.rule = Rule(d, sets, none, AnyPort, c)
    BY DEF HookJump, Line
  <1>2. packet.port \in AnyPort
    BY DEF Packets, AnyPort
  <1>3. Members(set) = InNamespace[n]
    BY MembersOf
  <1> HIDE DEF l, c, set
  <1>4. \A a : Within(none, a) /\ (Within(sets, a) <=> a \in InNamespace[n])
    BY <1>3 DEF Within
  <1> HIDE DEF sets, none
  <1>5. l.rule.target = c /\ (Matches(l.rule, packet) <=> Own(d, packet) \in InNamespace[n])
    BY <1>1, <1>2, <1>4, RuleMatches
  <1> QED
    BY <1>1, <1>5 DEF l, c

LEMMA HookVerdict ==
  ASSUME Ready, NEW packet \in Packets, NEW hook \in Hooks
  PROVE  LET judges == Judges(packet) IN
         IF judges = {} THEN Verdict(hook, packet) = Return
         ELSE Verdict(hook, packet) \in UNION {Judgement(j[1], j[2], packet) : j \in judges}
  <1> DEFINE v == Verdicts(packet)
             judges == Judges(packet)
  <1>1. Verdict(hook, packet) = v[hook]
    BY DEF Verdict
  <1>2. hook \in EntryChains /\ hook[1] \notin {"ENN-PLY-IN", "ENN-PLY-E"} /\ hook \notin {Accept, Reject}
    BY DEF Hooks, EntryChains, Accept, Reject
  <1>3. /\ hook \in DOMAIN kernel
        /\ \A r : r \in ToSet(kernel[hook]) <=> \E l \in ToSet(lines) : l.chain = hook /\ l.rule = r
    BY <1>2, ChainIsLines
  <1>4. \A d, n : <<d, n>> \in judges <=>
          /\ d \in Directions /\ n \in Namespaces /\ Own(d, packet) \in InNamespace[n]
          /\ \E p \in Policies : p[1] = n /\ p \in Done /\ d \in ToSet(policies[p].types)
    <2>1. \A d, n : <<d, n>> \in judges <=>
            /\ d \in Directions /\ n \in Namespaces /\ Own(d, packet) \in InNamespace[n]
            /\ \E p \in Policies : p[1] = n /\ enforced[p] # None /\ d \in ToSet(enforced[p].types)
      BY DEF Judges
    <2>2. \A p \in Policies : /\ enforced[p] # None <=> p \in Done
                              /\ p \in Done => enforced[p] = policies[p]
      BY ReadyPolicies
    <2> HIDE DEF judges
    <2>3. \A p \in Policies : \A d :
            enforced[p] # None /\ d \in ToSet(enforced[p].types) <=> p \in Done /\ d \in ToSet(policies[p].types)
      BY <2>2
    <2>4. ASSUME NEW d, NEW n
          PROVE  <<d, n>> \in judges <=>
                   /\ d \in Directions /\ n \in Namespaces /\ Own(d, packet) \in InNamespace[n]
                   /\ \E p \in Policies : p[1] = n /\ p \in Done /\ d \in ToSet(policies[p].types)
      <3>1. (\E p \in Policies : p[1] = n /\ enforced[p] # None /\ d \in ToSet(enforced[p].types))
            <=> \E p \in Policies : p[1] = n /\ p \in Done /\ d \in ToSet(policies[p].types)
        BY <2>3
      <3> QED
        BY <2>1, <3>1
    <2> QED
      BY <2>4
  <1> HIDE DEF v, judges
  <1>5. /\ v[hook] = Return => \A r \in ToSet(kernel[hook]) : Matches(r, packet) => v[r.target] = Return
        /\ v[hook] # Return => \E r \in ToSet(kernel[hook]) : Matches(r, packet) /\ v[hook] = v[r.target]
    BY <1>2, <1>3, ReadyFacts, VerdictOf DEF v
  <1>6. ASSUME v[hook] # Return
        PROVE  \E d, n : <<d, n>> \in judges /\ v[hook] \in Judgement(d, n, packet)
    <2>1. PICK r \in ToSet(kernel[hook]) : Matches(r, packet) /\ v[hook] = v[r.target]
      BY <1>5, <1>6
    <2>2. PICK l \in ToSet(lines) : l.chain = hook /\ l.rule = r
      BY <1>3, <2>1
    <2>3. PICK p \in Done : /\ p \in Policies /\ p[1] \in Namespaces
            /\ \E d \in ToSet(policies[p].types) : d \in Directions /\ l = HookJump(l.chain, d, p[1])
      BY <2>2, HookLines
    <2>4. PICK d \in ToSet(policies[p].types) : d \in Directions /\ l = HookJump(hook, d, p[1])
      BY <2>2, <2>3
    <2>5. r.target = NamespaceChain(d, p[1]) /\ Own(d, packet) \in InNamespace[p[1]]
      <3>1. d \in Directions /\ Matches(HookJump(hook, d, p[1]).rule, packet)
        BY <2>1, <2>2, <2>4
      <3>2. /\ HookJump(hook, d, p[1]).rule.target = NamespaceChain(d, p[1])
            /\ Own(d, packet) \in InNamespace[p[1]]
        <4> DEFINE n == p[1]
        <4> HIDE DEF n
        <4>1. \A e \in Directions : /\ HookJump(hook, e, n).rule.target = NamespaceChain(e, n)
                                    /\ Matches(HookJump(hook, e, n).rule, packet) => Own(e, packet) \in InNamespace[n]
          BY HookJumpFacts
        <4>2. /\ HookJump(hook, d, n).rule.target = NamespaceChain(d, n)
              /\ Matches(HookJump(hook, d, n).rule, packet) => Own(d, packet) \in InNamespace[n]
          BY <3>1, <4>1
        <4> QED
          BY <3>1, <4>2 DEF n
      <3> QED
        BY <2>2, <2>4, <3>2
    <2>6. <<d, p[1]>> \in judges
      BY <1>4, <2>3, <2>4, <2>5
    <2>7. v[r.target] \in Judgement(d, p[1], packet)
      BY <2>3, <2>5, NamespaceVerdict DEF v
    <2> QED
      BY <2>1, <2>6, <2>7
  <1>7. ASSUME judges # {} PROVE v[hook] # Return
    <2>1. PICK d, n : <<d, n>> \in judges
      BY <1>7 DEF judges, Judges
    <2>2. PICK p \in Policies : p[1] = n /\ p \in Done /\ d \in ToSet(policies[p].types)
      BY <1>4, <2>1
    <2>3. d \in Directions /\ Own(d, packet) \in InNamespace[p[1]]
      BY <1>4, <2>1, <2>2
    <2> DEFINE l == HookJump(hook, d, p[1])
    <2>4. /\ l.chain = hook /\ l.rule.target = NamespaceChain(d, p[1]) /\ Matches(l.rule, packet)
      BY <2>3, HookJumpFacts
    <2>5. l \in ToSet(lines)
      <3>1. l \in HeadSet(options, d, p[1])
        BY DEF HeadSet
      <3> HIDE DEF l
      <3> QED
        BY <2>2, <3>1, ReadyFacts DEF Heads
    <2> HIDE DEF l
    <2>6. l.rule \in ToSet(kernel[hook])
      BY <1>3, <2>4, <2>5
    <2>7. v[l.rule.target] # Return
      BY <2>2, <2>3, <2>4, NamespaceVerdict DEF v
    <2> QED
      BY <1>5, <2>4, <2>6, <2>7
  <1>8. CASE judges = {}
    BY <1>1, <1>6, <1>8 DEF judges
  <1>9. CASE judges # {}
    <2>1. PICK d, n : <<d, n>> \in judges /\ v[hook] \in Judgement(d, n, packet)
      BY <1>6, <1>7, <1>9
    <2>2. Judgement(d, n, packet) \in {Judgement(j[1], j[2], packet) : j \in judges}
      BY <2>1
    <2>3. v[hook] \in UNION {Judgement(j[1], j[2], packet) : j \in judges}
      BY <2>1, <2>2
    <2> QED
      BY <1>1, <1>9, <2>3 DEF judges
  <1> QED
    BY <1>8, <1>9

LEMMA VerdictsInvExact == PlainSpecs /\ TypeOK /\ ChainsInv /\ VerdictsInv => VerdictsExact
  <1> SUFFICES ASSUME PlainSpecs, TypeOK, ChainsInv, VerdictsInv, Settled,
                      NEW hook \in Hooks, NEW packet \in Packets
               PROVE  LET judges == Judges(packet) IN
                      IF judges = {} THEN Verdict(hook, packet) = Return
                      ELSE Verdict(hook, packet) \in UNION {Judgement(j[1], j[2], packet) : j \in judges}
    BY DEF VerdictsExact
  <1>1. Ready
    BY DEF Ready
  <1> QED
    BY <1>1, HookVerdict

\* Verdicts: if the specs are plain, then whenever the rules that the last
\* restore wrote enforce known policies, every packet that reaches a hook is
\* judged as one of the namespaces at its ends judges it, and comes back from
\* the hook when none of them has a policy for its direction.
THEOREM VerdictsExactHolds == PlainSpecs => (Spec => []VerdictsExact)
  <1> SUFFICES ASSUME PlainSpecs PROVE Spec => []VerdictsExact
    OBVIOUS
  <1>1. Init => TypeOK /\ ChainsInv /\ VerdictsInv
    BY TypeInit, ChainsInit, VerdictsInit
  <1>2. TypeOK /\ ChainsInv /\ VerdictsInv /\ [Next]_vars => (TypeOK /\ ChainsInv /\ VerdictsInv)'
    BY TypeNext, ChainsNext, VerdictsNext
  <1>3. TypeOK /\ ChainsInv /\ VerdictsInv => VerdictsExact
    BY VerdictsInvExact
  <1> QED
    BY <1>1, <1>2, <1>3, PTL DEF Spec

=============================================================================
