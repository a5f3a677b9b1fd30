------------------------- MODULE PolicyRules_proofs -------------------------
(***************************************************************************)
(* Theorems about PolicyRules, for every cluster, any policies that come,  *)
(* change and go, any spec and any number of failures: the types of the    *)
(* variables, and that the chains which refer to each other are exact.     *)
(***************************************************************************)
EXTENDS PolicyRules, FiniteSetTheorems, SequenceTheorems, Induction_proofs

(***************************************************************************)
(* Sequences.  FlattenSeq is recursive, and what it does for a sequence of *)
(* any length rests on the least number for which it would be otherwise.   *)
(***************************************************************************)

IsSeq(s) == s \in Seq(ToSet(s))

LEMMA SeqDomain ==
  ASSUME NEW s, IsSeq(s)
  PROVE  Len(s) \in Nat /\ DOMAIN s = 1 .. Len(s) /\ s = [i \in 1 .. Len(s) |-> s[i]]
  BY LenProperties DEF IsSeq

LEMMA ListIsSeq ==
  ASSUME NEW n \in Nat, NEW s, s = [i \in 1 .. n |-> s[i]]
  PROVE  IsSeq(s) /\ Len(s) = n
  <1>1. s \in [1 .. n -> ToSet(s)]
    BY DEF ToSet
  <1>2. IsSeq(s)
    BY <1>1, SeqDef DEF IsSeq
  <1>3. DOMAIN s = 1 .. n /\ DOMAIN s = 1 .. Len(s) /\ Len(s) \in Nat
    BY <1>1, <1>2, SeqDomain
  <1> QED
    BY <1>2, <1>3

LEMMA SeqFacts ==
  ASSUME NEW S, NEW s \in Seq(S)
  PROVE  IsSeq(s) /\ ToSet(s) \subseteq S
  <1>1. Len(s) \in Nat /\ s \in [1 .. Len(s) -> S]
    BY LenProperties
  <1>2. s = [i \in 1 .. Len(s) |-> s[i]]
    BY <1>1
  <1> QED
    BY <1>1, <1>2, ListIsSeq DEF ToSet

LEMMA SeqIn ==
  ASSUME NEW S, NEW s, IsSeq(s), ToSet(s) \subseteq S
  PROVE  s \in Seq(S)
  BY SeqMonotonic DEF IsSeq

LEMMA Empty == IsSeq(<<>>) /\ ToSet(<<>>) = {} /\ Len(<<>>) = 0
  <1>1. ToSet(<<>>) = {}
    BY DEF ToSet
  <1> QED
    BY <1>1, EmptySeq DEF IsSeq

LEMMA One ==
  ASSUME NEW e
  PROVE  IsSeq(<<e>>) /\ ToSet(<<e>>) = {e}
  <1>1. <<e>> \in Seq({e}) /\ Len(<<e>>) = 1 /\ <<e>>[1] = e
    OBVIOUS
  <1>2. DOMAIN <<e>> = 1 .. 1
    BY <1>1, LenProperties
  <1>3. IsSeq(<<e>>) /\ ToSet(<<e>>) \subseteq {e}
    BY <1>1, SeqFacts
  <1>4. e \in ToSet(<<e>>)
    BY <1>1, <1>2 DEF ToSet
  <1> QED
    BY <1>3, <1>4

LEMMA Two ==
  ASSUME NEW a, NEW b
  PROVE  IsSeq(<<a, b>>) /\ ToSet(<<a, b>>) = {a, b}
  <1>1. <<a, b>> \in Seq({a, b}) /\ Len(<<a, b>>) = 2
    OBVIOUS
  <1>2. DOMAIN <<a, b>> = 1 .. 2
    BY <1>1, LenProperties
  <1>3. IsSeq(<<a, b>>) /\ ToSet(<<a, b>>) \subseteq {a, b}
    BY <1>1, SeqFacts
  <1>4. a \in ToSet(<<a, b>>) /\ b \in ToSet(<<a, b>>)
    <2>1. <<a, b>>[1] = a /\ <<a, b>>[2] = b
      OBVIOUS
    <2> QED
      BY <1>2, <2>1 DEF ToSet
  <1> QED
    BY <1>3, <1>4

LEMMA Concat ==
  ASSUME NEW s, NEW t, IsSeq(s), IsSeq(t)
  PROVE  IsSeq(s \o t) /\ ToSet(s \o t) = ToSet(s) \cup ToSet(t)
  <1> DEFINE S == ToSet(s) \cup ToSet(t)
             u == s \o t
  <1>1. s \in Seq(S) /\ t \in Seq(S)
    BY SeqIn
  <1>2. /\ u \in Seq(S)
        /\ Len(u) = Len(s) + Len(t)
        /\ \A i \in 1 .. Len(s) + Len(t) : u[i] = IF i <= Len(s) THEN s[i] ELSE t[i - Len(s)]
    BY <1>1, ConcatProperties
  <1>3. IsSeq(u) /\ ToSet(u) \subseteq S
    BY <1>2, SeqFacts
  <1>4. /\ Len(s) \in Nat /\ DOMAIN s = 1 .. Len(s)
        /\ Len(t) \in Nat /\ DOMAIN t = 1 .. Len(t)
        /\ DOMAIN u = 1 .. Len(u)
    BY <1>3, SeqDomain
  <1> HIDE DEF u
  <1>5. ASSUME NEW i \in DOMAIN s PROVE s[i] \in ToSet(u)
    <2>1. i \in DOMAIN u /\ u[i] = s[i]
      BY <1>2, <1>4
    <2> QED
      BY <2>1 DEF ToSet
  <1>6. ASSUME NEW i \in DOMAIN t PROVE t[i] \in ToSet(u)
    <2>1. i + Len(s) \in DOMAIN u /\ u[i + Len(s)] = t[i]
      BY <1>2, <1>4
    <2> QED
      BY <2>1 DEF ToSet
  <1>7. S \subseteq ToSet(u)
    BY <1>5, <1>6 DEF ToSet
  <1> QED
    BY <1>3, <1>7 DEF u

\* The function inside FlattenSeq exists.
LEMMA FlattenExists ==
  ASSUME NEW s, NEW n \in Nat
  PROVE  \E f : f = [i \in 1 .. n |-> IF i = 1 THEN s[i] ELSE f[i - 1] \o s[i]]
  <1> DEFINE Sound(k) == \E f : f = [i \in 1 .. k |-> IF i = 1 THEN s[i] ELSE f[i - 1] \o s[i]]
             bad == {k \in Nat : ~Sound(k)}
  <1> SUFFICES ASSUME bad # {} PROVE FALSE
    OBVIOUS
  <1>1. PICK b \in bad : \A k \in bad : b <= k
    BY LeastNumber
  <1>2. CASE b = 0
    <2> DEFINE f == [i \in 1 .. 0 |-> s[i]]
    <2>1. f = [i \in 1 .. 0 |-> IF i = 1 THEN s[i] ELSE f[i - 1] \o s[i]]
      OBVIOUS
    <2> QED
      BY <1>2, <2>1
  <1>3. CASE b # 0
    <2>1. b - 1 \in Nat /\ b \in Nat /\ b >= 1
      BY <1>3
    <2>2. Sound(b - 1)
      <3>1. ~(b <= b - 1)
        BY <2>1
      <3> QED
        BY <1>1, <2>1, <3>1
    <2>3. PICK f : f = [i \in 1 .. b - 1 |-> IF i = 1 THEN s[i] ELSE f[i - 1] \o s[i]]
      BY <2>2
    <2> DEFINE g == [i \in 1 .. b |-> IF i < b THEN f[i]
                                      ELSE IF i = 1 THEN s[i] ELSE f[i - 1] \o s[i]]
    <2>4. ASSUME NEW i \in 1 .. b
          PROVE  g[i] = IF i = 1 THEN s[i] ELSE g[i - 1] \o s[i]
      <3>1. i # 1 => i - 1 \in 1 .. b /\ g[i - 1] = f[i - 1]
        BY <2>1
      <3>2. CASE i < b
        <4>1. i \in 1 .. b - 1
          BY <2>1, <3>2
        <4>2. f[i] = IF i = 1 THEN s[i] ELSE f[i - 1] \o s[i]
          BY <2>3, <4>1
        <4> QED
          BY <3>1, <3>2, <4>2
      <3>3. CASE ~(i < b)
        BY <3>1, <3>3
      <3> QED
        BY <3>2, <3>3
    <2>5. g = [i \in 1 .. b |-> IF i = 1 THEN s[i] ELSE g[i - 1] \o s[i]]
      BY <2>4
    <2> QED
      BY <2>5
  <1> QED
    BY <1>2, <1>3

\* What FlattenSeq returns has the elements of the sequences in it.
LEMMA Flatten ==
  ASSUME NEW s, IsSeq(s), \A i \in DOMAIN s : IsSeq(s[i])
  PROVE  /\ IsSeq(FlattenSeq(s))
         /\ \A e : e \in ToSet(FlattenSeq(s)) <=> \E i \in DOMAIN s : e \in ToSet(s[i])
  <1> DEFINE N == Len(s)
  <1>1. N \in Nat /\ DOMAIN s = 1 .. N
    BY SeqDomain
  <1>2. CASE N = 0
    <2>1. s = <<>>
      BY <1>2, EmptySeq DEF IsSeq
    <2>2. FlattenSeq(s) = <<>> /\ DOMAIN s = {}
      BY <1>1, <1>2, <2>1 DEF FlattenSeq
    <2> QED
      BY <2>2, Empty
  <1>3. CASE N # 0
    <2> DEFINE flat == CHOOSE f : f = [i \in 1 .. N |-> IF i = 1 THEN s[i] ELSE f[i - 1] \o s[i]]
    <2>1. FlattenSeq(s) = flat[N]
      BY <1>3 DEF FlattenSeq
    <2>2. \E f : f = [i \in 1 .. N |-> IF i = 1 THEN s[i] ELSE f[i - 1] \o s[i]]
      BY <1>1, FlattenExists
    <2>3. flat = [i \in 1 .. N |-> IF i = 1 THEN s[i] ELSE flat[i - 1] \o s[i]]
      BY <2>2
    <2> HIDE DEF flat, N
    <2> DEFINE Right(k) == /\ IsSeq(flat[k])
                           /\ ToSet(flat[k]) = UNION {ToSet(s[i]) : i \in 1 .. k}
               bad == {k \in 1 .. N : ~Right(k)}
    <2>4. bad = {}
      <3> SUFFICES ASSUME bad # {} PROVE FALSE
        OBVIOUS
      <3>1. bad \in SUBSET Nat
        OBVIOUS
      <3>2. PICK b \in bad : \A k \in bad : b <= k
        BY <3>1, LeastNumber
      <3>3. b \in 1 .. N /\ ~Right(b) /\ IsSeq(s[b])
        BY <1>1
      <3>4. CASE b = 1
        <4>1. flat[b] = s[b]
          BY <2>3, <3>3, <3>4
        <4>2. UNION {ToSet(s[i]) : i \in 1 .. b} = ToSet(s[b])
          BY <3>4
        <4> QED
          BY <3>3, <4>1, <4>2
      <3>5. CASE b # 1
        <4>1. b - 1 \in 1 .. N /\ ~(b <= b - 1)
          BY <1>1, <3>3, <3>5
        <4>2. Right(b - 1)
          BY <3>2, <4>1
        <4>3. flat[b] = flat[b - 1] \o s[b]
          BY <2>3, <3>3, <3>5
        <4>4. IsSeq(flat[b]) /\ ToSet(flat[b]) = ToSet(flat[b - 1]) \cup ToSet(s[b])
          BY <3>3, <4>2, <4>3, Concat
        <4>5. 1 .. b = (1 .. b - 1) \cup {b}
          BY <1>1, <3>3, <3>5
        <4>6. UNION {ToSet(s[i]) : i \in 1 .. b} =
                (UNION {ToSet(s[i]) : i \in 1 .. b - 1}) \cup ToSet(s[b])
          BY <4>5
        <4> QED
          BY <3>3, <4>2, <4>4, <4>6
      <3> QED
        BY <3>4, <3>5
    <2>5. N \in 1 .. N
      BY <1>1, <1>3 DEF N
    <2>6. IsSeq(flat[N]) /\ ToSet(flat[N]) = UNION {ToSet(s[i]) : i \in 1 .. N}
      BY <2>4, <2>5
    <2> QED
      BY <1>1, <2>1, <2>6
  <1> QED
    BY <1>2, <1>3

\* A sequence with a value for each element of another one.
LEMMA Mapped ==
  ASSUME NEW s, IsSeq(s), NEW t, t = [i \in DOMAIN s |-> t[i]]
  PROVE  IsSeq(t) /\ DOMAIN t = DOMAIN s
  <1>1. Len(s) \in Nat /\ DOMAIN s = 1 .. Len(s)
    BY SeqDomain
  <1> QED
    BY <1>1, ListIsSeq

\* The elements of a finite set, in some order.
LEMMA InSomeOrder ==
  ASSUME NEW S, IsFiniteSet(S)
  PROVE  IsSeq(SetToSeq(S)) /\ (S # {} => 1 \in DOMAIN SetToSeq(S))
  <1>1. Cardinality(S) \in Nat /\ ExistsBijection(1 .. Cardinality(S), S)
    BY FS_CardinalityType
  <1>2. \E f \in [1 .. Cardinality(S) -> S] : IsInjective(f)
    BY <1>1 DEF ExistsBijection, Bijection, Injection, IsInjective
  <1>3. SetToSeq(S) \in [1 .. Cardinality(S) -> S]
    BY <1>2 DEF SetToSeq
  <1>4. SetToSeq(S) = [i \in 1 .. Cardinality(S) |-> SetToSeq(S)[i]]
    BY <1>3
  <1>5. IsSeq(SetToSeq(S)) /\ DOMAIN SetToSeq(S) = 1 .. Cardinality(S)
    BY <1>1, <1>3, <1>4, ListIsSeq
  <1>6. S # {} => Cardinality(S) # 0
    BY FS_EmptySet
  <1> QED
    BY <1>1, <1>5, <1>6

-----------------------------------------------------------------------------
(* The lines that the loop writes.  A chain of ours is written into only if *)
(* there is a jump to it, and a namespace's chain only with the jump to its *)
(* ENN-PLY chain.                                                           *)

IsOwn(c) == c[1] \in OwnPrefixes
Targets(X) == {l.rule.target : l \in X}
Shaped(l) ==
  /\ l.chain \in EntryChains \/ IsOwn(l.chain)
  /\ l.rule.target \in {Accept, Reject} \/ IsOwn(l.rule.target)
\* The lines X are complete if there are jumps to the chains T already.
Complete(X, T) ==
  \A l \in X :
    /\ Shaped(l)
    /\ l.chain \in EntryChains \cup Targets(X) \cup T
    /\ \A d \in Directions, n \in Namespaces :
         NamespaceChain(d, n) \in {l.chain, l.rule.target} => IPRangeChain(d, n) \in Targets(X) \cup T
IsPiece(s, T) == IsSeq(s) /\ Complete(ToSet(s), T)

LEMMA CompleteUnion ==
  ASSUME NEW X, NEW Y, NEW Z, NEW T, Complete(X, T), Complete(Y, T), Z = X \cup Y
  PROVE  Complete(Z, T)
  <1>1. Targets(X) \subseteq Targets(Z) /\ Targets(Y) \subseteq Targets(Z)
    BY DEF Targets
  <1> QED
    BY <1>1 DEF Complete

LEMMA PieceEmpty ==
  ASSUME NEW T
  PROVE  IsPiece(<<>>, T)
  BY Empty DEF IsPiece, Complete

LEMMA PieceConcat ==
  ASSUME NEW s, NEW t, NEW T, IsPiece(s, T), IsPiece(t, T)
  PROVE  IsPiece(s \o t, T)
  BY Concat, CompleteUnion DEF IsPiece

LEMMA PieceFlatten ==
  ASSUME NEW s, NEW T, IsSeq(s), \A i \in DOMAIN s : IsPiece(s[i], T)
  PROVE  IsPiece(FlattenSeq(s), T)
  <1> DEFINE Z == ToSet(FlattenSeq(s))
  <1>1. IsSeq(FlattenSeq(s)) /\ \A l : l \in Z <=> \E i \in DOMAIN s : l \in ToSet(s[i])
    BY Flatten DEF IsPiece
  <1> HIDE DEF Z
  <1>2. ASSUME NEW i \in DOMAIN s PROVE Targets(ToSet(s[i])) \subseteq Targets(Z)
    BY <1>1 DEF Targets
  <1>3. ASSUME NEW l \in Z
        PROVE  /\ Shaped(l)
               /\ l.chain \in EntryChains \cup Targets(Z) \cup T
               /\ \A d \in Directions, n \in Namespaces :
                    NamespaceChain(d, n) \in {l.chain, l.rule.target} =>
                      IPRangeChain(d, n) \in Targets(Z) \cup T
    <2>1. PICK i \in DOMAIN s : l \in ToSet(s[i])
      BY <1>1
    <2>2. Complete(ToSet(s[i]), T)
      BY DEF IsPiece
    <2> QED
      BY <1>2, <2>1, <2>2 DEF Complete
  <1> QED
    BY <1>1, <1>3 DEF IsPiece, Complete, Z

\* A piece that relies on jumps which the piece before it has.
LEMMA PieceAfter ==
  ASSUME NEW s, NEW t, NEW T, NEW U, IsPiece(s, T), IsPiece(t, U), U \subseteq Targets(ToSet(s)) \cup T
  PROVE  IsPiece(s \o t, T)
  <1> DEFINE X == ToSet(s)
             Y == ToSet(t)
             Z == X \cup Y
  <1>1. Targets(X) \subseteq Targets(Z) /\ Targets(Y) \subseteq Targets(Z)
    BY DEF Targets
  <1>2. Complete(X, T) /\ Complete(Y, U)
    BY DEF IsPiece
  <1> HIDE DEF X, Y
  <1>3. U \subseteq Targets(Z) \cup T
    BY <1>1 DEF X
  <1>4. Complete(Z, T)
    BY <1>1, <1>2, <1>3 DEF Complete
  <1> QED
    BY <1>4, Concat DEF IsPiece, X, Y

\* The prefixes of the names tell the kinds of chains apart.
LEMMA KindsOfChains ==
  ASSUME NEW d \in Directions, NEW n, NEW p, NEW match, NEW key
  PROVE  /\ NamespaceChain(d, n)[1] \in {"ENN-INGRESS", "ENN-EGRESS"}
         /\ IPRangeChain(d, n)[1] \in {"ENN-PLY-IN", "ENN-PLY-E"}
         /\ DispatchChain(d, p, match, key)[1] = "ENN-DPATCH"
         /\ IPBlockChain(d, p, key)[1] = "ENN-IPCIDR"
         /\ Accept[1] = "ACCEPT" /\ Reject[1] = "REJECT" /\ KubeForward[1] = "KUBE-FORWARD"
         /\ \A c \in EntryChains : c[1] \in {"ENN-INPUT", "ENN-OUTPUT", "ENN-FORWARD"}
  <1>1. /\ NamespaceChain(d, n)[1] \in {"ENN-INGRESS", "ENN-EGRESS"}
        /\ IPRangeChain(d, n)[1] \in {"ENN-PLY-IN", "ENN-PLY-E"}
    BY DEF NamespaceChain, IPRangeChain
  <1>2. DispatchChain(d, p, match, key)[1] = "ENN-DPATCH" /\ IPBlockChain(d, p, key)[1] = "ENN-IPCIDR"
    BY DEF DispatchChain, IPBlockChain
  <1>3. Accept[1] = "ACCEPT" /\ Reject[1] = "REJECT" /\ KubeForward[1] = "KUBE-FORWARD"
    BY DEF Accept, Reject, KubeForward
  <1>4. \A c \in EntryChains : c[1] \in {"ENN-INPUT", "ENN-OUTPUT", "ENN-FORWARD"}
    BY DEF EntryChains
  <1> QED
    BY <1>1, <1>2, <1>3, <1>4

LEMMA LineFields ==
  ASSUME NEW chain, NEW d, NEW own, NEW peer, NEW ports, NEW target
  PROVE  /\ Line(chain, Rule(d, own, peer, ports, target)).chain = chain
         /\ Line(chain, Rule(d, own, peer, ports, target)).rule.target = target
  BY DEF Line, Rule

\* The jump to a dispatch chain and its rules, one for each port or one for all.
LEMMA DispatchPiece ==
  ASSUME NEW d \in Directions, NEW p, NEW info, NEW match, NEW key, NEW peerSets,
         NEW ports \in SUBSET Ports, NEW target,
         target = Accept \/ target[1] = "ENN-IPCIDR"
  PROVE  LET s == DispatchLines(d, p, info, match, key, peerSets, ports, target)
         IN  IsPiece(s, {IPRangeChain(d, p[1])}) /\ target \in Targets(ToSet(s))
  <1> DEFINE s == DispatchLines(d, p, info, match, key, peerSets, ports, target)
             chain == DispatchChain(d, p, match, key)
             own == IF info.podSelector = {} THEN {} ELSE {LabelsSet(p[1], info.podSelector)}
             each == IF ports = {} THEN <<AnyPort>> ELSE SetToSeq({{port} : port \in ports})
             jump == Line(IPRangeChain(d, p[1]), Rule(d, {}, {}, AnyPort, chain))
             rules == [i \in DOMAIN each |-> Line(chain, Rule(d, own, peerSets, each[i], target))]
             X == ToSet(s)
  <1>1. s = <<jump>> \o rules
    BY DEF DispatchLines
  <1>2. IsSeq(each) /\ \E i : i \in DOMAIN each
    <2>1. CASE ports = {}
      <3>1. IsSeq(<<AnyPort>>) /\ ToSet(<<AnyPort>>) = {AnyPort}
        BY One
      <3> QED
        BY <2>1, <3>1 DEF ToSet
    <2>2. CASE ports # {}
      <3>1. IsFiniteSet(ports)
        BY FiniteAssumption, FS_Subset
      <3>2. IsFiniteSet({{port} : port \in ports}) /\ {{port} : port \in ports} # {}
        <4> DEFINE single == [port \in ports |-> {port}]
        <4>1. single \in Surjection(ports, {{port} : port \in ports})
          BY DEF Surjection
        <4>2. IsFiniteSet({{port} : port \in ports})
          BY <3>1, <4>1, FS_Surjection
        <4> QED
          BY <2>2, <4>2
      <3> QED
        BY <2>2, <3>2, InSomeOrder
    <2> QED
      BY <2>1, <2>2
  <1> HIDE DEF each
  <1>3. IsSeq(rules) /\ DOMAIN rules = DOMAIN each
    BY <1>2, Mapped
  <1>4. \A l \in ToSet(rules) : l.chain = chain /\ l.rule.target = target
    BY <1>3, LineFields DEF ToSet
  <1>5. \E l : l \in ToSet(rules)
    BY <1>2, <1>3 DEF ToSet
  <1>6. jump.chain = IPRangeChain(d, p[1]) /\ jump.rule.target = chain
    BY LineFields
  <1> HIDE DEF rules, jump
  <1>7. IsSeq(s) /\ X = {jump} \cup ToSet(rules)
    BY <1>1, <1>3, One, Concat
  <1> HIDE DEF X
  <1>8. chain \in Targets(X) /\ target \in Targets(X)
    BY <1>4, <1>5, <1>6, <1>7 DEF Targets
  <1>9. ASSUME NEW l \in X
        PROVE  /\ Shaped(l) /\ l.chain \in Targets(X) \cup {IPRangeChain(d, p[1])}
               /\ l.chain[1] \notin {"ENN-INGRESS", "ENN-EGRESS"}
               /\ l.rule.target[1] \notin {"ENN-INGRESS", "ENN-EGRESS"}
    <2>1. \/ l.chain = IPRangeChain(d, p[1]) /\ l.rule.target = chain
          \/ l.chain = chain /\ l.rule.target = target
      BY <1>4, <1>6, <1>7
    <2>2. chain[1] = "ENN-DPATCH" /\ IPRangeChain(d, p[1])[1] \in {"ENN-PLY-IN", "ENN-PLY-E"}
          /\ Accept[1] = "ACCEPT"
      BY KindsOfChains
    <2>3. l.chain \in Targets(X) \cup {IPRangeChain(d, p[1])}
      BY <1>8, <2>1
    <2> HIDE DEF chain
    <2>4. Shaped(l)
      BY <2>1, <2>2 DEF Shaped, IsOwn, OwnPrefixes
    <2> QED
      BY <2>1, <2>2, <2>3, <2>4
  <1>10. Complete(X, {IPRangeChain(d, p[1])})
    <2>1. \A e \in Directions, n \in Namespaces :
            NamespaceChain(e, n)[1] \in {"ENN-INGRESS", "ENN-EGRESS"}
      BY KindsOfChains
    <2> QED
      BY <1>9, <2>1 DEF Complete
  <1> QED
    BY <1>7, <1>8, <1>10 DEF IsPiece, X

\* The three kinds of peers.
LEMMA PodSelectorPiece ==
  ASSUME NEW d \in Directions, NEW p, NEW info, NEW selector \in SUBSET Labels,
         NEW ports \in SUBSET Ports, NEW failed
  PROVE  IsPiece(DispatchPodSelector(d, p, info, selector, ports, failed), {IPRangeChain(d, p[1])})
  <1> DEFINE labels == SetToSeq({l \in selector : LabelsSet(p[1], {l}) # failed})
             each == [i \in DOMAIN labels |->
                        DispatchLines(d, p, info, "podSelector", labels[i],
                                      {LabelsSet(p[1], {labels[i]})}, ports, Accept)]
  <1>1. DispatchPodSelector(d, p, info, selector, ports, failed) = FlattenSeq(each)
    BY DEF DispatchPodSelector
  <1>2. IsSeq(labels)
    <2>1. IsFiniteSet({l \in selector : LabelsSet(p[1], {l}) # failed})
      BY FiniteAssumption, FS_Subset
    <2> QED
      BY <2>1, InSomeOrder
  <1> HIDE DEF labels
  <1>3. IsSeq(each) /\ DOMAIN each = DOMAIN labels
    BY <1>2, Mapped
  <1>4. \A i \in DOMAIN each : IsPiece(each[i], {IPRangeChain(d, p[1])})
    BY <1>3, DispatchPiece
  <1> QED
    BY <1>1, <1>3, <1>4, PieceFlatten

LEMMA NamespaceSelectorPiece ==
  ASSUME NEW d \in Directions, NEW p, NEW info, NEW selector \in SUBSET NamespaceLabels,
         NEW ports \in SUBSET Ports, NEW failed
  PROVE  IsPiece(DispatchNamespaceSelector(d, p, info, selector, ports, failed),
                 {IPRangeChain(d, p[1])})
  <1> DEFINE labels == SetToSeq({g \in selector : NamespaceLabelSet(g) # failed})
             each == [i \in DOMAIN labels |->
                        DispatchLines(d, p, info, "namespaceSelector", labels[i],
                                      {NamespaceLabelSet(labels[i])}, ports, Accept)]
  <1>1. DispatchNamespaceSelector(d, p, info, selector, ports, failed) = FlattenSeq(each)
    BY DEF DispatchNamespaceSelector
  <1>2. IsSeq(labels)
    <2>1. IsFiniteSet({g \in selector : NamespaceLabelSet(g) # failed})
      BY FiniteAssumption, FS_Subset
    <2> QED
      BY <2>1, InSomeOrder
  <1> HIDE DEF labels
  <1>3. IsSeq(each) /\ DOMAIN each = DOMAIN labels
    BY <1>2, Mapped
  <1>4. \A i \in DOMAIN each : IsPiece(each[i], {IPRangeChain(d, p[1])})
    BY <1>3, DispatchPiece
  <1> QED
    BY <1>1, <1>3, <1>4, PieceFlatten

\* The chain of the block is written into after the jump to it.
LEMMA IPBlockPiece ==
  ASSUME NEW d \in Directions, NEW p, NEW info, NEW block, NEW ports \in SUBSET Ports, NEW failed
  PROVE  IsPiece(DispatchIPBlock(d, p, info, block, ports, failed), {IPRangeChain(d, p[1])})
  <1> DEFINE chain == IPBlockChain(d, p, block.cidr)
             c == IPRangeChain(d, p[1])
             s == DispatchLines(d, p, info, "ipBlock", block.cidr, {CidrMatch(block.cidr)}, ports, chain)
             t == HandleIPBlockChain(d, p, block, failed)
  <1>1. DispatchIPBlock(d, p, info, block, ports, failed) = s \o t
    BY DEF DispatchIPBlock
  <1>2. chain[1] = "ENN-IPCIDR"
    BY DEF IPBlockChain
  <1>3. IsPiece(s, {c}) /\ chain \in Targets(ToSet(s))
    BY <1>2, DispatchPiece
  <1>4. IsPiece(t, {chain})
    <2> DEFINE except == ExceptSet(d, p, block.cidr)
               a == Line(chain, Rule(d, {}, {except}, AnyPort, Reject))
               b == Line(chain, Rule(d, {}, {}, AnyPort, Accept))
    <2>1. t = <<>> \/ t = <<a, b>>
      BY DEF HandleIPBlockChain
    <2>2. a.chain = chain /\ b.chain = chain /\ a.rule.target = Reject /\ b.rule.target = Accept
      BY LineFields
    <2> HIDE DEF a, b, chain
    <2>3. IsSeq(<<a, b>>) /\ ToSet(<<a, b>>) = {a, b}
      BY Two
    <2>4. Accept[1] = "ACCEPT" /\ Reject[1] = "REJECT"
          /\ \A e \in Directions, n \in Namespaces :
               NamespaceChain(e, n)[1] \in {"ENN-INGRESS", "ENN-EGRESS"}
      BY KindsOfChains
    <2>5. ASSUME NEW l \in {a, b}
          PROVE  /\ Shaped(l) /\ l.chain = chain
                 /\ \A e \in Directions, n \in Namespaces :
                      NamespaceChain(e, n) \notin {l.chain, l.rule.target}
      <3>1. l.chain = chain /\ l.rule.target \in {Accept, Reject}
        BY <2>2
      <3>2. Shaped(l)
        BY <1>2, <3>1 DEF Shaped, IsOwn, OwnPrefixes
      <3> QED
        BY <1>2, <2>4, <3>1, <3>2
    <2>6. Complete({a, b}, {chain})
      BY <2>5 DEF Complete
    <2>7. IsPiece(<<a, b>>, {chain})
      BY <2>3, <2>6 DEF IsPiece
    <2> QED
      BY <2>1, <2>7, PieceEmpty
  <1> HIDE DEF s, t, c, chain
  <1>5. IsPiece(s \o t, {c})
    BY <1>3, <1>4, PieceAfter
  <1> QED
    BY <1>1, <1>5 DEF c

\* What buildNetworkPolicyInfo makes of a rule.
IsRuleInfo(rule) ==
  /\ rule.ports \in SUBSET Ports
  /\ IsSeq(rule.podSelector) /\ \A i \in DOMAIN rule.podSelector : rule.podSelector[i] \in SUBSET Labels
  /\ IsSeq(rule.namespaceSelector)
  /\ \A i \in DOMAIN rule.namespaceSelector : rule.namespaceSelector[i] \in SUBSET NamespaceLabels
  /\ IsSeq(rule.ipBlock)

LEMMA RulePiece ==
  ASSUME NEW d \in Directions, NEW p, NEW info, NEW rule, IsRuleInfo(rule), NEW failed
  PROVE  IsPiece(RuleLines(d, p, info, rule, failed), {IPRangeChain(d, p[1])})
  <1> DEFINE c == IPRangeChain(d, p[1])
             only == IF /\ rule.podSelector = <<>> /\ rule.namespaceSelector = <<>>
                        /\ rule.ipBlock = <<>> /\ rule.ports # {}
                     THEN DispatchOnlyPorts(d, p, info, rule.ports) ELSE <<>>
             pods == [i \in DOMAIN rule.podSelector |->
                        DispatchPodSelector(d, p, info, rule.podSelector[i], rule.ports, failed)]
             spaces == [i \in DOMAIN rule.namespaceSelector |->
                          DispatchNamespaceSelector(d, p, info, rule.namespaceSelector[i],
                                                    rule.ports, failed)]
             blocks == [i \in DOMAIN rule.ipBlock |->
                          DispatchIPBlock(d, p, info, rule.ipBlock[i], rule.ports, failed)]
  <1>1. RuleLines(d, p, info, rule, failed) =
          ((only \o FlattenSeq(pods)) \o FlattenSeq(spaces)) \o FlattenSeq(blocks)
    BY DEF RuleLines
  <1>2. rule.ports \in SUBSET Ports
    BY DEF IsRuleInfo
  <1>3. IsPiece(only, {c})
    <2>1. IsPiece(DispatchOnlyPorts(d, p, info, rule.ports), {c})
      BY <1>2, DispatchPiece DEF DispatchOnlyPorts
    <2> QED
      BY <2>1, PieceEmpty
  <1>4. IsPiece(FlattenSeq(pods), {c})
    <2>1. IsSeq(rule.podSelector) /\ \A i \in DOMAIN rule.podSelector : rule.podSelector[i] \in SUBSET Labels
      BY DEF IsRuleInfo
    <2>2. IsSeq(pods) /\ DOMAIN pods = DOMAIN rule.podSelector
      BY <2>1, Mapped
    <2>3. \A i \in DOMAIN pods : IsPiece(pods[i], {c})
      BY <1>2, <2>1, <2>2, PodSelectorPiece
    <2> QED
      BY <2>2, <2>3, PieceFlatten
  <1>5. IsPiece(FlattenSeq(spaces), {c})
    <2>1. /\ IsSeq(rule.namespaceSelector)
          /\ \A i \in DOMAIN rule.namespaceSelector : rule.namespaceSelector[i] \in SUBSET NamespaceLabels
      BY DEF IsRuleInfo
    <2>2. IsSeq(spaces) /\ DOMAIN spaces = DOMAIN rule.namespaceSelector
      BY <2>1, Mapped
    <2>3. \A i \in DOMAIN spaces : IsPiece(spaces[i], {c})
      BY <1>2, <2>1, <2>2, NamespaceSelectorPiece
    <2> QED
      BY <2>2, <2>3, PieceFlatten
  <1>6. IsPiece(FlattenSeq(blocks), {c})
    <2>1. IsSeq(rule.ipBlock)
      BY DEF IsRuleInfo
    <2>2. IsSeq(blocks) /\ DOMAIN blocks = DOMAIN rule.ipBlock
      BY <2>1, Mapped
    <2>3. \A i \in DOMAIN blocks : IsPiece(blocks[i], {c})
      BY <1>2, <2>2, IPBlockPiece
    <2> QED
      BY <2>2, <2>3, PieceFlatten
  <1> HIDE DEF only, pods, spaces, blocks, c
  <1>7. IsPiece(only \o FlattenSeq(pods), {c})
    BY <1>3, <1>4, PieceConcat
  <1>8. IsPiece((only \o FlattenSeq(pods)) \o FlattenSeq(spaces), {c})
    BY <1>5, <1>7, PieceConcat
  <1>9. IsPiece(((only \o FlattenSeq(pods)) \o FlattenSeq(spaces)) \o FlattenSeq(blocks), {c})
    BY <1>6, <1>8, PieceConcat
  <1> QED
    BY <1>1, <1>9 DEF c

\* The peers of one kind, without those that are nil.
LEMMA PresentFacts ==
  ASSUME NEW peers \in Seq(Peers), NEW field, NEW V,
         \A peer \in Peers : peer[field] \in V \cup {None}
  PROVE  IsSeq(Present(peers, field))
         /\ \A i \in DOMAIN Present(peers, field) : Present(peers, field)[i] \in V
  <1> DEFINE each == [i \in DOMAIN peers |->
                        IF peers[i][field] = None THEN <<>> ELSE <<peers[i][field]>>]
             s == Present(peers, field)
  <1>1. IsSeq(peers) /\ ToSet(peers) \subseteq Peers
    BY SeqFacts
  <1>2. IsSeq(each) /\ DOMAIN each = DOMAIN peers
    BY <1>1, Mapped
  <1>3. \A i \in DOMAIN each : IsSeq(each[i]) /\ ToSet(each[i]) \subseteq V
    <2> SUFFICES ASSUME NEW i \in DOMAIN peers PROVE IsSeq(each[i]) /\ ToSet(each[i]) \subseteq V
      BY <1>2
    <2>1. peers[i] \in Peers
      BY <1>1 DEF ToSet
    <2>2. CASE peers[i][field] = None
      <3>1. each[i] = <<>>
        BY <2>2
      <3> QED
        BY <3>1, Empty
    <2>3. CASE peers[i][field] # None
      <3>1. each[i] = <<peers[i][field]>> /\ peers[i][field] \in V
        BY <2>1, <2>3
      <3>2. IsSeq(<<peers[i][field]>>) /\ ToSet(<<peers[i][field]>>) = {peers[i][field]}
        BY One
      <3> QED
        BY <3>1, <3>2
    <2> QED
      BY <2>2, <2>3
  <1>4. s = FlattenSeq(each)
    BY DEF Present
  <1> HIDE DEF each, s
  <1>5. IsSeq(s) /\ \A e : e \in ToSet(s) <=> \E i \in DOMAIN each : e \in ToSet(each[i])
    BY <1>2, <1>3, <1>4, Flatten
  <1>6. \A i \in DOMAIN s : s[i] \in ToSet(s)
    BY DEF ToSet
  <1>7. IsSeq(s) /\ \A i \in DOMAIN s : s[i] \in V
    BY <1>3, <1>5, <1>6
  <1> QED
    BY <1>7 DEF s

LEMMA RuleInfoFacts ==
  ASSUME NEW rule \in [ports : SUBSET Ports, peers : Seq(Peers)]
  PROVE  IsRuleInfo(RuleInfo(rule))
  <1>1. rule.ports \in SUBSET Ports /\ rule.peers \in Seq(Peers)
    OBVIOUS
  <1>2. \A peer \in Peers : /\ peer["podSelector"] \in (SUBSET Labels) \cup {None}
                            /\ peer["namespaceSelector"] \in (SUBSET NamespaceLabels) \cup {None}
    BY DEF Peers
  <1>3. \A peer \in Peers : peer["ipBlock"] \in [cidr : Cidrs, except : SUBSET Cidrs] \cup {None}
    BY DEF Peers
  <1> DEFINE pods == Present(rule.peers, "podSelector")
             spaces == Present(rule.peers, "namespaceSelector")
             blocks == Present(rule.peers, "ipBlock")
  <1>4. IsSeq(pods) /\ \A i \in DOMAIN pods : pods[i] \in SUBSET Labels
    BY <1>1, <1>2, PresentFacts
  <1>5. IsSeq(spaces) /\ \A i \in DOMAIN spaces : spaces[i] \in SUBSET NamespaceLabels
    BY <1>1, <1>2, PresentFacts
  <1>6. IsSeq(blocks)
    BY <1>1, <1>3, PresentFacts
  <1>7. RuleInfo(rule) = [ports |-> rule.ports, podSelector |-> pods,
                          namespaceSelector |-> spaces, ipBlock |-> blocks]
    BY DEF RuleInfo
  <1> HIDE DEF pods, spaces, blocks
  <1> QED
    BY <1>1, <1>4, <1>5, <1>6, <1>7 DEF IsRuleInfo

\* What buildNetworkPolicyInfo makes of a NetworkPolicy.
IsInfo(info) ==
  /\ info.types \in Seq(Directions)
  /\ \A d \in Directions : IsSeq(info[d]) /\ \A i \in DOMAIN info[d] : IsRuleInfo(info[d][i])

LEMMA InfoFacts ==
  ASSUME NEW p \in Policies, NEW spec \in Specs[p]
  PROVE  IsInfo(NetworkPolicyInfo(spec))
  <1> DEFINE info == NetworkPolicyInfo(spec)
  <1>1. spec.types \in Seq(Directions)
        /\ \A d \in Directions : spec[d] \in Seq([ports : SUBSET Ports, peers : Seq(Peers)])
    BY SpecsAssumption
  <1>2. info.types = spec.types
        /\ \A d \in Directions : info[d] = [i \in DOMAIN spec[d] |-> RuleInfo(spec[d][i])]
    BY DEF NetworkPolicyInfo, Directions
  <1> HIDE DEF info
  <1>3. ASSUME NEW d \in Directions
        PROVE  IsSeq(info[d]) /\ \A i \in DOMAIN info[d] : IsRuleInfo(info[d][i])
    <2>1. IsSeq(spec[d]) /\ ToSet(spec[d]) \subseteq [ports : SUBSET Ports, peers : Seq(Peers)]
      BY <1>1, SeqFacts
    <2>2. info[d] = [i \in DOMAIN spec[d] |-> info[d][i]]
      BY <1>2
    <2>3. IsSeq(info[d]) /\ DOMAIN info[d] = DOMAIN spec[d]
      BY <2>1, <2>2, Mapped
    <2>4. ASSUME NEW i \in DOMAIN info[d] PROVE IsRuleInfo(info[d][i])
      <3>1. spec[d][i] \in [ports : SUBSET Ports, peers : Seq(Peers)]
        BY <2>1, <2>3 DEF ToSet
      <3>2. info[d][i] = RuleInfo(spec[d][i])
        BY <1>2, <2>3
      <3> QED
        BY <3>1, <3>2, RuleInfoFacts
    <2> QED
      BY <2>3, <2>4
  <1> QED
    BY <1>1, <1>2, <1>3 DEF IsInfo, info

\* What the buffer holds refers to itself only.
LinesKnown == IsPiece(lines, {})

\* The chains that a namespace's first policy with this direction brings.
LEMMA HeadPiece ==
  ASSUME NEW d \in Directions, NEW n \in Namespaces, NEW T
  PROVE  LET s == (EntryLines(d, n) \o FlannelLines(d, n)) \o IPRangeLines(d, n)
         IN  IsPiece(s, T) /\ IPRangeChain(d, n) \in Targets(ToSet(s))
  <1> DEFINE c == NamespaceChain(d, n)
             r == IPRangeChain(d, n)
             jump == Rule(d, {NamespaceSet(n)}, {}, AnyPort, c)
             a == Line(<<"ENN-FORWARD">>, jump)
             b == Line(<<"ENN-OUTPUT">>, jump)
             flannel == Line(c, Rule(d, {}, {FlannelSet}, AnyPort, Accept))
             inside(sets) == Line(c, Rule(d, {}, sets, AnyPort, r))
             outside == Line(c, Rule(d, {}, {}, AnyPort, Accept))
             s == (EntryLines(d, n) \o FlannelLines(d, n)) \o IPRangeLines(d, n)
             X == ToSet(s)
  <1>1. EntryLines(d, n) = <<a, b>>
    BY DEF EntryLines
  <1>2. FlannelLines(d, n) = <<flannel>> \/ FlannelLines(d, n) = <<>>
    BY DEF FlannelLines
  <1>3. \/ IPRangeLines(d, n) = <<inside({})>>
        \/ IPRangeLines(d, n) = <<inside({IPRangeSet}), outside>>
    BY DEF IPRangeLines
  <1>4. /\ a.chain = <<"ENN-FORWARD">> /\ a.rule.target = c
        /\ b.chain = <<"ENN-OUTPUT">> /\ b.rule.target = c
        /\ flannel.chain = c /\ flannel.rule.target = Accept
        /\ outside.chain = c /\ outside.rule.target = Accept
        /\ \A sets : inside(sets).chain = c /\ inside(sets).rule.target = r
    BY LineFields
  <1> HIDE DEF a, b, flannel, inside, outside, c, r
  <1>5. IsSeq(EntryLines(d, n)) /\ ToSet(EntryLines(d, n)) = {a, b}
    BY <1>1, Two
  <1>6. IsSeq(FlannelLines(d, n)) /\ ToSet(FlannelLines(d, n)) \subseteq {flannel}
    BY <1>2, One, Empty
  <1>7. /\ IsSeq(IPRangeLines(d, n))
        /\ ToSet(IPRangeLines(d, n)) \subseteq {inside({}), inside({IPRangeSet}), outside}
        /\ inside({}) \in ToSet(IPRangeLines(d, n)) \/ inside({IPRangeSet}) \in ToSet(IPRangeLines(d, n))
    BY <1>3, One, Two
  <1>8. IsSeq(EntryLines(d, n) \o FlannelLines(d, n))
        /\ ToSet(EntryLines(d, n) \o FlannelLines(d, n)) = ToSet(EntryLines(d, n)) \cup ToSet(FlannelLines(d, n))
    BY <1>5, <1>6, Concat
  <1>9. IsSeq(s) /\ X = (ToSet(EntryLines(d, n)) \cup ToSet(FlannelLines(d, n))) \cup ToSet(IPRangeLines(d, n))
    BY <1>7, <1>8, Concat
  <1> HIDE DEF X, s
  <1>10. c \in Targets(X)
    BY <1>4, <1>5, <1>9 DEF Targets
  <1>11. r \in Targets(X)
    BY <1>4, <1>7, <1>9 DEF Targets
  <1>12. ASSUME NEW l \in X
         PROVE  /\ l.chain \in EntryChains \cup {c}
                /\ l.rule.target \in {Accept, c, r}
    <2>1. l \in {a, b, flannel, inside({}), inside({IPRangeSet}), outside}
      BY <1>5, <1>6, <1>7, <1>9
    <2> QED
      BY <1>4, <2>1 DEF EntryChains
  <1>13. /\ c[1] \in {"ENN-INGRESS", "ENN-EGRESS"} /\ r[1] \in {"ENN-PLY-IN", "ENN-PLY-E"}
         /\ Accept[1] = "ACCEPT" /\ \A e \in EntryChains : e[1] \in {"ENN-INPUT", "ENN-OUTPUT", "ENN-FORWARD"}
    BY KindsOfChains DEF c, r
  <1>14. ASSUME NEW e \in Directions, NEW m \in Namespaces, NamespaceChain(e, m) = c
         PROVE  IPRangeChain(e, m) = r
    BY <1>14 DEF NamespaceChain, IPRangeChain, Directions, c, r
  <1>15. \A e \in Directions, m \in Namespaces : NamespaceChain(e, m)[1] \in {"ENN-INGRESS", "ENN-EGRESS"}
    BY KindsOfChains
  <1>16. ASSUME NEW l \in X, NEW e \in Directions, NEW m \in Namespaces,
                NamespaceChain(e, m) \in {l.chain, l.rule.target}
         PROVE  IPRangeChain(e, m) \in Targets(X)
    <2>1. NamespaceChain(e, m) \in EntryChains \cup {c, Accept, r}
      BY <1>12, <1>16
    <2>2. NamespaceChain(e, m) = c
      BY <1>13, <1>15, <2>1
    <2> QED
      BY <1>11, <1>14, <2>2
  <1>17. \A l \in X : Shaped(l)
    BY <1>12, <1>13 DEF Shaped, IsOwn, OwnPrefixes
  <1>18. Complete(X, T)
    BY <1>10, <1>12, <1>16, <1>17 DEF Complete
  <1> QED
    BY <1>9, <1>11, <1>18 DEF IsPiece, X, s, r

LEMMA DirectionPiece ==
  ASSUME LinesKnown, NEW p \in Policies, NEW info, IsInfo(info), NEW d \in Directions, NEW failed
  PROVE  IsPiece(DirectionLines(d, p, info, failed), Targets(ToSet(lines)))
  <1> DEFINE T == Targets(ToSet(lines))
             c == IPRangeChain(d, p[1])
             head == IF NamespaceChain(d, p[1]) \in Active(lines) THEN <<>>
                     ELSE (EntryLines(d, p[1]) \o FlannelLines(d, p[1])) \o IPRangeLines(d, p[1])
             each == [i \in DOMAIN info[d] |-> RuleLines(d, p, info, info[d][i], failed)]
  <1>1. DirectionLines(d, p, info, failed) = head \o FlattenSeq(each)
    BY DEF DirectionLines
  <1>2. p[1] \in Namespaces
    BY ClusterAssumption
  <1>3. IsPiece(head, T) /\ c \in Targets(ToSet(head)) \cup T
    <2>1. CASE NamespaceChain(d, p[1]) \in Active(lines)
      <3>1. PICK i \in DOMAIN lines : NamespaceChain(d, p[1]) \in {lines[i].chain, lines[i].rule.target}
        BY <2>1 DEF Active
      <3>2. lines[i] \in ToSet(lines)
        BY DEF ToSet
      <3>3. c \in T
        BY <1>2, <3>1, <3>2 DEF LinesKnown, IsPiece, Complete
      <3> QED
        BY <2>1, <3>3, PieceEmpty
    <2>2. CASE NamespaceChain(d, p[1]) \notin Active(lines)
      BY <1>2, <2>2, HeadPiece
    <2> QED
      BY <2>1, <2>2
  <1>4. IsPiece(FlattenSeq(each), {c})
    <2>1. IsSeq(info[d]) /\ \A i \in DOMAIN info[d] : IsRuleInfo(info[d][i])
      BY DEF IsInfo
    <2>2. IsSeq(each) /\ DOMAIN each = DOMAIN info[d]
      BY <2>1, Mapped
    <2>3. \A i \in DOMAIN each : IsPiece(each[i], {c})
      BY <2>1, <2>2, RulePiece
    <2> QED
      BY <2>2, <2>3, PieceFlatten
  <1> HIDE DEF head, each, T, c
  <1>5. {c} \subseteq Targets(ToSet(head)) \cup T
    BY <1>3
  <1>6. IsPiece(head \o FlattenSeq(each), T)
    BY <1>3, <1>4, <1>5, PieceAfter
  <1> QED
    BY <1>1, <1>6 DEF T

\* The buffer after another policy, whatever set could not be created.
LEMMA LinesGrow ==
  ASSUME LinesKnown, NEW p \in Policies, NEW info, IsInfo(info), NEW failed
  PROVE  IsPiece(lines \o PolicyLines(p, info, failed), {})
  <1> DEFINE T == Targets(ToSet(lines))
             each == [i \in DOMAIN info.types |-> DirectionLines(info.types[i], p, info, failed)]
  <1>1. PolicyLines(p, info, failed) = FlattenSeq(each)
    BY DEF PolicyLines
  <1>2. IsSeq(info.types) /\ ToSet(info.types) \subseteq Directions
    BY SeqFacts DEF IsInfo
  <1>3. IsSeq(each) /\ DOMAIN each = DOMAIN info.types
    BY <1>2, Mapped
  <1>4. ASSUME NEW i \in DOMAIN each PROVE IsPiece(each[i], T)
    <2>1. info.types[i] \in Directions
      BY <1>2, <1>3 DEF ToSet
    <2> QED
      BY <1>3, <2>1, DirectionPiece
  <1>5. IsPiece(FlattenSeq(each), T)
    BY <1>3, <1>4, PieceFlatten
  <1>6. T \subseteq Targets(ToSet(lines)) \cup {}
    OBVIOUS
  <1> HIDE DEF each, T
  <1>7. IsPiece(lines \o FlattenSeq(each), {})
    BY <1>5, <1>6, PieceAfter DEF LinesKnown
  <1> QED
    BY <1>1, <1>7

-----------------------------------------------------------------------------
(* Types.                                                                  *)

LEMMA PolicyMapsFacts ==
  ASSUME NEW m \in PolicyMaps, NEW p \in Policies
  PROVE  /\ m[p] \in MaybeSpec(p)
         /\ \A spec \in MaybeSpec(p) : [m EXCEPT ![p] = spec] \in PolicyMaps
  <1>1. m \in [Policies -> UNION {MaybeSpec(q) : q \in Policies}] /\ \A q \in Policies : m[q] \in MaybeSpec(q)
    BY DEF PolicyMaps
  <1>2. ASSUME NEW spec \in MaybeSpec(p) PROVE [m EXCEPT ![p] = spec] \in PolicyMaps
    <2>1. spec \in UNION {MaybeSpec(q) : q \in Policies}
      OBVIOUS
    <2>2. [m EXCEPT ![p] = spec] \in [Policies -> UNION {MaybeSpec(q) : q \in Policies}]
      BY <1>1, <2>1
    <2>3. \A q \in Policies : [m EXCEPT ![p] = spec][q] \in MaybeSpec(q)
      BY <1>1
    <2> QED
      BY <2>2, <2>3 DEF PolicyMaps
  <1> QED
    BY <1>1, <1>2

\* What the last restore enforces is the map without the policies left out.
LEMMA EnforcedFacts ==
  ASSUME policies \in PolicyMaps
  PROVE  Enforced \in PolicyMaps
  <1>1. /\ policies \in [Policies -> UNION {MaybeSpec(q) : q \in Policies}]
        /\ \A q \in Policies : policies[q] \in MaybeSpec(q)
    BY DEF PolicyMaps
  <1>2. \A q \in Policies : None \in MaybeSpec(q)
    BY DEF MaybeSpec
  <1>3. \A q \in Policies : (IF q \in skipped THEN None ELSE policies[q]) \in MaybeSpec(q)
    BY <1>1, <1>2
  <1>4. \A q \in Policies :
          (IF q \in skipped THEN None ELSE policies[q]) \in UNION {MaybeSpec(r) : r \in Policies}
    BY <1>3
  <1> QED
    BY <1>3, <1>4 DEF Enforced, PolicyMaps

LEMMA TypeBegin ==
  ASSUME TypeOK, NEW new \in PolicyMaps, Begin(new)
  PROVE  TypeOK'
  <1>1. failures' \in 0 .. MaxFailures
    BY MaxFailuresAssumption DEF TypeOK, Begin, SaveInto
  <1> QED
    BY <1>1 DEF TypeOK, Begin

LEMMA TypeNext == TypeOK /\ [Next]_vars => TypeOK'
  <1> SUFFICES ASSUME TypeOK, [Next]_vars PROVE TypeOK'
    OBVIOUS
  <1>0. policies \in PolicyMaps
    BY DEF TypeOK
  <1>1. ASSUME NEW p \in Policies, ChangePolicy(p) PROVE TypeOK'
    <2>1. PICK spec \in MaybeSpec(p) : Begin([policies EXCEPT ![p] = spec])
      BY <1>1 DEF ChangePolicy
    <2>2. [policies EXCEPT ![p] = spec] \in PolicyMaps
      BY <1>0, PolicyMapsFacts
    <2> QED
      BY <2>1, <2>2, TypeBegin
  <1>2. CASE Resync
    BY <1>0, <1>2, TypeBegin DEF Resync
  <1>3. ASSUME NEW p \in Policies, SyncPolicy(p) PROVE TypeOK'
    <2>1. p \in todo /\ todo' = todo \ {p}
          /\ UNCHANGED <<options, policies, step, existing, kernel, enforced, narrowed>>
      BY <1>3 DEF SyncPolicy
    <2>2. skipped' \in {skipped, skipped \cup {p}} /\ lost' \in {"nothing", "rules", "sets"}
          /\ (UNCHANGED failures \/ (failures < MaxFailures /\ failures' = failures + 1))
      BY <1>3 DEF SyncPolicy, TypeOK
    <2>3. failures' \in 0 .. MaxFailures
      BY <2>2, MaxFailuresAssumption DEF TypeOK
    <2> QED
      BY <2>1, <2>2, <2>3 DEF TypeOK
  <1>4. CASE RestoreAll
    <2>1. step' = "idle" /\ todo = {} /\ UNCHANGED <<options, policies, existing, todo, skipped, lost>>
      BY <1>4 DEF RestoreAll
    <2>2. /\ kernel' = Restored \/ UNCHANGED kernel
          /\ enforced' \in {None, Enforced}
          /\ narrowed' \in {narrowed, (lost = "rules")}
          /\ failures' = failures \/ (failures < MaxFailures /\ failures' = failures + 1)
      BY <1>4 DEF RestoreAll
    <2>3. EntryChains \subseteq DOMAIN kernel'
      BY <2>2 DEF Restored, TypeOK
    <2>4. enforced' = None \/ enforced' \in PolicyMaps
      BY <1>0, <2>2, EnforcedFacts
    <2>5. failures' \in 0 .. MaxFailures
      BY <2>2, MaxFailuresAssumption DEF TypeOK
    <2>6. narrowed' \in BOOLEAN
      BY <2>2 DEF TypeOK
    <2> QED
      BY <2>1, <2>3, <2>4, <2>5, <2>6 DEF TypeOK
  <1>5. CASE UNCHANGED vars
    BY <1>5 DEF TypeOK, vars
  <1> QED
    BY <1>1, <1>2, <1>3, <1>4, <1>5 DEF Next

LEMMA TypeInit == Init => TypeOK
  <1> SUFFICES ASSUME Init PROVE TypeOK
    OBVIOUS
  <1>1. todo = {} /\ skipped = {} /\ enforced = None /\ step = "idle" /\ lost = "nothing"
        /\ narrowed = FALSE /\ policies \in PolicyMaps /\ options \in OptionSets
    BY DEF Init
  <1>2. EntryChains \subseteq DOMAIN kernel
    BY DEF Init
  <1>3. failures \in 0 .. MaxFailures
    BY MaxFailuresAssumption DEF Init
  <1> QED
    BY <1>1, <1>2, <1>3 DEF TypeOK

\* Every variable keeps its type: what is visited is in networkPolicyMap, what is
\* enforced is a map of policies, and the entry chains are never deleted.
THEOREM TypeCorrect == Spec => []TypeOK
  BY TypeInit, TypeNext, PTL DEF Spec

-----------------------------------------------------------------------------
(* The chains in the kernel.  After a restore they are the entry chains,    *)
(* another program's, and those of the buffer, if the old ones could be     *)
(* listed; otherwise the old ones stay, and what they jump to as well.      *)

JumpsOf(k) == {r.target : r \in UNION {ToSet(k[c]) : c \in DOMAIN k}}
JumpedTo == JumpsOf(kernel)
ChainsInv ==
  /\ \A c \in DOMAIN kernel : c \in EntryChains \cup {KubeForward} \/ IsOwn(c)
  /\ EntryChains \cup {KubeForward} \subseteq DOMAIN kernel
  /\ kernel[KubeForward] = <<>>
  /\ JumpedTo \subseteq DOMAIN kernel \cup {Accept, Reject}
  /\ Settled /\ existing # {} => DOMAIN kernel \subseteq EntryChains \cup {KubeForward} \cup JumpedTo
  /\ step = "rules" => existing \in {{}, DOMAIN kernel} /\ LinesKnown

LEMMA JumpFacts ==
  ASSUME NEW k
  PROVE  \A t : t \in JumpsOf(k) <=> \E c \in DOMAIN k : \E r \in ToSet(k[c]) : t = r.target
  BY DEF JumpsOf

\* The -A lines of a chain are all in it and no others are.
LEMMA AppendedFacts ==
  ASSUME IsSeq(lines), NEW c
  PROVE  /\ IsSeq(Appended(c))
         /\ \A r : r \in ToSet(Appended(c)) <=> \E l \in ToSet(lines) : l.chain = c /\ l.rule = r
  <1> DEFINE each == [i \in DOMAIN lines |-> IF lines[i].chain = c THEN <<lines[i].rule>> ELSE <<>>]
  <1>1. Appended(c) = FlattenSeq(each)
    BY DEF Appended
  <1>2. IsSeq(each) /\ DOMAIN each = DOMAIN lines
    BY Mapped
  <1>3. ASSUME NEW i \in DOMAIN lines
        PROVE  /\ IsSeq(each[i])
               /\ \A r : r \in ToSet(each[i]) <=> lines[i].chain = c /\ lines[i].rule = r
    <2>1. CASE lines[i].chain = c
      <3>1. each[i] = <<lines[i].rule>>
        BY <2>1
      <3>2. IsSeq(<<lines[i].rule>>) /\ ToSet(<<lines[i].rule>>) = {lines[i].rule}
        BY One
      <3> QED
        BY <2>1, <3>1, <3>2
    <2>2. CASE lines[i].chain # c
      <3>1. each[i] = <<>>
        BY <2>2
      <3> QED
        BY <2>2, <3>1, Empty
    <2> QED
      BY <2>1, <2>2
  <1> HIDE DEF each
  <1>4. /\ IsSeq(Appended(c))
        /\ \A r : r \in ToSet(Appended(c)) <=> \E i \in DOMAIN each : r \in ToSet(each[i])
    BY <1>1, <1>2, <1>3, Flatten
  <1>5. \A r : (\E i \in DOMAIN lines : lines[i].chain = c /\ lines[i].rule = r) <=>
               \E l \in ToSet(lines) : l.chain = c /\ l.rule = r
    BY DEF ToSet
  <1> QED
    BY <1>2, <1>3, <1>4, <1>5

\* With the rules that every ENN-PLY chain has.
LEMMA ChainRulesFacts ==
  ASSUME IsSeq(lines), NEW c
  PROVE  /\ \A r \in ToSet(ChainRules(c)) :
              r.target \in {Accept, Reject} \/ \E l \in ToSet(lines) : l.chain = c /\ l.rule = r
         /\ \A l \in ToSet(lines) : l.chain = c => l.rule \in ToSet(ChainRules(c))
  <1>1. /\ IsSeq(Appended(c))
        /\ \A r : r \in ToSet(Appended(c)) <=> \E l \in ToSet(lines) : l.chain = c /\ l.rule = r
    BY AppendedFacts
  <1>2. Established.target = Accept /\ DefaultReject.target = Reject
    BY DEF Established, DefaultReject
  <1>3. CASE c[1] \in {"ENN-PLY-IN", "ENN-PLY-E"}
    <2>1. ChainRules(c) = (<<Established>> \o Appended(c)) \o <<DefaultReject>>
      BY <1>3 DEF ChainRules
    <2>2. IsSeq(<<Established>> \o Appended(c))
          /\ ToSet(<<Established>> \o Appended(c)) = {Established} \cup ToSet(Appended(c))
      BY <1>1, One, Concat
    <2>3. IsSeq(<<DefaultReject>>) /\ ToSet(<<DefaultReject>>) = {DefaultReject}
      BY One
    <2> DEFINE first == <<Established>> \o Appended(c)
    <2> DEFINE last == <<DefaultReject>>
    <2>4. ToSet(first \o last) = ToSet(first) \cup ToSet(last)
      <3>1. IsSeq(first) /\ IsSeq(last)
        BY <2>2, <2>3
      <3> HIDE DEF first, last
      <3> QED
        BY <3>1, Concat
    <2>5. ToSet(ChainRules(c)) = ({Established} \cup ToSet(Appended(c))) \cup {DefaultReject}
      BY <2>1, <2>2, <2>3, <2>4
    <2> QED
      BY <1>1, <1>2, <2>5
  <1>4. CASE c[1] \notin {"ENN-PLY-IN", "ENN-PLY-E"}
    <2>1. ChainRules(c) = Appended(c)
      BY <1>4 DEF ChainRules
    <2> QED
      BY <1>1, <2>1
  <1> QED
    BY <1>3, <1>4

\* activeFilterChains: chains of ours only, each with a jump to it, and all that the
\* buffer writes into or jumps to.
LEMMA ActiveFacts ==
  ASSUME LinesKnown
  PROVE  /\ \A c \in Active(lines) : IsOwn(c) /\ \E l \in ToSet(lines) : l.rule.target = c
         /\ \A l \in ToSet(lines) : /\ l.chain \in EntryChains \cup Active(lines)
                                    /\ l.rule.target \in Active(lines) \cup {Accept, Reject}
  <1> DEFINE L == ToSet(lines)
  <1>1. \A c : c \in Active(lines) <=> /\ \E l \in L : c \in {l.chain, l.rule.target}
                                       /\ c \notin EntryChains \cup {Accept, Reject}
    BY DEF Active, ToSet
  <1>2. ASSUME NEW l \in L
        PROVE  /\ l.chain \in EntryChains \/ (IsOwn(l.chain) /\ \E k \in L : k.rule.target = l.chain)
               /\ l.rule.target \in {Accept, Reject} \/ IsOwn(l.rule.target)
    BY DEF LinesKnown, IsPiece, Complete, Shaped, Targets
  <1>3. \A c : IsOwn(c) => c \notin EntryChains \cup {Accept, Reject}
    <2>1. ASSUME NEW c \in EntryChains \cup {Accept, Reject} PROVE ~IsOwn(c)
      <3>1. c[1] \in {"ENN-INPUT", "ENN-OUTPUT", "ENN-FORWARD", "ACCEPT", "REJECT"}
        BY DEF EntryChains, Accept, Reject
      <3> QED
        BY <3>1 DEF IsOwn, OwnPrefixes
    <2> QED
      BY <2>1
  <1> HIDE DEF L
  <1>4. \A c \in Active(lines) : IsOwn(c) /\ \E l \in L : l.rule.target = c
    BY <1>1, <1>2
  <1>5. \A l \in L : /\ l.chain \in EntryChains \cup Active(lines)
                     /\ l.rule.target \in Active(lines) \cup {Accept, Reject}
    BY <1>1, <1>2, <1>3
  <1> QED
    BY <1>4, <1>5 DEF L

\* What a restore makes of the chains that were listed: none of ours stays that
\* the buffer does not write, and the others keep their rules.
LEMMA RestoredFacts ==
  ASSUME ChainsInv, LinesKnown
  PROVE  /\ DOMAIN Restored = (DOMAIN kernel \ Unused) \cup EntryChains \cup Active(lines)
         /\ \A c \in EntryChains \cup Active(lines) : Restored[c] = ChainRules(c)
         /\ \A c \in DOMAIN Restored \ (EntryChains \cup Active(lines)) :
              c \in DOMAIN kernel \ Unused /\ Restored[c] = kernel[c]
         /\ ~IsOwn(KubeForward) /\ KubeForward \notin EntryChains \cup Active(lines)
         /\ existing = {} => Unused = {}
         /\ existing = DOMAIN kernel =>
              \A c \in DOMAIN kernel \ Unused : c \in EntryChains \cup {KubeForward} \cup Active(lines)
  <1>1. /\ DOMAIN Restored = (DOMAIN kernel \ Unused) \cup EntryChains \cup Active(lines)
        /\ \A c \in EntryChains \cup Active(lines) : Restored[c] = ChainRules(c)
        /\ \A c \in DOMAIN Restored \ (EntryChains \cup Active(lines)) :
             c \in DOMAIN kernel \ Unused /\ Restored[c] = kernel[c]
    BY DEF Restored
  <1>2. ~IsOwn(KubeForward) /\ KubeForward \notin EntryChains
    BY DEF IsOwn, OwnPrefixes, KubeForward, EntryChains
  <1>3. KubeForward \notin Active(lines)
    BY <1>2, ActiveFacts
  <1>4. existing = {} => Unused = {}
    BY DEF Unused
  <1>5. ASSUME existing = DOMAIN kernel, NEW c \in DOMAIN kernel \ Unused
        PROVE  c \in EntryChains \cup {KubeForward} \cup Active(lines)
    <2>1. c \in EntryChains \cup {KubeForward} \/ IsOwn(c)
      BY DEF ChainsInv
    <2>2. IsOwn(c) => c \in Active(lines)
      BY <1>5 DEF Unused, IsOwn
    <2> QED
      BY <2>1, <2>2
  <1> QED
    BY <1>1, <1>2, <1>3, <1>4, <1>5

\* A restore leaves no jump without its chain, whether or not the old chains were
\* listed: the rules that stay are those of chains that stay.
LEMMA RestoredJumps ==
  ASSUME ChainsInv, LinesKnown, existing \in {{}, DOMAIN kernel}
  PROVE  JumpsOf(Restored) \subseteq DOMAIN Restored \cup {Accept, Reject}
  <1> SUFFICES ASSUME NEW t \in JumpsOf(Restored)
               PROVE  t \in DOMAIN Restored \cup {Accept, Reject}
    OBVIOUS
  <1>1. PICK c \in DOMAIN Restored : \E r \in ToSet(Restored[c]) : t = r.target
    BY JumpFacts
  <1>2. PICK r \in ToSet(Restored[c]) : t = r.target
    BY <1>1
  <1>3. CASE c \in EntryChains \cup Active(lines)
    <2>1. r \in ToSet(ChainRules(c))
      BY <1>2, <1>3, RestoredFacts
    <2>2. IsSeq(lines)
      BY DEF LinesKnown, IsPiece
    <2>3. r.target \in {Accept, Reject} \/ \E l \in ToSet(lines) : l.rule = r
      BY <2>1, <2>2, ChainRulesFacts
    <2>4. r.target \in {Accept, Reject} \cup Active(lines)
      BY <2>3, ActiveFacts
    <2> QED
      BY <1>2, <2>4, RestoredFacts
  <1>4. CASE c \notin EntryChains \cup Active(lines)
    <2>1. c \in DOMAIN kernel \ Unused /\ r \in ToSet(kernel[c])
      BY <1>1, <1>2, <1>4, RestoredFacts
    <2>2. CASE existing = {}
      <3>1. t \in JumpedTo
        BY <1>2, <2>1, JumpFacts DEF JumpedTo
      <3>2. t \in DOMAIN kernel \cup {Accept, Reject}
        BY <3>1 DEF ChainsInv
      <3> QED
        BY <2>2, <3>2, RestoredFacts
    <2>3. CASE existing = DOMAIN kernel
      <3>1. c = KubeForward
        BY <1>4, <2>1, <2>3, RestoredFacts
      <3>2. kernel[c] = <<>>
        BY <3>1 DEF ChainsInv
      <3> QED
        BY <2>1, <3>2, Empty
    <2> QED
      BY <2>2, <2>3
  <1> QED
    BY <1>3, <1>4

\* Of a listing, a restore leaves the chains that something jumps to.
LEMMA RestoredDomain ==
  ASSUME ChainsInv, LinesKnown, existing = DOMAIN kernel
  PROVE  DOMAIN Restored \subseteq EntryChains \cup {KubeForward} \cup JumpsOf(Restored)
  <1> SUFFICES ASSUME NEW c \in DOMAIN Restored
               PROVE  c \in EntryChains \cup {KubeForward} \cup JumpsOf(Restored)
    OBVIOUS
  <1>1. c \in EntryChains \cup {KubeForward} \cup Active(lines)
    BY RestoredFacts
  <1>2. ASSUME c \in Active(lines) PROVE c \in JumpsOf(Restored)
    <2>1. PICK l \in ToSet(lines) : l.rule.target = c
      BY <1>2, ActiveFacts
    <2>2. l.chain \in EntryChains \cup Active(lines)
      BY ActiveFacts
    <2>3. l.chain \in DOMAIN Restored /\ Restored[l.chain] = ChainRules(l.chain)
      BY <2>2, RestoredFacts
    <2>4. IsSeq(lines)
      BY DEF LinesKnown, IsPiece
    <2>5. l.rule \in ToSet(Restored[l.chain])
      BY <2>3, <2>4, ChainRulesFacts
    <2> QED
      BY <2>1, <2>3, <2>5, JumpFacts
  <1> QED
    BY <1>1, <1>2

LEMMA ChainsInit == Init => ChainsInv
  <1> SUFFICES ASSUME Init PROVE ChainsInv
    OBVIOUS
  <1>1. kernel = [c \in EntryChains \cup {KubeForward} |-> <<>>]
    BY DEF Init
  <1>2. DOMAIN kernel = EntryChains \cup {KubeForward} /\ \A c \in DOMAIN kernel : kernel[c] = <<>>
    BY <1>1
  <1>3. JumpedTo = {}
    BY <1>2, Empty, JumpFacts DEF JumpedTo
  <1>4. step = "idle"
    BY DEF Init
  <1> QED
    BY <1>2, <1>3, <1>4 DEF ChainsInv

LEMMA ChainsBegin ==
  ASSUME ChainsInv, NEW new, Begin(new)
  PROVE  ChainsInv'
  <1>1. step' = "rules" /\ lines' = <<>> /\ kernel' = kernel /\ existing' \in {{}, DOMAIN kernel}
    BY DEF Begin, SaveInto
  <1>2. LinesKnown'
    BY <1>1, PieceEmpty DEF LinesKnown
  <1> QED
    BY <1>1, <1>2 DEF ChainsInv, Settled, JumpedTo

LEMMA ChainsNext == TypeOK /\ ChainsInv /\ [Next]_vars => ChainsInv'
  <1> SUFFICES ASSUME TypeOK, ChainsInv, [Next]_vars PROVE ChainsInv'
    OBVIOUS
  <1>1. ASSUME NEW p \in Policies, ChangePolicy(p) PROVE ChainsInv'
    BY <1>1, ChainsBegin DEF ChangePolicy
  <1>2. CASE Resync
    BY <1>2, ChainsBegin DEF Resync
  <1>3. ASSUME NEW p \in Policies, SyncPolicy(p) PROVE ChainsInv'
    <2>1. p \in todo /\ UNCHANGED <<step, existing, kernel>>
      BY <1>3 DEF SyncPolicy
    <2>2. step = "rules" /\ policies[p] # None /\ policies \in PolicyMaps
      BY <2>1 DEF TypeOK
    <2>3. policies[p] \in Specs[p]
      BY <2>2, PolicyMapsFacts DEF MaybeSpec
    <2> DEFINE info == NetworkPolicyInfo(policies[p])
    <2>4. IsInfo(info)
      BY <2>3, InfoFacts
    <2>5. lines' = lines \/ \E failed : lines' = lines \o PolicyLines(p, info, failed)
      BY <1>3 DEF SyncPolicy
    <2>6. LinesKnown
      BY <2>2 DEF ChainsInv
    <2> HIDE DEF info
    <2>7. IsPiece(lines', {})
      BY <2>4, <2>5, <2>6, LinesGrow DEF LinesKnown
    <2> QED
      BY <2>1, <2>2, <2>7 DEF ChainsInv, LinesKnown, Settled, JumpedTo
  <1>4. CASE RestoreAll
    <2>1. step = "rules" /\ step' = "idle" /\ existing' = existing
      BY <1>4 DEF RestoreAll
    <2>2. existing \in {{}, DOMAIN kernel} /\ LinesKnown
      BY <2>1 DEF ChainsInv
    <2>3. CASE kernel' = Restored
      <3>1. \A c \in DOMAIN kernel' : c \in EntryChains \cup {KubeForward} \/ IsOwn(c)
        BY <2>2, <2>3, RestoredFacts, ActiveFacts DEF ChainsInv
      <3>2. EntryChains \cup {KubeForward} \subseteq DOMAIN kernel' /\ kernel'[KubeForward] = <<>>
        <4>1. KubeForward \in DOMAIN kernel \ Unused /\ kernel[KubeForward] = <<>>
          BY <2>2, RestoredFacts DEF ChainsInv, Unused, IsOwn
        <4> QED
          BY <2>2, <2>3, <4>1, RestoredFacts
      <3>3. JumpsOf(kernel') \subseteq DOMAIN kernel' \cup {Accept, Reject}
        BY <2>2, <2>3, RestoredJumps
      <3>4. existing' # {} => DOMAIN kernel' \subseteq EntryChains \cup {KubeForward} \cup JumpsOf(kernel')
        BY <2>1, <2>2, <2>3, RestoredDomain
      <3> QED
        BY <2>1, <3>1, <3>2, <3>3, <3>4 DEF ChainsInv, JumpedTo
    <2>4. CASE kernel' = kernel /\ enforced' = None
      BY <2>1, <2>4 DEF ChainsInv, Settled, JumpedTo
    <2> QED
      BY <1>4, <2>3, <2>4 DEF RestoreAll
  <1>5. CASE UNCHANGED vars
    BY <1>5 DEF vars, ChainsInv, LinesKnown, Settled, JumpedTo
  <1> QED
    BY <1>1, <1>2, <1>3, <1>4, <1>5 DEF Next

LEMMA ChainsInvExact == ChainsInv => ChainsExact
  BY DEF ChainsInv, ChainsExact, JumpedTo, JumpsOf

\* No rule jumps to a chain that is not there, KUBE-FORWARD is never deleted, and
\* after a synchronization that listed the chains none of ours is left over.
THEOREM ChainsExactHolds == Spec => []ChainsExact
  BY TypeInit, TypeNext, ChainsInit, ChainsNext, ChainsInvExact, PTL DEF Spec

=============================================================================
