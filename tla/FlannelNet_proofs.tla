------------------------- MODULE FlannelNet_proofs -------------------------
(***************************************************************************)
(* Theorems about FlannelNet: IpOperateAdd adds to the number that an      *)
(* address is, for every address, byte and step; and the walk over the     *)
(* networks of the nodes meets each of them, for every network that ends   *)
(* within the addresses.                                                   *)
(***************************************************************************)
EXTENDS FlannelNet, Induction_proofs, TLAPS

(* Powers.                                                                 *)

LEMMA PowerFacts ==
  /\ Power2[0] = 1
  /\ \A n \in Nat : Power2[n] \in Nat /\ Power2[n] >= 1 /\ Power2[n + 1] = 2 * Power2[n]
  <1> DEFINE Step == [x \in Nat |-> x * 2]
  <1> HIDE DEF Step
  <1>0. PICK f : Follows(f, 1, Step)
    BY Recursion
  <1>1. f = [n \in Nat |-> IF n = 0 THEN 1 ELSE Step[f[n - 1]]]
    BY <1>0 DEF Follows
  <1> USE DEF Step
  <1> DEFINE T == {n \in Nat : f[n] \in Nat}
  <1>2. 0 \in T
    BY <1>1
  <1>3. ASSUME NEW n \in Nat, n \in T PROVE n + 1 \in T
    <2>1. f[n + 1] = Step[f[n]]
      BY <1>1
    <2> QED
      BY <1>3, <2>1
  <1>4. \A n \in Nat : f[n] \in Nat
    <2> HIDE DEF T
    <2>1. Nat \subseteq T
      BY <1>2, <1>3, Induction
    <2> QED
      BY <2>1 DEF T
  <1>5. ASSUME NEW n \in Nat PROVE f[n] = IF n = 0 THEN 1 ELSE f[n - 1] * 2
    <2>1. n # 0 => n - 1 \in Nat
      OBVIOUS
    <2> QED
      BY <1>1, <1>4, <2>1
  <1>6. f = [n \in Nat |-> IF n = 0 THEN 1 ELSE f[n - 1] * 2]
    BY <1>1, <1>5
  <1>7. Power2 = [n \in Nat |-> IF n = 0 THEN 1 ELSE Power2[n - 1] * 2]
    BY <1>6 DEF Power2
  <1> HIDE DEF T
  <1>8. Power2[0] = 1
    BY <1>7
  <1>9. \A n \in Nat : Power2[n + 1] = Power2[n] * 2
    BY <1>7
  <1> DEFINE U == {n \in Nat : Power2[n] \in Nat /\ Power2[n] >= 1}
  <1>10. 0 \in U
    BY <1>8
  <1>11. \A n \in Nat : n \in U => n + 1 \in U
    BY <1>9
  <1>12. Nat \subseteq U
    <2> HIDE DEF U
    <2> QED
      BY <1>10, <1>11, Induction
  <1> QED
    BY <1>8, <1>9, <1>12

LEMMA PowerSum ==
  ASSUME NEW m \in Nat, NEW n \in Nat
  PROVE  Power2[m + n] = Power2[m] * Power2[n]
  <1> DEFINE T == {k \in Nat : Power2[m + k] = Power2[m] * Power2[k]}
  <1>1. 0 \in T
    BY PowerFacts
  <1>2. ASSUME NEW k \in Nat, k \in T PROVE k + 1 \in T
    <2>1. Power2[m + (k + 1)] = 2 * Power2[m + k]
      <3>1. m + k \in Nat /\ m + (k + 1) = (m + k) + 1
        OBVIOUS
      <3> QED
        BY <3>1, PowerFacts
    <2>2. Power2[k + 1] = 2 * Power2[k]
      BY PowerFacts
    <2>3. \A a, b \in Nat : 2 * (a * b) = a * (2 * b)
      OBVIOUS
    <2>4. Power2[m] \in Nat /\ Power2[k] \in Nat
      BY PowerFacts
    <2> QED
      BY <1>2, <2>1, <2>2, <2>3, <2>4
  <1>3. Nat \subseteq T
    <2> HIDE DEF T
    <2> QED
      BY <1>1, <1>2, Induction
  <1> QED
    BY <1>3

LEMMA PowersOfBytes ==
  Power2[8] = 256 /\ Power2[16] = 256 * 256 /\ Power2[24] = 256 * (256 * 256)
  <1>1. ASSUME NEW m \in Nat, NEW n \in Nat, NEW k, k = m + n
        PROVE  Power2[k] = Power2[m] * Power2[n]
    BY <1>1, PowerSum
  <1>2. Power2[1] = 2
    <2>1. Power2[0 + 1] = 2 * Power2[0] /\ Power2[0] = 1
      BY PowerFacts
    <2>2. 0 + 1 = 1
      OBVIOUS
    <2> QED
      BY <2>1, <2>2
  <1>3. Power2[2] = Power2[1] * Power2[1]
    BY <1>1
  <1>4. Power2[4] = Power2[2] * Power2[2]
    BY <1>1
  <1>5. Power2[8] = Power2[4] * Power2[4]
    BY <1>1
  <1>6. Power2[16] = Power2[8] * Power2[8]
    BY <1>1
  <1>7. Power2[24] = Power2[8] * Power2[16]
    BY <1>1
  <1> QED
    BY <1>2, <1>3, <1>4, <1>5, <1>6, <1>7

-----------------------------------------------------------------------------
(* Addresses as numbers.                                                   *)

Value(ip) == ip[0] + 256 * (ip[1] + 256 * (ip[2] + 256 * ip[3]))
AllIPs == 256 * (256 * (256 * 256))

IsByte(x) == x \in Nat /\ x < 256

LEMMA Bytes == \A x : x \in Byte <=> IsByte(x)
  BY DEF Byte, IsByte

\* A number has one last digit and one rest.
LEMMA OneDigit ==
  ASSUME NEW a, IsByte(a), NEW b, IsByte(b), NEW x \in Nat, NEW y \in Nat,
         a + 256 * x = b + 256 * y
  PROVE  a = b /\ x = y
  BY SMT DEF IsByte

LEMMA IPFacts ==
  ASSUME NEW ip \in IPs
  PROVE  /\ IsByte(ip[0]) /\ IsByte(ip[1]) /\ IsByte(ip[2]) /\ IsByte(ip[3])
         /\ ip # Invalid
         /\ Value(ip) \in Nat /\ Value(ip) < AllIPs
  <1>1. \A i \in 0 .. 3 : ip[i] \in Byte
    BY DEF IPs
  <1>2. IsByte(ip[0]) /\ IsByte(ip[1]) /\ IsByte(ip[2]) /\ IsByte(ip[3])
    BY <1>1, Bytes
  <1>3. ip # Invalid
    <2>1. DOMAIN ip = 0 .. 3 /\ DOMAIN <<>> = {}
      BY DEF IPs
    <2>2. 0 \in 0 .. 3
      OBVIOUS
    <2> QED
      BY <2>1, <2>2 DEF Invalid
  <1>4. Value(ip) \in Nat /\ Value(ip) < AllIPs
    BY <1>2, SMT DEF Value, AllIPs, IsByte
  <1> QED
    BY <1>2, <1>3, <1>4

LEMMA SameValue ==
  ASSUME NEW ip \in IPs, NEW jp \in IPs, Value(ip) = Value(jp)
  PROVE  ip = jp
  <1> DEFINE x == ip[2] + 256 * ip[3]
             y == jp[2] + 256 * jp[3]
  <1>1. /\ IsByte(ip[0]) /\ IsByte(ip[1]) /\ IsByte(ip[2]) /\ IsByte(ip[3])
        /\ IsByte(jp[0]) /\ IsByte(jp[1]) /\ IsByte(jp[2]) /\ IsByte(jp[3])
    BY IPFacts
  <1>2. /\ ip[1] \in Nat /\ jp[1] \in Nat /\ ip[2] \in Nat /\ jp[2] \in Nat
        /\ ip[3] \in Nat /\ jp[3] \in Nat
        /\ x \in Nat /\ y \in Nat
    BY <1>1, SMT DEF IsByte
  <1>3. ip[0] + 256 * (ip[1] + 256 * x) = jp[0] + 256 * (jp[1] + 256 * y)
    BY DEF Value
  <1> HIDE DEF x, y
  <1>4. ip[1] + 256 * x \in Nat /\ jp[1] + 256 * y \in Nat
    BY <1>2, SMT
  <1>5. ip[0] = jp[0] /\ ip[1] + 256 * x = jp[1] + 256 * y
    BY <1>1, <1>3, <1>4, OneDigit
  <1>6. ip[1] = jp[1] /\ x = y
    BY <1>1, <1>2, <1>5, OneDigit
  <1>7. ip[2] = jp[2] /\ ip[3] = jp[3]
    BY <1>1, <1>2, <1>6, OneDigit DEF x, y
  <1>8. \A i \in 0 .. 3 : ip[i] = jp[i]
    BY <1>5, <1>6, <1>7
  <1> QED
    BY <1>8 DEF IPs

\* The weight of a byte.
Weight(item) == CASE item = 0 -> 1 [] item = 1 -> 256 [] item = 2 -> 256 * 256
                  [] item = 3 -> 256 * (256 * 256)

\* One byte with what is added to it, and the carry.
Over(x, carry)  == IF x + carry >= 256 THEN 1 ELSE 0
Added(x, carry) == IF x + carry >= 256 THEN x + carry - 256 ELSE x + carry

LEMMA OneByte ==
  ASSUME NEW x, IsByte(x), NEW carry, IsByte(carry)
  PROVE  /\ Over(x, carry) \in {0, 1} /\ IsByte(Over(x, carry)) /\ IsByte(Added(x, carry))
         /\ x + carry = Added(x, carry) + 256 * Over(x, carry)
  BY SMT DEF Over, Added, IsByte

\* A sum, one byte at a time: with a carry, or above the byte.
Carries(a, carry, p, over) ==
  a \in Nat /\ carry \in Nat /\ p \in Nat /\ over \in Nat /\ a + carry = p + 256 * over
Adds(x, more, y, m) ==
  x \in Nat /\ more \in Nat /\ y \in Nat /\ m \in Nat /\ x + more = y + m

LEMMA AddDigit ==
  \A a, carry, p, over, x, y, m :
    Carries(a, carry, p, over) /\ Adds(x, over, y, m) =>
      Adds(a + 256 * x, carry, p + 256 * y, 256 * m)
  BY SMT DEF Carries, Adds

LEMMA AddAbove ==
  ASSUME NEW a \in Nat, NEW x \in Nat, NEW s \in Nat, NEW y \in Nat, NEW m \in Nat,
         x + s = y + m
  PROVE  (a + 256 * x) + 256 * s = (a + 256 * y) + 256 * m
  BY SMT

LEMMA Weights ==
  ASSUME NEW s \in Nat
  PROVE  /\ s * 256 = 256 * s /\ s * (256 * 256) = 256 * (256 * s)
         /\ s * (256 * (256 * 256)) = 256 * (256 * (256 * s))
         /\ s * (256 * (256 * (256 * 256))) = 256 * (256 * (256 * (256 * s)))
  BY SMT

\* tool.go: IpOperateAdd adds to the number that an address is, in the byte that it
\* is told, and fails exactly when the sum is no address.
THEOREM AddExact ==
  ASSUME NEW ip \in IPs, NEW item \in 0 .. 3, NEW step \in Byte
  PROVE  LET sum == Value(ip) + step * Weight(item)
         IN  IF sum < AllIPs
             THEN IpOperateAdd(ip, item, step) \in IPs /\ Value(IpOperateAdd(ip, item, step)) = sum
             ELSE IpOperateAdd(ip, item, step) = Invalid
  <1> DEFINE c0 == IF item = 0 THEN step ELSE 0
             c1 == IF item = 1 THEN step ELSE IF item < 1 THEN Over(ip[0], c0) ELSE 0
             c2 == IF item = 2 THEN step ELSE IF item < 2 THEN Over(ip[1], c1) ELSE 0
             c3 == IF item = 3 THEN step ELSE IF item < 3 THEN Over(ip[2], c2) ELSE 0
             last == Over(ip[3], c3)
             r == [i \in 0 .. 3 |-> CASE i = 0 -> Added(ip[0], c0) [] i = 1 -> Added(ip[1], c1)
                                      [] i = 2 -> Added(ip[2], c2) [] i = 3 -> Added(ip[3], c3)]
  <1>1. IpOperateAdd(ip, item, step) = IF last = 1 THEN Invalid ELSE r
    BY SMT DEF IpOperateAdd, Over, Added
  <1>2. IsByte(ip[0]) /\ IsByte(ip[1]) /\ IsByte(ip[2]) /\ IsByte(ip[3]) /\ IsByte(step) /\ IsByte(0)
    BY IPFacts, Bytes DEF IsByte
  <1> HIDE DEF c0, c1, c2, c3, last
  <1>3. /\ r[0] = Added(ip[0], c0) /\ r[1] = Added(ip[1], c1)
        /\ r[2] = Added(ip[2], c2) /\ r[3] = Added(ip[3], c3)
    BY SMT
  <1>4. IsByte(c0)
    BY <1>2 DEF c0
  <1>5. IsByte(c1)
    BY <1>2, <1>4, OneByte DEF c1
  <1>6. IsByte(c2)
    BY <1>2, <1>5, OneByte DEF c2
  <1>7. IsByte(c3)
    BY <1>2, <1>6, OneByte DEF c3
  <1>8. r \in IPs
    <2>1. \A i \in 0 .. 3 : r[i] \in Byte
      <3>1. r[0] \in Byte /\ r[1] \in Byte /\ r[2] \in Byte /\ r[3] \in Byte
        BY <1>2, <1>3, <1>4, <1>5, <1>6, <1>7, OneByte, Bytes
      <3> HIDE DEF r
      <3> QED
        BY <3>1
    <2> QED
      BY <2>1 DEF IPs
  <1> HIDE DEF r
  <1> DEFINE o0 == Over(ip[0], c0)
             o1 == Over(ip[1], c1)
             o2 == Over(ip[2], c2)
  <1>9. /\ ip[0] + c0 = r[0] + 256 * o0 /\ ip[1] + c1 = r[1] + 256 * o1
        /\ ip[2] + c2 = r[2] + 256 * o2 /\ ip[3] + c3 = r[3] + 256 * last
        /\ o0 \in Nat /\ o1 \in Nat /\ o2 \in Nat /\ last \in {0, 1}
    BY <1>2, <1>3, <1>4, <1>5, <1>6, <1>7, OneByte DEF last
  <1>10. Value(ip) + step * Weight(item) = Value(r) + last * AllIPs
    <2>1. /\ ip[0] \in Nat /\ ip[1] \in Nat /\ ip[2] \in Nat /\ ip[3] \in Nat /\ step \in Nat
          /\ r[0] \in Nat /\ r[1] \in Nat /\ r[2] \in Nat /\ r[3] \in Nat /\ last \in Nat
      BY <1>2, <1>8, <1>9, IPFacts DEF IsByte
    <2> DEFINE i2 == ip[2] + 256 * ip[3]
               i1 == ip[1] + 256 * i2
               r2 == r[2] + 256 * r[3]
               r1 == r[1] + 256 * r2
               m3 == 256 * last
               m2 == 256 * m3
               m1 == 256 * m2
    <2>2. /\ i2 \in Nat /\ i1 \in Nat /\ r2 \in Nat /\ r1 \in Nat
          /\ m3 \in Nat /\ m2 \in Nat /\ m1 \in Nat
      BY <2>1
    <2>3. Value(ip) = ip[0] + 256 * i1 /\ Value(r) = r[0] + 256 * r1 /\ last * AllIPs = 256 * m1
      BY <2>1, Weights DEF Value, AllIPs
    <2>4. /\ ip[0] + c0 = r[0] + 256 * o0 /\ ip[1] + c1 = r[1] + 256 * o1
          /\ ip[2] + c2 = r[2] + 256 * o2 /\ ip[3] + c3 = r[3] + m3
          /\ o0 \in Nat /\ o1 \in Nat /\ o2 \in Nat
      BY <1>9
    <2>5. c0 \in Nat /\ c1 \in Nat /\ c2 \in Nat /\ c3 \in Nat
      BY <1>4, <1>5, <1>6, <1>7 DEF IsByte
    <2>6. o2 = c3 => i2 + c2 = r2 + m2
      <3> SUFFICES ASSUME o2 = c3 PROVE i2 + c2 = r2 + m2
        OBVIOUS
      <3> HIDE DEF o2, m3
      <3>1. Carries(ip[2], c2, r[2], o2) /\ Adds(ip[3], o2, r[3], m3)
        BY <2>1, <2>2, <2>4, <2>5 DEF Carries, Adds
      <3>2. Adds(ip[2] + 256 * ip[3], c2, r[2] + 256 * r[3], 256 * m3)
        BY <3>1, AddDigit
      <3> QED
        BY <3>2 DEF Adds
    <2>7. item = 0 => c0 = step /\ c1 = o0 /\ c2 = o1 /\ c3 = o2 /\ Weight(item) = 1
      BY DEF c0, c1, c2, c3, Weight
    <2>8. item = 1 => c0 = 0 /\ c1 = step /\ c2 = o1 /\ c3 = o2 /\ Weight(item) = 256 /\ o0 = 0
      BY <1>2 DEF c0, c1, c2, c3, Weight, Over, IsByte
    <2>9. item = 2 => c0 = 0 /\ c1 = 0 /\ c2 = step /\ c3 = o2 /\ Weight(item) = 256 * 256
                      /\ o0 = 0 /\ o1 = 0
      BY <1>2 DEF c0, c1, c2, c3, Weight, Over, IsByte
    <2>10. item = 3 => c0 = 0 /\ c1 = 0 /\ c2 = 0 /\ c3 = step
                       /\ Weight(item) = 256 * (256 * 256) /\ o0 = 0 /\ o1 = 0 /\ o2 = 0
      BY <1>2 DEF c0, c1, c2, c3, Weight, Over, IsByte
    <2> HIDE DEF o0, o1, o2, i1, i2, r1, r2, m1, m2, m3
    <2>11. o1 = c2 /\ o2 = c3 => i1 + c1 = r1 + m1
      <3> SUFFICES ASSUME o1 = c2, o2 = c3 PROVE i1 + c1 = r1 + m1
        OBVIOUS
      <3>1. Carries(ip[1], c1, r[1], o1) /\ Adds(i2, o1, r2, m2)
        BY <2>1, <2>2, <2>4, <2>5, <2>6 DEF Carries, Adds
      <3>2. Adds(ip[1] + 256 * i2, c1, r[1] + 256 * r2, 256 * m2)
        BY <3>1, AddDigit
      <3> QED
        BY <3>2 DEF Adds, i1, r1, m1
    <2>12. CASE item = 0
      <3>1. (ip[0] + 256 * i1) + c0 = (r[0] + 256 * r1) + 256 * m1
        <4>1. Adds(i1, o0, r1, m1)
          BY <2>2, <2>4, <2>7, <2>11, <2>12 DEF Adds
        <4>2. Carries(ip[0], c0, r[0], o0)
          BY <2>1, <2>4, <2>5 DEF Carries
        <4>3. Adds(ip[0] + 256 * i1, c0, r[0] + 256 * r1, 256 * m1)
          BY <4>1, <4>2, AddDigit
        <4> QED
          BY <4>3 DEF Adds
      <3>2. step * Weight(item) = c0
        BY <2>1, <2>7, <2>12
      <3> QED
        BY <2>3, <3>1, <3>2
    <2>13. CASE item = 1
      <3>1. (ip[0] + 256 * i1) + 256 * step = (ip[0] + 256 * r1) + 256 * m1
        BY <2>1, <2>2, <2>8, <2>11, <2>13, AddAbove
      <3>2. step * Weight(item) = 256 * step
        BY <2>1, <2>8, <2>13, Weights
      <3>3. ip[0] = r[0]
        BY <2>1, <2>4, <2>8, <2>13
      <3> QED
        BY <2>3, <3>1, <3>2, <3>3
    <2>14. CASE item = 2
      <3>1. i1 + 256 * step = (ip[1] + 256 * r2) + 256 * m2
        BY <2>1, <2>2, <2>6, <2>9, <2>14, AddAbove DEF i1
      <3>2. ip[0] = r[0] /\ ip[1] = r[1]
        BY <2>1, <2>4, <2>9, <2>14
      <3>3. i1 + 256 * step = r1 + m1
        BY <3>1, <3>2 DEF r1, m1
      <3>4. 256 * step \in Nat
        BY <2>1
      <3>5. (ip[0] + 256 * i1) + 256 * (256 * step) = (ip[0] + 256 * r1) + 256 * m1
        <4> DEFINE s == 256 * step
        <4>1. s \in Nat /\ i1 + s = r1 + m1
          BY <3>3, <3>4
        <4> HIDE DEF s
        <4>2. (ip[0] + 256 * i1) + 256 * s = (ip[0] + 256 * r1) + 256 * m1
          BY <2>1, <2>2, <4>1, AddAbove
        <4> QED
          BY <4>2 DEF s
      <3>6. step * Weight(item) = 256 * (256 * step)
        BY <2>1, <2>9, <2>14, Weights
      <3> QED
        BY <2>3, <3>2, <3>5, <3>6
    <2>15. CASE item = 3
      <3> DEFINE s2 == 256 * step
                 s1 == 256 * s2
      <3>1. s2 \in Nat /\ s1 \in Nat
        BY <2>1
      <3>2. ip[0] = r[0] /\ ip[1] = r[1] /\ ip[2] = r[2] /\ ip[3] + step = r[3] + m3
        BY <2>1, <2>4, <2>10, <2>15
      <3>3. i2 + s2 = r2 + m2
        BY <2>1, <2>2, <3>2, AddAbove DEF i2, r2, m2
      <3> HIDE DEF s2
      <3>4. i1 + s1 = r1 + m1
        BY <2>1, <2>2, <3>1, <3>2, <3>3, AddAbove DEF i1, r1, m1
      <3> HIDE DEF s1
      <3>5. (ip[0] + 256 * i1) + 256 * s1 = (ip[0] + 256 * r1) + 256 * m1
        BY <2>1, <2>2, <3>1, <3>4, AddAbove
      <3>6. step * Weight(item) = 256 * s1
        BY <2>1, <2>10, <2>15, Weights DEF s1, s2
      <3> QED
        BY <2>3, <3>2, <3>5, <3>6
    <2> QED
      BY <2>12, <2>13, <2>14, <2>15
  <1>11. Value(r) \in Nat /\ Value(r) < AllIPs /\ AllIPs \in Nat
    BY <1>8, IPFacts DEF AllIPs
  <1> HIDE DEF o0, o1, o2
  <1>12. CASE last = 0
    <2>1. Value(ip) + step * Weight(item) = Value(r)
      BY <1>10, <1>11, <1>12
    <2> QED
      BY <1>1, <1>8, <1>11, <1>12, <2>1
  <1>13. CASE last = 1
    <2>1. Value(ip) + step * Weight(item) = Value(r) + AllIPs
      BY <1>10, <1>11, <1>13
    <2>2. ~(Value(ip) + step * Weight(item) < AllIPs)
      BY <1>11, <2>1
    <2> QED
      BY <1>1, <1>13, <2>2
  <1> QED
    BY <1>9, <1>12, <1>13

-----------------------------------------------------------------------------
(* The address at a distance from the beginning of a network.              *)

LEMMA LastByte ==
  ASSUME NEW n \in Nat
  PROVE  n \div 256 \in Nat /\ IsByte(n % 256) /\ n = (n % 256) + 256 * (n \div 256)
  BY SMT DEF IsByte

LEMMA LowHalf ==
  ASSUME NEW n \in Nat
  PROVE  /\ n \div 65536 \in Nat /\ n % 65536 \in Nat
         /\ n = (n % 65536) + 256 * (256 * (n \div 65536))
         /\ n \div 65536 = (n \div 256) \div 256
  BY SMT

\* The halves of the sum of an address and a distance, from the bytes, what is added
\* and what is over; and the sum itself.
LowSum(x0, x1, low, l0, l1, c) ==
  /\ x0 \in Nat /\ x1 \in Nat /\ low \in Nat /\ l0 \in Nat /\ l1 \in Nat /\ c \in Nat
  /\ x0 + 256 * x1 + low = l0 + 256 * (l1 + 256 * c)
HighSum(x2, x3, high, c, h0, h1, o) ==
  /\ x2 \in Nat /\ x3 \in Nat /\ high \in Nat /\ h0 \in Nat /\ h1 \in Nat /\ o \in Nat
  /\ x2 + 256 * x3 + high + c = h0 + 256 * (h1 + 256 * o)

LEMMA SumOfHalves ==
  \A x0, x1, x2, x3, low, high, l0, l1, c, h0, h1, o :
    LowSum(x0, x1, low, l0, l1, c) /\ HighSum(x2, x3, high, c, h0, h1, o) =>
      (x0 + 256 * (x1 + 256 * (x2 + 256 * x3))) + (low + 256 * (256 * high))
        = (l0 + 256 * (l1 + 256 * (h0 + 256 * h1))) + 256 * (256 * (256 * (256 * o)))
  BY SMT DEF LowSum, HighSum

\* The address at a distance is the sum, and there is none when its upper half is
\* too large.
LEMMA AtSum ==
  ASSUME NEW net, net.ip \in IPs, NEW d \in Nat
  PROVE  /\ High(net, d) < 65536 <=> Value(net.ip) + d < AllIPs
         /\ High(net, d) < 65536 => At(net, d) \in IPs /\ Value(At(net, d)) = Value(net.ip) + d
  <1> DEFINE low == Low(net, d)
             high == High(net, d)
             l0 == low % 256
             l1 == (low \div 256) % 256
             c == (low \div 256) \div 256
             h0 == high % 256
             h1 == (high \div 256) % 256
             o == (high \div 256) \div 256
             ip == net.ip
             dl == d % 65536
             dh == d \div 65536
             at == At(net, d)
  <1>1. ip[0] \in Nat /\ ip[1] \in Nat /\ ip[2] \in Nat /\ ip[3] \in Nat
    BY IPFacts DEF IsByte
  <1>2. dl \in Nat /\ dh \in Nat /\ d = dl + 256 * (256 * dh)
    BY LowHalf
  <1>3. low = ip[0] + 256 * ip[1] + dl /\ low \in Nat
    <2> HIDE DEF dl, ip
    <2>1. low = ip[0] + 256 * ip[1] + dl
      BY DEF Low, dl, ip
    <2> QED
      BY <1>1, <1>2, <2>1
  <1> HIDE DEF low
  <1>4. /\ low \div 256 \in Nat /\ low = l0 + 256 * (low \div 256) /\ IsByte(l0)
        /\ c \in Nat /\ low \div 256 = l1 + 256 * c /\ IsByte(l1)
    <2>1. low \div 256 \in Nat /\ low = l0 + 256 * (low \div 256) /\ IsByte(l0)
      BY <1>3, LastByte
    <2>2. c \in Nat /\ low \div 256 = l1 + 256 * c /\ IsByte(l1)
      BY <2>1, LastByte
    <2> QED
      BY <2>1, <2>2
  <1>5. low = l0 + 256 * (l1 + 256 * c)
    BY <1>4
  <1>6. low \div 65536 = c
    BY <1>3, LowHalf
  <1>7. high = ip[2] + 256 * ip[3] + dh + c /\ high \in Nat
    <2> HIDE DEF dh, ip, c
    <2>1. high = ip[2] + 256 * ip[3] + dh + (low \div 65536)
      BY DEF High, dh, ip, low
    <2> QED
      BY <1>1, <1>2, <1>4, <1>6, <2>1
  <1>8. at = [i \in 0 .. 3 |-> CASE i = 0 -> l0 [] i = 1 -> l1 [] i = 2 -> h0 [] i = 3 -> h1]
    BY DEF At, low
  <1> HIDE DEF high
  <1>9. /\ high \div 256 \in Nat /\ high = h0 + 256 * (high \div 256) /\ IsByte(h0)
        /\ o \in Nat /\ high \div 256 = h1 + 256 * o /\ IsByte(h1)
    BY <1>7, LastByte
  <1>10. high = h0 + 256 * (h1 + 256 * o)
    BY <1>9
  <1> HIDE DEF l0, l1, c, h0, h1, o, dl, dh, at, ip
  <1>11. /\ l0 \in Nat /\ l1 \in Nat /\ h0 \in Nat /\ h1 \in Nat
    BY <1>4, <1>9 DEF IsByte
  <1>12. /\ ip[0] + 256 * ip[1] + dl = l0 + 256 * (l1 + 256 * c)
         /\ ip[2] + 256 * ip[3] + dh + c = h0 + 256 * (h1 + 256 * o)
    BY <1>3, <1>5, <1>7, <1>10
  <1>13. (ip[0] + 256 * (ip[1] + 256 * (ip[2] + 256 * ip[3]))) + (dl + 256 * (256 * dh))
           = (l0 + 256 * (l1 + 256 * (h0 + 256 * h1))) + 256 * (256 * (256 * (256 * o)))
    <2>1. LowSum(ip[0], ip[1], dl, l0, l1, c) /\ HighSum(ip[2], ip[3], dh, c, h0, h1, o)
      BY <1>1, <1>2, <1>4, <1>9, <1>11, <1>12 DEF LowSum, HighSum
    <2> QED
      BY <2>1, SumOfHalves
  <1>14. /\ at[0] = l0 /\ at[1] = l1 /\ at[2] = h0 /\ at[3] = h1
    BY <1>8
  <1>15. at \in IPs
    <2>1. l0 \in Byte /\ l1 \in Byte /\ h0 \in Byte /\ h1 \in Byte
      BY <1>4, <1>9, Bytes
    <2>2. \A i \in 0 .. 3 : at[i] \in Byte
      BY <1>14, <2>1
    <2> QED
      BY <1>8, <2>2 DEF IPs
  <1>16. Value(ip) + d = Value(at) + 256 * (256 * (256 * (256 * o)))
    BY <1>2, <1>13, <1>14 DEF Value
  <1>17. Value(at) \in Nat /\ Value(at) < AllIPs
    BY <1>15, IPFacts
  <1>18. high < 65536 <=> o = 0
    BY <1>4, <1>9, <1>10, SMT DEF IsByte
  <1>19. CASE o = 0
    BY <1>15, <1>16, <1>17, <1>18, <1>19 DEF high, at, ip
  <1>20. CASE o # 0
    <2>1. 256 * (256 * (256 * (256 * o))) >= AllIPs
      BY <1>9, <1>20, SMT DEF AllIPs
    <2>2. ~(Value(ip) + d < AllIPs)
      <3> DEFINE more == 256 * (256 * (256 * (256 * o)))
      <3>1. more \in Nat /\ AllIPs \in Nat
        BY <1>9 DEF AllIPs
      <3> HIDE DEF more
      <3> QED
        BY <1>16, <1>17, <2>1, <3>1 DEF more
    <2> QED
      BY <1>18, <1>20, <2>2 DEF high, ip
  <1> QED
    BY <1>19, <1>20

\* x is the address at distance d from the beginning of net.
Lies(net, x, d) == x \in IPs /\ Value(net.ip) + d < AllIPs /\ Value(x) = Value(net.ip) + d

LEMMA AtLies ==
  ASSUME NEW net, net.ip \in IPs, NEW d \in Nat, NEW x
  PROVE  Lies(net, x, d) <=> High(net, d) < 65536 /\ x = At(net, d)
  <1>1. CASE High(net, d) < 65536
    <2>1. /\ Value(net.ip) + d < AllIPs
          /\ At(net, d) \in IPs /\ Value(At(net, d)) = Value(net.ip) + d
      BY <1>1, AtSum
    <2>2. ASSUME x \in IPs, Value(x) = Value(net.ip) + d PROVE x = At(net, d)
      BY <2>1, <2>2, SameValue
    <2> QED
      BY <1>1, <2>1, <2>2 DEF Lies
  <1>2. CASE ~(High(net, d) < 65536)
    BY <1>2, AtSum DEF Lies
  <1> QED
    BY <1>1, <1>2

LEMMA LiesOnce ==
  ASSUME NEW net, NEW d, NEW x, NEW y, Lies(net, x, d), Lies(net, y, d)
  PROVE  x = y
  BY SameValue DEF Lies

-----------------------------------------------------------------------------
(* The walk over the networks of the nodes.                                *)

\* The step that the code takes in one byte is the size of a node's network.
LEMMA StepExact ==
  ASSUME NEW size \in 8 .. 32
  PROVE  LET item == size \div 8
             step == Power2[size - 8 * item]
         IN  /\ item \in 1 .. 4 /\ (item = 4 <=> size = 32)
             /\ step \in Byte
             /\ item # 4 => step * Weight(item) = Power2[size]
  <1> DEFINE item == size \div 8
             rest == size - 8 * item
             step == Power2[rest]
  <1>1. item \in 1 .. 4 /\ (item = 4 <=> size = 32) /\ rest \in 0 .. 7 /\ size = rest + 8 * item
    BY SMT
  <1> HIDE DEF item, rest
  <1>2. step \in Nat /\ step < 256
    <2>1. 8 = rest + (8 - rest) /\ 8 - rest \in Nat /\ rest \in Nat /\ 8 - rest # 0
      BY <1>1
    <2>2. Power2[8] = Power2[rest] * Power2[8 - rest]
      BY <2>1, PowerSum
    <2>3. (8 - rest) - 1 \in Nat /\ ((8 - rest) - 1) + 1 = 8 - rest
      BY <1>1
    <2>4. Power2[8 - rest] = 2 * Power2[(8 - rest) - 1] /\ Power2[(8 - rest) - 1] \in Nat
          /\ Power2[(8 - rest) - 1] >= 1
      BY <2>3, PowerFacts
    <2>5. step \in Nat /\ step >= 1 /\ Power2[8 - rest] \in Nat /\ Power2[8 - rest] >= 2
      BY <2>1, <2>4, PowerFacts
    <2>6. \A a, b \in Nat : a >= 1 /\ b >= 2 => a < a * b
      BY SMT
    <2> QED
      BY <2>2, <2>5, <2>6, PowersOfBytes
  <1>3. step \in Byte
    BY <1>2, Bytes DEF IsByte
  <1>4. ASSUME item # 4 PROVE step * Weight(item) = Power2[size]
    <2>1. item \in 1 .. 3 /\ 8 * item \in Nat /\ rest \in Nat
      BY <1>1, <1>4
    <2>2. Weight(item) = Power2[8 * item]
      <3>1. item = 1 \/ item = 2 \/ item = 3
        BY <2>1
      <3>2. CASE item = 1
        BY <3>2, PowersOfBytes DEF Weight
      <3>3. CASE item = 2
        BY <3>3, PowersOfBytes DEF Weight
      <3>4. CASE item = 3
        BY <3>4, PowersOfBytes DEF Weight
      <3> QED
        BY <3>1, <3>2, <3>3, <3>4
    <2>3. Power2[size] = Power2[rest] * Power2[8 * item]
      BY <1>1, <2>1, PowerSum
    <2> QED
      BY <2>2, <2>3
  <1> QED
    BY <1>1, <1>3, <1>4 DEF rest, item

LEMMA IpOperateAddBeyond ==
  \A ip, step : IpOperateAdd(ip, 4, step) = Invalid
  BY DEF IpOperateAdd

LEMMA Walk ==
  ASSUME NEW net, net.ip \in IPs, DockerSubLen(net) \in 8 .. 32
  PROVE  LET ip == FlannelIpsInt(net)
             item == DockerSubLen(net) \div 8
             step == Power2[DockerSubLen(net) - 8 * item]
         IN  /\ ip[0] = net.ip
             /\ \A i \in Nat :
                  /\ ip[i] \in IPs \cup {Invalid}
                  /\ ip[i + 1] = IF ip[i] = Invalid THEN Invalid ELSE IpOperateAdd(ip[i], item, step)
  <1> DEFINE item == DockerSubLen(net) \div 8
             step == Power2[DockerSubLen(net) - 8 * item]
             S == IPs \cup {Invalid}
             next(x) == IF x = Invalid THEN Invalid ELSE IpOperateAdd(x, item, step)
             Next == [x \in S |-> next(x)]
  <1>1. item \in 1 .. 4 /\ step \in Byte
    BY StepExact
  <1> HIDE DEF item, step
  <1>2. ASSUME NEW x \in S PROVE next(x) \in S
    <2>1. CASE x = Invalid
      BY <2>1
    <2>2. CASE x # Invalid /\ item = 4
      BY <2>2, IpOperateAddBeyond
    <2>3. CASE x # Invalid /\ item # 4
      <3>1. x \in IPs /\ item \in 0 .. 3
        BY <1>1, <2>3
      <3>2. IpOperateAdd(x, item, step) \in IPs \/ IpOperateAdd(x, item, step) = Invalid
        BY <1>1, <3>1, AddExact
      <3> QED
        BY <2>3, <3>2
    <2> QED
      BY <2>1, <2>2, <2>3
  <1> HIDE DEF next
  <1>3. \A x \in S : Next[x] = next(x)
    OBVIOUS
  <1> HIDE DEF Next
  <1>4. PICK f : Follows(f, net.ip, Next)
    BY Recursion
  <1>5. f = [n \in Nat |-> IF n = 0 THEN net.ip ELSE Next[f[n - 1]]]
    BY <1>4 DEF Follows
  <1> DEFINE T == {n \in Nat : f[n] \in S}
  <1>6. 0 \in T
    BY <1>5
  <1>7. ASSUME NEW n \in Nat, n \in T PROVE n + 1 \in T
    <2>1. f[n + 1] = Next[f[n]]
      BY <1>5
    <2> QED
      BY <1>2, <1>3, <1>7, <2>1
  <1>8. \A n \in Nat : f[n] \in S
    <2> HIDE DEF T
    <2>1. Nat \subseteq T
      BY <1>6, <1>7, Induction
    <2> QED
      BY <2>1 DEF T
  <1> HIDE DEF T, S
  <1>9. ASSUME NEW n \in Nat PROVE f[n] = IF n = 0 THEN net.ip ELSE next(f[n - 1])
    <2>1. n # 0 => n - 1 \in Nat
      OBVIOUS
    <2> QED
      BY <1>3, <1>5, <1>8, <2>1
  <1>10. f = [n \in Nat |-> IF n = 0 THEN net.ip ELSE next(f[n - 1])]
    BY <1>5, <1>9
  <1> DEFINE ip == FlannelIpsInt(net)
  <1>11. ip = [n \in Nat |-> IF n = 0 THEN net.ip ELSE next(ip[n - 1])]
    <2>1. f = [i \in Nat |-> IF i = 0 THEN net.ip
                             ELSE IF f[i - 1] = Invalid THEN Invalid ELSE IpOperateAdd(f[i - 1], item, step)]
      BY <1>10 DEF next
    <2>2. ip = CHOOSE g : g = [i \in Nat |-> IF i = 0 THEN net.ip
                             ELSE IF g[i - 1] = Invalid THEN Invalid ELSE IpOperateAdd(g[i - 1], item, step)]
      BY DEF FlannelIpsInt, item, step
    <2>3. ip = [i \in Nat |-> IF i = 0 THEN net.ip
                             ELSE IF ip[i - 1] = Invalid THEN Invalid ELSE IpOperateAdd(ip[i - 1], item, step)]
      BY <2>1, <2>2
    <2> QED
      BY <2>3 DEF next
  <1> HIDE DEF ip
  <1>12. ip[0] = net.ip
    BY <1>11
  <1>13. \A n \in Nat : ip[n + 1] = next(ip[n])
    BY <1>11
  <1> DEFINE U == {n \in Nat : ip[n] \in S}
  <1>14. 0 \in U
    BY <1>12 DEF S
  <1>15. \A n \in Nat : n \in U => n + 1 \in U
    BY <1>2, <1>13
  <1>16. \A n \in Nat : ip[n] \in S
    <2> HIDE DEF U
    <2>1. Nat \subseteq U
      BY <1>14, <1>15, Induction
    <2> QED
      BY <2>1 DEF U
  <1> QED
    BY <1>12, <1>13, <1>16 DEF S, next, ip, item, step

\* Each address of the walk lies one network after the one before, and the walk ends
\* with the last address.
LEMMA WalkLies ==
  ASSUME NEW net, net.ip \in IPs, DockerSubLen(net) \in 8 .. 31, NEW i \in Nat
  PROVE  LET ip == FlannelIpsInt(net)
             distance == i * Power2[DockerSubLen(net)]
         IN  /\ ip[i] # Invalid => Lies(net, ip[i], distance)
             /\ ip[i] = Invalid => ~(Value(net.ip) + distance < AllIPs)
  <1> DEFINE ip == FlannelIpsInt(net)
             item == DockerSubLen(net) \div 8
             step == Power2[DockerSubLen(net) - 8 * item]
             size == Power2[DockerSubLen(net)]
             lies(n) == /\ ip[n] # Invalid => Lies(net, ip[n], n * size)
                        /\ ip[n] = Invalid => ~(Value(net.ip) + n * size < AllIPs)
             T == {n \in Nat : lies(n)}
  <1>1. /\ ip[0] = net.ip
        /\ \A n \in Nat :
             /\ ip[n] \in IPs \cup {Invalid}
             /\ ip[n + 1] = IF ip[n] = Invalid THEN Invalid ELSE IpOperateAdd(ip[n], item, step)
    BY Walk
  <1>2. item \in 0 .. 3 /\ step \in Byte /\ step * Weight(item) = size
    BY StepExact
  <1>3. size \in Nat
    BY PowerFacts
  <1>4. Value(net.ip) \in Nat /\ Value(net.ip) < AllIPs /\ net.ip # Invalid /\ AllIPs \in Nat
    BY IPFacts DEF AllIPs
  <1> HIDE DEF ip, item, step, size
  <1>5. 0 \in T
    <2>1. 0 * size = 0 /\ Value(net.ip) + 0 = Value(net.ip)
      BY <1>3, <1>4
    <2> QED
      BY <1>1, <1>4, <2>1 DEF Lies
  <1>6. ASSUME NEW n \in Nat, n \in T PROVE n + 1 \in T
    <2>1. (n + 1) * size = n * size + size /\ n * size \in Nat
      BY <1>3, SMT
    <2> DEFINE before == n * size
               after == (n + 1) * size
               start == Value(net.ip)
    <2>2. before \in Nat /\ after = before + size /\ start \in Nat
      BY <1>4, <2>1
    <2>3. /\ ip[n] # Invalid => Lies(net, ip[n], before)
          /\ ip[n] = Invalid => ~(start + before < AllIPs)
      BY <1>6
    <2> HIDE DEF before, after, start
    <2>4. CASE ip[n] = Invalid
      <3>1. ip[n + 1] = Invalid
        BY <1>1, <2>4
      <3>2. ~(start + after < AllIPs)
        BY <1>3, <1>4, <2>2, <2>3, <2>4
      <3> QED
        BY <3>1, <3>2 DEF start, after
    <2>5. CASE ip[n] # Invalid
      <3>1. ip[n] \in IPs /\ Value(ip[n]) = start + before
        BY <2>3, <2>5 DEF Lies, start
      <3>2. ip[n + 1] = IpOperateAdd(ip[n], item, step)
        BY <1>1, <2>5
      <3>3. Value(ip[n]) + step * Weight(item) = start + after
        BY <1>2, <1>3, <2>2, <3>1
      <3>4. IF start + after < AllIPs
            THEN ip[n + 1] \in IPs /\ Value(ip[n + 1]) = start + after
            ELSE ip[n + 1] = Invalid
        BY <1>2, <3>1, <3>2, <3>3, AddExact
      <3>5. ip[n + 1] \in IPs => ip[n + 1] # Invalid
        BY IPFacts
      <3> QED
        BY <3>4, <3>5 DEF Lies, start, after
    <2> QED
      BY <2>4, <2>5
  <1>7. Nat \subseteq T
    <2> HIDE DEF T
    <2> QED
      BY <1>5, <1>6, Induction
  <1>8. lies(i)
    BY <1>7
  <1> QED
    BY <1>8 DEF ip, size

\* The address after one that lies there is the next one.
LEMMA NextLies ==
  ASSUME NEW net, net.ip \in IPs, NEW d \in Nat, NEW v, Lies(net, v, d), NEW x
  PROVE  Lies(net, x, d + 1) <=> x = IpOperateAdd(v, 0, 1) /\ x # Invalid
  <1>1. v \in IPs /\ Value(v) = Value(net.ip) + d /\ Value(net.ip) \in Nat
    BY IPFacts DEF Lies
  <1>2. 1 \in Byte /\ 0 \in 0 .. 3 /\ 1 * Weight(0) = 1
    BY Bytes DEF IsByte, Weight
  <1>3. Value(v) + 1 * Weight(0) = Value(net.ip) + (d + 1)
    BY <1>1, <1>2
  <1> DEFINE r == IpOperateAdd(v, 0, 1)
  <1>4. IF Value(net.ip) + (d + 1) < AllIPs
        THEN r \in IPs /\ Value(r) = Value(net.ip) + (d + 1)
        ELSE r = Invalid
    BY <1>1, <1>2, <1>3, AddExact
  <1> HIDE DEF r
  <1>5. CASE Value(net.ip) + (d + 1) < AllIPs
    <2>1. Lies(net, r, d + 1) /\ r # Invalid
      BY <1>4, <1>5, IPFacts DEF Lies
    <2> QED
      BY <2>1, LiesOnce DEF r
  <1>6. CASE ~(Value(net.ip) + (d + 1) < AllIPs)
    BY <1>4, <1>6 DEF Lies, r
  <1> QED
    BY <1>5, <1>6

LEMMA VisitedLies ==
  ASSUME NEW net, net.ip \in IPs, net.mask \in 0 .. 32, net.len \in Nat, ~Refused(net),
         NEW i \in 0 .. Power2[net.len] - 1
  PROVE  LET ip == FlannelIpsInt(net)
             distance == i * Power2[DockerSubLen(net)]
         IN  /\ distance \in Nat
             /\ ip[i] # Invalid => Lies(net, ip[i], distance)
             /\ ip[i] = Invalid => ~(Value(net.ip) + distance < AllIPs)
  <1>1. DockerSubLen(net) \in 8 .. 32 /\ net.len \in 0 .. 32
    BY DEF Refused
  <1>2. Power2[DockerSubLen(net)] \in Nat /\ Power2[net.len] \in Nat
    BY <1>1, PowerFacts
  <1>3. i \in Nat /\ i * Power2[DockerSubLen(net)] \in Nat
    BY <1>2, SMT
  <1>4. CASE DockerSubLen(net) \in 8 .. 31
    BY <1>3, <1>4, WalkLies
  <1>5. CASE DockerSubLen(net) = 32
    <2>1. net.len = 0
      BY <1>5 DEF DockerSubLen
    <2>2. i = 0
      BY <2>1, PowerFacts
    <2>3. i * Power2[DockerSubLen(net)] = 0
      BY <1>2, <2>2
    <2>4. FlannelIpsInt(net)[0] = net.ip
      BY <1>1, Walk
    <2>5. net.ip # Invalid /\ Lies(net, net.ip, 0)
      BY IPFacts DEF Lies
    <2> QED
      BY <2>2, <2>3, <2>4, <2>5
  <1> QED
    BY <1>1, <1>4, <1>5

\* ensureFlannelNetSetMember: for every network that it does not refuse, the walk
\* with its carries meets the first two addresses of each network of a node, and
\* nothing else; beyond the last address it ends.
THEOREM FlanelIPsExact ==
  ASSUME NEW net, net.ip \in IPs, net.mask \in 0 .. 32, net.len \in Nat, ~Refused(net)
  PROVE  FlanelIPs(net) = Gateways(net)
  <1> DEFINE ip == FlannelIpsInt(net)
             S == 0 .. Power2[net.len] - 1
             size == Power2[DockerSubLen(net)]
             visited == {ip[i] : i \in S} \ {Invalid}
             distances == {k * size + b : k \in S, b \in {0, 1}}
  <1>1. FlanelIPs(net) = visited \cup ({IpOperateAdd(v, 0, 1) : v \in visited} \ {Invalid})
    BY DEF FlanelIPs
  <1>2. Gateways(net) = {At(net, d) : d \in {d \in distances : High(net, d) < 65536}}
    BY DEF Gateways
  <1>3. ASSUME NEW i \in S
        PROVE  /\ i * size \in Nat
               /\ ip[i] # Invalid => Lies(net, ip[i], i * size)
               /\ ip[i] = Invalid => ~(Value(net.ip) + i * size < AllIPs)
    BY VisitedLies
  <1> HIDE DEF ip, S, size
  <1>4. \A i \in S : i * size + 0 = i * size /\ i * size + 1 \in Nat
    BY <1>3
  <1>5. ASSUME NEW i \in S, NEW x
        PROVE  Lies(net, x, i * size) <=> x = ip[i] /\ x # Invalid
    <2>1. Lies(net, x, i * size) => ip[i] # Invalid
      BY <1>3 DEF Lies
    <2> QED
      BY <1>3, <2>1, LiesOnce
  <1>6. ASSUME NEW i \in S, NEW x
        PROVE  Lies(net, x, i * size + 1) <=> ip[i] # Invalid /\ x = IpOperateAdd(ip[i], 0, 1) /\ x # Invalid
    <2>1. CASE ip[i] # Invalid
      <3>1. Lies(net, ip[i], i * size) /\ i * size \in Nat
        BY <1>3, <2>1
      <3>2. Lies(net, x, i * size + 1) <=> x = IpOperateAdd(ip[i], 0, 1) /\ x # Invalid
        BY <3>1, NextLies
      <3> QED
        BY <2>1, <3>2
    <2>2. CASE ip[i] = Invalid
      <3>1. ~(Value(net.ip) + i * size < AllIPs) /\ i * size \in Nat
        BY <1>3, <2>2
      <3>2. ~(Value(net.ip) + (i * size + 1) < AllIPs)
        <4> DEFINE d == i * size
        <4>1. d \in Nat /\ Value(net.ip) \in Nat /\ AllIPs \in Nat /\ ~(Value(net.ip) + d < AllIPs)
          BY <3>1, IPFacts DEF AllIPs
        <4> HIDE DEF d
        <4>2. ~(Value(net.ip) + (d + 1) < AllIPs)
          BY <4>1
        <4> QED
          BY <4>2 DEF d
      <3> QED
        BY <2>2, <3>2 DEF Lies
    <2> QED
      BY <2>1, <2>2
  <1>7. ASSUME NEW x
        PROVE  x \in FlanelIPs(net) <=> \E i \in S : Lies(net, x, i * size) \/ Lies(net, x, i * size + 1)
    <2>1. x \in visited <=> \E i \in S : Lies(net, x, i * size)
      BY <1>5
    <2>2. x \in {IpOperateAdd(v, 0, 1) : v \in visited} \ {Invalid}
            <=> \E i \in S : Lies(net, x, i * size + 1)
      <3> DEFINE dockerIP(v) == IpOperateAdd(v, 0, 1)
      <3>1. \A i \in S : Lies(net, x, i * size + 1) <=> ip[i] # Invalid /\ x = dockerIP(ip[i]) /\ x # Invalid
        BY <1>6
      <3>2. \A v : v \in visited <=> \E i \in S : v = ip[i] /\ v # Invalid
        OBVIOUS
      <3> HIDE DEF dockerIP, visited
      <3>3. x \in {dockerIP(v) : v \in visited} \ {Invalid} <=> \E v \in visited : x = dockerIP(v) /\ x # Invalid
        BY Zenon
      <3>4. (\E v \in visited : x = dockerIP(v) /\ x # Invalid)
              <=> \E i \in S : ip[i] # Invalid /\ x = dockerIP(ip[i]) /\ x # Invalid
        BY <3>2, Zenon
      <3> QED
        BY <3>1, <3>3, <3>4 DEF dockerIP
    <2> QED
      BY <1>1, <2>1, <2>2
  <1>8. ASSUME NEW x
        PROVE  x \in Gateways(net) <=> \E i \in S : Lies(net, x, i * size) \/ Lies(net, x, i * size + 1)
    <2>1. ASSUME NEW d \in Nat PROVE Lies(net, x, d) <=> High(net, d) < 65536 /\ x = At(net, d)
      BY <2>1, AtLies
    <2>2. x \in Gateways(net) <=> \E d \in distances : High(net, d) < 65536 /\ x = At(net, d)
      BY <1>2
    <2>3. \A d : d \in distances <=> \E i \in S : d = i * size \/ d = i * size + 1
      BY <1>4
    <2>4. \A d \in distances : d \in Nat
      BY <1>3, <1>4, <2>3
    <2> HIDE DEF distances
    <2>5. x \in Gateways(net) <=> \E d \in distances : Lies(net, x, d)
      BY <2>1, <2>2, <2>4
    <2> QED
      BY <2>3, <2>5
  <1> QED
    BY <1>7, <1>8

=============================================================================
