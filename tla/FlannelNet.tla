---------------------------- MODULE FlannelNet -----------------------------
(* The addresses of the set of flannel and docker gateways: the arithmetic *)
(* of pkg/util/tool/tool.go and ensureFlannelNetSetMember                  *)
(* (pkg/policy/policy.go).                                                 *)
EXTENDS Integers, SequencesExt

Byte == 0 .. 255

\* An address as IpStringToInt has it: the last of the four numbers at index 0.
IPs == [0 .. 3 -> Byte]

\* The error "invalid ips".
Invalid == <<>>

\* Variant: what is over in one byte is not carried into the next.
IpOperateAddNoCarry(ip, baseItem, step) ==
  IF baseItem > 3 THEN Invalid
  ELSE [ip EXCEPT ![baseItem] = (@ + step) % 256]

\* IpOperateAdd: step, less than 256, is added to one byte and what is over is
\* carried upwards; an error when it does not fit.
IpOperateAdd(ip, baseItem, step) ==
  LET into(i, carry) == IF i = baseItem THEN step ELSE IF i > baseItem THEN carry ELSE 0
      over(i, carry) == IF ip[i] + carry >= 256 THEN 1 ELSE 0
      c0 == into(0, 0)
      c1 == into(1, over(0, c0))
      c2 == into(2, over(1, c1))
      c3 == into(3, over(2, c2))
      added(i, carry) == IF ip[i] + carry >= 256 THEN ip[i] + carry - 256 ELSE ip[i] + carry
  IN  IF baseItem > 3 \/ over(3, c3) = 1 THEN Invalid
      ELSE [i \in 0 .. 3 |-> CASE i = 0 -> added(0, c0) [] i = 1 -> added(1, c1)
                               [] i = 2 -> added(2, c2) [] i = 3 -> added(3, c3)]

-----------------------------------------------------------------------------
\* dockerSubLen: the length of the part of an address that is a node's own.
DockerSubLen(net) == 32 - (net.mask + net.len)

\* The errors of ensureFlannelNetSetMember.
Refused(net) == net.len \notin 0 .. 32 \/ DockerSubLen(net) \notin 8 .. 32

\* PowerInt(2, n)
Power2[n \in Nat] == IF n = 0 THEN 1 ELSE Power2[n - 1] * 2

\* flannelIpsInt at the beginning of each iteration; Invalid once the loop has ended.
FlannelIpsInt(net) ==
  LET item == DockerSubLen(net) \div 8
      step == Power2[DockerSubLen(net) - 8 * item]
      ip[i \in Nat] == IF i = 0 THEN net.ip
                       ELSE LET last == ip[i - 1] IN
                            IF last = Invalid THEN Invalid ELSE IpOperateAdd(last, item, step)
  IN  ip

\* flanelIPMap: the first two addresses of each of the 2^len networks.
FlanelIPs(net) ==
  LET ip == FlannelIpsInt(net)
      visited == {ip[i] : i \in 0 .. Power2[net.len] - 1} \ {Invalid}
  IN  visited \cup ({IpOperateAdd(v, 0, 1) : v \in visited} \ {Invalid})

-----------------------------------------------------------------------------
\* The two halves of the address at a distance from the beginning of a network.
Low(net, distance) == net.ip[0] + 256 * net.ip[1] + (distance % 65536)
High(net, distance) ==
  net.ip[2] + 256 * net.ip[3] + (distance \div 65536) + (Low(net, distance) \div 65536)

At(net, distance) ==
  LET low  == Low(net, distance)
      high == High(net, distance)
  IN  [i \in 0 .. 3 |-> CASE i = 0 -> low % 256  [] i = 1 -> (low \div 256) % 256
                          [] i = 2 -> high % 256 [] i = 3 -> (high \div 256) % 256]

\* The first two addresses of the networks of the nodes, those beyond the last address
\* left out.
Gateways(net) ==
  LET distances == {k * Power2[DockerSubLen(net)] + b : k \in 0 .. Power2[net.len] - 1, b \in {0, 1}}
  IN  {At(net, d) : d \in {d \in distances : High(net, d) < 65536}}

============================================================================
