-------------------------- MODULE MCPolicyRules --------------------------
(* A small cluster for PolicyRules: two namespaces, pods at a1, a2 and b1, *)
(* the node's gateway at gw, a host at net and one outside --ip-range or,  *)
(* by default, with everything inside.                                     *)
EXTENDS PolicyRules

NamespacesMC == {<<"a">>, <<"b">>}
PoliciesMC == {<<<<"a">>, <<"x">>>>, <<<<"a">>, <<"y">>>>, <<<<"b">>, <<"x">>>>}
InNamespaceMC == (<<"a">> :> {"a1", "a2"}) @@ (<<"b">> :> {"b1"})
WithLabelMC == [nl \in NamespacesMC \X {"web", "db"} |->
                  CASE nl[1] = <<"b">> -> {"b1"}
                    [] nl = <<<<"a">>, "web">> -> {"a1"}
                    [] nl = <<<<"a">>, "db">> -> {"a1", "a2"}]
WithNamespaceLabelMC == [g \in {"prod"} |-> {"b1"}]
InCidrMC == [c \in {"wide", "narrow"} |-> IF c = "wide" THEN {"b1", "net"} ELSE {"net"}]

OptionSetsMC == {[acceptFlannel |-> TRUE, iPRange |-> {"a1", "a2", "b1", "gw", "net"}],
                 [acceptFlannel |-> FALSE, iPRange |-> {"a1", "a2", "b1", "gw", "net", "out"}]}

PodPeer(ls)   == [podSelector |-> ls, namespaceSelector |-> None, ipBlock |-> None]
NSPeer(gs)    == [podSelector |-> None, namespaceSelector |-> gs, ipBlock |-> None]
CidrPeer(c, es) == [podSelector |-> None, namespaceSelector |-> None,
                    ipBlock |-> [cidr |-> c, except |-> es]]
RuleOf(ports, peers) == [ports |-> ports, peers |-> peers]
SpecOf(types, selector, ingress, egress) ==
  [types |-> types, podSelector |-> selector, Ingress |-> ingress, Egress |-> egress]

DenyIngress == SpecOf(<<"Ingress">>, {}, <<>>, <<>>)
FromWebOrProd ==
  SpecOf(<<"Ingress">>, {"web", "db"}, <<RuleOf({80}, <<PodPeer({"web"}), NSPeer({"prod"})>>)>>, <<>>)
BothWays ==
  SpecOf(<<"Ingress", "Egress">>, {"web"},
         <<RuleOf({443}, <<>>)>>, <<RuleOf({}, <<CidrPeer("wide", {"narrow"})>>)>>)
EgressByPort ==
  SpecOf(<<"Egress">>, {}, <<>>, <<RuleOf({80}, <<CidrPeer("narrow", {})>>),
                                   RuleOf({443}, <<NSPeer({"prod"})>>)>>)

SpecsMC == [p \in PoliciesMC |->
  CASE p = <<<<"a">>, <<"x">>>> -> {FromWebOrProd, BothWays}
    [] p = <<<<"a">>, <<"y">>>> -> {EgressByPort, DenyIngress}
    [] p = <<<<"b">>, <<"x">>>> -> {DenyIngress, BothWays}]

ASSUME PlainSpecsAssumption == PlainSpecs
============================================================================
