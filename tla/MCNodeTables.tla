--------------------------- MODULE MCNodeTables ---------------------------
(* Two hooks, one rule of another program, and options whose networks are  *)
(* in one byte, over two and three bytes, beyond the last address, and     *)
(* too small; --ip-range in its default, as the kernel writes it, and not. *)
EXTENDS NodeTables

HooksMC == <<"OUTPUT", "FORWARD">>
IP(a, b, c, d) == (3 :> a) @@ (2 :> b) @@ (1 :> c) @@ (0 :> d)
Net(ip, mask, len) == [ip |-> ip, mask |-> mask, len |-> len]
OptionSetsMC ==
  {[acceptFlannel |-> accept, net |-> net, iPRange |-> iPRange, restoreWaits |-> waits] :
     <<accept, net, iPRange, waits>> \in
       {<<TRUE, Net(IP(10, 244, 0, 0), 16, 3), "canonical", FALSE>>,
        <<TRUE, Net(IP(10, 244, 0, 0), 14, 5), "other", FALSE>>,
        <<TRUE, Net(IP(10, 255, 240, 0), 20, 4), "canonical", TRUE>>,
        <<TRUE, Net(IP(255, 192, 0, 0), 9, 2), "canonical", FALSE>>,
        <<TRUE, Net(IP(64, 0, 0, 0), 2, 1), "canonical", FALSE>>,
        <<TRUE, Net(IP(10, 244, 0, 0), 16, 9), "canonical", TRUE>>,
        <<FALSE, Net(IP(10, 244, 0, 0), 16, 3), "default", TRUE>>}}
============================================================================
