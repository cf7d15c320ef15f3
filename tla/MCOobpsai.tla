----------------------------- MODULE MCOobpsai -----------------------------
(* Two peers: one with a client behind it at times, the other a client       *)
(* that comes directly.  In MCSixFakes the proxied client comes by another   *)
(* family than its peer.                                                     *)
EXTENDS Oobpsai, TLC

Addr(ip, port) == [fam |-> 4, ip |-> ip, port |-> port]
MCPeers == {Addr(1, 1), Addr(1, 2)}
Behind1(clients) == [x \in MCPeers |-> IF x.port = 1 THEN clients ELSE {}]
MCFakes == Behind1({Addr(2, 2)})
MCSixFakes == Behind1({[Addr(2, 2) EXCEPT !.fam = 6]})
Symmetry == Permutations(Servers)
=============================================================================
