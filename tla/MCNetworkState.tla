--------------------------- MODULE MCNetworkState ---------------------------
(***************************************************************************)
(* Three requests, one after the other, and summaries at any time: the     *)
(* gateway and a host that come, go, open ports and change what they       *)
(* serve, and suspicious flows.                                            *)
(***************************************************************************)
EXTENDS NetworkState

CONSTANTS A, B

Dev(mac, gateway, ports, ifs) == [mac |-> mac, gateway |-> gateway, ports |-> ports, ifs |-> ifs]
P(n) == [port |-> n, cves |-> {}]
Serves(cve) == [port |-> 8080, cves |-> {cve}]

ThreeRequests == 1..3
StateCves == ("CVE-1" :> "medium") @@ ("CVE-2" :> "high")
TwoMacs == {A, B}

StateScans ==
  {<<>>,
   1 :> Dev(A, TRUE, {P(6379)}, {}),
   2 :> Dev(B, FALSE, {Serves("CVE-1")}, {}),
   (1 :> Dev(A, TRUE, {P(80)}, {})) @@ (2 :> Dev(B, FALSE, {Serves("CVE-2")}, {}))}

StateFlows == {{[ip |-> 9, port |-> 443], [ip |-> 7, port |-> 443]}}
StateBatches == {}
=============================================================================
