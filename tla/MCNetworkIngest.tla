-------------------------- MODULE MCNetworkIngest --------------------------
(***************************************************************************)
(* Three requests about two addresses and two MACs: devices that come, go, *)
(* open a port, have no MAC or claim the MAC of another; flows to a        *)
(* blocklisted address, to one that the feed may list and to a C2 port;    *)
(* an IDS alert.                                                           *)
(***************************************************************************)
EXTENDS NetworkIngest

CONSTANTS A, B

Dev(mac, gateway, ports, ifs) == [mac |-> mac, gateway |-> gateway, ports |-> ports, ifs |-> ifs]

Telnet == [port |-> 23, cves |-> {}]
Ftp    == [port |-> 21, cves |-> {"CVE-2011-2523"}]

OneRequests == 1..3
NoCveFile == <<>>
OneMacs == {A, B}

\* Address 1 is the gateway; address 2 may show no MAC, its own, or the gateway's.
OneScans ==
  {<<>>,
   1 :> Dev(A, TRUE, {}, {1}),
   2 :> Dev(NoMac, FALSE, {Telnet}, {}),
   (1 :> Dev(B, TRUE, {Telnet}, {})) @@ (2 :> Dev(A, FALSE, {}, {})),
   (1 :> Dev(A, TRUE, {Telnet}, {2})) @@ (2 :> Dev(B, FALSE, {Ftp}, {})),
   (1 :> Dev(A, TRUE, {Ftp}, {})) @@ (2 :> Dev(A, FALSE, {}, {}))}

OneFlows == {{[ip |-> 9, port |-> 443], [ip |-> 7, port |-> 4444], [ip |-> 8, port |-> 4444]}}
OneBatches == {1 :> 1}
=============================================================================
