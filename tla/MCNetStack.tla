----------------------------- MODULE MCNetStack -----------------------------
(***************************************************************************)
(* NetStack with two peers.  192.168.1.199 is this host; the peers' frames *)
(* are queries for this host, replies to it, a peer that changes its mac,  *)
(* a frame whose fields happen to match arpRecv's reply test, and traffic  *)
(* that is not ARP.                                                        *)
(***************************************************************************)
EXTENDS NetStack

HostIp == <<192, 168, 1, 199>>
PeerA  == longSwap(<<192, 168, 1, 101>>)
PeerB  == longSwap(<<192, 168, 250, 102>>)

\* Memory for which the sum of PeerB's header carries twice, all ones in the
\* check field, and something else in it.
Memory == { [tos |-> 238, flags |-> 3, check |-> 0],
            [tos |-> 1, flags |-> 7, check |-> Word - 1],
            [tos |-> 0, flags |-> 0, check |-> 24] }

TwoPeers == {PeerA, PeerB}

Arp(ip, mac, op, dst, proto) ==
    [type |-> "arp", sIP |-> ip, sHost |-> mac, dIP |-> dst,
     op |-> shortSwap(op), protocolType |-> proto]

Frames ==
    { Arp(PeerA, "mA", ARPOP_REPLY, longSwap(HostIp), shortSwap(ETHERTYPE_IP)),
      Arp(PeerA, "mA2", ARPOP_REPLY, longSwap(HostIp), shortSwap(ETHERTYPE_IP)),
      Arp(PeerB, "mB", ARPOP_REQUEST, longSwap(HostIp), shortSwap(ETHERTYPE_IP)),
      Arp(PeerB, "mB", ARPOP_REQUEST, HostIp, ARPOP_REPLY),
      [Arp(PeerB, "mB", ARPOP_REQUEST, NoIp, shortSwap(ETHERTYPE_IP)) EXCEPT !.type = "ip"] }
=============================================================================
