------------------------------ MODULE MCRouter ------------------------------
(***************************************************************************)
(* A router with two networks, as in the middle of complex_router_topo.py, *)
(* with addresses of four bits: two for the network, two for the host.     *)
(* Read in the other order, the halves are exchanged.                      *)
(***************************************************************************)
EXTENDS Router

Addr(net, host) == 4 * net + host

MCIface == {1, 2}
MCAddress == 1..15
MCPacket == [id : 0..MaxPackets, kind : {"data", "echo", "reply", "error"},
             src : MCAddress, dst : MCAddress, ttl : 0..255]

\* Addresses of the router, which read differently in the other order.
MCIfaceIp == <<Addr(1, 3), Addr(2, 3)>>

\* The two networks, and a network behind the gateway 2.1.
MCRoutes == <<[dest |-> Addr(1, 0), len |-> 2, gw |-> 0, iface |-> 1],
              [dest |-> Addr(2, 0), len |-> 2, gw |-> 0, iface |-> 2],
              [dest |-> Addr(3, 0), len |-> 2, gw |-> Addr(2, 1), iface |-> 2]>>

MCNetOrder == [a \in MCAddress |-> 4 * (a % 4) + a \div 4]

MCHost == {Addr(1, 2), Addr(2, 1), Addr(2, 2)}

Arrival(iface, kind, src, dst, ttl) ==
  [iface |-> iface, kind |-> kind, src |-> src, dst |-> dst, ttl |-> ttl]

MCInput ==
  { Arrival(1, "data", Addr(1, 2), Addr(2, 2), 2),     \* for a neighbour
    Arrival(1, "data", Addr(1, 2), Addr(3, 2), 2),     \* by way of the gateway
    Arrival(1, "data", Addr(1, 2), Addr(2, 2), 1),     \* TTL runs out
    Arrival(1, "echo", Addr(1, 2), Addr(2, 3), 2),     \* ping the router
    Arrival(1, "data", Addr(1, 2), Addr(3, 1), 2) }    \* looks local, is dropped

=============================================================================
