-------------------------------- MODULE Router --------------------------------
(***************************************************************************)
(* Router (libsponge/router.cc): a routing table and the interfaces between*)
(* which it forwards.  A router is a record; interface_num counts from 0.  *)
(***************************************************************************)
EXTENDS RoutingTable, NetworkInterface, SequencesExt

NewRouter(interfaces, routes) ==
    [interfaces |-> interfaces,
     rout_map |-> FoldLeft(LAMBDA t, x : add_route(t, x.route_prefix, x.prefix_length,
                                                   x.next_hop, x.interface_num),
                           <<>>, routes)]

\* The routes that route_one_datagram takes for address ip: one or none.
FirstMatch(rout_map, ip) ==
    {rout_map[k] : k \in {j \in DOMAIN rout_map : IsFirstMatch(rout_map, j, ip)}}

next_hop_for(x, dgram) == IF x.next_hop = Direct THEN dgram.dst ELSE x.next_hop

\* The interfaces after dgram went out by route x.
forward(interfaces, dgram, x) ==
    [interfaces EXCEPT ![x.interface_num + 1] =
        send_datagram(@, dgram, next_hop_for(x, dgram))]

MutTTLKept(rout_map, interfaces, dgram) ==
    LET found == FirstMatch(rout_map, dgram.dst)
    IN  IF dgram.ttl <= 1 \/ found = {} THEN interfaces
        ELSE forward(interfaces, dgram, CHOOSE x \in found : TRUE)

route_one_datagram(rout_map, interfaces, dgram) ==
    LET found == FirstMatch(rout_map, dgram.dst)
    IN  IF dgram.ttl <= 1 \/ found = {} THEN interfaces
        ELSE forward(interfaces, [dgram EXCEPT !.ttl = @ - 1], CHOOSE x \in found : TRUE)

MutFirstOnly(r) ==
    [r EXCEPT !.interfaces =
        FoldLeft(LAMBDA interfaces, dgram : route_one_datagram(r.rout_map, interfaces, dgram),
                 [n \in DOMAIN @ |-> [@[n] EXCEPT !.datagrams_out = <<>>]],
                 FlattenSeq([n \in DOMAIN @ |->
                     IF @[n].datagrams_out = <<>> THEN <<>> ELSE <<Head(@[n].datagrams_out)>>]))]

\* route goes through the interfaces and routes the datagrams each received;
\* forwarding adds to frames_out only, so that every queue is emptied.
route(r) ==
    [r EXCEPT !.interfaces =
        FoldLeft(LAMBDA interfaces, dgram : route_one_datagram(r.rout_map, interfaces, dgram),
                 [n \in DOMAIN @ |-> [@[n] EXCEPT !.datagrams_out = <<>>]],
                 FlattenSeq([n \in DOMAIN @ |-> @[n].datagrams_out]))]
=============================================================================
