------------------------------ MODULE MCAdapters ------------------------------
(***************************************************************************)
(* Two clients and a server, with the values that TLC checks.              *)
(***************************************************************************)
EXTENDS Adapters

CONSTANTS server, alice, bob

MCBroadcast == [k \in 1..6 |-> 255]
MCZeroAddress == Zeros(6)

\* Every host has an address and a port of its own, in numbers whose bytes
\* differ, so that fields and bytes that change places are noticed.
MCAddressOf ==
    [h \in {server, alice, bob} |->
        CASE h = server -> Address(<<43518, 2305>>, 1440)
          [] h = alice -> Address(<<43518, 2561>>, 50001)
          [] h = bob -> Address(<<43518, 2562>>, 50002)]

Segment(header, payload) == [header |-> header, payload |-> payload]

Syn(isn) == Segment([TCPHeader EXCEPT !.syn = TRUE, !.seqno = isn, !.win = 64000], <<>>)

\* An odd number of bytes, the last of them zero, without which the checksum
\* is the same, and a sequence number about to wrap around.
Data == Segment([TCPHeader EXCEPT !.ack = TRUE, !.fin = TRUE, !.seqno = <<65535, 65535>>,
                                  !.ackno = <<1, 2>>, !.win = 1000], <<104, 105, 0>>)
SynAck == Segment([TCPHeader EXCEPT !.syn = TRUE, !.ack = TRUE, !.seqno = <<0, 1>>,
                                    !.ackno = <<65535, 65535>>, !.win = 3], <<>>)
Rst == Segment([TCPHeader EXCEPT !.rst = TRUE, !.syn = TRUE], <<>>)

MCSegments ==
    [h \in {server, alice, bob} |->
        CASE h = server -> {SynAck}
          [] h = alice -> {Syn(<<65535, 65534>>), Data}
          [] h = bob -> {Syn(<<7, 8>>), Rst}]
=============================================================================
