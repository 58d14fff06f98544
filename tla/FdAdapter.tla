------------------------------- MODULE FdAdapter -------------------------------
(***************************************************************************)
(* The adapters between a TCPConnection and the network (fd_adapter,       *)
(* tcp_over_ip, tuntap_adapter, apps/lab7.cc): TCP segments in UDP payloads*)
(* ("udp"), in IPv4 datagrams on a TUN device ("tun"), or in IPv4 datagrams*)
(* in Ethernet frames with ARP, on a TAP device ("tap") or on a pair of    *)
(* datagram sockets ("lab7").                                              *)
(*                                                                         *)
(* An adapter is a record.  read and write give [adapter, segments, sent]: *)
(* the adapter afterwards, the segment passed up if there is one (a set)   *)
(* and the packets written to the device (a sequence).                     *)
(***************************************************************************)
EXTENDS WireFormats, NetworkInterface

Address(ip, port) == [ip |-> ip, port |-> port]
INADDR_ANY == <<0, 0>>
AnyAddress == Address(INADDR_ANY, 0)

\* An adapter as connect() and listen_and_accept() configure it; the last two
\* are there for Ethernet only.
NewAdapter(kind, source, destination, listen, interface, next_hop) ==
    [kind |-> kind, source |-> source, destination |-> destination, listen |-> listen,
     interface |-> interface, next_hop |-> next_hop]

Outcome(adapter, segments, sent) == [adapter |-> adapter, segments |-> segments, sent |-> sent]
nothing(a) == Outcome(a, {}, <<>>)

\* A packet: the bytes the device carries and, for UDP, where they are sent.
Packet(data, destination) == [data |-> data, destination |-> destination]

with_ports(a, seg) ==
    [seg EXCEPT !.header.sport = a.source.port, !.header.dport = a.destination.port]

opens(seg) == seg.header.syn /\ ~seg.header.rst

-----------------------------------------------------------------------------
\* TCPOverUDPSocketAdapter

MutStillListening(a, source_address) == [a EXCEPT !.destination = source_address]

bind_udp(a, source_address) == [a EXCEPT !.destination = source_address, !.listen = FALSE]

\* The ports in the TCP header are not looked at.
udp_read(a, source_address, data) ==
    LET seg == tcp_segment_parse(data, 0)
    IN  IF \/ ~a.listen /\ source_address # a.destination
           \/ seg.result # "NoError"
           \/ a.listen /\ ~opens(seg)
        THEN nothing(a)
        ELSE Outcome(IF a.listen THEN bind_udp(a, source_address) ELSE a, {seg}, <<>>)

udp_write(a, seg) ==
    Outcome(a, {}, <<Packet(concatenate(tcp_segment_serialize(with_ports(a, seg), 0)),
                            a.destination)>>)

-----------------------------------------------------------------------------
\* TCPOverIPv4Adapter

\* The datagram that opens the connection says which of our addresses the
\* connection is for.
bind_ip(a, dgram, seg) ==
    [a EXCEPT !.source = Address(dgram.header.dst, a.source.port),
              !.destination = Address(dgram.header.src, seg.header.sport),
              !.listen = FALSE]

unwrap_tcp_in_ip(a, dgram) ==
    LET seg == tcp_segment_parse(dgram.payload, pseudo_cksum(dgram.header))
        bound == IF a.listen THEN bind_ip(a, dgram, seg) ELSE a
    IN  IF \/ ~a.listen /\ dgram.header.dst # a.source.ip
           \/ ~a.listen /\ dgram.header.src # a.destination.ip
           \/ dgram.header.proto # 6
           \/ seg.result # "NoError"
           \/ seg.header.dport # a.source.port
           \/ a.listen /\ ~opens(seg)
           \/ seg.header.sport # bound.destination.port
        THEN nothing(a)
        ELSE Outcome(bound, {seg}, <<>>)

wrap_tcp_in_ip(a, seg) ==
    LET header == [IPv4Header EXCEPT
                      !.src = a.source.ip, !.dst = a.destination.ip,
                      !.len = 4 * IPv4Header.hlen + 4 * seg.header.doff + Len(seg.payload)]
    IN  [header |-> header,
         payload |-> concatenate(tcp_segment_serialize(with_ports(a, seg), pseudo_cksum(header)))]

-----------------------------------------------------------------------------
\* TCPOverIPv4OverTunFdAdapter

tun_read(a, data) ==
    LET dgram == ipv4_datagram_parse(data)
    IN  IF dgram.result # "NoError" THEN nothing(a) ELSE unwrap_tcp_in_ip(a, dgram)

tun_write(a, seg) ==
    Outcome(a, {}, <<Packet(concatenate(ipv4_datagram_serialize(wrap_tcp_in_ip(a, seg))),
                            AnyAddress)>>)

-----------------------------------------------------------------------------
(***************************************************************************)
(* TCPOverIPv4OverEthernetAdapter.  The frames of NetworkInterface hold    *)
(* their payloads as records: they become bytes when a frame is written to *)
(* the device, and are parsed when it has been read.                       *)
(***************************************************************************)
opcodes == <<"REQUEST", "REPLY">>

payload_bytes(frame) ==
    IF frame.type = "IPv4" THEN concatenate(ipv4_datagram_serialize(frame.payload))
    ELSE arp_message_serialize([frame.payload EXCEPT
             !.opcode = CHOOSE n \in DOMAIN opcodes : opcodes[n] = @])

frame_bytes(frame) ==
    concatenate(ethernet_frame_serialize(
        [header |-> [dst |-> frame.dst, src |-> frame.src,
                     type |-> IF frame.type = "IPv4" THEN TYPE_IPv4 ELSE TYPE_ARP],
         payload |-> payload_bytes(frame)]))

\* The payload of a frame as recv_frame parses it; what is not IPv4 is ARP.
parsed_payload(type, b) ==
    IF type = TYPE_IPv4
    THEN LET dgram == ipv4_datagram_parse(b)
         IN  IF dgram.result # "NoError" THEN Garbled
             ELSE [header |-> dgram.header, payload |-> dgram.payload]
    ELSE LET msg == arp_message_parse(b)
         IN  IF msg.result # "NoError" THEN Garbled
             ELSE ARPMessage(opcodes[msg.opcode],
                             msg.sender_ip_address, msg.sender_ethernet_address,
                             msg.target_ip_address, msg.target_ethernet_address)

parsed_frame(data) ==
    LET frame == ethernet_frame_parse(data)
        type == frame.header.type
    IN  EthernetFrame(frame.header.src, frame.header.dst,
                      IF type = TYPE_IPv4 THEN "IPv4" ELSE "ARP",
                      parsed_payload(type, frame.payload))

send_pending(a, i, segments) ==
    Outcome([a EXCEPT !.interface = [i EXCEPT !.frames_out = <<>>]], segments,
            [k \in DOMAIN i.frames_out |->
                Packet(frame_bytes(i.frames_out[k]), AnyAddress)])

tap_read(a, data) ==
    LET received == recv_frame(a.interface, parsed_frame(data))
        sent == send_pending(a, [received EXCEPT !.datagrams_out = <<>>], {})
    IN  IF received.datagrams_out = <<>> THEN sent
        ELSE [unwrap_tcp_in_ip(sent.adapter, Head(received.datagrams_out)) EXCEPT
                 !.sent = sent.sent]

tap_write(a, seg) ==
    send_pending(a, send_datagram(a.interface, wrap_tcp_in_ip(a, seg), a.next_hop), {})

\* The adapters a tick may leave.
tap_tick(a, ms_since_last_tick) ==
    {send_pending(a, i, {}).adapter : i \in tick(a.interface, ms_since_last_tick)}

\* NetworkInterfaceAdapter does the same with a socket instead of the device.
lab7_read(a, data) == tap_read(a, data)
lab7_write(a, seg) == tap_write(a, seg)
lab7_tick(a, ms_since_last_tick) == tap_tick(a, ms_since_last_tick)

\* "Linux seems to ignore the first frame sent on a TAP device."
dummy_frame == Packet(concatenate(ethernet_frame_serialize(
    [header |-> [dst |-> Zeros(6), src |-> Zeros(6), type |-> 0], payload |-> <<>>])), AnyAddress)

-----------------------------------------------------------------------------
adapter_read(a, source_address, data) ==
    CASE a.kind = "udp" -> udp_read(a, source_address, data)
      [] a.kind = "tun" -> tun_read(a, data)
      [] a.kind = "tap" -> tap_read(a, data)
      [] a.kind = "lab7" -> lab7_read(a, data)

adapter_write(a, seg) ==
    CASE a.kind = "udp" -> udp_write(a, seg)
      [] a.kind = "tun" -> tun_write(a, seg)
      [] a.kind = "tap" -> tap_write(a, seg)
      [] a.kind = "lab7" -> lab7_write(a, seg)

\* FdAdapterBase::tick does nothing.
adapter_tick(a, ms_since_last_tick) ==
    CASE a.kind = "tap" -> tap_tick(a, ms_since_last_tick)
      [] a.kind = "lab7" -> lab7_tick(a, ms_since_last_tick)
      [] OTHER -> {a}

\* LossyFdAdapter, which exists for UDP and TUN, reads before it drops: what
\* the read did to the adapter stays.
lossy_read(a, source_address, data) ==
    LET done == adapter_read(a, source_address, data)
    IN  {done} \cup (IF a.kind \in {"tap", "lab7"} THEN {} ELSE {[done EXCEPT !.segments = {}]})

lossy_write(a, seg) ==
    {adapter_write(a, seg)} \cup (IF a.kind \in {"tap", "lab7"} THEN {} ELSE {nothing(a)})
=============================================================================
