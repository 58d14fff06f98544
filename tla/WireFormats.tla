----------------------------- MODULE WireFormats -----------------------------
(***************************************************************************)
(* The wire formats (libsponge/tcp_helpers): TCP header and segment, IPv4  *)
(* header and datagram, Ethernet header and frame, ARP message.  A header  *)
(* is a record with the names of the fields in the code.                   *)
(*                                                                         *)
(* serialize turns a packet into bytes, parse bytes into a record [result, *)
(* ...] with the ParseResult and what was parsed, which the callers look   *)
(* at only when the result is NoError.                                     *)
(***************************************************************************)
EXTENDS Parser

-----------------------------------------------------------------------------
\* TCPHeader

TCPHeader ==
    [sport |-> 0, dport |-> 0, seqno |-> <<0, 0>>, ackno |-> <<0, 0>>, doff |-> 5,
     urg |-> FALSE, ack |-> FALSE, psh |-> FALSE, rst |-> FALSE, syn |-> FALSE, fin |-> FALSE,
     win |-> 0, cksum |-> 0, uptr |-> 0]

tcp_header_parse(b) ==
    [sport |-> u16(b, 0), dport |-> u16(b, 2), seqno |-> u32(b, 4), ackno |-> u32(b, 8),
     doff |-> u8(b, 12) \div 16,
     urg |-> bit(u8(b, 13), 5), ack |-> bit(u8(b, 13), 4), psh |-> bit(u8(b, 13), 3),
     rst |-> bit(u8(b, 13), 2), syn |-> bit(u8(b, 13), 1), fin |-> bit(u8(b, 13), 0),
     win |-> u16(b, 14), cksum |-> u16(b, 16), uptr |-> u16(b, 18)]

tcp_header_serialize(h) ==
    put_u16(h.sport) \o put_u16(h.dport) \o put_u32(h.seqno) \o put_u32(h.ackno)
    \o <<16 * h.doff,
         flag(h.urg, 5) + flag(h.ack, 4) + flag(h.psh, 3)
         + flag(h.rst, 2) + flag(h.syn, 1) + flag(h.fin, 0)>>
    \o put_u16(h.win) \o put_u16(h.cksum) \o put_u16(h.uptr) \o Zeros(4 * h.doff - 20)

-----------------------------------------------------------------------------
\* TCPSegment

\* A doff below five ends the parsing of the header with an error that nobody
\* looks at: the payload then begins after the fixed part of the header.
tcp_segment_parse(buffer, datagram_layer_checksum) ==
    IF checksum(datagram_layer_checksum, buffer) # 0 THEN [result |-> "BadChecksum"]
    ELSE IF too_short(buffer, 20) THEN [result |-> "PacketTooShort"]
    ELSE LET header == tcp_header_parse(buffer)
             length == IF header.doff < 5 THEN 20 ELSE 4 * header.doff
         IN  IF too_short(buffer, length) THEN [result |-> "PacketTooShort"]
             ELSE [result |-> "NoError", header |-> header,
                   payload |-> remove_prefix(buffer, length)]

MutStaleChecksum(seg, datagram_layer_checksum) ==
    LET zeroed == tcp_header_serialize([seg.header EXCEPT !.cksum = 0])
    IN  <<tcp_header_serialize([seg.header EXCEPT
              !.cksum = checksum(datagram_layer_checksum, zeroed)]),
          seg.payload>>

tcp_segment_serialize(seg, datagram_layer_checksum) ==
    LET zeroed == tcp_header_serialize([seg.header EXCEPT !.cksum = 0])
    IN  <<tcp_header_serialize([seg.header EXCEPT
              !.cksum = checksum(datagram_layer_checksum, zeroed \o seg.payload)]),
          seg.payload>>

-----------------------------------------------------------------------------
\* IPv4Header

IPv4Header ==
    [ver |-> 4, hlen |-> 5, tos |-> 0, len |-> 0, id |-> 0, df |-> TRUE, mf |-> FALSE,
     offset |-> 0, ttl |-> 128, proto |-> 6, cksum |-> 0, src |-> <<0, 0>>, dst |-> <<0, 0>>]

ipv4_header_fields(b) ==
    [ver |-> u8(b, 0) \div 16, hlen |-> u8(b, 0) % 16, tos |-> u8(b, 1), len |-> u16(b, 2),
     id |-> u16(b, 4), df |-> bit(u16(b, 6), 14), mf |-> bit(u16(b, 6), 13),
     offset |-> u16(b, 6) % 8192, ttl |-> u8(b, 8), proto |-> u8(b, 9), cksum |-> u16(b, 10),
     src |-> u32(b, 12), dst |-> u32(b, 16)]

\* used: how much of the buffer the parser has taken.
ipv4_header_parse(b) ==
    IF too_short(b, 20) THEN [result |-> "PacketTooShort", header |-> IPv4Header, used |-> 0]
    ELSE LET h == ipv4_header_fields(b)
             failed(r) == [result |-> r, header |-> h, used |-> 20]
         IN  IF too_short(b, 4 * h.hlen) THEN failed("PacketTooShort")
             ELSE IF h.ver # 4 THEN failed("WrongIPVersion")
             ELSE IF h.hlen < 5 THEN failed("HeaderTooShort")
             ELSE IF Len(b) # h.len THEN failed("TruncatedPacket")
             ELSE [result |-> IF checksum(0, SubSeq(b, 1, 4 * h.hlen)) # 0
                              THEN "BadChecksum" ELSE "NoError",
                   header |-> h, used |-> 4 * h.hlen]

ipv4_header_serialize(h) ==
    <<16 * h.ver + h.hlen, h.tos>> \o put_u16(h.len) \o put_u16(h.id)
    \o put_u16(flag(h.df, 14) + flag(h.mf, 13) + h.offset)
    \o <<h.ttl, h.proto>> \o put_u16(h.cksum) \o put_u32(h.src) \o put_u32(h.dst)
    \o Zeros(4 * h.hlen - 20)

\* A uint16_t.
payload_length(h) == (h.len - 4 * h.hlen) % 65536

MutNoAddresses(h) == h.proto + payload_length(h)

pseudo_cksum(h) ==
    h.src[1] + h.src[2] + h.dst[1] + h.dst[2] + h.proto + payload_length(h)

-----------------------------------------------------------------------------
\* IPv4Datagram: what parsing the header returned is not looked at.

ipv4_datagram_parse(buffer) ==
    LET parsed == ipv4_header_parse(buffer)
        payload == remove_prefix(buffer, parsed.used)
    IN  IF Len(payload) # payload_length(parsed.header) THEN [result |-> "PacketTooShort"]
        ELSE [result |-> "NoError", header |-> parsed.header, payload |-> payload]

\* For a datagram whose payload has the length that its header says.
ipv4_datagram_serialize(dgram) ==
    LET zeroed == ipv4_header_serialize([dgram.header EXCEPT !.cksum = 0])
    IN  <<ipv4_header_serialize([dgram.header EXCEPT !.cksum = checksum(0, zeroed)]),
          dgram.payload>>

-----------------------------------------------------------------------------
\* EthernetHeader and EthernetFrame

TYPE_IPv4 == 2048
TYPE_ARP == 2054

ethernet_header_parse(b) ==
    [dst |-> SubSeq(b, 1, 6), src |-> SubSeq(b, 7, 12), type |-> u16(b, 12)]

ethernet_header_serialize(h) == h.dst \o h.src \o put_u16(h.type)

\* What is too short for a header leaves the frame's header as it was, all
\* zeros, and all of it becomes the payload; that is no error.
ethernet_frame_parse(b) ==
    IF too_short(b, 14)
    THEN [header |-> [dst |-> Zeros(6), src |-> Zeros(6), type |-> 0], payload |-> b]
    ELSE [header |-> ethernet_header_parse(b), payload |-> remove_prefix(b, 14)]

ethernet_frame_serialize(frame) == <<ethernet_header_serialize(frame.header), frame.payload>>

-----------------------------------------------------------------------------
\* ARPMessage

arp_supported(b) ==
    /\ u16(b, 0) = 1 /\ u16(b, 2) = TYPE_IPv4 /\ u8(b, 4) = 6 /\ u8(b, 5) = 4
    /\ u16(b, 6) \in {1, 2}

arp_message_parse(b) ==
    IF too_short(b, 28) THEN [result |-> "PacketTooShort"]
    ELSE IF ~arp_supported(b) THEN [result |-> "Unsupported"]
    ELSE [result |-> "NoError", opcode |-> u16(b, 6),
          sender_ethernet_address |-> SubSeq(b, 9, 14), sender_ip_address |-> u32(b, 14),
          target_ethernet_address |-> SubSeq(b, 19, 24), target_ip_address |-> u32(b, 24)]

arp_message_serialize(m) ==
    put_u16(1) \o put_u16(TYPE_IPv4) \o <<6, 4>> \o put_u16(m.opcode)
    \o m.sender_ethernet_address \o put_u32(m.sender_ip_address)
    \o m.target_ethernet_address \o put_u32(m.target_ip_address)
=============================================================================
