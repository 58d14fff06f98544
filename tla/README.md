# A TLA+ model of the sponge TCP/IP stack

This directory models the user-level TCP/IP stack in `src/libsponge`: TCP
(byte streams, reassembly, sender, receiver, connection, shutdown), the
Ethernet/ARP interface, the IP router, the network of
`apps/network_simulator.cc`, the adapters between TCP and the network with the
wire formats they read and write, and the two threads of a program around a
socket with their event loops. TLC checks the models on small instances, TLAPS
proves the properties of the parts that proofs reach for every value of the
constants.

`PROJECT.json` lists the components, the runs, the source lines behind every
definition, the hazards of the code and the properties that watch them.

## The system

| part | state | operations | module |
|---|---|---|---|
| `wrapping_integers` | none | `wrap`, `unwrap` | `WrappingIntegers`, `SequenceSpace` |
| `ByteStream` | buffer, counters, end mark, error | `write`, `peek_output`, `pop_output`, `read`, `end_input`, `set_error` | `ByteStream` |
| `StreamReassembler` | output stream, set of stored nodes, `_cur_idx`, `_input_end_idx`, `_unassembled_bytes` | `push_substring` | `StreamReassembler`, `Reassembly`, `ReassemblyLoop` |
| `TCPReceiver` | reassembler, peer's ISN | `segment_received`, `ackno`, `window_size` | `TCPReceiver` |
| `TCPSender` | stream, `_next_seqno`, `cur_ack_index`, `fin_ack_index`, outstanding segments, right edge, RTO, timer | `fill_window`, `ack_received`, `tick`, `send_empty_ack` | `TCPSender`, `Sending` |
| `TCPConnection`, `TCPState` | sender, receiver, linger flag, closed flag, idle time, outgoing queue | `connect`, `write`, `end_input_stream`, `segment_received`, `tick` | `TCPConnection` |
| `TCPSpongeSocket` | one connection, its datagram adapter and the pipe to the application | four event rules, the tick of `_tcp_loop`, `connect`, `listen_and_accept`, `wait_until_closed`, the destructor | `TCPSystem`, `TCPTimely`, `StreamCopy`, `Adapters` |
| `NetworkInterface` | ARP cache, pending frames, request times | `send_datagram`, `recv_frame`, `tick` | `NetworkInterface`, `Ethernet` |
| `Router` | routing table, interfaces | `add_route`, `route` | `RoutingTable`, `Routing`, `Router` |
| `network_simulator` | hosts, a router, links | `send_to`, `exchange_frames`, `route`, `check` | `Internet`, `MCInternet` |
| `EventLoop`, `FileDescriptor` | rules, descriptors with their flags | `wait_next_event`, `read`, `write`, `close` | `EventLoop`, `StreamCopy` |
| `bidirectional_stream_copy`, the socket's thread | two streams, shutdown flags; the socket pair | the rules of both threads, `wait_until_closed`, the destructor, `_tcp_main` | `StreamCopy` |
| adapters over UDP, TUN, TAP and lab7's socket pair, the lossy wrapper | the addresses of the connection, whether it listens, an interface | `read`, `write`, `tick` | `FdAdapter`, `Adapters` |
| wire formats, parser, buffers, checksum | none | `parse`, `serialize` | `Parser`, `WireFormats` |
| socket and tun wrappers, command lines | none of their own | system calls | left out |

Interactions. An application writes into the pipe; rule 2 hands the bytes to
`TCPConnection::write`, which has the sender cut them into segments; rule 4
gives the segments to the network. A segment that arrives (rule 1) goes to the
receiver, which feeds the reassembler, and its acknowledgment to the sender;
`clean` puts the receiver's current ackno and window on whatever the sender
wants sent. Rule 3 takes assembled bytes to the application, which reopens the
window. `tick` drives retransmission, the lingering at the end and the abort
after too many retransmissions.

An adapter writes the ports into a segment, serializes it and sends it as a UDP
payload, as an IPv4 datagram, or as an IPv4 datagram in an Ethernet frame. What
it reads it parses, checks and compares with the addresses of the connection;
while it listens, a SYN gives it these addresses.

On Ethernet, `send_datagram` puts a datagram into a frame for the Ethernet
address of its next hop. If that is unknown the frame waits, and an ARP
request goes out unless one did less than five seconds ago; the answer releases
what waits. A router takes the datagrams its interfaces received, looks up the
first matching route of its table and gives them to another interface.

What makes this hard: segments and acknowledgments are lost, repeated and
reordered; sequence numbers wrap; two timers and two closes race each other;
windows close and reopen; the ends of the streams are marks that travel with
or without data; ARP messages are lost while datagrams wait for them and
mappings expire; the order of the routing table decides where a datagram goes.
What correctness means: each direction is a reliable byte
stream (`ReliableStream`); what the sender forgets the peer has; nothing is
sent that the peer has no room for; a connection ends in an official final
state and only when both streams were delivered; and, if the network is good
enough, everything is delivered and both ends close. Below, a datagram reaches
its next hop, once, and does not wait for ever if the hop answers; what an
adapter passes up is what the peer's adapter was given; the longest matching
route is taken; a datagram arrives, leaves the network, or waits for an address
that nobody has.

## How the modules are built

A class is a record and its methods are operators on that record, named as in
the source (`ByteStream`, `StreamReassembler`, `TCPReceiver`, `TCPSender`,
`TCPConnection`, `NetworkInterface`, `RoutingTable`, `Router`). A method that calls another is an operator that applies the
other's operator, so an action of a machine is one whole handler with
everything it calls, `clean` and `check_close` included. The machines own the
records as variables:

* `SequenceSpace`: two ends of a stream advance; one wraps a number, the other
  unwraps it.
* `Reassembly`: pieces of a fixed stream arrive, cut anywhere and in any order,
  while a reader reads. `ReassemblyLoop` adds the merge loop of
  `push_substring` as it is written (iterator, one step back, early exit) and
  compares it with the set-based `touching`/`absorb` that the model and its
  proofs use.
* `Sending`: one sender, with writes, the end of the stream, ticks and
  acknowledgments of any prefix with any window.
* `TCPSystem`: two connections, one that connects and one that listens, with
  their applications and a network that loses, duplicates and reorders. In
  `TCPStreams`, `C2S` and `S2C` instantiate `ReliableStream` under a refinement mapping: what
  was written, what was read, whether the writer ended, whether the reader has
  seen the end.
* `TCPTimely`: the same system with a common clock, on a network that is fast
  compared with the timeout and loses a bounded number of segments; here
  liveness is checked. A timeout is several ticks, and a tick does not wait
  for the network: what is in transit when it comes (`late`) arrives or is lost
  before the next one, so that connections give up, retransmit and stop
  lingering with segments on their way to them.
* `StreamCopy`: a program's owner thread (`bidirectional_stream_copy`, then
  `wait_until_closed`) and the TCP thread of its socket, each with an
  `EventLoop`, and the kernel's pipes between them. `wait_next_event` is cut
  after `poll` and after each callback, so that callbacks act on answers of
  `poll` that the other thread has overtaken. The owner may also leave without
  waiting, after the copying or, by an exception, out of any state of it: the
  socket's destructor then stores `_abort` and joins. The connection is
  abstract here.
* `Adapters`: a server that listens and clients that were told to connect to it,
  with one kind of adapter, on a network that loses, reorders, hands packets to
  the wrong host, and damages them: any byte may change and, except over UDP,
  whose length the kernel checks, the end may be missing. Packets are bytes here: `WireFormats` has
  every field of every header, and `Parser` the checksum.
* `Ethernet`: hosts with one interface each on a link that loses a frame, or
  garbles it, for any of the hosts, and whose clocks run apart. `sinceArp` and
  `sinceLearnt` are history variables: how long ago a host last asked for, or
  heard from, another one.
* `Routing`: routes are added in any order to one table.
* `Internet`: hosts and routers joined by links that lose nothing, every step
  interleaved with every other. `MCInternet` has the topology and the routes of
  `network_simulator.cc`, with addresses of six bits.

Names that start with `Mut` are not part of the model. Each is the definition
that follows it with a plausible bug, and some property notices it; the pairs
are in `PROJECT.json`.

Abstractions. The k-th byte written by an application is the number k in
`Sending` and `TCPSystem`, so that the place of a byte can be read off its
value. Segments carry the header fields the state machines read; a corrupted
segment is a lost one there, as it is for the damage that `Adapters` tries. `MaxInt` stands for 2^32.
Times are in units of the initial timeout or less; the only comparisons the
code makes are with the RTO and with ten timeouts, so `idle` is counted up to
that limit. `Transmit` moves queued segments to the network at the end of the
handler that queued them: rule 4 runs whenever the queue is not empty, and a
segment that stays queued is one the network delays. The network is a set per
direction: a segment stays in it, and can be delivered again, until it is
lost.

In `StreamCopy` the connection is two streams from and to the remote end that
close when both have ended, or are reset: what `TCPSystem` shows of it. A read
or write moves any part of what it could. The end of stdin is something to read
for a file or terminal and a hangup for a pipe. A socket that is shut both ways
is readable, hangs up, and is writable as long as it has room; writing into it
is SIGPIPE, except with nothing to write. Signals, errors on a descriptor and
the busy-wait test of `wait_next_event` are left out (every callback here reads
or writes its descriptor).

In `WireFormats` a `uint32_t` is the pair of its halves, because TLC's numbers
have 32 bits with a sign. A parser that has failed is a result other than
`NoError`; the record has the header only where the code goes on to use it. A
`BufferList` is a sequence of byte sequences, and shared storage, which nobody
writes to, is not modelled. What TAP and lab7's adapter do with an
interface is that of `NetworkInterface`, whose frames become bytes at the device.

A datagram in `Ethernet` is a name with its sender and its next hop; in
`Internet` it has a destination, a time to live and a payload. A frame's
payload is a datagram, an ARP message or `Garbled`, which stands for whatever
`parse` refuses. `tick` of the interface erases the entry its loop stands on
and goes on reading it, which is undefined. The constant `Erasures` says which
outcomes are allowed: what the code means, a mapping that stays although its
time is erased (or a loop that ends early), and a crash. The order of the
`std::set` of routes is not a strict weak order, since a direct route is less
than everything, itself included; `insert` therefore follows the library's
algorithm (descend by `less`, then compare with the predecessor), which for
this order comes to one place in a sequence. Addresses have `Width` bits and
`match` shifts by `Width - prefix_length`. A shift by all of them is undefined;
`shr` does what the x86 instruction does, nothing, so that the special case of
`match` is needed for a default route. The decimal string through which
`route_one_datagram` passes a direct next hop is read back as the same address.

## The runs

| run | instance | what it shows |
|---|---|---|
| `sequence_space` | 8 raw values, 25 absolute ones, every ISN | `unwrap` returns a number that wraps to its argument, and the closest one. Three blocks are enough for every case of the code: no block to the left, a block on both sides. |
| `reassembly` | 7 bytes, capacity 6 | every cut in every order, end mark with, before or after the data, reads in between: prefix, separation, capacity, end signalled exactly when it should be; the loop as written agrees with the sets; everything is delivered. Three stored nodes can coexist and be bridged by one piece. |
| `sending` | 4 bytes, payload 2, window 0..4, 2 retransmissions, ISN two below the wrap | the outstanding segments tile the sequence space, the window is kept, timer and backoff are right, nothing is taken back, and the timer always fires. |
| `tcp_transfer` | client writes 2 bytes, both end, receive buffers of 2, 2+1 segments in transit | every order of open, data, close, simultaneous close, loss, duplicate and abort: acknowledged implies assembled, windows are never overrun, both directions implement `ReliableStream`, a clean close means every byte of both streams was delivered, states move along the official diagram. |
| `tcp_timely` | 1 byte from the client, 2 losses, a timeout of 3 ticks, `MAX_RETX_ATTEMPTS` 3, lingering of 4 timeouts | everything delivered, both ends in CLOSED, no abort, whatever segments are lost and whatever is in transit on a tick. |
| `stream_copy` | 2 bytes from stdin, up to 2 from the remote end, pipes of 1 byte, streams of 2, stdin a pipe or a file, resets, an owner that leaves at any time | bytes pass through both threads in order and once, ends only behind them; nobody writes into a socket the other thread has shut unless there was a reset; the program ends, whichever thread is where when the destructor aborts. |
| `adapters` | a server, two clients (one on Ethernet), 2 segments of each client and one of the server, any one byte off by 17 (both its halves change), 1 or 4 bytes cut off (not over UDP) | what is passed up is, field by field, what the peer wrote to this host; an intact packet is never refused; a server turns to one client, by its SYN. The payload has an odd length and ends in a zero, which a checksum does not miss; the sequence number is 2^32 - 1. |
| `ethernet_two_way` | 2 hosts, `ArpRetry` 1, `CacheTTL` 2, a clock of 3, all outcomes of erasing | a datagram reaches the owner of its next hop and nobody else, is never in two places, is never dropped by an interface; mappings are kept as long as they should be and requests are spaced, also when the clock wraps. |
| `ethernet_live` | 2 hosts, 1 loss, `ArpRetry` 2, `CacheTTL` 3 | where erasing does what the code means, mappings end when they should; every waiting datagram is sent. |
| `routing_table` | 3-bit addresses, up to 4 routes, direct and not | `match` compares the high bits, none and all of them included, and where routes are separated (below) the longest match is taken. |
| `routing_direct` | a direct route and longer ones through a gateway | violation |
| `internet` | the simulator's network, its default router sending back what it gets; 5 datagrams | in every order of steps each host receives its datagrams, once, with one hop taken from the time to live, and nothing else; everything arrives; what is meant for nobody goes around until its time to live ends it, or waits at the router for an address that no host has. |

How many losses TCP survives depends on its constants, and the three properties
of `tcp_timely` say on what. Delivery needs fewer losses than attempts
(`RetransmissionsSuffice`). That nobody gives up and both ends reach CLOSED needs in
addition a lingering end that is still there when the last FIN comes, after
2^losses - 1 timeouts (`LingerSuffices`). With the values of the code, 8 attempts
(`tcp_config.hh:17`) and ten timeouts (`tcp_connection.cc:28`), that is three
losses. Four are too many: when the acknowledgment of a FIN is lost, and so are
the FINs sent again after 1, 3 and 7 timeouts, the next one is sent after 15,
the lingering end has closed after ten, and the other retransmits until it
aborts, with everything delivered. The instance has the fewest attempts and the
shortest lingering, 3 and four timeouts, that meet both limits for 2 losses.
TLC finds `NoFalseAbort` without its premise violated with 3 losses and 3
attempts, and with 4 losses, 8 attempts and ten timeouts; with 3 losses, 4
attempts and ten timeouts it holds.

`ethernet_two_way` and `ethernet_live` have two hosts, since three are beyond
TLC's reach here: a message that a third host overhears is the concern of the
theorem about `ReachesItsHop`. In `ethernet_live` one host sends: with traffic
both ways datagrams may be left waiting (see below, `network_interface.cc:91`).

`CHECK_DEADLOCK FALSE` is set where the system really stops: two counters at
their bound, two connections that are closed, a network in which everything
has arrived, a routing table with all its routes, a program that has ended.

The bounds on bytes and segments in transit are the named constants
`MaxBytes`, `MaxInTransit`, `MaxLosses`, `MaxWindow`, `MaxRetx`; on the
Ethernet `MaxOut` bounds the frames that wait for the link when a datagram is
sent, and in the table `MaxRoutes` the routes. Initial
sequence numbers sit just below the wrap in every TCP run, so that SYN, data
and FIN lie on both sides of it.

Fairness. `Reassembly`: the byte that is missing keeps being offered and the
reader keeps reading, which is what a retransmitting peer and rule 3 do.
`Sending`: only that `tick` keeps being called, as `_tcp_loop` does.
`TCPTimely`: weak fairness of the applications' steps, which are finitely many,
and of all steps together, which says that event loops, clock and network do
not stop as long as any step changes something. The enabling conditions are
written out as state predicates (`AppReady`, `Busy`), because TLC evaluates
`ENABLED` of these actions slowly; they leave no state out, so that a state in
which the system is stuck for ever would count against it. `Ethernet`: the link
carries, clocks are ticked and datagrams are taken; and, because a lost request
is only repeated by another `send_datagram`, an application whose datagram
still waits sends another one to the same hop after the retry time
(`SendWhenDue`), as a retransmitting TCP does. `Internet`: `simulate`
does not stop while there is something to do. `StreamCopy`: both threads are
scheduled, stdout is read and the remote end takes what is sent, again with
the enabling conditions written out (`OwnerBusy`, `ThreadBusy`); an exception
need not happen, nobody has to type, and the remote end may keep its stream
open until it has seen the end of ours.

## Where code and documentation disagree

With a run: a direct route hides a longer one through a gateway
(`routing_direct`).

Met while modelling, and modelled as the code has them:

* A FIN that does not fit the window is not sent, but `stream_both_eof`
  (`tcp_connection.cc:34`) takes the end of the outbound stream and nothing in
  flight for an acknowledged FIN. An endpoint whose peer ended first, and whose
  last bytes filled the peer's window, then becomes inactive in a state that is
  neither CLOSED nor RESET, the two that `tcp_state.hh:46-47` has for that, and
  its peer never sees the end. The proof of `CleanCloseMeansDelivered` found
  the place: the property asks for every byte in both directions, and for the
  end of a stream unless its FIN was never sent.
* The RST that `tcp_sponge_socket.hh:125-126` promises when a socket is
  destructed early is not sent: `~TCPConnection` queues it, and the queue dies
  with the connection (`tcp_sponge_socket.cc:268`).
* `IPv4Datagram::parse` ignores what `IPv4Header::parse` returns
  (`ipv4_datagram.cc:13`): a wrong version or a bad header checksum is accepted.
  In `adapters`, where one byte is changed or the end is cut off, nothing wrong
  reaches TCP all the same, since TCP's checksum covers the addresses. Likewise `TCPSegment::parse` accepts a `doff`
  below five.
* The UDP adapter does not look at the ports in the TCP header, although its
  comment says that it does (`fd_adapter.cc:12-14`); a UDP client writes 0 for its own.
* The lossy adapter drops a segment after the adapter below has read it
  (`lossy_fd_adapter.hh:44`): a server may have stopped listening because of a
  SYN its connection never sees. It then waits for this client to repeat it.
* A longer stream is ended after 2^32 - 1 bytes, without an eof:
  `_input_end_idx` uses `UINT32_MAX` for "not known"
  (`stream_reassembler.hh:32`). `EndsOnlyWhenComplete` is therefore proved of
  streams up to that length.
* After a zero window, bytes written while nothing is in flight are not sent
  and no timer runs (`tcp_sender.cc:102`): the extra byte is only granted inside
  `ack_received`. If the window update is lost the connection waits for ever.
  `tcp_timely` has windows that do not close.
* `connect()` returns when an ACK without SYN overtakes the SYN
  (`tcp_sponge_socket.cc:226`).
* After a reset, rule 3 shuts the pipe to the application whether or not its
  write took everything (`tcp_sponge_socket.cc:136`), although the comment at
  line 128 speaks of "handling the possibility of a partial write"; bytes that
  are left keep the rule interested, and its next write ends in SIGPIPE
  (`WriteDownBroken`). The owner's thread meets the same when it has bytes for
  a connection that was reset (`WriteSocketBroken`).
* `poll` reports a hangup also for a rule that did not ask (`eventloop.cc:86`),
  and `wait_next_event` then does nothing: while stdin, a closed pipe, waits for
  room in the outbound stream, or after a reset while stdin stays open, the
  owner's loop spins. In the model such a round is no step.
* An ARP request from the host that datagrams wait for teaches its address but
  does not release them (`network_interface.cc:91`); later datagrams overtake
  them, and they leave after the mapping has expired.
* The erasure under the loop of `tick` (`network_interface.cc:126`): a build may
  crash or keep the mapping. `GoneAfterThirtySeconds` holds of the others.
* Of two routes through gateways with the same length the second is not added
  (`router.hh:66`), whatever their prefixes. `RoutesKept` says which routes are.
* A datagram for an address of an attached network that no host has waits in
  the router's interface for ever (`network_interface.cc:43`).

## What is proved

Each theorem is about every value of the constants that the named assumptions
allow. Module by module, from the bottom:

`TCPReceiverProofs` (lemmas) and `ReceivingProofs` (theorems), sequence numbers:
for every modulus of at least two, every ISN and every pair of counters,
`unwrap` inverts `wrap` within half the space, never underflows, and returns a
number no other candidate is closer than. Two numbers wrap to the same value
exactly when they differ by a multiple of the modulus; the candidate of `unwrap`
is congruent to the wrapped number and less than one modulus from the
checkpoint; the case distinction of the code then picks the nearest of three.

The same two modules, reassembly: for every stream over every set of bytes,
every capacity and every sequence of pieces and reads: types,
`AssembledIsPrefix`, `SegmentsSeparated`, `CapacityRespected`, `EndIsNotMissed`,
the action property `NothingForgotten`, and, for streams of at most `UINT32_MAX`
bytes, `EndsOnlyWhenComplete`. None of the properties is inductive by itself:
that the merged node holds the stream's bytes needs that the stored nodes do,
that at most one stored node sticks out on either side needs separation, and
that trimming leaves a node within the window needs the position of the output.
`ReassemblerCore` joins these (`OutputCore`, `StoreCore`) and `EndSeen` has the
state of the end mark. A node holding bytes a..b of the stream is a
`Piece(a, b)`; lemmas reduce trimming, merging and writing of pieces to
arithmetic on a and b, and each operation of `push_substring` is shown to keep
the core before `PushKeepsCore` puts them together. The lemmas are about any
reassembler and any stream, so that they serve `Reassembly`, whose stream is
given, and `TCPSystem`, whose stream is what the peer has sent so far
(`GrowthKeepsCore`).

`TCPSenderProofs` (lemmas) and `SendingProofs` (theorems): for every payload
size, capacity, ISN, timeout and order of writes, ticks and acknowledgments:
`FlightTiled`, `WindowRespected`, `TimerAndBackoff`, and the action property
`NothingTakenBack`. The invariant `SenderSound` has the types, the outstanding
segments as a tiling of the numbers from `cur_ack_index` to `_next_seqno`
(`Tiled`), the bytes that wait (`Waiting`), how the counters of the stream,
`_next_seqno` and `fin_ack_index` go together (`Numbered`), the timer (`Timed`)
and the window. `CutTiled` shows that the segments of one `send_data` tile what
was read, `TiledConcat` and `TiledDrop` that sending and acknowledging keep a
tiling. An acknowledgment is one that a peer can give: at most what was sent.
The doubling of the RTO rests on the law of powers up to `MaxRetx`
(`PowersAssumption`), which the provers do not know and TLC evaluates.

`TCPEndpointProofs` (lemmas) and `TCPSystemProofs` (theorems), two connections
and the network between them: for every pair of capacities, ISNs, payload size,
window, timeout and limits, and a network that loses, repeats, delays and
reorders without bound, `AckedIsAssembled`, `WindowNeverOverrun`,
`CleanCloseMeansDelivered`, and `BothWaysReliable`: the initial states and all
steps map to those of `ReliableStream`, in both directions at once. The one
assumption that is not a type is that a direction uses less than half of the
sequence space (`SystemAssumption`): the network may keep a segment for ever, and
`unwrap` takes an old number for a new one beyond that. With 2^32 numbers this
is streams of up to 2 GiB; longer ones need a bound on the age of segments,
which neither the code nor the model has.

The argument. No property of the two ends is inductive without what is in
transit, where any old segment may still be. So the invariant `IInv` says of
each segment only what stays true for ever: it carries bytes of its sender at
their own numbers, and its SYN and FIN where they belong (`Carries`); its ackno
is at most what its sender has assembled, and ackno plus window at most the edge
of the space it has (`Tells`), both of which only grow. Of a direction, sender
and receiver, `Link` says that the receiver is a sound reassembler of what the
sender has sent so far, and that the sender knows of the receiver nothing but
the truth. `Own` says what is true of an endpoint and of what it has sent, `Good`
adds the peer and both links. A method changes one endpoint, so the lemmas of
`TCPEndpointProofs` are about a `Good` endpoint in the middle of a call
(`GoodInput`, `GoodAck`, `GoodClean`, `GoodTick` ...), and those of
`TCPSystemProofs` that begin it compose them to whole calls (`FillDone`, `WriteDone`,
`EndDone`, `ShutdownDone`, `ReceiveDone`, `TickDone`): afterwards the endpoint is
`Good`, nothing is left queued in the sender, and if it closed cleanly both
streams were at their end (`Closed`). `StepKeeps` puts such an endpoint back
into the system. A segment that arrives is placed by `unwrap` against
the receiver's own counter; the half of the sequence space makes that the
number it was sent with, and `PushKeepsCore` does the rest. For the refinement, what
a step may do to a receiver and to a stream (`Forward`) is shown to be a step of
`ReliableStream` or none.

`RoutingProofs`: for every width, every set of routes and every order of adding
them, the table holds every direct route, the first route of each length
through a gateway and nothing that was not added (`RoutesKept`), stays in the
order that `insert` relies on (direct routes first, then strictly shorter ones),
and the first
match is a longest one where the routes are `Separated`: no two routes through
gateways with one length, and no direct route that overlaps a longer one,
unless that one is direct too and was added later (it then comes first). The
inductive invariant joins the order with three facts about what was added: a
route that was added is in the table, or one through a gateway with its length
is (`Known`); if it is direct or the first of its length, it is itself (`Kept`);
a route in the table was added, and the direct routes added after a direct one
stand before it (`LaterFirst`). `PlaceExists` and `InsertShape` say where
`insert` puts a route; the other lemmas follow the conjuncts through it.

`EthernetProofs`: for any hosts and datagrams, any bounds, any losses and
whatever erasing under the loop of `tick` does, `ReachesItsHop`. The property
speaks of frames with datagrams and of datagrams received; what keeps it true
is elsewhere. The inductive invariant says of each interface (`Sound`) that
every mapping is the true one, that the sender in every ARP message on its way
is, and that what waits for a hop is meant for it. A lemma for each method of
`NetworkInterface` shows that it keeps an interface sound. The argument needs
that no host has the broadcast address (`BroadcastAssumption`), and that hosts
tell the truth in ARP messages, which in this model all do.

The lists `HIDE DEF` name the facts that a section does not use: the prover
looks through every fact that it can see.

Only model-checked: liveness, which is out of the prover's reach
(`AllDelivered`, `FlightResolved`, `BothClose` and their like); `OfficialMoves`,
which compares all pairs of the states' summaries; `NoFalseAbort`, which needs
the timing of `TCPTimely` and powers of two; `LoopAgrees` (the loop
is a recursion over the stored nodes); `MatchesHighBits` (powers of two);
`StreamCopy`, `Adapters` and `Internet`, whose states the runs cover; and of
`Ethernet` the properties of time and number (`OneCopy`, `KeptThirtySeconds`,
`GoneAfterThirtySeconds`).

## Not modelled

* The wrappers of system calls (`socket.cc`, `tun.cc`, `address.cc`, most of
  `file_descriptor.cc`): what they do is done by the kernel.
* The command lines of `apps/`, which configure the parts modelled here. Of
  `lab7.cc` the adapter is modelled and its network thread is not: it
  passes frames between the host, a router and a UDP socket and ticks the
  interfaces by 50 after every event. The router and its interfaces are those of
  `Internet`, which has another topology and no ticks.
  `webget.cc` uses a class that the repository does not define.
* Strings for humans: `to_string`, `summary`, names of states, debug output.
* Signals, errors on a descriptor, and the busy-wait test of the event loop.
* The RST of `~TCPConnection`, which is lost with the object.
* Overflow of the 32-bit times of a connection (49 days).
