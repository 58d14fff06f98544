------------------------------- MODULE StreamCopy -------------------------------
(***************************************************************************)
(* A program around a TCPSpongeSocket (tcp_ipv4.cc, tcp_udp.cc).  Its      *)
(* owner thread runs bidirectional_stream_copy, then wait_until_closed (or *)
(* leaves the connection to the destructor of the socket, at the end or by *)
(* an exception in mid-copy); its TCP thread runs _tcp_main; the two meet  *)
(* in a pair of sockets, "up" to the TCP thread and "down" from it.        *)
(*                                                                         *)
(* The TCPConnection is taken for what it promises (TCPSystem checks it):  *)
(* bytes leave its outbound stream for the remote end and come into its    *)
(* inbound stream in order; it closes when both streams have ended, or is  *)
(* reset.  A pipe of the kernel holds PipeSize bytes; once it is shut its  *)
(* reader gets what is left and then the end of the file, its writer       *)
(* EPIPE.  A read or write moves any part of what it could.                *)
(***************************************************************************)
EXTENDS EventLoop, ByteStream

CONSTANTS PipeSize, Capacity,  \* of the kernel's pipes, of the ByteStreams
          MaxTyped, MaxSent,   \* bounds: bytes on stdin, bytes of the remote end
          Resets               \* whether the connection may be reset

ASSUME SizesAssumption ==
  /\ PipeSize \in Nat \ {0} /\ Capacity \in Nat \ {0}
  /\ MaxTyped \in Nat /\ MaxSent \in Nat /\ Resets \in BOOLEAN

VARIABLES owner,   \* the event loop of the owner thread
          copy,    \* bidirectional_stream_copy: its streams, flags and descriptors
          thread,  \* the event loop of the TCP thread
          tcp,     \* the TCP thread: its connection and flags
          pipe,    \* "stdin", "up", "down" and "stdout"
          typed,   \* bytes 1 .. typed were written to stdin
          sent,    \* bytes 1 .. sent came from the remote end
          got,     \* what the remote end got
          shown    \* what the reader of stdout got

vars == <<owner, copy, thread, tcp, pipe, typed, sent, got, shown>>

\* stdin is a pipe, whose end is a hangup, or a file or terminal, where it is
\* something to read.
Init ==
  /\ owner = NewLoop(<<"input", "to socket", "from socket", "output">>)
  /\ \E hangs_up \in BOOLEAN :
       copy = [outbound |-> NewByteStream(Capacity), inbound |-> NewByteStream(Capacity),
               outbound_shutdown |-> FALSE, inbound_shutdown |-> FALSE,
               input_eof |-> FALSE, socket_eof |-> FALSE, output_closed |-> FALSE,
               input_hangs_up |-> hangs_up]
  /\ thread = NewLoop(<<"datagram", "up", "down">>)
  /\ tcp = [outbound |-> NewByteStream(Capacity), inbound |-> NewByteStream(Capacity),
            outbound_shutdown |-> FALSE, inbound_shutdown |-> FALSE,
            thread_data_eof |-> FALSE, active |-> TRUE, abort |-> FALSE]
  /\ pipe = [p \in {"stdin", "up", "down", "stdout"} |-> [bytes |-> <<>>, shut |-> FALSE]]
  /\ typed = 0 /\ sent = 0 /\ got = <<>> /\ shown = <<>>

free(p) == PipeSize - Len(pipe[p].bytes)
readable(p) == pipe[p].bytes # <<>> \/ pipe[p].shut

\* What a read of up to limit bytes, and a write of data, may move.
ReadSizes(p, limit) ==
  {n \in 0..min(limit, Len(pipe[p].bytes)) : n > 0 \/ pipe[p].bytes = <<>>}
WriteSizes(p, data) == {n \in 0..min(Len(data), free(p)) : n > 0 \/ data = <<>>}

broken(p, data) == pipe[p].shut /\ data # <<>>

first_bytes(p, n) == SubSeq(pipe[p].bytes, 1, n)
taken(q, n) == [q EXCEPT !.bytes = SubSeq(@, n + 1, Len(@))]
given(q, data) == [q EXCEPT !.bytes = @ \o data]
shutdown(q) == [q EXCEPT !.shut = TRUE]
shutdown_if(condition, q) == IF condition THEN shutdown(q) ELSE q

\* A socket hangs up when it is shut both ways.
hangs_up_both == pipe["up"].shut /\ pipe["down"].shut

-----------------------------------------------------------------------------
\* bidirectional_stream_copy.

copy_ended ==
  {r \in ToSet(owner.rules) :
     \/ r = "input" /\ copy.input_eof
     \/ r = "from socket" /\ copy.socket_eof
     \/ r = "output" /\ copy.output_closed}

MutNoEndOnCancel(c, r) == c

copy_cancel(c, r) ==
  IF r \in {"input", "to socket"} THEN [c EXCEPT !.outbound = end_input(@)]
  ELSE [c EXCEPT !.inbound = end_input(@)]

\* Nothing sets an error on these two streams.
copy_interest(c, r) ==
  CASE r = "input" -> remaining_capacity(c.outbound) > 0
    [] r = "to socket" ->
         buffer_size(c.outbound) > 0 \/ (eof(c.outbound) /\ ~c.outbound_shutdown)
    [] r = "from socket" -> remaining_capacity(c.inbound) > 0
    [] r = "output" ->
         buffer_size(c.inbound) > 0 \/ (eof(c.inbound) /\ ~c.inbound_shutdown)

\* wait_next_event(-1).  A cancel only ends a stream, which only a later rule
\* looks at.
copy_cancelled == FoldSet(LAMBDA r, c : copy_cancel(c, r), copy, copy_ended)
copy_ready ==
  {r \in ToSet(owner.rules) :
     CASE r = "input" ->
            pipe["stdin"].bytes # <<>> \/ (pipe["stdin"].shut /\ ~copy.input_hangs_up)
       [] r = "to socket" -> free("up") > 0
       [] r = "from socket" -> readable("down")
       [] r = "output" -> free("stdout") > 0}
copy_hup ==
  (IF pipe["stdin"].shut THEN {"input"} ELSE {})
  \cup (IF hangs_up_both THEN {"to socket", "from socket"} ELSE {})
copy_polled ==
  wait_next_event(owner, copy_ended,
                  {r \in ToSet(owner.rules) : copy_interest(copy_cancelled, r)},
                  copy_ready, copy_hup)

CopyWait ==
  /\ waiting(owner) /\ ~waiting(copy_polled)
  /\ owner' = copy_polled
  /\ copy' = copy_cancelled
  /\ UNCHANGED <<thread, tcp, pipe, typed, sent, got, shown>>

CopyCancel ==
  /\ \E r \in {"input", "to socket", "from socket"} :
       serves(owner, r, TRUE) /\ copy' = copy_cancel(copy, r)
  /\ owner' = erased(owner)
  /\ UNCHANGED <<thread, tcp, pipe, typed, sent, got, shown>>

\* Rule 1: from stdin into the outbound stream.
ReadInput ==
  /\ serves(owner, "input", FALSE)
  /\ \E n \in ReadSizes("stdin", remaining_capacity(copy.outbound)) :
       /\ copy' = [copy EXCEPT
             !.outbound = IF n = 0 THEN end_input(@) ELSE stream_write(@, first_bytes("stdin", n)),
             !.input_eof = (n = 0)]
       /\ pipe' = [pipe EXCEPT !["stdin"] = taken(@, n)]
  /\ owner' = called(owner)
  /\ UNCHANGED <<thread, tcp, typed, sent, got, shown>>

\* Rule 2: from the outbound stream into the socket.
WriteSocket ==
  LET data == peek_output(copy.outbound, buffer_size(copy.outbound))
  IN  /\ serves(owner, "to socket", FALSE)
      /\ ~broken("up", data)
      /\ \E n \in WriteSizes("up", data) :
           LET rest == pop_output(copy.outbound, n)
           IN  /\ copy' = [copy EXCEPT !.outbound = rest,
                                       !.outbound_shutdown = @ \/ eof(rest)]
               /\ pipe' = [pipe EXCEPT !["up"] =
                              shutdown_if(eof(rest), given(@, SubSeq(data, 1, n)))]
      /\ owner' = called(owner)
      /\ UNCHANGED <<thread, tcp, typed, sent, got, shown>>

\* The same rule after the TCP thread has ended: SIGPIPE.
WriteSocketBroken ==
  /\ serves(owner, "to socket", FALSE)
  /\ broken("up", copy.outbound.buffer)
  /\ owner' = [owner EXCEPT !.pc = "killed"]
  /\ UNCHANGED <<copy, thread, tcp, pipe, typed, sent, got, shown>>

\* Rule 3: from the socket into the inbound stream.
ReadSocket ==
  /\ serves(owner, "from socket", FALSE)
  /\ \E n \in ReadSizes("down", remaining_capacity(copy.inbound)) :
       /\ copy' = [copy EXCEPT
             !.inbound = IF n = 0 THEN end_input(@) ELSE stream_write(@, first_bytes("down", n)),
             !.socket_eof = (n = 0)]
       /\ pipe' = [pipe EXCEPT !["down"] = taken(@, n)]
  /\ owner' = called(owner)
  /\ UNCHANGED <<thread, tcp, typed, sent, got, shown>>

\* Rule 4: from the inbound stream to stdout, which is closed at the end.
WriteOutput ==
  LET data == peek_output(copy.inbound, buffer_size(copy.inbound))
  IN  /\ serves(owner, "output", FALSE)
      /\ \E n \in WriteSizes("stdout", data) :
           LET rest == pop_output(copy.inbound, n)
           IN  /\ copy' = [copy EXCEPT !.inbound = rest,
                                       !.inbound_shutdown = @ \/ eof(rest),
                                       !.output_closed = @ \/ eof(rest)]
               /\ pipe' = [pipe EXCEPT !["stdout"] =
                              shutdown_if(eof(rest), given(@, SubSeq(data, 1, n)))]
      /\ owner' = called(owner)
      /\ UNCHANGED <<thread, tcp, typed, sent, got, shown>>

\* wait_until_closed: shutdown(SHUT_RDWR), then join.
WaitUntilClosed ==
  /\ owner.pc = "exit"
  /\ owner' = [owner EXCEPT !.pc = "join"]
  /\ pipe' = [pipe EXCEPT !["up"] = shutdown(@), !["down"] = shutdown(@)]
  /\ UNCHANGED <<copy, thread, tcp, typed, sent, got, shown>>

\* ~TCPSpongeSocket of a socket that nobody waited for: _abort, then join.  An
\* exception (a read, a write or a poll that fails) leads here out of any
\* state of the copying, and its descriptors are closed on the way.
Leave ==
  /\ owner.pc \in {"run", "exit"}
  /\ owner' = [owner EXCEPT !.pc = "join"]
  /\ tcp' = [tcp EXCEPT !.abort = TRUE]
  /\ pipe' = [pipe EXCEPT !["stdout"] = shutdown(@)]
  /\ UNCHANGED <<copy, thread, typed, sent, got, shown>>

Join ==
  /\ owner.pc = "join" /\ thread.pc = "ended"
  /\ owner' = [owner EXCEPT !.pc = "done"]
  /\ UNCHANGED <<copy, thread, tcp, pipe, typed, sent, got, shown>>

Owner ==
  \/ CopyWait \/ CopyCancel \/ ReadInput \/ WriteSocket \/ WriteSocketBroken
  \/ ReadSocket \/ WriteOutput \/ WaitUntilClosed \/ Leave \/ Join

-----------------------------------------------------------------------------
\* The TCP thread.

thread_ended == {r \in ToSet(thread.rules) : r = "up" /\ tcp.thread_data_eof}

\* Only the rule that reads the socket has something to do on cancellation.
thread_cancel(c, r) ==
  IF r = "up" THEN [c EXCEPT !.outbound = end_input(@), !.outbound_shutdown = TRUE] ELSE c

MutDownWhileActive(c, r) ==
  c.active /\ CASE r = "datagram" -> TRUE
                [] r = "up" -> ~c.outbound_shutdown /\ remaining_capacity(c.outbound) > 0
                [] r = "down" -> \/ buffer_size(c.inbound) > 0
                                 \/ eof(c.inbound) /\ ~c.inbound_shutdown

thread_interest(c, r) ==
  CASE r = "datagram" -> c.active
    [] r = "up" -> c.active /\ ~c.outbound_shutdown /\ remaining_capacity(c.outbound) > 0
    [] r = "down" ->
         \/ buffer_size(c.inbound) > 0
         \/ (eof(c.inbound) \/ c.inbound.error) /\ ~c.inbound_shutdown

\* What the connection can do, given a datagram: take a byte, take the end of
\* the remote stream, get a byte across, close.
may_arrive ==
  tcp.active /\ ~tcp.inbound.inputEnd /\ remaining_capacity(tcp.inbound) > 0 /\ sent < MaxSent
may_end == tcp.active /\ ~tcp.inbound.inputEnd
may_cross == tcp.active /\ buffer_size(tcp.outbound) > 0
may_close == tcp.active /\ tcp.inbound.inputEnd /\ eof(tcp.outbound)
may_reset == tcp.active /\ Resets
may_happen == may_arrive \/ may_end \/ may_cross \/ may_close \/ may_reset

Arrive ==
  /\ may_arrive
  /\ sent' = sent + 1
  /\ tcp' = [tcp EXCEPT !.inbound = stream_write(@, <<sent + 1>>)]
  /\ UNCHANGED got
RemoteEnd ==
  /\ may_end
  /\ tcp' = [tcp EXCEPT !.inbound = end_input(@)]
  /\ UNCHANGED <<sent, got>>
Cross ==
  /\ may_cross
  /\ got' = got \o peek_output(tcp.outbound, 1)
  /\ tcp' = [tcp EXCEPT !.outbound = pop_output(@, 1)]
  /\ UNCHANGED sent
Close ==
  /\ may_close
  /\ tcp' = [tcp EXCEPT !.active = FALSE]
  /\ UNCHANGED <<sent, got>>
Reset ==
  /\ may_reset
  /\ tcp' = [tcp EXCEPT !.active = FALSE, !.inbound = set_error(@), !.outbound = set_error(@)]
  /\ UNCHANGED <<sent, got>>

\* wait_next_event(TCP_TICK_MS) with the rules of _initialize_TCP; arrived: a
\* datagram is there.
thread_cancelled == FoldSet(LAMBDA r, c : thread_cancel(c, r), tcp, thread_ended)
thread_ready(arrived) ==
  {r \in ToSet(thread.rules) :
     CASE r = "datagram" -> arrived
       [] r = "up" -> readable("up")
       [] r = "down" -> free("down") > 0}
thread_polled(arrived) ==
  wait_next_event(thread, thread_ended,
                  {r \in ToSet(thread.rules) : thread_interest(thread_cancelled, r)},
                  thread_ready(arrived), IF hangs_up_both THEN {"up", "down"} ELSE {})

ThreadWait(arrived) ==
  /\ waiting(thread) /\ ~tcp.abort /\ ~waiting(thread_polled(arrived))
  /\ thread' = thread_polled(arrived)
  /\ tcp' = thread_cancelled
  /\ UNCHANGED <<owner, copy, pipe, typed, sent, got, shown>>

\* Rule 1, with all that the connection makes of the datagram.
Datagram ==
  /\ serves(thread, "datagram", FALSE)
  /\ Arrive \/ RemoteEnd \/ Cross \/ Close \/ Reset
  /\ thread' = called(thread)
  /\ UNCHANGED <<owner, copy, pipe, typed, shown>>

\* _tcp_loop sees _abort after its wait.  The wait that was going on when it
\* was set counts as one before: the owner does nothing in between.
ThreadAbort ==
  /\ waiting(thread) /\ tcp.abort
  /\ thread' = [thread EXCEPT !.pc = "exit"]
  /\ UNCHANGED <<owner, copy, tcp, pipe, typed, sent, got, shown>>

\* tick: the time to linger is over, or there were too many retransmissions.
Tick ==
  /\ waiting(thread) /\ ~tcp.abort
  /\ Close \/ Reset
  /\ UNCHANGED <<owner, copy, thread, pipe, typed, shown>>

\* Rule 2: from the socket into the connection.
ReadUp ==
  /\ serves(thread, "up", FALSE)
  /\ \E n \in ReadSizes("up", remaining_capacity(tcp.outbound)) :
       /\ tcp' = [tcp EXCEPT
             !.outbound = IF n = 0 THEN end_input(@) ELSE stream_write(@, first_bytes("up", n)),
             !.outbound_shutdown = (n = 0), !.thread_data_eof = (n = 0)]
       /\ pipe' = [pipe EXCEPT !["up"] = taken(@, n)]
  /\ thread' = called(thread)
  /\ UNCHANGED <<owner, copy, typed, sent, got, shown>>

MutPopAll ==
  LET data == peek_output(tcp.inbound, buffer_size(tcp.inbound))
      rest == pop_output(tcp.inbound, Len(data))
      over == eof(rest) \/ rest.error
  IN  /\ serves(thread, "down", FALSE)
      /\ ~broken("down", data)
      /\ \E n \in WriteSizes("down", data) :
           pipe' = [pipe EXCEPT !["down"] = shutdown_if(over, given(@, SubSeq(data, 1, n)))]
      /\ tcp' = [tcp EXCEPT !.inbound = rest, !.inbound_shutdown = @ \/ over]
      /\ thread' = called(thread)
      /\ UNCHANGED <<owner, copy, typed, sent, got, shown>>

\* Rule 3: from the connection into the socket, which is shut after the last
\* byte, and after an error whether or not bytes are left.
WriteDown ==
  LET data == peek_output(tcp.inbound, buffer_size(tcp.inbound))
  IN  /\ serves(thread, "down", FALSE)
      /\ ~broken("down", data)
      /\ \E n \in WriteSizes("down", data) :
           LET rest == pop_output(tcp.inbound, n)
               over == eof(rest) \/ rest.error
           IN  /\ tcp' = [tcp EXCEPT !.inbound = rest, !.inbound_shutdown = @ \/ over]
               /\ pipe' = [pipe EXCEPT !["down"] =
                              shutdown_if(over, given(@, SubSeq(data, 1, n)))]
      /\ thread' = called(thread)
      /\ UNCHANGED <<owner, copy, typed, sent, got, shown>>

WriteDownBroken ==
  /\ serves(thread, "down", FALSE)
  /\ broken("down", tcp.inbound.buffer)
  /\ thread' = [thread EXCEPT !.pc = "killed"]
  /\ UNCHANGED <<owner, copy, tcp, pipe, typed, sent, got, shown>>

\* The rule for "up" is always readable when it hangs up; so only "down" is
\* ever found defunct.
ThreadCancel ==
  /\ serves(thread, "down", TRUE)
  /\ tcp' = thread_cancel(tcp, "down")
  /\ thread' = erased(thread)
  /\ UNCHANGED <<owner, copy, pipe, typed, sent, got, shown>>

\* The end of _tcp_main: shutdown(SHUT_RDWR) on the owner's descriptor.
ThreadEnd ==
  /\ thread.pc = "exit"
  /\ thread' = [thread EXCEPT !.pc = "ended"]
  /\ pipe' = [pipe EXCEPT !["up"] = shutdown(@), !["down"] = shutdown(@)]
  /\ UNCHANGED <<owner, copy, tcp, typed, sent, got, shown>>

Thread ==
  \/ \E arrived \in {FALSE, may_happen} : ThreadWait(arrived)
  \/ Datagram \/ Tick \/ ThreadAbort \/ ReadUp \/ WriteDown \/ WriteDownBroken \/ ThreadCancel \/ ThreadEnd

-----------------------------------------------------------------------------
\* The user at stdin and the reader of stdout.

Type ==
  /\ typed < MaxTyped /\ ~pipe["stdin"].shut /\ free("stdin") > 0
  /\ typed' = typed + 1
  /\ pipe' = [pipe EXCEPT !["stdin"] = given(@, <<typed + 1>>)]
  /\ UNCHANGED <<owner, copy, thread, tcp, sent, got, shown>>

EndInput ==
  /\ ~pipe["stdin"].shut
  /\ pipe' = [pipe EXCEPT !["stdin"] = shutdown(@)]
  /\ UNCHANGED <<owner, copy, thread, tcp, typed, sent, got, shown>>

Show ==
  /\ pipe["stdout"].bytes # <<>>
  /\ shown' = shown \o pipe["stdout"].bytes
  /\ pipe' = [pipe EXCEPT !["stdout"].bytes = <<>>]
  /\ UNCHANGED <<owner, copy, thread, tcp, typed, sent, got>>

killed == "killed" \in {owner.pc, thread.pc}

Next == (~killed /\ Owner) \/ (~killed /\ Thread) \/ Type \/ EndInput \/ Show

Spec == Init /\ [][Next]_vars

\* Whether a thread has a step that it must take.
must_happen == may_cross \/ may_close \/ (may_end /\ eof(tcp.outbound))
OwnerBusy ==
  /\ ~killed
  /\ \/ owner.pc \in {"run", "exit"} /\ (waiting(owner) => ~waiting(copy_polled))
     \/ owner.pc = "join" /\ thread.pc = "ended"
ThreadBusy ==
  /\ ~killed
  /\ thread.pc \in {"run", "exit"}
  /\ waiting(thread) => tcp.abort \/ ~waiting(thread_polled(must_happen))

\* Weak fairness: both threads are scheduled, stdout is read, and the remote
\* end takes what is sent; it may wait for the end of our stream before it
\* ends its own.  Nobody has to type, to end stdin or to send anything.
LiveSpec ==
  /\ Spec
  /\ []<>~OwnerBusy \/ []<><<Owner>>_vars
  /\ []<>~ThreadBusy \/ []<><<Thread>>_vars
  /\ []<>(pipe["stdout"].bytes = <<>>)

-----------------------------------------------------------------------------
UpTo(n) == [k \in 1..n |-> k]
reset == tcp.inbound.error

\* Bytes pass through four buffers and two threads each way in order, once:
\* what has left stdin is on its way or across, what came from the remote end
\* is on its way or shown.  After a reset what was on its way up may be lost
\* with the connection, but nothing is ever repeated or swapped.
CopiedInOrder ==
  /\ got \o tcp.outbound.buffer \o pipe["up"].bytes \o copy.outbound.buffer
       \o pipe["stdin"].bytes = UpTo(typed)
  /\ shown \o pipe["stdout"].bytes \o copy.inbound.buffer \o pipe["down"].bytes
       \o tcp.inbound.buffer = UpTo(sent)

\* Unless the connection was reset, an end is passed on only behind the last
\* byte: the connection's outbound stream ends only after stdin has ended and
\* with all of its bytes, stdout is closed only after the remote end has ended
\* and with all of its bytes.  And although the two threads shut the socket
\* pair, each when it is done, neither ever writes into a socket that the
\* other has shut, which would kill the program.
EndsBehindTheBytes ==
  ~reset =>
    /\ tcp.outbound.inputEnd =>
         pipe["stdin"].shut /\ got \o tcp.outbound.buffer = UpTo(typed)
    /\ copy.output_closed =>
         tcp.inbound.inputEnd /\ shown \o pipe["stdout"].bytes = UpTo(sent)
    /\ ~killed

\* The program ends: once stdin has ended both event loops run out of interest,
\* once an exception has ended the copying the TCP thread is told, and the
\* owner, in wait_until_closed or in the destructor, joins a thread that ends.
\* Unless the connection was reset or left in mid-copy, all that came has been
\* shown, and unless it was left to the destructor all that was typed has got
\* across, also to a remote end that waits for our end before its own.
ProgramEnds ==
  <>(pipe["stdin"].shut \/ tcp.abort) =>
    <>(\/ killed
       \/ /\ owner.pc = "done"
          /\ reset \/ (tcp.abort /\ ~copy.output_closed) \/ shown = UpTo(sent)
          /\ reset \/ tcp.abort \/ got = UpTo(typed))
=============================================================================
