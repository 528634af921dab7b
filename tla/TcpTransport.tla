---------------------------- MODULE TcpTransport ----------------------------
(***************************************************************************)
(* network/tcp_transport.go and network/tcp_envelope.go: connections,      *)
(* framing, and the read buffer that a reader shares with the messages it  *)
(* has put into the channel.                                               *)
(*                                                                         *)
(* Every transport is a process.  Goroutines call Connect, Send and        *)
(* Broadcast, a listener accepts, and each end of a connection has a       *)
(* reader.  Whoever takes messages from Recv() decodes their content when  *)
(* its turn comes.  The kernel's part is external: a connection is two     *)
(* reliable streams of bytes, the writes of two goroutines do not mix, and *)
(* a read may return any part of what has arrived.  A process may exit or  *)
(* be killed, and a connection may break, at any moment.                   *)
(***************************************************************************)
EXTENDS Integers, FiniteSets, Sequences

CONSTANTS
    Node,        \* the transports, named by the address they listen on
    Conn,        \* connections, named by the dialer's ephemeral address
    Caller,      \* goroutines that call Connect
    Dialer,      \* Dialer[g]: the transport goroutine g calls Connect of
    Message,     \* payloads; each is sent once
    Size,        \* Size[m]: the length of m; the sender's address before it takes
                 \* the same room in every frame of a stream and is not counted
    LenSize,     \* the length of the prefix, 4 in the code
    BufSize,     \* the room for a message in a reader's buffer of 64 KiB
    Chunk,       \* the most that one read takes from the kernel, 4096 in bufio
    Cap,         \* the capacity of recv, 1024 in the code
    MaxEvents    \* bound: the messages sent and the faults, together

ASSUME SizeAssumption ==
    /\ Dialer \in [Caller -> Node]
    /\ Size \in [Message -> Nat \ {0}]
    /\ LenSize \in Nat \ {0}
    /\ BufSize \in Nat
    /\ Chunk \in Nat \ {0}
    /\ Cap \in Nat \ {0}
    /\ MaxEvents \in Nat

None == "none"

(* Nobody listens on another's ephemeral address, and no address is empty. *)
ASSUME AddressAssumption ==
    /\ Node \intersect Conn = {}
    /\ None \notin Node

(* The reader of connection c at its end n. *)
Reader == Conn \X Node

VARIABLES
    up,            \* the processes that have not ended
    faults,        \* history: the processes that exited, the connections that broke
    ends,          \* ends[c]: who dialed c, whom, and the goroutine
    backlog,       \* backlog[n]: connections the listener has yet to accept
    connections,   \* connections[n]: pairs of an address and a connection
    connect,       \* connect[g]: where goroutine g is inside Connect
    unsent,        \* the messages nobody has sent yet
    writes,        \* writes[n]: what n's broadcasts have yet to write, and where
    sent,          \* history: sent[r]: the messages written towards reader r
    wire,          \* wire[r]: bytes in the kernel on their way to r
    buffered,      \* buffered[r]: bytes in r's bufio.Reader
    reader,        \* reader[r]: where r is inside read
    buf,           \* buf[r]: for each cell of r's buffer, whose byte it holds
    recv,          \* recv[n]: the channel
    handling,      \* handling[n]: the message being decoded, and what was read
    handled        \* history: handled[r]: how many of r's messages were decoded

vars == <<up, faults, ends, backlog, connections, connect, unsent, writes, sent, wire,
          buffered, reader, buf, recv, handling, handled>>

dialed == <<ends, backlog, connections, connect>>

streams == <<sent, wire>>

readers == <<buffered, reader, buf>>

inbound == <<recv, handling, handled>>

-----------------------------------------------------------------------------
Cells == 1 .. BufSize

Idle == [step |-> "none", msg |-> None, pos |-> 0, n |-> 0]

NoRPC == [From |-> None, r |-> <<None, None>>, msg |-> None, n |-> 0]

Init ==
    /\ up = Node
    /\ faults = {}
    /\ ends = [c \in Conn |-> [from |-> None, to |-> None, by |-> None]]
    /\ backlog = [n \in Node |-> <<>>]
    /\ connections = [n \in Node |-> {}]
    /\ connect = [g \in Caller |-> [step |-> "idle", to |-> None, conn |-> None]]
    /\ unsent = Message
    /\ writes = [n \in Node |-> {}]
    /\ sent = [r \in Reader |-> <<>>]
    /\ wire = [r \in Reader |-> <<>>]
    /\ buffered = [r \in Reader |-> <<>>]
    /\ reader = [r \in Reader |-> Idle]
    /\ buf = [r \in Reader |-> [i \in Cells |-> None]]
    /\ recv = [n \in Node |-> <<>>]
    /\ handling = [n \in Node |-> [rpc |-> NoRPC, got |-> <<>>]]
    /\ handled = [r \in Reader |-> 0]

Peer(c, n) == IF ends[c].from = n THEN ends[c].to ELSE ends[c].from

(* Connection c no longer leads from n to a process. *)
Severed(c, n) == Peer(c, n) \notin up \/ c \in faults

IsConnected(n, m) == \E c \in Conn : <<m, c>> \in connections[n]

-----------------------------------------------------------------------------
(***************************************************************************)
(* Connect: look, dial, and register unless another call has done so       *)
(* meanwhile.  The connection is read in any case.                         *)
(***************************************************************************)
Connect(g, m) ==
    /\ connect[g].step = "idle"
    /\ {Dialer[g], m} \subseteq up
    /\ m # Dialer[g]
    /\ ~IsConnected(Dialer[g], m)
    /\ connect' = [connect EXCEPT ![g] = [step |-> "dial", to |-> m, conn |-> None]]
    /\ UNCHANGED <<up, faults, ends, backlog, connections, unsent, writes, streams, readers,
                   inbound>>

Unused == {c \in Conn : ends[c].from = None}

(* net.Dial; it fails when the partner's process has ended. *)
Dial(g) ==
    LET m == connect[g].to IN
    /\ connect[g].step = "dial"
    /\ Dialer[g] \in up
    /\ \/ /\ m \in up
          /\ Unused # {}
          /\ LET c == CHOOSE d \in Unused : TRUE IN
             /\ ends' = [ends EXCEPT ![c] = [from |-> Dialer[g], to |-> m, by |-> g]]
             /\ backlog' = [backlog EXCEPT ![m] = Append(@, c)]
             /\ connect' = [connect EXCEPT ![g] = [@ EXCEPT !.step = "register",
                                                            !.conn = c]]
       \/ /\ m \notin up
          /\ connect' = [connect EXCEPT ![g].step = "idle"]
          /\ UNCHANGED <<ends, backlog>>
    /\ UNCHANGED <<up, faults, connections, unsent, writes, streams, readers, inbound>>

StartReader(c, n) == reader' = [reader EXCEPT ![<<c, n>>].step = "length"]

(* Mutant of Register: a second connection is left alone. *)
RegisterFirst(g) ==
    LET n == Dialer[g]
        c == connect[g].conn IN
    /\ connect[g].step = "register"
    /\ n \in up
    /\ connections' = [connections EXCEPT ![n] =
                          IF IsConnected(n, connect[g].to) THEN @
                          ELSE @ \union {<<connect[g].to, c>>}]
    /\ IF IsConnected(n, connect[g].to) THEN UNCHANGED reader ELSE StartReader(c, n)
    /\ connect' = [connect EXCEPT ![g].step = "idle"]
    /\ UNCHANGED <<up, faults, ends, backlog, unsent, writes, streams, buffered, buf, inbound>>

Register(g) ==
    LET n == Dialer[g]
        c == connect[g].conn IN
    /\ connect[g].step = "register"
    /\ n \in up
    /\ connections' = [connections EXCEPT ![n] =
                          IF IsConnected(n, connect[g].to) THEN @
                          ELSE @ \union {<<connect[g].to, c>>}]
    /\ StartReader(c, n)
    /\ connect' = [connect EXCEPT ![g].step = "idle"]
    /\ UNCHANGED <<up, faults, ends, backlog, unsent, writes, streams, buffered, buf, inbound>>

(***************************************************************************)
(* listen: the connection is registered under the dialer's ephemeral       *)
(* address before its reader starts.                                       *)
(***************************************************************************)
(* Mutant of Accept: the connection is registered under its listen address. *)
AcceptByName(n) ==
    LET c == Head(backlog[n]) IN
    /\ n \in up
    /\ backlog[n] # <<>>
    /\ backlog' = [backlog EXCEPT ![n] = Tail(@)]
    /\ connections' = [connections EXCEPT ![n] = @ \union {<<ends[c].from, c>>}]
    /\ StartReader(c, n)
    /\ UNCHANGED <<up, faults, ends, connect, unsent, writes, streams, buffered, buf, inbound>>

Accept(n) ==
    LET c == Head(backlog[n]) IN
    /\ n \in up
    /\ backlog[n] # <<>>
    /\ backlog' = [backlog EXCEPT ![n] = Tail(@)]
    /\ connections' = [connections EXCEPT ![n] = @ \union {<<c, c>>}]
    /\ StartReader(c, n)
    /\ UNCHANGED <<up, faults, ends, connect, unsent, writes, streams, buffered, buf, inbound>>

-----------------------------------------------------------------------------
(***************************************************************************)
(* encodeEnvelope and conn.Write: the prefix, then the frame.              *)
(***************************************************************************)
Frame(m) == [i \in 1 .. LenSize + Size[m] |-> m]

Bounded == Cardinality(Message \ unsent) + Cardinality(faults) < MaxEvents

Sendable(n, m) ==
    /\ n \in up
    /\ m \in unsent
    /\ Bounded

Write(c, n, m) ==
    LET r == <<c, Peer(c, n)>> IN
    /\ sent' = [sent EXCEPT ![r] = Append(@, m)]
    /\ wire' = [wire EXCEPT ![r] = @ \o Frame(m)]

(* conn.Write fails, which the caller is told, and a Broadcast only logs. *)
WriteError(c, n) == Severed(c, n) /\ UNCHANGED streams

Send(n, addr, m) ==
    /\ Sendable(n, m)
    /\ \E c \in Conn : /\ <<addr, c>> \in connections[n]
                      /\ (Write(c, n, m) \/ WriteError(c, n))
    /\ unsent' = unsent \ {m}
    /\ UNCHANGED <<up, faults, dialed, writes, readers, inbound>>

(* The connections are collected under the lock and written to after it. *)
Broadcast(n, m) ==
    /\ Sendable(n, m)
    /\ connections[n] # {}
    /\ writes' = [writes EXCEPT ![n] = @ \union {<<e[2], m>> : e \in connections[n]}]
    /\ unsent' = unsent \ {m}
    /\ UNCHANGED <<up, faults, dialed, streams, readers, inbound>>

BroadcastSend(n) ==
    /\ n \in up
    /\ \E w \in writes[n] :
          /\ (Write(w[1], n, w[2]) \/ WriteError(w[1], n))
          /\ writes' = [writes EXCEPT ![n] = @ \ {w}]
    /\ UNCHANGED <<up, faults, dialed, unsent, readers, inbound>>

-----------------------------------------------------------------------------
(***************************************************************************)
(* read.  A read takes what the bufio.Reader holds, and only when that is  *)
(* nothing it asks the kernel, once.                                       *)
(***************************************************************************)
Min2(a, b) == IF a < b THEN a ELSE b

Reading(r) == r[2] \in up /\ reader[r].step \in {"length", "body"}

Panic(n) ==
    /\ up' = up \ {n}
    /\ UNCHANGED <<faults, dialed, unsent, writes, streams, readers, inbound>>

Fetch(r) ==
    /\ Reading(r)
    /\ buffered[r] = <<>>
    /\ \E k \in 1 .. Min2(Chunk, Len(wire[r])) :
          /\ buffered' = [buffered EXCEPT ![r] = SubSeq(wire[r], 1, k)]
          /\ wire' = [wire EXCEPT ![r] = SubSeq(@, k + 1, Len(@))]
    /\ UNCHANGED <<up, faults, dialed, unsent, writes, sent, reader, buf, inbound>>

(* The other process has ended, however it did, or the connection has broken:
   io.EOF, or a reset that drops what was sent. *)
ReadError(r) ==
    /\ Reading(r)
    /\ buffered[r] = <<>>
    /\ Severed(r[1], r[2])
    /\ Panic(r[2])

Drop(r, k) == buffered' = [buffered EXCEPT ![r] = SubSeq(@, k + 1, Len(@))]

(* Mutant of FrameFits: a frame that fills the buffer is one too long. *)
FrameFitsBelow(m) == Size[m] < BufSize

FrameFits(m) == Size[m] <= BufSize

(***************************************************************************)
(* The length.  r.Read may return less than it was asked for, and nothing  *)
(* looks at how much it was: the reader then takes the rest of the prefix  *)
(* for the frame and is out of step with the stream.                       *)
(***************************************************************************)
ReadLength(r) ==
    LET m == Head(buffered[r]) IN
    /\ Reading(r) /\ reader[r].step = "length"
    /\ buffered[r] # <<>>
    /\ \/ /\ Len(buffered[r]) >= LenSize
          /\ FrameFits(m)
          /\ Drop(r, LenSize)
          /\ reader' = [reader EXCEPT ![r] = [step |-> "body", msg |-> m, pos |-> 0,
                                              n |-> @.n + 1]]
          /\ UNCHANGED <<up, faults, dialed, unsent, writes, streams, buf, inbound>>
       \/ /\ Len(buffered[r]) >= LenSize
          /\ ~FrameFits(m)
          /\ Panic(r[2])
       \/ /\ Len(buffered[r]) < LenSize
          /\ Drop(r, Len(buffered[r]))
          /\ reader' = [reader EXCEPT ![r].step = "lost"]
          /\ UNCHANGED <<up, faults, dialed, unsent, writes, streams, buf, inbound>>

(* io.ReadFull, as far as the buffered bytes go. *)
ReadBody(r) ==
    LET pos == reader[r].pos
        k == Min2(Size[reader[r].msg] - pos, Len(buffered[r])) IN
    /\ Reading(r) /\ reader[r].step = "body"
    /\ buffered[r] # <<>>
    /\ buf' = [buf EXCEPT ![r] = [i \in Cells |->
                  IF i \in pos + 1 .. pos + k THEN buffered[r][i - pos] ELSE @[i]]]
    /\ Drop(r, k)
    /\ reader' = [reader EXCEPT ![r].pos = pos + k,
                                ![r].step = IF pos + k = Size[reader[r].msg] THEN "put" ELSE @]
    /\ UNCHANGED <<up, faults, dialed, unsent, writes, streams, inbound>>

(* Mutant of Envelope: the sender is known by the connection's address. *)
EnvelopeByConn(r) ==
    [From |-> r[1], r |-> r, msg |-> reader[r].msg, n |-> reader[r].n]

(***************************************************************************)
(* decodeEnvelope: the sender is copied into a string, the content is a    *)
(* slice of the buffer.  msg and n, what was sent and the how manieth it   *)
(* is, are history.                                                        *)
(***************************************************************************)
Envelope(r) ==
    [From |-> Peer(r[1], r[2]), r |-> r, msg |-> reader[r].msg, n |-> reader[r].n]

Put(r) ==
    /\ r[2] \in up
    /\ reader[r].step = "put"
    /\ Len(recv[r[2]]) < Cap
    /\ recv' = [recv EXCEPT ![r[2]] = Append(@, Envelope(r))]
    /\ reader' = [reader EXCEPT ![r].step = "length"]
    /\ UNCHANGED <<up, faults, dialed, unsent, writes, streams, buffered, buf, handling,
                   handled>>

(***************************************************************************)
(* What a reader that is out of step makes of the bytes is left open: it   *)
(* overwrites its buffer and is of no more use, or it slices out of range  *)
(* and panics.  The garbage it may put into the channel is left out.       *)
(***************************************************************************)
Lost(r) ==
    /\ r[2] \in up
    /\ reader[r].step = "lost"
    /\ \/ /\ buf' = [buf EXCEPT ![r] = [i \in Cells |-> None]]
          /\ reader' = [reader EXCEPT ![r].step = "stuck"]
          /\ UNCHANGED <<up, faults, dialed, unsent, writes, streams, buffered, inbound>>
       \/ Panic(r[2])

-----------------------------------------------------------------------------
(***************************************************************************)
(* The consumer takes a message and reads its content byte by byte, while  *)
(* the reader may be at the next frame.                                    *)
(***************************************************************************)
Take(n) ==
    /\ n \in up
    /\ handling[n].rpc = NoRPC
    /\ recv[n] # <<>>
    /\ handling' = [handling EXCEPT ![n].rpc = Head(recv[n])]
    /\ recv' = [recv EXCEPT ![n] = Tail(@)]
    /\ UNCHANGED <<up, faults, dialed, unsent, writes, streams, readers, handled>>

Content(n) == Len(handling[n].got)

(* Mutant of ReadByte: the buffer is the last one a frame was read into. *)
ReadByteShared(n) ==
    LET rpc == handling[n].rpc IN
    /\ n \in up
    /\ rpc # NoRPC
    /\ Content(n) < Size[rpc.msg]
    /\ \E r \in Reader :
          /\ r[2] = n
          /\ handling' = [handling EXCEPT ![n].got = Append(@, buf[r][Content(n) + 1])]
    /\ UNCHANGED <<up, faults, dialed, unsent, writes, streams, readers, recv, handled>>

ReadByte(n) ==
    LET rpc == handling[n].rpc IN
    /\ n \in up
    /\ rpc # NoRPC
    /\ Content(n) < Size[rpc.msg]
    /\ handling' = [handling EXCEPT ![n].got = Append(@, buf[rpc.r][Content(n) + 1])]
    /\ UNCHANGED <<up, faults, dialed, unsent, writes, streams, readers, recv, handled>>

Decoded(n) ==
    LET rpc == handling[n].rpc IN
    /\ n \in up
    /\ rpc # NoRPC
    /\ Content(n) = Size[rpc.msg]
    /\ handled' = [handled EXCEPT ![rpc.r] = @ + 1]
    /\ handling' = [handling EXCEPT ![n] = [rpc |-> NoRPC, got |-> <<>>]]
    /\ UNCHANGED <<up, faults, dialed, unsent, writes, streams, readers, recv>>

(***************************************************************************)
(* Faults from outside.  A process exits, or is killed, between any two    *)
(* steps, and a connection breaks while both its ends live.                *)
(***************************************************************************)
Exit(n) ==
    /\ n \in up
    /\ Bounded
    /\ up' = up \ {n}
    /\ faults' = faults \union {n}
    /\ UNCHANGED <<dialed, unsent, writes, streams, readers, inbound>>

Break(c) ==
    /\ ends[c].from # None
    /\ c \notin faults
    /\ Bounded
    /\ faults' = faults \union {c}
    /\ UNCHANGED <<up, dialed, unsent, writes, streams, readers, inbound>>

Read(r) == ReadError(r) \/ ReadLength(r) \/ ReadBody(r) \/ Put(r) \/ Lost(r)

Consume(n) == Take(n) \/ ReadByte(n) \/ Decoded(n)

Next ==
    \/ \E g \in Caller : Dial(g) \/ Register(g) \/ \E m \in Node : Connect(g, m)
    \/ \E n \in Node :
          \/ Accept(n) \/ BroadcastSend(n) \/ Consume(n) \/ Exit(n)
          \/ \E m \in Message :
                Broadcast(n, m) \/ \E addr \in Node \union Conn : Send(n, addr, m)
    \/ \E r \in Reader : Fetch(r) \/ Read(r)
    \/ \E c \in Conn : Break(c)

Spec == Init /\ [][Next]_vars

(***************************************************************************)
(* Goroutines that can run do, and bytes arrive.  Connect, Send and        *)
(* Broadcast are called or not, and faults need not occur.                 *)
(***************************************************************************)
FairSpec ==
    /\ Spec
    /\ \A g \in Caller : WF_vars(Dial(g) \/ Register(g))
    /\ \A n \in Node : /\ WF_vars(Accept(n))
                       /\ WF_vars(BroadcastSend(n))
                       /\ WF_vars(Consume(n))
    /\ \A r \in Reader : WF_vars(Fetch(r) \/ Read(r))

-----------------------------------------------------------------------------
(***************************************************************************)
(* Properties.                                                             *)
(***************************************************************************)
Address == Node \union Conn

RPC == [From : Address, r : Reader, msg : Message, n : Nat]

OrNone(S) == S \union {None}

(* Tables, streams, buffers and channels have the types of the Go declarations,
   and no address of a table stands for two connections. *)
TypeOK ==
    /\ up \subseteq Node
    /\ faults \subseteq Address
    /\ ends \in [Conn -> [from : OrNone(Node), to : OrNone(Node), by : OrNone(Caller)]]
    /\ backlog \in [Node -> Seq(Conn)]
    /\ connections \in [Node -> SUBSET (Address \X Conn)]
    /\ \A n \in Node : \A e, f \in connections[n] : e[1] = f[1] => e = f
    /\ \A g \in Caller : connect[g].step \in {"idle", "dial", "register"}
    /\ unsent \subseteq Message
    /\ writes \in [Node -> SUBSET (Conn \X Message)]
    /\ sent \in [Reader -> Seq(Message)]
    /\ wire \in [Reader -> Seq(Message)]
    /\ buffered \in [Reader -> Seq(Message)]
    /\ \A r \in Reader :
          reader[r].step \in {"none", "length", "body", "put", "lost", "stuck"}
    /\ buf \in [Reader -> [Cells -> OrNone(Message)]]
    /\ \A n \in Node : recv[n] \in Seq(RPC) /\ Len(recv[n]) <= Cap
    /\ handled \in [Reader -> Nat]

Received(n) ==
    {recv[n][i] : i \in DOMAIN recv[n]} \union ({handling[n].rpc} \ {NoRPC})

(* Framing holds up under every cut of the stream that leaves the prefixes
   whole: the k-th message out of a reader is the k-th that was written to its
   connection, under the name of the one who wrote it. *)
InOrder ==
    \A n \in Node : \A rpc \in Received(n) :
       /\ rpc.n \in DOMAIN sent[rpc.r]
       /\ rpc.msg = sent[rpc.r][rpc.n]
       /\ rpc.From = Peer(rpc.r[1], n)

(* The content of a queued message is a slice of the read buffer, and what is
   decoded may not be what was sent; but only the reader of the same connection
   can do that, by taking up a later frame.  A sender that waits until its
   message is decoded, as the test does, is safe, however busy the others are. *)
OverwrittenByLaterFrame ==
    \A n \in Node : \A i \in DOMAIN handling[n].got :
       LET rpc == handling[n].rpc IN
       handling[n].got[i] # rpc.msg =>
          reader[rpc.r].n > rpc.n \/ reader[rpc.r].step = "stuck"

(* Whoever handles a message can answer it: the table has the ephemeral address
   that a subscriber gives as its handle, and a dialer has its partner's, before
   the first message of the connection is in the channel. *)
CanAnswer ==
    \A n \in Node : \A rpc \in Received(n) :
       IF ends[rpc.r[1]].to = n THEN <<rpc.r[1], rpc.r[1]>> \in connections[n]
       ELSE IsConnected(n, ends[rpc.r[1]].to)

Lost_(r) == reader[r].step \in {"lost", "stuck"}

(* What ends the process of n, or breaks a connection of it, without the help of
   a partner's end. *)
HasOrigin(n) ==
    \/ n \in faults
    \/ \E c \in Conn \intersect faults : n \in {ends[c].from, ends[c].to}
    \/ \E r \in Reader : /\ r[2] = n
                       /\ \/ Lost_(r)
                          \/ \E i \in DOMAIN sent[r] : Size[sent[r][i]] > BufSize

Joins(c, n, m) == {ends[c].from, ends[c].to} = {n, m}

(* The processes of S are joined to none of the others that have ended. *)
Isolated(S) ==
    \A n \in S : \A m \in (Node \ up) \ S : \A c \in Conn : ~Joins(c, n, m)

(* Every error of a connection panics, so a process that ends, be it by an
   ordinary exit, takes along those it is connected to, and these theirs.  It
   goes no further: processes that have ended and were joined to no other one
   that has include one that exited, whose connection broke, whose reader met a
   cut prefix, or that was sent more than its buffer holds.  No failed dial, no
   failed write and no silence of a partner ends a process. *)
FailuresHaveOrigin ==
    \A S \in SUBSET (Node \ up) :
       S # {} /\ Isolated(S) => \E n \in S : HasOrigin(n)

(* In the end every message written is decoded, also one that is broadcast into
   a connection that lost the race for the table, or into one not accepted yet,
   unless a process ends, as it does when a connection breaks, or the message's
   reader has lost step. *)
Delivered ==
    <>[](up = Node => \A r \in Reader : handled[r] = Len(sent[r]) \/ Lost_(r))
=============================================================================
