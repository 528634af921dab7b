------------------------- MODULE TcpTransport_proofs -------------------------
(***************************************************************************)
(* Proofs about module TcpTransport, for any number of transports,         *)
(* connections and goroutines, for messages, prefixes and buffers of any   *)
(* length, and for streams that arrive in pieces of any size.              *)
(***************************************************************************)
EXTENDS TcpTransport, SequenceTheorems, TLAPS

-----------------------------------------------------------------------------
(***************************************************************************)
(* The inductive invariant.  Its parts say what the variables hold, how    *)
(* far connections are set up, how the bytes in flight are cut into        *)
(* frames, what a reader's buffer holds, and what the queued messages are. *)
(***************************************************************************)
ReaderState ==
    [step : {"none", "length", "body", "put", "lost", "stuck"},
     msg : OrNone(Message), pos : Nat, n : Nat]

CallState ==
    [step : {"idle", "dial", "register"}, to : OrNone(Node), conn : OrNone(Conn)]

HandlingState == [rpc : RPC \union {NoRPC}, got : Seq(OrNone(Message))]

TypeInv ==
    /\ TypeOK
    /\ reader \in [Reader -> ReaderState]
    /\ connect \in [Caller -> CallState]
    /\ recv \in [Node -> Seq(RPC)]
    /\ handling \in [Node -> HandlingState]
    /\ \A n \in Node : \A e \in connections[n] : e[1] \in Conn => e[1] = e[2]

Used(c) == ends[c].from # None

(* The table lets n answer on connection c. *)
Answerable(c, n) ==
    IF ends[c].to = n THEN <<c, c>> \in connections[n]
    ELSE IsConnected(n, ends[c].to)

(* A connection in use joins two transports. *)
Joined ==
    \A c \in Conn : Used(c) =>
       ends[c].from \in Node /\ ends[c].to \in Node /\ ends[c].from # ends[c].to

(* A goroutine inside Connect has a partner to dial, and once it has dialed it
   alone holds the new connection, which it does not read yet. *)
Dialing ==
    \A g \in Caller :
       /\ connect[g].step = "dial" => connect[g].to \in Node \ {Dialer[g]}
       /\ connect[g].step = "register" =>
             LET c == connect[g].conn IN
             /\ c \in Conn
             /\ ends[c] = [from |-> Dialer[g], to |-> connect[g].to, by |-> g]
             /\ connect[g].to \in Node \ {Dialer[g]}
             /\ reader[<<c, Dialer[g]>>].step = "none"

(* A connection waits once, and only with the transport it was dialed to. *)
Waiting ==
    \A n \in Node : \A i \in DOMAIN backlog[n] :
       LET c == backlog[n][i] IN
       /\ c \in Conn
       /\ Used(c)
       /\ ends[c].to = n
       /\ reader[<<c, n>>].step = "none"
       /\ \A j \in DOMAIN backlog[n] : backlog[n][j] = c => j = i

(* A connection that is read is in use and can be answered. *)
Registered ==
    \A c \in Conn : \A n \in Node :
       reader[<<c, n>>].step # "none" => Used(c) /\ Answerable(c, n)

SetUp == Joined /\ Dialing /\ Waiting /\ Registered

(* The bytes on their way to reader r, the ones in its bufio.Reader first. *)
InFlight(r) == Len(buffered[r]) + Len(wire[r])

Byte(r, j) ==
    IF j <= Len(buffered[r]) THEN buffered[r][j] ELSE wire[r][j - Len(buffered[r])]

(* What the frame being read still takes from the stream. *)
Remaining(r) ==
    IF reader[r].step = "body" THEN Size[reader[r].msg] - reader[r].pos ELSE 0

(* start[k]: how many of the bytes in flight come before the k-th frame. *)
Cut(r, start) ==
    LET first == reader[r].n + 1
        last == Len(sent[r]) + 1
    IN
    /\ start \in [first .. last -> Nat]
    /\ start[first] = Remaining(r)
    /\ start[last] = InFlight(r)
    /\ \A k \in first .. last - 1 :
          start[k + 1] = start[k] + LenSize + Size[sent[r][k]]
    /\ \A i, k \in first .. last :
          i < k => start[i] + LenSize + Size[sent[r][i]] <= start[k]
    /\ \A k \in first .. last - 1 : \A j \in start[k] + 1 .. start[k + 1] :
          Byte(r, j) = sent[r][k]
    /\ \A j \in 1 .. Remaining(r) : Byte(r, j) = reader[r].msg

(* The reader is within the k-th message or before the next, and until it has
   lost step the bytes in flight are the rest of that message and whole frames. *)
FramedAt(r) ==
    /\ reader[r].n <= Len(sent[r])
    /\ reader[r].n > 0 => /\ reader[r].msg = sent[r][reader[r].n]
                          /\ Size[reader[r].msg] <= BufSize
    /\ reader[r].step \in {"body", "put"} => reader[r].n > 0
    /\ reader[r].step = "body" => reader[r].pos < Size[reader[r].msg]
    /\ reader[r].step = "none" => reader[r].n = 0
    /\ ~Lost_(r) => \E start : Cut(r, start)

Framing == \A r \in Reader : FramedAt(r)

(* How much of the message a reader was last at is in its buffer. *)
InBuffer(r) ==
    IF reader[r].step = "body" THEN reader[r].pos ELSE Size[reader[r].msg]

FilledAt(r) ==
    reader[r].n > 0 /\ reader[r].step # "stuck" =>
       \A i \in 1 .. InBuffer(r) : buf[r][i] = reader[r].msg

Filled == \A r \in Reader : FilledAt(r)

(* A message out of a reader is one its connection was given, and the reader
   has not yet taken up a later one while it still is at this one. *)
Genuine(n, rpc) ==
    LET r == rpc.r IN
    /\ r \in Reader
    /\ r[2] = n
    /\ Used(r[1])
    /\ Answerable(r[1], n)
    /\ rpc.n \in DOMAIN sent[r]
    /\ rpc.msg = sent[r][rpc.n]
    /\ Size[rpc.msg] <= BufSize
    /\ rpc.From = Peer(r[1], n)
    /\ rpc.n <= reader[r].n
    /\ reader[r].step \in {"body", "put"} => rpc.n < reader[r].n

Queued == \A n \in Node : \A rpc \in Received(n) : Genuine(n, rpc)

(* Who reads a connection is at an end of it, and what breaks is in use. *)
Placed ==
    /\ \A c \in Conn : \A n \in Node :
          reader[<<c, n>>].step # "none" => n \in {ends[c].from, ends[c].to}
    /\ \A c \in Conn \intersect faults : Used(c)

(* Nothing is read before a message is taken. *)
FreshRead == \A n \in Node : handling[n].rpc = NoRPC => handling[n].got = <<>>

IInv ==
    /\ TypeInv
    /\ SetUp
    /\ Framing
    /\ Filled
    /\ Queued
    /\ FreshRead
    /\ OverwrittenByLaterFrame
    /\ Placed
    /\ FailuresHaveOrigin

-----------------------------------------------------------------------------
(***************************************************************************)
(* Facts about the constants and about pieces of streams.                  *)
(***************************************************************************)
LEMMA SizeType ==
    ASSUME NEW m \in Message
    PROVE  Size[m] \in Nat /\ Size[m] > 0 /\ LenSize \in Nat /\ LenSize > 0
  BY SizeAssumption

LEMMA FrameType ==
    ASSUME NEW m \in Message
    PROVE  /\ Frame(m) \in Seq(Message)
           /\ Len(Frame(m)) = LenSize + Size[m]
           /\ \A i \in 1 .. LenSize + Size[m] : Frame(m)[i] = m
  <1> DEFINE k == LenSize + Size[m]
  <1>1. k \in Nat
    BY SizeType
  <1> HIDE DEF k
  <1>2. [i \in 1 .. k |-> m] \in Seq(Message)
    BY <1>1, IsASeq
  <1>3. Len([i \in 1 .. k |-> m]) = k
    BY <1>1, LenProperties, <1>2
  <1> QED BY <1>1, <1>2, <1>3 DEF Frame, k

(* What is left of a stream after its first k bytes. *)
LEMMA DropFirst ==
    ASSUME NEW S, NEW s \in Seq(S), NEW k \in 0 .. Len(s)
    PROVE  /\ SubSeq(s, k + 1, Len(s)) \in Seq(S)
           /\ Len(SubSeq(s, k + 1, Len(s))) = Len(s) - k
           /\ \A i \in 1 .. Len(s) - k : SubSeq(s, k + 1, Len(s))[i] = s[k + i]
  <1>1. Len(s) \in Nat
    BY LenProperties
  <1>2. CASE k = Len(s)
    <2>1. SubSeq(s, k + 1, Len(s)) = << >>
      BY <1>1, <1>2, SubSeqEmpty
    <2>2. Len(s) - k = 0
      BY <1>1, <1>2
    <2> QED BY <2>1, <2>2, EmptySeq
  <1>3. CASE k # Len(s)
    BY <1>1, <1>3, SubSeqProperties
  <1> QED BY <1>2, <1>3

LEMMA TakeFirst ==
    ASSUME NEW S, NEW s \in Seq(S), NEW k \in 1 .. Len(s)
    PROVE  /\ SubSeq(s, 1, k) \in Seq(S)
           /\ Len(SubSeq(s, 1, k)) = k
           /\ \A i \in 1 .. k : SubSeq(s, 1, k)[i] = s[i]
  BY LenProperties, SubSeqProperties

LEMMA MinProperties ==
    ASSUME NEW x \in Nat, NEW y \in Nat
    PROVE  Min2(x, y) \in Nat /\ Min2(x, y) <= x /\ Min2(x, y) <= y
           /\ (x > 0 /\ y > 0 => Min2(x, y) > 0)
           /\ (Min2(x, y) = x \/ Min2(x, y) = y)
  BY DEF Min2

(* A fault from outside. *)
Strikes == (\E n \in Node : Exit(n)) \/ (\E c \in Conn : Break(c))

LEMMA StrikesLeave ==
    ASSUME Strikes
    PROVE  /\ UNCHANGED <<ends, backlog, connections, connect, unsent, writes, sent, wire>>
           /\ UNCHANGED <<buffered, reader, buf, recv, handling, handled>>
  BY DEF Strikes, Exit, Break, dialed, streams, readers, inbound

(* The partner on a connection in use is a transport. *)
LEMMA PeerType ==
    ASSUME Joined, NEW c \in Conn, NEW n \in Node, Used(c)
    PROVE  Peer(c, n) \in Node
  BY DEF Joined, Peer

-----------------------------------------------------------------------------
(***************************************************************************)
(* The types.                                                              *)
(***************************************************************************)
LEMMA TypeInit == Init => TypeInv
  BY EmptySeq, SizeAssumption
     DEF Init, TypeInv, TypeOK, OrNone, Idle, NoRPC, ReaderState, CallState,
         HandlingState, Reader, Address, Cells, RPC

LEMMA WriteType ==
    ASSUME TypeInv, NEW c \in Conn, NEW n \in Node, NEW m \in Message,
           Write(c, n, m) \/ WriteError(c, n)
    PROVE  sent' \in [Reader -> Seq(Message)] /\ wire' \in [Reader -> Seq(Message)]
  <1>1. Frame(m) \in Seq(Message)
    BY FrameType
  <1>2. \A s \in Seq(Message) : Append(s, m) \in Seq(Message)
                                /\ s \o Frame(m) \in Seq(Message)
    BY <1>1, AppendProperties, ConcatProperties
  <1>3. sent \in [Reader -> Seq(Message)] /\ wire \in [Reader -> Seq(Message)]
    BY DEF TypeInv, TypeOK
  <1>4. CASE WriteError(c, n)
    BY <1>3, <1>4 DEF WriteError, streams
  <1>5. CASE Write(c, n, m)
    BY <1>2, <1>3, <1>5 DEF Write
  <1> QED BY <1>4, <1>5

LEMMA StartReaderType ==
    ASSUME TypeInv, NEW c, NEW n, StartReader(c, n)
    PROVE  /\ reader' \in [Reader -> ReaderState]
           /\ \A r \in Reader : r # <<c, n>> => reader'[r] = reader[r]
           /\ <<c, n>> \in Reader =>
                 /\ reader'[<<c, n>>].step = "length"
                 /\ reader'[<<c, n>>].msg = reader[<<c, n>>].msg
                 /\ reader'[<<c, n>>].n = reader[<<c, n>>].n
  BY DEF TypeInv, StartReader, ReaderState

LEMMA StepTypes ==
    ASSUME TypeInv
    PROVE  \A r \in Reader :
              reader[r].step \in {"none", "length", "body", "put", "lost", "stuck"}
  BY DEF TypeInv, TypeOK

(* The tables and records, one by one. *)
LEMMA Types ==
    ASSUME TypeInv
    PROVE  /\ connections \in [Node -> SUBSET (Address \X Conn)]
           /\ connect \in [Caller -> CallState]
           /\ handling \in [Node -> HandlingState]
           /\ recv \in [Node -> Seq(RPC)]
           /\ reader \in [Reader -> ReaderState]
           /\ handled \in [Reader -> Nat]
           /\ backlog \in [Node -> Seq(Conn)]
           /\ buf \in [Reader -> [Cells -> OrNone(Message)]]
  BY DEF TypeInv, TypeOK

LEMMA EntryType ==
    ASSUME TypeInv, NEW n \in Node, NEW e \in connections[n]
    PROVE  e = <<e[1], e[2]>> /\ e[1] \in Address /\ e[2] \in Conn
  BY Types

LEMMA TypeConnect ==
    ASSUME TypeInv, SetUp, NEW g \in Caller,
           Dial(g) \/ Register(g) \/ \E m \in Node : Connect(g, m)
    PROVE  TypeInv'
  <1>1. ASSUME NEW m \in Node, Connect(g, m) PROVE TypeInv'
    <2>1. connect' \in [Caller -> CallState]
      BY <1>1, Types DEF Connect, CallState, OrNone
    <2>2. \A h \in Caller : connect'[h].step \in {"idle", "dial", "register"}
      BY <2>1 DEF CallState
    <2> QED BY <1>1, <2>1, <2>2 DEF TypeInv, TypeOK, Connect, streams, readers, inbound
  <1>2. CASE Dial(g)
    <2>1. CASE UNCHANGED <<ends, backlog>> /\ connect' = [connect EXCEPT ![g].step = "idle"]
      <3>1. connect' \in [Caller -> CallState]
        BY <2>1, Types DEF CallState
      <3>2. \A h \in Caller : connect'[h].step \in {"idle", "dial", "register"}
        BY <3>1 DEF CallState
      <3> QED BY <1>2, <2>1, <3>1, <3>2
              DEF TypeInv, TypeOK, Dial, streams, readers, inbound
    <2>2. CASE /\ connect[g].to \in up
               /\ Unused # {}
               /\ LET c == CHOOSE d \in Unused : TRUE IN
                  /\ ends' = [ends EXCEPT ![c] = [from |-> Dialer[g],
                                                  to |-> connect[g].to, by |-> g]]
                  /\ backlog' = [backlog EXCEPT ![connect[g].to] = Append(@, c)]
                  /\ connect' = [connect EXCEPT ![g] = [@ EXCEPT !.step = "register",
                                                                 !.conn = c]]
      <3> DEFINE c == CHOOSE d \in Unused : TRUE
      <3>1. c \in Conn
        BY <2>2 DEF Unused
      <3> HIDE DEF c
      <3>2. ends' = [ends EXCEPT ![c] = [from |-> Dialer[g], to |-> connect[g].to, by |-> g]]
        BY <2>2 DEF c
      <3>3. backlog' = [backlog EXCEPT ![connect[g].to] = Append(@, c)]
        BY <2>2 DEF c
      <3>4. connect' = [connect EXCEPT ![g] = [@ EXCEPT !.step = "register", !.conn = c]]
        BY <2>2 DEF c
      <3>5. [from |-> Dialer[g], to |-> connect[g].to, by |-> g] \in
               [from : OrNone(Node), to : OrNone(Node), by : OrNone(Caller)]
        BY <2>2, SizeAssumption DEF OrNone, TypeInv, TypeOK
      <3>6. \A s \in Seq(Conn) : Append(s, c) \in Seq(Conn)
        BY <3>1, AppendProperties
      <3>7. ends' \in [Conn -> [from : OrNone(Node), to : OrNone(Node), by : OrNone(Caller)]]
        BY <3>2, <3>5 DEF TypeInv, TypeOK
      <3>8. backlog' \in [Node -> Seq(Conn)]
        BY <3>3, <3>6, Types
      <3>9. connect' \in [Caller -> CallState]
        BY Types, <3>1, <3>4 DEF CallState, OrNone
      <3>10. \A h \in Caller : connect'[h].step \in {"idle", "dial", "register"}
        BY <3>9 DEF CallState
      <3> QED BY <1>2, <3>7, <3>8, <3>9, <3>10
              DEF TypeInv, TypeOK, Dial, streams, readers, inbound
    <2> QED BY <1>2, <2>1, <2>2 DEF Dial
  <1>3. CASE Register(g)
    <2> DEFINE n == Dialer[g]
               c == connect[g].conn
               m == connect[g].to
    <2>1. n \in Node /\ c \in Conn /\ m \in Node
      BY <1>3, SizeAssumption DEF Register, SetUp, Dialing
    <2>2. m \notin Conn
      BY <2>1, AddressAssumption
    <2>3. connections' = [connections EXCEPT ![n] =
                             IF IsConnected(n, m) THEN @ ELSE @ \union {<<m, c>>}]
      BY <1>3 DEF Register
    <2> HIDE DEF n, c, m
    <2>4. connections' \in [Node -> SUBSET (Address \X Conn)]
      BY <2>1, <2>3, Types DEF Address
    <2>5. \A o \in Node : \A e \in connections'[o] : e[1] \in Conn => e[1] = e[2]
      BY <2>1, <2>2, <2>3, Types DEF TypeInv
    <2>6. ~IsConnected(n, m) => \A e \in connections[n] : e[1] # m
      BY <2>1, EntryType DEF IsConnected
    <2>7. ASSUME NEW o \in Node, NEW e \in connections'[o], NEW f \in connections'[o],
                 e[1] = f[1]
          PROVE  e = f
      <3>1. e \in connections[o] /\ f \in connections[o] => e = f
        BY <2>7 DEF TypeInv, TypeOK
      <3>2. CASE o = n /\ ~IsConnected(n, m)
        <4>1. connections'[n] = connections[n] \union {<<m, c>>}
          BY <2>1, <2>3, <3>2, Types
        <4> QED BY <2>6, <2>7, <3>1, <3>2, <4>1
      <3>3. CASE ~(o = n /\ ~IsConnected(n, m))
        BY <2>1, <2>3, <3>1, <3>3, Types
      <3> QED BY <3>2, <3>3
    <2>8. reader' \in [Reader -> ReaderState]
      BY <1>3, StartReaderType DEF Register
    <2>9. \A r \in Reader :
             reader'[r].step \in {"none", "length", "body", "put", "lost", "stuck"}
      BY <2>8 DEF ReaderState
    <2>10. /\ connect' \in [Caller -> CallState]
           /\ \A h \in Caller : connect'[h].step \in {"idle", "dial", "register"}
      BY <1>3, Types DEF Register, CallState
    <2> QED BY <1>3, <2>4, <2>5, <2>7, <2>8, <2>9, <2>10
            DEF TypeInv, TypeOK, Register, streams, inbound
  <1> QED BY <1>1, <1>2, <1>3

LEMMA TypeNode ==
    ASSUME TypeInv, SetUp, Queued, NEW n \in Node,
           \/ Accept(n) \/ BroadcastSend(n) \/ Consume(n)
           \/ \E m \in Message :
                Broadcast(n, m) \/ \E addr \in Node \union Conn : Send(n, addr, m)
    PROVE  TypeInv'
  <1>1. CASE Accept(n)
    <2> DEFINE c == Head(backlog[n])
    <2>1. c \in Conn /\ Tail(backlog[n]) \in Seq(Conn)
      BY <1>1, HeadTailProperties, Types DEF Accept
    <2>2. connections' = [connections EXCEPT ![n] = @ \union {<<c, c>>}]
      BY <1>1 DEF Accept
    <2>3. reader' \in [Reader -> ReaderState]
      BY <1>1, StartReaderType DEF Accept
    <2> HIDE DEF c
    <2>4. connections' \in [Node -> SUBSET (Address \X Conn)]
      BY <2>1, <2>2, Types DEF Address
    <2>5. \A o \in Node : \A e \in connections'[o] : e[1] \in Conn => e[1] = e[2]
      BY <2>1, <2>2, Types DEF TypeInv
    <2>6. ASSUME NEW o \in Node, NEW e \in connections'[o], NEW f \in connections'[o],
                 e[1] = f[1]
          PROVE  e = f
      <3>1. e \in connections[o] /\ f \in connections[o] => e = f
        BY <2>6 DEF TypeInv, TypeOK
      <3>2. \A d \in connections[n] : d[1] = c => d = <<c, c>>
        BY <2>1, EntryType DEF TypeInv
      <3>3. CASE o = n
        <4>1. connections'[n] = connections[n] \union {<<c, c>>}
          BY <2>2, Types
        <4> QED BY <2>6, <3>1, <3>2, <3>3, <4>1
      <3>4. CASE o # n
        BY <2>2, <3>1, <3>4, Types
      <3> QED BY <3>3, <3>4
    <2>7. backlog' \in [Node -> Seq(Conn)]
      BY <1>1, <2>1, Types DEF Accept
    <2>8. \A r \in Reader :
             reader'[r].step \in {"none", "length", "body", "put", "lost", "stuck"}
      BY <2>3 DEF ReaderState
    <2> QED BY <1>1, <2>3, <2>4, <2>5, <2>6, <2>7, <2>8
            DEF TypeInv, TypeOK, Accept, streams, inbound
  <1>2. CASE BroadcastSend(n)
    <2>1. PICK w \in writes[n] :
             /\ Write(w[1], n, w[2]) \/ WriteError(w[1], n)
             /\ writes' = [writes EXCEPT ![n] = @ \ {w}]
      BY <1>2 DEF BroadcastSend
    <2>2. w[1] \in Conn /\ w[2] \in Message
      BY <2>1 DEF TypeInv, TypeOK
    <2>3. sent' \in [Reader -> Seq(Message)] /\ wire' \in [Reader -> Seq(Message)]
      BY <2>1, <2>2, WriteType
    <2> QED BY <1>2, <2>1, <2>3
            DEF TypeInv, TypeOK, BroadcastSend, dialed, readers, inbound
  <1>3. CASE Take(n)
    <2>1. Head(recv[n]) \in RPC /\ Tail(recv[n]) \in Seq(RPC)
          /\ Len(Tail(recv[n])) = Len(recv[n]) - 1
      BY <1>3, HeadTailProperties, Types DEF Take
    <2>2. Cap \in Nat /\ Len(recv[n]) \in Nat /\ Len(recv[n]) <= Cap
      BY SizeAssumption, LenProperties, Types DEF TypeInv, TypeOK
    <2>3. Len(Tail(recv[n])) <= Cap
      BY <2>1, <2>2
    <2>4. \A o \in Node : recv'[o] \in Seq(RPC) /\ Len(recv'[o]) <= Cap
      BY <1>3, <2>1, <2>3, Types DEF Take, TypeInv, TypeOK
    <2>6. recv' \in [Node -> Seq(RPC)]
      BY <1>3, <2>1, Types DEF Take
    <2>5. handling' \in [Node -> HandlingState]
      <3>1. PICK h \in RPC : h = Head(recv[n])
        BY <2>1
      <3>2. handling' = [handling EXCEPT ![n].rpc = h]
        BY <1>3, <3>1 DEF Take
      <3> QED BY <3>2, Types DEF HandlingState
    <2> QED BY <1>3, <2>4, <2>5, <2>6
            DEF TypeInv, TypeOK, Take, dialed, streams, readers
  <1>4. CASE ReadByte(n)
    <2> DEFINE rpc == handling[n].rpc
               x == buf[rpc.r][Content(n) + 1]
    <2>1. rpc \in RPC /\ handling[n].got \in Seq(OrNone(Message))
      BY <1>4, Types DEF ReadByte, HandlingState
    <2>2. rpc.r \in Reader /\ rpc.msg \in Message
      BY <2>1 DEF RPC
    <2>3. x \in OrNone(Message)
      <3>1. rpc \in Received(n)
        BY <1>4 DEF Received, ReadByte
      <3>2. Size[rpc.msg] <= BufSize
        BY <3>1 DEF Queued, Genuine
      <3>3. Content(n) \in Nat /\ Size[rpc.msg] \in Nat /\ BufSize \in Nat
        BY <2>1, <2>2, SizeType, SizeAssumption, LenProperties DEF Content
      <3>4. Content(n) < Size[rpc.msg]
        BY <1>4 DEF ReadByte
      <3>5. Content(n) + 1 \in Cells
        BY <3>2, <3>3, <3>4 DEF Cells
      <3> QED BY <2>2, <3>5, Types
    <2>4. Append(handling[n].got, x) \in Seq(OrNone(Message))
      BY <2>1, <2>3, AppendProperties
    <2>5. handling' = [handling EXCEPT ![n].got = Append(@, x)]
      BY <1>4 DEF ReadByte
    <2> HIDE DEF x, rpc
    <2>6. handling' \in [Node -> HandlingState]
      BY <2>4, <2>5, Types DEF HandlingState
    <2> QED BY <1>4, <2>6
            DEF TypeInv, TypeOK, ReadByte, dialed, streams, readers
  <1>5. CASE Decoded(n)
    <2>1. [rpc |-> NoRPC, got |-> <<>>] \in HandlingState
      BY EmptySeq DEF HandlingState
    <2>2. handling' \in [Node -> HandlingState]
      BY <1>5, <2>1, Types DEF Decoded
    <2>3. handled' \in [Reader -> Nat]
      <3> DEFINE q == handling[n].rpc.r
      <3>1. q \in Reader
        BY <1>5, Types DEF Decoded, HandlingState, RPC
      <3>2. handled' = [handled EXCEPT ![q] = @ + 1]
        BY <1>5 DEF Decoded
      <3> HIDE DEF q
      <3> QED BY <3>1, <3>2, Types
    <2> QED BY <1>5, <2>2, <2>3
            DEF TypeInv, TypeOK, Decoded, dialed, streams, readers
  <1>6. ASSUME NEW m \in Message, Broadcast(n, m)
        PROVE  TypeInv'
    <2>1. {<<e[2], m>> : e \in connections[n]} \subseteq Conn \X Message
      BY EntryType
    <2>2. writes' \in [Node -> SUBSET (Conn \X Message)]
      BY <1>6, <2>1 DEF Broadcast, TypeInv, TypeOK
    <2> QED BY <1>6, <2>2
            DEF TypeInv, TypeOK, Broadcast, dialed, streams, readers, inbound
  <1>7. ASSUME NEW m \in Message, NEW addr \in Node \union Conn, Send(n, addr, m)
        PROVE  TypeInv'
    <2>1. PICK c \in Conn : Write(c, n, m) \/ WriteError(c, n)
      BY <1>7 DEF Send
    <2>2. sent' \in [Reader -> Seq(Message)] /\ wire' \in [Reader -> Seq(Message)]
      BY <2>1, WriteType
    <2> QED BY <1>7, <2>2
            DEF TypeInv, TypeOK, Send, dialed, readers, inbound
  <1> QED BY <1>1, <1>2, <1>3, <1>4, <1>5, <1>6, <1>7 DEF Consume

(* A read within a frame takes Part(r) bytes, which fill the cells after pos. *)
Part(r) == Min2(Size[reader[r].msg] - reader[r].pos, Len(buffered[r]))

LEMMA BodyFacts ==
    ASSUME TypeInv, NEW r \in Reader, FramedAt(r), ReadBody(r)
    PROVE  /\ reader[r].msg \in Message /\ Size[reader[r].msg] \in Nat
           /\ Size[reader[r].msg] <= BufSize
           /\ reader[r].pos \in Nat /\ reader[r].pos < Size[reader[r].msg]
           /\ Len(buffered[r]) \in Nat /\ Part(r) \in 1 .. Len(buffered[r])
           /\ Part(r) <= Size[reader[r].msg] - reader[r].pos
           /\ reader[r].step = "body"
           /\ reader'[r].step =
                 IF reader[r].pos + Part(r) = Size[reader[r].msg] THEN "put" ELSE "body"
           /\ reader'[r].pos = reader[r].pos + Part(r)
           /\ reader'[r].msg = reader[r].msg
           /\ reader'[r].n = reader[r].n
           /\ reader' \in [Reader -> ReaderState]
           /\ \A q \in Reader : q # r => reader'[q] = reader[q]
           /\ buffered' = [buffered EXCEPT ![r] = SubSeq(@, Part(r) + 1, Len(@))]
           /\ buf' = [buf EXCEPT ![r] = [i \in Cells |->
                        IF i \in reader[r].pos + 1 .. reader[r].pos + Part(r)
                        THEN buffered[r][i - reader[r].pos] ELSE @[i]]]
  <1> DEFINE m == reader[r].msg
             pos == reader[r].pos
             k == Part(r)
             next == IF pos + k = Size[m] THEN "put" ELSE "body"
  <1>1. reader[r].step = "body" /\ buffered[r] # <<>>
    BY DEF ReadBody
  <1>2. m \in Message /\ Size[m] <= BufSize
    <2>1. reader[r].n > 0 /\ reader[r].n <= Len(sent[r]) /\ reader[r].n \in Nat
      BY <1>1, Types DEF FramedAt, ReaderState
    <2>2. sent[r] \in Seq(Message)
      BY DEF TypeInv, TypeOK
    <2>3. sent[r][reader[r].n] \in Message
      BY <2>1, <2>2, ElementOfSeq, LenProperties
    <2> QED BY <2>1, <2>3 DEF FramedAt
  <1>3. pos \in Nat /\ pos < Size[m]
    BY <1>1, Types DEF FramedAt, ReaderState
  <1>4. Size[m] \in Nat
    BY <1>2, SizeType
  <1>5. Len(buffered[r]) \in Nat /\ Len(buffered[r]) > 0
    BY <1>1, EmptySeq DEF TypeInv, TypeOK
  <1>6. k \in 1 .. Len(buffered[r]) /\ k <= Size[m] - pos
    BY <1>3, <1>4, <1>5 DEF Min2, Part
  <1>7. /\ buffered' = [buffered EXCEPT ![r] = SubSeq(@, k + 1, Len(@))]
        /\ buf' = [buf EXCEPT ![r] = [i \in Cells |->
                     IF i \in pos + 1 .. pos + k THEN buffered[r][i - pos] ELSE @[i]]]
        /\ reader' = [reader EXCEPT ![r].pos = pos + k,
                            ![r].step = IF pos + k = Size[m] THEN "put" ELSE @]
    BY DEF ReadBody, Drop, Part
  <1>8. pos + k \in Nat /\ next \in {"put", "body"}
    BY <1>3, <1>5, <1>6
  <1>9. reader' = [reader EXCEPT ![r].pos = pos + k, ![r].step = next]
    BY <1>1, <1>7, Types DEF ReaderState
  <1> HIDE DEF next, k, pos, m
  <1>10. reader' \in [Reader -> ReaderState]
    BY <1>8, <1>9, Types DEF ReaderState
  <1>11. /\ reader'[r].step = next
         /\ reader'[r].pos = pos + k
         /\ reader'[r].msg = m
         /\ reader'[r].n = reader[r].n
         /\ \A q \in Reader : q # r => reader'[q] = reader[q]
    BY <1>9, Types DEF ReaderState, m
  <1> USE DEF next, k, pos, m
  <1> QED BY <1>1, <1>2, <1>3, <1>4, <1>5, <1>6, <1>7, <1>10, <1>11

LEMMA TypeReader ==
    ASSUME TypeInv, SetUp, Framing, NEW r \in Reader, Fetch(r) \/ Read(r)
    PROVE  TypeInv'
  <1> DEFINE Steps == {"none", "length", "body", "put", "lost", "stuck"}
  <1>0. /\ buffered \in [Reader -> Seq(Message)] /\ wire \in [Reader -> Seq(Message)]
        /\ buffered[r] \in Seq(Message) /\ wire[r] \in Seq(Message)
        /\ Len(buffered[r]) \in Nat /\ Len(wire[r]) \in Nat
    BY LenProperties DEF TypeInv, TypeOK
  <1>1. CASE Fetch(r)
    <2>1. PICK k \in 1 .. Min2(Chunk, Len(wire[r])) :
             /\ buffered' = [buffered EXCEPT ![r] = SubSeq(wire[r], 1, k)]
             /\ wire' = [wire EXCEPT ![r] = SubSeq(@, k + 1, Len(@))]
      BY <1>1 DEF Fetch
    <2>2. k \in 1 .. Len(wire[r]) /\ k \in 0 .. Len(wire[r])
      BY <1>0, SizeAssumption DEF Min2
    <2>3. SubSeq(wire[r], 1, k) \in Seq(Message)
          /\ SubSeq(wire[r], k + 1, Len(wire[r])) \in Seq(Message)
      BY <1>0, <2>2, TakeFirst, DropFirst
    <2>4. buffered' \in [Reader -> Seq(Message)] /\ wire' \in [Reader -> Seq(Message)]
      BY <1>0, <2>1, <2>3
    <2> QED BY <1>1, <2>4 DEF Fetch, TypeInv, TypeOK, dialed, inbound
  <1>2. ASSUME Panic(r[2])
        PROVE  TypeInv'
    BY <1>2 DEF Panic, TypeInv, TypeOK, dialed, streams, readers, inbound
  <1>3. ASSUME NEW k \in 0 .. Len(buffered[r]), Drop(r, k)
        PROVE  buffered' \in [Reader -> Seq(Message)]
    <2>1. SubSeq(buffered[r], k + 1, Len(buffered[r])) \in Seq(Message)
      BY <1>0, DropFirst
    <2> QED BY <1>0, <1>3, <2>1 DEF Drop
  <1>4. CASE ReadLength(r)
    <2> DEFINE m == Head(buffered[r])
    <2>1. m \in Message
      BY <1>0, <1>4, HeadTailProperties DEF ReadLength
    <2> HIDE DEF m
    <2>2. CASE /\ Len(buffered[r]) >= LenSize
               /\ FrameFits(m)
               /\ Drop(r, LenSize)
               /\ reader' = [reader EXCEPT ![r] = [step |-> "body", msg |-> m, pos |-> 0,
                                                   n |-> @.n + 1]]
               /\ UNCHANGED <<up, faults, dialed, unsent, writes, streams, buf, inbound>>
      <3>0. LenSize \in 0 .. Len(buffered[r])
        BY <1>0, <2>2, SizeAssumption
      <3>1. buffered' \in [Reader -> Seq(Message)]
        <4>1. Drop(r, LenSize)
          BY <2>2
        <4>2. SubSeq(buffered[r], LenSize + 1, Len(buffered[r])) \in Seq(Message)
          BY <1>0, <3>0, DropFirst
        <4> QED BY <1>0, <4>1, <4>2 DEF Drop
      <3>2. reader' \in [Reader -> ReaderState]
        BY <2>1, <2>2, Types DEF ReaderState, OrNone
      <3>3. \A q \in Reader : reader'[q].step \in Steps
        BY <3>2 DEF ReaderState
      <3> QED BY <2>2, <3>1, <3>2, <3>3 DEF TypeInv, TypeOK, dialed, streams, inbound
    <2>3. CASE /\ Len(buffered[r]) < LenSize
               /\ Drop(r, Len(buffered[r]))
               /\ reader' = [reader EXCEPT ![r].step = "lost"]
               /\ UNCHANGED <<up, faults, dialed, unsent, writes, streams, buf, inbound>>
      <3>1. buffered' \in [Reader -> Seq(Message)]
        <4>1. Drop(r, Len(buffered[r]))
          BY <2>3
        <4>2. SubSeq(buffered[r], Len(buffered[r]) + 1, Len(buffered[r])) \in Seq(Message)
          BY <1>0, DropFirst
        <4> QED BY <1>0, <4>1, <4>2 DEF Drop
      <3>2. reader' \in [Reader -> ReaderState]
        BY <2>3, Types DEF ReaderState
      <3>3. \A q \in Reader : reader'[q].step \in Steps
        BY <3>2 DEF ReaderState
      <3> QED BY <2>3, <3>1, <3>2, <3>3 DEF TypeInv, TypeOK, dialed, streams, inbound
    <2> QED BY <1>2, <1>4, <2>2, <2>3 DEF ReadLength, m
  <1>5. CASE ReadBody(r)
    <2> DEFINE m == reader[r].msg
               pos == reader[r].pos
               k == Part(r)
               cells == [i \in Cells |->
                           IF i \in pos + 1 .. pos + k THEN buffered[r][i - pos]
                           ELSE buf[r][i]]
    <2>1. FramedAt(r)
      BY DEF Framing
    <2>2. /\ pos \in Nat
          /\ k \in 1 .. Len(buffered[r])
          /\ reader' \in [Reader -> ReaderState]
          /\ buffered' = [buffered EXCEPT ![r] = SubSeq(@, k + 1, Len(@))]
          /\ buf' = [buf EXCEPT ![r] = cells]
      BY <1>5, <2>1, BodyFacts
    <2>3. cells \in [Cells -> OrNone(Message)]
      <3> SUFFICES ASSUME NEW i \in Cells
                   PROVE  cells[i] \in OrNone(Message)
        OBVIOUS
      <3>1. CASE i \in pos + 1 .. pos + k
        <4> HIDE DEF pos, k
        <4>1. i - pos \in 1 .. Len(buffered[r])
          BY <1>0, <2>2, <3>1 DEF Cells
        <4>2. buffered[r][i - pos] \in Message
          BY <1>0, <4>1, ElementOfSeq
        <4> QED BY <3>1, <4>2 DEF OrNone
      <3>2. CASE i \notin pos + 1 .. pos + k
        BY <3>2, Types
      <3> QED BY <3>1, <3>2
    <2> HIDE DEF cells, k
    <2>4. buf' \in [Reader -> [Cells -> OrNone(Message)]]
      BY <2>2, <2>3, Types
    <2>5. buffered' \in [Reader -> Seq(Message)]
      BY <1>0, <1>3, <2>2 DEF Drop
    <2>6. \A q \in Reader : reader'[q].step \in Steps
      BY <2>2 DEF ReaderState
    <2> QED BY <1>5, <2>2, <2>4, <2>5, <2>6
            DEF ReadBody, TypeInv, TypeOK, dialed, streams, inbound
  <1>6. CASE Put(r)
    <2>1. Envelope(r) \in RPC
      <3>1. r[1] \in Conn /\ r[2] \in Node /\ r = <<r[1], r[2]>>
        BY DEF Reader
      <3>2. Peer(r[1], r[2]) \in Node
        BY <1>6, <3>1, PeerType DEF Put, SetUp, Registered
      <3>3. reader[r].n \in Nat /\ reader[r].n > 0 /\ reader[r].n <= Len(sent[r])
            /\ reader[r].msg = sent[r][reader[r].n]
        BY <1>6, Types DEF Put, Framing, FramedAt, ReaderState
      <3>4. sent[r] \in Seq(Message) /\ Len(sent[r]) \in Nat
        BY LenProperties DEF TypeInv, TypeOK
      <3>5. reader[r].msg \in Message
        BY <3>3, <3>4, ElementOfSeq
      <3> QED BY <3>2, <3>3, <3>5 DEF Envelope, RPC, Address
    <2>2. /\ Append(recv[r[2]], Envelope(r)) \in Seq(RPC)
          /\ Len(Append(recv[r[2]], Envelope(r))) = Len(recv[r[2]]) + 1
          /\ Len(recv[r[2]]) \in Nat
      BY <2>1, Types, AppendProperties, LenProperties DEF Reader
    <2>3. Len(Append(recv[r[2]], Envelope(r))) <= Cap
      BY <1>6, <2>2, SizeAssumption DEF Put
    <2>4. recv' \in [Node -> Seq(RPC)]
      BY <1>6, <2>2, Types DEF Put
    <2>5. \A o \in Node : recv'[o] \in Seq(RPC) /\ Len(recv'[o]) <= Cap
      BY <1>6, <2>2, <2>3, Types DEF Put, TypeInv, TypeOK
    <2>6. reader' \in [Reader -> ReaderState]
      BY <1>6, Types DEF Put, ReaderState
    <2>7. \A q \in Reader : reader'[q].step \in Steps
      BY <2>6 DEF ReaderState
    <2> QED BY <1>6, <2>4, <2>5, <2>6, <2>7 DEF Put, TypeInv, TypeOK, dialed, streams
  <1>7. CASE Lost(r)
    <2>1. CASE /\ buf' = [buf EXCEPT ![r] = [i \in Cells |-> None]]
               /\ reader' = [reader EXCEPT ![r].step = "stuck"]
               /\ UNCHANGED <<up, faults, dialed, unsent, writes, streams, buffered, inbound>>
      <3>1. buf' \in [Reader -> [Cells -> OrNone(Message)]]
        BY <2>1, Types DEF OrNone
      <3>2. reader' \in [Reader -> ReaderState]
        BY <2>1, Types DEF ReaderState
      <3>3. \A q \in Reader : reader'[q].step \in Steps
        BY <3>2 DEF ReaderState
      <3> QED BY <2>1, <3>1, <3>2, <3>3 DEF TypeInv, TypeOK, dialed, streams, inbound
    <2> QED BY <1>2, <1>7, <2>1 DEF Lost
  <1> QED BY <1>1, <1>2, <1>4, <1>5, <1>6, <1>7 DEF Read, ReadError

LEMMA TypeStrikes ==
    ASSUME TypeInv, Strikes
    PROVE  TypeInv'
  <1>1. up' \subseteq Node /\ faults' \subseteq Address
    BY DEF Strikes, Exit, Break, TypeInv, TypeOK, Address
  <1> QED BY <1>1, StrikesLeave DEF TypeInv, TypeOK

-----------------------------------------------------------------------------
(***************************************************************************)
(* What a reader does to its own state.                                    *)
(***************************************************************************)
ReaderStep(r) ==
    /\ \A q \in Reader : q # r => reader'[q] = reader[q]
    /\ reader[r].step # "none" /\ reader'[r].step # "none"
    /\ reader'[r].n \in {reader[r].n, reader[r].n + 1}
    /\ reader[r].step = "stuck" => reader'[r].step = "stuck"
    /\ Lost_(r) => reader'[r].step \in {"lost", "stuck"}
    /\ reader'[r].step \in {"body", "put"} =>
          reader[r].step \in {"body", "put"} \/ reader'[r].n = reader[r].n + 1

LEMMA ReaderMoves ==
    ASSUME TypeInv, Framing, NEW r \in Reader, Fetch(r) \/ Read(r)
    PROVE  UNCHANGED dialed /\ (reader' = reader \/ ReaderStep(r))
  <1>1. reader \in [Reader -> ReaderState]
    BY Types
  <1>2. CASE Fetch(r) \/ ReadError(r)
    BY <1>2 DEF Fetch, ReadError, Panic, readers, dialed
  <1>3. CASE ReadLength(r)
    <2>1. reader[r].step = "length"
      BY <1>3 DEF ReadLength
    <2>2. CASE Panic(r[2])
      BY <2>2 DEF Panic, readers, dialed
    <2>3. CASE reader' = [reader EXCEPT ![r] = [step |-> "body", msg |-> Head(buffered[r]),
                                                pos |-> 0, n |-> @.n + 1]]
      <3>1. reader'[r].step = "body" /\ reader'[r].n = reader[r].n + 1
        BY <1>1, <2>3
      <3> QED BY <1>1, <1>3, <2>1, <2>3, <3>1 DEF ReaderStep, ReadLength, Lost_, Panic, dialed
    <2>4. CASE reader' = [reader EXCEPT ![r].step = "lost"]
      <3>1. reader'[r].step = "lost" /\ reader'[r].n = reader[r].n
        BY <1>1, <2>4 DEF ReaderState
      <3> QED BY <1>1, <1>3, <2>1, <2>4, <3>1 DEF ReaderStep, ReadLength, Lost_, Panic, dialed
    <2> QED BY <1>3, <2>2, <2>3, <2>4 DEF ReadLength
  <1>4. CASE ReadBody(r)
    <2>1. FramedAt(r)
      BY DEF Framing
    <2>2. /\ reader[r].step = "body" /\ reader'[r].step \in {"body", "put"}
          /\ reader'[r].n = reader[r].n
          /\ \A q \in Reader : q # r => reader'[q] = reader[q]
      BY <1>4, <2>1, BodyFacts
    <2> QED BY <1>4, <2>2 DEF ReaderStep, ReadBody, Lost_, dialed
  <1>5. CASE Put(r)
    <2>1. /\ reader[r].step = "put" /\ reader'[r].step = "length"
          /\ reader'[r].n = reader[r].n
          /\ \A q \in Reader : q # r => reader'[q] = reader[q]
      BY <1>1, <1>5 DEF Put, ReaderState
    <2> QED BY <1>5, <2>1 DEF ReaderStep, Put, Lost_, dialed
  <1>6. CASE Lost(r)
    <2>1. CASE Panic(r[2])
      BY <2>1 DEF Panic, readers, dialed
    <2>2. CASE ~Panic(r[2])
      <3>1. /\ reader[r].step = "lost" /\ reader'[r].step = "stuck"
            /\ reader'[r].n = reader[r].n
            /\ \A q \in Reader : q # r => reader'[q] = reader[q]
        BY <1>1, <1>6, <2>2 DEF Lost, ReaderState
      <3> QED BY <1>6, <2>2, <3>1 DEF ReaderStep, Lost, Lost_, dialed
    <2> QED BY <2>1, <2>2
  <1> QED BY <1>2, <1>3, <1>4, <1>5, <1>6 DEF Read

-----------------------------------------------------------------------------
(***************************************************************************)
(* Connections are set up once, and before they are read.                  *)
(***************************************************************************)
LEMMA SetUpInit == Init => SetUp
  BY EmptySeq, SizeAssumption
     DEF Init, SetUp, Joined, Dialing, Waiting, Registered, Used, Reader, Idle

LEMMA SetUpKept ==
    ASSUME TypeInv, SetUp, UNCHANGED dialed,
           \A r \in Reader : reader'[r].step = "none" <=> reader[r].step = "none"
    PROVE  SetUp'
  <1>1. \A c \in Conn : \A n \in Node :
           reader'[<<c, n>>].step = "none" <=> reader[<<c, n>>].step = "none"
    BY DEF Reader
  <1>2. UNCHANGED <<ends, backlog, connections, connect>>
    BY DEF dialed
  <1>3. Joined'
    BY <1>2 DEF SetUp, Joined, Used
  <1>4. Dialing'
    BY <1>1, <1>2, SizeAssumption DEF SetUp, Dialing
  <1>5. Waiting'
    BY <1>1, <1>2 DEF SetUp, Waiting, Used
  <1>6. Registered'
    BY <1>1, <1>2 DEF SetUp, Registered, Used, Answerable, IsConnected
  <1> QED BY <1>3, <1>4, <1>5, <1>6 DEF SetUp

(* What a goroutine that has dialed knows. *)
LEMMA DialedFacts ==
    ASSUME SetUp, NEW g \in Caller, connect[g].step = "register"
    PROVE  /\ Dialer[g] \in Node /\ connect[g].conn \in Conn /\ connect[g].to \in Node
           /\ connect[g].to # Dialer[g]
           /\ ends[connect[g].conn].from = Dialer[g]
           /\ ends[connect[g].conn].to = connect[g].to
           /\ ends[connect[g].conn].by = g
           /\ reader[<<connect[g].conn, Dialer[g]>>].step = "none"
  <1>1. Dialing
    BY DEF SetUp
  <1>2. ends[connect[g].conn] = [from |-> Dialer[g], to |-> connect[g].to, by |-> g]
    BY <1>1 DEF Dialing
  <1> QED BY <1>1, <1>2, SizeAssumption DEF Dialing

(* What is known of a connection in the backlog. *)
LEMMA WaitingFacts ==
    ASSUME SetUp, NEW n \in Node, NEW i \in DOMAIN backlog[n]
    PROVE  /\ backlog[n][i] \in Conn
           /\ Used(backlog[n][i])
           /\ ends[backlog[n][i]].to = n
           /\ reader[<<backlog[n][i], n>>].step = "none"
           /\ \A j \in DOMAIN backlog[n] : backlog[n][j] = backlog[n][i] => j = i
  BY DEF SetUp, Waiting

(* A table that grows lets its transport answer all it could before. *)
LEMMA AnswerableKept ==
    ASSUME NEW c \in Conn, NEW n \in Node, Answerable(c, n), ends'[c] = ends[c],
           connections[n] \subseteq connections'[n]
    PROVE  Answerable(c, n)'
  BY DEF Answerable, IsConnected

LEMMA SetUpRegister ==
    ASSUME TypeInv, SetUp, NEW g \in Caller, Register(g)
    PROVE  SetUp'
  <1> DEFINE n == Dialer[g]
             c == connect[g].conn
             m == connect[g].to
  <1>1. /\ n \in Node /\ c \in Conn /\ m \in Node /\ m # n
        /\ ends[c].from = n /\ ends[c].to = m /\ ends[c].by = g
    BY DialedFacts DEF Register
  <1>2. connections' = [connections EXCEPT ![n] =
                           IF IsConnected(n, m) THEN @ ELSE @ \union {<<m, c>>}]
    BY DEF Register
  <1>3. /\ connect \in [Caller -> CallState]
        /\ connect' = [connect EXCEPT ![g].step = "idle"]
        /\ UNCHANGED <<ends, backlog>>
    BY Types DEF Register
  <1>4. <<c, n>> \in Reader
    BY <1>1 DEF Reader
  <1>5. /\ \A r \in Reader : r # <<c, n>> => reader'[r] = reader[r]
        /\ reader'[<<c, n>>].step = "length"
    BY <1>4, StartReaderType DEF Register
  <1>6. n # None
    BY <1>1, AddressAssumption
  <1> HIDE DEF n, c, m
  <1>7. Joined'
    BY <1>3 DEF SetUp, Joined, Used
  <1>8. Dialing'
    <2> SUFFICES ASSUME NEW h \in Caller, h # g
                 PROVE  (/\ connect[h].step = "dial" => connect[h].to \in Node \ {Dialer[h]}
                         /\ connect[h].step = "register" =>
                               LET d == connect[h].conn IN
                               /\ d \in Conn
                               /\ ends[d] = [from |-> Dialer[h], to |-> connect[h].to, by |-> h]
                               /\ connect[h].to \in Node \ {Dialer[h]}
                               /\ reader[<<d, Dialer[h]>>].step = "none")'
      BY <1>3 DEF Dialing, CallState
    <2>1. connect'[h] = connect[h]
      BY <1>3
    <2>2. CASE connect[h].step = "register"
      <3>1. connect[h].conn # c
        BY <1>1, <2>2, DialedFacts
      <3>2. connect[h].conn \in Conn /\ Dialer[h] \in Node
        BY <2>2, DialedFacts
      <3>3. reader'[<<connect[h].conn, Dialer[h]>>] = reader[<<connect[h].conn, Dialer[h]>>]
        BY <1>5, <3>1, <3>2 DEF Reader
      <3> QED BY <1>3, <2>1, <2>2, <3>3 DEF SetUp, Dialing
    <2>3. CASE connect[h].step # "register"
      BY <2>1, <2>3 DEF SetUp, Dialing
    <2> QED BY <2>2, <2>3
  <1>9. Waiting'
    <2>1. \A o \in Node : \A i \in DOMAIN backlog[o] :
             reader'[<<backlog[o][i], o>>].step = "none"
      <3> TAKE o \in Node
      <3> TAKE i \in DOMAIN backlog[o]
      <3>1. /\ backlog[o][i] \in Conn /\ ends[backlog[o][i]].to = o
            /\ reader[<<backlog[o][i], o>>].step = "none"
        BY DEF SetUp, Waiting
      <3>2. <<backlog[o][i], o>> # <<c, n>>
        BY <1>1, <3>1
      <3> QED BY <1>5, <3>1, <3>2 DEF Reader
    <2> QED BY <1>3, <2>1 DEF SetUp, Waiting, Used
  <1>10. Registered'
    <2> SUFFICES ASSUME NEW d \in Conn, NEW o \in Node, reader'[<<d, o>>].step # "none"
                 PROVE  (Used(d) /\ Answerable(d, o))'
      BY DEF Registered
    <2>1. ends'[d] = ends[d] /\ connections[o] \subseteq connections'[o]
      BY <1>2, <1>3, Types
    <2>2. CASE <<d, o>> = <<c, n>>
      <3>1. \E e \in Conn : <<m, e>> \in connections'[n]
        <4>1. CASE IsConnected(n, m)
          BY <1>1, <1>2, <4>1, Types DEF IsConnected
        <4>2. CASE ~IsConnected(n, m)
          <5>1. <<m, c>> \in connections'[n]
            BY <1>1, <1>2, <4>2, Types
          <5> QED BY <1>1, <5>1
        <4> QED BY <4>1, <4>2
      <3>2. d = c /\ o = n
        BY <2>2
      <3>3. ends'[c].to = m /\ ends'[c].from = n
        BY <1>1, <1>3
      <3> QED BY <1>1, <1>6, <3>1, <3>2, <3>3 DEF Used, Answerable, IsConnected
    <2>3. CASE <<d, o>> # <<c, n>>
      <3>1. Used(d) /\ Answerable(d, o)
        BY <1>5, <2>3 DEF SetUp, Registered, Reader
      <3> QED BY <2>1, <3>1, AnswerableKept DEF Used
    <2> QED BY <2>2, <2>3
  <1> QED BY <1>7, <1>8, <1>9, <1>10 DEF SetUp

LEMMA SetUpAccept ==
    ASSUME TypeInv, SetUp, NEW n \in Node, Accept(n)
    PROVE  SetUp'
  <1> DEFINE c == Head(backlog[n])
  <1>1. /\ backlog[n] \in Seq(Conn) /\ backlog[n] # <<>>
        /\ Len(backlog[n]) \in Nat /\ Len(backlog[n]) > 0
        /\ DOMAIN backlog[n] = 1 .. Len(backlog[n])
    BY Types, EmptySeq, LenProperties DEF Accept
  <1>2. /\ Len(Tail(backlog[n])) = Len(backlog[n]) - 1
        /\ DOMAIN Tail(backlog[n]) = 1 .. Len(backlog[n]) - 1
        /\ \A i \in 1 .. Len(backlog[n]) - 1 : Tail(backlog[n])[i] = backlog[n][i + 1]
    BY <1>1, HeadTailProperties, LenProperties
  <1>3. c = backlog[n][1] /\ 1 \in DOMAIN backlog[n]
    BY <1>1
  <1> HIDE DEF c
  <1>4. /\ c \in Conn /\ Used(c) /\ ends[c].to = n
        /\ \A j \in DOMAIN backlog[n] : backlog[n][j] = c => j = 1
    BY <1>3, WaitingFacts
  <1>5. <<c, n>> \in Reader
    BY <1>4 DEF Reader
  <1>6. /\ \A r \in Reader : r # <<c, n>> => reader'[r] = reader[r]
        /\ reader'[<<c, n>>].step = "length"
    BY <1>5, StartReaderType DEF Accept, c
  <1>7. /\ backlog' = [backlog EXCEPT ![n] = Tail(@)]
        /\ connections' = [connections EXCEPT ![n] = @ \union {<<c, c>>}]
        /\ UNCHANGED <<ends, connect>>
    BY DEF Accept, c
  <1>8. Joined'
    BY <1>7 DEF SetUp, Joined, Used
  <1>9. Dialing'
    <2>1. \A h \in Caller : connect[h].step = "register" =>
             reader'[<<connect[h].conn, Dialer[h]>>].step = "none"
      <3> SUFFICES ASSUME NEW h \in Caller, connect[h].step = "register"
                   PROVE  reader'[<<connect[h].conn, Dialer[h]>>].step = "none"
        OBVIOUS
      <3>1. /\ connect[h].conn \in Conn /\ Dialer[h] \in Node
            /\ ends[connect[h].conn].to # Dialer[h]
            /\ reader[<<connect[h].conn, Dialer[h]>>].step = "none"
        BY DialedFacts
      <3>2. <<connect[h].conn, Dialer[h]>> # <<c, n>>
        BY <1>4, <3>1
      <3> QED BY <1>6, <3>1, <3>2 DEF Reader
    <2> QED BY <1>7, <2>1 DEF SetUp, Dialing
  <1>10. Waiting'
    <2> SUFFICES ASSUME NEW o \in Node, NEW i \in DOMAIN backlog'[o]
                 PROVE  /\ backlog'[o][i] \in Conn
                        /\ ends[backlog'[o][i]].from # None
                        /\ ends[backlog'[o][i]].to = o
                        /\ reader'[<<backlog'[o][i], o>>].step = "none"
                        /\ \A j \in DOMAIN backlog'[o] :
                              backlog'[o][j] = backlog'[o][i] => j = i
      BY <1>7 DEF Waiting, Used
    <2>1. CASE o = n
      <3>1. /\ DOMAIN backlog'[n] = 1 .. Len(backlog[n]) - 1
            /\ \A j \in 1 .. Len(backlog[n]) - 1 : backlog'[n][j] = backlog[n][j + 1]
        BY <1>2, <1>7, Types
      <3>2. \A j \in 1 .. Len(backlog[n]) - 1 : j + 1 \in DOMAIN backlog[n] /\ j + 1 # 1
        BY <1>1
      <3>3. /\ backlog'[o][i] = backlog[n][i + 1] /\ i + 1 \in DOMAIN backlog[n] /\ i \in Int
            /\ i + 1 # 1
        BY <1>1, <2>1, <3>1, <3>2
      <3>4. /\ backlog[n][i + 1] \in Conn
            /\ ends[backlog[n][i + 1]].from # None
            /\ ends[backlog[n][i + 1]].to = n
            /\ reader[<<backlog[n][i + 1], n>>].step = "none"
            /\ \A j \in DOMAIN backlog[n] : backlog[n][j] = backlog[n][i + 1] => j = i + 1
        BY <3>3 DEF SetUp, Waiting, Used
      <3>5. backlog[n][i + 1] # c
        BY <1>4, <3>3
      <3>6. reader'[<<backlog[n][i + 1], n>>].step = "none"
        BY <1>6, <3>4, <3>5 DEF Reader
      <3>7. \A j \in DOMAIN backlog'[o] : backlog'[o][j] = backlog'[o][i] => j = i
        <4> SUFFICES ASSUME NEW j \in 1 .. Len(backlog[n]) - 1,
                            backlog[n][j + 1] = backlog[n][i + 1]
                     PROVE  j = i
          BY <2>1, <3>1, <3>3
        <4>1. j + 1 = i + 1
          BY <3>2, <3>4
        <4> QED BY <1>1, <3>3, <4>1
      <3> QED BY <2>1, <3>3, <3>4, <3>6, <3>7
    <2>2. CASE o # n
      <3>1. backlog'[o] = backlog[o]
        BY <1>7, <2>2, Types
      <3>2. /\ backlog[o][i] \in Conn
            /\ ends[backlog[o][i]].from # None
            /\ ends[backlog[o][i]].to = o
            /\ reader[<<backlog[o][i], o>>].step = "none"
            /\ \A j \in DOMAIN backlog[o] : backlog[o][j] = backlog[o][i] => j = i
        BY <3>1 DEF SetUp, Waiting, Used
      <3>3. reader'[<<backlog[o][i], o>>].step = "none"
        BY <1>6, <2>2, <3>2 DEF Reader
      <3> QED BY <3>1, <3>2, <3>3
    <2> QED BY <2>1, <2>2
  <1>11. Registered'
    <2> SUFFICES ASSUME NEW d \in Conn, NEW o \in Node, reader'[<<d, o>>].step # "none"
                 PROVE  (Used(d) /\ Answerable(d, o))'
      BY DEF Registered
    <2>1. ends'[d] = ends[d] /\ connections[o] \subseteq connections'[o]
      BY <1>7, Types
    <2>2. CASE <<d, o>> = <<c, n>>
      <3>1. <<c, c>> \in connections'[n]
        BY <1>7, Types
      <3> QED BY <1>4, <1>7, <2>2, <3>1 DEF Used, Answerable
    <2>3. CASE <<d, o>> # <<c, n>>
      <3>1. Used(d) /\ Answerable(d, o)
        BY <1>6, <2>3 DEF SetUp, Registered, Reader
      <3> QED BY <2>1, <3>1, AnswerableKept DEF Used
    <2> QED BY <2>2, <2>3
  <1> QED BY <1>8, <1>9, <1>10, <1>11 DEF SetUp

(* The connection that net.Dial opens. *)
NewConn == CHOOSE d \in Unused : TRUE

Opens(g) ==
    /\ connect[g].to \in up
    /\ NewConn \in Conn
    /\ ~Used(NewConn)
    /\ ends' = [ends EXCEPT ![NewConn] = [from |-> Dialer[g], to |-> connect[g].to, by |-> g]]
    /\ backlog' = [backlog EXCEPT ![connect[g].to] = Append(@, NewConn)]
    /\ connect' = [connect EXCEPT ![g] = [@ EXCEPT !.step = "register", !.conn = NewConn]]

LEMMA DialCases ==
    ASSUME NEW g \in Caller, Dial(g)
    PROVE  /\ connect[g].step = "dial"
           /\ UNCHANGED <<up, faults, connections, unsent, writes, streams, readers, inbound>>
           /\ \/ Opens(g)
              \/ /\ connect' = [connect EXCEPT ![g].step = "idle"]
                 /\ UNCHANGED <<ends, backlog>>
  <1>1. Unused # {} => NewConn \in Conn /\ ~Used(NewConn)
    BY DEF NewConn, Unused, Used
  <1> QED BY <1>1 DEF Dial, Opens, NewConn

LEMMA SetUpOpens ==
    ASSUME TypeInv, SetUp, NEW g \in Caller, Dial(g), Opens(g)
    PROVE  SetUp'
  <1>1. PICK c \in Conn : c = NewConn
    BY DEF Opens
  <1>2. PICK m : m = connect[g].to
    OBVIOUS
  <1>3. PICK n \in Node : n = Dialer[g]
    BY SizeAssumption
  <1>4. /\ m \in Node /\ m # n
        /\ UNCHANGED <<connections, reader>>
        /\ ends[c].from = None
        /\ ends' = [ends EXCEPT ![c] = [from |-> n, to |-> m, by |-> g]]
        /\ backlog' = [backlog EXCEPT ![m] = Append(@, c)]
        /\ connect' = [connect EXCEPT ![g] = [@ EXCEPT !.step = "register", !.conn = c]]
    BY <1>1, <1>2, <1>3, DialCases DEF Opens, SetUp, Dialing, Used, readers
  <1>5. n # None
    BY <1>3, AddressAssumption
  <1>6. ends \in [Conn -> [from : OrNone(Node), to : OrNone(Node), by : OrNone(Caller)]]
    BY DEF TypeInv, TypeOK
  <1>7. /\ ends'[c].from = n /\ ends'[c].to = m /\ ends'[c].by = g
        /\ \A d \in Conn : d # c => ends'[d] = ends[d]
        /\ ends'[c] = [from |-> n, to |-> m, by |-> g]
    BY <1>4, <1>6
  <1>8. \A o \in Node : reader[<<c, o>>].step = "none"
    BY <1>4 DEF SetUp, Registered, Used
  <1>9. Joined'
    BY <1>3, <1>4, <1>7 DEF SetUp, Joined, Used
  <1>10. Dialing'
    <2>1. /\ connect'[g].step = "register" /\ connect'[g].conn = c /\ connect'[g].to = m
          /\ \A h \in Caller : h # g => connect'[h] = connect[h]
      BY <1>2, <1>4, Types DEF CallState
    <2> SUFFICES ASSUME NEW h \in Caller
                 PROVE  (/\ connect[h].step = "dial" => connect[h].to \in Node \ {Dialer[h]}
                         /\ connect[h].step = "register" =>
                               LET d == connect[h].conn IN
                               /\ d \in Conn
                               /\ ends[d] = [from |-> Dialer[h], to |-> connect[h].to, by |-> h]
                               /\ connect[h].to \in Node \ {Dialer[h]}
                               /\ reader[<<d, Dialer[h]>>].step = "none")'
      BY DEF Dialing
    <2>2. CASE h = g
      BY <1>1, <1>3, <1>4, <1>7, <1>8, <2>1, <2>2
    <2>3. CASE h # g /\ connect[h].step = "register"
      <3>1. connect[h].conn # c
        <4>1. connect[h].step = "register"
          BY <2>3
        <4>2. ends[connect[h].conn].from = Dialer[h]
          BY <4>1, DialedFacts
        <4>3. Dialer[h] # None
          BY AddressAssumption, SizeAssumption
        <4> QED BY <1>4, <4>2, <4>3
      <3> QED BY <1>4, <1>7, <2>1, <2>3, <3>1 DEF SetUp, Dialing
    <2>4. CASE h # g /\ connect[h].step # "register"
      BY <2>1, <2>4 DEF SetUp, Dialing
    <2> QED BY <2>2, <2>3, <2>4
  <1>11. Waiting'
    <2>1. ASSUME NEW o \in Node, NEW i \in DOMAIN backlog[o]
          PROVE  /\ backlog[o][i] \in Conn /\ backlog[o][i] # c
                 /\ ends'[backlog[o][i]].from # None
                 /\ ends'[backlog[o][i]].to = o
                 /\ reader[<<backlog[o][i], o>>].step = "none"
                 /\ \A j \in DOMAIN backlog[o] : backlog[o][j] = backlog[o][i] => j = i
      BY <1>4, <1>7, WaitingFacts DEF Used
    <2>2. /\ backlog[m] \in Seq(Conn)
          /\ Len(backlog[m]) \in Nat /\ DOMAIN backlog[m] = 1 .. Len(backlog[m])
      BY <1>4, Types, LenProperties
    <2>3. /\ backlog'[m] \in Seq(Conn)
          /\ DOMAIN backlog'[m] = 1 .. Len(backlog[m]) + 1
          /\ \A i \in 1 .. Len(backlog[m]) : backlog'[m][i] = backlog[m][i]
          /\ backlog'[m][Len(backlog[m]) + 1] = c
      BY <1>1, <1>4, <2>2, Types, AppendProperties, LenProperties
    <2> SUFFICES ASSUME NEW o \in Node, NEW i \in DOMAIN backlog'[o]
                 PROVE  /\ backlog'[o][i] \in Conn
                        /\ ends'[backlog'[o][i]].from # None
                        /\ ends'[backlog'[o][i]].to = o
                        /\ reader'[<<backlog'[o][i], o>>].step = "none"
                        /\ \A j \in DOMAIN backlog'[o] :
                              backlog'[o][j] = backlog'[o][i] => j = i
      BY DEF Waiting, Used
    <2>4. CASE o # m
      BY <1>4, <2>1, <2>4, Types
    <2>5. CASE o = m /\ i = Len(backlog[m]) + 1
      <3>1. \A j \in DOMAIN backlog'[m] : backlog'[m][j] = c => j = i
        <4> SUFFICES ASSUME NEW j \in 1 .. Len(backlog[m]) + 1, backlog'[m][j] = c, j # i
                     PROVE  FALSE
          BY <2>3
        <4>1. j \in 1 .. Len(backlog[m])
          BY <2>2, <2>5
        <4>2. j \in DOMAIN backlog[m]
          BY <2>2, <4>1
        <4>3. backlog[m][j] # c
          BY <1>4, <2>1, <4>2
        <4> QED BY <2>3, <4>1, <4>3
      <3> QED BY <1>1, <1>4, <1>5, <1>7, <1>8, <2>3, <2>5, <3>1
    <2>6. CASE o = m /\ i \in 1 .. Len(backlog[m])
      <3>1. \A j \in DOMAIN backlog'[m] : backlog'[m][j] = backlog[m][i] => j = i
        <4> SUFFICES ASSUME NEW j \in 1 .. Len(backlog[m]) + 1,
                            backlog'[m][j] = backlog[m][i]
                     PROVE  j = i
          BY <2>3
        <4>0. i \in DOMAIN backlog[m] /\ backlog[m][i] # c
              /\ \A l \in DOMAIN backlog[m] : backlog[m][l] = backlog[m][i] => l = i
          BY <1>4, <2>1, <2>2, <2>6
        <4>1. CASE j = Len(backlog[m]) + 1
          BY <2>3, <4>0, <4>1
        <4>2. CASE j \in 1 .. Len(backlog[m])
          BY <2>2, <2>3, <4>0, <4>2
        <4> QED BY <2>2, <4>1, <4>2
      <3> QED BY <1>4, <2>1, <2>2, <2>3, <2>6, <3>1
    <2>7. o = m => i \in 1 .. Len(backlog[m]) \/ i = Len(backlog[m]) + 1
      BY <2>2, <2>3
    <2> QED BY <2>4, <2>5, <2>6, <2>7
  <1>12. Registered'
    <2> SUFFICES ASSUME NEW d \in Conn, NEW o \in Node, reader'[<<d, o>>].step # "none"
                 PROVE  (Used(d) /\ Answerable(d, o))'
      BY DEF Registered
    <2>1. d # c /\ Used(d) /\ Answerable(d, o)
      BY <1>4, <1>8 DEF SetUp, Registered
    <2> QED BY <1>4, <1>7, <2>1, AnswerableKept DEF Used
  <1> QED BY <1>9, <1>10, <1>11, <1>12 DEF SetUp

LEMMA SetUpCall ==
    ASSUME TypeInv, SetUp, NEW g \in Caller,
           UNCHANGED <<ends, backlog, connections, reader>>,
           \A h \in Caller : h # g => connect'[h] = connect[h],
           \/ connect'[g].step = "idle"
           \/ connect'[g].step = "dial" /\ connect'[g].to \in Node \ {Dialer[g]}
    PROVE  SetUp'
  <1>1. Joined'
    BY DEF SetUp, Joined, Used
  <1>2. Dialing'
    BY DEF SetUp, Dialing
  <1>3. Waiting'
    BY DEF SetUp, Waiting, Used
  <1>4. Registered'
    BY DEF SetUp, Registered, Used, Answerable, IsConnected
  <1> QED BY <1>1, <1>2, <1>3, <1>4 DEF SetUp

LEMMA SetUpNext ==
    ASSUME TypeInv, SetUp, Framing, Next
    PROVE  SetUp'
  <1>1. ASSUME NEW g \in Caller, Dial(g)
        PROVE  SetUp'
    <2>1. CASE Opens(g)
      BY <1>1, <2>1, SetUpOpens
    <2>2. CASE connect' = [connect EXCEPT ![g].step = "idle"] /\ UNCHANGED <<ends, backlog>>
      <3>1. connect'[g].step = "idle" /\ \A h \in Caller : h # g => connect'[h] = connect[h]
        BY <2>2, Types DEF CallState
      <3> QED BY <1>1, <2>2, <3>1, SetUpCall, DialCases DEF readers
    <2> QED BY <1>1, <2>1, <2>2, DialCases
  <1>2. ASSUME NEW g \in Caller, NEW m \in Node, Connect(g, m)
        PROVE  SetUp'
    <2>1. /\ connect'[g].step = "dial" /\ connect'[g].to = m /\ m # Dialer[g]
          /\ \A h \in Caller : h # g => connect'[h] = connect[h]
      BY <1>2, Types DEF Connect
    <2> QED BY <1>2, <2>1, SetUpCall DEF Connect, readers
  <1>3. ASSUME NEW n \in Node,
               \/ BroadcastSend(n) \/ Consume(n)
               \/ \E m \in Message :
                     Broadcast(n, m) \/ \E addr \in Node \union Conn : Send(n, addr, m)
        PROVE  SetUp'
    <2>1. UNCHANGED <<dialed, reader>>
      BY <1>3 DEF BroadcastSend, Consume, Take, ReadByte, Decoded, Broadcast, Send,
                  dialed, readers
    <2> QED BY <2>1, SetUpKept
  <1>4. ASSUME NEW r \in Reader, Fetch(r) \/ Read(r)
        PROVE  SetUp'
    <2>1. UNCHANGED dialed /\ (reader' = reader \/ ReaderStep(r))
      BY <1>4, ReaderMoves
    <2>2. \A q \in Reader : reader'[q].step = "none" <=> reader[q].step = "none"
      BY <2>1 DEF ReaderStep
    <2> QED BY <2>1, <2>2, SetUpKept
  <1>5. ASSUME Strikes
        PROVE  SetUp'
    BY <1>5, StrikesLeave, SetUpKept DEF dialed
  <1> QED BY <1>1, <1>2, <1>3, <1>4, <1>5, SetUpRegister, SetUpAccept DEF Next, Strikes

-----------------------------------------------------------------------------
(***************************************************************************)
(* Framing.  What arrives, is buffered or is read moves the boundaries of  *)
(* the frames and never crosses one.                                       *)
(***************************************************************************)
LEMMA StreamTypes ==
    ASSUME TypeInv, NEW r \in Reader
    PROVE  /\ sent \in [Reader -> Seq(Message)] /\ wire \in [Reader -> Seq(Message)]
           /\ buffered \in [Reader -> Seq(Message)]
           /\ sent[r] \in Seq(Message) /\ wire[r] \in Seq(Message)
           /\ buffered[r] \in Seq(Message)
           /\ Len(sent[r]) \in Nat /\ Len(wire[r]) \in Nat /\ Len(buffered[r]) \in Nat
           /\ DOMAIN sent[r] = 1 .. Len(sent[r])
           /\ InFlight(r) \in Nat
           /\ reader[r] \in ReaderState /\ reader[r].n \in Nat /\ reader[r].pos \in Nat
  <1>1. /\ sent \in [Reader -> Seq(Message)] /\ wire \in [Reader -> Seq(Message)]
        /\ buffered \in [Reader -> Seq(Message)]
    BY DEF TypeInv, TypeOK
  <1>2. /\ Len(sent[r]) \in Nat /\ Len(wire[r]) \in Nat /\ Len(buffered[r]) \in Nat
        /\ DOMAIN sent[r] = 1 .. Len(sent[r])
    BY <1>1, LenProperties
  <1>3. reader[r] \in ReaderState
    BY Types
  <1> QED BY <1>1, <1>2, <1>3 DEF InFlight, ReaderState

LEMMA SentSizes ==
    ASSUME TypeInv, NEW r \in Reader, NEW k \in 1 .. Len(sent[r])
    PROVE  /\ sent[r][k] \in Message
           /\ Size[sent[r][k]] \in Nat /\ Size[sent[r][k]] > 0
           /\ LenSize \in Nat /\ LenSize > 0
  <1>1. sent[r][k] \in Message
    BY StreamTypes, ElementOfSeq
  <1> QED BY <1>1, SizeType

LEMMA RemainingType ==
    ASSUME TypeInv, NEW r \in Reader, FramedAt(r)
    PROVE  Remaining(r) \in Nat
  <1>1. CASE reader[r].step = "body"
    <2>1. reader[r].n \in 1 .. Len(sent[r]) /\ reader[r].msg = sent[r][reader[r].n]
      BY <1>1, StreamTypes DEF FramedAt
    <2>2. Size[reader[r].msg] \in Nat
      BY <2>1, SentSizes
    <2>3. reader[r].pos \in Nat /\ reader[r].pos < Size[reader[r].msg]
      BY <1>1, StreamTypes DEF FramedAt
    <2> QED BY <1>1, <2>2, <2>3 DEF Remaining
  <1>2. CASE reader[r].step # "body"
    BY <1>2 DEF Remaining
  <1> QED BY <1>1, <1>2

(* The boundaries lie between the rest of the current frame and the end. *)
LEMMA CutBounds ==
    ASSUME TypeInv, NEW r \in Reader, FramedAt(r), NEW start, Cut(r, start)
    PROVE  \A k \in reader[r].n + 1 .. Len(sent[r]) + 1 :
              /\ start[k] \in Nat
              /\ Remaining(r) <= start[k]
              /\ start[k] <= InFlight(r)
  <1> SUFFICES ASSUME NEW k \in reader[r].n + 1 .. Len(sent[r]) + 1
               PROVE  /\ start[k] \in Nat
                      /\ Remaining(r) <= start[k]
                      /\ start[k] <= InFlight(r)
    OBVIOUS
  <1> DEFINE first == reader[r].n + 1
             last == Len(sent[r]) + 1
  <1>1. /\ reader[r].n \in Nat /\ Len(sent[r]) \in Nat /\ InFlight(r) \in Nat
        /\ Remaining(r) \in Nat /\ reader[r].n <= Len(sent[r])
    BY StreamTypes, RemainingType DEF FramedAt
  <1>2. /\ start \in [first .. last -> Nat]
        /\ start[first] = Remaining(r) /\ start[last] = InFlight(r)
        /\ \A i, j \in first .. last :
              i < j => start[i] + LenSize + Size[sent[r][i]] <= start[j]
    BY DEF Cut
  <1>3. \A i, j \in first .. last : i < j => start[i] <= start[j]
    <2> SUFFICES ASSUME NEW i \in first .. last, NEW j \in first .. last, i < j
                 PROVE  start[i] <= start[j]
      OBVIOUS
    <2>1. i \in 1 .. Len(sent[r])
      BY <1>1
    <2>2. Size[sent[r][i]] \in Nat /\ LenSize \in Nat
      BY <2>1, SentSizes
    <2>3. start[i] \in Nat /\ start[j] \in Nat
      BY <1>2
    <2>4. start[i] + LenSize + Size[sent[r][i]] <= start[j]
      BY <1>2
    <2> QED BY <2>2, <2>3, <2>4
  <1>4. first \in first .. last /\ last \in first .. last
    BY <1>1
  <1>5. start[k] \in Nat
    BY <1>2
  <1>7. (k = first \/ first < k) /\ (k = last \/ k < last)
    BY <1>1
  <1> HIDE DEF first, last
  <1>6. k \in first .. last
    BY DEF first, last
  <1>8. (k = first \/ start[first] <= start[k]) /\ (k = last \/ start[k] <= start[last])
    BY <1>3, <1>4, <1>6, <1>7
  <1> QED BY <1>1, <1>2, <1>5, <1>8

(* Bytes that only move from the kernel into the bufio.Reader, or a reader that
   only goes on to its next step, leave the boundaries where they are. *)
LEMMA CutSame ==
    ASSUME TypeInv, NEW r \in Reader, FramedAt(r), NEW start, Cut(r, start),
           sent'[r] = sent[r], reader'[r].n = reader[r].n, reader'[r].msg = reader[r].msg,
           Remaining(r)' = Remaining(r), InFlight(r)' = InFlight(r),
           \A j \in 1 .. InFlight(r) : Byte(r, j)' = Byte(r, j)
    PROVE  Cut(r, start)'
  <1>1. /\ reader[r].n \in Nat /\ Len(sent[r]) \in Nat /\ InFlight(r) \in Nat
        /\ Remaining(r) \in Nat /\ reader[r].n <= Len(sent[r])
    BY StreamTypes, RemainingType DEF FramedAt
  <1>2. \A k \in reader[r].n + 1 .. Len(sent[r]) + 1 :
           start[k] \in Nat /\ Remaining(r) <= start[k] /\ start[k] <= InFlight(r)
    BY CutBounds
  <1>3. \A j \in 1 .. Remaining(r) : Byte(r, j)' = reader[r].msg
    <2> TAKE j \in 1 .. Remaining(r)
    <2>1. reader[r].n + 1 \in reader[r].n + 1 .. Len(sent[r]) + 1
      BY <1>1
    <2>2. Remaining(r) <= InFlight(r)
      <3>1. /\ start[reader[r].n + 1] \in Nat /\ Remaining(r) <= start[reader[r].n + 1]
            /\ start[reader[r].n + 1] <= InFlight(r)
        BY <1>2, <2>1
      <3> QED BY <1>1, <3>1
    <2>3. j \in 1 .. InFlight(r)
      BY <1>1, <2>2
    <2> QED BY <2>3 DEF Cut
  <1>4. ASSUME NEW k \in reader[r].n + 1 .. Len(sent[r]),
               NEW j \in start[k] + 1 .. start[k + 1]
        PROVE  Byte(r, j)' = sent[r][k]
    <2>1. /\ k \in reader[r].n + 1 .. Len(sent[r]) + 1
          /\ k + 1 \in reader[r].n + 1 .. Len(sent[r]) + 1
          /\ k \in reader[r].n + 1 .. (Len(sent[r]) + 1) - 1
      BY <1>1
    <2>2. start[k] \in Nat /\ start[k + 1] \in Nat /\ start[k + 1] <= InFlight(r)
      BY <1>2, <2>1
    <2>3. j \in 1 .. InFlight(r)
      BY <1>1, <2>2
    <2> QED BY <2>1, <2>3 DEF Cut
  <1>5. \A k \in reader[r].n + 1 .. (Len(sent[r]) + 1) - 1 : k \in reader[r].n + 1 .. Len(sent[r])
    BY <1>1
  <1> QED BY <1>3, <1>4, <1>5 DEF Cut

LEMMA SumBelow ==
    \A a, b, c, d \in Nat : a + b + c <= d => d >= a
  OBVIOUS

LEMMA SumShifted ==
    \A a, b, c, d, k \in Nat : a + b + c <= d => (a - k) + b + c <= d - k
  OBVIOUS

LEMMA DifferenceShifted ==
    \A a, b, c, k \in Nat : (a + b + c) - k = (a - k) + b + c
  OBVIOUS

LEMMA RangeShifted ==
    \A a, b, d, k \in Nat : \A j \in Int :
       k <= a /\ b <= d /\ a - k + 1 <= j /\ j <= b - k =>
          a + 1 <= j + k /\ j + k <= b /\ 1 <= j /\ j <= d - k
  OBVIOUS

(* k bytes are taken from the stream, and of what follows the first x belong to
   the message the reader is then at. *)
Shifted(r, k) == \A j \in 1 .. InFlight(r) - k : Byte(r, j)' = Byte(r, j + k)

Ahead(r, k, x) == \A j \in 1 .. x : Byte(r, j + k) = reader'[r].msg

(* The reader takes k bytes and is then before the frame f. *)
LEMMA CutDrop ==
    ASSUME TypeInv, NEW r \in Reader, FramedAt(r), NEW start, Cut(r, start),
           sent'[r] = sent[r],
           NEW f \in reader[r].n + 1 .. Len(sent[r]) + 1, reader'[r].n + 1 = f,
           NEW k \in Nat, k <= start[f],
           Remaining(r)' = start[f] - k, InFlight(r)' = InFlight(r) - k,
           Shifted(r, k), Ahead(r, k, start[f] - k)
    PROVE  \E s : Cut(r, s)'
  <1>0. PICK last : last = Len(sent[r]) + 1
    OBVIOUS
  <1> DEFINE s == [i \in f .. last |-> start[i] - k]
  <1>1. /\ reader[r].n \in Nat /\ Len(sent[r]) \in Nat /\ InFlight(r) \in Nat
        /\ reader[r].n <= Len(sent[r]) /\ f \in Nat /\ f <= last /\ f >= reader[r].n + 1
        /\ f >= 1 /\ last \in Nat
    BY <1>0, StreamTypes DEF FramedAt
  <1>2. \A i \in f .. last :
           i \in reader[r].n + 1 .. last /\ start[i] \in Nat /\ start[i] <= InFlight(r)
    <2>1. \A i \in f .. last : i \in reader[r].n + 1 .. last
      BY <1>1
    <2> QED BY <1>0, <2>1, CutBounds
  <1>3. \A i, j \in f .. last :
           i < j => start[i] + LenSize + Size[sent[r][i]] <= start[j]
    BY <1>0, <1>2 DEF Cut
  <1>4. \A i \in f .. last - 1 : i \in f .. last /\ i + 1 \in f .. last
                                 /\ i \in 1 .. Len(sent[r]) /\ i \in reader[r].n + 1 .. last - 1
    BY <1>0, <1>1
  <1>5. \A i \in f .. last - 1 : Size[sent[r][i]] \in Nat /\ LenSize \in Nat
    BY <1>4, SentSizes
  <1>6. \A i \in f .. last : start[i] >= start[f]
    <2> TAKE i \in f .. last
    <2>1. CASE i = f
      BY <1>2, <2>1
    <2>2. CASE i # f
      <3>1. f < i /\ f \in f .. last - 1 /\ f \in f .. last
        BY <1>1, <2>2
      <3>2. start[f] + LenSize + Size[sent[r][f]] <= start[i]
        BY <1>3, <3>1
      <3>3. start[f] \in Nat /\ start[i] \in Nat
        BY <1>2, <3>1
      <3>4. Size[sent[r][f]] \in Nat /\ LenSize \in Nat
        BY <1>5, <3>1
      <3> QED BY <3>2, <3>3, <3>4, SumBelow
    <2> QED BY <2>1, <2>2
  <1>7. f \in f .. last /\ last \in f .. last
    BY <1>1
  <1>8. s \in [f .. last -> Nat]
    <2> SUFFICES ASSUME NEW i \in f .. last PROVE start[i] - k \in Nat
      OBVIOUS
    <2> QED BY <1>2, <1>6, <1>7
  <1>9. s[f] = Remaining(r)' /\ s[last] = InFlight(r)'
    <2>1. start[last] = InFlight(r)
      BY <1>0 DEF Cut
    <2> QED BY <1>7, <2>1
  <1>10. ASSUME NEW i \in f .. last - 1
         PROVE  s[i + 1] = s[i] + LenSize + Size[sent[r][i]]
    <2>1. start[i + 1] = start[i] + LenSize + Size[sent[r][i]]
      BY <1>0, <1>4 DEF Cut
    <2>2. s[i] = start[i] - k /\ s[i + 1] = start[i + 1] - k
      BY <1>4
    <2>3. start[i] \in Nat /\ Size[sent[r][i]] \in Nat /\ LenSize \in Nat
      BY <1>2, <1>4, <1>5
    <2>4. start[i + 1] - k = (start[i] - k) + LenSize + Size[sent[r][i]]
      BY <2>1, <2>3, DifferenceShifted
    <2> QED BY <2>2, <2>4
  <1>11. ASSUME NEW i \in f .. last, NEW j \in f .. last, i < j
         PROVE  s[i] + LenSize + Size[sent[r][i]] <= s[j]
    <2>1. start[i] + LenSize + Size[sent[r][i]] <= start[j]
      BY <1>3, <1>11
    <2>2. s[i] = start[i] - k /\ s[j] = start[j] - k
      OBVIOUS
    <2>3. i \in f .. last - 1
      BY <1>1, <1>11
    <2>4. start[i] \in Nat /\ start[j] \in Nat
      BY <1>2
    <2>5. Size[sent[r][i]] \in Nat /\ LenSize \in Nat
      BY <1>5, <2>3
    <2> HIDE DEF s
    <2>6. (start[i] - k) + LenSize + Size[sent[r][i]] <= start[j] - k
      BY <2>1, <2>4, <2>5, SumShifted
    <2> QED BY <2>2, <2>6
  <1>12. ASSUME NEW i \in f .. last - 1, NEW j \in s[i] + 1 .. s[i + 1]
         PROVE  Byte(r, j)' = sent[r][i]
    <2>1. s[i] = start[i] - k /\ s[i + 1] = start[i + 1] - k
      BY <1>4
    <2>2. s[i] \in Nat /\ s[i + 1] \in Nat
      BY <1>4, <1>8
    <2>3. start[i] \in Nat /\ start[i + 1] \in Nat /\ start[i + 1] <= InFlight(r)
      BY <1>2, <1>4
    <2> HIDE DEF s
    <2>6. j \in Int /\ s[i] + 1 <= j /\ j <= s[i + 1]
      BY <2>2
    <2>7. start[i] + 1 <= j + k /\ j + k <= start[i + 1] /\ 1 <= j /\ j <= InFlight(r) - k
      <3>1. start[i] - k + 1 <= j /\ j <= start[i + 1] - k /\ k <= start[i]
        BY <2>1, <2>2, <2>3, <2>6
      <3>2. PICK a \in Nat : a = start[i]
        BY <2>3
      <3>3. PICK b \in Nat : b = start[i + 1]
        BY <2>3
      <3>4. PICK d \in Nat : d = InFlight(r)
        BY <1>1
      <3>5. k <= a /\ b <= d /\ a - k + 1 <= j /\ j <= b - k
        BY <2>3, <3>1, <3>2, <3>3, <3>4
      <3>6. a + 1 <= j + k /\ j + k <= b /\ 1 <= j /\ j <= d - k
        BY <2>6, <3>5, RangeShifted
      <3> QED BY <3>2, <3>3, <3>4, <3>6
    <2>4. j + k \in start[i] + 1 .. start[i + 1] /\ j \in 1 .. InFlight(r) - k
      BY <1>1, <2>3, <2>6, <2>7
    <2>5. Byte(r, j + k) = sent[r][i]
      BY <1>0, <1>4, <2>4 DEF Cut
    <2> QED BY <2>4, <2>5 DEF Shifted
  <1>13. \A j \in 1 .. start[f] - k : Byte(r, j)' = reader'[r].msg
    <2> TAKE j \in 1 .. start[f] - k
    <2>1. j \in 1 .. InFlight(r) - k
      BY <1>1, <1>2, <1>7
    <2> QED BY <2>1 DEF Shifted, Ahead
  <1>14. Len(sent'[r]) + 1 = last
    BY <1>0
  <1> HIDE DEF s
  <1>15. Cut(r, s)'
    BY <1>8, <1>9, <1>10, <1>11, <1>12, <1>13, <1>14 DEF Cut
  <1> QED BY <1>15

(* m is the last message given to the connection of r, and its frame the last
   in flight. *)
Given(r, m) ==
    /\ Len(sent'[r]) = Len(sent[r]) + 1
    /\ sent'[r][Len(sent[r]) + 1] = m
    /\ \A k \in 1 .. Len(sent[r]) : sent'[r][k] = sent[r][k]

Arriving(r, m) ==
    LET total == InFlight(r)
        size == LenSize + Size[m]
    IN
    /\ InFlight(r)' = total + size
    /\ \A j \in 1 .. total : Byte(r, j)' = Byte(r, j)
    /\ \A j \in total + 1 .. total + size : Byte(r, j)' = m

LEMMA WriteGiven ==
    ASSUME TypeInv, NEW r \in Reader, NEW m \in Message,
           sent'[r] = Append(sent[r], m)
    PROVE  Given(r, m)
  BY StreamTypes, AppendProperties DEF Given

LEMMA WriteArriving ==
    ASSUME TypeInv, NEW r \in Reader, NEW m \in Message,
           wire'[r] = wire[r] \o Frame(m), buffered'[r] = buffered[r]
    PROVE  Arriving(r, m)
  <1>1. PICK frame \in Seq(Message) : frame = Frame(m)
    BY FrameType
  <1>2. PICK total \in Nat : total = InFlight(r)
    BY StreamTypes
  <1>3. PICK size \in Nat : size = LenSize + Size[m]
    BY SizeType
  <1>4. /\ InFlight(r)' = total + size
        /\ \A j \in 1 .. total : Byte(r, j)' = Byte(r, j)
        /\ \A j \in total + 1 .. total + size : Byte(r, j)' = m
    <2>1. /\ frame \in Seq(Message) /\ Len(frame) = size
          /\ \A i \in 1 .. size : frame[i] = m
      BY <1>1, <1>3, FrameType
    <2>2. wire[r] \in Seq(Message)
      BY StreamTypes
    <2>3. PICK w \in Nat : w = Len(wire[r])
      BY StreamTypes
    <2>4. PICK b \in Nat : b = Len(buffered[r])
      BY StreamTypes
    <2>5. total = b + w
      BY <1>2, <2>3, <2>4 DEF InFlight
    <2>6. /\ Len(wire'[r]) = w + size
          /\ \A i \in 1 .. w + size : wire'[r][i] =
                IF i <= w THEN wire[r][i] ELSE frame[i - w]
      <3>1. /\ Len(wire[r] \o frame) = Len(wire[r]) + Len(frame)
            /\ \A i \in 1 .. Len(wire[r]) + Len(frame) : (wire[r] \o frame)[i] =
                  IF i <= Len(wire[r]) THEN wire[r][i] ELSE frame[i - Len(wire[r])]
        BY <2>2, ConcatProperties
      <3>2. wire'[r] = wire[r] \o frame
        BY <1>1
      <3> QED BY <2>1, <2>3, <3>1, <3>2
    <2>7. InFlight(r)' = total + size
      <3>1. InFlight(r)' = b + (w + size)
        BY <2>4, <2>6 DEF InFlight
      <3> QED BY <2>5, <3>1
    <2>8. ASSUME NEW j \in 1 .. total
          PROVE  Byte(r, j)' = Byte(r, j)
      <3>1. CASE j <= b
        BY <2>4, <3>1 DEF Byte
      <3>2. CASE ~(j <= b)
        <4>1. j - b \in 1 .. w + size /\ j - b <= w
          BY <2>5, <3>2
        <4>2. wire'[r][j - b] = wire[r][j - b]
          BY <2>6, <4>1
        <4> QED BY <2>4, <3>2, <4>2 DEF Byte
      <3> QED BY <3>1, <3>2
    <2>9. ASSUME NEW j \in total + 1 .. total + size
          PROVE  Byte(r, j)' = m
      <3>1. ~(j <= b) /\ j - b \in 1 .. w + size /\ ~(j - b <= w) /\ (j - b) - w \in 1 .. size
        BY <2>5
      <3>2. wire'[r][j - b] = m
        BY <2>1, <2>6, <3>1
      <3> QED BY <2>4, <3>1, <3>2 DEF Byte
    <2> QED BY <2>7, <2>8, <2>9
  <1> QED BY <1>2, <1>3, <1>4 DEF Arriving

(* A frame more at the end of the stream. *)
LEMMA CutWrite ==
    ASSUME TypeInv, NEW r \in Reader, FramedAt(r), NEW start, Cut(r, start),
           NEW m \in Message, Given(r, m), Arriving(r, m), reader'[r] = reader[r]
    PROVE  \E s : Cut(r, s)'
  <1>0. PICK last : last = Len(sent[r]) + 1
    OBVIOUS
  <1>1. PICK n \in Nat : n = reader[r].n
    BY StreamTypes
  <1>2. PICK total \in Nat : total = InFlight(r)
    BY StreamTypes
  <1>3. PICK size \in Nat : size = LenSize + Size[m]
    BY SizeType
  <1>4. /\ last \in Nat /\ n + 1 <= last /\ Len(sent[r]) = last - 1
        /\ Remaining(r) \in Nat /\ Remaining(r)' = Remaining(r)
    BY <1>0, <1>1, StreamTypes, RemainingType DEF FramedAt, Remaining
  <1>5. \A k \in n + 1 .. last :
           start[k] \in Nat /\ Remaining(r) <= start[k] /\ start[k] <= total
    BY <1>0, <1>1, <1>2, CutBounds
  <1>6. /\ Len(sent'[r]) = last
        /\ sent'[r][last] = m /\ \A k \in 1 .. last - 1 : sent'[r][k] = sent[r][k]
    BY <1>0, <1>4 DEF Given
  <1>7. /\ InFlight(r)' = total + size
        /\ \A j \in 1 .. total : Byte(r, j)' = Byte(r, j)
        /\ \A j \in total + 1 .. total + size : Byte(r, j)' = m
    BY <1>2, <1>3 DEF Arriving
  <1> DEFINE s == [k \in n + 1 .. last + 1 |-> IF k = last + 1 THEN total + size ELSE start[k]]
  <1>8. \A k \in n + 1 .. last : k \in n + 1 .. last + 1 /\ k # last + 1 /\ s[k] = start[k]
    BY <1>4
  <1>9. s[last + 1] = total + size /\ last + 1 \in n + 1 .. last + 1
        /\ last \in n + 1 .. last /\ n + 1 \in n + 1 .. last
    BY <1>4
  <1>10. s \in [n + 1 .. last + 1 -> Nat]
    <2> SUFFICES ASSUME NEW k \in n + 1 .. last + 1, k # last + 1
                 PROVE  start[k] \in Nat
      BY <1>2, <1>3
    <2>1. k \in n + 1 .. last
      BY <1>4
    <2> QED BY <1>5, <2>1
  <1> HIDE DEF s
  <1>11. start[n + 1] = Remaining(r) /\ start[last] = total
    BY <1>0, <1>1, <1>2 DEF Cut
  <1>12. ASSUME NEW k \in n + 1 .. last
         PROVE  s[k + 1] = s[k] + LenSize + Size[sent'[r][k]]
    <2>1. CASE k = last
      <3>1. s[k] = total /\ s[k + 1] = total + size /\ Size[sent'[r][k]] = Size[m]
        BY <1>6, <1>8, <1>9, <1>11, <2>1
      <3> QED BY <1>3, <3>1, SizeType
    <2>2. CASE k # last
      <3>1. k \in n + 1 .. last - 1 /\ k + 1 \in n + 1 .. last /\ k \in 1 .. last - 1
        BY <1>4, <2>2
      <3>2. start[k + 1] = start[k] + LenSize + Size[sent[r][k]]
        BY <1>0, <1>1, <3>1 DEF Cut
      <3> QED BY <1>6, <1>8, <3>1, <3>2
    <2> QED BY <2>1, <2>2
  <1>13. ASSUME NEW i \in n + 1 .. last + 1, NEW k \in n + 1 .. last + 1, i < k
         PROVE  s[i] + LenSize + Size[sent'[r][i]] <= s[k]
    <2>1. i \in n + 1 .. last /\ (k = last + 1 \/ k \in n + 1 .. last)
      BY <1>4, <1>13
    <2>2. CASE k # last + 1
      <3>1. i \in 1 .. last - 1 /\ k \in n + 1 .. last
        BY <1>4, <1>13, <2>1, <2>2
      <3>2. start[i] + LenSize + Size[sent[r][i]] <= start[k]
        BY <1>0, <1>1, <1>13, <2>1, <3>1 DEF Cut
      <3> QED BY <1>6, <1>8, <2>1, <3>1, <3>2
    <2>3. CASE k = last + 1 /\ i = last
      <3>1. s[last] = total /\ s[k] = total + size /\ Size[sent'[r][i]] = Size[m]
        BY <1>6, <1>8, <1>9, <1>11, <2>3
      <3> QED BY <1>3, <2>3, <3>1, SizeType
    <2>4. CASE k = last + 1 /\ i # last
      <3>1. i < last /\ i \in 1 .. last - 1
        BY <1>4, <2>1, <2>4
      <3>2. start[i] + LenSize + Size[sent[r][i]] <= total
        BY <1>0, <1>1, <1>9, <1>11, <2>1, <3>1 DEF Cut
      <3>3. start[i] \in Nat /\ Size[sent[r][i]] \in Nat /\ LenSize \in Nat
        BY <1>4, <1>5, <2>1, <3>1, SentSizes
      <3>4. s[i] = start[i] /\ s[k] = total + size /\ sent'[r][i] = sent[r][i]
        BY <1>6, <1>8, <1>9, <2>1, <2>4, <3>1
      <3>5. start[i] + LenSize + Size[sent[r][i]] <= total + size
        BY <3>2, <3>3
      <3> QED BY <3>4, <3>5
    <2> QED BY <2>1, <2>2, <2>3, <2>4
  <1>14. ASSUME NEW k \in n + 1 .. last, NEW j \in s[k] + 1 .. s[k + 1]
         PROVE  Byte(r, j)' = sent'[r][k]
    <2>1. CASE k = last
      <3>1. s[k] = total /\ s[k + 1] = total + size /\ sent'[r][k] = m
        BY <1>6, <1>8, <1>9, <1>11, <2>1
      <3> QED BY <1>7, <3>1
    <2>2. CASE k # last
      <3>1. k \in n + 1 .. last - 1 /\ k + 1 \in n + 1 .. last /\ k \in 1 .. last - 1
        BY <1>4, <2>2
      <3>2. s[k] = start[k] /\ s[k + 1] = start[k + 1] /\ sent'[r][k] = sent[r][k]
        BY <1>6, <1>8, <3>1
      <3>3. start[k] \in Nat /\ start[k + 1] \in Nat /\ start[k + 1] <= total
        BY <1>5, <3>1
      <3>4. j \in 1 .. total
        BY <3>2, <3>3
      <3>5. Byte(r, j) = sent[r][k]
        BY <1>0, <1>1, <3>1, <3>2 DEF Cut
      <3> QED BY <1>7, <3>2, <3>4, <3>5
    <2> QED BY <2>1, <2>2
  <1>15. \A j \in 1 .. Remaining(r) : Byte(r, j)' = reader[r].msg
    <2> TAKE j \in 1 .. Remaining(r)
    <2>1. Remaining(r) <= total
      BY <1>5, <1>9, <1>11
    <2>2. j \in 1 .. total
      BY <1>4, <2>1
    <2> QED BY <1>7, <2>2 DEF Cut
  <1>16. (last + 1) - 1 = last
    BY <1>4
  <1>17. s[n + 1] = Remaining(r)
    BY <1>8, <1>9, <1>11
  <1>18. Cut(r, s)'
    BY <1>1, <1>4, <1>6, <1>7, <1>9, <1>10, <1>12, <1>13, <1>14, <1>15, <1>16, <1>17 DEF Cut
  <1> QED BY <1>18

(* Where the first frame that is not read begins. *)
LEMMA AtBoundary ==
    ASSUME TypeInv, NEW r \in Reader, FramedAt(r), NEW start, Cut(r, start),
           Remaining(r) = 0, InFlight(r) > 0
    PROVE  /\ reader[r].n + 1 \in 1 .. Len(sent[r])
           /\ Byte(r, 1) = sent[r][reader[r].n + 1]
           /\ start[reader[r].n + 2] = LenSize + Size[sent[r][reader[r].n + 1]]
           /\ \A j \in 1 .. LenSize + Size[sent[r][reader[r].n + 1]] :
                 Byte(r, j) = sent[r][reader[r].n + 1]
  <1>1. PICK n \in Nat : n = reader[r].n
    BY StreamTypes
  <1>2. PICK last : last = Len(sent[r]) + 1
    OBVIOUS
  <1>3. /\ last \in Nat /\ n + 1 <= last /\ InFlight(r) \in Nat
        /\ start[n + 1] = 0 /\ start[last] = InFlight(r)
    BY <1>1, <1>2, StreamTypes DEF FramedAt, Cut
  <1>4. n + 1 # last
    BY <1>3
  <1>5. n + 1 \in n + 1 .. last - 1 /\ n + 1 \in 1 .. Len(sent[r]) /\ (n + 1) + 1 = n + 2
    BY <1>2, <1>3, <1>4, StreamTypes
  <1>6. Size[sent[r][n + 1]] \in Nat /\ LenSize \in Nat /\ LenSize > 0
    BY <1>5, SentSizes
  <1>7. start[n + 2] = 0 + LenSize + Size[sent[r][n + 1]]
    BY <1>1, <1>2, <1>3, <1>5 DEF Cut
  <1>8. start[n + 2] = LenSize + Size[sent[r][n + 1]]
    BY <1>6, <1>7
  <1>9. \A j \in 0 + 1 .. start[n + 2] : Byte(r, j) = sent[r][n + 1]
    BY <1>1, <1>2, <1>3, <1>5 DEF Cut
  <1>10. 1 \in 1 .. LenSize + Size[sent[r][n + 1]]
    BY <1>6
  <1> QED BY <1>1, <1>5, <1>8, <1>9, <1>10

LEMMA FramedKept ==
    ASSUME NEW r \in Reader, FramedAt(r), sent'[r] = sent[r], wire'[r] = wire[r],
           buffered'[r] = buffered[r], reader'[r] = reader[r]
    PROVE  FramedAt(r)'
  <1>1. /\ InFlight(r)' = InFlight(r) /\ Remaining(r)' = Remaining(r)
        /\ \A j : Byte(r, j)' = Byte(r, j)
        /\ Lost_(r)' <=> Lost_(r)
    BY DEF InFlight, Remaining, Byte, Lost_
  <1>2. ASSUME NEW start, Cut(r, start)
        PROVE  Cut(r, start)'
    BY <1>1, <1>2 DEF Cut
  <1> QED BY <1>1, <1>2 DEF FramedAt

(* A step within a frame boundary: the reader starts, has put its message, or
   gives up. *)
LEMMA FramedStep ==
    ASSUME TypeInv, NEW r \in Reader, FramedAt(r), sent'[r] = sent[r], wire'[r] = wire[r],
           buffered'[r] = buffered[r],
           reader'[r].n = reader[r].n, reader'[r].msg = reader[r].msg,
           reader[r].step # "body", reader'[r].step \in {"length", "stuck"},
           reader'[r].step = "length" => ~Lost_(r)
    PROVE  FramedAt(r)'
  <1>1. /\ InFlight(r)' = InFlight(r) /\ Remaining(r) = 0 /\ Remaining(r)' = 0
        /\ \A j : Byte(r, j)' = Byte(r, j)
    BY DEF InFlight, Remaining, Byte
  <1>2. ASSUME NEW start, Cut(r, start)
        PROVE  Cut(r, start)'
    BY <1>1, <1>2, CutSame
  <1> QED BY <1>1, <1>2 DEF FramedAt, Lost_

LEMMA FramedWrite ==
    ASSUME TypeInv, Framing, NEW c \in Conn, NEW n \in Node, NEW m \in Message,
           Write(c, n, m) \/ WriteError(c, n), UNCHANGED <<buffered, reader>>
    PROVE  Framing'
  <1> SUFFICES ASSUME NEW q \in Reader
               PROVE  FramedAt(q)'
    BY DEF Framing
  <1> DEFINE r == <<c, Peer(c, n)>>
  <1>1. FramedAt(q)
    BY DEF Framing
  <1>2. CASE q # r \/ WriteError(c, n)
    <2>1. sent'[q] = sent[q] /\ wire'[q] = wire[q]
      BY <1>2, StreamTypes DEF Write, WriteError, streams
    <2> QED BY <1>1, <2>1, FramedKept
  <1>3. CASE q = r /\ Write(c, n, m)
    <2>1. sent'[q] = Append(sent[q], m) /\ wire'[q] = wire[q] \o Frame(m)
      BY <1>3, StreamTypes DEF Write
    <2>2. ASSUME NEW start, Cut(q, start)
          PROVE  \E s : Cut(q, s)'
      BY <1>1, <2>1, <2>2, WriteGiven, WriteArriving, CutWrite
    <2>3. /\ Len(sent'[q]) = Len(sent[q]) + 1
          /\ \A i \in 1 .. Len(sent[q]) : sent'[q][i] = sent[q][i]
      BY <2>1, StreamTypes, AppendProperties
    <2>4. reader[q].n \in Nat /\ Len(sent[q]) \in Nat /\ reader[q].n <= Len(sent[q])
      BY <1>1, StreamTypes DEF FramedAt
    <2>5. reader[q].n <= Len(sent'[q])
      BY <2>3, <2>4
    <2>6. reader[q].n > 0 => sent'[q][reader[q].n] = sent[q][reader[q].n]
      BY <2>3, <2>4
    <2>7. Lost_(q)' <=> Lost_(q)
      BY DEF Lost_
    <2> QED BY <1>1, <2>2, <2>5, <2>6, <2>7 DEF FramedAt
  <1> QED BY <1>2, <1>3

(* The first k bytes of the bufio.Reader are taken. *)
LEMMA DropShifts ==
    ASSUME TypeInv, NEW r \in Reader, NEW k \in 0 .. Len(buffered[r]), wire'[r] = wire[r],
           Drop(r, k)
    PROVE  /\ InFlight(r)' = InFlight(r) - k
           /\ Shifted(r, k)
           /\ \A q \in Reader : q # r => buffered'[q] = buffered[q]
  <1>1. PICK b \in Nat : b = Len(buffered[r])
    BY StreamTypes
  <1>2. PICK w \in Nat : w = Len(wire[r])
    BY StreamTypes
  <1>3. k \in 0 .. b /\ k \in Nat
    BY <1>1
  <1>4. buffered'[r] = SubSeq(buffered[r], k + 1, Len(buffered[r]))
        /\ \A q \in Reader : q # r => buffered'[q] = buffered[q]
    BY StreamTypes DEF Drop
  <1>5. /\ Len(buffered'[r]) = b - k
        /\ \A i \in 1 .. b - k : buffered'[r][i] = buffered[r][k + i]
    BY <1>1, <1>4, StreamTypes, DropFirst
  <1>6. InFlight(r) = b + w /\ InFlight(r)' = (b - k) + w
    BY <1>1, <1>2, <1>5 DEF InFlight
  <1>7. InFlight(r)' = InFlight(r) - k
    BY <1>3, <1>6
  <1>8. ASSUME NEW j \in 1 .. InFlight(r) - k
        PROVE  Byte(r, j)' = Byte(r, j + k)
    <2>1. j \in Int /\ 1 <= j /\ j <= (b + w) - k
      BY <1>3, <1>6
    <2>2. CASE j <= b - k
      <3>1. j \in 1 .. b - k /\ j + k <= b /\ k + j = j + k
        BY <1>3, <2>1, <2>2
      <3> QED BY <1>1, <1>5, <2>2, <3>1 DEF Byte
    <2>3. CASE ~(j <= b - k)
      <3>1. ~(j + k <= b) /\ (j + k) - b = j - (b - k)
        BY <1>3, <2>1, <2>3
      <3> QED BY <1>1, <1>5, <2>3, <3>1 DEF Byte
    <2> QED BY <2>2, <2>3
  <1> QED BY <1>4, <1>7, <1>8 DEF Shifted

LEMMA FramedFetch ==
    ASSUME TypeInv, Framing, NEW r \in Reader, Fetch(r)
    PROVE  Framing'
  <1>1. PICK k \in 1 .. Min2(Chunk, Len(wire[r])) :
           /\ buffered' = [buffered EXCEPT ![r] = SubSeq(wire[r], 1, k)]
           /\ wire' = [wire EXCEPT ![r] = SubSeq(@, k + 1, Len(@))]
    BY DEF Fetch
  <1>2. UNCHANGED <<sent, reader>> /\ buffered[r] = <<>>
    BY DEF Fetch
  <1>3. PICK w \in Nat : w = Len(wire[r])
    BY StreamTypes
  <1>4. k \in 1 .. w /\ k \in 0 .. w
    BY <1>3, SizeAssumption DEF Min2
  <1>5. /\ Len(buffered'[r]) = k /\ \A i \in 1 .. k : buffered'[r][i] = wire[r][i]
        /\ Len(wire'[r]) = w - k /\ \A i \in 1 .. w - k : wire'[r][i] = wire[r][k + i]
    BY <1>1, <1>3, <1>4, StreamTypes, TakeFirst, DropFirst
  <1>6. Len(buffered[r]) = 0 /\ InFlight(r) = 0 + w /\ InFlight(r)' = k + (w - k)
    BY <1>2, <1>3, <1>5, EmptySeq DEF InFlight
  <1>7. InFlight(r)' = InFlight(r) /\ InFlight(r) = w
    BY <1>4, <1>6
  <1>8. ASSUME NEW j \in 1 .. InFlight(r)
        PROVE  Byte(r, j)' = Byte(r, j)
    <2>1. ~(j <= 0) /\ j - 0 = j /\ j \in 1 .. w
      BY <1>7
    <2>2. Byte(r, j) = wire[r][j]
      BY <1>6, <2>1 DEF Byte
    <2>3. CASE j <= k
      <3>1. j \in 1 .. k
        BY <1>4, <2>1, <2>3
      <3> QED BY <1>5, <2>2, <2>3, <3>1 DEF Byte
    <2>4. CASE ~(j <= k)
      <3>1. j - k \in 1 .. w - k /\ k + (j - k) = j
        BY <1>4, <2>1, <2>4
      <3> QED BY <1>5, <2>2, <2>4, <3>1 DEF Byte
    <2> QED BY <2>3, <2>4
  <1>9. Remaining(r)' = Remaining(r) /\ (Lost_(r)' <=> Lost_(r))
    BY <1>2 DEF Remaining, Lost_
  <1>10. FramedAt(r)
    BY DEF Framing
  <1>11. ASSUME NEW start, Cut(r, start)
         PROVE  Cut(r, start)'
    BY <1>2, <1>7, <1>8, <1>9, <1>10, <1>11, CutSame
  <1>12. FramedAt(r)'
    BY <1>2, <1>9, <1>10, <1>11 DEF FramedAt
  <1>13. ASSUME NEW q \in Reader, q # r
         PROVE  FramedAt(q)'
    <2>1. buffered'[q] = buffered[q] /\ wire'[q] = wire[q]
      BY <1>1, <1>13, StreamTypes
    <2> QED BY <1>2, <2>1, FramedKept DEF Framing
  <1> QED BY <1>12, <1>13 DEF Framing

LEMMA FirstByte ==
    ASSUME TypeInv, NEW r \in Reader, buffered[r] # <<>>
    PROVE  InFlight(r) > 0 /\ Byte(r, 1) = Head(buffered[r])
  <1>1. PICK b \in Nat : b = Len(buffered[r])
    BY StreamTypes
  <1>2. b > 0
    BY <1>1, StreamTypes, EmptySeq
  <1>3. InFlight(r) = b + Len(wire[r]) /\ Len(wire[r]) \in Nat
    BY <1>1, StreamTypes DEF InFlight
  <1>4. InFlight(r) > 0
    BY <1>2, <1>3
  <1>5. 1 <= Len(buffered[r])
    BY <1>1, <1>2
  <1> QED BY <1>4, <1>5, StreamTypes DEF Byte

LEMMA FramedLength ==
    ASSUME TypeInv, Framing, NEW r \in Reader, ReadLength(r)
    PROVE  Framing'
  <1>1. /\ reader[r].step = "length" /\ buffered[r] # <<>> /\ FramedAt(r)
        /\ sent' = sent /\ wire' = wire
    BY DEF ReadLength, Framing, Panic, streams
  <1>2. Remaining(r) = 0 /\ ~Lost_(r)
    BY <1>1 DEF Remaining, Lost_
  <1>3. PICK b \in Nat : b = Len(buffered[r])
    BY StreamTypes
  <1>4. InFlight(r) > 0 /\ Byte(r, 1) = Head(buffered[r])
    BY <1>1, FirstByte
  <1>7. PICK start : Cut(r, start)
    BY <1>1, <1>2 DEF FramedAt
  <1>8. PICK n \in Nat : n = reader[r].n
    BY StreamTypes
  <1>9. PICK m : m = Head(buffered[r])
    OBVIOUS
  <1>10. /\ n + 1 \in 1 .. Len(sent[r])
         /\ m = sent[r][n + 1]
         /\ start[n + 2] = LenSize + Size[m]
         /\ \A j \in 1 .. LenSize + Size[m] : Byte(r, j) = m
    BY <1>1, <1>2, <1>4, <1>7, <1>8, <1>9, AtBoundary
  <1>11. Size[m] \in Nat /\ Size[m] > 0 /\ LenSize \in Nat /\ LenSize > 0
    BY <1>10, SentSizes
  <1>12. ASSUME NEW q \in Reader, q # r, buffered'[q] = buffered[q], reader'[q] = reader[q]
         PROVE  FramedAt(q)'
    BY <1>1, <1>12, FramedKept DEF Framing
  <1>13. CASE Panic(r[2])
    <2>1. UNCHANGED <<buffered, reader>>
      BY <1>13 DEF Panic, readers
    <2> QED BY <1>1, <1>12, <2>1, FramedKept DEF Framing
  <1>14. CASE /\ b >= LenSize
              /\ FrameFits(m)
              /\ Drop(r, LenSize)
              /\ reader' = [reader EXCEPT ![r] = [step |-> "body", msg |-> m, pos |-> 0,
                                                  n |-> @.n + 1]]
    <2>1. /\ reader'[r].step = "body" /\ reader'[r].msg = m /\ reader'[r].pos = 0
          /\ reader'[r].n = n + 1
          /\ \A q \in Reader : q # r => reader'[q] = reader[q]
      BY <1>8, <1>14, Types
    <2>2. LenSize \in 0 .. Len(buffered[r])
      BY <1>3, <1>11, <1>14
    <2>3. /\ InFlight(r)' = InFlight(r) - LenSize
          /\ Shifted(r, LenSize)
          /\ \A q \in Reader : q # r => buffered'[q] = buffered[q]
      BY <1>1, <1>14, <2>2, DropShifts
    <2>4. n + 2 \in n + 1 .. Len(sent[r]) + 1 /\ (n + 1) + 1 = n + 2
      BY <1>10, StreamTypes
    <2>5. Remaining(r)' = Size[m] - 0
      BY <2>1 DEF Remaining
    <2>6. /\ start[n + 2] - LenSize = Size[m] /\ LenSize <= start[n + 2]
          /\ Remaining(r)' = Size[m]
      BY <1>10, <1>11, <2>5
    <2>7. Ahead(r, LenSize, Size[m])
      <3> SUFFICES ASSUME NEW j \in 1 .. Size[m]
                   PROVE  Byte(r, j + LenSize) = m
        BY <2>1 DEF Ahead
      <3>1. j + LenSize \in 1 .. LenSize + Size[m]
        BY <1>11
      <3> QED BY <1>10, <3>1
    <2>8. \E s : Cut(r, s)'
      BY <1>1, <1>7, <1>8, <1>11, <2>1, <2>3, <2>4, <2>6, <2>7, CutDrop
    <2>9. FramedAt(r)'
      <3>1. n + 1 <= Len(sent'[r]) /\ sent'[r][n + 1] = m /\ n + 1 > 0
        BY <1>1, <1>10
      <3>2. Size[m] <= BufSize
        BY <1>14 DEF FrameFits
      <3>3. 0 < Size[m]
        BY <1>11
      <3> QED BY <2>1, <2>8, <3>1, <3>2, <3>3 DEF FramedAt
    <2> QED BY <1>12, <2>1, <2>3, <2>9 DEF Framing
  <1>15. CASE /\ b < LenSize
              /\ Drop(r, Len(buffered[r]))
              /\ reader' = [reader EXCEPT ![r].step = "lost"]
    <2>1. /\ reader'[r].step = "lost" /\ reader'[r].msg = reader[r].msg
          /\ reader'[r].n = reader[r].n
          /\ \A q \in Reader : q # r => reader'[q] = reader[q]
      BY <1>15, Types DEF ReaderState
    <2>2. \A q \in Reader : q # r => buffered'[q] = buffered[q]
      BY <1>15, StreamTypes DEF Drop
    <2>3. FramedAt(r)'
      BY <1>1, <2>1 DEF FramedAt, Lost_
    <2> QED BY <1>12, <2>1, <2>2, <2>3 DEF Framing
  <1> QED BY <1>3, <1>9, <1>13, <1>14, <1>15 DEF ReadLength

LEMMA FramedBody ==
    ASSUME TypeInv, Framing, NEW r \in Reader, ReadBody(r)
    PROVE  Framing'
  <1>1. FramedAt(r)
    BY DEF Framing
  <1>2. PICK m : m = reader[r].msg
    OBVIOUS
  <1>3. PICK pos : pos = reader[r].pos
    OBVIOUS
  <1>4. PICK k : k = Part(r)
    OBVIOUS
  <1>5. /\ Size[m] \in Nat /\ pos \in Nat /\ pos < Size[m]
        /\ k \in 1 .. Len(buffered[r]) /\ k <= Size[m] - pos
        /\ reader[r].step = "body"
        /\ reader'[r].step = IF pos + k = Size[m] THEN "put" ELSE "body"
        /\ reader'[r].pos = pos + k /\ reader'[r].msg = m /\ reader'[r].n = reader[r].n
        /\ \A q \in Reader : q # r => reader'[q] = reader[q]
        /\ Drop(r, k)
    BY <1>1, <1>2, <1>3, <1>4, BodyFacts DEF Drop
  <1>6. sent' = sent /\ wire' = wire
    BY DEF ReadBody, streams
  <1>7. k \in 0 .. Len(buffered[r]) /\ k \in Nat
    BY <1>5, StreamTypes
  <1>8. /\ InFlight(r)' = InFlight(r) - k /\ Shifted(r, k)
        /\ \A q \in Reader : q # r => buffered'[q] = buffered[q]
    BY <1>5, <1>6, <1>7, DropShifts
  <1>9. Remaining(r) = Size[m] - pos
    BY <1>2, <1>3, <1>5 DEF Remaining
  <1>10. Remaining(r)' = Remaining(r) - k
    <2>1. CASE pos + k = Size[m]
      <3>1. Remaining(r)' = 0
        BY <1>5, <2>1 DEF Remaining
      <3> QED BY <1>5, <1>7, <1>9, <2>1, <3>1
    <2>2. CASE pos + k # Size[m]
      <3>1. Remaining(r)' = Size[m] - (pos + k)
        BY <1>5, <2>2 DEF Remaining
      <3> QED BY <1>5, <1>7, <1>9, <3>1
    <2> QED BY <2>1, <2>2
  <1>11. PICK start : Cut(r, start)
    BY <1>1, <1>5 DEF FramedAt, Lost_
  <1>12. PICK f : f = reader[r].n + 1
    OBVIOUS
  <1>13. /\ f \in reader[r].n + 1 .. Len(sent[r]) + 1 /\ start[f] = Remaining(r)
         /\ k <= start[f] /\ Remaining(r)' = start[f] - k /\ start[f] \in Nat
    <2>1. f \in reader[r].n + 1 .. Len(sent[r]) + 1
      BY <1>1, <1>12, StreamTypes DEF FramedAt
    <2>2. start[f] = Remaining(r)
      BY <1>11, <1>12 DEF Cut
    <2>3. Remaining(r) \in Nat /\ k <= Remaining(r)
      BY <1>5, <1>7, <1>9
    <2> QED BY <1>10, <2>1, <2>2, <2>3
  <1>14. Ahead(r, k, start[f] - k)
    <2> SUFFICES ASSUME NEW j \in 1 .. start[f] - k
                 PROVE  Byte(r, j + k) = m
      BY <1>5 DEF Ahead
    <2>1. j + k \in 1 .. start[f]
      BY <1>7, <1>13
    <2> QED BY <1>2, <1>11, <1>13, <2>1 DEF Cut
  <1>15. \E s : Cut(r, s)'
    BY <1>1, <1>5, <1>6, <1>7, <1>8, <1>11, <1>12, <1>13, <1>14, CutDrop
  <1>16. FramedAt(r)'
    <2>1. reader'[r].step = "body" => pos + k < Size[m]
      BY <1>5, <1>7
    <2>2. reader[r].n > 0
      BY <1>1, <1>5 DEF FramedAt
    <2>3. reader'[r].step \in {"body", "put"}
      BY <1>5
    <2> QED BY <1>1, <1>2, <1>5, <1>6, <1>15, <2>1, <2>2, <2>3 DEF FramedAt
  <1>17. ASSUME NEW q \in Reader, q # r
         PROVE  FramedAt(q)'
    BY <1>5, <1>6, <1>8, <1>17, FramedKept DEF Framing
  <1> QED BY <1>16, <1>17 DEF Framing

LEMMA FramingInit == Init => Framing
  <1> SUFFICES ASSUME Init, NEW r \in Reader
               PROVE  FramedAt(r)
    BY DEF Framing
  <1>1. /\ sent[r] = <<>> /\ wire[r] = <<>> /\ buffered[r] = <<>>
        /\ reader[r].step = "none" /\ reader[r].n = 0
    BY DEF Init, Idle
  <1>2. Len(sent[r]) = 0 /\ InFlight(r) = 0 /\ Remaining(r) = 0
    BY <1>1 DEF InFlight, Remaining
  <1> DEFINE s == [k \in 1 .. 1 |-> 0]
  <1>3. Cut(r, s)
    BY <1>1, <1>2 DEF Cut
  <1> QED BY <1>1, <1>2, <1>3 DEF FramedAt

LEMMA FramedStart ==
    ASSUME TypeInv, Framing, NEW c \in Conn, NEW n \in Node, StartReader(c, n),
           reader[<<c, n>>].step = "none", UNCHANGED <<streams, buffered>>
    PROVE  Framing'
  <1>1. <<c, n>> \in Reader /\ sent' = sent /\ wire' = wire
    BY DEF Reader, streams
  <1>2. FramedAt(<<c, n>>)'
    BY <1>1, FramedStep, StartReaderType DEF Framing, Lost_
  <1>3. ASSUME NEW q \in Reader, q # <<c, n>>
        PROVE  FramedAt(q)'
    BY <1>1, <1>3, FramedKept, StartReaderType DEF Framing
  <1> QED BY <1>2, <1>3 DEF Framing

LEMMA FramingNext ==
    ASSUME TypeInv, SetUp, Framing, Next
    PROVE  Framing'
  <1>1. ASSUME UNCHANGED <<sent, wire, buffered, reader>>
        PROVE  Framing'
    BY <1>1, FramedKept DEF Framing
  <1>2. ASSUME NEW g \in Caller, Dial(g) \/ \E m \in Node : Connect(g, m)
        PROVE  Framing'
    BY <1>1, <1>2 DEF Dial, Connect, streams, readers
  <1>3. ASSUME NEW g \in Caller, Register(g)
        PROVE  Framing'
    <2>1. /\ connect[g].conn \in Conn /\ Dialer[g] \in Node
          /\ reader[<<connect[g].conn, Dialer[g]>>].step = "none"
      BY <1>3, DialedFacts DEF Register
    <2> QED BY <1>3, <2>1, FramedStart DEF Register
  <1>4. ASSUME NEW n \in Node, Accept(n)
        PROVE  Framing'
    <2>1. backlog[n] # <<>> /\ backlog[n] \in Seq(Conn)
      BY <1>4, Types DEF Accept
    <2>2. 1 \in DOMAIN backlog[n] /\ Head(backlog[n]) = backlog[n][1]
      BY <2>1, EmptySeq, LenProperties
    <2>3. Head(backlog[n]) \in Conn /\ reader[<<Head(backlog[n]), n>>].step = "none"
      BY <2>2, WaitingFacts
    <2> QED BY <1>4, <2>3, FramedStart DEF Accept
  <1>5. ASSUME NEW n \in Node, BroadcastSend(n)
        PROVE  Framing'
    <2>1. PICK w \in writes[n] : Write(w[1], n, w[2]) \/ WriteError(w[1], n)
      BY <1>5 DEF BroadcastSend
    <2>2. w[1] \in Conn /\ w[2] \in Message
      BY <2>1 DEF TypeInv, TypeOK
    <2> QED BY <1>5, <2>1, <2>2, FramedWrite DEF BroadcastSend, readers
  <1>6. ASSUME NEW n \in Node, NEW m \in Message, NEW addr \in Node \union Conn,
               Send(n, addr, m)
        PROVE  Framing'
    BY <1>6, FramedWrite DEF Send, readers
  <1>7. ASSUME NEW n \in Node, Consume(n) \/ \E m \in Message : Broadcast(n, m)
        PROVE  Framing'
    BY <1>1, <1>7 DEF Consume, Take, ReadByte, Decoded, Broadcast, streams, readers
  <1>8. ASSUME NEW r \in Reader, Read(r)
        PROVE  Framing'
    <2>1. CASE Panic(r[2])
      BY <1>1, <2>1 DEF Panic, streams, readers
    <2>2. CASE Put(r)
      <3>1. /\ reader[r].step = "put" /\ reader'[r].step = "length"
            /\ reader'[r].n = reader[r].n /\ reader'[r].msg = reader[r].msg
            /\ \A q \in Reader : q # r => reader'[q] = reader[q]
            /\ UNCHANGED <<sent, wire, buffered>>
        BY <2>2, Types DEF Put, ReaderState, streams
      <3>2. FramedAt(r)'
        BY <3>1, FramedStep DEF Framing, Lost_
      <3>3. ASSUME NEW q \in Reader, q # r
            PROVE  FramedAt(q)'
        BY <3>1, <3>3, FramedKept DEF Framing
      <3> QED BY <3>2, <3>3 DEF Framing
    <2>3. CASE Lost(r) /\ ~Panic(r[2])
      <3>1. /\ reader[r].step = "lost" /\ reader'[r].step = "stuck"
            /\ reader'[r].n = reader[r].n /\ reader'[r].msg = reader[r].msg
            /\ \A q \in Reader : q # r => reader'[q] = reader[q]
            /\ UNCHANGED <<sent, wire, buffered>>
        BY <2>3, Types DEF Lost, ReaderState, streams
      <3>2. FramedAt(r)'
        BY <3>1, FramedStep DEF Framing, Lost_
      <3>3. ASSUME NEW q \in Reader, q # r
            PROVE  FramedAt(q)'
        BY <3>1, <3>3, FramedKept DEF Framing
      <3> QED BY <3>2, <3>3 DEF Framing
    <2> QED BY <1>8, <2>1, <2>2, <2>3, FramedLength, FramedBody DEF Read, ReadError
  <1>9. ASSUME Strikes
        PROVE  Framing'
    BY <1>1, <1>9, StrikesLeave
  <1> QED BY <1>2, <1>3, <1>4, <1>5, <1>6, <1>7, <1>8, <1>9, FramedFetch DEF Next, Strikes

-----------------------------------------------------------------------------
(***************************************************************************)
(* What never goes back: streams, tables and connections only grow, and a  *)
(* reader goes on to later frames or is lost for good.                     *)
(***************************************************************************)
Grows ==
    /\ \A r \in Reader : /\ Len(sent'[r]) >= Len(sent[r])
                         /\ \A i \in 1 .. Len(sent[r]) : sent'[r][i] = sent[r][i]
    /\ \A r \in Reader : /\ reader'[r].n >= reader[r].n
                         /\ reader[r].step = "stuck" => reader'[r].step = "stuck"
                         /\ Lost_(r) => reader'[r].step \in {"lost", "stuck"}
                         /\ reader'[r].step \in {"body", "put"} =>
                               \/ reader[r].step \in {"body", "put"}
                               \/ reader'[r].n > reader[r].n
    /\ \A c \in Conn : Used(c) => ends'[c] = ends[c]
    /\ \A n \in Node : connections[n] \subseteq connections'[n]

LEMMA WriteGrows ==
    ASSUME TypeInv, NEW c \in Conn, NEW n \in Node, NEW m \in Message,
           Write(c, n, m) \/ WriteError(c, n), NEW r \in Reader
    PROVE  /\ Len(sent'[r]) >= Len(sent[r])
           /\ \A i \in 1 .. Len(sent[r]) : sent'[r][i] = sent[r][i]
  <1>1. CASE r # <<c, Peer(c, n)>> \/ WriteError(c, n)
    <2>1. sent'[r] = sent[r]
      BY <1>1, StreamTypes DEF Write, WriteError, streams
    <2> QED BY <2>1, StreamTypes
  <1>2. CASE r = <<c, Peer(c, n)>> /\ Write(c, n, m)
    <2>1. sent'[r] = Append(sent[r], m)
      BY <1>2, StreamTypes DEF Write
    <2> QED BY <2>1, StreamTypes, AppendProperties
  <1> QED BY <1>1, <1>2

LEMMA NextGrows ==
    ASSUME TypeInv, SetUp, Framing, Next
    PROVE  Grows
  <1>1. ASSUME sent' = sent
        PROVE  \A r \in Reader : /\ Len(sent'[r]) >= Len(sent[r])
                                 /\ \A i \in 1 .. Len(sent[r]) : sent'[r][i] = sent[r][i]
    BY <1>1, StreamTypes
  <1>2. ASSUME reader' = reader
        PROVE  \A r \in Reader : /\ reader'[r].n >= reader[r].n
                                 /\ reader[r].step = "stuck" => reader'[r].step = "stuck"
                                 /\ Lost_(r) => reader'[r].step \in {"lost", "stuck"}
                                 /\ reader'[r].step \in {"body", "put"} =>
                                       \/ reader[r].step \in {"body", "put"}
                                       \/ reader'[r].n > reader[r].n
    BY <1>2, StreamTypes DEF Lost_
  <1>3. ASSUME NEW c \in Conn, NEW n \in Node, StartReader(c, n),
               reader[<<c, n>>].step = "none"
        PROVE  \A r \in Reader : /\ reader'[r].n >= reader[r].n
                                 /\ reader[r].step = "stuck" => reader'[r].step = "stuck"
                                 /\ Lost_(r) => reader'[r].step \in {"lost", "stuck"}
                                 /\ reader'[r].step \in {"body", "put"} =>
                                       \/ reader[r].step \in {"body", "put"}
                                       \/ reader'[r].n > reader[r].n
    <2> TAKE r \in Reader
    <2>1. <<c, n>> \in Reader
      BY DEF Reader
    <2>2. CASE r = <<c, n>>
      <3>1. reader'[r].step = "length" /\ reader'[r].n = reader[r].n /\ reader[r].step = "none"
        BY <1>3, <2>1, <2>2, StartReaderType
      <3>2. reader'[r].n >= reader[r].n
        BY <3>1, StreamTypes
      <3> QED BY <3>1, <3>2 DEF Lost_
    <2>3. CASE r # <<c, n>>
      <3>1. reader'[r] = reader[r]
        BY <1>3, <2>3, StartReaderType
      <3>2. reader'[r].n >= reader[r].n
        BY <3>1, StreamTypes
      <3> QED BY <3>1, <3>2 DEF Lost_
    <2> QED BY <2>2, <2>3
  <1>4. ASSUME NEW g \in Caller, Dial(g)
        PROVE  Grows
    <2>1. UNCHANGED <<sent, reader, connections>>
      BY <1>4 DEF Dial, streams, readers
    <2>2. \A c \in Conn : Used(c) => ends'[c] = ends[c]
      <3>1. ends' = ends \/ Opens(g)
        BY <1>4, DialCases
      <3>2. ends \in [Conn -> [from : OrNone(Node), to : OrNone(Node), by : OrNone(Caller)]]
        BY DEF TypeInv, TypeOK
      <3> QED BY <3>1, <3>2 DEF Opens
    <2> QED BY <1>1, <1>2, <2>1, <2>2 DEF Grows
  <1>5. ASSUME NEW g \in Caller, NEW m \in Node, Connect(g, m)
        PROVE  Grows
    BY <1>1, <1>2, <1>5 DEF Connect, streams, readers, Grows
  <1>6. ASSUME NEW g \in Caller, Register(g)
        PROVE  Grows
    <2>1. /\ connect[g].conn \in Conn /\ Dialer[g] \in Node
          /\ reader[<<connect[g].conn, Dialer[g]>>].step = "none"
      BY <1>6, DialedFacts DEF Register
    <2>2. UNCHANGED <<sent, ends>> /\ StartReader(connect[g].conn, Dialer[g])
      BY <1>6 DEF Register, streams
    <2>3. \A n \in Node : connections[n] \subseteq connections'[n]
      BY <1>6, Types DEF Register
    <2> QED BY <1>1, <1>3, <2>1, <2>2, <2>3 DEF Grows
  <1>7. ASSUME NEW n \in Node, Accept(n)
        PROVE  Grows
    <2>1. backlog[n] # <<>> /\ backlog[n] \in Seq(Conn)
      BY <1>7, Types DEF Accept
    <2>2. 1 \in DOMAIN backlog[n] /\ Head(backlog[n]) = backlog[n][1]
      BY <2>1, EmptySeq, LenProperties
    <2>3. Head(backlog[n]) \in Conn /\ reader[<<Head(backlog[n]), n>>].step = "none"
      BY <2>2, WaitingFacts
    <2>4. UNCHANGED <<sent, ends>> /\ StartReader(Head(backlog[n]), n)
      BY <1>7 DEF Accept, streams
    <2>5. \A o \in Node : connections[o] \subseteq connections'[o]
      BY <1>7, Types DEF Accept
    <2> QED BY <1>1, <1>3, <2>3, <2>4, <2>5 DEF Grows
  <1>8. ASSUME NEW n \in Node, BroadcastSend(n)
        PROVE  Grows
    <2>1. PICK w \in writes[n] : Write(w[1], n, w[2]) \/ WriteError(w[1], n)
      BY <1>8 DEF BroadcastSend
    <2>2. w[1] \in Conn /\ w[2] \in Message
      BY <2>1 DEF TypeInv, TypeOK
    <2> QED BY <1>2, <1>8, <2>1, <2>2, WriteGrows DEF BroadcastSend, readers, dialed, Grows
  <1>9. ASSUME NEW n \in Node, NEW m \in Message, NEW addr \in Node \union Conn,
               Send(n, addr, m)
        PROVE  Grows
    <2>1. PICK c \in Conn : Write(c, n, m) \/ WriteError(c, n)
      BY <1>9 DEF Send
    <2> QED BY <1>2, <1>9, <2>1, WriteGrows DEF Send, readers, dialed, Grows
  <1>10. ASSUME NEW n \in Node, Consume(n) \/ \E m \in Message : Broadcast(n, m)
         PROVE  Grows
    <2>1. UNCHANGED <<sent, reader, ends, connections>>
      BY <1>10 DEF Consume, Take, ReadByte, Decoded, Broadcast, streams, readers, dialed
    <2> QED BY <1>1, <1>2, <2>1 DEF Grows
  <1>11. ASSUME NEW r \in Reader, Fetch(r) \/ Read(r)
         PROVE  Grows
    <2>1. UNCHANGED dialed /\ (reader' = reader \/ ReaderStep(r))
      BY <1>11, ReaderMoves
    <2>2. sent' = sent
      BY <1>11 DEF Fetch, Read, ReadError, ReadLength, ReadBody, Put, Lost, Panic, streams
    <2>3. CASE reader' = reader
      BY <1>1, <1>2, <2>1, <2>2, <2>3 DEF Grows, dialed
    <2>4. CASE ReaderStep(r)
      <3>1. \A q \in Reader : /\ reader'[q].n >= reader[q].n
                              /\ reader[q].step = "stuck" => reader'[q].step = "stuck"
                              /\ Lost_(q) => reader'[q].step \in {"lost", "stuck"}
                              /\ reader'[q].step \in {"body", "put"} =>
                                    \/ reader[q].step \in {"body", "put"}
                                    \/ reader'[q].n > reader[q].n
        <4> TAKE q \in Reader
        <4>1. CASE q # r
          <5>1. reader'[q] = reader[q] /\ reader[q].n >= reader[q].n
            BY <2>4, <4>1, StreamTypes DEF ReaderStep
          <5> QED BY <5>1 DEF Lost_
        <4>2. CASE q = r
          <5>1. /\ reader'[r].n = reader[r].n + 1 => reader'[r].n > reader[r].n
                /\ reader'[r].n >= reader[r].n
            BY <2>4, StreamTypes DEF ReaderStep
          <5> QED BY <2>4, <4>2, <5>1 DEF ReaderStep
        <4> QED BY <4>1, <4>2
      <3> QED BY <1>1, <2>1, <2>2, <3>1 DEF Grows, dialed
    <2> QED BY <2>1, <2>3, <2>4
  <1>12. ASSUME Strikes
         PROVE  Grows
    BY <1>1, <1>2, <1>12, StrikesLeave DEF Grows
  <1> QED BY <1>4, <1>5, <1>6, <1>7, <1>8, <1>9, <1>10, <1>11, <1>12 DEF Next, Strikes

-----------------------------------------------------------------------------
(***************************************************************************)
(* The buffer holds what the reader was last at.                           *)
(***************************************************************************)
LEMMA FilledKept ==
    ASSUME NEW r \in Reader, FilledAt(r), buf'[r] = buf[r], reader'[r] = reader[r]
    PROVE  FilledAt(r)'
  BY DEF FilledAt, InBuffer

LEMMA FilledStart ==
    ASSUME TypeInv, Framing, Filled, NEW c \in Conn, NEW n \in Node, StartReader(c, n),
           reader[<<c, n>>].step = "none", buf' = buf
    PROVE  Filled'
  <1>1. <<c, n>> \in Reader
    BY DEF Reader
  <1>2. reader'[<<c, n>>].n = 0
    BY <1>1, StartReaderType DEF Framing, FramedAt
  <1>3. FilledAt(<<c, n>>)'
    BY <1>2 DEF FilledAt
  <1>4. ASSUME NEW q \in Reader, q # <<c, n>>
        PROVE  FilledAt(q)'
    BY <1>4, FilledKept, StartReaderType DEF Filled
  <1> QED BY <1>3, <1>4 DEF Filled

LEMMA FilledRead ==
    ASSUME TypeInv, Framing, Filled, NEW r \in Reader, Read(r)
    PROVE  Filled'
  <1>1. ASSUME FilledAt(r)', \A q \in Reader : q # r => buf'[q] = buf[q] /\ reader'[q] = reader[q]
        PROVE  Filled'
    BY <1>1, FilledKept DEF Filled
  <1>2. CASE Panic(r[2])
    BY <1>2, FilledKept DEF Panic, readers, Filled
  <1>3. CASE ReadLength(r) /\ ~Panic(r[2])
    <2>1. buf' = buf /\ reader[r].step = "length"
      BY <1>3 DEF ReadLength
    <2>2. CASE reader' = [reader EXCEPT ![r] = [step |-> "body", msg |-> Head(buffered[r]),
                                                pos |-> 0, n |-> @.n + 1]]
      <3>1. /\ reader'[r].step = "body" /\ reader'[r].pos = 0
            /\ \A q \in Reader : q # r => reader'[q] = reader[q]
        BY <2>2, Types
      <3>2. InBuffer(r)' = 0
        BY <3>1 DEF InBuffer
      <3>3. FilledAt(r)'
        BY <3>2 DEF FilledAt
      <3> QED BY <1>1, <2>1, <3>1, <3>3
    <2>3. CASE reader' = [reader EXCEPT ![r].step = "lost"]
      <3>1. /\ reader'[r].step = "lost" /\ reader'[r].msg = reader[r].msg
            /\ reader'[r].n = reader[r].n
            /\ \A q \in Reader : q # r => reader'[q] = reader[q]
        BY <2>3, Types DEF ReaderState
      <3>2. FilledAt(r)'
        BY <2>1, <3>1 DEF Filled, FilledAt, InBuffer
      <3> QED BY <1>1, <2>1, <3>1, <3>2
    <2> QED BY <1>3, <2>2, <2>3 DEF ReadLength
  <1>4. CASE ReadBody(r)
    <2>1. FramedAt(r) /\ FilledAt(r)
      BY DEF Framing, Filled
    <2>2. PICK m : m = reader[r].msg
      OBVIOUS
    <2>3. PICK pos : pos = reader[r].pos
      OBVIOUS
    <2>4. PICK k : k = Part(r)
      OBVIOUS
    <2>5. /\ Size[m] \in Nat /\ Size[m] <= BufSize /\ pos \in Nat /\ pos < Size[m]
          /\ k \in 1 .. Len(buffered[r]) /\ k <= Size[m] - pos
          /\ reader[r].step = "body"
          /\ reader'[r].step = IF pos + k = Size[m] THEN "put" ELSE "body"
          /\ reader'[r].pos = pos + k /\ reader'[r].msg = m /\ reader'[r].n = reader[r].n
          /\ \A q \in Reader : q # r => reader'[q] = reader[q]
          /\ buf' = [buf EXCEPT ![r] = [i \in Cells |->
                        IF i \in pos + 1 .. pos + k THEN buffered[r][i - pos] ELSE @[i]]]
      BY <1>4, <2>1, <2>2, <2>3, <2>4, BodyFacts
    <2>6. k \in Nat /\ Len(buffered[r]) \in Nat /\ k <= Len(buffered[r]) /\ BufSize \in Nat
      BY <2>5, StreamTypes, SizeAssumption
    <2>7. InBuffer(r)' = pos + k /\ InBuffer(r) = pos
      BY <2>2, <2>3, <2>5 DEF InBuffer
    <2>8. \A q \in Reader : q # r => buf'[q] = buf[q]
      BY <2>5, Types
    <2>9. \A i \in Cells : buf'[r][i] =
             IF i \in pos + 1 .. pos + k THEN buffered[r][i - pos] ELSE buf[r][i]
      BY <2>5, Types
    <2>10. \A j \in 1 .. k : buffered[r][j] = m
      <3> TAKE j \in 1 .. k
      <3>1. PICK start : Cut(r, start)
        BY <2>1, <2>5 DEF FramedAt, Lost_
      <3>2. Remaining(r) = Size[m] - pos
        BY <2>2, <2>3, <2>5 DEF Remaining
      <3>3. j \in 1 .. Size[m] - pos
        BY <2>5, <2>6
      <3>4. Byte(r, j) = m
        BY <2>2, <3>1, <3>2, <3>3 DEF Cut
      <3>5. j <= Len(buffered[r])
        BY <2>6
      <3> QED BY <3>4, <3>5 DEF Byte
    <2>11. reader[r].n > 0
      BY <2>1, <2>5 DEF FramedAt
    <2>12. \A i \in 1 .. pos : buf[r][i] = m
      BY <2>1, <2>2, <2>5, <2>7, <2>11 DEF FilledAt
    <2>13. ASSUME NEW i \in 1 .. pos + k
           PROVE  buf'[r][i] = m
      <3>1. i \in Cells
        BY <2>5, <2>6 DEF Cells
      <3>2. CASE i \in pos + 1 .. pos + k
        <4>1. i - pos \in 1 .. k
          BY <2>5, <2>6, <3>2
        <4> QED BY <2>9, <2>10, <3>1, <3>2, <4>1
      <3>3. CASE i \notin pos + 1 .. pos + k
        <4>1. i \in 1 .. pos
          BY <2>5, <2>6, <3>3
        <4> QED BY <2>9, <2>12, <3>1, <3>3, <4>1
      <3> QED BY <3>2, <3>3
    <2>14. FilledAt(r)'
      BY <2>5, <2>7, <2>13 DEF FilledAt
    <2> QED BY <1>1, <2>5, <2>8, <2>14
  <1>5. CASE Put(r)
    <2>1. /\ reader[r].step = "put" /\ reader'[r].step = "length"
          /\ reader'[r].n = reader[r].n /\ reader'[r].msg = reader[r].msg
          /\ \A q \in Reader : q # r => reader'[q] = reader[q]
          /\ buf' = buf
      BY <1>5, Types DEF Put, ReaderState
    <2>2. FilledAt(r)'
      BY <2>1 DEF Filled, FilledAt, InBuffer
    <2> QED BY <1>1, <2>1, <2>2
  <1>6. CASE Lost(r) /\ ~Panic(r[2])
    <2>1. /\ reader'[r].step = "stuck"
          /\ \A q \in Reader : q # r => reader'[q] = reader[q] /\ buf'[q] = buf[q]
      BY <1>6, Types DEF Lost, ReaderState
    <2>2. FilledAt(r)'
      BY <2>1 DEF FilledAt
    <2> QED BY <1>1, <2>1, <2>2
  <1> QED BY <1>2, <1>3, <1>4, <1>5, <1>6 DEF Read, ReadError

LEMMA FilledNext ==
    ASSUME TypeInv, SetUp, Framing, Filled, Next
    PROVE  Filled'
  <1>1. ASSUME UNCHANGED <<buf, reader>>
        PROVE  Filled'
    BY <1>1, FilledKept DEF Filled
  <1>2. ASSUME NEW g \in Caller, Dial(g) \/ \E m \in Node : Connect(g, m)
        PROVE  Filled'
    BY <1>1, <1>2 DEF Dial, Connect, readers
  <1>3. ASSUME NEW g \in Caller, Register(g)
        PROVE  Filled'
    <2>1. /\ connect[g].conn \in Conn /\ Dialer[g] \in Node
          /\ reader[<<connect[g].conn, Dialer[g]>>].step = "none"
      BY <1>3, DialedFacts DEF Register
    <2> QED BY <1>3, <2>1, FilledStart DEF Register
  <1>4. ASSUME NEW n \in Node, Accept(n)
        PROVE  Filled'
    <2>1. backlog[n] # <<>> /\ backlog[n] \in Seq(Conn)
      BY <1>4, Types DEF Accept
    <2>2. 1 \in DOMAIN backlog[n] /\ Head(backlog[n]) = backlog[n][1]
      BY <2>1, EmptySeq, LenProperties
    <2>3. Head(backlog[n]) \in Conn /\ reader[<<Head(backlog[n]), n>>].step = "none"
      BY <2>2, WaitingFacts
    <2> QED BY <1>4, <2>3, FilledStart DEF Accept
  <1>5. ASSUME NEW n \in Node,
               \/ BroadcastSend(n) \/ Consume(n)
               \/ \E m \in Message :
                     Broadcast(n, m) \/ \E addr \in Node \union Conn : Send(n, addr, m)
        PROVE  Filled'
    BY <1>1, <1>5 DEF BroadcastSend, Consume, Take, ReadByte, Decoded, Broadcast, Send, readers
  <1>6. ASSUME NEW r \in Reader, Fetch(r)
        PROVE  Filled'
    BY <1>1, <1>6 DEF Fetch
  <1>7. ASSUME Strikes
        PROVE  Filled'
    BY <1>1, <1>7, StrikesLeave
  <1> QED BY <1>2, <1>3, <1>4, <1>5, <1>6, <1>7, FilledRead DEF Next, Strikes

-----------------------------------------------------------------------------
(***************************************************************************)
(* The messages in the channel and in the hands of the consumer.           *)
(***************************************************************************)
LEMMA GenuineKept ==
    ASSUME TypeInv, SetUp, Framing, Next, NEW n \in Node, NEW rpc, Genuine(n, rpc),
           TypeInv'
    PROVE  Genuine(n, rpc)'
  <1>1. PICK r \in Reader : r = rpc.r
    BY DEF Genuine
  <1>2. Grows
    BY NextGrows
  <1>3. /\ r[1] \in Conn /\ r[2] = n /\ Used(r[1]) /\ Answerable(r[1], n)
        /\ rpc.n \in 1 .. Len(sent[r]) /\ rpc.msg = sent[r][rpc.n]
        /\ Size[rpc.msg] <= BufSize /\ rpc.From = Peer(r[1], n)
        /\ rpc.n <= reader[r].n
        /\ reader[r].step \in {"body", "put"} => rpc.n < reader[r].n
    BY <1>1, StreamTypes DEF Genuine, Reader
  <1>4. ends'[r[1]] = ends[r[1]] /\ connections[n] \subseteq connections'[n]
    BY <1>2, <1>3 DEF Grows
  <1>5. Used(r[1])' /\ Answerable(r[1], n)' /\ rpc.From = Peer(r[1], n)'
    BY <1>3, <1>4, AnswerableKept DEF Used, Peer
  <1>6. Len(sent'[r]) >= Len(sent[r]) /\ sent'[r][rpc.n] = sent[r][rpc.n]
    BY <1>2, <1>3 DEF Grows
  <1>7. /\ Len(sent[r]) \in Nat /\ Len(sent'[r]) \in Nat /\ DOMAIN sent'[r] = 1 .. Len(sent'[r])
        /\ reader[r].n \in Nat /\ reader'[r].n \in Nat
    <2>1. sent'[r] \in Seq(Message) /\ reader'[r] \in ReaderState
      BY DEF TypeInv, TypeOK
    <2>2. Len(sent'[r]) \in Nat /\ DOMAIN sent'[r] = 1 .. Len(sent'[r])
      BY <2>1, LenProperties
    <2> QED BY <2>1, <2>2, StreamTypes DEF ReaderState
  <1>8. rpc.n \in DOMAIN sent'[r]
    BY <1>3, <1>6, <1>7
  <1>9. rpc.n \in Nat
    BY <1>3, <1>7
  <1>10. rpc.n <= reader'[r].n /\ (reader'[r].n > reader[r].n => rpc.n < reader'[r].n)
         /\ (rpc.n < reader[r].n => rpc.n < reader'[r].n)
    <2>1. reader'[r].n >= reader[r].n
      BY <1>2 DEF Grows
    <2> QED BY <1>3, <1>7, <1>9, <2>1
  <1>11. reader'[r].step \in {"body", "put"} => rpc.n < reader'[r].n
    BY <1>2, <1>3, <1>10 DEF Grows
  <1> QED BY <1>1, <1>3, <1>5, <1>6, <1>8, <1>10, <1>11 DEF Genuine

(* Only Put brings a message in. *)
LEMMA ReceivedNext ==
    ASSUME TypeInv, Next, NEW n \in Node, NEW rpc \in Received(n)'
    PROVE  \/ rpc \in Received(n)
           \/ \E r \in Reader : r[2] = n /\ Put(r) /\ rpc = Envelope(r)
  <1>1. CASE UNCHANGED <<recv, handling>>
    BY <1>1 DEF Received
  <1>2. ASSUME NEW o \in Node, Take(o)
        PROVE  rpc \in Received(n)
    <2>1. CASE o = n
      <3>1. recv[n] # <<>> /\ recv[n] \in Seq(RPC)
        BY <1>2, <2>1, Types DEF Take
      <3>2. /\ Len(recv[n]) \in Nat /\ Len(recv[n]) > 0
            /\ DOMAIN recv[n] = 1 .. Len(recv[n])
            /\ DOMAIN Tail(recv[n]) = 1 .. Len(recv[n]) - 1
            /\ \A i \in 1 .. Len(recv[n]) - 1 : Tail(recv[n])[i] = recv[n][i + 1]
        BY <3>1, EmptySeq, LenProperties, HeadTailProperties
      <3>3. recv'[n] = Tail(recv[n]) /\ handling'[n].rpc = Head(recv[n])
        BY <1>2, <2>1, Types DEF Take, HandlingState
      <3>4. CASE \E i \in DOMAIN recv'[n] : rpc = recv'[n][i]
        <4>1. PICK i \in 1 .. Len(recv[n]) - 1 : rpc = recv[n][i + 1]
          BY <3>2, <3>3, <3>4
        <4>2. i + 1 \in DOMAIN recv[n]
          BY <3>2
        <4> QED BY <4>1, <4>2 DEF Received
      <3>5. CASE rpc = Head(recv[n])
        <4>1. 1 \in DOMAIN recv[n] /\ Head(recv[n]) = recv[n][1]
          BY <3>1, <3>2
        <4> QED BY <3>5, <4>1 DEF Received
      <3> QED BY <3>3, <3>4, <3>5 DEF Received
    <2>2. CASE o # n
      <3>1. recv'[n] = recv[n] /\ handling'[n] = handling[n]
        BY <1>2, <2>2, Types DEF Take
      <3> QED BY <3>1 DEF Received
    <2> QED BY <2>1, <2>2
  <1>3. ASSUME NEW o \in Node, ReadByte(o) \/ Decoded(o)
        PROVE  rpc \in Received(n)
    <2>1. recv' = recv
      BY <1>3 DEF ReadByte, Decoded
    <2>2. handling'[n].rpc = handling[n].rpc \/ handling'[n].rpc = NoRPC
      <3>1. CASE o # n
        BY <1>3, <3>1, Types DEF ReadByte, Decoded
      <3>2. CASE o = n /\ ReadByte(o)
        BY <3>2, Types DEF ReadByte, HandlingState
      <3>3. CASE o = n /\ Decoded(o)
        BY <3>3, Types DEF Decoded
      <3> QED BY <1>3, <3>1, <3>2, <3>3
    <2> QED BY <2>1, <2>2 DEF Received
  <1>4. ASSUME NEW r \in Reader, Put(r)
        PROVE  rpc \in Received(n) \/ (r[2] = n /\ rpc = Envelope(r))
    <2>1. handling' = handling
      BY <1>4 DEF Put
    <2>2. CASE r[2] = n
      <3>1. recv[n] \in Seq(RPC) /\ recv'[n] = Append(recv[n], Envelope(r))
        BY <1>4, <2>2, Types DEF Put
      <3>2. /\ Len(recv[n]) \in Nat /\ DOMAIN recv[n] = 1 .. Len(recv[n])
            /\ DOMAIN recv'[n] = 1 .. Len(recv[n]) + 1
            /\ recv'[n][Len(recv[n]) + 1] = Envelope(r)
            /\ \A i \in 1 .. Len(recv[n]) : recv'[n][i] = recv[n][i]
        BY <3>1, LenProperties
      <3>3. \A i \in 1 .. Len(recv[n]) + 1 : i \in 1 .. Len(recv[n]) \/ i = Len(recv[n]) + 1
        BY <3>2
      <3> QED BY <2>1, <2>2, <3>2, <3>3 DEF Received
    <2>3. CASE r[2] # n
      <3>1. recv'[n] = recv[n]
        BY <1>4, <2>3, Types DEF Put
      <3> QED BY <2>1, <3>1 DEF Received
    <2> QED BY <2>2, <2>3
  <1>5. \/ UNCHANGED <<recv, handling>>
        \/ \E o \in Node : Consume(o)
        \/ \E r \in Reader : Put(r)
    BY DEF Next, Dial, Register, Connect, Accept, BroadcastSend, Broadcast, Send, Fetch, Read,
           ReadError, ReadLength, ReadBody, Lost, Panic, Exit, Break, inbound
  <1> QED BY <1>1, <1>2, <1>3, <1>4, <1>5 DEF Consume

LEMMA QueuedNext ==
    ASSUME TypeInv, SetUp, Framing, Queued, Next, TypeInv'
    PROVE  Queued'
  <1> SUFFICES ASSUME NEW n \in Node, NEW rpc \in Received(n)'
               PROVE  Genuine(n, rpc)'
    BY DEF Queued
  <1>1. CASE rpc \in Received(n)
    BY <1>1, GenuineKept DEF Queued
  <1>2. ASSUME NEW r \in Reader, r[2] = n, Put(r), rpc = Envelope(r)
        PROVE  Genuine(n, rpc)'
    <2>1. /\ reader[r].step = "put"
          /\ reader'[r].step = "length" /\ reader'[r].n = reader[r].n
          /\ UNCHANGED <<sent, ends, connections>>
      BY <1>2, Types DEF Put, ReaderState, streams, dialed
    <2>2. r[1] \in Conn /\ r = <<r[1], n>>
      BY <1>2 DEF Reader
    <2>3. Used(r[1]) /\ Answerable(r[1], n)
      BY <2>1, <2>2 DEF SetUp, Registered
    <2>4. /\ reader[r].n \in DOMAIN sent[r] /\ reader[r].msg = sent[r][reader[r].n]
          /\ Size[reader[r].msg] <= BufSize /\ reader[r].n <= reader[r].n
      BY <2>1, StreamTypes DEF Framing, FramedAt
    <2>5. rpc.From = Peer(r[1], n) /\ rpc.r = r /\ rpc.msg = reader[r].msg /\ rpc.n = reader[r].n
      BY <1>2 DEF Envelope
    <2> QED BY <1>2, <2>1, <2>2, <2>3, <2>4, <2>5
            DEF Genuine, Used, Answerable, IsConnected, Peer
  <1> QED BY <1>1, <1>2, ReceivedNext

(***************************************************************************)
(* What the consumer reads.                                                *)
(***************************************************************************)
LEMMA ContentKept ==
    ASSUME TypeInv, Queued
    PROVE  \A n \in Node : handling[n].rpc # NoRPC => Genuine(n, handling[n].rpc)
  BY DEF Queued, Received

(* A byte that is not the message's own has been overwritten. *)
Excused(rpc) == reader[rpc.r].n > rpc.n \/ reader[rpc.r].step = "stuck"

LEMMA ExcusedKept ==
    ASSUME TypeInv, TypeInv', Grows, NEW rpc \in RPC, Excused(rpc)
    PROVE  Excused(rpc)'
  <1>1. rpc.r \in Reader /\ rpc.n \in Nat
    BY DEF RPC
  <1>2. /\ reader'[rpc.r].n >= reader[rpc.r].n
        /\ reader[rpc.r].step = "stuck" => reader'[rpc.r].step = "stuck"
    BY <1>1 DEF Grows
  <1>3. reader'[rpc.r].n \in Nat
    BY <1>1 DEF TypeInv, ReaderState
  <1>4. reader[rpc.r].n \in Nat
    BY <1>1, StreamTypes
  <1>5. reader[rpc.r].n > rpc.n => reader'[rpc.r].n > rpc.n
    BY <1>1, <1>2, <1>3, <1>4
  <1> QED BY <1>2, <1>5 DEF Excused

(* What is read of a message is its own as long as its reader has gone no further. *)
LEMMA CellHolds ==
    ASSUME TypeInv, Framing, Filled, NEW n \in Node, NEW rpc \in RPC, Genuine(n, rpc),
           ~Excused(rpc), NEW i \in 1 .. Size[rpc.msg]
    PROVE  buf[rpc.r][i] = rpc.msg
  <1>1. PICK r \in Reader : r = rpc.r
    BY DEF Genuine
  <1>2. /\ rpc.n \in 1 .. Len(sent[r]) /\ rpc.msg = sent[r][rpc.n] /\ rpc.n <= reader[r].n
        /\ reader[r].step \in {"body", "put"} => rpc.n < reader[r].n
    BY <1>1, StreamTypes DEF Genuine
  <1>3. ~(reader[r].n > rpc.n) /\ reader[r].step # "stuck"
    BY <1>1 DEF Excused
  <1>4. rpc.n \in Nat /\ reader[r].n \in Nat /\ Len(sent[r]) \in Nat
    BY <1>2, StreamTypes
  <1>5. reader[r].n = rpc.n /\ reader[r].n > 0 /\ ~(rpc.n < reader[r].n)
    BY <1>2, <1>3, <1>4
  <1>6. reader[r].msg = rpc.msg
    BY <1>2, <1>5 DEF Framing, FramedAt
  <1>7. InBuffer(r) = Size[rpc.msg]
    BY <1>2, <1>5, <1>6 DEF InBuffer
  <1> QED BY <1>1, <1>3, <1>5, <1>6, <1>7 DEF Filled, FilledAt

LEMMA ReadsNext ==
    ASSUME IInv, Next, TypeInv'
    PROVE  FreshRead' /\ OverwrittenByLaterFrame'
  <1> USE DEF IInv
  <1>1. Grows
    BY NextGrows
  <1>2. \/ handling' = handling
        \/ \E o \in Node : Consume(o)
    BY DEF Next, Dial, Register, Connect, Accept, BroadcastSend, Broadcast, Send, Fetch, Read,
           ReadError, ReadLength, ReadBody, Lost, Put, Panic, Exit, Break, inbound
  <1> DEFINE Fine(h) == /\ h.rpc = NoRPC => h.got = <<>>
                        /\ h.rpc # NoRPC => \A i \in DOMAIN h.got :
                              h.got[i] # h.rpc.msg =>
                                 \/ reader'[h.rpc.r].n > h.rpc.n
                                 \/ reader'[h.rpc.r].step = "stuck"
  <1>3. ASSUME NEW n \in Node
        PROVE  /\ handling[n].rpc = NoRPC \/ handling[n].rpc \in RPC
               /\ handling[n].got \in Seq(OrNone(Message))
    BY Types DEF HandlingState
  <1>4. ASSUME NEW n \in Node
        PROVE  Fine(handling[n])
    <2>1. CASE handling[n].rpc = NoRPC
      BY <2>1 DEF FreshRead
    <2>2. CASE handling[n].rpc # NoRPC
      <3>1. PICK rpc \in RPC : rpc = handling[n].rpc
        BY <1>3, <2>2
      <3>2. Excused(rpc) => Excused(rpc)'
        BY <1>1, ExcusedKept
      <3>3. \A i \in DOMAIN handling[n].got : handling[n].got[i] # rpc.msg => Excused(rpc)
        BY <3>1 DEF OverwrittenByLaterFrame, Excused
      <3> QED BY <2>2, <3>1, <3>2, <3>3 DEF Excused
    <2> QED BY <2>1, <2>2
  <1>5. ASSUME NEW n \in Node, ReadByte(n)
        PROVE  Fine(handling'[n])
    <2>1. PICK rpc \in RPC : rpc = handling[n].rpc /\ rpc # NoRPC
      BY <1>3, <1>5 DEF ReadByte
    <2>2. PICK got \in Seq(OrNone(Message)) : got = handling[n].got
      BY <1>3
    <2>3. PICK x : x = buf[rpc.r][Len(got) + 1]
      OBVIOUS
    <2>4. handling'[n].rpc = rpc /\ handling'[n].got = Append(got, x)
      BY <1>5, <2>1, <2>2, <2>3, Types DEF ReadByte, Content, HandlingState
    <2>5. Genuine(n, rpc)
      BY <2>1, ContentKept
    <2>6. Len(got) \in Nat /\ DOMAIN got = 1 .. Len(got) /\ Size[rpc.msg] \in Nat
      BY <2>2, LenProperties, SizeType DEF RPC
    <2>7. Len(got) + 1 \in 1 .. Size[rpc.msg]
      <3>1. Len(got) < Size[rpc.msg]
        BY <1>5, <2>1, <2>2 DEF ReadByte, Content
      <3> QED BY <2>6, <3>1
    <2>8. x = rpc.msg \/ Excused(rpc)
      BY <2>1, <2>3, <2>5, <2>7, CellHolds
    <2>9. Excused(rpc) => Excused(rpc)'
      BY <1>1, ExcusedKept
    <2>10. \A i \in DOMAIN got : got[i] # rpc.msg => Excused(rpc)
      BY <2>1, <2>2 DEF OverwrittenByLaterFrame, Excused
    <2>11. /\ DOMAIN Append(got, x) = 1 .. Len(got) + 1
           /\ Append(got, x)[Len(got) + 1] = x
           /\ \A i \in 1 .. Len(got) : Append(got, x)[i] = got[i]
      BY <2>2, <2>6
    <2>12. \A i \in 1 .. Len(got) + 1 : i \in 1 .. Len(got) \/ i = Len(got) + 1
      BY <2>6
    <2>13. \A i \in DOMAIN Append(got, x) : Append(got, x)[i] # rpc.msg => Excused(rpc)'
      BY <2>6, <2>8, <2>9, <2>10, <2>11, <2>12
    <2> QED BY <2>1, <2>4, <2>13 DEF Excused
  <1>6. ASSUME NEW n \in Node, Take(n)
        PROVE  Fine(handling'[n])
    <2>1. handling[n].got = <<>> /\ handling'[n].got = handling[n].got
      BY <1>6, Types DEF Take, FreshRead, HandlingState
    <2> QED BY <2>1
  <1>7. ASSUME NEW n \in Node, Decoded(n)
        PROVE  Fine(handling'[n])
    BY <1>7, Types DEF Decoded
  <1>8. ASSUME NEW n \in Node
        PROVE  Fine(handling'[n])
    <2>1. CASE handling'[n] = handling[n]
      BY <1>4, <2>1
    <2>2. CASE handling'[n] # handling[n]
      <3>1. PICK o \in Node : Consume(o)
        BY <1>2, <2>2
      <3>2. o = n
        BY <2>2, <3>1, Types DEF Consume, Take, ReadByte, Decoded
      <3> QED BY <1>5, <1>6, <1>7, <3>1, <3>2 DEF Consume
    <2> QED BY <2>1, <2>2
  <1>9. FreshRead'
    BY <1>8 DEF FreshRead
  <1>10. OverwrittenByLaterFrame'
    <2> SUFFICES ASSUME NEW n \in Node, NEW i \in DOMAIN handling'[n].got,
                        handling'[n].got[i] # handling'[n].rpc.msg
                 PROVE  \/ reader'[handling'[n].rpc.r].n > handling'[n].rpc.n
                        \/ reader'[handling'[n].rpc.r].step = "stuck"
      BY DEF OverwrittenByLaterFrame
    <2>1. handling'[n].rpc # NoRPC
      BY <1>8
    <2> QED BY <1>8, <2>1
  <1> QED BY <1>9, <1>10

-----------------------------------------------------------------------------
(***************************************************************************)
(* How processes end.  Readers start at the ends of their connections, so  *)
(* the partner whose end a reader meets is the one it is joined to.        *)
(***************************************************************************)
LEMMA PlacedNext ==
    ASSUME TypeInv, SetUp, Framing, Placed, Next
    PROVE  Placed'
  <1>1. Grows
    BY NextGrows
  <1>2. \A c \in Conn : Used(c) => Used(c)' /\ ends'[c] = ends[c]
    BY <1>1 DEF Grows, Used
  <1>3. \A c \in Conn \intersect faults' : Used(c)'
    <2>1. CASE faults' \subseteq faults \union Node
      BY <1>2, <2>1, AddressAssumption DEF Placed
    <2>2. CASE \E c \in Conn : Break(c)
      BY <1>2, <2>2 DEF Break, Placed, Used
    <2>3. (\E c \in Conn : Break(c)) \/ faults' \subseteq faults \union Node
      BY DEF Next, Dial, Register, Connect, Accept, BroadcastSend, Broadcast, Send, Fetch, Read,
             ReadError, ReadLength, ReadBody, Lost, Put, Panic, Exit, Consume, Take, ReadByte,
             Decoded
    <2> QED BY <2>1, <2>2, <2>3
  <1>4. ASSUME NEW c \in Conn, NEW n \in Node, reader[<<c, n>>].step # "none"
        PROVE  n \in {ends'[c].from, ends'[c].to}
    <2>1. Used(c)
      BY <1>4 DEF SetUp, Registered
    <2> QED BY <1>2, <1>4, <2>1 DEF Placed
  <1>5. ASSUME NEW d \in Conn, NEW o \in Node, StartReader(d, o), ends' = ends,
               o \in {ends[d].from, ends[d].to},
               NEW c \in Conn, NEW n \in Node, reader'[<<c, n>>].step # "none"
        PROVE  n \in {ends'[c].from, ends'[c].to}
    <2>1. <<c, n>> \in Reader
      BY DEF Reader
    <2>2. <<c, n>> = <<d, o>> \/ reader'[<<c, n>>] = reader[<<c, n>>]
      BY <1>5, <2>1, StartReaderType
    <2> QED BY <1>4, <1>5, <2>2
  <1>6. ASSUME NEW g \in Caller, Register(g),
               NEW c \in Conn, NEW n \in Node, reader'[<<c, n>>].step # "none"
        PROVE  n \in {ends'[c].from, ends'[c].to}
    <2>1. /\ connect[g].conn \in Conn /\ Dialer[g] \in Node
          /\ ends[connect[g].conn].from = Dialer[g]
      BY <1>6, DialedFacts DEF Register
    <2>2. StartReader(connect[g].conn, Dialer[g]) /\ ends' = ends
      BY <1>6 DEF Register
    <2> QED BY <1>5, <1>6, <2>1, <2>2
  <1>7. ASSUME NEW o \in Node, Accept(o),
               NEW c \in Conn, NEW n \in Node, reader'[<<c, n>>].step # "none"
        PROVE  n \in {ends'[c].from, ends'[c].to}
    <2>1. backlog[o] # <<>> /\ backlog[o] \in Seq(Conn)
      BY <1>7, Types DEF Accept
    <2>2. 1 \in DOMAIN backlog[o] /\ Head(backlog[o]) = backlog[o][1]
      BY <2>1, EmptySeq, LenProperties
    <2>3. Head(backlog[o]) \in Conn /\ ends[Head(backlog[o])].to = o
      <3>1. backlog[o][1] \in Conn /\ ends[backlog[o][1]].to = o
        BY <2>2, WaitingFacts
      <3> QED BY <2>2, <3>1
    <2>4. StartReader(Head(backlog[o]), o) /\ ends' = ends
      BY <1>7 DEF Accept
    <2> QED BY <1>5, <1>7, <2>3, <2>4
  <1>8. ASSUME ~(\E g \in Caller : Register(g)), ~(\E o \in Node : Accept(o)),
               NEW c \in Conn, NEW n \in Node, reader'[<<c, n>>].step # "none"
        PROVE  reader[<<c, n>>].step # "none"
    <2>1. CASE reader' = reader
      BY <1>8, <2>1
    <2>2. CASE reader' # reader
      <3>1. PICK r \in Reader : Fetch(r) \/ Read(r)
        BY <1>8, <2>2, StrikesLeave DEF Next, Dial, Connect, BroadcastSend, Broadcast, Send,
           Consume, Take, ReadByte, Decoded, readers, Strikes
      <3>2. ReaderStep(r)
        BY <2>2, <3>1, ReaderMoves
      <3>3. <<c, n>> \in Reader
        BY DEF Reader
      <3> QED BY <1>8, <3>2, <3>3 DEF ReaderStep
    <2> QED BY <2>1, <2>2
  <1>9. \A c \in Conn : \A n \in Node :
           reader'[<<c, n>>].step # "none" => n \in {ends'[c].from, ends'[c].to}
    BY <1>4, <1>6, <1>7, <1>8
  <1> QED BY <1>3, <1>9 DEF Placed

(* An origin stays one, and who is joined stays joined. *)
LEMMA OriginStays ==
    ASSUME TypeInv, SetUp, Framing, Placed, Next, TypeInv', NEW n \in Node, HasOrigin(n)
    PROVE  HasOrigin(n)'
  <1>1. Grows
    BY NextGrows
  <1>2. faults \subseteq faults'
    BY DEF Next, Dial, Register, Connect, Accept, BroadcastSend, Broadcast, Send, Fetch, Read,
           ReadError, ReadLength, ReadBody, Lost, Put, Panic, Exit, Break, Consume, Take,
           ReadByte, Decoded
  <1>3. CASE n \in faults
    BY <1>2, <1>3 DEF HasOrigin
  <1>4. ASSUME NEW c \in Conn \intersect faults, n \in {ends[c].from, ends[c].to}
        PROVE  HasOrigin(n)'
    <2>1. ends'[c] = ends[c] /\ c \in Conn \intersect faults'
      BY <1>1, <1>2, <1>4 DEF Grows, Placed
    <2> QED BY <1>4, <2>1 DEF HasOrigin
  <1>5. ASSUME NEW r \in Reader, r[2] = n, Lost_(r)
        PROVE  HasOrigin(n)'
    BY <1>1, <1>5 DEF Grows, HasOrigin, Lost_
  <1>6. ASSUME NEW r \in Reader, r[2] = n, NEW i \in DOMAIN sent[r], Size[sent[r][i]] > BufSize
        PROVE  HasOrigin(n)'
    <2>1. /\ Len(sent[r]) \in Nat /\ Len(sent'[r]) \in Nat /\ i \in 1 .. Len(sent[r])
          /\ DOMAIN sent'[r] = 1 .. Len(sent'[r])
      <3>1. sent'[r] \in Seq(Message)
        BY DEF TypeInv, TypeOK
      <3> QED BY <3>1, StreamTypes, LenProperties
    <2>2. Len(sent'[r]) >= Len(sent[r]) /\ sent'[r][i] = sent[r][i]
      BY <1>1, <2>1 DEF Grows
    <2>3. i \in DOMAIN sent'[r]
      BY <2>1, <2>2
    <2> QED BY <1>6, <2>2, <2>3 DEF HasOrigin
  <1> QED BY <1>3, <1>4, <1>5, <1>6 DEF HasOrigin

LEMMA JoinsStays ==
    ASSUME TypeInv, SetUp, Framing, Next, NEW n \in Node, NEW m \in Node, NEW c \in Conn,
           Joins(c, n, m)
    PROVE  Joins(c, n, m)'
  <1>1. Grows
    BY NextGrows
  <1>2. Used(c)
    BY AddressAssumption DEF Joins, Used
  <1> QED BY <1>1, <1>2 DEF Grows, Joins

(* At most one process ends in a step: because of what is an origin, or because
   its partner on a connection had ended. *)
EndsFor(x) ==
    \/ HasOrigin(x)'
    \/ \E m \in Node \ up : \E c \in Conn : Joins(c, x, m)

LEMMA HowProcessesEnd ==
    ASSUME TypeInv, SetUp, Framing, Placed, Next, TypeInv', up' # up
    PROVE  \E x \in up : up' = up \ {x} /\ EndsFor(x)
  <1>1. (\E n \in Node : Exit(n))
        \/ \E r \in Reader : ReadError(r) \/ ReadLength(r) \/ Lost(r)
    BY DEF Next, Dial, Register, Connect, Accept, BroadcastSend, Broadcast, Send, Fetch, Read,
           ReadBody, Put, Break, Consume, Take, ReadByte, Decoded
  <1>2. CASE \E n \in Node : Exit(n)
    BY <1>2 DEF Exit, EndsFor, HasOrigin
  <1>3. ASSUME NEW r \in Reader, ReadError(r) \/ ReadLength(r) \/ Lost(r)
        PROVE  \E x \in up : up' = up \ {x} /\ EndsFor(x)
    <2>1. PICK c \in Conn, x \in Node : r = <<c, x>>
      BY DEF Reader
    <2>2. x \in up /\ up' = up \ {x}
      BY <1>3, <2>1 DEF ReadError, ReadLength, Lost, Panic, Reading
    <2>3. ASSUME HasOrigin(x) PROVE EndsFor(x)
      <3>1. HasOrigin(x)'
        BY <2>3, OriginStays
      <3> QED BY <3>1 DEF EndsFor
    <2>4. CASE ReadError(r)
      <3>1. reader[r].step # "none" /\ Severed(c, x)
        BY <2>1, <2>4 DEF ReadError, Reading
      <3>2. x \in {ends[c].from, ends[c].to} /\ Used(c)
        BY <2>1, <3>1 DEF Placed, SetUp, Registered
      <3>3. ASSUME c \in faults PROVE EndsFor(x)
        BY <2>1, <2>3, <3>2, <3>3 DEF HasOrigin
      <3>4. ASSUME Peer(c, x) \notin up PROVE EndsFor(x)
        <4>1. Peer(c, x) \in Node
          BY <2>1, <3>2, PeerType DEF SetUp
        <4>2. Joins(c, x, Peer(c, x))
          BY <3>2 DEF Joins, Peer
        <4> QED BY <2>1, <3>4, <4>1, <4>2 DEF EndsFor
      <3>5. EndsFor(x)
        BY <3>1, <3>3, <3>4 DEF Severed
      <3> QED BY <2>2, <3>5
    <2>5. CASE Lost(r)
      <3>1. HasOrigin(x)
        BY <2>1, <2>5 DEF Lost, Lost_, HasOrigin
      <3> QED BY <2>2, <2>3, <3>1
    <2>6. CASE ReadLength(r)
      <3>1. reader[r].step = "length" /\ buffered[r] # <<>> /\ ~FrameFits(Head(buffered[r]))
        BY <2>2, <2>6 DEF ReadLength
      <3>2. FramedAt(r) /\ ~Lost_(r) /\ Remaining(r) = 0
        BY <3>1 DEF Framing, Lost_, Remaining
      <3>3. PICK start : Cut(r, start)
        BY <3>2 DEF FramedAt
      <3>4. InFlight(r) > 0 /\ Byte(r, 1) = Head(buffered[r])
        BY <3>1, FirstByte
      <3>5. /\ reader[r].n + 1 \in DOMAIN sent[r]
            /\ Head(buffered[r]) = sent[r][reader[r].n + 1]
        BY <3>2, <3>3, <3>4, AtBoundary, StreamTypes
      <3>6. /\ Size[sent[r][reader[r].n + 1]] \in Nat /\ BufSize \in Nat
            /\ ~(Size[sent[r][reader[r].n + 1]] <= BufSize)
        BY <3>1, <3>5, StreamTypes, SentSizes, SizeAssumption DEF FrameFits
      <3>7. Size[sent[r][reader[r].n + 1]] > BufSize
        BY <3>6
      <3>8. HasOrigin(x)
        BY <2>1, <3>5, <3>7 DEF HasOrigin
      <3> QED BY <2>2, <2>3, <3>8
    <2> QED BY <1>3, <2>4, <2>5, <2>6
  <1> QED BY <1>1, <1>2, <1>3

(***************************************************************************)
(* Processes that have ended have an origin among them.  If a set of them  *)
(* gains the one that ends now, its partner is in the set already, and     *)
(* what the set was before has an origin.                                  *)
(***************************************************************************)
LEMMA FailuresNext ==
    ASSUME TypeInv, SetUp, Framing, Placed, FailuresHaveOrigin, Next, TypeInv'
    PROVE  FailuresHaveOrigin'
  <1> SUFFICES ASSUME NEW S \in SUBSET (Node \ up'), S # {}, Isolated(S)'
               PROVE  \E n \in S : HasOrigin(n)'
    BY DEF FailuresHaveOrigin
  <1>1. up \subseteq Node
    BY DEF TypeInv, TypeOK
  <1>2. ASSUME NEW T \in SUBSET (Node \ up), T # {}, T \subseteq S,
               \A m \in (Node \ up) \ T : m \in (Node \ up') \ S
        PROVE  \E n \in S : HasOrigin(n)'
    <2>1. Isolated(T)
      <3> SUFFICES ASSUME NEW n \in T, NEW m \in (Node \ up) \ T, NEW c \in Conn,
                          Joins(c, n, m)
                   PROVE  FALSE
        BY DEF Isolated
      <3>1. Joins(c, n, m)'
        BY JoinsStays
      <3>2. n \in S /\ m \in (Node \ up') \ S
        BY <1>2
      <3> QED BY <3>1, <3>2 DEF Isolated
    <2>2. PICK n \in T : HasOrigin(n)
      BY <1>2, <2>1 DEF FailuresHaveOrigin
    <2> QED BY <1>2, <2>2, OriginStays
  <1>3. CASE up' = up
    BY <1>2, <1>3
  <1>4. CASE up' # up
    <2>1. PICK x \in up : up' = up \ {x} /\ EndsFor(x)
      BY <1>4, HowProcessesEnd
    <2>2. CASE x \notin S
      BY <1>1, <1>2, <2>1, <2>2
    <2>3. CASE x \in S /\ HasOrigin(x)'
      BY <2>3
    <2>4. ASSUME x \in S, NEW m \in Node \ up, NEW c \in Conn, Joins(c, x, m)
          PROVE  \E n \in S : HasOrigin(n)'
      <3>1. Joins(c, x, m)'
        BY <1>1, <2>4, JoinsStays
      <3>2. m \in S \ {x}
        BY <2>1, <2>4, <3>1 DEF Isolated
      <3>3. S \ {x} \in SUBSET (Node \ up)
        BY <1>1, <2>1
      <3>4. \A k \in (Node \ up) \ (S \ {x}) : k \in (Node \ up') \ S
        BY <2>1
      <3> QED BY <1>2, <3>2, <3>3, <3>4
    <2> QED BY <2>1, <2>2, <2>3, <2>4 DEF EndsFor
  <1> QED BY <1>3, <1>4

-----------------------------------------------------------------------------
(***************************************************************************)
(* The theorems.                                                           *)
(***************************************************************************)
LEMMA InitIInv == Init => IInv
  <1> SUFFICES ASSUME Init
               PROVE  IInv
    OBVIOUS
  <1>1. Filled
    BY DEF Init, Filled, FilledAt, Idle
  <1>2. Queued
    BY DEF Init, Queued, Received
  <1>3. FreshRead /\ OverwrittenByLaterFrame
    BY DEF Init, FreshRead, OverwrittenByLaterFrame
  <1>4. Placed /\ FailuresHaveOrigin
    <2>1. \A c \in Conn : \A n \in Node : reader[<<c, n>>].step = "none"
      BY DEF Init, Reader, Idle
    <2>2. faults = {} /\ Node \ up = {}
      BY DEF Init
    <2> QED BY <2>1, <2>2 DEF Placed, FailuresHaveOrigin
  <1> QED BY <1>1, <1>2, <1>3, <1>4, TypeInit, SetUpInit, FramingInit DEF IInv

LEMMA StutterIInv ==
    ASSUME IInv, UNCHANGED vars
    PROVE  IInv'
  <1> USE DEF IInv, vars
  <1>1. TypeInv'
    BY DEF TypeInv, TypeOK
  <1>2. SetUp'
    BY SetUpKept DEF dialed
  <1>3. Framing' /\ Filled'
    BY FramedKept, FilledKept DEF Framing, Filled
  <1>4. Queued'
    <2>1. \A n \in Node : Received(n)' = Received(n)
      BY DEF Received
    <2>2. ASSUME NEW n \in Node, NEW rpc, Genuine(n, rpc)
          PROVE  Genuine(n, rpc)'
      BY <2>2 DEF Genuine, Used, Answerable, IsConnected, Peer
    <2> QED BY <2>1, <2>2 DEF Queued
  <1>5. FreshRead' /\ OverwrittenByLaterFrame' /\ Placed'
    BY DEF FreshRead, OverwrittenByLaterFrame, Placed, Used
  <1>6. FailuresHaveOrigin'
    BY DEF FailuresHaveOrigin, Isolated, Joins, HasOrigin, Lost_
  <1> QED BY <1>1, <1>2, <1>3, <1>4, <1>5, <1>6

LEMMA NextIInv ==
    ASSUME IInv, Next
    PROVE  IInv'
  <1>1. TypeInv'
    BY TypeConnect, TypeNode, TypeReader, TypeStrikes DEF IInv, Next, Strikes
  <1>2. SetUp' /\ Framing' /\ Filled'
    BY SetUpNext, FramingNext, FilledNext DEF IInv
  <1>3. Queued' /\ Placed' /\ FailuresHaveOrigin'
    BY <1>1, QueuedNext, PlacedNext, FailuresNext DEF IInv
  <1>4. FreshRead' /\ OverwrittenByLaterFrame'
    BY <1>1, ReadsNext
  <1> QED BY <1>1, <1>2, <1>3, <1>4 DEF IInv

(* The inductive invariant holds in every reachable state. *)
THEOREM Inductive == Spec => []IInv
  <1>1. IInv /\ [Next]_vars => IInv'
    BY NextIInv, StutterIInv
  <1> QED BY InitIInv, <1>1, PTL DEF Spec

(* TypeOK, for any sizes and numbers: in particular no address of a table ever
   stands for two connections. *)
THEOREM TypeCorrect == Spec => []TypeOK
  <1>1. IInv => TypeOK
    BY DEF IInv, TypeInv
  <1> QED BY <1>1, Inductive, PTL

(* InOrder: however read() finds the stream cut, as long as the prefixes are
   whole the k-th message a reader puts into the channel is the k-th that was
   written, with its sender's name. *)
THEOREM FramesInOrder == Spec => []InOrder
  <1>1. IInv => InOrder
    BY DEF IInv, Queued, Genuine, InOrder
  <1> QED BY <1>1, Inductive, PTL

(* OverwrittenByLaterFrame: the slice that decodeEnvelope hands out is spoilt by
   nobody but the reader it came from, and only by a later frame. *)
THEOREM OnlyLaterFramesOverwrite == Spec => []OverwrittenByLaterFrame
  <1>1. IInv => OverwrittenByLaterFrame
    BY DEF IInv
  <1> QED BY <1>1, Inductive, PTL

(* CanAnswer: Connect and listen have entered the connection into the table
   before a message of it is in the channel. *)
THEOREM AnswerReachesPeer == Spec => []CanAnswer
  <1>1. IInv => CanAnswer
    BY DEF IInv, Queued, Genuine, CanAnswer, Answerable
  <1> QED BY <1>1, Inductive, PTL

(* FailuresHaveOrigin: the end of a process, ordinary or not, goes from partner
   to partner, and whoever ended is joined, over partners that have ended too, to
   one that exited, whose connection broke, whose reader met a cut prefix, or that
   was sent a message longer than its buffer. *)
THEOREM NoFailureWithoutOrigin == Spec => []FailuresHaveOrigin
  <1>1. IInv => FailuresHaveOrigin
    BY DEF IInv
  <1> QED BY <1>1, Inductive, PTL
=============================================================================
