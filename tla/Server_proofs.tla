--------------------------- MODULE Server_proofs ---------------------------
(***************************************************************************)
(* Proofs about modules LocalTransport and Server, for any number of peers *)
(* and goroutines, channels of any capacity and any script of the program  *)
(* around the server.                                                      *)
(***************************************************************************)
EXTENDS Server, FiniteSetTheorems, TLAPS

(***************************************************************************)
(* The read locks held.  A call that changes from c to d changes their     *)
(* number by what d holds more than c.                                     *)
(***************************************************************************)
LEMMA HeldType ==
    ASSUME NEW c \in Call
    PROVE  Held(c) \in 0..2
  BY DEF Held, Call

LEMMA ReadLocksFinite ==
    ASSUME NEW calls
    PROVE  IsFiniteSet(ReadLocks(calls))
  <1>1. IsFiniteSet(Proc)
    BY TransportAssumption
  <1>2. IsFiniteSet({1, 2})
    <2>1. IsFiniteSet({1} \union {2})
      BY FS_Singleton, FS_AddElement
    <2>2. {1} \union {2} = {1, 2}
      OBVIOUS
    <2> QED BY <2>1, <2>2
  <1>3. IsFiniteSet(Proc \X {1, 2})
    BY <1>1, <1>2, FS_Product
  <1> QED BY <1>3, FS_Subset DEF ReadLocks

LEMMA OthersAndMine ==
    ASSUME NEW calls \in [Proc -> Call], NEW g \in Proc
    PROVE  Cardinality(ReadLocks(calls)) =
              Cardinality({l \in ReadLocks(calls) : l[1] # g}) + Held(calls[g])
  <1> DEFINE R == ReadLocks(calls)
             O == {l \in R : l[1] # g}
  <1>1. IsFiniteSet(R) /\ IsFiniteSet(O)
    BY ReadLocksFinite, FS_Subset
  <1>2. Held(calls[g]) \in 0..2
    BY HeldType
  <1>3. R = O \union {l \in {g} \X {1, 2} : l[2] <= Held(calls[g])}
    BY DEF ReadLocks
  <1>4. <<g, 1>> \notin O /\ <<g, 2>> \notin O /\ <<g, 1>> # <<g, 2>>
    OBVIOUS
  <1>5. Cardinality(O) \in Nat
    BY <1>1, FS_CardinalityType
  <1>6. CASE Held(calls[g]) = 0
    <2>1. R = O
      BY <1>3, <1>6
    <2> HIDE DEF R, O
    <2>2. Cardinality(R) = Cardinality(O) + 0
      BY <1>5, <2>1
    <2> QED BY <1>6, <2>2 DEF R, O
  <1>7. CASE Held(calls[g]) = 1
    <2>1. R = O \union {<<g, 1>>}
      BY <1>3, <1>7
    <2> HIDE DEF R, O
    <2>2. Cardinality(R) = Cardinality(O) + 1
      BY <1>1, <1>4, <2>1, FS_AddElement
    <2> QED BY <1>7, <2>2 DEF R, O
  <1>8. CASE Held(calls[g]) = 2
    <2> DEFINE P == O \union {<<g, 1>>}
    <2>1. R = P \union {<<g, 2>>}
      BY <1>3, <1>8
    <2>2. <<g, 2>> \notin P
      BY <1>4
    <2> HIDE DEF R, O
    <2>3. IsFiniteSet(P) /\ Cardinality(P) = Cardinality(O) + 1
      BY <1>1, <1>4, FS_AddElement
    <2> HIDE DEF P
    <2>4. Cardinality(R) = Cardinality(P) + 1
      BY <2>1, <2>2, <2>3, FS_AddElement
    <2> QED BY <1>5, <1>8, <2>3, <2>4 DEF R, O
  <1> QED BY <1>2, <1>6, <1>7, <1>8

LEMMA LocksCounted ==
    ASSUME NEW calls \in [Proc -> Call], NEW g \in Proc, NEW c \in Call
    PROVE  Cardinality(ReadLocks([calls EXCEPT ![g] = c]))
              = Cardinality(ReadLocks(calls)) + Held(c) - Held(calls[g])
  <1> DEFINE after == [calls EXCEPT ![g] = c]
  <1>1. after \in [Proc -> Call] /\ after[g] = c /\ \A h \in Proc \ {g} : after[h] = calls[h]
    OBVIOUS
  <1> HIDE DEF after
  <1>2. {l \in ReadLocks(after) : l[1] # g} = {l \in ReadLocks(calls) : l[1] # g}
    BY <1>1 DEF ReadLocks
  <1>3. Cardinality({l \in ReadLocks(calls) : l[1] # g}) \in Nat
    BY ReadLocksFinite, FS_Subset, FS_CardinalityType
  <1>4. Held(c) \in 0..2 /\ Held(calls[g]) \in 0..2
    BY HeldType
  <1>5. Cardinality(ReadLocks(after)) = Cardinality({l \in ReadLocks(calls) : l[1] # g}) + Held(c)
    BY <1>1, <1>2, OthersAndMine
  <1>6. Cardinality(ReadLocks(calls))
           = Cardinality({l \in ReadLocks(calls) : l[1] # g}) + Held(calls[g])
    BY OthersAndMine
  <1> QED BY <1>3, <1>4, <1>5, <1>6 DEF after

(***************************************************************************)
(* A goroutine that holds a read lock is counted.                          *)
(***************************************************************************)
LEMMA HolderCounted ==
    ASSUME NEW calls \in [Proc -> Call], NEW g \in Proc
    PROVE  Cardinality(ReadLocks(calls)) \in Nat
           /\ Cardinality(ReadLocks(calls)) >= Held(calls[g])
  <1>1. Cardinality({l \in ReadLocks(calls) : l[1] # g}) \in Nat
    BY ReadLocksFinite, FS_Subset, FS_CardinalityType
  <1>2. Held(calls[g]) \in 0..2
    BY HeldType
  <1> QED BY <1>1, <1>2, OthersAndMine

-----------------------------------------------------------------------------
(***************************************************************************)
(* The transport: the type of its variables, the balance of its locks, and *)
(* what a call is like at its steps.  A Send is to one of the peers it has *)
(* yet to serve, only a Broadcast goes over the peers, and as no peer ever *)
(* leaves the table each of its Sends finds the one it is for.             *)
(***************************************************************************)
WellMade(c) ==
    /\ c.step = "put" => c.to \in c.todo
    /\ c.step = "range" => c.outer

Known(c, table) == c.outer /\ c.step \in {"send", "put"} => c.todo \subseteq table

TransportInv ==
    /\ TransportTypeOK
    /\ LocksBalanced
    /\ \A g \in Proc : WellMade(call[g]) /\ Known(call[g], peers)

(* A call that begins holds no lock yet. *)
Fresh(c) == c \in Call /\ WellMade(c) /\ Held(c) = 0 /\ c.step \notin {"put", "add"}

LEMMA FreshCalls ==
    /\ Fresh(NoCall) /\ Fresh(Broadcast)
    /\ \A p \in Peer : Fresh(Send(p)) /\ Fresh(Connect(p))
  <1>1. Fresh(NoCall)
    BY DEF NoCall, Fresh, WellMade, Call, Held
  <1>2. Fresh(Broadcast)
    BY DEF Broadcast, Fresh, WellMade, Call, Held
  <1>3. ASSUME NEW p \in Peer PROVE Fresh(Send(p)) /\ Fresh(Connect(p))
    BY DEF Send, Connect, Fresh, WellMade, Call, Held
  <1> QED BY <1>1, <1>2, <1>3

LEMMA BeginKeeps ==
    ASSUME TransportInv, NEW g \in Proc, NEW c, Fresh(c), Idle(g), Begin(g, c),
           UNCHANGED <<peers, readers, writer, full, gone, jammed>>
    PROVE  TransportInv'
  <1>1. call \in [Proc -> Call] /\ c \in Call
    BY DEF TransportInv, TransportTypeOK, Fresh
  <1>2. call' \in [Proc -> Call] /\ call'[g] = c /\ \A h \in Proc \ {g} : call'[h] = call[h]
    BY <1>1 DEF Begin
  <1>3. TransportTypeOK'
    BY <1>2 DEF TransportInv, TransportTypeOK
  <1>4. Held(call[g]) = 0 /\ Held(c) = 0
    BY DEF Idle, Held, Fresh
  <1>5. Cardinality(ReadLocks(call')) = Cardinality(ReadLocks(call)) + 0 - 0
    BY <1>1, <1>4, LocksCounted DEF Begin
  <1>6. Cardinality(ReadLocks(call)) \in Nat
    BY <1>1, HolderCounted
  <1>7. LocksBalanced'
    <2>1. readers' = Cardinality(ReadLocks(call'))
      BY <1>5, <1>6 DEF TransportInv, LocksBalanced
    <2>2. writer # None => writer \in Proc \ {g} /\ call[writer].step = "add"
      BY DEF TransportInv, TransportTypeOK, LocksBalanced, Idle
    <2> QED BY <1>2, <2>1, <2>2 DEF LocksBalanced
  <1>8. \A h \in Proc : WellMade(call'[h]) /\ Known(call'[h], peers')
    BY <1>2, <1>4 DEF TransportInv, Fresh, Known, Held
  <1> QED BY <1>3, <1>7, <1>8 DEF TransportInv

LEMMA StepKeeps ==
    ASSUME TransportInv, NEW g \in Proc, NEW c \in Call, Begin(g, c),
           WellMade(c), Known(c, peers'), peers \subseteq peers', peers' \in SUBSET Peer,
           full' \in [Peer -> 0..Cap], gone' \in SUBSET Peer,
           jammed' \in SUBSET Peer,
           readers' = readers + Held(c) - Held(call[g]),
           writer' \in {writer, g, None}, 
           writer' = writer => writer # g \/ c.step = "add",
           writer' = g => c.step = "add"
    PROVE  TransportInv'
  <1>1. call \in [Proc -> Call] /\ None \notin Proc
    BY TransportAssumption DEF TransportInv, TransportTypeOK
  <1>2. call' \in [Proc -> Call] /\ call'[g] = c /\ \A h \in Proc \ {g} : call'[h] = call[h]
    BY <1>1 DEF Begin
  <1>3. readers' = Cardinality(ReadLocks(call')) /\ readers' \in Nat
    <2>1. Cardinality(ReadLocks(call'))
             = Cardinality(ReadLocks(call)) + Held(c) - Held(call[g])
      BY <1>1, LocksCounted DEF Begin
    <2>2. Cardinality(ReadLocks(call')) \in Nat
      BY <1>2, HolderCounted
    <2> QED BY <2>1, <2>2 DEF TransportInv, LocksBalanced
  <1>4. writer' # None => writer' \in Proc /\ call'[writer'].step = "add"
    BY <1>1, <1>2 DEF TransportInv, TransportTypeOK, LocksBalanced
  <1>5. TransportTypeOK'
    BY <1>2, <1>3, <1>4 DEF TransportInv, TransportTypeOK
  <1>6. \A h \in Proc : WellMade(call'[h]) /\ Known(call'[h], peers')
    BY <1>2 DEF TransportInv, Known
  <1> QED BY <1>3, <1>4, <1>5, <1>6 DEF TransportInv, LocksBalanced

(***************************************************************************)
(* The record a call goes on with, and the read locks it then holds.       *)
(***************************************************************************)
LEMMA GoesOn ==
    ASSUME NEW g \in Proc, NEW d \in Call, d.outer = call[g].outer,
           d.step \in {"send", "put", "lock", "add", "peer", "isConnected"},
           d.step = "put" => d.to \in d.todo
    PROVE  /\ WellMade(d)
           /\ Held(d) = IF d.step = "put" THEN Outer(g) + 1
                        ELSE IF d.step = "send" THEN Outer(g) ELSE 0
  BY DEF Call, Held, Outer, WellMade

LEMMA CallStepKeeps ==
    ASSUME TransportInv, NEW g \in Proc, CallStep(g)
    PROVE  TransportInv'
  <1> DEFINE c == call[g]
  <1>1. /\ call \in [Proc -> Call] /\ c \in Call
        /\ c.todo \in SUBSET Peer /\ c.to \in Peer \union {None}
        /\ full \in [Peer -> 0..Cap] /\ peers \in SUBSET Peer /\ gone \in SUBSET Peer
        /\ jammed \in SUBSET Peer
        /\ readers \in Nat /\ WellMade(c) /\ Known(c, peers)
        /\ writer # None => call[writer].step = "add"
    BY DEF TransportInv, TransportTypeOK, LocksBalanced, Call
  <1>2. /\ Outer(g) \in {0, 1}
        /\ Held(c) = IF c.step = "put" THEN Outer(g) + 1
                     ELSE IF c.step = "send" THEN Outer(g) ELSE 0
    BY DEF Held, Outer
  <1>3. writer = g => c.step = "add"
    BY <1>1, TransportAssumption
  <1>4. Cap \in Nat \ {0}
    BY TransportAssumption
  <1>5. CASE Range_(g)
    <2>1. CASE Begin(g, NoCall) /\ UNCHANGED readers
      <3>1. c.step # "add" /\ Held(c) = 0 /\ Known(NoCall, peers)
        BY <1>2, <1>5 DEF Range_, Known, NoCall
      <3>2. readers' = readers + Held(NoCall) - Held(c)
        BY <1>1, <2>1, <3>1, FreshCalls DEF Fresh
      <3> QED BY <1>1, <1>3, <1>5, <2>1, <3>1, <3>2, FreshCalls, StepKeeps DEF Range_, Fresh
    <2>2. CASE Begin(g, [c EXCEPT !.step = "send", !.todo = peers]) /\ readers' = readers + 1
      <3> DEFINE d == [c EXCEPT !.step = "send", !.todo = peers]
      <3>1. d \in Call /\ d.step = "send" /\ d.outer = c.outer
        BY <1>1 DEF Call
      <3>2. Outer(g) = 1
        BY <1>1, <1>5 DEF Range_, WellMade, Outer
      <3>0. d.todo = peers
        BY <1>1 DEF Call
      <3> HIDE DEF d
      <3>3. WellMade(d) /\ Held(d) = 1 /\ Known(d, peers)
        BY <3>0, <3>1, <3>2, GoesOn DEF Known
      <3>4. c.step # "add" /\ Held(c) = 0
        BY <1>2, <1>5 DEF Range_
      <3>5. Begin(g, d)
        BY <2>2 DEF d
      <3> QED BY <1>1, <1>3, <1>5, <2>2, <3>1, <3>3, <3>4, <3>5, StepKeeps DEF Range_
    <2> QED BY <1>5, <2>1, <2>2 DEF Range_
  <1>6. CASE EnterSend(g)
    <2>1. PICK p \in c.todo :
             \/ /\ p \in peers
                /\ Begin(g, [c EXCEPT !.step = "put", !.to = p])
                /\ readers' = readers + 1
             \/ /\ p \notin peers
                /\ Begin(g, NoCall)
                /\ UNCHANGED readers
      BY <1>6 DEF EnterSend
    <2>2. CASE Begin(g, [c EXCEPT !.step = "put", !.to = p]) /\ readers' = readers + 1
      <3> DEFINE d == [c EXCEPT !.step = "put", !.to = p]
      <3>1. /\ d \in Call /\ d.step = "put" /\ d.outer = c.outer
            /\ d.todo = c.todo /\ d.to \in d.todo
        BY <1>1, <2>1 DEF Call
      <3> HIDE DEF d
      <3>2. WellMade(d) /\ Held(d) = Outer(g) + 1 /\ Known(d, peers)
        BY <1>1, <1>6, <3>1, GoesOn DEF Known, EnterSend
      <3>3. c.step # "add" /\ Held(c) = Outer(g)
        BY <1>2, <1>6 DEF EnterSend
      <3>4. Begin(g, d)
        BY <2>2 DEF d
      <3>5. readers' = readers + Held(d) - Held(c)
        BY <1>1, <1>2, <2>2, <3>2, <3>3
      <3> QED BY <1>1, <1>3, <1>6, <3>1, <3>2, <3>3, <3>4, <3>5, StepKeeps DEF EnterSend
    <2>3. CASE p \notin peers /\ Begin(g, NoCall) /\ UNCHANGED readers
      <3>1. ~c.outer
        BY <1>1, <1>6, <2>1, <2>3 DEF Known, EnterSend
      <3>2. c.step # "add" /\ Held(c) = 0
        BY <1>2, <1>6, <3>1 DEF EnterSend, Outer
      <3>3. readers' = readers + Held(NoCall) - Held(c)
        BY <1>1, <2>3, <3>2, FreshCalls DEF Fresh
      <3>4. Known(NoCall, peers)
        BY DEF Known, NoCall
      <3> QED BY <1>1, <1>3, <1>6, <2>3, <3>2, <3>3, <3>4, FreshCalls,
      StepKeeps DEF EnterSend, Fresh
    <2> QED BY <2>1, <2>2, <2>3
  <1>7. CASE Put(g)
    <2> DEFINE left == c.todo \ {c.to}
               d == [c EXCEPT !.step = "send", !.todo = left]
    <2>1. c.to \in Peer /\ c.step = "put" /\ Held(c) = Outer(g) + 1
      BY <1>1, <1>2, <1>7 DEF Put, WellMade
    <2>2. full' \in [Peer -> 0..Cap]
      BY <1>1, <1>4, <1>7, <2>1 DEF Put
    <2>3. CASE Begin(g, NoCall) /\ readers' = readers - 1 - Outer(g)
      <3>1. readers' = readers + Held(NoCall) - Held(c)
        BY <1>1, <1>2, <2>1, <2>3, FreshCalls DEF Fresh
      <3>2. Known(NoCall, peers)
        BY DEF Known, NoCall
      <3> QED BY <1>1, <1>3, <1>7, <2>1, <2>2, <2>3, <3>1, <3>2, FreshCalls, StepKeeps
              DEF Put, Fresh
    <2>4. CASE Begin(g, d) /\ readers' = readers - 1
      <3>1. /\ d \in Call /\ d.step = "send" /\ d.outer = c.outer
            /\ d.todo = left
        BY <1>1 DEF Call
      <3> HIDE DEF d
      <3>2. WellMade(d) /\ Held(d) = Outer(g) /\ Known(d, peers)
        BY <1>1, <2>1, <3>1, GoesOn DEF Known
      <3>3. readers' = readers + Held(d) - Held(c)
        BY <1>1, <1>2, <2>1, <2>4, <3>2
      <3> QED BY <1>1, <1>3, <1>7, <2>1, <2>2, <2>4, <3>1, <3>2, <3>3, StepKeeps DEF Put
    <2> QED BY <1>7, <2>3, <2>4 DEF Put
  <1>8. CASE CheckConnected(g)
    <2>1. c.step # "add" /\ Held(c) = 0
      BY <1>2, <1>8 DEF CheckConnected
    <2>2. CASE Begin(g, NoCall)
      <3>1. readers' = readers + Held(NoCall) - Held(c)
        BY <1>1, <1>8, <2>1, FreshCalls DEF CheckConnected, Fresh
      <3>2. Known(NoCall, peers)
        BY DEF Known, NoCall
      <3> QED BY <1>1, <1>3, <1>8, <2>1, <2>2, <3>1, <3>2, FreshCalls, StepKeeps
              DEF CheckConnected, Fresh
    <2>3. CASE Begin(g, [c EXCEPT !.step = "lock"])
      <3> DEFINE d == [c EXCEPT !.step = "lock"]
      <3>1. d \in Call /\ d.step = "lock" /\ d.outer = c.outer
        BY <1>1 DEF Call
      <3>2. Begin(g, d)
        BY <2>3
      <3> HIDE DEF d
      <3>3. WellMade(d) /\ Held(d) = 0 /\ Known(d, peers)
        BY <3>1, GoesOn DEF Known
      <3>4. readers' = readers + Held(d) - Held(c)
        BY <1>1, <1>8, <2>1, <3>3 DEF CheckConnected
      <3> QED BY <1>1, <1>3, <1>8, <2>1, <3>1, <3>2, <3>3, <3>4, StepKeeps DEF CheckConnected
    <2> QED BY <1>8, <2>2, <2>3 DEF CheckConnected
  <1>9. CASE Lock(g)
    <2> DEFINE d == [c EXCEPT !.step = "add"]
    <2>1. d \in Call /\ d.step = "add" /\ d.outer = c.outer
      BY <1>1 DEF Call
    <2>2. Begin(g, d) /\ c.step = "lock" /\ writer' = g
      BY <1>9 DEF Lock
    <2> HIDE DEF d
    <2>3. WellMade(d) /\ Held(d) = 0 /\ Known(d, peers)
      BY <2>1, GoesOn DEF Known
    <2>4. readers' = readers + Held(d) - Held(c)
      BY <1>1, <1>2, <1>9, <2>2, <2>3 DEF Lock
    <2> QED BY <1>1, <1>9, <2>1, <2>2, <2>3, <2>4, StepKeeps DEF Lock
  <1>10. CASE AddPeer(g)
    <2> DEFINE d == [c EXCEPT !.step = "peer"]
    <2>1. d \in Call /\ d.step = "peer" /\ d.outer = c.outer
      BY <1>1 DEF Call
    <2>2. Begin(g, d) /\ c.step = "add" /\ writer' = None /\ peers' = peers \union c.todo
      BY <1>10 DEF AddPeer
    <2> HIDE DEF d
    <2>3. WellMade(d) /\ Held(d) = 0 /\ Known(d, peers')
      BY <2>1, GoesOn DEF Known
    <2>4. readers' = readers + Held(d) - Held(c)
      BY <1>1, <1>2, <1>10, <2>2, <2>3 DEF AddPeer
    <2>5. writer' = writer => writer # g
      BY <2>2, TransportAssumption
    <2>6. g # None
      BY TransportAssumption
    <2> QED BY <1>1, <1>10, <2>1, <2>2, <2>3, <2>4, <2>5, <2>6, StepKeeps DEF AddPeer
  <1>11. CASE ConnectPeer(g)
    <2>1. c.step # "add" /\ Held(c) = 0
      BY <1>2, <1>11 DEF ConnectPeer
    <2>2. CASE Begin(g, NoCall)
      <3>1. readers' = readers + Held(NoCall) - Held(c)
        BY <1>1, <1>11, <2>1, FreshCalls DEF ConnectPeer, Fresh
      <3>2. Known(NoCall, peers)
        BY DEF Known, NoCall
      <3> QED BY <1>1, <1>3, <1>11, <2>1, <2>2, <3>1, <3>2, FreshCalls, StepKeeps
              DEF ConnectPeer, Fresh
    <2>3. CASE Begin(g, [c EXCEPT !.step = "isConnected"])
      <3> DEFINE d == [c EXCEPT !.step = "isConnected"]
      <3>1. d \in Call /\ d.step = "isConnected" /\ d.outer = c.outer
        BY <1>1 DEF Call
      <3>2. Begin(g, d)
        BY <2>3
      <3> HIDE DEF d
      <3>3. WellMade(d) /\ Held(d) = 0 /\ Known(d, peers)
        BY <3>1, GoesOn DEF Known
      <3>4. readers' = readers + Held(d) - Held(c)
        BY <1>1, <1>11, <2>1, <3>3 DEF ConnectPeer
      <3> QED BY <1>1, <1>3, <1>11, <2>1, <3>1, <3>2, <3>3, <3>4, StepKeeps DEF ConnectPeer
    <2> QED BY <1>11, <2>2, <2>3 DEF ConnectPeer
  <1> QED BY <1>5, <1>6, <1>7, <1>8, <1>9, <1>10, <1>11 DEF CallStep

LEMMA PeerKeeps ==
    ASSUME TransportInv, NEW p \in Peer, Drain(p) \/ Leave(p) \/ Jam(p)
    PROVE  TransportInv'
  <1>1. /\ full \in [Peer -> 0..Cap] /\ gone \in SUBSET Peer /\ jammed \in SUBSET Peer
        /\ Cap \in Nat
        /\ Stops \subseteq Peer
    BY TransportAssumption DEF TransportInv, TransportTypeOK
  <1>2. UNCHANGED <<peers, readers, writer, call>>
    BY DEF Drain, Leave, Jam
  <1>3. full' \in [Peer -> 0..Cap] /\ gone' \in SUBSET Peer /\ jammed' \in SUBSET Peer
    BY <1>1 DEF Drain, Leave, Jam
  <1> QED BY <1>2, <1>3 DEF TransportInv, TransportTypeOK, LocksBalanced

-----------------------------------------------------------------------------
(***************************************************************************)
(* The server: the rpc loop is in no call of the transport while it has    *)
(* something else to do, Start waits for the loops only when the context   *)
(* is cancelled, and returns when both have ended.                         *)
(***************************************************************************)
LoopInv ==
    /\ rpc \in {"select", "get", "report", "ended"}
    /\ val \in {"select", "report", "ended"}
    /\ start \in {"loop", "wait", "returned"}
    /\ errs \in 0..1
    /\ done \in BOOLEAN
    /\ main \in 0..Len(Script)
    /\ rpc # "select" => Idle("rpc")
    /\ rpc = "ended" \/ start # "loop" => done
    /\ start = "returned" => rpc = "ended" /\ val = "ended"

IInv == TransportInv /\ LoopInv

LEMMA Actors == Cast \subseteq Proc /\ "rpc" \in Proc /\ "main" \in Proc
                /\ "rpc" # "main" /\ "rpc" \notin Cast /\ "main" \notin Cast
  BY ServerAssumption

LEMMA ScriptCalls ==
    /\ Len(Script) \in Nat
    /\ \A i \in 1..Len(Script) : Fresh(Script[i])
  <1>1. Script \in Seq({Broadcast} \union {Send(p) : p \in Peer} \union {Connect(p) : p \in Peer})
    BY ServerAssumption
  <1>2. \A i \in 1..Len(Script) :
           \/ Script[i] = Broadcast
           \/ \E p \in Peer : Script[i] = Send(p) \/ Script[i] = Connect(p)
    BY <1>1
  <1> QED BY <1>1, <1>2, FreshCalls

(***************************************************************************)
(* What the handlers do to the transport: nothing, or a call begins that   *)
(* had none.                                                               *)
(***************************************************************************)
Starts(g) ==
    /\ Idle(g)
    /\ \E c : Fresh(c) /\ Begin(g, c)
    /\ UNCHANGED <<peers, readers, writer, full, gone, jammed>>

LEMMA StartsKeeps ==
    ASSUME TransportInv, NEW g \in Proc, Starts(g)
    PROVE  TransportInv'
  BY BeginKeeps DEF Starts

LEMMA OtherIdle ==
    ASSUME TransportInv, NEW g \in Proc, NEW h \in Proc, g # h, Idle(h), 
           Starts(g) \/ CallStep(g)
    PROVE  Idle(h)'
  <1>1. call \in [Proc -> Call]
    BY DEF TransportInv, TransportTypeOK
  <1>2. \E c : Begin(g, c)
    BY DEF Starts, CallStep, Range_, EnterSend, Put, CheckConnected, Lock, AddPeer, ConnectPeer
  <1> QED BY <1>1, <1>2 DEF Begin, Idle

LEMMA GoStarts ==
    ASSUME Go
    PROVE  \E g \in Cast : Starts(g)
  BY FreshCalls DEF Go, Starts

LEMMA HandleStarts ==
    ASSUME Handle
    PROVE  /\ Selecting
           /\ UNCHANGED <<val, start, errs, done, main>>
           /\ \/ UNCHANGED transport /\ rpc' \in {"select", "get", "report"}
              \/ rpc' = "select" /\ \E g \in Cast \union {"rpc"} : Starts(g)
  <1> USE DEF Selecting
  <1>1. Selecting /\ UNCHANGED <<val, start, errs, done, main>>
    BY DEF Handle
  <1>2. CASE HandleInvalid \/ HandleSubscribe \/ HandleGetBlocksResponse
    BY <1>1, <1>2 DEF HandleInvalid, HandleSubscribe, HandleGetBlocksResponse, Report
  <1>3. CASE HandleTransaction \/ HandlePutTransaction
    BY <1>1, <1>3, GoStarts DEF HandleTransaction, HandlePutTransaction, Report
  <1>4. CASE HandleBlock
    BY <1>1, <1>4, GoStarts, FreshCalls DEF HandleBlock, Report, Calls, Starts
  <1>5. CASE \E p \in Peer : HandleGetBlocksRequest(p)
    BY <1>1, <1>5, FreshCalls DEF HandleGetBlocksRequest, Report, Calls, Starts
  <1>6. CASE HandleStatusMessage
    BY <1>1, <1>6, FreshCalls DEF HandleStatusMessage, Calls, Starts
  <1> QED BY <1>1, <1>2, <1>3, <1>4, <1>5, <1>6 DEF Handle

LEMMA InitInv == Init => IInv
  <1> SUFFICES ASSUME Init PROVE IInv
    OBVIOUS
  <1>1. call = [g \in Proc |-> NoCall] /\ readers = 0 /\ writer = None
    BY DEF Init, InitTransport
  <1>2. call \in [Proc -> Call] /\ \A g \in Proc : Held(call[g]) = 0
    BY <1>1, FreshCalls DEF Fresh
  <1>3. ReadLocks(call) = {}
    BY <1>2 DEF ReadLocks
  <1>4. LocksBalanced
    BY <1>1, <1>3, FS_EmptySet DEF LocksBalanced
  <1>5. \A g \in Proc : WellMade(call[g]) /\ Known(call[g], peers)
    BY <1>1 DEF WellMade, Known, NoCall
  <1>6. TransportTypeOK
    BY <1>2, TransportAssumption DEF Init, InitTransport, TransportTypeOK
  <1>7. LoopInv
    <2>1. Len(Script) \in Nat
      BY ScriptCalls
    <2>2. main \in 0..Len(Script) /\ errs \in 0..1
      BY <2>1 DEF Init
    <2> QED BY <2>2 DEF Init, LoopInv
  <1> QED BY <1>4, <1>5, <1>6, <1>7 DEF IInv, TransportInv

LEMMA TransportNext ==
    ASSUME IInv, Next
    PROVE  \/ UNCHANGED transport
           \/ \E g \in Proc : /\ Starts(g)
                              /\ g \in Cast => rpc = "select" \/ val = "select"
           \/ \E g \in Proc : CallStep(g)
           \/ \E p \in Peer : Drain(p) \/ Leave(p) \/ Jam(p)
  <1>1. CASE Handle
    BY <1>1, HandleStarts, Actors DEF Selecting
  <1>2. CASE GetPipe
    <2>1. PICK p \in Peer : \/ UNCHANGED transport
                            \/ UNCHANGED <<peers, readers, writer, full, gone, jammed, call>>
                            \/ /\ Begin("rpc", Send(p))
                               /\ UNCHANGED <<peers, readers, writer, full, gone, jammed>>
      BY <1>2 DEF GetPipe, Report
    <2>2. CASE UNCHANGED transport \/ UNCHANGED <<peers, readers, writer, full, gone, jammed, call>>
      BY <2>2 DEF transport
    <2>3. CASE Begin("rpc", Send(p)) /\ UNCHANGED <<peers, readers, writer, full, gone, jammed>>
      <3>1. Starts("rpc")
        BY <1>2, <2>3, FreshCalls DEF GetPipe, Starts, IInv, LoopInv
      <3> QED BY <3>1, Actors
    <2> QED BY <2>1, <2>2, <2>3
  <1>3. CASE ReportRpc \/ EndRpc \/ ReportVal \/ EndVal \/ TakeError \/ EndErrorLoop
             \/ Return \/ Cancel
    BY <1>3 DEF ReportRpc, EndRpc, ReportVal, EndVal, TakeError, EndErrorLoop, Return, Cancel
  <1>4. CASE CreateNewBlock
    BY <1>4, GoStarts, Actors DEF CreateNewBlock
  <1>5. CASE Main
    <2>1. Starts("main")
      BY <1>5, ScriptCalls DEF Main, Starts, IInv, LoopInv
    <2> QED BY <2>1, Actors
  <1>6. CASE \E g \in Proc : CallServer(g)
    BY <1>6 DEF CallServer
  <1>7. CASE \E p \in Peer : DrainPeer(p) \/ LeavePeer(p) \/ JamPeer(p)
    BY <1>7 DEF DrainPeer, LeavePeer, JamPeer
  <1> QED BY <1>1, <1>2, <1>3, <1>4, <1>5, <1>6, <1>7 DEF Next

LEMMA TransportStep ==
    ASSUME IInv, Next
    PROVE  TransportInv'
  <1> TransportInv
    BY DEF IInv
  <1>1. ASSUME UNCHANGED transport PROVE TransportInv'
    BY <1>1 DEF transport, TransportInv, TransportTypeOK, LocksBalanced
  <1> QED BY <1>1, TransportNext, StartsKeeps, CallStepKeeps, PeerKeeps

LEMMA LoopStep ==
    ASSUME IInv, Next
    PROVE  LoopInv'
  <1> TransportInv /\ LoopInv
    BY DEF IInv
  <1>1. ASSUME UNCHANGED call PROVE Idle("rpc")' = Idle("rpc")
    BY <1>1 DEF Idle
  <1>2. CASE Handle
    <2>1. UNCHANGED <<val, start, errs, done, main>> /\ rpc = "select" /\ Idle("rpc")
      BY <1>2, HandleStarts DEF Selecting
    <2>2. CASE UNCHANGED transport /\ rpc' \in {"select", "get", "report"}
      BY <1>1, <2>1, <2>2 DEF transport, LoopInv
    <2>3. CASE rpc' = "select"
      BY <2>1, <2>3 DEF LoopInv
    <2> QED BY <1>2, <2>2, <2>3, HandleStarts
  <1>3. CASE GetPipe
    <2>1. UNCHANGED <<val, start, errs, done, main>> /\ rpc = "get"
      BY <1>3 DEF GetPipe
    <2>2. rpc' = "select" \/ (rpc' = "report" /\ UNCHANGED call)
      BY <1>3 DEF GetPipe, Report, transport
    <2> QED BY <1>1, <2>1, <2>2 DEF LoopInv
  <1>4. CASE ReportRpc \/ EndRpc \/ ReportVal \/ EndVal \/ TakeError \/ EndErrorLoop
             \/ Return \/ Cancel
    <2>1. UNCHANGED <<call, main>>
      BY <1>4 DEF ReportRpc, EndRpc, ReportVal, EndVal, TakeError, EndErrorLoop, Return, Cancel,
         transport
    <2>2. errs' \in 0..1 /\ main' \in 0..Len(Script)
      BY <1>4, <2>1 DEF ReportRpc, EndRpc, ReportVal, EndVal, TakeError, EndErrorLoop, Return,
         Cancel, LoopInv
    <2>3. CASE ReportRpc
      BY <1>1, <2>1, <2>2, <2>3 DEF ReportRpc, LoopInv
    <2>4. CASE EndRpc
      BY <1>1, <2>1, <2>2, <2>4 DEF EndRpc, LoopInv, Selecting
    <2>5. CASE ReportVal \/ EndVal
      BY <1>1, <2>1, <2>2, <2>5 DEF ReportVal, EndVal, LoopInv
    <2>6. CASE TakeError \/ EndErrorLoop
      BY <1>1, <2>1, <2>2, <2>6 DEF TakeError, EndErrorLoop, LoopInv
    <2>7. CASE Return \/ Cancel
      BY <1>1, <2>1, <2>2, <2>7 DEF Return, Cancel, LoopsEnded, LoopInv
    <2> QED BY <1>4, <2>3, <2>4, <2>5, <2>6, <2>7
  <1>5. CASE CreateNewBlock
    <2>1. /\ UNCHANGED <<rpc, start, errs, done, main>>
          /\ val = "select" /\ val' \in {"report", "select"}
      BY <1>5 DEF CreateNewBlock
    <2>2. Idle("rpc") => Idle("rpc")'
      BY <1>1, <1>5, GoStarts, OtherIdle, Actors DEF CreateNewBlock, transport
    <2> QED BY <2>1, <2>2 DEF LoopInv
  <1>6. CASE Main
    <2>1. Starts("main")
      BY <1>6, ScriptCalls DEF Main, Starts, LoopInv
    <2>2. Idle("rpc") => Idle("rpc")'
      BY <2>1, OtherIdle, Actors
    <2>3. Len(Script) \in Nat
      BY ScriptCalls
    <2> QED BY <1>6, <2>2, <2>3 DEF Main, server, LoopInv
  <1>7. CASE \E g \in Proc : CallServer(g)
    <2>1. PICK g \in Proc : CallStep(g) /\ UNCHANGED <<server, main>>
      BY <1>7 DEF CallServer
    <2>2. Idle("rpc") => g # "rpc"
      BY <2>1 DEF CallStep, Range_, EnterSend, Put, CheckConnected, Lock, AddPeer,
         ConnectPeer, Idle
    <2>3. Idle("rpc") => Idle("rpc")'
      BY <2>1, <2>2, OtherIdle, Actors
    <2> QED BY <2>1, <2>3 DEF server, LoopInv
  <1>8. CASE \E p \in Peer : DrainPeer(p) \/ LeavePeer(p) \/ JamPeer(p)
    <2>1. UNCHANGED <<server, main, call>>
      BY <1>8 DEF DrainPeer, LeavePeer, JamPeer, Drain, Leave, Jam
    <2> QED BY <1>1, <2>1 DEF server, LoopInv
  <1> QED BY <1>2, <1>3, <1>4, <1>5, <1>6, <1>7, <1>8 DEF Next

LEMMA NextInv ==
    ASSUME IInv, [Next]_vars
    PROVE  IInv'
  <1>1. CASE Next
    BY <1>1, TransportStep, LoopStep DEF IInv
  <1>2. CASE UNCHANGED vars
    BY <1>2 DEF vars, transport, server, IInv, TransportInv, TransportTypeOK, LocksBalanced,
       LoopInv, Idle
  <1> QED BY <1>1, <1>2

LEMMA IInvHolds == Spec => []IInv
  <1>1. Init => IInv
    BY InitInv
  <1>2. IInv /\ [Next]_vars => IInv'
    BY NextInv
  <1> QED BY <1>1, <1>2, PTL DEF Spec

(***************************************************************************)
(* The server's and the transport's variables keep the types of their Go   *)
(* declarations; errChan never holds more than its one error.              *)
(***************************************************************************)
THEOREM TypeCorrect == Spec => []TypeOK
  <1>1. IInv => TypeOK
    BY DEF IInv, TransportInv, LoopInv, TypeOK
  <1> QED BY <1>1, IInvHolds, PTL

(***************************************************************************)
(* Every way out of Connect, Send and Broadcast gives back exactly the     *)
(* locks it took, for any number of goroutines in any of them.             *)
(***************************************************************************)
THEOREM LocksAreBalanced == Spec => []LocksBalanced
  <1>1. IInv => LocksBalanced
    BY DEF IInv, TransportInv
  <1> QED BY <1>1, IInvHolds, PTL

-----------------------------------------------------------------------------
(***************************************************************************)
(* A call that hangs.  Its own step is blocked by the full channel, by the *)
(* writer that waits or by the peer's transport, no other goroutine        *)
(* touches its record, and what blocks it does not go away: the channel's  *)
(* receiver is gone, the writer waits for a read lock that a stuck call    *)
(* holds, and the peer's transport hangs in the same way.                  *)
(***************************************************************************)
LEMMA OnlyItsOwn ==
    ASSUME TransportInv, NEW g \in Proc, NEW h \in Proc, Starts(h) \/ CallStep(h),
           g # h \/ ~(Idle(g) \/ CallStep(g))
    PROVE  call'[g] = call[g]
  <1>1. call \in [Proc -> Call]
    BY DEF TransportInv, TransportTypeOK
  <1>2. \E c : Begin(h, c)
    BY DEF Starts, CallStep, Range_, EnterSend, Put, CheckConnected, Lock, AddPeer, ConnectPeer
  <1>3. g # h
    BY DEF Starts
  <1> QED BY <1>1, <1>2, <1>3 DEF Begin

LEMMA FullStaysFull ==
    ASSUME TransportInv, NEW p \in gone, full[p] = Cap,
           \/ UNCHANGED transport
           \/ \E g \in Proc : Starts(g) \/ CallStep(g)
           \/ \E q \in Peer : Drain(q) \/ Leave(q) \/ Jam(q)
    PROVE  p \in gone' /\ full'[p] = Cap
  <1>1. full \in [Peer -> 0..Cap] /\ p \in Peer /\ Cap \in Nat
    BY TransportAssumption DEF TransportInv, TransportTypeOK
  <1>2. CASE UNCHANGED transport \/ \E g \in Proc : Starts(g)
    BY <1>2 DEF transport, Starts
  <1>3. ASSUME NEW g \in Proc, CallStep(g) PROVE p \in gone' /\ full'[p] = Cap
    <2>1. CASE Put(g)
      <3>1. full[call[g].to] # Cap /\ gone' = gone
        BY <2>1, <1>1 DEF Put
      <3>2. full' = [full EXCEPT ![call[g].to] = @ + 1]
        BY <2>1 DEF Put
      <3> QED BY <1>1, <3>1, <3>2
    <2>2. CASE ~Put(g)
      BY <1>3, <2>2 DEF CallStep, Range_, EnterSend, CheckConnected, Lock, AddPeer, ConnectPeer
    <2> QED BY <2>1, <2>2
  <1>4. ASSUME NEW q \in Peer, Drain(q) PROVE p \in gone' /\ full'[p] = Cap
    BY <1>1, <1>4 DEF Drain
  <1>5. ASSUME NEW q \in Peer, Leave(q) \/ Jam(q) PROVE p \in gone' /\ full'[p] = Cap
    BY <1>5 DEF Leave, Jam
  <1> QED BY <1>2, <1>3, <1>4, <1>5

LEMMA ChannelStuckStays ==
    ASSUME IInv, Next, NEW g \in Proc, ChannelStuck(g)
    PROVE  ChannelStuck(g)' /\ call'[g] = call[g]
  <1> TransportInv
    BY DEF IInv
  <1>1. call[g].to \in gone /\ full[call[g].to] = Cap /\ call[g].step = "put" /\ Cap \in Nat
    BY TransportAssumption DEF ChannelStuck
  <1>2. ~Idle(g) /\ ~CallStep(g)
    BY <1>1 DEF Idle, CallStep, Range_, EnterSend, Put, CheckConnected, Lock, AddPeer,
       ConnectPeer
  <1>3. call[g].to \in gone' /\ full'[call[g].to] = Cap
    BY <1>1, TransportNext, FullStaysFull
  <1>4. call'[g] = call[g]
    <2>1. CASE UNCHANGED transport \/ \E p \in Peer : Drain(p) \/ Leave(p) \/ Jam(p)
      BY <2>1 DEF transport, Drain, Leave, Jam
    <2>2. CASE \E h \in Proc : Starts(h) \/ CallStep(h)
      BY <1>2, <2>2, OnlyItsOwn
    <2> QED BY <2>1, <2>2, TransportNext
  <1> QED BY <1>1, <1>3, <1>4 DEF ChannelStuck

(***************************************************************************)
(* The goroutines that hold the read lock a writer waits for.              *)
(***************************************************************************)
Holds(g) == ChannelStuck(g) \/ (call[g].step = "send" /\ call[g].outer)

LEMMA StuckHolds ==
    ASSUME TransportInv, NEW g \in Proc, Holds(g)
    PROVE  readers # 0
  <1>1. call \in [Proc -> Call]
    BY DEF TransportInv, TransportTypeOK
  <1>2. Held(call[g]) \in {1, 2}
    BY DEF Holds, ChannelStuck, Held
  <1>3. readers >= Held(call[g])
    BY <1>1, HolderCounted DEF TransportInv, LocksBalanced
  <1> QED BY <1>2, <1>3 DEF TransportInv, TransportTypeOK

LEMMA LockStuckStays ==
    ASSUME IInv, Next, LockStuck
    PROVE  /\ LockStuck'
           /\ \A g \in Proc : call[g].step \notin {"idle", "put", "peer"} => call'[g] = call[g]
  <1> TransportInv
    BY DEF IInv
  <1>1. PICK h \in Proc : Holds(h)
    BY DEF LockStuck, Holds
  <1>2. writer # None /\ readers # 0
    BY <1>1, StuckHolds DEF LockStuck
  <1>3. ASSUME NEW g \in Proc, call[g].step \notin {"idle", "put", "peer"}
        PROVE  ~Idle(g) /\ ~CallStep(g)
    BY <1>2, <1>3 DEF Idle, CallStep, Range_, EnterSend, Put, CheckConnected, Lock, AddPeer,
       ConnectPeer, CanRLock
  <1>4. ASSUME NEW g \in Proc, call[g].step \notin {"idle", "put", "peer"}
        PROVE  call'[g] = call[g]
    <2>1. CASE UNCHANGED transport \/ \E p \in Peer : Drain(p) \/ Leave(p) \/ Jam(p)
      BY <2>1 DEF transport, Drain, Leave, Jam
    <2>2. CASE \E f \in Proc : Starts(f) \/ CallStep(f)
      BY <1>3, <1>4, <2>2, OnlyItsOwn
    <2> QED BY <2>1, <2>2, TransportNext
  <1>5. writer' = writer
    <2>1. CASE UNCHANGED transport \/ (\E p \in Peer : Drain(p) \/ Leave(p) \/ Jam(p))
               \/ \E f \in Proc : Starts(f)
      BY <2>1 DEF transport, Drain, Leave, Jam, Starts
    <2>2. ASSUME NEW f \in Proc, CallStep(f) PROVE writer' = writer
      BY <1>2, <2>2 DEF CallStep, Range_, EnterSend, Put, CheckConnected, Lock, AddPeer,
         ConnectPeer
    <2> QED BY <2>1, <2>2, TransportNext
  <1>6. CASE ChannelStuck(h)
    BY <1>2, <1>4, <1>5, <1>6, ChannelStuckStays DEF LockStuck
  <1>7. CASE call[h].step = "send" /\ call[h].outer
    <2>1. call'[h] = call[h]
      BY <1>4, <1>7
    <2> QED BY <1>2, <1>4, <1>5, <1>7, <2>1 DEF LockStuck
  <1> QED BY <1>1, <1>6, <1>7 DEF Holds

(***************************************************************************)
(* A peer whose transport hangs is never taken off again.                  *)
(***************************************************************************)
LEMMA PeerStuckStays ==
    ASSUME IInv, Next, NEW g \in Proc, PeerStuck(g)
    PROVE  PeerStuck(g)'
  <1> TransportInv
    BY DEF IInv
  <1>1. ~Idle(g) /\ ~CallStep(g)
    BY DEF PeerStuck, Idle, CallStep, Range_, EnterSend, Put, CheckConnected, Lock, AddPeer,
       ConnectPeer
  <1>2. call'[g] = call[g]
    <2>1. CASE UNCHANGED transport \/ \E p \in Peer : Drain(p) \/ Leave(p) \/ Jam(p)
      BY <2>1 DEF transport, Drain, Leave, Jam
    <2>2. CASE \E h \in Proc : Starts(h) \/ CallStep(h)
      BY <1>1, <2>2, OnlyItsOwn
    <2> QED BY <2>1, <2>2, TransportNext
  <1>3. jammed \subseteq jammed'
    <2>1. CASE UNCHANGED transport \/ \E p \in Peer : Drain(p) \/ Leave(p) \/ Jam(p)
      BY <2>1 DEF transport, Drain, Leave, Jam
    <2>2. CASE \E h \in Proc : Starts(h) \/ CallStep(h)
      BY <2>2 DEF Starts, CallStep, Range_, EnterSend, Put, CheckConnected, Lock, AddPeer,
         ConnectPeer
    <2> QED BY <2>1, <2>2, TransportNext
  <1> QED BY <1>2, <1>3 DEF PeerStuck

(***************************************************************************)
(* Deadlock is for good: a goroutine that waits for room in the channel of *)
(* a peer that has stopped, for the lock while such a one holds it, or in  *)
(* the Connect of a peer whose transport hangs, never gets out, whatever   *)
(* the others do and whoever cancels the context.                          *)
(***************************************************************************)
THEOREM HungStaysHung == Spec => HungForGood
  <1>1. ASSUME IInv, Next, NEW g \in Proc, Hung(g)
        PROVE  Hung(g)'
    <2>1. CASE ChannelStuck(g)
      BY <1>1, <2>1, ChannelStuckStays DEF Hung
    <2>2. CASE PeerStuck(g)
      BY <1>1, <2>2, PeerStuckStays DEF Hung
    <2>3. CASE LockStuck /\ call[g].step \notin {"idle", "put", "peer"}
      <3>1. LockStuck' /\ call'[g] = call[g]
        BY <1>1, <2>3, LockStuckStays
      <3> QED BY <2>3, <3>1 DEF Hung
    <2> QED BY <1>1, <2>1, <2>2, <2>3 DEF Hung
  <1>2. IInv /\ [Next]_vars => [\A g \in Proc : Hung(g) => Hung(g)']_vars
    BY <1>1
  <1> QED BY <1>2, IInvHolds, PTL DEF Spec, HungForGood

(***************************************************************************)
(* A server whose Start has returned is at rest: both loops have ended, so *)
(* neither a handler nor the validator begins another broadcast.           *)
(***************************************************************************)
THEOREM ReturnedIsQuiet == Spec => QuietAfterReturn
  <1>1. ASSUME IInv, Next, start = "returned"
        PROVE  UNCHANGED server /\ \A g \in Cast : Idle(g) => Idle(g)'
    <2> TransportInv
      BY <1>1 DEF IInv
    <2>1. rpc = "ended" /\ val = "ended" /\ done
      BY <1>1 DEF IInv, LoopInv
    <2>2. UNCHANGED server
      BY <1>1, <2>1 DEF Next, Handle, Selecting, GetPipe, ReportRpc, EndRpc, CreateNewBlock,
         ReportVal, EndVal, TakeError, EndErrorLoop, Return, Cancel, Main, CallServer,
         DrainPeer, LeavePeer, JamPeer, server
    <2>3. ASSUME NEW g \in Cast, Idle(g) PROVE Idle(g)'
      <3>1. CASE UNCHANGED transport \/ \E p \in Peer : Drain(p) \/ Leave(p) \/ Jam(p)
        BY <2>3, <3>1 DEF transport, Drain, Leave, Jam, Idle
      <3>2. ASSUME NEW h \in Proc, Starts(h), h \in Cast => rpc = "select" \/ val = "select"
            PROVE  Idle(g)'
        BY <2>1, <2>3, <3>2, OtherIdle, Actors
      <3>3. ASSUME NEW h \in Proc, CallStep(h)
            PROVE  Idle(g)'
        <4>1. h # g
          BY <2>3, <3>3 DEF CallStep, Range_, EnterSend, Put, CheckConnected, Lock, AddPeer,
             ConnectPeer, Idle
        <4> QED BY <2>3, <3>3, <4>1, OtherIdle, Actors
      <3> QED BY <1>1, <3>1, <3>2, <3>3, TransportNext
    <2> QED BY <2>2, <2>3
  <1>2. IInv /\ [Next]_vars =>
           [start = "returned" =>
               UNCHANGED server /\ \A g \in Cast : Idle(g) => Idle(g)']_vars
    BY <1>1
  <1> QED BY <1>2, IInvHolds, PTL DEF Spec, QuietAfterReturn
=============================================================================
