--------------------------- MODULE LocalTransport ---------------------------
(***************************************************************************)
(* One transport of network/local_transport.go: its table of peers, the    *)
(* read-write lock that guards the table, and the bounded channels of its  *)
(* peers, into which Send puts a message while it holds the lock.          *)
(*                                                                         *)
(* The lock is Go's sync.RWMutex: Lock announces the writer, waits until   *)
(* the readers have left, and from the announcement on RLock blocks.  The  *)
(* goroutines of Proc call Connect, Send and Broadcast; what the messages  *)
(* say is the subject of module BlockSync.  Of the peers, transports of    *)
(* the same kind, two things are seen: the channel, and whether the lock,  *)
(* which a Connect needs as well, can still be had.                        *)
(***************************************************************************)
EXTENDS Integers, FiniteSets

CONSTANTS
    Peer,      \* the other transports
    Stops,     \* bound: those whose server may stop, or whose transport hang
    Proc,      \* the goroutines that call this one
    Cap        \* what a channel takes, with the message its receiver holds

None == "none"

ASSUME TransportAssumption ==
    /\ Stops \subseteq Peer
    /\ IsFiniteSet(Proc) /\ None \notin Proc
    /\ Cap \in Nat \ {0}

VARIABLES
    peers,     \* the keys of lt.peers
    readers,   \* how many read locks of lt.m are held
    writer,    \* the goroutine that has called Lock, or None
    full,      \* full[p]: the messages in p's channel
    gone,      \* the peers whose server no longer receives
    jammed,    \* the peers whose transport hangs, and so does a Connect there
    call       \* call[g]: the call that goroutine g is in

transport == <<peers, readers, writer, full, gone, jammed, call>>

-----------------------------------------------------------------------------
(***************************************************************************)
(* A call: where it is, the peers it has yet to send to, or to add, the    *)
(* one it sends to, and whether it is a Broadcast, which holds a read lock *)
(* of its own around those of its Sends.                                   *)
(***************************************************************************)
NoCall == [step |-> "idle", todo |-> {}, to |-> None, outer |-> FALSE]

Broadcast == [step |-> "range", todo |-> {}, to |-> None, outer |-> TRUE]

Send(p) == [step |-> "send", todo |-> {p}, to |-> None, outer |-> FALSE]

Connect(p) == [step |-> "isConnected", todo |-> {p}, to |-> None, outer |-> FALSE]

Idle(g) == call[g].step = "idle"

Begin(g, c) == call' = [call EXCEPT ![g] = c]

InitTransport ==
    /\ peers = {}
    /\ readers = 0
    /\ writer = None
    /\ full = [p \in Peer |-> 0]
    /\ gone = {}
    /\ jammed = {}
    /\ call = [g \in Proc |-> NoCall]

CanRLock == writer = None

(* What a call holds besides the lock of the Send it is in. *)
Outer(g) == IF call[g].outer THEN 1 ELSE 0

-----------------------------------------------------------------------------
(* Broadcast takes the read lock and goes over the peers. *)
Range_(g) ==
    /\ call[g].step = "range"
    /\ CanRLock
    /\ \/ /\ peers = {}
          /\ Begin(g, NoCall)
          /\ UNCHANGED readers
       \/ /\ peers # {}
          /\ Begin(g, [call[g] EXCEPT !.step = "send", !.todo = peers])
          /\ readers' = readers + 1
    /\ UNCHANGED <<peers, writer, full, gone, jammed>>

(* Mutant of EnterSend: the early return leaves the lock held. *)
EnterSendLeaks(g) ==
    /\ call[g].step = "send"
    /\ CanRLock
    /\ \E p \in call[g].todo :
          \/ /\ p \in peers
             /\ Begin(g, [call[g] EXCEPT !.step = "put", !.to = p])
          \/ /\ p \notin peers
             /\ Begin(g, NoCall)
    /\ readers' = readers + 1
    /\ UNCHANGED <<peers, writer, full, gone, jammed>>

(* Mutant of EnterSend: a reader gets past a writer that waits. *)
EnterSendReenters(g) ==
    /\ call[g].step = "send"
    /\ CanRLock \/ call[g].outer
    /\ \E p \in call[g].todo :
          \/ /\ p \in peers
             /\ Begin(g, [call[g] EXCEPT !.step = "put", !.to = p])
             /\ readers' = readers + 1
          \/ /\ p \notin peers
             /\ Begin(g, NoCall)
             /\ UNCHANGED readers
    /\ UNCHANGED <<peers, writer, full, gone, jammed>>

(* Send takes the read lock, in a Broadcast for the second time, and looks the
   peer up; one that is not there is an error. *)
EnterSend(g) ==
    /\ call[g].step = "send"
    /\ CanRLock
    /\ \E p \in call[g].todo :
          \/ /\ p \in peers
             /\ Begin(g, [call[g] EXCEPT !.step = "put", !.to = p])
             /\ readers' = readers + 1
          \/ /\ p \notin peers
             /\ Begin(g, NoCall)
             /\ UNCHANGED readers
    /\ UNCHANGED <<peers, writer, full, gone, jammed>>

(* peer.recvCh <- msg, and the deferred RUnlock; after the last peer also that
   of the Broadcast. *)
Put(g) ==
    LET left == call[g].todo \ {call[g].to} IN
    /\ call[g].step = "put"
    /\ full[call[g].to] < Cap
    /\ full' = [full EXCEPT ![call[g].to] = @ + 1]
    /\ \/ /\ left = {}
          /\ Begin(g, NoCall)
          /\ readers' = readers - 1 - Outer(g)
       \/ /\ left # {}
          /\ Begin(g, [call[g] EXCEPT !.step = "send", !.todo = left])
          /\ readers' = readers - 1
    /\ UNCHANGED <<peers, writer, gone, jammed>>

(* Connect: IsConnected, then Lock in two parts, and the new entry. *)
CheckConnected(g) ==
    /\ call[g].step = "isConnected"
    /\ CanRLock
    /\ \/ call[g].todo \subseteq peers /\ Begin(g, NoCall)
       \/ ~(call[g].todo \subseteq peers) /\ Begin(g, [call[g] EXCEPT !.step = "lock"])
    /\ UNCHANGED <<peers, readers, writer, full, gone, jammed>>

Lock(g) ==
    /\ call[g].step = "lock"
    /\ writer = None
    /\ writer' = g
    /\ Begin(g, [call[g] EXCEPT !.step = "add"])
    /\ UNCHANGED <<peers, readers, full, gone, jammed>>

(* Mutant of AddPeer: the lock is not given back. *)
AddPeerKeeps(g) ==
    /\ call[g].step = "add"
    /\ readers = 0
    /\ peers' = peers \union call[g].todo
    /\ Begin(g, [call[g] EXCEPT !.step = "peer"])
    /\ UNCHANGED <<readers, writer, full, gone, jammed>>

AddPeer(g) ==
    /\ call[g].step = "add"
    /\ readers = 0
    /\ peers' = peers \union call[g].todo
    /\ writer' = None
    /\ Begin(g, [call[g] EXCEPT !.step = "peer"])
    /\ UNCHANGED <<readers, full, gone, jammed>>

(* tr.Connect(lt), with no lock of our own held: the peer reads its table, in
   which it has us already, or takes its lock to add us, and then calls this
   Connect again, which finds the entry. *)
ConnectPeer(g) ==
    /\ call[g].step = "peer"
    /\ call[g].todo \intersect jammed = {}
    /\ \/ Begin(g, NoCall)
       \/ Begin(g, [call[g] EXCEPT !.step = "isConnected"])
    /\ UNCHANGED <<peers, readers, writer, full, gone, jammed>>

CallStep(g) ==
    \/ Range_(g) \/ EnterSend(g) \/ Put(g)
    \/ CheckConnected(g) \/ Lock(g) \/ AddPeer(g) \/ ConnectPeer(g)

(* A peer takes a message, or its server has come to its end. *)
Drain(p) ==
    /\ p \notin gone
    /\ full[p] > 0
    /\ full' = [full EXCEPT ![p] = @ - 1]
    /\ UNCHANGED <<peers, readers, writer, gone, jammed, call>>

Leave(p) ==
    /\ p \in Stops \ gone
    /\ gone' = gone \union {p}
    /\ UNCHANGED <<peers, readers, writer, full, jammed, call>>

(* A peer's transport hangs, in one of the ways of Hung below: its lock is not to
   be had again.  Nobody sees that, and here it does not happen, before a Connect
   waits for the lock. *)
Jam(p) ==
    /\ p \in Stops \ jammed
    /\ \E g \in Proc : call[g].step = "peer" /\ p \in call[g].todo
    /\ jammed' = jammed \union {p}
    /\ UNCHANGED <<peers, readers, writer, full, gone, call>>

-----------------------------------------------------------------------------
Call == [step : {"idle", "range", "send", "put", "isConnected", "lock", "add", "peer"},
         todo : SUBSET Peer, to : Peer \union {None}, outer : BOOLEAN]

(* How many read locks a call holds: that of a Broadcast, that of a Send. *)
Held(c) ==
    (IF c.outer /\ c.step \in {"send", "put"} THEN 1 ELSE 0)
        + (IF c.step = "put" THEN 1 ELSE 0)

ReadLocks(calls) == {l \in Proc \X {1, 2} : l[2] <= Held(calls[l[1]])}

TransportTypeOK ==
    /\ peers \subseteq Peer
    /\ readers \in Nat
    /\ writer \in Proc \union {None}
    /\ full \in [Peer -> 0 .. Cap]
    /\ gone \subseteq Peer
    /\ jammed \subseteq Peer
    /\ call \in [Proc -> Call]

(* Every way out of a call gives back exactly the locks it took: the read locks
   held are those of the calls under way, and the writer is inside Connect. *)
LocksBalanced ==
    /\ readers = Cardinality(ReadLocks(call))
    /\ writer # None => call[writer].step = "add"

(***************************************************************************)
(* The three ways to wait forever: for room in the channel of a peer that  *)
(* receives no more, with a read lock held; once a Connect has asked for   *)
(* the lock, between the two read locks of a Broadcast; and in the Connect *)
(* of a peer whose own transport hangs in one of these ways.               *)
(***************************************************************************)
ChannelStuck(g) ==
    call[g].step = "put" /\ call[g].to \in gone /\ full[call[g].to] = Cap

LockStuck ==
    /\ writer # None
    /\ \E g \in Proc : ChannelStuck(g) \/ (call[g].step = "send" /\ call[g].outer)

PeerStuck(g) ==
    call[g].step = "peer" /\ call[g].todo \intersect jammed # {}

Hung(g) ==
    \/ ChannelStuck(g)
    \/ PeerStuck(g)
    \/ LockStuck /\ call[g].step \notin {"idle", "put", "peer"}
=============================================================================
