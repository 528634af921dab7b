----------------------------- MODULE BlockSync ------------------------------
(***************************************************************************)
(* How blocks travel from the validating server to the others:             *)
(* server/server_internal.go, server/handle_subscribe.go, Connect,         *)
(* Subscribe and ProcessMessage of server/server.go, over the local        *)
(* transport of network/local_transport.go.                                *)
(*                                                                         *)
(* Each server has an rpc loop that handles one message at a time to its   *)
(* end.  The validating server has a second loop that makes blocks.  Every *)
(* broadcast of a block runs in a goroutine of its own, so the broadcasts  *)
(* of two blocks, and the sends of one broadcast, may overtake each other. *)
(* The transport delivers: a send appends to the receiver's channel, whose *)
(* capacity of 1024 is not reached here.                                   *)
(***************************************************************************)
EXTENDS Integers, Sequences

CONSTANTS
    Node,         \* the servers, named by the address of their transport
    Validator,    \* the one that has a private key
    Link,         \* <<n, m>>: n calls Connect and Subscribe with m's transport
    Joined,       \* the links on which both calls are over at the start
    Hash,         \* header hashes; sha256 is taken to be free of collisions
    GenesisHash,
    MaxHeight     \* bound: the height at which the validator stops

ASSUME NodeAssumption ==
    /\ Validator \in Node
    /\ Link \subseteq Node \X Node
    /\ Joined \subseteq Link
    /\ GenesisHash \in Hash
    /\ MaxHeight \in Nat

(***************************************************************************)
(* A block that verifies: signatures, data hash and the run of the         *)
(* transactions are the subject of module Blockchain.                      *)
(***************************************************************************)
Block == [hash : Hash, Height : Nat, PreviousBlockHash : Hash]

Genesis == [hash |-> GenesisHash, Height |-> 0, PreviousBlockHash |-> GenesisHash]

BlockMessage(b) == [type |-> "block", block |-> b]

GetBlocksRequest(n, h) == [type |-> "getBlocks", RequestorID |-> n, StartHeight |-> h]

GetBlocksResponse(bs) == [type |-> "blocks", Blocks |-> bs]

SubscribeMessageRequest(n) == [type |-> "subscribe", RequestorID |-> n]

SubscribeMessageResponse(n) == [type |-> "subscribed", ProviderId |-> n]

Message ==
    [type : {"block"}, block : Block]
      \union [type : {"getBlocks"}, RequestorID : Node, StartHeight : Nat]
      \union [type : {"blocks"}, Blocks : Seq(Block)]
      \union [type : {"subscribe"}, RequestorID : Node]
      \union [type : {"subscribed"}, ProviderId : Node]

VARIABLES
    chain,        \* chain[n]: n's blocks, the genesis block at position 1
    storing,      \* the validator's last header is put and its block is not
    conns,        \* conns[n]: the peers of n's transport
    dialing,      \* <<n, m>>: n has m, and m's Connect back is still to come
    subscribed,   \* the links whose Subscribe was called
    peers,        \* peers[n]: the keys of n's Peers
    inbox,        \* inbox[n]: n's recvCh
    relay,        \* relay[n]: blocks whose broadcast goroutine has not started
    sends,        \* sends[n]: sends left to n's broadcast goroutines
    out,          \* out[n]: sends left to the message n's rpc loop handles
    applying,     \* applying[n]: blocks of a GetBlocksResponse still to apply
    fresh         \* history: a block was made since a subscription last changed

vars == <<chain, storing, conns, dialing, subscribed, peers, inbox, relay, sends,
          out, applying, fresh>>

net == <<conns, dialing, subscribed, peers>>

Envelope == [msg : Message, to : Node]

-----------------------------------------------------------------------------
Neighbours(n) == {m \in Node : <<n, m>> \in Joined \/ <<m, n>> \in Joined}

Init ==
    /\ chain = [n \in Node |-> <<Genesis>>]
    /\ storing = FALSE
    /\ conns = [n \in Node |-> Neighbours(n)]
    /\ dialing = {}
    /\ subscribed = Joined
    /\ peers = [n \in Node |-> Neighbours(n)]
    /\ inbox = [n \in Node |-> <<>>]
    /\ relay = [n \in Node |-> {}]
    /\ sends = [n \in Node |-> {}]
    /\ out = [n \in Node |-> {}]
    /\ applying = [n \in Node |-> <<>>]
    /\ fresh = FALSE

Height(n) == Len(chain[n]) - 1

ToAll(n, msg) == {[msg |-> msg, to |-> m] : m \in conns[n]}

-----------------------------------------------------------------------------
(***************************************************************************)
(* The validator loop.  createNewBlock up to headerStore.put: only this    *)
(* loop extends the validator's chain, so nothing comes between its read   *)
(* of the last header and the append.                                      *)
(***************************************************************************)
NewBlock(h) ==
    LET prev == chain[Validator][Len(chain[Validator])] IN
    [hash |-> h, Height |-> prev.Height + 1, PreviousBlockHash |-> prev.hash]

Unused == Hash \ {chain[Validator][i].hash : i \in DOMAIN chain[Validator]}

CreateNewBlock ==
    /\ ~storing
    /\ Height(Validator) < MaxHeight
    /\ \E h \in Unused :
          chain' = [chain EXCEPT ![Validator] = Append(@, NewBlock(h))]
    /\ storing' = TRUE
    /\ fresh' = TRUE
    /\ UNCHANGED <<net, inbox, relay, sends, out, applying>>

(***************************************************************************)
(* The rest of createNewBlock: store.Put, and a goroutine to broadcast.    *)
(***************************************************************************)
StoreBlock ==
    /\ storing
    /\ storing' = FALSE
    /\ relay' = [relay EXCEPT ![Validator] =
                    @ \union {chain[Validator][Len(chain[Validator])]}]
    /\ UNCHANGED <<chain, net, inbox, sends, out, applying, fresh>>

(***************************************************************************)
(* A broadcast goroutine starts: Transport.Broadcast goes over the peers   *)
(* it has now, in an order of Go's choosing, one Send after the other.     *)
(***************************************************************************)
BroadcastBlock(n) ==
    /\ \E b \in relay[n] :
          /\ relay' = [relay EXCEPT ![n] = @ \ {b}]
          /\ sends' = [sends EXCEPT ![n] = @ \union ToAll(n, BlockMessage(b))]
    /\ UNCHANGED <<chain, storing, net, inbox, out, applying, fresh>>

Deliver(e) == inbox' = [inbox EXCEPT ![e.to] = Append(@, e.msg)]

Send(n) ==
    /\ \E e \in sends[n] :
          /\ Deliver(e)
          /\ sends' = [sends EXCEPT ![n] = @ \ {e}]
    /\ UNCHANGED <<chain, storing, net, relay, out, applying, fresh>>

-----------------------------------------------------------------------------
(***************************************************************************)
(* Connect and Subscribe, called while the servers run.                    *)
(***************************************************************************)
Connect(n, m) ==
    /\ m \notin conns[n]
    /\ conns' = [conns EXCEPT ![n] = @ \union {m}]
    /\ dialing' = dialing \union {<<n, m>>}
    /\ UNCHANGED <<chain, storing, subscribed, peers, inbox, relay, sends, out,
                   applying, fresh>>

ConnectBack(n, m) ==
    /\ <<n, m>> \in dialing
    /\ conns' = [conns EXCEPT ![m] = @ \union {n}]
    /\ dialing' = dialing \ {<<n, m>>}
    /\ UNCHANGED <<chain, storing, subscribed, peers, inbox, relay, sends, out,
                   applying, fresh>>

Subscribe(n, m) ==
    /\ m \in conns[n]
    /\ <<n, m>> \notin dialing \union subscribed
    /\ subscribed' = subscribed \union {<<n, m>>}
    /\ Deliver([msg |-> SubscribeMessageRequest(n), to |-> m])
    /\ UNCHANGED <<chain, storing, conns, dialing, peers, relay, sends, out,
                   applying, fresh>>

-----------------------------------------------------------------------------
(***************************************************************************)
(* The rpc loop takes the next message when the one before is done.        *)
(***************************************************************************)
Receive(n, type) ==
    /\ applying[n] = <<>>
    /\ out[n] = {}
    /\ inbox[n] # <<>>
    /\ Head(inbox[n]).type = type
    /\ inbox' = [inbox EXCEPT ![n] = Tail(@)]

RpcSend(n) ==
    /\ \E e \in out[n] :
          /\ Deliver(e)
          /\ out' = [out EXCEPT ![n] = @ \ {e}]
    /\ UNCHANGED <<chain, storing, net, relay, sends, applying, fresh>>

(***************************************************************************)
(* A subscriber the transport does not know is refused.                    *)
(***************************************************************************)
HandleSubscribeMessageRequest(n) ==
    LET known == {Head(inbox[n]).RequestorID} \intersect conns[n] IN
    /\ Receive(n, "subscribe")
    /\ peers' = [peers EXCEPT ![n] = @ \union known]
    /\ out' = [out EXCEPT ![n] =
                  {[msg |-> SubscribeMessageResponse(n), to |-> m] : m \in known}]
    /\ fresh' = FALSE
    /\ UNCHANGED <<chain, storing, conns, dialing, subscribed, relay, sends, applying>>

HandleSubscribeMessageResponse(n) ==
    LET known == {Head(inbox[n]).ProviderId} \intersect conns[n] IN
    /\ Receive(n, "subscribed")
    /\ peers' = [peers EXCEPT ![n] = @ \union known]
    /\ fresh' = FALSE
    /\ UNCHANGED <<chain, storing, conns, dialing, subscribed, relay, sends, out,
                   applying>>

(***************************************************************************)
(* What AddBlock makes of a block that verifies.                           *)
(***************************************************************************)
OutOfSync(n, b) == b.Height > Height(n) + 1

Fits(n, b) ==
    /\ b.Height = Height(n) + 1
    /\ b.PreviousBlockHash = chain[n][Len(chain[n])].hash

(* Mutants of StartHeight: off by one above, and below what the chain has. *)
StartHeightAhead(n) == Height(n) + 2

StartHeightBelow(n) == Height(n) - 1

StartHeight(n) == Height(n) + 1

(***************************************************************************)
(* handleBlock: add and relay; or ask everybody for what is missing; or    *)
(* drop a block of a height the chain has.                                 *)
(***************************************************************************)
(* Mutant of HandleBlock: a block the chain has is relayed again. *)
HandleBlockEcho(n) ==
    LET b == Head(inbox[n]).block IN
    /\ Receive(n, "block")
    /\ chain' = IF Fits(n, b) THEN [chain EXCEPT ![n] = Append(@, b)] ELSE chain
    /\ \/ /\ OutOfSync(n, b)
          /\ out' = [out EXCEPT ![n] = ToAll(n, GetBlocksRequest(n, StartHeight(n)))]
          /\ UNCHANGED relay
       \/ /\ ~OutOfSync(n, b)
          /\ relay' = [relay EXCEPT ![n] = @ \union {b}]
          /\ UNCHANGED out
    /\ UNCHANGED <<storing, net, sends, applying, fresh>>

(* Mutant of HandleBlock: an out of sync block is dropped. *)
HandleBlockDrop(n) ==
    LET b == Head(inbox[n]).block IN
    /\ Receive(n, "block")
    /\ \/ /\ Fits(n, b)
          /\ chain' = [chain EXCEPT ![n] = Append(@, b)]
          /\ relay' = [relay EXCEPT ![n] = @ \union {b}]
       \/ /\ ~Fits(n, b)
          /\ UNCHANGED <<chain, relay>>
    /\ UNCHANGED <<storing, net, sends, out, applying, fresh>>

HandleBlock(n) ==
    LET b == Head(inbox[n]).block IN
    /\ Receive(n, "block")
    /\ \/ /\ Fits(n, b)
          /\ chain' = [chain EXCEPT ![n] = Append(@, b)]
          /\ relay' = [relay EXCEPT ![n] = @ \union {b}]
          /\ UNCHANGED out
       \/ /\ OutOfSync(n, b)
          /\ out' = [out EXCEPT ![n] = ToAll(n, GetBlocksRequest(n, StartHeight(n)))]
          /\ UNCHANGED <<chain, relay>>
       \/ /\ ~Fits(n, b) /\ ~OutOfSync(n, b)
          /\ UNCHANGED <<chain, relay, out>>
    /\ UNCHANGED <<storing, net, sends, applying, fresh>>

(***************************************************************************)
(* handleGetBlocksRequest: an unknown requestor is refused, and GetBlockAt *)
(* fails for a header whose block is not stored yet.  The height is read   *)
(* anew for each block, so the answer is what the chain has at the end.    *)
(***************************************************************************)
(* Mutant of Readable: GetBlockAt finds what has a header. *)
ReadableAlways(n, from) == TRUE

Readable(n, from) == ~(n = Validator /\ storing /\ from <= Height(n))

HandleGetBlocksRequest(n) ==
    LET req == Head(inbox[n])
        blocks == SubSeq(chain[n], req.StartHeight + 1, Len(chain[n])) IN
    /\ Receive(n, "getBlocks")
    /\ \/ /\ req.RequestorID \in peers[n]
          /\ Readable(n, req.StartHeight)
          /\ out' = [out EXCEPT ![n] = {[msg |-> GetBlocksResponse(blocks),
                                         to |-> req.RequestorID]}]
       \/ /\ req.RequestorID \notin peers[n] \/ ~Readable(n, req.StartHeight)
          /\ UNCHANGED out
    /\ UNCHANGED <<chain, storing, net, relay, sends, applying, fresh>>

(***************************************************************************)
(* handleGetBlocksResponse: a loop over the blocks, without a relay.       *)
(***************************************************************************)
HandleGetBlocksResponse(n) ==
    /\ Receive(n, "blocks")
    /\ applying' = [applying EXCEPT ![n] = Head(inbox[n]).Blocks]
    /\ UNCHANGED <<chain, storing, net, relay, sends, out, fresh>>

(* Mutant of ApplyBlock: AddBlock's checks are left out. *)
ApplyBlockUnchecked(n) ==
    /\ applying[n] # <<>>
    /\ chain' = [chain EXCEPT ![n] = Append(@, Head(applying[n]))]
    /\ applying' = [applying EXCEPT ![n] = Tail(@)]
    /\ UNCHANGED <<storing, net, inbox, relay, sends, out, fresh>>

ApplyBlock(n) ==
    LET b == Head(applying[n]) IN
    /\ applying[n] # <<>>
    /\ chain' = IF Fits(n, b) THEN [chain EXCEPT ![n] = Append(@, b)] ELSE chain
    /\ applying' = [applying EXCEPT ![n] =
                       IF Fits(n, b) \/ b.Height <= Height(n) THEN Tail(@) ELSE <<>>]
    /\ UNCHANGED <<storing, net, inbox, relay, sends, out, fresh>>

RpcStep(n) ==
    \/ RpcSend(n)
    \/ HandleSubscribeMessageRequest(n)
    \/ HandleSubscribeMessageResponse(n)
    \/ HandleBlock(n)
    \/ HandleGetBlocksRequest(n)
    \/ HandleGetBlocksResponse(n)
    \/ ApplyBlock(n)

Dial(n, m) == Connect(n, m) \/ ConnectBack(n, m) \/ Subscribe(n, m)

Next ==
    \/ CreateNewBlock
    \/ StoreBlock
    \/ \E n \in Node : BroadcastBlock(n) \/ Send(n) \/ RpcStep(n)
    \/ \E l \in Link : Dial(l[1], l[2])

Spec == Init /\ [][Next]_vars

(***************************************************************************)
(* Every goroutine that can run is scheduled.  Whether and when a server   *)
(* joins, and when the next block is due, is left open.                    *)
(***************************************************************************)
FairSpec ==
    /\ Spec
    /\ WF_vars(StoreBlock)
    /\ \A n \in Node : /\ WF_vars(BroadcastBlock(n))
                       /\ WF_vars(Send(n))
                       /\ WF_vars(RpcStep(n))
    /\ \A l \in Link : WF_vars(ConnectBack(l[1], l[2]))

-----------------------------------------------------------------------------
(***************************************************************************)
(* Properties.                                                             *)
(***************************************************************************)

(* Every variable has the type the Go declarations give it. *)
TypeOK ==
    /\ chain \in [Node -> Seq(Block)]
    /\ storing \in BOOLEAN
    /\ conns \in [Node -> SUBSET Node]
    /\ dialing \subseteq Link
    /\ subscribed \subseteq Link
    /\ peers \in [Node -> SUBSET Node]
    /\ inbox \in [Node -> Seq(Message)]
    /\ relay \in [Node -> SUBSET Block]
    /\ sends \in [Node -> SUBSET Envelope]
    /\ out \in [Node -> SUBSET Envelope]
    /\ applying \in [Node -> Seq(Block)]
    /\ fresh \in BOOLEAN

(* Agreement, "comparing headers" in the network test: every server's chain
   is a prefix of the validator's, whatever order blocks arrive in. *)
PrefixOfValidator ==
    \A n \in Node :
       /\ Len(chain[n]) <= Len(chain[Validator])
       /\ \A i \in DOMAIN chain[n] : chain[n][i] = chain[Validator][i]

Published(b) ==
    /\ b.Height + 1 \in DOMAIN chain[Validator]
    /\ chain[Validator][b.Height + 1] = b
    /\ storing => b.Height < Height(Validator)

MessagePublished(m) ==
    /\ m.type = "block" => Published(m.block)
    /\ m.type = "blocks" => \A i \in DOMAIN m.Blocks : Published(m.Blocks[i])

(* No server sees a block before the validator can serve it: every block that
   a goroutine or a channel holds is on the validator's chain, at its height,
   and stored. *)
InFlightStored ==
    \A n \in Node :
       /\ \A b \in relay[n] : Published(b)
       /\ \A e \in sends[n] \union out[n] : MessagePublished(e.msg)
       /\ \A i \in DOMAIN inbox[n] : MessagePublished(inbox[n][i])
       /\ \A i \in DOMAIN applying[n] : Published(applying[n][i])

(* A GetBlocksResponse closes the gap it was asked for: when its blocks are
   applied, the next one is never above the chain, although the chain may have
   grown between the request and the response. *)
ResponseApplies ==
    \A n \in Node : applying[n] # <<>> => Head(applying[n]).Height <= Height(n) + 1

Quiet ==
    /\ ~storing
    /\ \A n \in Node : /\ relay[n] = {} /\ sends[n] = {} /\ out[n] = {}
                       /\ inbox[n] = <<>> /\ applying[n] = <<>>

(* Gossip dies out: relays and requests do not feed each other forever. *)
GossipEnds == <>[]Quiet

(* Everybody joined, a block was made since, and nothing is under way. *)
Settled == Quiet /\ subscribed = Link /\ dialing = {} /\ fresh

(* When the network has settled every server has the validator's height. *)
SettledEqual == Settled => \A n \in Node : Height(n) = Height(Validator)

(* "heights differ too much" in the network test: by more than one. *)
SettledInDelta ==
    Settled => \A n, m \in Node : Height(n) <= Height(m) + 1
=============================================================================
