-------------------------- MODULE BlockSync_proofs --------------------------
(***************************************************************************)
(* Proofs about module BlockSync, for every set of servers, every topology *)
(* and chains of every length.                                             *)
(***************************************************************************)
EXTENDS BlockSync, TLAPS

(***************************************************************************)
(* The fields a message has are those of its type.                         *)
(***************************************************************************)
LEMMA MessageFields ==
    ASSUME NEW m \in Message
    PROVE  /\ m.type = "block" => m.block \in Block
           /\ m.type = "getBlocks" => m.RequestorID \in Node /\ m.StartHeight \in Nat
           /\ m.type = "blocks" => m.Blocks \in Seq(Block)
           /\ m.type = "subscribe" => m.RequestorID \in Node
           /\ m.type = "subscribed" => m.ProviderId \in Node
  BY DEF Message

LEMMA MessageTypes ==
    /\ \A b \in Block : BlockMessage(b) \in Message
    /\ \A n \in Node, h \in Nat : GetBlocksRequest(n, h) \in Message
    /\ \A bs \in Seq(Block) : GetBlocksResponse(bs) \in Message
    /\ \A n \in Node : SubscribeMessageRequest(n) \in Message
    /\ \A n \in Node : SubscribeMessageResponse(n) \in Message
  BY DEF Message, BlockMessage, GetBlocksRequest, GetBlocksResponse,
     SubscribeMessageRequest, SubscribeMessageResponse

LEMMA ReceiveType ==
    ASSUME TypeOK, NEW n \in Node, NEW t, Receive(n, t)
    PROVE  /\ Head(inbox[n]) \in Message
           /\ Head(inbox[n]).type = t
           /\ inbox' \in [Node -> Seq(Message)]
  <1>1. inbox \in [Node -> Seq(Message)] /\ inbox[n] # <<>>
    BY DEF TypeOK, Receive
  <1>2. Head(inbox[n]) \in Message /\ Tail(inbox[n]) \in Seq(Message)
    BY <1>1
  <1> QED BY <1>1, <1>2 DEF Receive

LEMMA DeliverType ==
    ASSUME TypeOK, NEW e \in Envelope, Deliver(e)
    PROVE  inbox' \in [Node -> Seq(Message)]
  <1>1. inbox \in [Node -> Seq(Message)] /\ e.msg \in Message /\ e.to \in Node
    BY DEF TypeOK, Envelope
  <1> QED BY <1>1 DEF Deliver

LEMMA ToAllType ==
    ASSUME TypeOK, NEW n \in Node, NEW m \in Message
    PROVE  ToAll(n, m) \subseteq Envelope
  <1>1. conns[n] \subseteq Node
    BY DEF TypeOK
  <1> QED BY <1>1 DEF ToAll, Envelope

(***************************************************************************)
(* Type correctness needs that no chain is ever empty: createNewBlock and  *)
(* AddBlock read the last header of the chain.                             *)
(***************************************************************************)
Rooted == \A n \in Node : chain[n] # <<>>

LEMMA LastBlock ==
    ASSUME TypeOK, Rooted, NEW n \in Node
    PROVE  /\ Len(chain[n]) \in DOMAIN chain[n]
           /\ Len(chain[n]) \in Nat \ {0}
           /\ chain[n][Len(chain[n])] \in Block
  BY DEF TypeOK, Rooted

LEMMA AppendChain ==
    ASSUME TypeOK, Rooted, NEW n \in Node, NEW b \in Block,
           chain' = [chain EXCEPT ![n] = Append(@, b)]
    PROVE  /\ chain' \in [Node -> Seq(Block)]
           /\ Rooted'
  <1>1. chain \in [Node -> Seq(Block)] /\ \A m \in Node : chain[m] # <<>>
    BY DEF TypeOK, Rooted
  <1>2. Append(chain[n], b) \in Seq(Block) /\ Append(chain[n], b) # <<>>
    BY <1>1
  <1> QED BY <1>1, <1>2 DEF Rooted

LEMMA NewBlockType ==
    ASSUME TypeOK, Rooted, NEW h \in Hash
    PROVE  NewBlock(h) \in Block
  BY LastBlock, NodeAssumption DEF NewBlock, Block

LEMMA RpcTypeStep ==
    ASSUME TypeOK, Rooted, NEW n \in Node, RpcStep(n)
    PROVE  TypeOK' /\ Rooted'
  <1> USE DEF net
  <1>1. CASE RpcSend(n)
    <2>1. PICK e \in out[n] : Deliver(e) /\ out' = [out EXCEPT ![n] = @ \ {e}]
      BY <1>1 DEF RpcSend
    <2>2. e \in Envelope
      BY <2>1 DEF TypeOK
    <2>3. inbox' \in [Node -> Seq(Message)]
      BY <2>1, <2>2, DeliverType
    <2> QED BY <1>1, <2>1, <2>3 DEF RpcSend, TypeOK, Rooted
  <1>2. CASE HandleSubscribeMessageRequest(n)
    <2>1. inbox' \in [Node -> Seq(Message)]
      BY <1>2, ReceiveType DEF HandleSubscribeMessageRequest
    <2> DEFINE known == {Head(inbox[n]).RequestorID} \intersect conns[n]
               reply == {[msg |-> SubscribeMessageResponse(n), to |-> m] : m \in known}
    <2>2. known \subseteq Node
      BY DEF TypeOK
    <2>3. reply \subseteq Envelope
      BY <2>2, MessageTypes DEF Envelope
    <2>4. peers' = [peers EXCEPT ![n] = @ \union known] /\ out' = [out EXCEPT ![n] = reply]
      BY <1>2 DEF HandleSubscribeMessageRequest
    <2> HIDE DEF known, reply
    <2>5. /\ peers' \in [Node -> SUBSET Node]
          /\ out' \in [Node -> SUBSET Envelope]
      BY <2>2, <2>3, <2>4 DEF TypeOK
    <2> QED BY <1>2, <2>1, <2>5 DEF HandleSubscribeMessageRequest, TypeOK, Rooted
  <1>3. CASE HandleSubscribeMessageResponse(n)
    <2>1. inbox' \in [Node -> Seq(Message)]
      BY <1>3, ReceiveType DEF HandleSubscribeMessageResponse
    <2> DEFINE known == {Head(inbox[n]).ProviderId} \intersect conns[n]
    <2>2. known \subseteq Node
      BY DEF TypeOK
    <2>3. peers' = [peers EXCEPT ![n] = @ \union known]
      BY <1>3 DEF HandleSubscribeMessageResponse
    <2> HIDE DEF known
    <2>4. peers' \in [Node -> SUBSET Node]
      BY <2>2, <2>3 DEF TypeOK
    <2> QED BY <1>3, <2>1, <2>4 DEF HandleSubscribeMessageResponse, TypeOK, Rooted
  <1>4. CASE HandleBlock(n)
    <2> DEFINE b == Head(inbox[n]).block
    <2>1. inbox' \in [Node -> Seq(Message)] /\ b \in Block
      BY <1>4, ReceiveType, MessageFields DEF HandleBlock
    <2>2. CASE /\ chain' = [chain EXCEPT ![n] = Append(@, b)]
               /\ relay' = [relay EXCEPT ![n] = @ \union {b}]
               /\ UNCHANGED out
      <3> HIDE DEF b
      <3>1. chain' \in [Node -> Seq(Block)] /\ Rooted'
        BY <2>1, <2>2, AppendChain
      <3>2. relay' \in [Node -> SUBSET Block]
        BY <2>1, <2>2 DEF TypeOK
      <3> QED BY <1>4, <2>1, <2>2, <3>1, <3>2 DEF HandleBlock, TypeOK
    <2>3. CASE /\ out' = [out EXCEPT ![n] = ToAll(n, GetBlocksRequest(n, StartHeight(n)))]
               /\ UNCHANGED <<chain, relay>>
      <3>1. StartHeight(n) \in Nat
        BY LastBlock DEF StartHeight, Height
      <3>2. ToAll(n, GetBlocksRequest(n, StartHeight(n))) \subseteq Envelope
        BY <3>1, MessageTypes, ToAllType
      <3>3. out' \in [Node -> SUBSET Envelope]
        BY <2>3, <3>2 DEF TypeOK
      <3> QED BY <1>4, <2>1, <2>3, <3>3 DEF HandleBlock, TypeOK, Rooted
    <2>4. CASE UNCHANGED <<chain, relay, out>>
      BY <1>4, <2>1, <2>4 DEF HandleBlock, TypeOK, Rooted
    <2> QED BY <1>4, <2>2, <2>3, <2>4 DEF HandleBlock
  <1>5. CASE HandleGetBlocksRequest(n)
    <2> DEFINE req == Head(inbox[n])
               blocks == SubSeq(chain[n], req.StartHeight + 1, Len(chain[n]))
               reply == [msg |-> GetBlocksResponse(blocks), to |-> req.RequestorID]
    <2>1. /\ inbox' \in [Node -> Seq(Message)]
          /\ req.RequestorID \in Node
          /\ req.StartHeight \in Nat
      BY <1>5, ReceiveType, MessageFields DEF HandleGetBlocksRequest
    <2>2. blocks \in Seq(Block)
      BY <2>1 DEF TypeOK
    <2>3. {reply} \subseteq Envelope
      <3>1. GetBlocksResponse(blocks) \in Message
        BY <2>2, MessageTypes
      <3> QED BY <2>1, <3>1 DEF Envelope
    <2>4. out' = [out EXCEPT ![n] = {reply}] \/ UNCHANGED out
      BY <1>5 DEF HandleGetBlocksRequest
    <2> HIDE DEF req, blocks, reply
    <2>5. out \in [Node -> SUBSET Envelope]
      BY DEF TypeOK
    <2>6. out' \in [Node -> SUBSET Envelope]
      BY <2>3, <2>4, <2>5
    <2> QED BY <1>5, <2>1, <2>6 DEF HandleGetBlocksRequest, TypeOK, Rooted
  <1>6. CASE HandleGetBlocksResponse(n)
    <2>1. inbox' \in [Node -> Seq(Message)] /\ Head(inbox[n]).Blocks \in Seq(Block)
      BY <1>6, ReceiveType, MessageFields DEF HandleGetBlocksResponse
    <2>2. applying' \in [Node -> Seq(Block)]
      BY <1>6, <2>1 DEF HandleGetBlocksResponse, TypeOK
    <2> QED BY <1>6, <2>1, <2>2 DEF HandleGetBlocksResponse, TypeOK, Rooted
  <1>7. CASE ApplyBlock(n)
    <2> DEFINE b == Head(applying[n])
    <2>1. b \in Block /\ Tail(applying[n]) \in Seq(Block) /\ <<>> \in Seq(Block)
      BY <1>7 DEF ApplyBlock, TypeOK
    <2>2. applying' \in [Node -> Seq(Block)]
      BY <1>7, <2>1 DEF ApplyBlock, TypeOK
    <2>3. chain' = [chain EXCEPT ![n] = Append(@, b)] \/ UNCHANGED chain
      BY <1>7 DEF ApplyBlock
    <2> HIDE DEF b
    <2>4. chain' \in [Node -> Seq(Block)] /\ Rooted'
      BY <2>1, <2>3, AppendChain DEF TypeOK, Rooted
    <2> QED BY <1>7, <2>2, <2>4 DEF ApplyBlock, TypeOK
  <1> QED BY <1>1, <1>2, <1>3, <1>4, <1>5, <1>6, <1>7 DEF RpcStep

LEMMA TypeStep == TypeOK /\ Rooted /\ [Next]_vars => TypeOK' /\ Rooted'
  <1> SUFFICES ASSUME TypeOK, Rooted, [Next]_vars PROVE TypeOK' /\ Rooted'
    OBVIOUS
  <1> USE NodeAssumption DEF net
  <1>1. CASE CreateNewBlock
    <2>1. PICK h \in Unused : chain' = [chain EXCEPT ![Validator] = Append(@, NewBlock(h))]
      BY <1>1 DEF CreateNewBlock
    <2>2. NewBlock(h) \in Block
      BY <2>1, NewBlockType DEF Unused
    <2>3. chain' \in [Node -> Seq(Block)] /\ Rooted'
      BY <2>1, <2>2, AppendChain
    <2> QED BY <1>1, <2>3 DEF CreateNewBlock, TypeOK
  <1>2. CASE StoreBlock
    <2>1. chain[Validator][Len(chain[Validator])] \in Block
      BY LastBlock
    <2>2. relay' \in [Node -> SUBSET Block]
      BY <1>2, <2>1 DEF StoreBlock, TypeOK
    <2> QED BY <1>2, <2>2 DEF StoreBlock, TypeOK, Rooted
  <1>3. ASSUME NEW n \in Node, BroadcastBlock(n) PROVE TypeOK' /\ Rooted'
    <2>1. PICK b \in relay[n] :
             /\ relay' = [relay EXCEPT ![n] = @ \ {b}]
             /\ sends' = [sends EXCEPT ![n] = @ \union ToAll(n, BlockMessage(b))]
      BY <1>3 DEF BroadcastBlock
    <2>2. b \in Block
      BY <2>1 DEF TypeOK
    <2>3. ToAll(n, BlockMessage(b)) \subseteq Envelope
      BY <2>2, MessageTypes, ToAllType
    <2>4. relay' \in [Node -> SUBSET Block] /\ sends' \in [Node -> SUBSET Envelope]
      BY <2>1, <2>3 DEF TypeOK
    <2> QED BY <1>3, <2>4 DEF BroadcastBlock, TypeOK, Rooted
  <1>4. ASSUME NEW n \in Node, Send(n) PROVE TypeOK' /\ Rooted'
    <2>1. PICK e \in sends[n] : Deliver(e) /\ sends' = [sends EXCEPT ![n] = @ \ {e}]
      BY <1>4 DEF Send
    <2>2. e \in Envelope
      BY <2>1 DEF TypeOK
    <2>3. inbox' \in [Node -> Seq(Message)]
      BY <2>1, <2>2, DeliverType
    <2> QED BY <1>4, <2>1, <2>3 DEF Send, TypeOK, Rooted
  <1>5. ASSUME NEW n \in Node, RpcStep(n) PROVE TypeOK' /\ Rooted'
    BY <1>5, RpcTypeStep
  <1>6. ASSUME NEW l \in Link, Dial(l[1], l[2]) PROVE TypeOK' /\ Rooted'
    <2>1. l[1] \in Node /\ l[2] \in Node /\ l = <<l[1], l[2]>>
      OBVIOUS
    <2>2. CASE Connect(l[1], l[2])
      BY <2>1, <2>2 DEF Connect, TypeOK, Rooted
    <2>3. CASE ConnectBack(l[1], l[2])
      BY <2>1, <2>3 DEF ConnectBack, TypeOK, Rooted
    <2>4. CASE Subscribe(l[1], l[2])
      <3>1. [msg |-> SubscribeMessageRequest(l[1]), to |-> l[2]] \in Envelope
        BY <2>1, MessageTypes DEF Envelope
      <3>2. inbox' \in [Node -> Seq(Message)]
        BY <2>4, <3>1, DeliverType DEF Subscribe
      <3> QED BY <2>1, <2>4, <3>2 DEF Subscribe, TypeOK, Rooted
    <2> QED BY <1>6, <2>2, <2>3, <2>4 DEF Dial
  <1>7. CASE UNCHANGED vars
    BY <1>7 DEF vars, TypeOK, Rooted
  <1> QED BY <1>1, <1>2, <1>3, <1>4, <1>5, <1>6, <1>7 DEF Next

LEMMA TypeInit == Init => TypeOK /\ Rooted
  <1> SUFFICES ASSUME Init PROVE TypeOK /\ Rooted
    OBVIOUS
  <1>1. Genesis \in Block
    BY NodeAssumption DEF Genesis, Block
  <1>2. <<Genesis>> \in Seq(Block) /\ <<Genesis>> # <<>>
    BY <1>1
  <1>3. \A n \in Node : Neighbours(n) \subseteq Node
    BY DEF Neighbours
  <1>4. /\ chain \in [Node -> Seq(Block)] /\ Rooted
        /\ inbox \in [Node -> Seq(Message)] /\ applying \in [Node -> Seq(Block)]
    BY <1>2 DEF Init, Rooted
  <1>5. conns \in [Node -> SUBSET Node] /\ peers \in [Node -> SUBSET Node]
    BY <1>3 DEF Init
  <1>6. /\ relay \in [Node -> SUBSET Block] /\ sends \in [Node -> SUBSET Envelope]
        /\ out \in [Node -> SUBSET Envelope]
    BY DEF Init
  <1> QED BY <1>4, <1>5, <1>6, NodeAssumption DEF Init, TypeOK

(***************************************************************************)
(* Every message, goroutine and chain has the type its declaration gives   *)
(* it, in every network.                                                   *)
(***************************************************************************)
THEOREM TypeCorrect == Spec => []TypeOK
  <1>1. Init => TypeOK /\ Rooted
    BY TypeInit
  <1>2. TypeOK /\ Rooted /\ [Next]_vars => TypeOK' /\ Rooted'
    BY TypeStep
  <1> QED BY <1>1, <1>2, PTL DEF Spec

-----------------------------------------------------------------------------
(***************************************************************************)
(* Agreement.  PrefixOfValidator is not inductive: a chain grows by what   *)
(* it is sent, so InFlightStored must hold with it; that needs the heights *)
(* to number the validator's chain, and no other server to have the block  *)
(* the validator is still storing.                                         *)
(***************************************************************************)
Numbered == \A i \in DOMAIN chain[Validator] : chain[Validator][i].Height = i - 1

Behind ==
    storing => \A n \in Node \ {Validator} : Len(chain[n]) < Len(chain[Validator])

Agreement == TypeOK /\ Rooted /\ Numbered /\ PrefixOfValidator /\ Behind

AgreementInv == Agreement /\ InFlightStored

(***************************************************************************)
(* A published block that fits is the next one of the validator's chain,   *)
(* so the validator itself never adds a block it was sent.                 *)
(***************************************************************************)
LEMMA FitsIsNext ==
    ASSUME Agreement, NEW n \in Node, NEW b \in Block, Published(b), Fits(n, b)
    PROVE  /\ n # Validator
           /\ Len(chain[n]) + 1 \in DOMAIN chain[Validator]
           /\ b = chain[Validator][Len(chain[n]) + 1]
           /\ storing => Len(chain[n]) + 1 < Len(chain[Validator])
  <1>1. chain \in [Node -> Seq(Block)] /\ Validator \in Node
    BY NodeAssumption DEF Agreement, TypeOK
  <1>2. Len(chain[n]) \in Nat /\ Len(chain[Validator]) \in Nat
    BY <1>1
  <1>3. b.Height = Len(chain[n]) /\ b.Height + 1 = Len(chain[n]) + 1
    BY <1>2 DEF Fits, Height
  <1>4. b.Height + 1 \in 1 .. Len(chain[Validator])
    BY <1>1, <1>2 DEF Published
  <1>5. n # Validator
    BY <1>2, <1>3, <1>4
  <1>6. storing => Len(chain[n]) + 1 < Len(chain[Validator])
    BY <1>2, <1>3 DEF Published, Height
  <1> QED BY <1>3, <1>5, <1>6 DEF Published

LEMMA AppendAgrees ==
    ASSUME Agreement, NEW n \in Node, NEW b \in Block, Published(b), Fits(n, b),
           chain' = [chain EXCEPT ![n] = Append(@, b)], storing' = storing
    PROVE  /\ chain'[Validator] = chain[Validator]
           /\ Numbered' /\ PrefixOfValidator' /\ Behind'
  <1>1. chain \in [Node -> Seq(Block)] /\ Validator \in Node
    BY NodeAssumption DEF Agreement, TypeOK
  <1>2. /\ n # Validator
        /\ Len(chain[n]) + 1 \in DOMAIN chain[Validator]
        /\ b = chain[Validator][Len(chain[n]) + 1]
        /\ storing => Len(chain[n]) + 1 < Len(chain[Validator])
    BY FitsIsNext
  <1>3. chain'[Validator] = chain[Validator]
    BY <1>1, <1>2
  <1>4. Numbered'
    BY <1>3 DEF Agreement, Numbered
  <1>5. ASSUME NEW m \in Node
        PROVE  /\ Len(chain'[m]) <= Len(chain[Validator])
               /\ \A i \in DOMAIN chain'[m] : chain'[m][i] = chain[Validator][i]
               /\ storing /\ m # Validator => Len(chain'[m]) < Len(chain[Validator])
    <2>1. CASE m # n
      <3>1. chain'[m] = chain[m]
        BY <1>1, <2>1
      <3> QED BY <3>1 DEF Agreement, PrefixOfValidator, Behind
    <2>2. CASE m = n
      <3>1. chain'[m] = Append(chain[n], b)
        BY <1>1, <2>2
      <3>2. /\ Len(chain'[m]) = Len(chain[n]) + 1
            /\ DOMAIN chain'[m] = 1 .. (Len(chain[n]) + 1)
        BY <1>1, <3>1
      <3>3. ASSUME NEW i \in DOMAIN chain'[m] PROVE chain'[m][i] = chain[Validator][i]
        <4>1. CASE i = Len(chain[n]) + 1
          BY <1>1, <1>2, <3>1, <4>1
        <4>2. CASE i # Len(chain[n]) + 1
          <5>1. i \in 1 .. Len(chain[n]) /\ i \in DOMAIN chain[n]
            BY <1>1, <3>2, <4>2
          <5>2. chain'[m][i] = chain[n][i]
            BY <1>1, <3>1, <5>1
          <5> QED BY <5>1, <5>2 DEF Agreement, PrefixOfValidator
        <4> QED BY <4>1, <4>2
      <3>4. Len(chain[n]) + 1 <= Len(chain[Validator])
        BY <1>1, <1>2
      <3> QED BY <1>2, <3>2, <3>3, <3>4
    <2> QED BY <2>1, <2>2
  <1>6. PrefixOfValidator'
    BY <1>3, <1>5 DEF PrefixOfValidator
  <1>7. Behind'
    BY <1>3, <1>5 DEF Behind
  <1> QED BY <1>3, <1>4, <1>6, <1>7

LEMMA CreateAgrees ==
    ASSUME Agreement, CreateNewBlock
    PROVE  /\ \E b \in Block : chain'[Validator] = Append(chain[Validator], b)
           /\ Numbered' /\ PrefixOfValidator' /\ Behind'
  <1>1. chain \in [Node -> Seq(Block)] /\ Validator \in Node
    BY NodeAssumption DEF Agreement, TypeOK
  <1>2. PICK h \in Unused : chain' = [chain EXCEPT ![Validator] = Append(@, NewBlock(h))]
    BY DEF CreateNewBlock
  <1> DEFINE b == NewBlock(h)
             len == Len(chain[Validator])
  <1>3. b \in Block
    BY <1>2, NewBlockType DEF Unused, Agreement
  <1>4. /\ len \in Nat \ {0}
        /\ b.Height = len
    <2>1. len \in Nat \ {0} /\ len \in DOMAIN chain[Validator]
      BY <1>1, LastBlock DEF Agreement
    <2>2. chain[Validator][len].Height = len - 1
      BY <2>1 DEF Agreement, Numbered
    <2> QED BY <2>1, <2>2 DEF NewBlock
  <1> HIDE DEF b
  <1>5. chain'[Validator] = Append(chain[Validator], b)
    BY <1>1, <1>2 DEF b
  <1>6. /\ Len(chain'[Validator]) = len + 1
        /\ DOMAIN chain'[Validator] = 1 .. (len + 1)
        /\ chain'[Validator][len + 1] = b
        /\ \A i \in 1 .. len : chain'[Validator][i] = chain[Validator][i]
    BY <1>1, <1>3, <1>5
  <1>7. Numbered'
    <2> SUFFICES ASSUME NEW i \in DOMAIN chain'[Validator]
                 PROVE  chain'[Validator][i].Height = i - 1
      BY DEF Numbered
    <2>1. CASE i = len + 1
      BY <1>4, <1>6, <2>1
    <2>2. CASE i # len + 1
      <3>1. i \in 1 .. len /\ i \in DOMAIN chain[Validator]
        BY <1>1, <1>4, <1>6, <2>2
      <3> QED BY <1>6, <3>1 DEF Agreement, Numbered
    <2> QED BY <2>1, <2>2
  <1>8. ASSUME NEW m \in Node, m # Validator
        PROVE  /\ chain'[m] = chain[m]
               /\ Len(chain[m]) \in Nat
               /\ DOMAIN chain[m] = 1 .. Len(chain[m])
               /\ Len(chain[m]) <= len
               /\ Len(chain[m]) < Len(chain'[Validator])
    <2>1. chain'[m] = chain[m]
      BY <1>1, <1>2, <1>8
    <2>2. Len(chain[m]) \in Nat /\ DOMAIN chain[m] = 1 .. Len(chain[m])
      BY <1>1
    <2>3. Len(chain[m]) <= len
      BY DEF Agreement, PrefixOfValidator
    <2> QED BY <1>4, <1>6, <2>1, <2>2, <2>3
  <1>9. PrefixOfValidator'
    <2> SUFFICES ASSUME NEW m \in Node
                 PROVE  /\ Len(chain'[m]) <= Len(chain'[Validator])
                        /\ \A i \in DOMAIN chain'[m] : chain'[m][i] = chain'[Validator][i]
      BY DEF PrefixOfValidator
    <2>1. CASE m = Validator
      BY <1>4, <1>6, <2>1
    <2>2. CASE m # Validator
      <3>1. /\ chain'[m] = chain[m] /\ Len(chain[m]) < Len(chain'[Validator])
            /\ DOMAIN chain[m] = 1 .. Len(chain[m]) /\ Len(chain[m]) <= len
            /\ Len(chain[m]) \in Nat
        BY <1>8, <2>2
      <3>2. ASSUME NEW i \in DOMAIN chain[m] PROVE chain[m][i] = chain'[Validator][i]
        <4>1. i \in 1 .. len
          BY <1>4, <3>1
        <4>2. chain[m][i] = chain[Validator][i]
          BY DEF Agreement, PrefixOfValidator
        <4> QED BY <1>6, <4>1, <4>2
      <3> QED BY <1>4, <1>6, <3>1, <3>2
    <2> QED BY <2>1, <2>2
  <1>10. Behind'
    BY <1>8 DEF Behind
  <1> QED BY <1>3, <1>5, <1>7, <1>9, <1>10

(***************************************************************************)
(* A published block stays published.  PublishedThen and the other two     *)
(* read the chain after the step and the rest as it is given to them.      *)
(***************************************************************************)
Grow ==
    \/ chain'[Validator] = chain[Validator] /\ (storing' => storing)
    \/ ~storing /\ \E b \in Block : chain'[Validator] = Append(chain[Validator], b)

PublishedThen(b) ==
    /\ b.Height + 1 \in DOMAIN chain'[Validator]
    /\ chain'[Validator][b.Height + 1] = b
    /\ storing' => b.Height < Len(chain'[Validator]) - 1

MessageThen(m) ==
    /\ m.type = "block" => PublishedThen(m.block)
    /\ m.type = "blocks" => \A i \in DOMAIN m.Blocks : PublishedThen(m.Blocks[i])

InboxThen(f) == \A n \in Node : \A i \in DOMAIN f[n] : MessageThen(f[n][i])

LEMMA PublishedStable ==
    ASSUME TypeOK, Grow, NEW b \in Block, Published(b)
    PROVE  PublishedThen(b)
  <1>1. chain[Validator] \in Seq(Block) /\ b.Height \in Nat
    BY NodeAssumption DEF TypeOK, Block
  <1>2. CASE chain'[Validator] = chain[Validator] /\ (storing' => storing)
    BY <1>2 DEF Published, PublishedThen, Height
  <1>3. CASE ~storing /\ \E c \in Block : chain'[Validator] = Append(chain[Validator], c)
    <2>1. PICK c \in Block : chain'[Validator] = Append(chain[Validator], c)
      BY <1>3
    <2>2. b.Height + 1 \in 1 .. Len(chain[Validator]) /\ Len(chain[Validator]) \in Nat
      BY <1>1 DEF Published
    <2>3. /\ Len(chain'[Validator]) = Len(chain[Validator]) + 1
          /\ DOMAIN chain'[Validator] = 1 .. (Len(chain[Validator]) + 1)
          /\ chain'[Validator][b.Height + 1] = chain[Validator][b.Height + 1]
      BY <1>1, <2>1, <2>2
    <2> QED BY <1>1, <2>2, <2>3 DEF Published, PublishedThen
  <1> QED BY <1>2, <1>3 DEF Grow

LEMMA MessageStable ==
    ASSUME TypeOK, Grow, NEW m \in Message, MessagePublished(m)
    PROVE  MessageThen(m)
  <1>1. ASSUME m.type = "block" PROVE PublishedThen(m.block)
    BY <1>1, MessageFields, PublishedStable DEF MessagePublished
  <1>2. ASSUME m.type = "blocks", NEW i \in DOMAIN m.Blocks
        PROVE  PublishedThen(m.Blocks[i])
    <2>1. m.Blocks \in Seq(Block)
      BY <1>2, MessageFields
    <2>2. m.Blocks[i] \in Block
      BY <1>2, <2>1
    <2> QED BY <1>2, <2>2, PublishedStable DEF MessagePublished
  <1> QED BY <1>1, <1>2 DEF MessageThen

LEMMA HeldStable ==
    ASSUME TypeOK, Grow, InFlightStored
    PROVE  /\ \A n \in Node : \A b \in relay[n] : PublishedThen(b)
           /\ \A n \in Node : \A e \in sends[n] : MessageThen(e.msg)
           /\ \A n \in Node : \A e \in out[n] : MessageThen(e.msg)
           /\ InboxThen(inbox)
           /\ \A n \in Node : \A i \in DOMAIN applying[n] : PublishedThen(applying[n][i])
  <1>1. ASSUME NEW n \in Node, NEW b \in relay[n] PROVE PublishedThen(b)
    <2>1. b \in Block
      BY DEF TypeOK
    <2> QED BY <2>1, PublishedStable DEF InFlightStored
  <1>2. ASSUME NEW n \in Node, NEW e \in sends[n] \union out[n] PROVE MessageThen(e.msg)
    <2>1. e \in Envelope
      BY DEF TypeOK
    <2>2. e.msg \in Message
      BY <2>1 DEF Envelope
    <2> QED BY <2>2, MessageStable DEF InFlightStored
  <1>3. ASSUME NEW n \in Node, NEW i \in DOMAIN inbox[n] PROVE MessageThen(inbox[n][i])
    <2>1. inbox[n] \in Seq(Message)
      BY DEF TypeOK
    <2>2. inbox[n][i] \in Message
      BY <2>1
    <2> QED BY <2>2, MessageStable DEF InFlightStored
  <1>4. ASSUME NEW n \in Node, NEW i \in DOMAIN applying[n]
        PROVE  PublishedThen(applying[n][i])
    <2>1. applying[n] \in Seq(Block)
      BY DEF TypeOK
    <2>2. applying[n][i] \in Block
      BY <2>1
    <2> QED BY <2>2, PublishedStable DEF InFlightStored
  <1> QED BY <1>1, <1>2, <1>3, <1>4 DEF InboxThen

LEMMA HeldNext ==
    ASSUME \A n \in Node : \A b \in relay'[n] : PublishedThen(b),
           \A n \in Node : \A e \in sends'[n] : MessageThen(e.msg),
           \A n \in Node : \A e \in out'[n] : MessageThen(e.msg),
           InboxThen(inbox'),
           \A n \in Node : \A i \in DOMAIN applying'[n] : PublishedThen(applying'[n][i])
    PROVE  InFlightStored'
  BY DEF InFlightStored, Published, MessagePublished, PublishedThen, MessageThen,
         InboxThen, Height

LEMMA DeliverThen ==
    ASSUME TypeOK, InboxThen(inbox), NEW e \in Envelope, Deliver(e), MessageThen(e.msg)
    PROVE  InboxThen(inbox')
  <1>1. inbox \in [Node -> Seq(Message)] /\ e.to \in Node /\ e.msg \in Message
    BY DEF TypeOK, Envelope
  <1> SUFFICES ASSUME NEW n \in Node, NEW i \in DOMAIN inbox'[n]
               PROVE  MessageThen(inbox'[n][i])
    BY DEF InboxThen
  <1>2. CASE n # e.to
    <2>1. inbox'[n] = inbox[n]
      BY <1>1, <1>2 DEF Deliver
    <2> QED BY <2>1 DEF InboxThen
  <1>3. CASE n = e.to
    <2>1. inbox'[n] = Append(inbox[n], e.msg)
      BY <1>1, <1>3 DEF Deliver
    <2>2. \/ i \in DOMAIN inbox[n] /\ inbox'[n][i] = inbox[n][i]
          \/ inbox'[n][i] = e.msg
      BY <1>1, <2>1
    <2> QED BY <2>2 DEF InboxThen
  <1> QED BY <1>2, <1>3

LEMMA ReceiveThen ==
    ASSUME TypeOK, InboxThen(inbox), NEW n \in Node, NEW t, Receive(n, t)
    PROVE  InboxThen(inbox') /\ MessageThen(Head(inbox[n]))
  <1>1. inbox \in [Node -> Seq(Message)] /\ inbox[n] # <<>>
    BY DEF TypeOK, Receive
  <1>2. Head(inbox[n]) = inbox[n][1] /\ 1 \in DOMAIN inbox[n]
    BY <1>1
  <1>3. ASSUME NEW m \in Node, NEW i \in DOMAIN inbox'[m]
        PROVE  MessageThen(inbox'[m][i])
    <2>1. CASE m # n
      <3>1. inbox'[m] = inbox[m]
        BY <1>1, <2>1 DEF Receive
      <3> QED BY <3>1 DEF InboxThen
    <2>2. CASE m = n
      <3>1. inbox'[m] = Tail(inbox[m])
        BY <1>1, <2>2 DEF Receive
      <3>2. i + 1 \in DOMAIN inbox[m] /\ inbox'[m][i] = inbox[m][i + 1]
        BY <1>1, <2>2, <3>1
      <3> QED BY <3>2 DEF InboxThen
    <2> QED BY <2>1, <2>2
  <1> QED BY <1>2, <1>3 DEF InboxThen

(***************************************************************************)
(* The part of the invariant that TypeStep does not give.                  *)
(***************************************************************************)
Agrees == Numbered /\ PrefixOfValidator /\ Behind /\ InFlightStored

LEMMA SameChains ==
    ASSUME Agreement, UNCHANGED chain, storing' => storing
    PROVE  Grow /\ Numbered' /\ PrefixOfValidator' /\ Behind'
  BY DEF Agreement, Grow, Numbered, PrefixOfValidator, Behind

LEMMA AddedBlock ==
    ASSUME Agreement, NEW n \in Node, NEW b \in Block, Published(b), UNCHANGED storing,
           chain' = IF Fits(n, b) THEN [chain EXCEPT ![n] = Append(@, b)] ELSE chain
    PROVE  Grow /\ Numbered' /\ PrefixOfValidator' /\ Behind'
  <1>1. CASE Fits(n, b)
    BY <1>1, AppendAgrees DEF Grow
  <1>2. CASE ~Fits(n, b)
    BY <1>2, SameChains
  <1> QED BY <1>1, <1>2

LEMMA SuffixElement ==
    ASSUME NEW s \in Seq(Block), NEW from \in Nat,
           NEW i \in DOMAIN SubSeq(s, from + 1, Len(s))
    PROVE  /\ i \in Nat \ {0}
           /\ from + i \in DOMAIN s
           /\ from + i <= Len(s)
           /\ SubSeq(s, from + 1, Len(s))[i] = s[from + i]
           /\ s[from + i] \in Block
  <1>1. Len(s) \in Nat /\ DOMAIN s = 1 .. Len(s)
    OBVIOUS
  <1>2. CASE from + 1 > Len(s)
    <2>1. SubSeq(s, from + 1, Len(s)) = <<>>
      BY <1>1, <1>2
    <2> QED BY <2>1
  <1>3. CASE from + 1 <= Len(s)
    <2>1. DOMAIN SubSeq(s, from + 1, Len(s)) = 1 .. (Len(s) - from)
      BY <1>1, <1>3
    <2>2. i \in 1 .. (Len(s) - from)
      BY <2>1
    <2>3. SubSeq(s, from + 1, Len(s))[i] = s[from + i]
      BY <1>1, <1>3, <2>2
    <2> QED BY <1>1, <2>2, <2>3
  <1> QED BY <1>1, <1>2, <1>3

LEMMA RpcAgreementStep ==
    ASSUME AgreementInv, NEW n \in Node, RpcStep(n)
    PROVE  Agrees'
  <1>0. Agreement /\ TypeOK /\ InFlightStored
    BY DEF AgreementInv, Agreement
  <1> USE DEF net, Agrees
  <1>1. CASE RpcSend(n)
    <2>1. PICK e \in out[n] : Deliver(e) /\ out' = [out EXCEPT ![n] = @ \ {e}]
      BY <1>1 DEF RpcSend
    <2>2. Grow /\ Numbered' /\ PrefixOfValidator' /\ Behind'
      BY <1>0, <1>1, SameChains DEF RpcSend
    <2>3. e \in Envelope /\ MessageThen(e.msg)
      BY <1>0, <2>1, <2>2, HeldStable DEF TypeOK
    <2>4. InboxThen(inbox')
      BY <1>0, <2>1, <2>2, <2>3, HeldStable, DeliverThen
    <2>5. \A m \in Node : out'[m] \subseteq out[m]
      BY <1>0, <2>1 DEF TypeOK
    <2>6. InFlightStored'
      BY <1>0, <1>1, <2>2, <2>4, <2>5, HeldStable, HeldNext DEF RpcSend
    <2> QED BY <2>2, <2>6
  <1>2. CASE HandleSubscribeMessageRequest(n)
    <2>1. Grow /\ Numbered' /\ PrefixOfValidator' /\ Behind'
      BY <1>0, <1>2, SameChains DEF HandleSubscribeMessageRequest
    <2>2. InboxThen(inbox')
      BY <1>0, <1>2, <2>1, HeldStable, ReceiveThen DEF HandleSubscribeMessageRequest
    <2>3. MessageThen(SubscribeMessageResponse(n))
      BY DEF MessageThen, SubscribeMessageResponse
    <2>4. \A m \in Node : \A e \in out'[m] : e \in out[m] \/ e.msg = SubscribeMessageResponse(n)
      BY <1>0, <1>2 DEF HandleSubscribeMessageRequest, TypeOK
    <2>5. \A m \in Node : \A e \in out'[m] : MessageThen(e.msg)
      BY <1>0, <2>1, <2>3, <2>4, HeldStable
    <2>6. InFlightStored'
      BY <1>0, <1>2, <2>1, <2>2, <2>5, HeldStable, HeldNext
         DEF HandleSubscribeMessageRequest
    <2> QED BY <2>1, <2>6
  <1>3. CASE HandleSubscribeMessageResponse(n)
    <2>1. Grow /\ Numbered' /\ PrefixOfValidator' /\ Behind'
      BY <1>0, <1>3, SameChains DEF HandleSubscribeMessageResponse
    <2>2. InboxThen(inbox')
      BY <1>0, <1>3, <2>1, HeldStable, ReceiveThen DEF HandleSubscribeMessageResponse
    <2>3. InFlightStored'
      BY <1>0, <1>3, <2>1, <2>2, HeldStable, HeldNext
         DEF HandleSubscribeMessageResponse
    <2> QED BY <2>1, <2>3
  <1>4. CASE HandleBlock(n)
    <2> DEFINE b == Head(inbox[n]).block
    <2>1. Receive(n, "block")
      BY <1>4 DEF HandleBlock
    <2>2. b \in Block
      BY <1>0, <2>1, ReceiveType, MessageFields
    <2>3. Published(b)
      <3>1. inbox[n] \in Seq(Message) /\ inbox[n] # <<>>
        BY <1>0, <2>1 DEF TypeOK, Receive
      <3>2. Head(inbox[n]) = inbox[n][1] /\ 1 \in DOMAIN inbox[n]
        BY <3>1
      <3>3. MessagePublished(Head(inbox[n]))
        BY <1>0, <3>2 DEF InFlightStored
      <3> QED BY <2>1, <3>3 DEF MessagePublished, Receive
    <2>4. /\ chain' = IF Fits(n, b) THEN [chain EXCEPT ![n] = Append(@, b)] ELSE chain
          /\ UNCHANGED <<storing, sends, applying>>
      <3>1. b.Height \in Nat /\ Height(n) + 1 \in Int
        BY <1>0, <2>2 DEF TypeOK, Height, Block
      <3>2. ~(Fits(n, b) /\ OutOfSync(n, b))
        BY <3>1 DEF Fits, OutOfSync
      <3> QED BY <1>4, <3>2 DEF HandleBlock
    <2>5. /\ relay' = relay \/ relay' = [relay EXCEPT ![n] = @ \union {b}]
          /\ \/ out' = out
             \/ out' = [out EXCEPT ![n] = ToAll(n, GetBlocksRequest(n, StartHeight(n)))]
      BY <1>4 DEF HandleBlock
    <2> HIDE DEF b
    <2>6. Grow /\ Numbered' /\ PrefixOfValidator' /\ Behind'
      BY <1>0, <2>2, <2>3, <2>4, AddedBlock
    <2>7. InboxThen(inbox')
      BY <1>0, <2>1, <2>6, HeldStable, ReceiveThen
    <2>8. \A m \in Node : \A c \in relay'[m] : PublishedThen(c)
      <3>1. PublishedThen(b)
        BY <1>0, <2>2, <2>3, <2>6, PublishedStable
      <3>2. \A m \in Node : \A c \in relay'[m] : c \in relay[m] \/ c = b
        <4>1. relay \in [Node -> SUBSET Block]
          BY <1>0 DEF TypeOK
        <4> QED BY <2>5, <4>1
      <3> QED BY <1>0, <2>6, <3>1, <3>2, HeldStable
    <2>9. \A m \in Node : \A e \in out'[m] : MessageThen(e.msg)
      <3> DEFINE req == GetBlocksRequest(n, StartHeight(n))
      <3>1. MessageThen(req)
        BY DEF MessageThen, GetBlocksRequest
      <3>2. \A e \in ToAll(n, req) : e.msg = req
        BY DEF ToAll
      <3> HIDE DEF req
      <3>3. out \in [Node -> SUBSET Envelope]
        BY <1>0 DEF TypeOK
      <3>4. out' = out \/ out' = [out EXCEPT ![n] = ToAll(n, req)]
        BY <2>5 DEF req
      <3>5. \A m \in Node : \A e \in out'[m] : e \in out[m] \/ e \in ToAll(n, req)
        BY <3>3, <3>4
      <3> QED BY <1>0, <2>6, <3>1, <3>2, <3>5, HeldStable
    <2>10. InFlightStored'
      BY <1>0, <2>4, <2>6, <2>7, <2>8, <2>9, HeldStable, HeldNext
    <2> QED BY <2>6, <2>10
  <1>5. CASE HandleGetBlocksRequest(n)
    <2> DEFINE req == Head(inbox[n])
               blocks == SubSeq(chain[n], req.StartHeight + 1, Len(chain[n]))
               reply == [msg |-> GetBlocksResponse(blocks), to |-> req.RequestorID]
    <2>1. Receive(n, "getBlocks")
      BY <1>5 DEF HandleGetBlocksRequest
    <2>2. Grow /\ Numbered' /\ PrefixOfValidator' /\ Behind'
      BY <1>0, <1>5, SameChains DEF HandleGetBlocksRequest
    <2>3. InboxThen(inbox')
      BY <1>0, <2>1, <2>2, HeldStable, ReceiveThen
    <2>4. req.StartHeight \in Nat
      BY <1>0, <2>1, ReceiveType, MessageFields
    <2>5. ASSUME Readable(n, req.StartHeight) PROVE MessageThen(GetBlocksResponse(blocks))
      <3>1. chain[n] \in Seq(Block) /\ chain[Validator] \in Seq(Block)
        BY <1>0, NodeAssumption DEF TypeOK
      <3> DEFINE from == req.StartHeight
                 len == Len(chain[n])
      <3>2. len \in Nat /\ Len(chain[Validator]) \in Nat /\ len <= Len(chain[Validator])
        BY <1>0, <3>1 DEF Agreement, PrefixOfValidator
      <3> HIDE DEF req
      <3>3. ASSUME NEW i \in DOMAIN blocks PROVE PublishedThen(blocks[i])
        <4>1. /\ i \in Nat \ {0}
              /\ from + i \in DOMAIN chain[n]
              /\ from + i <= len
              /\ blocks[i] = chain[n][from + i]
              /\ blocks[i] \in Block
          <5>1. from \in Nat /\ i \in DOMAIN SubSeq(chain[n], from + 1, Len(chain[n]))
            BY <2>4, <3>3
          <5> HIDE DEF from
          <5>2. /\ i \in Nat \ {0}
                /\ from + i \in DOMAIN chain[n]
                /\ from + i <= Len(chain[n])
                /\ SubSeq(chain[n], from + 1, Len(chain[n]))[i] = chain[n][from + i]
                /\ chain[n][from + i] \in Block
            BY <3>1, <5>1, SuffixElement
          <5> QED BY <5>2 DEF from
        <4> HIDE DEF blocks, from, len
        <4>2. /\ blocks[i] = chain[Validator][from + i]
              /\ from + i \in DOMAIN chain[Validator]
          <5>1. from + i \in 1 .. Len(chain[Validator])
            BY <2>4, <3>2, <4>1 DEF from
          <5> QED BY <1>0, <3>1, <4>1, <5>1 DEF Agreement, PrefixOfValidator
        <4>3. blocks[i].Height = (from + i) - 1
          <5>1. \A k \in DOMAIN chain[Validator] : chain[Validator][k].Height = k - 1
            BY <1>0 DEF Agreement, Numbered
          <5>2. chain[Validator][from + i].Height = (from + i) - 1
            BY <4>2, <5>1
          <5>3. blocks[i].Height = chain[Validator][from + i].Height
            BY <4>2
          <5> QED BY <5>2, <5>3, Zenon
        <4>4. storing => from + i < Len(chain[Validator])
          <5>1. CASE n = Validator
            BY <2>4, <2>5, <3>2, <4>1, <5>1 DEF Readable, Height, from, len
          <5>2. CASE n # Validator
            BY <1>0, <2>4, <3>2, <4>1, <5>2 DEF Agreement, Behind, from, len
          <5> QED BY <5>1, <5>2
        <4>5. Published(blocks[i])
          BY <2>4, <3>2, <4>1, <4>2, <4>3, <4>4 DEF Published, Height, from
        <4> QED BY <1>0, <2>2, <4>1, <4>5, PublishedStable
      <3> HIDE DEF blocks
      <3> QED BY <3>3 DEF MessageThen, GetBlocksResponse
    <2>6. \/ Readable(n, req.StartHeight) /\ out' = [out EXCEPT ![n] = {reply}]
          \/ out' = out
      BY <1>5 DEF HandleGetBlocksRequest
    <2>7. reply.msg = GetBlocksResponse(blocks)
      OBVIOUS
    <2> HIDE DEF req, blocks, reply
    <2>8. \A m \in Node : \A e \in out'[m] :
             e \in out[m] \/ (e = reply /\ Readable(n, req.StartHeight))
      <3>1. out \in [Node -> SUBSET Envelope]
        BY <1>0 DEF TypeOK
      <3> QED BY <2>6, <3>1
    <2>9. \A m \in Node : \A e \in out'[m] : MessageThen(e.msg)
      BY <1>0, <2>2, <2>5, <2>7, <2>8, HeldStable
    <2>10. InFlightStored'
      BY <1>0, <1>5, <2>2, <2>3, <2>9, HeldStable, HeldNext DEF HandleGetBlocksRequest
    <2> QED BY <2>2, <2>10
  <1>6. CASE HandleGetBlocksResponse(n)
    <2>1. Receive(n, "blocks")
      BY <1>6 DEF HandleGetBlocksResponse
    <2>2. Grow /\ Numbered' /\ PrefixOfValidator' /\ Behind'
      BY <1>0, <1>6, SameChains DEF HandleGetBlocksResponse
    <2>3. InboxThen(inbox') /\ MessageThen(Head(inbox[n]))
      BY <1>0, <2>1, <2>2, HeldStable, ReceiveThen
    <2> DEFINE bs == Head(inbox[n]).Blocks
    <2>4. \A i \in DOMAIN bs : PublishedThen(bs[i])
      BY <2>1, <2>3 DEF Receive, MessageThen
    <2>5. applying' = [applying EXCEPT ![n] = bs]
      BY <1>6 DEF HandleGetBlocksResponse
    <2> HIDE DEF bs
    <2>6. ASSUME NEW m \in Node, NEW i \in DOMAIN applying'[m]
          PROVE  PublishedThen(applying'[m][i])
      <3>1. applying'[m] = bs \/ applying'[m] = applying[m]
        BY <1>0, <2>5 DEF TypeOK
      <3> QED BY <1>0, <2>2, <2>4, <3>1, HeldStable
    <2>7. InFlightStored'
      BY <1>0, <1>6, <2>2, <2>3, <2>6, HeldStable, HeldNext DEF HandleGetBlocksResponse
    <2> QED BY <2>2, <2>7
  <1>7. CASE ApplyBlock(n)
    <2> DEFINE b == Head(applying[n])
    <2>1. applying \in [Node -> Seq(Block)] /\ applying[n] # <<>>
      BY <1>0, <1>7 DEF ApplyBlock, TypeOK
    <2>2. b = applying[n][1] /\ 1 \in DOMAIN applying[n] /\ b \in Block
      BY <2>1
    <2>3. Published(b)
      BY <1>0, <2>2 DEF InFlightStored
    <2>4. /\ chain' = IF Fits(n, b) THEN [chain EXCEPT ![n] = Append(@, b)] ELSE chain
          /\ UNCHANGED <<storing, inbox, relay, sends, out>>
          /\ \/ applying' = [applying EXCEPT ![n] = Tail(@)]
             \/ applying' = [applying EXCEPT ![n] = <<>>]
      BY <1>7 DEF ApplyBlock
    <2> HIDE DEF b
    <2>5. Grow /\ Numbered' /\ PrefixOfValidator' /\ Behind'
      BY <1>0, <2>2, <2>3, <2>4, AddedBlock
    <2>6. ASSUME NEW m \in Node, NEW i \in DOMAIN applying'[m]
          PROVE  PublishedThen(applying'[m][i])
      <3>1. CASE m # n
        <4>1. applying'[m] = applying[m]
          BY <2>1, <2>4, <3>1
        <4> QED BY <1>0, <2>5, <4>1, HeldStable
      <3>2. CASE m = n
        <4>1. applying'[m] = Tail(applying[m]) \/ applying'[m] = <<>>
          BY <2>1, <2>4, <3>2
        <4>2. i + 1 \in DOMAIN applying[m] /\ applying'[m][i] = applying[m][i + 1]
          BY <2>1, <3>2, <4>1
        <4> QED BY <1>0, <2>5, <4>2, HeldStable
      <3> QED BY <3>1, <3>2
    <2>7. InFlightStored'
      BY <1>0, <2>4, <2>5, <2>6, HeldStable, HeldNext
    <2> QED BY <2>5, <2>7
  <1> QED BY <1>1, <1>2, <1>3, <1>4, <1>5, <1>6, <1>7 DEF RpcStep

LEMMA AgreementStep == AgreementInv /\ [Next]_vars => AgreementInv'
  <1> SUFFICES ASSUME AgreementInv, [Next]_vars PROVE AgreementInv'
    OBVIOUS
  <1>0. Agreement /\ TypeOK /\ Rooted /\ InFlightStored
    BY DEF AgreementInv, Agreement
  <1>1. TypeOK' /\ Rooted'
    BY <1>0, TypeStep
  <1> SUFFICES Agrees'
    BY <1>1 DEF AgreementInv, Agreement, Agrees
  <1> USE DEF net, Agrees
  <1>2. CASE CreateNewBlock
    <2>1. Numbered' /\ PrefixOfValidator' /\ Behind'
      BY <1>0, <1>2, CreateAgrees
    <2>2. Grow
      BY <1>0, <1>2, CreateAgrees DEF Grow, CreateNewBlock
    <2>3. InFlightStored'
      BY <1>0, <1>2, <2>2, HeldStable, HeldNext DEF CreateNewBlock
    <2> QED BY <2>1, <2>3
  <1>3. CASE StoreBlock
    <2>1. Grow /\ Numbered' /\ PrefixOfValidator' /\ Behind'
      BY <1>0, <1>3, SameChains DEF StoreBlock
    <2> DEFINE b == chain[Validator][Len(chain[Validator])]
    <2>2. /\ Validator \in Node /\ Len(chain[Validator]) \in DOMAIN chain[Validator]
          /\ Len(chain[Validator]) \in Nat \ {0}
      BY <1>0, LastBlock, NodeAssumption
    <2>3. b.Height = Len(chain[Validator]) - 1
      BY <1>0, <2>2 DEF Agreement, Numbered
    <2>4. PublishedThen(b)
      <3>1. b.Height + 1 = Len(chain[Validator])
        BY <2>2, <2>3
      <3>2. ~storing' /\ chain' = chain
        BY <1>3 DEF StoreBlock
      <3> QED BY <2>2, <3>1, <3>2 DEF PublishedThen
    <2>5. relay' = [relay EXCEPT ![Validator] = @ \union {b}]
      BY <1>3 DEF StoreBlock
    <2> HIDE DEF b
    <2>6. relay \in [Node -> SUBSET Block]
      BY <1>0 DEF TypeOK
    <2>7. \A n \in Node : \A c \in relay'[n] : c \in relay[n] \/ c = b
      BY <2>5, <2>6
    <2>8. \A n \in Node : \A c \in relay'[n] : PublishedThen(c)
      BY <1>0, <2>1, <2>4, <2>7, HeldStable
    <2>9. InFlightStored'
      BY <1>0, <1>3, <2>1, <2>8, HeldStable, HeldNext DEF StoreBlock
    <2> QED BY <2>1, <2>9
  <1>4. ASSUME NEW n \in Node, BroadcastBlock(n) PROVE Agrees'
    <2>1. Grow /\ Numbered' /\ PrefixOfValidator' /\ Behind'
      BY <1>0, <1>4, SameChains DEF BroadcastBlock
    <2>2. PICK b \in relay[n] :
             /\ relay' = [relay EXCEPT ![n] = @ \ {b}]
             /\ sends' = [sends EXCEPT ![n] = @ \union ToAll(n, BlockMessage(b))]
      BY <1>4 DEF BroadcastBlock
    <2>3. MessageThen(BlockMessage(b))
      BY <1>0, <2>1, HeldStable DEF MessageThen, BlockMessage
    <2>4. relay \in [Node -> SUBSET Block] /\ sends \in [Node -> SUBSET Envelope]
      BY <1>0 DEF TypeOK
    <2>5. \A e \in ToAll(n, BlockMessage(b)) : e.msg = BlockMessage(b)
      BY DEF ToAll
    <2>6. /\ \A m \in Node : relay'[m] \subseteq relay[m]
          /\ \A m \in Node : \A e \in sends'[m] :
                e \in sends[m] \/ e \in ToAll(n, BlockMessage(b))
      BY <2>2, <2>4
    <2>7. \A m \in Node : \A e \in sends'[m] : MessageThen(e.msg)
      BY <1>0, <2>1, <2>3, <2>5, <2>6, HeldStable
    <2>8. InFlightStored'
      BY <1>0, <1>4, <2>1, <2>6, <2>7, HeldStable, HeldNext DEF BroadcastBlock
    <2> QED BY <2>1, <2>8
  <1>5. ASSUME NEW n \in Node, Send(n) PROVE Agrees'
    <2>1. Grow /\ Numbered' /\ PrefixOfValidator' /\ Behind'
      BY <1>0, <1>5, SameChains DEF Send
    <2>2. PICK e \in sends[n] : Deliver(e) /\ sends' = [sends EXCEPT ![n] = @ \ {e}]
      BY <1>5 DEF Send
    <2>3. sends \in [Node -> SUBSET Envelope]
      BY <1>0 DEF TypeOK
    <2>4. e \in Envelope /\ MessageThen(e.msg)
      BY <1>0, <2>1, <2>2, <2>3, HeldStable
    <2>5. InboxThen(inbox')
      BY <1>0, <2>1, <2>2, <2>4, HeldStable, DeliverThen
    <2>6. \A m \in Node : sends'[m] \subseteq sends[m]
      BY <2>2, <2>3
    <2>7. InFlightStored'
      BY <1>0, <1>5, <2>1, <2>5, <2>6, HeldStable, HeldNext DEF Send
    <2> QED BY <2>1, <2>7
  <1>6. ASSUME NEW n \in Node, RpcStep(n) PROVE Agrees'
    BY <1>6, RpcAgreementStep
  <1>7. ASSUME NEW l \in Link, Dial(l[1], l[2]) PROVE Agrees'
    <2>1. Grow /\ Numbered' /\ PrefixOfValidator' /\ Behind'
      BY <1>0, <1>7, SameChains DEF Dial, Connect, ConnectBack, Subscribe
    <2>2. InboxThen(inbox')
      <3>1. CASE UNCHANGED inbox
        BY <1>0, <2>1, <3>1, HeldStable
      <3>2. CASE Subscribe(l[1], l[2])
        <4> DEFINE e == [msg |-> SubscribeMessageRequest(l[1]), to |-> l[2]]
        <4>1. e \in Envelope
          BY NodeAssumption, MessageTypes DEF Envelope
        <4>2. MessageThen(e.msg)
          BY DEF MessageThen, SubscribeMessageRequest
        <4>3. Deliver(e)
          BY <3>2 DEF Subscribe
        <4> HIDE DEF e
        <4> QED BY <1>0, <2>1, <4>1, <4>2, <4>3, HeldStable, DeliverThen
      <3> QED BY <1>7, <3>1, <3>2 DEF Dial, Connect, ConnectBack
    <2>3. UNCHANGED <<relay, sends, out, applying>>
      BY <1>7 DEF Dial, Connect, ConnectBack, Subscribe
    <2>4. InFlightStored'
      BY <1>0, <2>1, <2>2, <2>3, HeldStable, HeldNext
    <2> QED BY <2>1, <2>4
  <1>8. CASE UNCHANGED vars
    <2>1. UNCHANGED <<chain, storing, inbox, relay, sends, out, applying>>
      BY <1>8 DEF vars
    <2>2. Grow /\ Numbered' /\ PrefixOfValidator' /\ Behind'
      BY <1>0, <2>1, SameChains
    <2>3. InFlightStored'
      BY <1>0, <2>1, <2>2, HeldStable, HeldNext
    <2> QED BY <2>2, <2>3
  <1> QED BY <1>2, <1>3, <1>4, <1>5, <1>6, <1>7, <1>8 DEF Next

LEMMA AgreementInit == Init => AgreementInv
  <1> SUFFICES ASSUME Init PROVE AgreementInv
    OBVIOUS
  <1>1. TypeOK /\ Rooted
    BY TypeInit
  <1>2. \A n \in Node : chain[n] = <<Genesis>>
    BY DEF Init
  <1>3. /\ Len(<<Genesis>>) = 1 /\ DOMAIN <<Genesis>> = 1 .. 1
        /\ <<Genesis>>[1] = Genesis /\ Genesis.Height = 0
    BY DEF Genesis
  <1>4. Numbered
    BY <1>2, <1>3, NodeAssumption DEF Numbered
  <1>5. PrefixOfValidator /\ Behind
    BY <1>2, <1>3, NodeAssumption DEF PrefixOfValidator, Behind, Init
  <1>6. InFlightStored
    <2>1. \A n \in Node : /\ relay[n] = {} /\ sends[n] = {} /\ out[n] = {}
                          /\ inbox[n] = <<>> /\ applying[n] = <<>>
      BY DEF Init
    <2>2. DOMAIN <<>> = {}
      OBVIOUS
    <2> QED BY <2>1, <2>2, Zenon DEF InFlightStored
  <1> QED BY <1>1, <1>4, <1>5, <1>6 DEF AgreementInv, Agreement

(***************************************************************************)
(* Agreement: in every network, whatever the topology and whatever order   *)
(* blocks, requests and responses arrive in, every server's chain is a     *)
(* prefix of the validator's.                                              *)
(***************************************************************************)
THEOREM ServersAgree == Spec => []PrefixOfValidator
  <1>1. AgreementInv => PrefixOfValidator
    BY DEF AgreementInv, Agreement
  <1> QED BY <1>1, AgreementInit, AgreementStep, PTL DEF Spec

(***************************************************************************)
(* No block is on its way to a server before the validator can serve it,   *)
(* although its header is visible before persistBlock has stored it.       *)
(***************************************************************************)
THEOREM SentIsStored == Spec => []InFlightStored
  <1>1. AgreementInv => InFlightStored
    BY DEF AgreementInv
  <1> QED BY <1>1, AgreementInit, AgreementStep, PTL DEF Spec
=============================================================================
