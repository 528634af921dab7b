---------------------------- MODULE CatchUp_proofs ---------------------------
(***************************************************************************)
(* How a server of module BlockSync catches up, proved for every set of    *)
(* servers and chains of every length: what is on its way when a           *)
(* GetBlocksRequest is answered, and that nobody is left behind when the   *)
(* network has settled and every server is linked to the validator.        *)
(***************************************************************************)
EXTENDS BlockSync_proofs

(***************************************************************************)
(* The messages in a server's channel, in whatever order.                  *)
(***************************************************************************)
Queued(n) == {inbox[n][i] : i \in DOMAIN inbox[n]}

(***************************************************************************)
(* The blocks of a response have consecutive heights, and the first is not *)
(* above the first height the chain lacks.                                 *)
(***************************************************************************)
Gapless(bs, len) ==
    \A i \in DOMAIN bs : bs[i].Height = bs[1].Height + (i - 1) /\ bs[1].Height <= len

(***************************************************************************)
(* A request asks for nothing above what its sender lacks, and a response  *)
(* on its way to a server closes that server's gap.  The lengths of the    *)
(* chains are given by ch.                                                 *)
(***************************************************************************)
Answers(m, to, ch) ==
    /\ m.type = "getBlocks" => m.StartHeight <= Len(ch[m.RequestorID])
    /\ m.type = "blocks" => Gapless(m.Blocks, Len(ch[to]))

Answered ==
    \A n \in Node :
       /\ \A e \in sends[n] \union out[n] : Answers(e.msg, e.to, chain)
       /\ \A m \in Queued(n) : Answers(m, n, chain)
       /\ Gapless(applying[n], Len(chain[n]))

(***************************************************************************)
(* The hashes link the validator's chain.                                  *)
(***************************************************************************)
Linked ==
    \A i \in DOMAIN chain[Validator] :
       i > 1 => chain[Validator][i].PreviousBlockHash = chain[Validator][i - 1].hash

(***************************************************************************)
(* Connect ends with both transports knowing each other, and a call of     *)
(* Subscribe with each in the other's Peers, unless its messages are still *)
(* under way.                                                              *)
(***************************************************************************)
Mutual ==
    /\ \A l \in dialing : l[2] \in conns[l[1]]
    /\ \A n, m \in Node : m \in conns[n] => <<n, m>> \in dialing \/ n \in conns[m]

Subscribing(n, m) ==
    /\ m \in conns[n] /\ n \in conns[m]
    /\ n \in peers[m] \/ SubscribeMessageRequest(n) \in Queued(m)
    /\ \/ m \in peers[n]
       \/ SubscribeMessageRequest(n) \in Queued(m)
       \/ [msg |-> SubscribeMessageResponse(m), to |-> n] \in out[m]
       \/ SubscribeMessageResponse(m) \in Queued(n)

Joining ==
    /\ Mutual
    /\ dialing \intersect subscribed = {}
    /\ \A n, m \in Node : <<n, m>> \in subscribed => Subscribing(n, m)

(***************************************************************************)
(* Nobody is joining.                                                      *)
(***************************************************************************)
Joins(m) == m.type \in {"subscribe", "subscribed"}

AllJoined ==
    /\ subscribed = Link
    /\ dialing = {}
    /\ \A n \in Node : /\ \A m \in Queued(n) : ~Joins(m)
                       /\ \A e \in out[n] : ~Joins(e.msg)

(***************************************************************************)
(* What will bring a server to the validator's height: the last block on   *)
(* its way, a request on its way to the validator, or the validator's      *)
(* answer on its way back.                                                 *)
(***************************************************************************)
Last == chain[Validator][Len(chain[Validator])]

Asks(m, n) == m.type = "getBlocks" /\ m.RequestorID = n

Reaches(bs, len) == bs # <<>> /\ bs[Len(bs)].Height = len - 1

Completes(m, len) == m.type = "blocks" /\ Reaches(m.Blocks, len)

CatchingUp(n) ==
    \/ Len(chain[n]) = Len(chain[Validator])
    \/ storing
    \/ Last \in relay[Validator]
    \/ [msg |-> BlockMessage(Last), to |-> n] \in sends[Validator]
    \/ BlockMessage(Last) \in Queued(n)
    \/ \E e \in out[n] : e.to = Validator /\ Asks(e.msg, n)
    \/ \E m \in Queued(Validator) : Asks(m, n)
    \/ \E e \in out[Validator] : e.to = n /\ Completes(e.msg, Len(chain[Validator]))
    \/ \E m \in Queued(n) : Completes(m, Len(chain[Validator]))
    \/ Reaches(applying[n], Len(chain[Validator]))

NobodyLeft == fresh /\ AllJoined => \A n \in Node : CatchingUp(n)

-----------------------------------------------------------------------------
(***************************************************************************)
(* What a send and a receive do to the messages in the channels.           *)
(***************************************************************************)
LEMMA QueuedType ==
    ASSUME TypeOK, NEW n \in Node
    PROVE  Queued(n) \subseteq Message
  <1>1. inbox[n] \in Seq(Message)
    BY DEF TypeOK
  <1> QED BY <1>1 DEF Queued

LEMMA AppendRange ==
    ASSUME NEW s \in Seq(Message), NEW m \in Message
    PROVE  {Append(s, m)[i] : i \in DOMAIN Append(s, m)} = {s[i] : i \in DOMAIN s} \union {m}
  <1>1. /\ DOMAIN Append(s, m) = 1 .. (Len(s) + 1) /\ DOMAIN s = 1 .. Len(s)
        /\ Len(s) \in Nat
        /\ Append(s, m)[Len(s) + 1] = m
        /\ \A i \in 1 .. Len(s) : Append(s, m)[i] = s[i]
    OBVIOUS
  <1>2. ASSUME NEW x \in {Append(s, m)[i] : i \in DOMAIN Append(s, m)}
        PROVE  x \in {s[i] : i \in DOMAIN s} \union {m}
    <2>1. PICK i \in 1 .. (Len(s) + 1) : x = Append(s, m)[i]
      BY <1>1
    <2>2. CASE i = Len(s) + 1
      BY <1>1, <2>1, <2>2
    <2>3. CASE i \in 1 .. Len(s)
      BY <1>1, <2>1, <2>3
    <2> QED BY <1>1, <2>2, <2>3
  <1>3. m \in {Append(s, m)[i] : i \in DOMAIN Append(s, m)}
    <2>1. Len(s) + 1 \in DOMAIN Append(s, m)
      BY <1>1
    <2> QED BY <1>1, <2>1
  <1>4. ASSUME NEW i \in DOMAIN s PROVE s[i] \in {Append(s, m)[k] : k \in DOMAIN Append(s, m)}
    <2>1. i \in DOMAIN Append(s, m) /\ Append(s, m)[i] = s[i]
      BY <1>1
    <2> QED BY <2>1
  <1> QED BY <1>2, <1>3, <1>4

LEMMA TailRange ==
    ASSUME NEW s \in Seq(Message), s # <<>>
    PROVE  /\ Head(s) \in {s[i] : i \in DOMAIN s}
           /\ {Tail(s)[i] : i \in DOMAIN Tail(s)} \subseteq {s[i] : i \in DOMAIN s}
           /\ {s[i] : i \in DOMAIN s} \subseteq
                 {Tail(s)[i] : i \in DOMAIN Tail(s)} \union {Head(s)}
  <1>1. /\ Len(s) \in Nat \ {0} /\ DOMAIN s = 1 .. Len(s)
        /\ Head(s) = s[1]
        /\ DOMAIN Tail(s) = 1 .. (Len(s) - 1)
        /\ \A i \in 1 .. (Len(s) - 1) : Tail(s)[i] = s[i + 1]
    OBVIOUS
  <1>2. Head(s) \in {s[i] : i \in DOMAIN s}
    <2>1. 1 \in DOMAIN s
      BY <1>1
    <2> QED BY <1>1, <2>1
  <1>3. ASSUME NEW i \in DOMAIN Tail(s) PROVE Tail(s)[i] \in {s[k] : k \in DOMAIN s}
    <2>1. i + 1 \in DOMAIN s /\ Tail(s)[i] = s[i + 1]
      BY <1>1
    <2> QED BY <2>1
  <1>4. ASSUME NEW i \in DOMAIN s
        PROVE  s[i] \in {Tail(s)[k] : k \in DOMAIN Tail(s)} \union {Head(s)}
    <2>1. CASE i = 1
      BY <1>1, <2>1
    <2>2. CASE i # 1
      <3>1. i - 1 \in 1 .. (Len(s) - 1) /\ (i - 1) + 1 = i
        BY <1>1, <2>2
      <3>2. i - 1 \in DOMAIN Tail(s) /\ Tail(s)[i - 1] = s[i]
        BY <1>1, <3>1
      <3> QED BY <3>2
    <2> QED BY <2>1, <2>2
  <1> QED BY <1>2, <1>3, <1>4

LEMMA DeliverQueued ==
    ASSUME TypeOK, NEW e \in Envelope, Deliver(e), NEW n \in Node
    PROVE  /\ n = e.to => Queued(n)' = Queued(n) \union {e.msg}
           /\ n # e.to => Queued(n)' = Queued(n)
  <1>1. inbox \in [Node -> Seq(Message)] /\ e.to \in Node /\ e.msg \in Message
    BY DEF TypeOK, Envelope
  <1>2. CASE n = e.to
    <2>1. inbox'[n] = Append(inbox[n], e.msg) /\ inbox[n] \in Seq(Message)
      BY <1>1, <1>2 DEF Deliver
    <2> QED BY <1>1, <1>2, <2>1, AppendRange DEF Queued
  <1>3. CASE n # e.to
    <2>1. inbox'[n] = inbox[n]
      BY <1>1, <1>3 DEF Deliver
    <2> QED BY <1>3, <2>1 DEF Queued
  <1> QED BY <1>2, <1>3

LEMMA ReceiveQueued ==
    ASSUME TypeOK, NEW n \in Node, NEW t, Receive(n, t)
    PROVE  /\ Head(inbox[n]) \in Queued(n) /\ Head(inbox[n]).type = t
           /\ Head(inbox[n]) \in Message
           /\ out[n] = {} /\ applying[n] = <<>>
           /\ \A m \in Node : Queued(m)' \subseteq Queued(m)
           /\ \A m \in Node : m # n => Queued(m)' = Queued(m)
           /\ Queued(n) \subseteq Queued(n)' \union {Head(inbox[n])}
  <1>1. inbox \in [Node -> Seq(Message)] /\ inbox[n] \in Seq(Message) /\ inbox[n] # <<>>
    BY DEF TypeOK, Receive
  <1>2. inbox'[n] = Tail(inbox[n])
    BY <1>1 DEF Receive
  <1>3. /\ Head(inbox[n]) \in Queued(n)
        /\ Queued(n)' \subseteq Queued(n)
        /\ Queued(n) \subseteq Queued(n)' \union {Head(inbox[n])}
    BY <1>1, <1>2, TailRange DEF Queued
  <1>4. ASSUME NEW m \in Node, m # n PROVE Queued(m)' = Queued(m)
    <2>1. inbox'[m] = inbox[m]
      BY <1>1, <1>4 DEF Receive
    <2> QED BY <2>1 DEF Queued
  <1>5. Head(inbox[n]).type = t /\ out[n] = {} /\ applying[n] = <<>>
    BY DEF Receive
  <1>6. Head(inbox[n]) \in Message
    BY <1>3, QueuedType
  <1> QED BY <1>3, <1>4, <1>5, <1>6

LEMMA SameQueued ==
    ASSUME inbox' = inbox, NEW n
    PROVE  Queued(n)' = Queued(n)
  BY DEF Queued

-----------------------------------------------------------------------------
(***************************************************************************)
(* Chains only grow, by one block of one server at a time.                 *)
(***************************************************************************)
LEMMA ChainChange ==
    ASSUME TypeOK, Rooted, [Next]_vars
    PROVE  \/ UNCHANGED chain
           \/ \E n \in Node, b \in Block : chain' = [chain EXCEPT ![n] = Append(@, b)]
  <1> DEFINE Goal == \/ UNCHANGED chain
                     \/ \E n \in Node, b \in Block :
                           chain' = [chain EXCEPT ![n] = Append(@, b)]
  <1>1. ASSUME CreateNewBlock PROVE Goal
    BY <1>1, NewBlockType, NodeAssumption DEF CreateNewBlock, Unused
  <1>2. ASSUME NEW n \in Node, HandleBlock(n) PROVE Goal
    <2>1. Head(inbox[n]).block \in Block
      BY <1>2, ReceiveQueued, MessageFields DEF HandleBlock
    <2> QED BY <1>2, <2>1 DEF HandleBlock
  <1>3. ASSUME NEW n \in Node, ApplyBlock(n) PROVE Goal
    <2>1. applying[n] \in Seq(Block) /\ applying[n] # <<>>
      BY <1>3 DEF ApplyBlock, TypeOK
    <2>2. Head(applying[n]) \in Block
      BY <2>1
    <2> QED BY <1>3, <2>2 DEF ApplyBlock
  <1>4. ASSUME NEW n \in Node, RpcStep(n) PROVE Goal
    BY <1>2, <1>3, <1>4 DEF RpcStep, RpcSend, HandleSubscribeMessageRequest,
       HandleSubscribeMessageResponse, HandleGetBlocksRequest, HandleGetBlocksResponse
  <1>5. ASSUME NEW n \in Node, BroadcastBlock(n) \/ Send(n) PROVE Goal
    BY <1>5 DEF BroadcastBlock, Send
  <1>6. ASSUME NEW l \in Link, Dial(l[1], l[2]) PROVE Goal
    BY <1>6 DEF Dial, Connect, ConnectBack, Subscribe
  <1>7. ASSUME StoreBlock \/ UNCHANGED vars PROVE Goal
    BY <1>7 DEF StoreBlock, vars
  <1> HIDE DEF Goal
  <1>8. Goal
    BY <1>1, <1>4, <1>5, <1>6, <1>7 DEF Next
  <1> QED BY <1>8 DEF Goal

Grown ==
    \A n \in Node : /\ Len(chain[n]) \in Nat /\ Len(chain'[n]) \in Nat
                    /\ Len(chain[n]) <= Len(chain'[n])

LEMMA ChainsGrow ==
    ASSUME TypeOK, Rooted, [Next]_vars
    PROVE  Grown
  <1>1. chain \in [Node -> Seq(Block)]
    BY DEF TypeOK
  <1> SUFFICES ASSUME NEW m \in Node
               PROVE  /\ Len(chain[m]) \in Nat /\ Len(chain'[m]) \in Nat
                      /\ Len(chain[m]) <= Len(chain'[m])
    BY DEF Grown
  <1>2. CASE UNCHANGED chain
    BY <1>1, <1>2
  <1>3. ASSUME NEW n \in Node, NEW b \in Block, chain' = [chain EXCEPT ![n] = Append(@, b)]
        PROVE  /\ Len(chain[m]) \in Nat /\ Len(chain'[m]) \in Nat
               /\ Len(chain[m]) <= Len(chain'[m])
    <2>1. chain'[m] = IF m = n THEN Append(chain[m], b) ELSE chain[m]
      BY <1>1, <1>3
    <2>2. chain[m] \in Seq(Block)
      BY <1>1
    <2>3. Len(Append(chain[m], b)) = Len(chain[m]) + 1 /\ Len(chain[m]) \in Nat
      BY <2>2
    <2> QED BY <2>1, <2>3
  <1> QED BY <1>2, <1>3, ChainChange

-----------------------------------------------------------------------------
(***************************************************************************)
(* Responses.                                                              *)
(***************************************************************************)
LEMMA GaplessStable ==
    ASSUME NEW bs \in Seq(Block), NEW k \in Nat, NEW l \in Nat, k <= l, Gapless(bs, k)
    PROVE  Gapless(bs, l)
  <1> SUFFICES ASSUME NEW i \in DOMAIN bs
               PROVE  bs[i].Height = bs[1].Height + (i - 1) /\ bs[1].Height <= l
    BY DEF Gapless
  <1>1. 1 \in DOMAIN bs /\ bs[1] \in Block
    OBVIOUS
  <1>2. bs[1].Height \in Nat
    BY <1>1 DEF Block
  <1>3. bs[i].Height = bs[1].Height + (i - 1) /\ bs[1].Height <= k
    BY DEF Gapless
  <1> QED BY <1>2, <1>3

LEMMA AnswersStable ==
    ASSUME Grown, NEW m \in Message, NEW to \in Node, Answers(m, to, chain)
    PROVE  Answers(m, to, chain')
  <1>1. ASSUME m.type = "getBlocks" PROVE m.StartHeight <= Len(chain'[m.RequestorID])
    <2>1. m.RequestorID \in Node /\ m.StartHeight \in Nat
      BY <1>1, MessageFields
    <2>2. m.StartHeight <= Len(chain[m.RequestorID])
      BY <1>1 DEF Answers
    <2> QED BY <2>1, <2>2 DEF Grown
  <1>2. ASSUME m.type = "blocks" PROVE Gapless(m.Blocks, Len(chain'[to]))
    <2>1. m.Blocks \in Seq(Block)
      BY <1>2, MessageFields
    <2>2. Gapless(m.Blocks, Len(chain[to]))
      BY <1>2 DEF Answers
    <2> QED BY <2>1, <2>2, GaplessStable DEF Grown
  <1> QED BY <1>1, <1>2 DEF Answers

AnsweredBefore ==
    \A n \in Node :
       /\ \A e \in sends[n] : Answers(e.msg, e.to, chain')
       /\ \A e \in out[n] : Answers(e.msg, e.to, chain')
       /\ \A m \in Queued(n) : Answers(m, n, chain')
       /\ Gapless(applying[n], Len(chain'[n]))

LEMMA AnsweredStable ==
    ASSUME TypeOK, Grown, Answered
    PROVE  AnsweredBefore
  <1> SUFFICES ASSUME NEW n \in Node
               PROVE  /\ \A e \in sends[n] \union out[n] : Answers(e.msg, e.to, chain')
                      /\ \A m \in Queued(n) : Answers(m, n, chain')
                      /\ Gapless(applying[n], Len(chain'[n]))
    BY DEF AnsweredBefore
  <1>1. ASSUME NEW e \in sends[n] \union out[n] PROVE Answers(e.msg, e.to, chain')
    <2>1. e \in Envelope
      BY DEF TypeOK
    <2>2. e.msg \in Message /\ e.to \in Node
      BY <2>1 DEF Envelope
    <2> QED BY <2>2, AnswersStable DEF Answered
  <1>2. ASSUME NEW m \in Queued(n) PROVE Answers(m, n, chain')
    BY QueuedType, AnswersStable DEF Answered
  <1>3. Gapless(applying[n], Len(chain'[n]))
    <2>1. applying[n] \in Seq(Block)
      BY DEF TypeOK
    <2> QED BY <2>1, GaplessStable DEF Answered, Grown
  <1> QED BY <1>1, <1>2, <1>3

(***************************************************************************)
(* A step keeps Answered when all it adds is in order.                     *)
(***************************************************************************)
LEMMA AnsweredNext ==
    ASSUME \A n \in Node : \A e \in sends'[n] : Answers(e.msg, e.to, chain'),
           \A n \in Node : \A e \in out'[n] : Answers(e.msg, e.to, chain'),
           \A n \in Node : \A m \in Queued(n)' : Answers(m, n, chain'),
           \A n \in Node : Gapless(applying'[n], Len(chain'[n]))
    PROVE  Answered'
  BY DEF Answered, Answers, Gapless

LEMMA OtherMessages ==
    ASSUME NEW m, m.type \notin {"getBlocks", "blocks"}, NEW to, NEW ch
    PROVE  Answers(m, to, ch)
  BY DEF Answers

LEMMA EmptyGapless == \A len : Gapless(<<>>, len)
  BY DEF Gapless

(***************************************************************************)
(* The answer of a server is a piece of its chain, whose heights number it.*)
(***************************************************************************)
LEMMA NumberedAll ==
    ASSUME Agreement, NEW n \in Node, NEW i \in DOMAIN chain[n]
    PROVE  chain[n][i].Height = i - 1 /\ i \in DOMAIN chain[Validator]
  <1>1. chain \in [Node -> Seq(Block)] /\ Validator \in Node
    BY NodeAssumption DEF Agreement, TypeOK
  <1>2. chain[n][i] = chain[Validator][i] /\ Len(chain[n]) <= Len(chain[Validator])
    BY DEF Agreement, PrefixOfValidator
  <1>3. i \in DOMAIN chain[Validator]
    BY <1>1, <1>2
  <1> QED BY <1>2, <1>3 DEF Agreement, Numbered

LEMMA SuffixGapless ==
    ASSUME Agreement, NEW n \in Node, NEW from \in Nat, NEW len \in Nat, from <= len
    PROVE  Gapless(SubSeq(chain[n], from + 1, Len(chain[n])), len)
  <1>1. PICK s \in Seq(Block) : s = chain[n]
    BY DEF Agreement, TypeOK
  <1>2. PICK bs : bs = SubSeq(s, from + 1, Len(s))
    OBVIOUS
  <1>3. \A i \in DOMAIN s : s[i].Height = i - 1
    BY <1>1, NumberedAll
  <1>4. ASSUME NEW i \in DOMAIN bs
        PROVE  i \in Nat \ {0} /\ bs[i].Height = (from + i) - 1
    <2>1. i \in Nat \ {0} /\ from + i \in DOMAIN s /\ bs[i] = s[from + i]
      BY <1>2, SuffixElement
    <2> QED BY <1>3, <2>1
  <1>5. bs \in Seq(Block)
    BY <1>1, <1>2
  <1>6. ASSUME NEW i \in DOMAIN bs
        PROVE  bs[i].Height = bs[1].Height + (i - 1) /\ bs[1].Height <= len
    <2>1. 1 \in DOMAIN bs
      BY <1>5
    <2>2. bs[1].Height = (from + 1) - 1 /\ bs[i].Height = (from + i) - 1 /\ i \in Nat
      BY <1>4, <2>1
    <2> QED BY <2>2
  <1> QED BY <1>1, <1>2, <1>6 DEF Gapless

(***************************************************************************)
(* AddBlock of a response's first block leaves the rest in order.          *)
(***************************************************************************)
LEMMA TailGapless ==
    ASSUME NEW bs \in Seq(Block), bs # <<>>, NEW k \in Nat, Gapless(bs, k),
           NEW l \in Nat, k <= l, Head(bs).Height < l
    PROVE  Gapless(Tail(bs), l)
  <1>1. /\ Len(bs) \in Nat \ {0} /\ DOMAIN bs = 1 .. Len(bs) /\ Head(bs) = bs[1]
        /\ DOMAIN Tail(bs) = 1 .. (Len(bs) - 1)
        /\ \A i \in 1 .. (Len(bs) - 1) : Tail(bs)[i] = bs[i + 1]
    OBVIOUS
  <1>2. bs[1].Height \in Nat
    <2>1. 1 \in DOMAIN bs
      BY <1>1
    <2>2. bs[1] \in Block
      BY <2>1
    <2> QED BY <2>2 DEF Block
  <1>3. PICK h \in Nat : h = bs[1].Height
    BY <1>2
  <1>4. ASSUME NEW i \in 1 .. (Len(bs) - 1)
        PROVE  Tail(bs)[i].Height = h + i
    <2>1. i + 1 \in DOMAIN bs /\ Tail(bs)[i] = bs[i + 1] /\ i \in Nat
      BY <1>1
    <2>2. bs[i + 1].Height = h + ((i + 1) - 1)
      BY <1>3, <2>1 DEF Gapless
    <2> QED BY <2>1, <2>2
  <1>5. ASSUME NEW i \in DOMAIN Tail(bs)
        PROVE  /\ Tail(bs)[i].Height = Tail(bs)[1].Height + (i - 1)
               /\ Tail(bs)[1].Height <= l
    <2>1. i \in 1 .. (Len(bs) - 1) /\ 1 \in 1 .. (Len(bs) - 1) /\ i \in Nat
      BY <1>1
    <2>2. Tail(bs)[i].Height = h + i /\ Tail(bs)[1].Height = h + 1
      BY <1>4, <2>1
    <2>3. h < l
      BY <1>1, <1>3
    <2>4. PICK x, y : x = Tail(bs)[i].Height /\ y = Tail(bs)[1].Height
      OBVIOUS
    <2>5. x = h + i /\ y = h + 1
      BY <2>2, <2>4
    <2>6. x = y + (i - 1) /\ y <= l
      BY <2>1, <2>3, <2>5
    <2> QED BY <2>4, <2>6
  <1> QED BY <1>5 DEF Gapless

LEMMA RpcAnswered ==
    ASSUME AgreementInv, Grown, AnsweredBefore, NEW n \in Node, RpcStep(n)
    PROVE  Answered'
  <1>0. Agreement /\ TypeOK /\ Rooted
    BY DEF AgreementInv, Agreement
  <1>a. /\ \A m \in Node : \A e \in sends[m] : Answers(e.msg, e.to, chain')
        /\ \A m \in Node : \A e \in out[m] : Answers(e.msg, e.to, chain')
        /\ \A m \in Node : \A x \in Queued(m) : Answers(x, m, chain')
        /\ \A m \in Node : Gapless(applying[m], Len(chain'[m]))
    BY DEF AnsweredBefore
  <1>b. out \in [Node -> SUBSET Envelope] /\ applying \in [Node -> Seq(Block)]
    BY <1>0 DEF TypeOK
  <1>c. ASSUME NEW t, Receive(n, t)
        PROVE  /\ \A m \in Node : \A x \in Queued(m)' : Answers(x, m, chain')
               /\ Answers(Head(inbox[n]), n, chain')
               /\ Head(inbox[n]) \in Message /\ Head(inbox[n]).type = t
    BY <1>0, <1>a, <1>c, ReceiveQueued
  <1>d. ASSUME NEW S, out' = [out EXCEPT ![n] = S],
               \A e \in S : Answers(e.msg, e.to, chain')
        PROVE  \A m \in Node : \A e \in out'[m] : Answers(e.msg, e.to, chain')
    <2> SUFFICES ASSUME NEW m \in Node, NEW e \in out'[m] PROVE Answers(e.msg, e.to, chain')
      OBVIOUS
    <2>1. e \in S \/ e \in out[m]
      BY <1>b, <1>d
    <2> QED BY <2>1, <1>a, <1>d
  <1>1. CASE RpcSend(n)
    <2>1. PICK e \in out[n] : Deliver(e) /\ out' = [out EXCEPT ![n] = @ \ {e}]
      BY <1>1 DEF RpcSend
    <2>2. e \in Envelope /\ Answers(e.msg, e.to, chain')
      BY <1>a, <1>b, <2>1
    <2>3. ASSUME NEW m \in Node, NEW x \in Queued(m)' PROVE Answers(x, m, chain')
      <3>1. CASE m = e.to
        <4>1. x \in Queued(m) \/ x = e.msg
          BY <1>0, <2>1, <2>2, <2>3, <3>1, DeliverQueued
        <4> QED BY <1>a, <2>2, <3>1, <4>1
      <3>2. CASE m # e.to
        BY <1>0, <1>a, <2>1, <2>2, <2>3, <3>2, DeliverQueued
      <3> QED BY <3>1, <3>2
    <2>4. \A m \in Node : \A f \in out'[m] : Answers(f.msg, f.to, chain')
      <3>1. \A m \in Node : out'[m] \subseteq out[m]
        BY <1>b, <2>1
      <3> QED BY <1>a, <3>1
    <2>5. sends' = sends /\ applying' = applying
      BY <1>1 DEF RpcSend
    <2> QED BY <1>a, <2>3, <2>4, <2>5, AnsweredNext
  <1>2. CASE HandleSubscribeMessageRequest(n)
    <2>a. PICK known : known = {Head(inbox[n]).RequestorID} \intersect conns[n]
      OBVIOUS
    <2>b. PICK S : S = {[msg |-> SubscribeMessageResponse(n), to |-> m] : m \in known}
      OBVIOUS
    <2>1. /\ out' = [out EXCEPT ![n] = S]
          /\ \A e \in S : e.msg = SubscribeMessageResponse(n)
      BY <1>2, <2>a, <2>b DEF HandleSubscribeMessageRequest
    <2>2. \A e \in S : Answers(e.msg, e.to, chain')
      <3>1. SubscribeMessageResponse(n).type = "subscribed"
        BY DEF SubscribeMessageResponse
      <3> QED BY <2>1, <3>1, OtherMessages
    <2>3. \A m \in Node : \A e \in out'[m] : Answers(e.msg, e.to, chain')
      BY <2>1, <2>2, <1>d
    <2>4. sends' = sends /\ applying' = applying /\ Receive(n, "subscribe")
      BY <1>2 DEF HandleSubscribeMessageRequest
    <2> QED BY <1>a, <1>c, <2>3, <2>4, AnsweredNext
  <1>3. CASE HandleSubscribeMessageResponse(n)
    <2>1. /\ sends' = sends /\ applying' = applying /\ out' = out
          /\ Receive(n, "subscribed")
      BY <1>3 DEF HandleSubscribeMessageResponse
    <2> QED BY <1>a, <1>c, <2>1, AnsweredNext
  <1>4. CASE HandleBlock(n)
    <2>1. sends' = sends /\ applying' = applying /\ Receive(n, "block")
      BY <1>4 DEF HandleBlock
    <2>2. \/ out' = out
          \/ out' = [out EXCEPT ![n] = ToAll(n, GetBlocksRequest(n, StartHeight(n)))]
      BY <1>4 DEF HandleBlock
    <2>3. \A e \in ToAll(n, GetBlocksRequest(n, StartHeight(n))) :
             Answers(e.msg, e.to, chain')
      <3>1. StartHeight(n) <= Len(chain'[n])
        <4>1. Len(chain[n]) \in Nat /\ Len(chain'[n]) \in Nat /\ Len(chain[n]) <= Len(chain'[n])
          BY DEF Grown
        <4> QED BY <4>1 DEF StartHeight, Height
      <3>2. \A to : Answers(GetBlocksRequest(n, StartHeight(n)), to, chain')
        BY <3>1 DEF Answers, GetBlocksRequest
      <3> QED BY <3>2 DEF ToAll
    <2>4. \A m \in Node : \A e \in out'[m] : Answers(e.msg, e.to, chain')
      BY <1>a, <1>d, <2>2, <2>3
    <2> QED BY <1>a, <1>c, <2>1, <2>4, AnsweredNext
  <1>5. CASE HandleGetBlocksRequest(n)
    <2>1. sends' = sends /\ applying' = applying /\ Receive(n, "getBlocks") /\ chain' = chain
      BY <1>5 DEF HandleGetBlocksRequest
    <2>2. PICK req : req = Head(inbox[n])
      OBVIOUS
    <2>3. /\ req \in Message /\ req.type = "getBlocks" /\ req.StartHeight \in Nat
          /\ req.RequestorID \in Node
          /\ req.StartHeight <= Len(chain[req.RequestorID])
      BY <1>c, <2>1, <2>2, MessageFields DEF Answers
    <2>4. PICK blocks : blocks = SubSeq(chain[n], req.StartHeight + 1, Len(chain[n]))
      OBVIOUS
    <2>5. Gapless(blocks, Len(chain[req.RequestorID]))
      BY <1>0, <2>3, <2>4, SuffixGapless DEF Grown
    <2>6. PICK reply : reply = [msg |-> GetBlocksResponse(blocks), to |-> req.RequestorID]
      OBVIOUS
    <2>7. Answers(reply.msg, reply.to, chain')
      BY <2>1, <2>5, <2>6 DEF Answers, GetBlocksResponse
    <2>8. out' = out \/ out' = [out EXCEPT ![n] = {reply}]
      BY <1>5, <2>2, <2>4, <2>6 DEF HandleGetBlocksRequest
    <2>9. \A m \in Node : \A e \in out'[m] : Answers(e.msg, e.to, chain')
      BY <1>a, <1>d, <2>7, <2>8
    <2> QED BY <1>a, <1>c, <2>1, <2>9, AnsweredNext
  <1>6. CASE HandleGetBlocksResponse(n)
    <2>1. sends' = sends /\ out' = out /\ Receive(n, "blocks")
      BY <1>6 DEF HandleGetBlocksResponse
    <2>2. PICK bs : bs = Head(inbox[n]).Blocks
      OBVIOUS
    <2>3. Gapless(bs, Len(chain'[n]))
      BY <1>c, <2>1, <2>2 DEF Answers
    <2>4. applying' = [applying EXCEPT ![n] = bs]
      BY <1>6, <2>2 DEF HandleGetBlocksResponse
    <2>5. \A m \in Node : Gapless(applying'[m], Len(chain'[m]))
      <3> SUFFICES ASSUME NEW m \in Node PROVE Gapless(applying'[m], Len(chain'[m]))
        OBVIOUS
      <3>1. applying'[m] = IF m = n THEN bs ELSE applying[m]
        BY <1>b, <2>4
      <3> QED BY <1>a, <2>3, <3>1
    <2> QED BY <1>a, <1>c, <2>1, <2>5, AnsweredNext
  <1>7. CASE ApplyBlock(n)
    <2>1. sends' = sends /\ out' = out /\ inbox' = inbox /\ applying[n] # <<>>
      BY <1>7 DEF ApplyBlock
    <2>2. PICK bs \in Seq(Block) : bs = applying[n]
      BY <1>b
    <2>3. PICK b \in Block : b = Head(bs)
      BY <2>1, <2>2
    <2>4. /\ chain' = IF Fits(n, b) THEN [chain EXCEPT ![n] = Append(@, b)] ELSE chain
          /\ applying' = [applying EXCEPT ![n] =
                IF Fits(n, b) \/ b.Height <= Height(n) THEN Tail(bs) ELSE <<>>]
      BY <1>7, <2>2, <2>3 DEF ApplyBlock
    <2>5. /\ Len(chain[n]) \in Nat /\ Len(chain'[n]) \in Nat
          /\ Len(chain[n]) <= Len(chain'[n]) /\ b.Height \in Nat
      BY DEF Grown, Block
    <2>6. Fits(n, b) \/ b.Height <= Height(n) => b.Height < Len(chain'[n])
      <3>1. CASE Fits(n, b)
        <4>1. Len(chain'[n]) = Len(chain[n]) + 1
          BY <1>0, <2>4, <3>1 DEF TypeOK
        <4> QED BY <2>5, <3>1, <4>1 DEF Fits, Height
      <3>2. CASE b.Height <= Height(n)
        BY <2>5, <3>2 DEF Height
      <3> QED BY <3>1, <3>2
    <2>7. ASSUME Fits(n, b) \/ b.Height <= Height(n)
          PROVE  Gapless(Tail(bs), Len(chain'[n]))
      <3>1. Gapless(bs, Len(chain'[n])) /\ Head(bs).Height < Len(chain'[n]) /\ bs # <<>>
        BY <1>a, <2>1, <2>2, <2>3, <2>6, <2>7
      <3> QED BY <2>5, <3>1, TailGapless
    <2>8. \A m \in Node : Gapless(applying'[m], Len(chain'[m]))
      <3> SUFFICES ASSUME NEW m \in Node PROVE Gapless(applying'[m], Len(chain'[m]))
        OBVIOUS
      <3>1. CASE m # n
        <4>1. applying'[m] = applying[m]
          BY <1>b, <2>4, <3>1
        <4> QED BY <1>a, <4>1
      <3>2. CASE m = n
        <4>1. CASE Fits(n, b) \/ b.Height <= Height(n)
          <5>1. applying'[m] = Tail(bs)
            BY <1>b, <2>4, <3>2, <4>1
          <5> QED BY <2>7, <3>2, <4>1, <5>1
        <4>2. CASE ~(Fits(n, b) \/ b.Height <= Height(n))
          <5>1. applying'[m] = <<>>
            BY <1>b, <2>4, <3>2, <4>2
          <5> QED BY <5>1, EmptyGapless
        <4> QED BY <4>1, <4>2
      <3> QED BY <3>1, <3>2
    <2> QED BY <1>a, <2>1, <2>8, SameQueued, AnsweredNext
  <1> QED BY <1>1, <1>2, <1>3, <1>4, <1>5, <1>6, <1>7 DEF RpcStep

LEMMA AnsweredStep == AgreementInv /\ Answered /\ [Next]_vars => Answered'
  <1> SUFFICES ASSUME AgreementInv, Answered, [Next]_vars PROVE Answered'
    OBVIOUS
  <1>0. TypeOK /\ Rooted
    BY DEF AgreementInv, Agreement
  <1>1. Grown /\ AnsweredBefore
    BY <1>0, ChainsGrow, AnsweredStable
  <1>a. /\ \A m \in Node : \A e \in sends[m] : Answers(e.msg, e.to, chain')
        /\ \A m \in Node : \A e \in out[m] : Answers(e.msg, e.to, chain')
        /\ \A m \in Node : \A x \in Queued(m) : Answers(x, m, chain')
        /\ \A m \in Node : Gapless(applying[m], Len(chain'[m]))
    BY <1>1 DEF AnsweredBefore
  <1>b. sends \in [Node -> SUBSET Envelope]
    BY <1>0 DEF TypeOK
  <1>d. ASSUME NEW e \in Envelope, Deliver(e), Answers(e.msg, e.to, chain')
        PROVE  \A m \in Node : \A x \in Queued(m)' : Answers(x, m, chain')
    <2> SUFFICES ASSUME NEW m \in Node, NEW x \in Queued(m)' PROVE Answers(x, m, chain')
      OBVIOUS
    <2>1. CASE m = e.to
      <3>1. x \in Queued(m) \/ x = e.msg
        BY <1>0, <1>d, <2>1, DeliverQueued
      <3> QED BY <1>a, <1>d, <2>1, <3>1
    <2>2. CASE m # e.to
      BY <1>0, <1>a, <1>d, <2>2, DeliverQueued
    <2> QED BY <2>1, <2>2
  <1>2. ASSUME UNCHANGED <<sends, out, applying, inbox>> PROVE Answered'
    BY <1>a, <1>2, SameQueued, AnsweredNext
  <1>3. ASSUME NEW n \in Node, BroadcastBlock(n) PROVE Answered'
    <2>1. PICK b : sends' = [sends EXCEPT ![n] = @ \union ToAll(n, BlockMessage(b))]
      BY <1>3 DEF BroadcastBlock
    <2>2. UNCHANGED <<out, applying, inbox>>
      BY <1>3 DEF BroadcastBlock
    <2>3. \A e \in ToAll(n, BlockMessage(b)) : Answers(e.msg, e.to, chain')
      <3>1. BlockMessage(b).type = "block"
        BY DEF BlockMessage
      <3>2. \A e \in ToAll(n, BlockMessage(b)) : e.msg = BlockMessage(b)
        BY DEF ToAll
      <3> QED BY <3>1, <3>2, OtherMessages
    <2>4. \A m \in Node : \A e \in sends'[m] : e \in sends[m] \/ e \in ToAll(n, BlockMessage(b))
      BY <1>b, <2>1
    <2> QED BY <1>a, <2>2, <2>3, <2>4, SameQueued, AnsweredNext
  <1>4. ASSUME NEW n \in Node, Send(n) PROVE Answered'
    <2>1. PICK e \in sends[n] : Deliver(e) /\ sends' = [sends EXCEPT ![n] = @ \ {e}]
      BY <1>4 DEF Send
    <2>2. UNCHANGED <<out, applying>>
      BY <1>4 DEF Send
    <2>3. e \in Envelope /\ \A m \in Node : sends'[m] \subseteq sends[m]
      BY <1>b, <2>1
    <2> QED BY <1>a, <1>d, <2>1, <2>2, <2>3, AnsweredNext
  <1>5. ASSUME NEW l \in Link, Dial(l[1], l[2]) PROVE Answered'
    <2>1. CASE Connect(l[1], l[2]) \/ ConnectBack(l[1], l[2])
      BY <2>1, <1>2 DEF Connect, ConnectBack
    <2>2. CASE Subscribe(l[1], l[2])
      <3>1. PICK e : e = [msg |-> SubscribeMessageRequest(l[1]), to |-> l[2]]
        OBVIOUS
      <3>2. e \in Envelope
        BY <3>1, NodeAssumption, MessageTypes DEF Envelope
      <3>3. Answers(e.msg, e.to, chain')
        BY <3>1, OtherMessages DEF SubscribeMessageRequest
      <3>4. Deliver(e) /\ UNCHANGED <<sends, out, applying>>
        BY <2>2, <3>1 DEF Subscribe
      <3> QED BY <1>a, <1>d, <3>2, <3>3, <3>4, AnsweredNext
    <2> QED BY <1>5, <2>1, <2>2 DEF Dial
  <1>6. ASSUME NEW n \in Node, RpcStep(n) PROVE Answered'
    BY <1>1, <1>6, RpcAnswered
  <1>7. ASSUME CreateNewBlock \/ StoreBlock \/ UNCHANGED vars PROVE Answered'
    BY <1>2, <1>7 DEF CreateNewBlock, StoreBlock, vars
  <1> QED BY <1>3, <1>4, <1>5, <1>6, <1>7 DEF Next

LEMMA AnsweredInit == Init => Answered
  <1> SUFFICES ASSUME Init, NEW n \in Node
               PROVE  /\ sends[n] = {} /\ out[n] = {} /\ Queued(n) = {}
                      /\ Gapless(applying[n], Len(chain[n]))
    BY DEF Answered
  <1>1. /\ sends[n] = {} /\ out[n] = {} /\ inbox[n] = <<>> /\ applying[n] = <<>>
    BY DEF Init
  <1>2. Queued(n) = {}
    BY <1>1 DEF Queued
  <1> QED BY <1>1, <1>2, EmptyGapless

(* A GetBlocksResponse closes the gap it was asked for: when its blocks are
   applied the next one is never above the server's chain, in every network and
   although the chain may have grown between the request and the response. *)
THEOREM ResponsesApply == Spec => []ResponseApplies
  <1>1. AgreementInv /\ Answered => ResponseApplies
    <2> SUFFICES ASSUME AgreementInv, Answered, NEW n \in Node, applying[n] # <<>>
                 PROVE  Head(applying[n]).Height <= Height(n) + 1
      BY DEF ResponseApplies
    <2>1. chain[n] \in Seq(Block) /\ applying[n] \in Seq(Block)
      BY DEF AgreementInv, Agreement, TypeOK
    <2>2. 1 \in DOMAIN applying[n] /\ Head(applying[n]) = applying[n][1]
      BY <2>1
    <2>3. applying[n][1].Height <= Len(chain[n]) /\ Len(chain[n]) \in Nat
      BY <2>1, <2>2 DEF Answered, Gapless
    <2> QED BY <2>2, <2>3 DEF Height
  <1> QED BY <1>1, AgreementInit, AgreementStep, AnsweredInit, AnsweredStep, PTL DEF Spec

-----------------------------------------------------------------------------
(***************************************************************************)
(* The validator's chain changes only when it makes a block.               *)
(***************************************************************************)
LEMMA AddedElsewhere ==
    ASSUME AgreementInv, NEW n \in Node, NEW b \in Block, Published(b),
           chain' = IF Fits(n, b) THEN [chain EXCEPT ![n] = Append(@, b)] ELSE chain
    PROVE  chain'[Validator] = chain[Validator]
  <1>1. Agreement /\ chain \in [Node -> Seq(Block)] /\ Validator \in Node
    BY NodeAssumption DEF AgreementInv, Agreement, TypeOK
  <1>2. Fits(n, b) => n # Validator
    BY <1>1, FitsIsNext
  <1> QED BY <1>1, <1>2

LEMMA HeadBlock ==
    ASSUME AgreementInv, NEW n \in Node, HandleBlock(n)
    PROVE  /\ Head(inbox[n]).block \in Block
           /\ Published(Head(inbox[n]).block)
           /\ chain' = IF Fits(n, Head(inbox[n]).block)
                         THEN [chain EXCEPT ![n] = Append(@, Head(inbox[n]).block)]
                         ELSE chain
  <1>0. TypeOK /\ Agreement /\ InFlightStored
    BY DEF AgreementInv, Agreement
  <1>1. Receive(n, "block")
    BY DEF HandleBlock
  <1>2. /\ Head(inbox[n]) \in Queued(n) /\ Head(inbox[n]).type = "block"
        /\ Head(inbox[n]).block \in Block
    BY <1>0, <1>1, ReceiveQueued, MessageFields
  <1>3. PICK b \in Block : b = Head(inbox[n]).block
    BY <1>2
  <1>4. Published(b)
    BY <1>0, <1>2, <1>3 DEF Queued, InFlightStored, MessagePublished
  <1>5. ~(Fits(n, b) /\ OutOfSync(n, b))
    <2>1. b.Height \in Nat /\ chain[n] \in Seq(Block)
      BY <1>0 DEF Block, TypeOK
    <2>2. Len(chain[n]) \in Nat
      BY <2>1
    <2> QED BY <2>1, <2>2 DEF Fits, OutOfSync, Height
  <1>6. chain' = IF Fits(n, b) THEN [chain EXCEPT ![n] = Append(@, b)] ELSE chain
    BY <1>3, <1>5 DEF HandleBlock
  <1> QED BY <1>3, <1>4, <1>6

LEMMA HeadApplying ==
    ASSUME AgreementInv, NEW n \in Node, applying[n] # <<>>
    PROVE  /\ Head(applying[n]) \in Block
           /\ Published(Head(applying[n]))
           /\ Head(applying[n]) = applying[n][1]
           /\ 1 \in DOMAIN applying[n]
  <1>1. applying[n] \in Seq(Block)
    BY DEF AgreementInv, Agreement, TypeOK
  <1>2. /\ Head(applying[n]) = applying[n][1] /\ 1 \in DOMAIN applying[n]
        /\ Head(applying[n]) \in Block
    BY <1>1
  <1> QED BY <1>2 DEF AgreementInv, InFlightStored

LEMMA ValidatorChain ==
    ASSUME AgreementInv, [Next]_vars, ~CreateNewBlock
    PROVE  chain'[Validator] = chain[Validator]
  <1>1. ASSUME NEW n \in Node, HandleBlock(n) PROVE chain'[Validator] = chain[Validator]
    BY <1>1, HeadBlock, AddedElsewhere
  <1>2. ASSUME NEW n \in Node, ApplyBlock(n) PROVE chain'[Validator] = chain[Validator]
    BY <1>2, HeadApplying, AddedElsewhere DEF ApplyBlock
  <1>3. ASSUME NEW n \in Node, RpcStep(n) PROVE chain'[Validator] = chain[Validator]
    BY <1>1, <1>2, <1>3 DEF RpcStep, RpcSend, HandleSubscribeMessageRequest,
       HandleSubscribeMessageResponse, HandleGetBlocksRequest, HandleGetBlocksResponse
  <1>4. ASSUME NEW n \in Node, BroadcastBlock(n) \/ Send(n)
        PROVE  chain'[Validator] = chain[Validator]
    BY <1>4 DEF BroadcastBlock, Send
  <1>5. ASSUME NEW l \in Link, Dial(l[1], l[2]) PROVE chain'[Validator] = chain[Validator]
    BY <1>5 DEF Dial, Connect, ConnectBack, Subscribe
  <1>6. ASSUME StoreBlock \/ UNCHANGED vars PROVE chain'[Validator] = chain[Validator]
    BY <1>6 DEF StoreBlock, vars
  <1> QED BY <1>3, <1>4, <1>5, <1>6 DEF Next

LEMMA LinkedStep == AgreementInv /\ Linked /\ [Next]_vars => Linked'
  <1> SUFFICES ASSUME AgreementInv, Linked, [Next]_vars PROVE Linked'
    OBVIOUS
  <1>0. Agreement /\ TypeOK /\ Rooted /\ Validator \in Node
    BY NodeAssumption DEF AgreementInv, Agreement
  <1>1. CASE chain'[Validator] = chain[Validator]
    BY <1>1 DEF Linked
  <1>2. CASE CreateNewBlock
    <2>1. PICK h \in Unused : chain' = [chain EXCEPT ![Validator] = Append(@, NewBlock(h))]
      BY <1>2 DEF CreateNewBlock
    <2>2. PICK b \in Block : b = NewBlock(h)
      BY <1>0, <2>1, NewBlockType DEF Unused
    <2>3. PICK s \in Seq(Block) : s = chain[Validator]
      BY <1>0 DEF TypeOK
    <2>4. chain'[Validator] = Append(s, b)
      BY <1>0, <2>1, <2>2, <2>3 DEF TypeOK
    <2>5. /\ Len(s) \in Nat \ {0} /\ DOMAIN Append(s, b) = 1 .. (Len(s) + 1)
          /\ Append(s, b)[Len(s) + 1] = b
          /\ \A i \in 1 .. Len(s) : Append(s, b)[i] = s[i]
      BY <1>0, <2>3, LastBlock
    <2>6. b.PreviousBlockHash = s[Len(s)].hash
      BY <2>2, <2>3 DEF NewBlock
    <2>7. ASSUME NEW i \in 1 .. (Len(s) + 1), i > 1
          PROVE  Append(s, b)[i].PreviousBlockHash = Append(s, b)[i - 1].hash
      <3>1. CASE i = Len(s) + 1
        <4>1. i - 1 = Len(s) /\ Append(s, b)[i - 1] = s[Len(s)]
          BY <2>5, <3>1
        <4> QED BY <2>5, <2>6, <3>1, <4>1
      <3>2. CASE i \in 1 .. Len(s)
        <4>1. Append(s, b)[i] = s[i] /\ Append(s, b)[i - 1] = s[i - 1]
          BY <2>5, <2>7, <3>2
        <4>2. s[i].PreviousBlockHash = s[i - 1].hash
          BY <2>3, <2>7, <3>2 DEF Linked
        <4> QED BY <4>1, <4>2
      <3>3. i = Len(s) + 1 \/ i \in 1 .. Len(s)
        <4>1. Len(s) \in Nat
          BY <2>5
        <4> QED BY <4>1
      <3> QED BY <3>1, <3>2, <3>3
    <2> QED BY <2>4, <2>5, <2>7 DEF Linked
  <1> QED BY <1>1, <1>2, ValidatorChain

LEMMA LinkedInit == Init => Linked
  <1> SUFFICES ASSUME Init PROVE Linked
    OBVIOUS
  <1>1. chain[Validator] = <<Genesis>> /\ DOMAIN <<Genesis>> = 1 .. 1
    BY NodeAssumption DEF Init
  <1> QED BY <1>1 DEF Linked

(***************************************************************************)
(* A block AddBlock refuses is above the next height, or the chain has it. *)
(***************************************************************************)
LEMMA RefusedIsKnown ==
    ASSUME AgreementInv, Linked, NEW n \in Node, NEW b \in Block, Published(b),
           b.Height <= Len(chain[n]), ~Fits(n, b)
    PROVE  b.Height < Len(chain[n])
  <1>0. Agreement /\ TypeOK /\ Rooted /\ Validator \in Node
    BY NodeAssumption DEF AgreementInv, Agreement
  <1>1. PICK k \in Nat \ {0} : k = Len(chain[n])
    BY <1>0, LastBlock
  <1>2. b.Height \in Nat
    BY DEF Block
  <1> SUFFICES ASSUME b.Height = k PROVE FALSE
    BY <1>1, <1>2
  <1>3. k + 1 \in DOMAIN chain[Validator] /\ chain[Validator][k + 1] = b
    BY <1>1 DEF Published
  <1>4. b.PreviousBlockHash = chain[Validator][k].hash
    <2>1. k + 1 > 1 /\ (k + 1) - 1 = k
      BY <1>1
    <2> QED BY <1>3, <2>1 DEF Linked
  <1>5. chain[n][k] = chain[Validator][k]
    <2>1. k \in DOMAIN chain[n]
      BY <1>0, <1>1, LastBlock
    <2> QED BY <1>0, <2>1 DEF Agreement, PrefixOfValidator
  <1>6. b.Height = Height(n) + 1
    BY <1>1 DEF Height
  <1> QED BY <1>1, <1>4, <1>5, <1>6 DEF Fits

-----------------------------------------------------------------------------
(***************************************************************************)
(* Joining.  A step that takes no message of a subscription keeps what is  *)
(* known of it.                                                            *)
(***************************************************************************)
Reply(m, n) == [msg |-> SubscribeMessageResponse(m), to |-> n]

Wider == \A n \in Node : conns[n] \subseteq conns'[n] /\ peers[n] \subseteq peers'[n]

LEMMA SubscribingKept ==
    ASSUME NEW n \in Node, NEW m \in Node, Subscribing(n, m), Wider,
           SubscribeMessageRequest(n) \in Queued(m) =>
              SubscribeMessageRequest(n) \in Queued(m)',
           SubscribeMessageResponse(m) \in Queued(n) =>
              SubscribeMessageResponse(m) \in Queued(n)',
           Reply(m, n) \in out[m] =>
              Reply(m, n) \in out'[m] \/ SubscribeMessageResponse(m) \in Queued(n)'
    PROVE  Subscribing(n, m)'
  <1>1. m \in conns'[n] /\ n \in conns'[m]
    BY DEF Subscribing, Wider
  <1>2. n \in peers'[m] \/ SubscribeMessageRequest(n) \in Queued(m)'
    BY DEF Subscribing, Wider
  <1>3. \/ m \in peers'[n]
        \/ SubscribeMessageRequest(n) \in Queued(m)'
        \/ Reply(m, n) \in out'[m]
        \/ SubscribeMessageResponse(m) \in Queued(n)'
    BY DEF Subscribing, Wider, Reply
  <1> QED BY <1>1, <1>2, <1>3 DEF Subscribing, Reply, SubscribeMessageRequest,
                                  SubscribeMessageResponse

(***************************************************************************)
(* Steps that leave the network as it is and lose no message of a          *)
(* subscription.                                                           *)
(***************************************************************************)
Preserving ==
    /\ UNCHANGED net
    /\ \A k \in Node : \A m \in Queued(k) : Joins(m) => m \in Queued(k)'
    /\ \A k \in Node : \A e \in out[k] :
          Joins(e.msg) => e \in out'[k] \/ e.msg \in Queued(e.to)'

LEMMA JoiningKept ==
    ASSUME Joining, Preserving
    PROVE  Joining'
  <1>1. /\ conns' = conns /\ dialing' = dialing /\ subscribed' = subscribed
        /\ peers' = peers
    BY DEF Preserving, net
  <1>2. Wider
    BY <1>1 DEF Wider
  <1>3. ASSUME NEW n \in Node, NEW m \in Node, <<n, m>> \in subscribed
        PROVE  Subscribing(n, m)'
    <2>1. Subscribing(n, m)
      BY <1>3 DEF Joining
    <2>2. /\ SubscribeMessageRequest(n) \in Queued(m) =>
                SubscribeMessageRequest(n) \in Queued(m)'
          /\ SubscribeMessageResponse(m) \in Queued(n) =>
                SubscribeMessageResponse(m) \in Queued(n)'
      <3>1. Joins(SubscribeMessageRequest(n)) /\ Joins(SubscribeMessageResponse(m))
        BY DEF Joins, SubscribeMessageRequest, SubscribeMessageResponse
      <3> QED BY <3>1 DEF Preserving
    <2>3. Reply(m, n) \in out[m] =>
             Reply(m, n) \in out'[m] \/ SubscribeMessageResponse(m) \in Queued(n)'
      <3>1. /\ Reply(m, n).msg = SubscribeMessageResponse(m) /\ Reply(m, n).to = n
            /\ Joins(Reply(m, n).msg)
        BY DEF Reply, Joins, SubscribeMessageResponse
      <3> QED BY <3>1 DEF Preserving
    <2> QED BY <1>2, <2>1, <2>2, <2>3, SubscribingKept
  <1> QED BY <1>1, <1>3 DEF Joining, Mutual, Subscribing

LEMMA ReceivePreserves ==
    ASSUME TypeOK, NEW n \in Node, NEW t \in {"block", "getBlocks", "blocks"},
           Receive(n, t), UNCHANGED net,
           \A k \in Node : k # n => out'[k] = out[k]
    PROVE  Preserving
  <1>1. /\ Head(inbox[n]).type = t /\ out[n] = {}
        /\ \A m \in Node : m # n => Queued(m)' = Queued(m)
        /\ Queued(n) \subseteq Queued(n)' \union {Head(inbox[n])}
    BY ReceiveQueued
  <1>2. ~Joins(Head(inbox[n]))
    BY <1>1 DEF Joins
  <1>3. ASSUME NEW k \in Node, NEW m \in Queued(k), Joins(m) PROVE m \in Queued(k)'
    BY <1>1, <1>2, <1>3
  <1>4. ASSUME NEW k \in Node, NEW e \in out[k] PROVE e \in out'[k]
    BY <1>1, <1>4
  <1> QED BY <1>3, <1>4 DEF Preserving

LEMMA DeliverPreserves ==
    ASSUME TypeOK, NEW e \in Envelope, Deliver(e), UNCHANGED net,
           \A k \in Node : \A f \in out[k] : f \in out'[k] \/ f = e
    PROVE  Preserving
  <1>1. e.to \in Node
    BY DEF Envelope
  <1>2. \A k \in Node : Queued(k) \subseteq Queued(k)'
    BY DeliverQueued
  <1>3. e.msg \in Queued(e.to)'
    BY <1>1, DeliverQueued
  <1> QED BY <1>2, <1>3 DEF Preserving

(***************************************************************************)
(* Which steps preserve: all but those that join.                          *)
(***************************************************************************)
JoinStep ==
    \/ \E n \in Node : \/ HandleSubscribeMessageRequest(n)
                       \/ HandleSubscribeMessageResponse(n)
    \/ \E l \in Link : Dial(l[1], l[2])

LEMMA PreservingStep ==
    ASSUME TypeOK, [Next]_vars, ~JoinStep
    PROVE  Preserving
  <1>a. sends \in [Node -> SUBSET Envelope] /\ out \in [Node -> SUBSET Envelope]
    BY DEF TypeOK
  <1>1. ASSUME UNCHANGED net, UNCHANGED <<inbox, out>> PROVE Preserving
    BY <1>1, SameQueued DEF Preserving
  <1>2. ASSUME NEW n \in Node, Send(n) PROVE Preserving
    <2>1. PICK e \in sends[n] : Deliver(e)
      BY <1>2 DEF Send
    <2>2. e \in Envelope /\ UNCHANGED net /\ out' = out
      BY <1>a, <1>2 DEF Send
    <2> QED BY <2>1, <2>2, DeliverPreserves
  <1>3. ASSUME NEW n \in Node, RpcSend(n) PROVE Preserving
    <2>1. PICK e \in out[n] : Deliver(e) /\ out' = [out EXCEPT ![n] = @ \ {e}]
      BY <1>3 DEF RpcSend
    <2>2. e \in Envelope /\ UNCHANGED net
      BY <1>a, <1>3 DEF RpcSend
    <2>3. \A k \in Node : \A f \in out[k] : f \in out'[k] \/ f = e
      BY <1>a, <2>1
    <2> QED BY <2>1, <2>2, <2>3, DeliverPreserves
  <1>4. ASSUME NEW n \in Node, HandleBlock(n) PROVE Preserving
    <2>1. Receive(n, "block") /\ UNCHANGED net
      BY <1>4 DEF HandleBlock
    <2>2. \A k \in Node : k # n => out'[k] = out[k]
      BY <1>a, <1>4 DEF HandleBlock
    <2> QED BY <2>1, <2>2, ReceivePreserves
  <1>5. ASSUME NEW n \in Node, HandleGetBlocksRequest(n) PROVE Preserving
    <2>1. Receive(n, "getBlocks") /\ UNCHANGED net
      BY <1>5 DEF HandleGetBlocksRequest
    <2>2. \A k \in Node : k # n => out'[k] = out[k]
      BY <1>a, <1>5 DEF HandleGetBlocksRequest
    <2> QED BY <2>1, <2>2, ReceivePreserves
  <1>6. ASSUME NEW n \in Node, HandleGetBlocksResponse(n) PROVE Preserving
    <2>1. Receive(n, "blocks") /\ UNCHANGED net /\ out' = out
      BY <1>6 DEF HandleGetBlocksResponse
    <2> QED BY <2>1, ReceivePreserves
  <1>7. ASSUME NEW n \in Node, ApplyBlock(n) \/ BroadcastBlock(n) PROVE Preserving
    BY <1>1, <1>7 DEF ApplyBlock, BroadcastBlock
  <1>8. ASSUME CreateNewBlock \/ StoreBlock PROVE Preserving
    BY <1>1, <1>8 DEF CreateNewBlock, StoreBlock
  <1>9. ASSUME UNCHANGED vars PROVE Preserving
    BY <1>1, <1>9 DEF vars, net
  <1> QED BY <1>2, <1>3, <1>4, <1>5, <1>6, <1>7, <1>8, <1>9 DEF Next, RpcStep, JoinStep

LEMMA RequestJoining ==
    ASSUME TypeOK, Joining, NEW k \in Node, HandleSubscribeMessageRequest(k)
    PROVE  Joining'
  <1>a. /\ conns \in [Node -> SUBSET Node] /\ peers \in [Node -> SUBSET Node]
        /\ out \in [Node -> SUBSET Envelope]
    BY DEF TypeOK
  <1>1. PICK q : q = Head(inbox[k]).RequestorID
    OBVIOUS
  <1>2. /\ Receive(k, "subscribe")
        /\ conns' = conns /\ dialing' = dialing /\ subscribed' = subscribed
    BY DEF HandleSubscribeMessageRequest
  <1>3. /\ out[k] = {} /\ Head(inbox[k]).type = "subscribe"
        /\ \A m \in Node : m # k => Queued(m)' = Queued(m)
        /\ Queued(k) \subseteq Queued(k)' \union {Head(inbox[k])}
    BY <1>2, ReceiveQueued
  <1>4. PICK known : known = {q} \intersect conns[k]
    OBVIOUS
  <1>5. /\ peers' = [peers EXCEPT ![k] = @ \union known]
        /\ out' = [out EXCEPT ![k] = {Reply(k, m) : m \in known}]
    BY <1>1, <1>4 DEF HandleSubscribeMessageRequest, Reply
  <1>6. Wider
    BY <1>a, <1>2, <1>5 DEF Wider
  <1>7. ASSUME NEW n \in Node, NEW m \in Node, <<n, m>> \in subscribed
        PROVE  Subscribing(n, m)'
    <2>1. Subscribing(n, m) /\ n \in conns[m] /\ m \in conns[n]
      BY <1>7 DEF Joining, Subscribing
    <2>2. SubscribeMessageResponse(m) \in Queued(n) => SubscribeMessageResponse(m) \in Queued(n)'
      BY <1>3 DEF SubscribeMessageResponse
    <2>3. CASE /\ m = k
               /\ SubscribeMessageRequest(n) = Head(inbox[k])
      <3>1. q = n
        BY <1>1, <2>3 DEF SubscribeMessageRequest
      <3>2. n \in known
        BY <1>4, <2>1, <2>3, <3>1
      <3>3. n \in peers'[m] /\ Reply(m, n) \in out'[m]
        BY <1>a, <1>5, <2>3, <3>2
      <3> QED BY <1>2, <2>1, <3>3
              DEF Subscribing, Reply, SubscribeMessageRequest, SubscribeMessageResponse
    <2>4. CASE ~(m = k /\ SubscribeMessageRequest(n) = Head(inbox[k]))
      <3>1. SubscribeMessageRequest(n) \in Queued(m) => SubscribeMessageRequest(n) \in Queued(m)'
        BY <1>3, <2>4
      <3>2. Reply(m, n) \in out[m] => Reply(m, n) \in out'[m]
        BY <1>a, <1>3, <1>5
      <3> QED BY <1>6, <2>1, <2>2, <3>1, <3>2, SubscribingKept
    <2> QED BY <2>3, <2>4
  <1> QED BY <1>2, <1>7 DEF Joining, Mutual, Subscribing

LEMMA ResponseJoining ==
    ASSUME TypeOK, Joining, NEW k \in Node, HandleSubscribeMessageResponse(k)
    PROVE  Joining'
  <1>a. /\ conns \in [Node -> SUBSET Node] /\ peers \in [Node -> SUBSET Node]
    BY DEF TypeOK
  <1>1. PICK q : q = Head(inbox[k]).ProviderId
    OBVIOUS
  <1>2. /\ Receive(k, "subscribed") /\ out' = out
        /\ conns' = conns /\ dialing' = dialing /\ subscribed' = subscribed
    BY DEF HandleSubscribeMessageResponse
  <1>3. /\ Head(inbox[k]).type = "subscribed"
        /\ \A m \in Node : m # k => Queued(m)' = Queued(m)
        /\ Queued(k) \subseteq Queued(k)' \union {Head(inbox[k])}
    BY <1>2, ReceiveQueued
  <1>4. PICK known : known = {q} \intersect conns[k]
    OBVIOUS
  <1>5. peers' = [peers EXCEPT ![k] = @ \union known]
    BY <1>1, <1>4 DEF HandleSubscribeMessageResponse
  <1>6. Wider
    BY <1>a, <1>2, <1>5 DEF Wider
  <1>7. ASSUME NEW n \in Node, NEW m \in Node, <<n, m>> \in subscribed
        PROVE  Subscribing(n, m)'
    <2>1. Subscribing(n, m) /\ n \in conns[m] /\ m \in conns[n]
      BY <1>7 DEF Joining, Subscribing
    <2>2. SubscribeMessageRequest(n) \in Queued(m) => SubscribeMessageRequest(n) \in Queued(m)'
      BY <1>3 DEF SubscribeMessageRequest
    <2>3. CASE /\ n = k
               /\ SubscribeMessageResponse(m) = Head(inbox[k])
      <3>1. q = m
        BY <1>1, <2>3 DEF SubscribeMessageResponse
      <3>2. m \in known
        BY <1>4, <2>1, <2>3, <3>1
      <3>3. m \in peers'[n]
        BY <1>a, <1>5, <2>3, <3>2
      <3>4. n \in peers'[m] \/ SubscribeMessageRequest(n) \in Queued(m)'
        BY <1>6, <2>1, <2>2 DEF Subscribing, Wider
      <3> QED BY <1>2, <2>1, <3>3, <3>4
              DEF Subscribing, SubscribeMessageRequest, SubscribeMessageResponse
    <2>4. CASE ~(n = k /\ SubscribeMessageResponse(m) = Head(inbox[k]))
      <3>1. SubscribeMessageResponse(m) \in Queued(n) => SubscribeMessageResponse(m) \in Queued(n)'
        BY <1>3, <2>4
      <3> QED BY <1>2, <1>6, <2>1, <2>2, <3>1, SubscribingKept
    <2> QED BY <2>3, <2>4
  <1> QED BY <1>2, <1>7 DEF Joining, Mutual, Subscribing

LEMMA DialJoining ==
    ASSUME TypeOK, Joining, NEW k \in Node, NEW j \in Node, <<k, j>> \in Link, Dial(k, j)
    PROVE  Joining'
  <1>a. /\ conns \in [Node -> SUBSET Node]
        /\ dialing \subseteq Node \X Node /\ subscribed \subseteq Node \X Node
    BY NodeAssumption DEF TypeOK
  <1>b. /\ Mutual /\ dialing \intersect subscribed = {}
        /\ \A n, m \in Node : <<n, m>> \in subscribed => Subscribing(n, m)
    BY DEF Joining
  <1>1. CASE Connect(k, j)
    <2>1. /\ conns' = [conns EXCEPT ![k] = @ \union {j}]
          /\ dialing' = dialing \union {<<k, j>>}
          /\ UNCHANGED <<subscribed, peers, inbox, out>> /\ j \notin conns[k]
      BY <1>1 DEF Connect
    <2>2. Wider
      BY <1>a, <2>1 DEF Wider
    <2>3. ASSUME NEW n \in Node, NEW m \in Node, <<n, m>> \in subscribed
          PROVE  Subscribing(n, m)'
      BY <1>b, <2>1, <2>2, <2>3, SameQueued, SubscribingKept
    <2>4. <<k, j>> \notin subscribed
      BY <1>b, <2>1 DEF Subscribing
    <2>5. ASSUME NEW l \in dialing' PROVE l[2] \in conns'[l[1]]
      <3>1. CASE l = <<k, j>>
        BY <1>a, <2>1, <3>1
      <3>2. CASE l \in dialing
        <4>1. l[2] \in conns[l[1]] /\ l[1] \in Node
          BY <1>a, <1>b, <3>2 DEF Mutual
        <4> QED BY <2>2, <4>1 DEF Wider
      <3> QED BY <2>1, <3>1, <3>2
    <2>6. ASSUME NEW n \in Node, NEW m \in Node, m \in conns'[n]
          PROVE  <<n, m>> \in dialing' \/ n \in conns'[m]
      <3>1. CASE m \in conns[n]
        BY <1>b, <2>1, <2>2, <3>1 DEF Mutual, Wider
      <3>2. CASE m \notin conns[n]
        <4>1. n = k /\ m = j
          BY <1>a, <2>1, <2>6, <3>2
        <4> QED BY <2>1, <4>1
      <3> QED BY <3>1, <3>2
    <2>7. dialing' \intersect subscribed' = {}
      BY <1>b, <2>1, <2>4
    <2> QED BY <2>1, <2>3, <2>5, <2>6, <2>7 DEF Joining, Mutual, Subscribing
  <1>2. CASE ConnectBack(k, j)
    <2>1. /\ conns' = [conns EXCEPT ![j] = @ \union {k}]
          /\ dialing' = dialing \ {<<k, j>>}
          /\ UNCHANGED <<subscribed, peers, inbox, out>> /\ <<k, j>> \in dialing
      BY <1>2 DEF ConnectBack
    <2>2. Wider
      BY <1>a, <2>1 DEF Wider
    <2>3. ASSUME NEW n \in Node, NEW m \in Node, <<n, m>> \in subscribed
          PROVE  Subscribing(n, m)'
      BY <1>b, <2>1, <2>2, <2>3, SameQueued, SubscribingKept
    <2>4. j \in conns'[k]
      <3>1. <<k, j>>[2] \in conns[<<k, j>>[1]]
        BY <1>b, <2>1 DEF Mutual
      <3>2. j \in conns[k]
        BY <3>1
      <3> QED BY <2>2, <3>2 DEF Wider
    <2>5. ASSUME NEW l \in dialing' PROVE l[2] \in conns'[l[1]]
      <3>1. l[2] \in conns[l[1]] /\ l[1] \in Node
        BY <1>a, <1>b, <2>1, <2>5 DEF Mutual
      <3> QED BY <2>2, <3>1 DEF Wider
    <2>6. ASSUME NEW n \in Node, NEW m \in Node, m \in conns'[n]
          PROVE  <<n, m>> \in dialing' \/ n \in conns'[m]
      <3>1. CASE n = k /\ m = j
        BY <1>a, <2>1, <3>1
      <3>2. CASE n = j /\ m = k
        BY <2>4, <3>2
      <3>3. CASE ~(n = k /\ m = j) /\ ~(n = j /\ m = k)
        <4>1. m \in conns[n]
          BY <1>a, <2>1, <2>6, <3>3
        <4>2. <<n, m>> \in dialing \/ n \in conns[m]
          BY <1>b, <4>1 DEF Mutual
        <4>3. <<n, m>> # <<k, j>>
          BY <3>3
        <4> QED BY <2>1, <2>2, <4>2, <4>3 DEF Wider
      <3> QED BY <3>1, <3>2, <3>3
    <2>7. dialing' \intersect subscribed' = {}
      BY <1>b, <2>1
    <2> QED BY <2>1, <2>3, <2>5, <2>6, <2>7 DEF Joining, Mutual, Subscribing
  <1>3. CASE Subscribe(k, j)
    <2>1. /\ UNCHANGED <<conns, dialing, peers, out>>
          /\ subscribed' = subscribed \union {<<k, j>>}
          /\ j \in conns[k] /\ <<k, j>> \notin dialing
      BY <1>3 DEF Subscribe
    <2>2. PICK e : e = [msg |-> SubscribeMessageRequest(k), to |-> j]
      OBVIOUS
    <2>3. e \in Envelope /\ Deliver(e) /\ e.to = j /\ e.msg = SubscribeMessageRequest(k)
      BY <1>3, <2>2, MessageTypes DEF Subscribe, Envelope
    <2>4. /\ \A n \in Node : Queued(n) \subseteq Queued(n)'
          /\ SubscribeMessageRequest(k) \in Queued(j)'
      BY <2>3, DeliverQueued
    <2>5. Wider
      BY <2>1 DEF Wider
    <2>6. ASSUME NEW n \in Node, NEW m \in Node, <<n, m>> \in subscribed
          PROVE  Subscribing(n, m)'
      BY <1>b, <2>1, <2>4, <2>5, <2>6, SubscribingKept
    <2>7. Subscribing(k, j)'
      <3>1. k \in conns[j]
        BY <1>b, <2>1 DEF Mutual
      <3> QED BY <2>1, <2>4, <3>1 DEF Subscribing, SubscribeMessageRequest
    <2>8. ASSUME NEW n \in Node, NEW m \in Node, <<n, m>> \in subscribed'
          PROVE  Subscribing(n, m)'
      <3>1. CASE <<n, m>> \in subscribed
        BY <2>6, <3>1
      <3>2. CASE <<n, m>> = <<k, j>>
        <4>1. n = k /\ m = j
          BY <3>2
        <4> QED BY <2>7, <4>1
      <3> QED BY <2>1, <2>8, <3>1, <3>2
    <2>9. Mutual'
      BY <1>b, <2>1 DEF Mutual
    <2>10. dialing' \intersect subscribed' = {}
      BY <1>b, <2>1
    <2> QED BY <2>8, <2>9, <2>10 DEF Joining, Subscribing
  <1> QED BY <1>1, <1>2, <1>3 DEF Dial

LEMMA JoiningStep == TypeOK /\ Joining /\ [Next]_vars => Joining'
  <1> SUFFICES ASSUME TypeOK, Joining, [Next]_vars PROVE Joining'
    OBVIOUS
  <1>1. CASE ~JoinStep
    BY <1>1, PreservingStep, JoiningKept
  <1>2. ASSUME NEW l \in Link, Dial(l[1], l[2]) PROVE Joining'
    <2>1. l[1] \in Node /\ l[2] \in Node /\ <<l[1], l[2]>> \in Link
      BY NodeAssumption
    <2> QED BY <1>2, <2>1, DialJoining
  <1> QED BY <1>1, <1>2, RequestJoining, ResponseJoining DEF JoinStep

LEMMA JoiningInit == Init => Joining
  <1> SUFFICES ASSUME Init PROVE Joining
    OBVIOUS
  <1>1. /\ dialing = {} /\ subscribed = Joined
        /\ \A n \in Node : conns[n] = Neighbours(n) /\ peers[n] = Neighbours(n)
    BY DEF Init
  <1>2. \A n, m \in Node : m \in Neighbours(n) => n \in Neighbours(m)
    BY DEF Neighbours
  <1>3. \A n, m \in Node : <<n, m>> \in Joined => m \in Neighbours(n)
    BY DEF Neighbours
  <1>4. Mutual
    BY <1>1, <1>2 DEF Mutual
  <1>5. \A n, m \in Node : <<n, m>> \in subscribed => Subscribing(n, m)
    BY <1>1, <1>2, <1>3 DEF Subscribing
  <1> QED BY <1>1, <1>4, <1>5 DEF Joining

-----------------------------------------------------------------------------
(***************************************************************************)
(* Catching up.  CaughtUp is the invariant.                                *)
(***************************************************************************)
Star == \A n \in Node \ {Validator} : <<n, Validator>> \in Link \/ <<Validator, n>> \in Link

CaughtUp == AgreementInv /\ Answered /\ Linked /\ Joining

(***************************************************************************)
(* Who is linked with the validator and has joined knows it and is known.  *)
(***************************************************************************)
LEMMA StarJoined ==
    ASSUME TypeOK, Joining, AllJoined, Star, NEW n \in Node, n # Validator
    PROVE  n \in conns[Validator] /\ Validator \in conns[n] /\ n \in peers[Validator]
  <1>0. Validator \in Node
    BY NodeAssumption
  <1>1. \A k, m \in Node : /\ SubscribeMessageRequest(k) \notin Queued(m)
                           /\ SubscribeMessageResponse(k) \notin Queued(m)
                           /\ \A j : Reply(k, j) \notin out[m]
    <2>1. \A k : Joins(SubscribeMessageRequest(k)) /\ Joins(SubscribeMessageResponse(k))
      BY DEF Joins, SubscribeMessageRequest, SubscribeMessageResponse
    <2>2. \A k, j : Reply(k, j).msg = SubscribeMessageResponse(k)
      BY DEF Reply
    <2> QED BY <2>1, <2>2 DEF AllJoined
  <1>2. CASE <<n, Validator>> \in Link
    <2>1. Subscribing(n, Validator)
      BY <1>0, <1>2 DEF AllJoined, Joining
    <2> QED BY <1>0, <1>1, <2>1 DEF Subscribing
  <1>3. CASE <<Validator, n>> \in Link
    <2>1. Subscribing(Validator, n)
      BY <1>0, <1>3 DEF AllJoined, Joining
    <2> QED BY <1>0, <1>1, <2>1 DEF Subscribing, Reply
  <1> QED BY <1>2, <1>3 DEF Star

(***************************************************************************)
(* Nobody joined in this step, and a block has been made: so it was before.*)
(***************************************************************************)
LEMMA JoinedBefore ==
    ASSUME TypeOK, Joining, [Next]_vars, fresh', AllJoined'
    PROVE  Preserving /\ ~JoinStep /\ AllJoined /\ (fresh \/ CreateNewBlock)
  <1>a. subscribed' = Link /\ dialing' = {}
    BY DEF AllJoined
  <1>1. ~JoinStep
    <2>1. ASSUME NEW n \in Node,
                 HandleSubscribeMessageRequest(n) \/ HandleSubscribeMessageResponse(n)
          PROVE  FALSE
      BY <2>1 DEF HandleSubscribeMessageRequest, HandleSubscribeMessageResponse
    <2>2. ASSUME NEW l \in Link, Dial(l[1], l[2]) PROVE FALSE
      <3>0. l[1] \in Node /\ l[2] \in Node /\ l = <<l[1], l[2]>>
        BY NodeAssumption
      <3>1. CASE Connect(l[1], l[2])
        BY <1>a, <3>1 DEF Connect
      <3>2. CASE ConnectBack(l[1], l[2])
        <4>1. l \in dialing /\ subscribed' = subscribed
          BY <3>0, <3>2 DEF ConnectBack
        <4> QED BY <1>a, <4>1 DEF Joining
      <3>3. CASE Subscribe(l[1], l[2])
        <4>1. PICK e : e = [msg |-> SubscribeMessageRequest(l[1]), to |-> l[2]]
          OBVIOUS
        <4>2. /\ e \in Envelope /\ Deliver(e) /\ e.to = l[2]
              /\ e.msg = SubscribeMessageRequest(l[1])
          BY <3>0, <3>3, <4>1, MessageTypes DEF Subscribe, Envelope
        <4>3. SubscribeMessageRequest(l[1]) \in Queued(l[2])'
          BY <3>0, <4>2, DeliverQueued
        <4>4. Joins(SubscribeMessageRequest(l[1]))
          BY DEF Joins, SubscribeMessageRequest
        <4> QED BY <3>0, <4>3, <4>4 DEF AllJoined, Joins
      <3> QED BY <2>2, <3>1, <3>2, <3>3 DEF Dial
    <2> QED BY <2>1, <2>2 DEF JoinStep
  <1>2. Preserving
    BY <1>1, PreservingStep
  <1>3. subscribed = Link /\ dialing = {}
    BY <1>a, <1>2 DEF Preserving, net
  <1>4. \A n \in Node : \A m \in Queued(n) : ~Joins(m)
    BY <1>2 DEF Preserving, AllJoined, Joins
  <1>5. \A n \in Node : \A e \in out[n] : ~Joins(e.msg)
    <2> SUFFICES ASSUME NEW n \in Node, NEW e \in out[n], Joins(e.msg) PROVE FALSE
      OBVIOUS
    <2>1. e \in Envelope
      BY DEF TypeOK
    <2>2. e.to \in Node
      BY <2>1 DEF Envelope
    <2> QED BY <1>2, <2>2 DEF Preserving, AllJoined, Joins
  <1>6. fresh' = fresh \/ CreateNewBlock
    BY <1>1 DEF Next, JoinStep, RpcStep, StoreBlock, BroadcastBlock, Send, RpcSend, HandleBlock,
       HandleGetBlocksRequest, HandleGetBlocksResponse, ApplyBlock, vars
  <1> QED BY <1>1, <1>2, <1>3, <1>4, <1>5, <1>6 DEF AllJoined

(***************************************************************************)
(* The ways to catch up, one by one, as they are after a step that leaves  *)
(* the validator's chain, whose last block is L, K long.                   *)
(***************************************************************************)
Ahead(n, L, K) ==
    \/ Len(chain[n]) = K
    \/ storing
    \/ L \in relay[Validator]
    \/ [msg |-> BlockMessage(L), to |-> n] \in sends[Validator]
    \/ BlockMessage(L) \in Queued(n)
    \/ \E e \in out[n] : e.to = Validator /\ Asks(e.msg, n)
    \/ \E m \in Queued(Validator) : Asks(m, n)
    \/ \E e \in out[Validator] : e.to = n /\ Completes(e.msg, K)
    \/ \E m \in Queued(n) : Completes(m, K)
    \/ Reaches(applying[n], K)

LEMMA AheadIs ==
    ASSUME NEW n, NEW L, NEW K, L = Last, K = Len(chain[Validator])
    PROVE  CatchingUp(n) <=> Ahead(n, L, K)
  BY DEF CatchingUp, Ahead

LEMMA AheadThen ==
    ASSUME NEW n, NEW L, NEW K, L = Last', K = Len(chain'[Validator]), Ahead(n, L, K)'
    PROVE  CatchingUp(n)'
  BY DEF CatchingUp, Ahead, Completes, Reaches, Asks, BlockMessage

(***************************************************************************)
(* A server that has as many blocks as the validator keeps them.           *)
(***************************************************************************)
LEMMA CaughtStays ==
    ASSUME AgreementInv', Grown, NEW n \in Node, NEW K, K = Len(chain'[Validator]),
           Len(chain[n]) >= K
    PROVE  Len(chain'[n]) = K
  <1>1. /\ Len(chain[n]) \in Nat /\ Len(chain'[n]) \in Nat
        /\ Len(chain[n]) <= Len(chain'[n])
        /\ Len(chain'[Validator]) \in Nat
    BY NodeAssumption DEF Grown
  <1>2. Len(chain'[n]) <= Len(chain'[Validator])
    BY DEF AgreementInv, Agreement, PrefixOfValidator
  <1> QED BY <1>1, <1>2

(***************************************************************************)
(* What the rpc loop does with the message it takes leaves everything that *)
(* is on its way elsewhere.                                                *)
(***************************************************************************)
LEMMA AheadReceive ==
    ASSUME TypeOK, NEW n \in Node, NEW L, NEW K, Ahead(n, L, K),
           NEW k \in Node, NEW t \in {"block", "getBlocks", "blocks"}, Receive(k, t),
           UNCHANGED <<storing, sends>>,
           \A m \in Node : relay[m] \subseteq relay'[m],
           \A m \in Node : m # k => out'[m] = out[m] /\ applying'[m] = applying[m],
           Len(chain[n]) = K => Len(chain'[n]) = K,
           k = n /\ Head(inbox[k]) = BlockMessage(L) => Ahead(n, L, K)',
           k = Validator /\ Asks(Head(inbox[k]), n) => Ahead(n, L, K)',
           k = n /\ Completes(Head(inbox[k]), K) => Ahead(n, L, K)'
    PROVE  Ahead(n, L, K)'
  <1>0. Validator \in Node
    BY NodeAssumption
  <1>1. /\ out[k] = {} /\ applying[k] = <<>>
        /\ \A m \in Node : m # k => Queued(m)' = Queued(m)
        /\ Queued(k) \subseteq Queued(k)' \union {Head(inbox[k])}
    BY ReceiveQueued
  <1>2. CASE \/ Len(chain[n]) = K
             \/ storing
             \/ L \in relay[Validator]
             \/ [msg |-> BlockMessage(L), to |-> n] \in sends[Validator]
    BY <1>0, <1>2 DEF Ahead, BlockMessage
  <1>3. CASE BlockMessage(L) \in Queued(n)
    <2>1. BlockMessage(L) \in Queued(n)' \/ (k = n /\ Head(inbox[k]) = BlockMessage(L))
      BY <1>1, <1>3
    <2> QED BY <2>1 DEF Ahead, BlockMessage
  <1>4. CASE \E e \in out[n] : e.to = Validator /\ Asks(e.msg, n)
    <2>1. k # n
      BY <1>1, <1>4
    <2> QED BY <1>4, <2>1 DEF Ahead, Asks
  <1>5. CASE \E m \in Queued(Validator) : Asks(m, n)
    <2>1. PICK m \in Queued(Validator) : Asks(m, n)
      BY <1>5
    <2>2. m \in Queued(Validator)' \/ (k = Validator /\ Head(inbox[k]) = m)
      BY <1>0, <1>1, <2>1
    <2> QED BY <2>1, <2>2 DEF Ahead, Asks
  <1>6. CASE \E e \in out[Validator] : e.to = n /\ Completes(e.msg, K)
    <2>1. k # Validator
      BY <1>1, <1>6
    <2> QED BY <1>0, <1>6, <2>1 DEF Ahead, Completes, Reaches
  <1>7. CASE \E m \in Queued(n) : Completes(m, K)
    <2>1. PICK m \in Queued(n) : Completes(m, K)
      BY <1>7
    <2>2. m \in Queued(n)' \/ (k = n /\ Head(inbox[k]) = m)
      BY <1>1, <2>1
    <2> QED BY <2>1, <2>2 DEF Ahead, Completes, Reaches
  <1>8. CASE Reaches(applying[n], K)
    <2>1. k # n
      BY <1>1, <1>8 DEF Reaches
    <2> QED BY <1>8, <2>1 DEF Ahead, Reaches
  <1> QED BY <1>2, <1>3, <1>4, <1>5, <1>6, <1>7, <1>8 DEF Ahead

(***************************************************************************)
(* The last block arrives: it is added, or the validator is asked for what *)
(* is missing, or the server has it.                                       *)
(***************************************************************************)
LastIs(L, K) == L = Last /\ K = Len(chain[Validator])

LEMMA LastBlockIs ==
    ASSUME AgreementInv, NEW L, NEW K, LastIs(L, K)
    PROVE  L \in Block /\ K \in Nat \ {0} /\ L.Height = K - 1
  <1>0. Agreement /\ TypeOK /\ Rooted /\ Validator \in Node
    BY NodeAssumption DEF AgreementInv, Agreement
  <1>1. K \in DOMAIN chain[Validator] /\ K \in Nat \ {0} /\ L \in Block
    BY <1>0, LastBlock DEF LastIs, Last
  <1> QED BY <1>0, <1>1 DEF LastIs, Last, Agreement, Numbered

LEMMA LastArrives ==
    ASSUME AgreementInv, Linked, AgreementInv', Grown,
           NEW n \in Node, Validator \in conns[n],
           NEW L, NEW K, LastIs(L, K), chain'[Validator] = chain[Validator],
           HandleBlock(n), Head(inbox[n]) = BlockMessage(L)
    PROVE  Ahead(n, L, K)'
  <1>0. Agreement /\ TypeOK /\ Rooted /\ Validator \in Node
    BY NodeAssumption DEF AgreementInv, Agreement
  <1>1. L \in Block /\ K \in Nat \ {0} /\ L.Height = K - 1
    BY LastBlockIs
  <1>2. /\ Published(L) /\ Head(inbox[n]).block = L
        /\ chain' = IF Fits(n, L) THEN [chain EXCEPT ![n] = Append(@, L)] ELSE chain
    <2>1. Head(inbox[n]).block = L
      BY DEF BlockMessage
    <2> QED BY <2>1, HeadBlock
  <1>3. Len(chain[n]) \in Nat /\ K = Len(chain'[Validator])
    BY <1>0 DEF LastIs, Grown
  <1>4. CASE Fits(n, L)
    <2>1. Len(chain[n]) = K - 1
      BY <1>1, <1>3, <1>4 DEF Fits, Height
    <2>2. chain'[n] = Append(chain[n], L) /\ chain[n] \in Seq(Block)
      BY <1>0, <1>2, <1>4 DEF TypeOK
    <2>3. Len(chain'[n]) = K
      BY <1>1, <2>1, <2>2
    <2> QED BY <2>3 DEF Ahead
  <1>5. CASE OutOfSync(n, L)
    <2>1. ~Fits(n, L)
      BY <1>1, <1>3, <1>5 DEF Fits, OutOfSync, Height
    <2>2. out' = [out EXCEPT ![n] = ToAll(n, GetBlocksRequest(n, StartHeight(n)))]
      BY <1>2, <1>5, <2>1 DEF HandleBlock
    <2>3. PICK e : e = [msg |-> GetBlocksRequest(n, StartHeight(n)), to |-> Validator]
      OBVIOUS
    <2>4. e \in out'[n]
      BY <1>0, <2>2, <2>3 DEF ToAll, TypeOK
    <2>5. e.to = Validator /\ Asks(e.msg, n)
      BY <2>3 DEF Asks, GetBlocksRequest
    <2> QED BY <2>4, <2>5 DEF Ahead, Asks
  <1>6. CASE ~Fits(n, L) /\ ~OutOfSync(n, L)
    <2>1. L.Height <= Len(chain[n])
      BY <1>1, <1>3, <1>6 DEF OutOfSync, Height
    <2>2. L.Height < Len(chain[n])
      BY <1>1, <1>2, <1>6, <2>1, RefusedIsKnown
    <2>3. Len(chain[n]) >= K
      BY <1>1, <1>3, <2>2
    <2>4. Len(chain'[n]) = K
      BY <1>3, <2>3, CaughtStays
    <2> QED BY <2>4 DEF Ahead
  <1> QED BY <1>4, <1>5, <1>6

(***************************************************************************)
(* The validator answers: with everything up to its last block, unless the *)
(* server has caught up meanwhile or the next block is being stored.       *)
(***************************************************************************)
LEMMA SuffixReaches ==
    ASSUME AgreementInv, NEW K, K = Len(chain[Validator]), NEW from \in Nat, from < K
    PROVE  Reaches(SubSeq(chain[Validator], from + 1, K), K)
  <1>1. PICK s \in Seq(Block) : s = chain[Validator]
    BY NodeAssumption DEF AgreementInv, Agreement, TypeOK
  <1>2. K \in Nat /\ K = Len(s)
    BY <1>1
  <1>3. PICK bs : bs = SubSeq(s, from + 1, K)
    OBVIOUS
  <1>4. /\ Len(bs) = K - from
        /\ \A i \in 1 .. (K - from) : bs[i] = s[from + i]
    BY <1>2, <1>3
  <1>5. /\ K - from \in 1 .. (K - from) /\ from + (K - from) = K
        /\ K \in DOMAIN s
    BY <1>2
  <1>6. bs[Len(bs)] = s[K] /\ Len(bs) # 0
    BY <1>4, <1>5
  <1>7. s[K].Height = K - 1
    BY <1>1, <1>5 DEF AgreementInv, Agreement, Numbered
  <1>8. bs # <<>>
    BY <1>6
  <1> QED BY <1>1, <1>3, <1>6, <1>7, <1>8 DEF Reaches

LEMMA ValidatorAnswers ==
    ASSUME AgreementInv, Answered, AgreementInv', Grown,
           NEW n \in Node, n \in peers[Validator],
           NEW L, NEW K, LastIs(L, K), chain' = chain,
           HandleGetBlocksRequest(Validator), Asks(Head(inbox[Validator]), n)
    PROVE  Ahead(n, L, K)'
  <1>0. Agreement /\ TypeOK /\ Rooted /\ Validator \in Node
    BY NodeAssumption DEF AgreementInv, Agreement
  <1>1. PICK req : req = Head(inbox[Validator])
    OBVIOUS
  <1>2. req \in Queued(Validator) /\ req \in Message /\ req.type = "getBlocks"
    BY <1>0, <1>1, ReceiveQueued DEF HandleGetBlocksRequest
  <1>3. req.RequestorID = n /\ req.StartHeight \in Nat
    BY <1>1, <1>2, MessageFields DEF Asks
  <1>4. req.StartHeight <= Len(chain[n])
    BY <1>0, <1>2, <1>3 DEF Answered, Answers
  <1>5. Len(chain[n]) \in Nat /\ K \in Nat
    BY <1>0 DEF Grown, LastIs
  <1>6. storing' = storing
    BY DEF HandleGetBlocksRequest
  <1>7. CASE req.StartHeight >= K
    <2>1. Len(chain[n]) >= K
      BY <1>3, <1>4, <1>5, <1>7
    <2>2. Len(chain'[n]) = K
      BY <2>1, CaughtStays DEF LastIs
    <2> QED BY <2>2 DEF Ahead
  <1>8. CASE storing
    BY <1>6, <1>8 DEF Ahead
  <1>9. CASE req.StartHeight < K /\ ~storing
    <2>1. PICK blocks : blocks = SubSeq(chain[Validator], req.StartHeight + 1, K)
      OBVIOUS
    <2>2. Reaches(blocks, K)
      BY <1>3, <1>9, <2>1, SuffixReaches DEF LastIs
    <2>3. PICK reply : reply = [msg |-> GetBlocksResponse(blocks), to |-> n]
      OBVIOUS
    <2>4. out' = [out EXCEPT ![Validator] = {reply}]
      BY <1>1, <1>3, <1>9, <2>1, <2>3 DEF HandleGetBlocksRequest, Readable, LastIs
    <2>5. reply \in out'[Validator]
      BY <1>0, <2>4 DEF TypeOK
    <2>6. reply.to = n /\ Completes(reply.msg, K)
      BY <2>2, <2>3 DEF Completes, GetBlocksResponse
    <2> QED BY <2>5, <2>6 DEF Ahead, Completes, Reaches
  <1> QED BY <1>3, <1>5, <1>7, <1>8, <1>9

(***************************************************************************)
(* A server applies a response that reaches the last block.                *)
(***************************************************************************)
LEMMA LastApplied ==
    ASSUME AgreementInv, Answered, Linked, AgreementInv', Grown,
           NEW n \in Node, NEW L, NEW K, LastIs(L, K), chain'[Validator] = chain[Validator],
           ApplyBlock(n), Reaches(applying[n], K)
    PROVE  Ahead(n, L, K)'
  <1>0. Agreement /\ TypeOK /\ Rooted /\ Validator \in Node
    BY NodeAssumption DEF AgreementInv, Agreement
  <1>1. PICK bs \in Seq(Block) : bs = applying[n]
    BY <1>0 DEF TypeOK
  <1>2. bs # <<>> /\ bs[Len(bs)].Height = K - 1
    BY <1>1 DEF Reaches
  <1>3. PICK b \in Block : b = Head(bs)
    BY <1>2
  <1>4. Published(b) /\ b = bs[1] /\ 1 \in DOMAIN bs
    BY <1>1, <1>2, <1>3, HeadApplying
  <1>5. b.Height <= Len(chain[n])
    BY <1>1, <1>4 DEF Answered, Gapless
  <1>6. /\ Len(chain[n]) \in Nat /\ b.Height \in Nat /\ K \in Nat
        /\ K = Len(chain'[Validator])
    BY <1>0 DEF Grown, Block, LastIs
  <1>7. Fits(n, b) \/ b.Height <= Height(n)
    <2>1. ~Fits(n, b) => b.Height < Len(chain[n])
      BY <1>4, <1>5, RefusedIsKnown
    <2> QED BY <1>6, <2>1 DEF Height
  <1>8. /\ chain' = IF Fits(n, b) THEN [chain EXCEPT ![n] = Append(@, b)] ELSE chain
        /\ applying' = [applying EXCEPT ![n] = Tail(bs)]
    BY <1>1, <1>3, <1>7 DEF ApplyBlock
  <1>9. applying'[n] = Tail(bs)
    BY <1>0, <1>8 DEF TypeOK
  <1>10. CASE Len(bs) = 1
    <2>1. b.Height = K - 1
      BY <1>2, <1>4, <1>10
    <2>2. CASE Fits(n, b)
      <3>1. chain'[n] = Append(chain[n], b) /\ chain[n] \in Seq(Block)
        BY <1>0, <1>8, <2>2 DEF TypeOK
      <3>2. Len(chain'[n]) = Len(chain[n]) + 1 /\ Len(chain[n]) = K - 1
        BY <1>6, <2>1, <2>2, <3>1 DEF Fits, Height
      <3>3. Len(chain'[n]) = K
        BY <1>6, <3>2
      <3> QED BY <3>3 DEF Ahead
    <2>3. CASE b.Height <= Height(n)
      <3>1. Len(chain[n]) >= K
        BY <1>6, <2>1, <2>3 DEF Height
      <3>2. Len(chain'[n]) = K
        BY <1>6, <3>1, CaughtStays
      <3> QED BY <3>2 DEF Ahead
    <2> QED BY <1>7, <2>2, <2>3
  <1>11. CASE Len(bs) # 1
    <2>1. PICK k \in Nat : k = Len(bs)
      OBVIOUS
    <2>2. k > 1 /\ k - 1 \in 1 .. (k - 1) /\ (k - 1) + 1 = k
      BY <1>2, <1>11, <2>1
    <2>3. Len(Tail(bs)) = k - 1 /\ \A i \in 1 .. (k - 1) : Tail(bs)[i] = bs[i + 1]
      BY <1>2, <2>1
    <2>4. Tail(bs) # <<>> /\ Tail(bs)[Len(Tail(bs))] = bs[Len(bs)]
      <3>1. Tail(bs)[k - 1] = bs[(k - 1) + 1]
        BY <2>2, <2>3
      <3>2. Tail(bs)[Len(Tail(bs))] = bs[Len(bs)]
        BY <2>1, <2>2, <2>3, <3>1
      <3>3. Len(Tail(bs)) # 0
        BY <2>2, <2>3
      <3>4. Len(<<>>) = 0
        OBVIOUS
      <3> QED BY <3>2, <3>3, <3>4
    <2>5. Reaches(applying'[n], K)
      BY <1>2, <1>9, <2>4 DEF Reaches
    <2> QED BY <2>5 DEF Ahead, Reaches
  <1> QED BY <1>10, <1>11

(***************************************************************************)
(* A message that is sent arrives.                                         *)
(***************************************************************************)
LEMMA AheadDeliver ==
    ASSUME TypeOK, NEW n \in Node, NEW L, NEW K, Ahead(n, L, K),
           NEW e \in Envelope, Deliver(e),
           UNCHANGED <<storing, chain, applying, relay>>,
           \A k \in Node : \A f \in out[k] : f \in out'[k] \/ f = e,
           \A k \in Node : \A f \in sends[k] : f \in sends'[k] \/ f = e
    PROVE  Ahead(n, L, K)'
  <1>0. Validator \in Node /\ e.to \in Node
    BY NodeAssumption DEF Envelope
  <1>1. \A k \in Node : Queued(k) \subseteq Queued(k)'
    BY DeliverQueued
  <1>2. e.msg \in Queued(e.to)'
    BY <1>0, DeliverQueued
  <1>3. CASE \/ Len(chain[n]) = K \/ storing \/ L \in relay[Validator]
             \/ BlockMessage(L) \in Queued(n) \/ Reaches(applying[n], K)
    BY <1>0, <1>1, <1>3 DEF Ahead, BlockMessage, Reaches
  <1>4. CASE [msg |-> BlockMessage(L), to |-> n] \in sends[Validator]
    <2>1. PICK f : f = [msg |-> BlockMessage(L), to |-> n]
      OBVIOUS
    <2>2. f \in sends'[Validator] \/ f = e
      BY <1>0, <1>4, <2>1
    <2>3. CASE f \in sends'[Validator]
      BY <2>1, <2>3 DEF Ahead, BlockMessage
    <2>4. CASE f = e
      <3>1. e.msg = BlockMessage(L) /\ e.to = n
        BY <2>1, <2>4
      <3>2. BlockMessage(L) \in Queued(n)'
        BY <1>2, <3>1
      <3> QED BY <3>2 DEF Ahead, BlockMessage
    <2> QED BY <2>2, <2>3, <2>4
  <1>5. CASE \E f \in out[n] : f.to = Validator /\ Asks(f.msg, n)
    <2>1. PICK f \in out[n] : f.to = Validator /\ Asks(f.msg, n)
      BY <1>5
    <2>2. f \in out'[n] \/ f.msg \in Queued(Validator)'
      BY <1>2, <2>1
    <2> QED BY <2>1, <2>2 DEF Ahead, Asks
  <1>6. CASE \E m \in Queued(Validator) : Asks(m, n)
    BY <1>0, <1>1, <1>6 DEF Ahead, Asks
  <1>7. CASE \E f \in out[Validator] : f.to = n /\ Completes(f.msg, K)
    <2>1. PICK f \in out[Validator] : f.to = n /\ Completes(f.msg, K)
      BY <1>7
    <2>2. f \in out'[Validator] \/ f.msg \in Queued(n)'
      BY <1>0, <1>2, <2>1
    <2> QED BY <2>1, <2>2 DEF Ahead, Completes, Reaches
  <1>8. CASE \E m \in Queued(n) : Completes(m, K)
    BY <1>1, <1>8 DEF Ahead, Completes, Reaches
  <1> QED BY <1>3, <1>4, <1>5, <1>6, <1>7, <1>8 DEF Ahead

(***************************************************************************)
(* Every step of a settled network leaves every server some way to catch   *)
(* up.                                                                     *)
(***************************************************************************)
LEMMA AheadRpc ==
    ASSUME CaughtUp, AgreementInv', Grown, NEW n \in Node,
           n \in peers[Validator], Validator \in conns[n],
           NEW L, NEW K, LastIs(L, K), chain'[Validator] = chain[Validator],
           Ahead(n, L, K), NEW k \in Node, RpcStep(k),
           ~HandleSubscribeMessageRequest(k), ~HandleSubscribeMessageResponse(k)
    PROVE  Ahead(n, L, K)'
  <1>0. /\ AgreementInv /\ Answered /\ Linked /\ Joining /\ TypeOK
        /\ Validator \in Node
    BY NodeAssumption DEF CaughtUp, AgreementInv, Agreement
  <1>a. /\ out \in [Node -> SUBSET Envelope] /\ relay \in [Node -> SUBSET Block]
        /\ applying \in [Node -> Seq(Block)]
    BY <1>0 DEF TypeOK
  <1>b. Len(chain[n]) = K => Len(chain'[n]) = K
    <2>1. Len(chain[n]) \in Nat /\ K = Len(chain'[Validator])
      BY DEF Grown, LastIs
    <2> QED BY <2>1, CaughtStays
  <1>1. CASE RpcSend(k)
    <2>1. PICK e \in out[k] : Deliver(e) /\ out' = [out EXCEPT ![k] = @ \ {e}]
      BY <1>1 DEF RpcSend
    <2>2. /\ e \in Envelope /\ UNCHANGED <<storing, chain, applying, relay, sends>>
          /\ \A j \in Node : \A f \in out[j] : f \in out'[j] \/ f = e
      BY <1>1, <1>a, <2>1 DEF RpcSend
    <2> QED BY <1>0, <2>1, <2>2, AheadDeliver
  <1>2. CASE HandleBlock(k)
    <2>1. Receive(k, "block") /\ UNCHANGED <<storing, sends, applying>>
      BY <1>2 DEF HandleBlock
    <2>2. /\ \A m \in Node : relay[m] \subseteq relay'[m]
          /\ \A m \in Node : m # k => out'[m] = out[m]
      BY <1>2, <1>a DEF HandleBlock
    <2>3. Head(inbox[k]).type = "block"
      BY <2>1 DEF Receive
    <2>4. ~Asks(Head(inbox[k]), n) /\ ~Completes(Head(inbox[k]), K)
      BY <2>3 DEF Asks, Completes
    <2>5. k = n /\ Head(inbox[k]) = BlockMessage(L) => Ahead(n, L, K)'
      BY <1>0, <1>2, LastArrives
    <2> QED BY <1>0, <1>b, <2>1, <2>2, <2>4, <2>5, AheadReceive
  <1>3. CASE HandleGetBlocksRequest(k)
    <2>1. Receive(k, "getBlocks") /\ UNCHANGED <<chain, storing, sends, applying, relay>>
      BY <1>3 DEF HandleGetBlocksRequest
    <2>2. \A m \in Node : m # k => out'[m] = out[m]
      BY <1>3, <1>a DEF HandleGetBlocksRequest
    <2>3. Head(inbox[k]).type = "getBlocks"
      BY <2>1 DEF Receive
    <2>4. Head(inbox[k]) # BlockMessage(L) /\ ~Completes(Head(inbox[k]), K)
      BY <2>3 DEF BlockMessage, Completes
    <2>5. k = Validator /\ Asks(Head(inbox[k]), n) => Ahead(n, L, K)'
      BY <1>0, <1>3, <2>1, ValidatorAnswers
    <2> QED BY <1>0, <1>b, <2>1, <2>2, <2>4, <2>5, AheadReceive
  <1>4. CASE HandleGetBlocksResponse(k)
    <2>1. Receive(k, "blocks") /\ UNCHANGED <<storing, sends, out, relay>>
      BY <1>4 DEF HandleGetBlocksResponse
    <2>2. applying' = [applying EXCEPT ![k] = Head(inbox[k]).Blocks]
      BY <1>4 DEF HandleGetBlocksResponse
    <2>3. \A m \in Node : m # k => applying'[m] = applying[m]
      BY <1>a, <2>2
    <2>4. Head(inbox[k]).type = "blocks"
      BY <2>1 DEF Receive
    <2>5. Head(inbox[k]) # BlockMessage(L) /\ ~Asks(Head(inbox[k]), n)
      BY <2>4 DEF BlockMessage, Asks
    <2>6. k = n /\ Completes(Head(inbox[k]), K) => Ahead(n, L, K)'
      <3>1. applying'[k] = Head(inbox[k]).Blocks
        BY <1>a, <2>2
      <3> QED BY <3>1 DEF Completes, Ahead, Reaches
    <2> QED BY <1>0, <1>b, <2>1, <2>3, <2>5, <2>6, AheadReceive
  <1>5. CASE ApplyBlock(k)
    <2>1. UNCHANGED <<storing, inbox, relay, sends, out>> /\ applying[k] # <<>>
      BY <1>5 DEF ApplyBlock
    <2>2. \A m \in Node : m # k => applying'[m] = applying[m]
      BY <1>5, <1>a DEF ApplyBlock
    <2>3. CASE k = n /\ Reaches(applying[n], K)
      BY <1>0, <1>5, <2>3, LastApplied
    <2>4. CASE ~(k = n /\ Reaches(applying[n], K))
      <3>1. Reaches(applying[n], K) => Reaches(applying'[n], K)
        BY <2>2, <2>4
      <3>2. Queued(n)' = Queued(n) /\ Queued(Validator)' = Queued(Validator)
        BY <2>1, SameQueued
      <3> QED BY <1>b, <2>1, <3>1, <3>2
              DEF Ahead, BlockMessage, Asks, Completes, Reaches
    <2> QED BY <2>3, <2>4
  <1> QED BY <1>1, <1>2, <1>3, <1>4, <1>5 DEF RpcStep

LEMMA AheadStep ==
    ASSUME CaughtUp, AgreementInv', Grown, [Next]_vars, ~CreateNewBlock, ~JoinStep,
           NEW n \in Node, n \in conns[Validator], n \in peers[Validator],
           Validator \in conns[n],
           NEW L, NEW K, LastIs(L, K), chain'[Validator] = chain[Validator],
           Ahead(n, L, K)
    PROVE  Ahead(n, L, K)'
  <1>0. /\ AgreementInv /\ Answered /\ Linked /\ Joining /\ TypeOK
        /\ Validator \in Node
    BY NodeAssumption DEF CaughtUp, AgreementInv, Agreement
  <1>a. /\ sends \in [Node -> SUBSET Envelope] /\ relay \in [Node -> SUBSET Block]
    BY <1>0 DEF TypeOK
  <1>1. ASSUME UNCHANGED vars PROVE Ahead(n, L, K)'
    <2>1. UNCHANGED <<chain, storing, relay, sends, out, applying, inbox>>
      BY <1>1 DEF vars
    <2>2. Queued(n)' = Queued(n) /\ Queued(Validator)' = Queued(Validator)
      BY <2>1, SameQueued
    <2> QED BY <2>1, <2>2 DEF Ahead, BlockMessage, Asks, Completes, Reaches
  <1>2. ASSUME StoreBlock PROVE Ahead(n, L, K)'
    <2>1. relay' = [relay EXCEPT ![Validator] =
                       @ \union {chain[Validator][Len(chain[Validator])]}]
      BY <1>2 DEF StoreBlock
    <2>2. L \in relay'[Validator]
      BY <1>0, <1>a, <2>1 DEF LastIs, Last
    <2> QED BY <2>2 DEF Ahead
  <1>3. ASSUME NEW k \in Node, BroadcastBlock(k) PROVE Ahead(n, L, K)'
    <2>1. PICK b \in relay[k] :
             /\ relay' = [relay EXCEPT ![k] = @ \ {b}]
             /\ sends' = [sends EXCEPT ![k] = @ \union ToAll(k, BlockMessage(b))]
      BY <1>3 DEF BroadcastBlock
    <2>2. UNCHANGED <<chain, storing, out, applying, inbox>>
      BY <1>3 DEF BroadcastBlock
    <2>3. Queued(n)' = Queued(n) /\ Queued(Validator)' = Queued(Validator)
      BY <2>2, SameQueued
    <2>4. sends[Validator] \subseteq sends'[Validator]
      BY <1>0, <1>a, <2>1
    <2>5. CASE L \in relay[Validator]
      <3>1. CASE k = Validator /\ b = L
        <4>1. [msg |-> BlockMessage(L), to |-> n] \in ToAll(k, BlockMessage(b))
          BY <3>1 DEF ToAll
        <4>2. [msg |-> BlockMessage(L), to |-> n] \in sends'[Validator]
          BY <1>0, <1>a, <2>1, <3>1, <4>1
        <4> QED BY <4>2 DEF Ahead, BlockMessage
      <3>2. CASE ~(k = Validator /\ b = L)
        <4>1. L \in relay'[Validator]
          BY <1>0, <1>a, <2>1, <2>5, <3>2
        <4> QED BY <4>1 DEF Ahead
      <3> QED BY <3>1, <3>2
    <2>6. CASE L \notin relay[Validator]
      BY <2>2, <2>3, <2>4, <2>6 DEF Ahead, BlockMessage, Asks, Completes, Reaches
    <2> QED BY <2>5, <2>6
  <1>4. ASSUME NEW k \in Node, Send(k) PROVE Ahead(n, L, K)'
    <2>1. PICK e \in sends[k] : Deliver(e) /\ sends' = [sends EXCEPT ![k] = @ \ {e}]
      BY <1>4 DEF Send
    <2>2. /\ e \in Envelope /\ UNCHANGED <<storing, chain, applying, relay, out>>
          /\ \A j \in Node : \A f \in sends[j] : f \in sends'[j] \/ f = e
      BY <1>4, <1>a, <2>1 DEF Send
    <2> QED BY <1>0, <2>1, <2>2, AheadDeliver
  <1>5. ASSUME NEW k \in Node, RpcStep(k) PROVE Ahead(n, L, K)'
    <2>1. ~HandleSubscribeMessageRequest(k) /\ ~HandleSubscribeMessageResponse(k)
      BY DEF JoinStep
    <2> QED BY <1>5, <2>1, AheadRpc
  <1>6. \A l \in Link : ~Dial(l[1], l[2])
    BY DEF JoinStep
  <1> QED BY <1>1, <1>2, <1>3, <1>4, <1>5, <1>6 DEF Next

LEMMA NobodyLeftStep ==
    ASSUME Star
    PROVE  CaughtUp /\ NobodyLeft /\ [Next]_vars => NobodyLeft'
  <1> SUFFICES ASSUME CaughtUp, NobodyLeft, [Next]_vars, fresh', AllJoined', NEW n \in Node
               PROVE  CatchingUp(n)'
    BY DEF NobodyLeft
  <1>0. AgreementInv /\ Joining /\ TypeOK /\ Rooted
    BY DEF CaughtUp, AgreementInv, Agreement
  <1>1. ~JoinStep /\ AllJoined /\ (fresh \/ CreateNewBlock)
    BY <1>0, JoinedBefore
  <1>2. CASE CreateNewBlock
    <2>1. storing'
      BY <1>2 DEF CreateNewBlock
    <2> QED BY <2>1 DEF CatchingUp
  <1>3. CASE n = Validator
    BY <1>3 DEF CatchingUp
  <1>4. CASE ~CreateNewBlock /\ n # Validator
    <2>1. chain'[Validator] = chain[Validator]
      BY <1>0, <1>4, ValidatorChain
    <2>2. PICK L, K : L = Last /\ K = Len(chain[Validator])
      OBVIOUS
    <2>3. Ahead(n, L, K)
      <3>1. CatchingUp(n)
        BY <1>1, <1>4 DEF NobodyLeft
      <3> QED BY <2>2, <3>1, AheadIs
    <2>4. n \in conns[Validator] /\ n \in peers[Validator] /\ Validator \in conns[n]
      BY <1>0, <1>1, <1>4, StarJoined
    <2>5. Grown /\ AgreementInv' /\ ~JoinStep
      BY <1>0, <1>1, ChainsGrow, AgreementStep
    <2>6. Ahead(n, L, K)'
      BY <1>4, <2>1, <2>2, <2>3, <2>4, <2>5, AheadStep DEF LastIs
    <2>7. L = Last' /\ K = Len(chain'[Validator])
      BY <2>1, <2>2 DEF Last
    <2> QED BY <2>6, <2>7, AheadThen
  <1> QED BY <1>2, <1>3, <1>4

(* Whoever has joined catches up: in every network in which each server is
   linked with the validator, whatever other links there are, all servers have
   the validator's height when nothing is under way and a block was made since
   the last subscription. *)
THEOREM EverybodySettles ==
    ASSUME Star
    PROVE  Spec => []SettledEqual
  <1>1. Init => CaughtUp /\ NobodyLeft
    <2>1. Init => ~fresh
      BY DEF Init
    <2> QED BY <2>1, AgreementInit, AnsweredInit, LinkedInit, JoiningInit
            DEF CaughtUp, NobodyLeft
  <1>2. CaughtUp /\ [Next]_vars => CaughtUp'
    <2>1. AgreementInv => TypeOK
      BY DEF AgreementInv, Agreement
    <2> QED BY <2>1, AgreementStep, AnsweredStep, LinkedStep, JoiningStep DEF CaughtUp
  <1>3. CaughtUp /\ NobodyLeft /\ [Next]_vars => NobodyLeft'
    BY NobodyLeftStep
  <1>4. CaughtUp /\ NobodyLeft => SettledEqual
    <2> SUFFICES ASSUME NobodyLeft, Settled, NEW n \in Node
                 PROVE  Height(n) = Height(Validator)
      BY DEF SettledEqual
    <2>1. /\ ~storing /\ fresh /\ subscribed = Link /\ dialing = {}
          /\ \A k \in Node : /\ relay[k] = {} /\ sends[k] = {} /\ out[k] = {}
                             /\ Queued(k) = {} /\ applying[k] = <<>>
      BY DEF Settled, Quiet, Queued
    <2>2. AllJoined
      BY <2>1 DEF AllJoined
    <2>3. CatchingUp(n) /\ Validator \in Node
      BY <2>1, <2>2, NodeAssumption DEF NobodyLeft
    <2>4. Len(chain[n]) = Len(chain[Validator])
      BY <2>1, <2>3 DEF CatchingUp, Reaches
    <2> QED BY <2>4 DEF Height
  <1> QED BY <1>1, <1>2, <1>3, <1>4, PTL DEF Spec
=============================================================================
