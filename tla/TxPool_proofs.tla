--------------------------- MODULE TxPool_proofs ---------------------------
(***************************************************************************)
(* Proofs about module TxPool, for every set of hashes, every capacity and *)
(* any number of arrivals.                                                 *)
(***************************************************************************)
EXTENDS TxPool, SequenceTheorems, WellFoundedInduction, TLAPS

(***************************************************************************)
(* A list with an element that occurs in it loses the first occurrence.    *)
(***************************************************************************)
LEMMA LeastIndex ==
    ASSUME NEW I \in SUBSET Nat, I # {}
    PROVE  Min(I) \in I /\ \A j \in I : Min(I) <= j
  <1>1. \E i \in I : \A j \in I : <<j, i>> \notin OpToRel(<, Nat)
    BY NatLessThanWellFounded, WFMin
  <1>2. PICK i \in I : \A j \in I : ~(j < i)
    BY <1>1 DEF OpToRel
  <1>3. \A j \in I : i <= j
    BY <1>2
  <1> QED BY <1>3 DEF Min

LEMMA RemoveFirstType ==
    ASSUME NEW s \in Seq(Tx), NEW e
    PROVE  RemoveFirst(s, e) \in Seq(Tx)
  <1>1. CASE \E i \in 1..Len(s) : s[i] = e
    <2> DEFINE I == {i \in 1..Len(s) : s[i] = e}
    <2>1. I # {} /\ I \in SUBSET Nat
      BY <1>1
    <2>2. Min(I) \in 1..Len(s)
      BY <2>1, LeastIndex
    <2>3. SelectInSeq(s, LAMBDA v : v = e) = Min(I)
      BY <2>1 DEF SelectInSeq
    <2>4. RemoveFirst(s, e) = SubSeq(s, 1, Min(I) - 1) \o SubSeq(s, Min(I) + 1, Len(s))
      BY <1>1, <2>3 DEF RemoveFirst, RemoveAt
    <2> HIDE DEF I
    <2>5. SubSeq(s, 1, Min(I) - 1) \in Seq(Tx) /\ SubSeq(s, Min(I) + 1, Len(s)) \in Seq(Tx)
      BY <2>2, SubSeqProperties
    <2> QED BY <2>4, <2>5
  <1>2. CASE ~\E i \in 1..Len(s) : s[i] = e
    BY <1>2 DEF RemoveFirst
  <1> QED BY <1>1, <1>2

LEMMA RemoveHead ==
    ASSUME NEW s \in Seq(Tx), s # <<>>
    PROVE  RemoveFirst(s, Head(s)) = Tail(s)
  <1> DEFINE I == {i \in 1..Len(s) : s[i] = Head(s)}
  <1>1. 1 \in I /\ I \in SUBSET Nat /\ \A i \in I : 1 <= i
    OBVIOUS
  <1>2. Min(I) = 1
    <2>1. Min(I) \in I /\ Min(I) <= 1
      BY <1>1, LeastIndex
    <2> QED BY <1>1, <2>1
  <1>3. SelectInSeq(s, LAMBDA v : v = Head(s)) = 1
    BY <1>1, <1>2 DEF SelectInSeq
  <1>4. RemoveFirst(s, Head(s)) = SubSeq(s, 1, 0) \o SubSeq(s, 2, Len(s))
    <2>1. \E i \in 1..Len(s) : s[i] = Head(s)
      BY <1>1
    <2>2. RemoveFirst(s, Head(s)) = RemoveAt(s, 1)
      BY <2>1, <1>3 DEF RemoveFirst
    <2> QED BY <2>2 DEF RemoveAt
  <1>5. SubSeq(s, 1, 0) = <<>>
    BY SubSeqEmpty
  <1>6. SubSeq(s, 2, Len(s)) = Tail(s) /\ Tail(s) \in Seq(Tx)
    BY TailIsSubSeq
  <1> QED BY <1>4, <1>5, <1>6

-----------------------------------------------------------------------------
(***************************************************************************)
(* What validator and rpc loop rely on between their steps.                *)
(***************************************************************************)

(* The transaction in hand carries the latest stamp. *)
Stamped == rpc # "idle" => tx.createdAt = clock /\ clock > 0

(* The room that CheckSpace saw is still there when the append comes: only
   the rpc loop makes pending grow. *)
RoomLeft ==
    rpc \in {"contains", "all", "pending", "append"} => Len(pending.txns) < max

(* What CheckContains saw is still so: nobody else adds a hash. *)
NotYetPending ==
    /\ rpc \in {"all", "pending"} => tx.hash \notin DOMAIN pending.lookup
    /\ rpc = "append" => tx.hash \notin Hashes(pending.txns)

(* The pending transactions with the one that is being appended. *)
Coming == IF rpc = "append" THEN Append(pending.txns, tx) ELSE pending.txns

(* The stamp that no transaction in a block or pending exceeds. *)
Latest == IF rpc \in {"space", "contains", "all", "pending"} THEN clock - 1 ELSE clock

NoneLater(s) == \A i \in DOMAIN s : s[i].createdAt <= Latest

StartsWith(t, s) == \A i \in DOMAIN s : i \in DOMAIN t /\ s[i] = t[i]

AllBefore(s, t) == \A i \in DOMAIN s, j \in DOMAIN t : s[i].createdAt < t[j].createdAt

OrderInv ==
    /\ NoneLater(mined)
    /\ NoneLater(Coming)
    /\ Ordered(mined)
    /\ validator # "clear" => Ordered(Coming) /\ AllBefore(mined, Coming)
    /\ validator = "addBlock" => StartsWith(Coming, txns)

(* The transactions Add has put into the history. *)
Taken == IF rpc \in {"pending", "append"} THEN Append(accepted, tx) ELSE accepted

Unique(s) == \A i, j \in DOMAIN s : s[i].hash = s[j].hash => i = j

Newest(s) == SubSeq(s, IF Len(s) > max THEN Len(s) - max + 1 ELSE 1, Len(s))

Indexed(m) ==
    \A i \in DOMAIN m.txns :
       /\ MapContains(m, m.txns[i].hash)
       /\ m.lookup[m.txns[i].hash] = m.txns[i]

HistoryInv == Unique(Taken) => all.txns = Newest(Taken) /\ Indexed(all)

-----------------------------------------------------------------------------
LEMMA NewMapType == NewTxOrderedMap \in TxOrderedMap
  <1>1. [h \in {} |-> 0] \in [{} -> Tx] /\ {} \in SUBSET Hash
    OBVIOUS
  <1>2. [h \in {} |-> 0] \in UNION {[D -> Tx] : D \in SUBSET Hash}
    BY <1>1
  <1>3. <<>> \in Seq(Tx)
    OBVIOUS
  <1> QED BY <1>2, <1>3 DEF NewTxOrderedMap, TxOrderedMap

LEMMA IndexType ==
    ASSUME NEW m \in TxOrderedMap, NEW t \in Tx
    PROVE  /\ Index(m, t) \in TxOrderedMap
           /\ Index(m, t).txns = m.txns
           /\ DOMAIN Index(m, t).lookup = DOMAIN m.lookup \union {t.hash}
           /\ Index(m, t).lookup[t.hash] = t
           /\ \A h \in DOMAIN m.lookup : h # t.hash => Index(m, t).lookup[h] = m.lookup[h]
  <1> DEFINE L == [h \in DOMAIN m.lookup \union {t.hash} |->
                       IF h = t.hash THEN t ELSE m.lookup[h]]
  <1>1. PICK D \in SUBSET Hash : m.lookup \in [D -> Tx]
    BY DEF TxOrderedMap
  <1>2. t.hash \in Hash
    BY DEF Tx
  <1>3. L \in [D \union {t.hash} -> Tx] /\ D \union {t.hash} \in SUBSET Hash
    BY <1>1, <1>2
  <1> HIDE DEF L
  <1>4. Index(m, t) = [lookup |-> L, txns |-> m.txns]
    <2>1. m = [lookup |-> m.lookup, txns |-> m.txns]
      BY DEF TxOrderedMap
    <2>2. Index(m, t) = [m EXCEPT !.lookup = L]
      BY DEF Index, L
    <2> QED BY <2>1, <2>2
  <1> USE DEF L
  <1>5. L \in UNION {[E -> Tx] : E \in SUBSET Hash}
    BY <1>3
  <1>6. m.txns \in Seq(Tx)
    BY DEF TxOrderedMap
  <1>7. /\ DOMAIN L = DOMAIN m.lookup \union {t.hash}
        /\ L[t.hash] = t
        /\ \A h \in DOMAIN m.lookup : h # t.hash => L[h] = m.lookup[h]
    OBVIOUS
  <1> HIDE DEF L
  <1>8. Index(m, t) \in TxOrderedMap
    BY <1>4, <1>5, <1>6 DEF TxOrderedMap
  <1>9. Index(m, t).lookup = L /\ Index(m, t).txns = m.txns
    BY <1>4
  <1> QED BY <1>7, <1>8, <1>9

LEMMA AddType ==
    ASSUME NEW m \in TxOrderedMap, NEW t \in Tx
    PROVE  /\ MapAdd(m, t) \in TxOrderedMap
           /\ MapAdd(m, t).txns = Append(m.txns, t)
           /\ MapAdd(m, t).lookup = Index(m, t).lookup
  <1>1. Index(m, t) \in TxOrderedMap /\ Index(m, t).txns = m.txns
    BY IndexType
  <1>2. Append(m.txns, t) \in Seq(Tx)
    BY DEF TxOrderedMap
  <1> QED BY <1>1, <1>2 DEF MapAdd, TxOrderedMap

LEMMA RemoveType ==
    ASSUME NEW m \in TxOrderedMap, NEW h
    PROVE  MapRemove(m, h) \in TxOrderedMap
  <1>1. CASE MapContains(m, h)
    <2> DEFINE L == [g \in DOMAIN m.lookup \ {h} |-> m.lookup[g]]
    <2>1. PICK D \in SUBSET Hash : m.lookup \in [D -> Tx]
      BY DEF TxOrderedMap
    <2>2. L \in [D \ {h} -> Tx] /\ D \ {h} \in SUBSET Hash
      BY <2>1
    <2>3. L \in UNION {[E -> Tx] : E \in SUBSET Hash}
      BY <2>2
    <2>4. RemoveFirst(m.txns, m.lookup[h]) \in Seq(Tx)
      BY RemoveFirstType DEF TxOrderedMap
    <2> QED BY <1>1, <2>3, <2>4 DEF MapRemove, TxOrderedMap
  <1>2. CASE ~MapContains(m, h)
    BY <1>2 DEF MapRemove
  <1> QED BY <1>1, <1>2

LEMMA PruneType ==
    ASSUME NEW m \in TxOrderedMap
    PROVE  Prune(m) \in TxOrderedMap
  BY RemoveType DEF Prune

(***************************************************************************)
(* Every variable keeps the type of its Go declaration.                    *)
(***************************************************************************)
TypeInv == TypeOK /\ Stamped

LEMMA InHand ==
    ASSUME TypeInv, rpc # "idle"
    PROVE  tx \in Tx /\ tx.createdAt = clock /\ clock \in 1..MaxClock
  BY PoolAssumption DEF TypeInv, TypeOK, Stamped, Tx

LEMMA InitType == Init => TypeInv
  <1> SUFFICES ASSUME Init PROVE TypeInv
    OBVIOUS
  <1>1. tx \in [hash : Hash, createdAt : 0..MaxClock]
    BY PoolAssumption DEF Init
  <1>2. <<>> \in Seq(Tx)
    OBVIOUS
  <1> QED BY <1>1, <1>2, NewMapType, PoolAssumption DEF Init, TypeInv, TypeOK, Stamped

LEMMA NextType ==
    ASSUME TypeInv, [Next]_vars
    PROVE  TypeInv'
  <1> USE DEF TypeInv
  <1>1. ASSUME NEW h \in Hash, HandleTransaction(h) PROVE TypeInv'
    <2>1. clock \in 0..MaxClock /\ clock' = clock + 1 /\ clock' \in 1..MaxClock
      BY <1>1, PoolAssumption DEF HandleTransaction, TypeOK
    <2> QED BY <1>1, <2>1, PoolAssumption DEF HandleTransaction, TypeOK, Stamped
  <1>2. CASE CheckSpace
    BY <1>2 DEF CheckSpace, TypeOK, Stamped
  <1>3. CASE CheckContains
    BY <1>3 DEF CheckContains, TypeOK, Stamped
  <1>4. CASE AddToAll
    <2>1. all' \in TxOrderedMap
      BY <1>4, InHand, AddType, PruneType DEF AddToAll, TypeOK
    <2> QED BY <1>4, <2>1 DEF AddToAll, TypeOK, Stamped
  <1>5. CASE AddToPending
    <2>1. pending' \in TxOrderedMap
      BY <1>5, InHand, IndexType DEF AddToPending, TypeOK
    <2> QED BY <1>5, <2>1 DEF AddToPending, TypeOK, Stamped
  <1>6. CASE AppendPending
    <2>1. tx \in Tx
      BY <1>6, InHand DEF AppendPending
    <2>2. pending' \in TxOrderedMap
      <3>1. Append(pending.txns, tx) \in Seq(Tx)
        BY <2>1 DEF TypeOK, TxOrderedMap
      <3> QED BY <1>6, <3>1 DEF AppendPending, TypeOK, TxOrderedMap
    <2>3. accepted' \in Seq(Tx)
      BY <1>6, <2>1 DEF AppendPending, TypeOK
    <2> QED BY <1>6, <2>2, <2>3 DEF AppendPending, TypeOK, Stamped
  <1>7. CASE Pending
    <2>1. txns' \in Seq(Tx)
      <3>1. CASE txns' = pending.txns
        BY <3>1 DEF TypeOK, TxOrderedMap
      <3>2. CASE rpc = "append" /\ txns' = Append(pending.txns, tx)
        BY <3>2, InHand DEF TypeOK, TxOrderedMap
      <3>3. CASE txns' = txns
        BY <3>3 DEF TypeOK
      <3> QED BY <1>7, <3>1, <3>2, <3>3 DEF Pending
    <2> QED BY <1>7, <2>1 DEF Pending, TypeOK, Stamped
  <1>8. CASE AddBlock
    <2>1. mined' \in Seq(Tx)
      <3>1. mined \in Seq(Tx) /\ txns \in Seq(Tx)
        BY DEF TypeOK
      <3>2. mined \o txns \in Seq(Tx)
        BY <3>1, ConcatProperties
      <3> QED BY <1>8, <3>1, <3>2 DEF AddBlock
    <2> QED BY <1>8, <2>1 DEF AddBlock, TypeOK, Stamped
  <1>9. CASE ClearPending
    BY <1>9, NewMapType DEF ClearPending, TypeOK, Stamped
  <1>10. CASE UNCHANGED vars
    BY <1>10 DEF vars, TypeOK, Stamped
  <1> QED BY <1>1, <1>2, <1>3, <1>4, <1>5, <1>6, <1>7, <1>8, <1>9, <1>10
          DEF Next, RpcStep, ValidatorStep, Crashed

LEMMA TypeInvHolds == Spec => []TypeInv
  <1>1. Init => TypeInv
    BY InitType
  <1>2. TypeInv /\ [Next]_vars => TypeInv'
    BY NextType
  <1> QED BY <1>1, <1>2, PTL DEF Spec

(***************************************************************************)
(* The pool's maps, lists and flags always have the types of their Go      *)
(* declarations: no step of either goroutine breaks them.                  *)
(***************************************************************************)
THEOREM TypeCorrect == Spec => []TypeOK
  <1>1. TypeInv => TypeOK
    BY DEF TypeInv
  <1> QED BY <1>1, TypeInvHolds, PTL

-----------------------------------------------------------------------------
(***************************************************************************)
(* The capacity: the length read by CheckSpace is never below the length   *)
(* the append finds.                                                       *)
(***************************************************************************)
CapInv == PendingCapped /\ RoomLeft

LEMMA PendingLength ==
    ASSUME TypeInv
    PROVE  pending.txns \in Seq(Tx) /\ Len(pending.txns) \in Nat
  BY DEF TypeInv, TypeOK, TxOrderedMap

LEMMA NextCap ==
    ASSUME TypeInv, CapInv, [Next]_vars
    PROVE  CapInv'
  <1> USE DEF CapInv, PendingCapped, RoomLeft
  <1> pending.txns \in Seq(Tx) /\ Len(pending.txns) \in Nat
    BY PendingLength
  <1>1. ASSUME NEW h \in Hash, HandleTransaction(h) PROVE CapInv'
    BY <1>1 DEF HandleTransaction
  <1>2. CASE CheckSpace
    BY <1>2, PoolAssumption DEF CheckSpace, Full
  <1>3. CASE CheckContains
    BY <1>3 DEF CheckContains
  <1>4. CASE AddToAll
    BY <1>4 DEF AddToAll
  <1>5. CASE AddToPending
    <2>1. pending'.txns = pending.txns
      BY <1>5, InHand, IndexType DEF AddToPending, TypeInv, TypeOK
    <2> QED BY <1>5, <2>1 DEF AddToPending
  <1>6. CASE AppendPending
    <2>1. tx \in Tx
      BY <1>6, InHand DEF AppendPending
    <2>2. pending'.txns = Append(pending.txns, tx)
      BY <1>6 DEF AppendPending, TypeInv, TypeOK, TxOrderedMap
    <2>3. Len(pending'.txns) = Len(pending.txns) + 1
      BY <2>1, <2>2
    <2> QED BY <1>6, <2>3, PoolAssumption DEF AppendPending
  <1>7. CASE Pending
    BY <1>7 DEF Pending
  <1>8. CASE AddBlock
    BY <1>8 DEF AddBlock
  <1>9. CASE ClearPending
    BY <1>9, PoolAssumption DEF ClearPending, NewTxOrderedMap
  <1>10. CASE UNCHANGED vars
    BY <1>10 DEF vars
  <1> QED BY <1>1, <1>2, <1>3, <1>4, <1>5, <1>6, <1>7, <1>8, <1>9, <1>10
          DEF Next, RpcStep, ValidatorStep, Crashed

(***************************************************************************)
(* Add never lets pending grow beyond max, although it tests for equality  *)
(* only and tests before it takes the lock under which it appends.         *)
(***************************************************************************)
THEOREM CapacityHolds == Spec => []PendingCapped
  <1>1. Init => CapInv
    BY PoolAssumption DEF Init, CapInv, PendingCapped, RoomLeft, NewTxOrderedMap
  <1>2. TypeInv /\ CapInv /\ [Next]_vars => CapInv'
    BY NextCap
  <1>3. CapInv => PendingCapped
    BY DEF CapInv
  <1> QED BY <1>1, <1>2, <1>3, TypeInvHolds, PTL DEF Spec

-----------------------------------------------------------------------------
(***************************************************************************)
(* No duplicates: Contains and the two steps of pending.Add are three      *)
(* critical sections, and between them pending can only be emptied.        *)
(***************************************************************************)
UniqueInv == PendingUnique /\ NotYetPending

LEMMA HashesAppend ==
    ASSUME NEW s \in Seq(Tx), NEW t \in Tx
    PROVE  /\ Hashes(Append(s, t)) = Hashes(s) \union {t.hash}
           /\ Unique(s) /\ t.hash \notin Hashes(s) <=> Unique(Append(s, t))
  <1>1. /\ Len(Append(s, t)) = Len(s) + 1 /\ Len(s) \in Nat
        /\ DOMAIN s = 1..Len(s) /\ DOMAIN Append(s, t) = 1..Len(s) + 1
        /\ \A i \in 1..Len(s) : Append(s, t)[i] = s[i]
        /\ Append(s, t)[Len(s) + 1] = t
    BY AppendProperties
  <1> DEFINE a == Append(s, t)
  <1> HIDE DEF a
  <1>2. Hashes(a) = Hashes(s) \union {t.hash}
    BY <1>1 DEF Hashes, a
  <1>3. ASSUME Unique(s), t.hash \notin Hashes(s) PROVE Unique(a)
    <2> SUFFICES ASSUME NEW i \in DOMAIN a, NEW j \in DOMAIN a, a[i].hash = a[j].hash
                 PROVE  i = j
      BY DEF Unique
    <2>1. CASE i \in 1..Len(s) /\ j \in 1..Len(s)
      BY <1>1, <1>3, <2>1 DEF Unique, a
    <2>2. CASE i = Len(s) + 1 \/ j = Len(s) + 1
      BY <1>1, <1>3, <2>2 DEF Hashes, a
    <2> QED BY <1>1, <2>1, <2>2 DEF a
  <1>4. ASSUME Unique(a) PROVE Unique(s) /\ t.hash \notin Hashes(s)
    <2>1. Unique(s)
      BY <1>1, <1>4 DEF Unique, a
    <2>2. \A i \in 1..Len(s) : s[i].hash # t.hash
      BY <1>1, <1>4 DEF Unique, a
    <2> QED BY <1>1, <2>1, <2>2 DEF Hashes
  <1> QED BY <1>2, <1>3, <1>4 DEF a

LEMMA NextUnique ==
    ASSUME TypeInv, UniqueInv, [Next]_vars
    PROVE  UniqueInv'
  <1> USE DEF UniqueInv, NotYetPending
  <1> pending.txns \in Seq(Tx)
    BY PendingLength
  <1>1. ASSUME NEW h \in Hash, HandleTransaction(h) PROVE UniqueInv'
    BY <1>1 DEF HandleTransaction, PendingUnique
  <1>2. CASE CheckSpace
    BY <1>2 DEF CheckSpace, PendingUnique
  <1>3. CASE CheckContains
    BY <1>3 DEF CheckContains, PendingUnique, MapContains
  <1>4. CASE AddToAll
    BY <1>4 DEF AddToAll, PendingUnique
  <1>5. CASE AddToPending
    <2>1. /\ pending'.txns = pending.txns
          /\ DOMAIN pending'.lookup = DOMAIN pending.lookup \union {tx.hash}
      BY <1>5, InHand, IndexType DEF AddToPending, TypeInv, TypeOK
    <2> QED BY <1>5, <2>1 DEF AddToPending, PendingUnique
  <1>6. CASE AppendPending
    <2>1. tx \in Tx
      BY <1>6, InHand DEF AppendPending
    <2>2. pending'.txns = Append(pending.txns, tx) /\ pending'.lookup = pending.lookup
      BY <1>6 DEF AppendPending, TypeInv, TypeOK, TxOrderedMap
    <2>3. Unique(pending'.txns)
      <3>1. Unique(pending.txns) /\ tx.hash \notin Hashes(pending.txns)
        BY <1>6 DEF AppendPending, PendingUnique, Unique
      <3> QED BY <2>1, <2>2, <3>1, HashesAppend
    <2>4. DOMAIN pending'.lookup = Hashes(pending'.txns)
      BY <1>6, <2>1, <2>2, HashesAppend DEF AppendPending, PendingUnique
    <2> QED BY <1>6, <2>3, <2>4 DEF AppendPending, PendingUnique, Unique
  <1>7. CASE Pending
    BY <1>7 DEF Pending, PendingUnique
  <1>8. CASE AddBlock
    BY <1>8 DEF AddBlock, PendingUnique
  <1>9. CASE ClearPending
    BY <1>9 DEF ClearPending, NewTxOrderedMap, PendingUnique, Hashes
  <1>10. CASE UNCHANGED vars
    BY <1>10 DEF vars, PendingUnique
  <1> QED BY <1>1, <1>2, <1>3, <1>4, <1>5, <1>6, <1>7, <1>8, <1>9, <1>10
          DEF Next, RpcStep, ValidatorStep, Crashed

(***************************************************************************)
(* No hash is pending twice, and outside the append the lookup of the      *)
(* pending transactions holds the hashes of the list.                      *)
(***************************************************************************)
THEOREM NoDuplicatePending == Spec => []PendingUnique
  <1>1. Init => UniqueInv
    BY DEF Init, UniqueInv, NotYetPending, PendingUnique, NewTxOrderedMap, Hashes
  <1>2. TypeInv /\ UniqueInv /\ [Next]_vars => UniqueInv'
    BY NextUnique
  <1>3. UniqueInv => PendingUnique
    BY DEF UniqueInv
  <1> QED BY <1>1, <1>2, <1>3, TypeInvHolds, PTL DEF Spec

-----------------------------------------------------------------------------
(***************************************************************************)
(* The order: the stamps grow along the blocks and then along what is      *)
(* pending, and the slice of createNewBlock stays a prefix of that while   *)
(* the rpc loop appends behind it.                                         *)
(***************************************************************************)
LEMMA ComingType ==
    ASSUME TypeInv
    PROVE  Coming \in Seq(Tx)
  <1>1. CASE rpc = "append"
    <2>1. tx \in Tx
      BY <1>1, InHand
    <2> QED BY <1>1, <2>1, PendingLength DEF Coming
  <1>2. CASE rpc # "append"
    BY <1>2, PendingLength DEF Coming
  <1> QED BY <1>1, <1>2

LEMMA AppendOrder ==
    ASSUME NEW s \in Seq(Tx), NEW t \in Tx, \A i \in DOMAIN s : s[i].createdAt < t.createdAt
    PROVE  /\ Ordered(s) => Ordered(Append(s, t))
           /\ StartsWith(Append(s, t), s)
           /\ \A i \in DOMAIN Append(s, t) : \/ i \in DOMAIN s /\ Append(s, t)[i] = s[i]
                                             \/ Append(s, t)[i] = t
  <1>1. /\ Len(s) \in Nat
        /\ DOMAIN s = 1..Len(s) /\ DOMAIN Append(s, t) = 1..Len(s) + 1
        /\ \A i \in 1..Len(s) : Append(s, t)[i] = s[i]
        /\ Append(s, t)[Len(s) + 1] = t
    BY AppendProperties
  <1> DEFINE a == Append(s, t)
  <1> HIDE DEF a
  <1>2. \A i \in DOMAIN a : \/ i \in DOMAIN s /\ a[i] = s[i]
                            \/ i = Len(s) + 1 /\ a[i] = t
    BY <1>1 DEF a
  <1>3. StartsWith(a, s)
    BY <1>1 DEF a, StartsWith
  <1>4. ASSUME Ordered(s) PROVE Ordered(a)
    <2> SUFFICES ASSUME NEW i \in DOMAIN a, NEW j \in DOMAIN a, i < j
                 PROVE  a[i].createdAt < a[j].createdAt
      BY DEF Ordered
    <2>1. i \in 1..Len(s) /\ a[i] = s[i]
      BY <1>1 DEF a
    <2>2. CASE j \in 1..Len(s)
      BY <1>1, <1>4, <2>1, <2>2 DEF Ordered, a
    <2>3. CASE j = Len(s) + 1
      BY <1>1, <2>1, <2>3 DEF a
    <2> QED BY <1>1, <2>2, <2>3 DEF a
  <1> QED BY <1>2, <1>3, <1>4 DEF a

LEMMA ConcatIndex ==
    ASSUME NEW s \in Seq(Tx), NEW t \in Seq(Tx)
    PROVE  /\ Len(s) \in Nat /\ Len(t) \in Nat
           /\ s \o t \in Seq(Tx)
           /\ DOMAIN s = 1..Len(s) /\ DOMAIN t = 1..Len(t)
           /\ DOMAIN (s \o t) = 1..Len(s) + Len(t)
           /\ \A i \in DOMAIN s : i \in DOMAIN (s \o t) /\ (s \o t)[i] = s[i]
           /\ \A i \in DOMAIN (s \o t) : 
                 \/ i \in DOMAIN s /\ (s \o t)[i] = s[i]
                 \/ i - Len(s) \in DOMAIN t /\ (s \o t)[i] = t[i - Len(s)]
  <1>1. Len(s) \in Nat /\ Len(t) \in Nat
    OBVIOUS
  <1>2. /\ s \o t \in Seq(Tx) /\ Len(s \o t) = Len(s) + Len(t)
        /\ \A i \in 1..Len(s) + Len(t) :
              (s \o t)[i] = IF i <= Len(s) THEN s[i] ELSE t[i - Len(s)]
    BY ConcatProperties
  <1>3. DOMAIN s = 1..Len(s) /\ DOMAIN t = 1..Len(t) /\ DOMAIN (s \o t) = 1..Len(s) + Len(t)
    BY <1>2
  <1> DEFINE c == s \o t
  <1> HIDE DEF c
  <1>4. \A i \in 1..Len(s) + Len(t) : c[i] = IF i <= Len(s) THEN s[i] ELSE t[i - Len(s)]
    BY <1>2 DEF c
  <1>5. \A i \in 1..Len(s) : i \in 1..Len(s) + Len(t) /\ c[i] = s[i]
    BY <1>1, <1>4
  <1>6. \A i \in 1..Len(s) + Len(t) :
           \/ i \in 1..Len(s) /\ c[i] = s[i]
           \/ i - Len(s) \in 1..Len(t) /\ c[i] = t[i - Len(s)]
    BY <1>1, <1>4
  <1> QED BY <1>1, <1>2, <1>3, <1>5, <1>6 DEF c

LEMMA OrderedConcat ==
    ASSUME NEW s \in Seq(Tx), NEW t \in Seq(Tx), Ordered(s), Ordered(t), AllBefore(s, t)
    PROVE  Ordered(s \o t)
  <1> DEFINE c == s \o t
  <1>1. /\ Len(s) \in Nat /\ Len(t) \in Nat
        /\ DOMAIN s = 1..Len(s) /\ DOMAIN t = 1..Len(t)
        /\ DOMAIN c = 1..Len(s) + Len(t)
        /\ \A i \in DOMAIN c : \/ i \in DOMAIN s /\ c[i] = s[i]
                               \/ i - Len(s) \in DOMAIN t /\ c[i] = t[i - Len(s)]
    BY ConcatIndex
  <1> HIDE DEF c
  <1> SUFFICES ASSUME NEW i \in DOMAIN c, NEW j \in DOMAIN c, i < j
               PROVE  c[i].createdAt < c[j].createdAt
    BY DEF Ordered, c
  <1>2. CASE i \in DOMAIN s /\ c[i] = s[i] /\ j \in DOMAIN s /\ c[j] = s[j]
    BY <1>2 DEF Ordered
  <1>3. CASE /\ i \in DOMAIN s /\ c[i] = s[i]
             /\ j - Len(s) \in DOMAIN t /\ c[j] = t[j - Len(s)]
    BY <1>3 DEF AllBefore
  <1>4. CASE /\ i - Len(s) \in DOMAIN t /\ c[i] = t[i - Len(s)]
             /\ j - Len(s) \in DOMAIN t /\ c[j] = t[j - Len(s)]
    <2>1. i - Len(s) < j - Len(s)
      BY <1>1
    <2> QED BY <1>4, <2>1 DEF Ordered
  <1>5. CASE i - Len(s) \in DOMAIN t /\ j \in DOMAIN s
    BY <1>1, <1>5
  <1> QED BY <1>1, <1>2, <1>3, <1>4, <1>5

LEMMA PrefixOrder ==
    ASSUME NEW s \in Seq(Tx), NEW t, StartsWith(t, s)
    PROVE  /\ Ordered(t) => Ordered(s)
           /\ \A u : AllBefore(u, t) => AllBefore(u, s)
           /\ NoneLater(t) => NoneLater(s)
  BY DEF StartsWith, Ordered, AllBefore, NoneLater

LEMMA StampType ==
    ASSUME NEW s \in Seq(Tx)
    PROVE  \A i \in DOMAIN s : s[i].createdAt \in Int
  <1>1. \A i \in DOMAIN s : s[i] \in Tx
    OBVIOUS
  <1> QED BY <1>1, PoolAssumption DEF Tx

LEMMA NextOrder ==
    ASSUME TypeInv, OrderInv, [Next]_vars
    PROVE  OrderInv'
  <1> /\ clock \in Nat /\ Coming \in Seq(Tx) /\ pending.txns \in Seq(Tx)
      /\ txns \in Seq(Tx) /\ mined \in Seq(Tx)
    BY ComingType, PendingLength DEF TypeInv, TypeOK
  <1> /\ \A i \in DOMAIN mined : mined[i].createdAt \in Int
      /\ \A i \in DOMAIN Coming : Coming[i].createdAt \in Int
      /\ Latest \in Int
    BY StampType DEF Latest
  <1>1. ASSUME UNCHANGED <<mined, txns, validator>>, Coming' = Coming,
               Latest' \in Int, Latest <= Latest'
        PROVE  OrderInv'
    <2>1. NoneLater(mined)' /\ NoneLater(Coming)'
      BY <1>1 DEF OrderInv, NoneLater
    <2> QED BY <1>1, <2>1 DEF OrderInv
  <1>2. ASSUME NEW h \in Hash, HandleTransaction(h) PROVE OrderInv'
    <2>1. Coming' = Coming /\ Latest' = clock /\ Latest = clock
      BY <1>2 DEF HandleTransaction, Coming, Latest
    <2> QED BY <1>1, <1>2, <2>1 DEF HandleTransaction
  <1>3. CASE CheckSpace \/ CheckContains \/ AddToAll
    <2>1. Coming' = Coming
      BY <1>3 DEF CheckSpace, CheckContains, AddToAll, Coming
    <2>2. Latest = clock - 1 /\ clock \in Nat \ {0} /\ Latest' \in {clock - 1, clock}
      BY <1>3, InHand DEF CheckSpace, CheckContains, AddToAll, Latest
    <2>3. UNCHANGED <<mined, txns, validator>>
      BY <1>3 DEF CheckSpace, CheckContains, AddToAll
    <2> QED BY <1>1, <2>1, <2>2, <2>3
  <1>4. CASE AddToPending
    <2>1. tx \in Tx /\ tx.createdAt = clock /\ clock \in Nat \ {0}
      BY <1>4, InHand DEF AddToPending
    <2>2. pending'.txns = pending.txns
      BY <1>4, <2>1, IndexType DEF AddToPending, TypeInv, TypeOK
    <2>3. /\ Coming = pending.txns /\ Coming' = Append(Coming, tx)
          /\ Latest = clock - 1 /\ Latest' = clock
      BY <1>4, <2>2 DEF AddToPending, Coming, Latest
    <2>4. /\ \A i \in DOMAIN Coming : Coming[i].createdAt < tx.createdAt
          /\ \A i \in DOMAIN mined : mined[i].createdAt < tx.createdAt
      BY <2>1, <2>3 DEF OrderInv, NoneLater
    <2>5. /\ Ordered(Coming) => Ordered(Coming')
          /\ StartsWith(Coming', Coming)
          /\ \A i \in DOMAIN Coming' : \/ i \in DOMAIN Coming /\ Coming'[i] = Coming[i]
                                       \/ Coming'[i] = tx
      BY <2>1, <2>3, <2>4, AppendOrder
    <2>6. mined' = mined /\ txns' = txns /\ validator' = validator
      BY <1>4 DEF AddToPending
    <2>7. NoneLater(Coming)' /\ NoneLater(mined)'
      BY <2>1, <2>3, <2>4, <2>5, <2>6 DEF NoneLater
    <2>8. AllBefore(mined, Coming) => AllBefore(mined, Coming')
      BY <2>4, <2>5 DEF AllBefore
    <2>9. StartsWith(Coming, txns) => StartsWith(Coming', txns)
      BY <2>5 DEF StartsWith
    <2> QED BY <2>5, <2>6, <2>7, <2>8, <2>9 DEF OrderInv
  <1>5. CASE AppendPending
    <2>1. pending'.txns = Append(pending.txns, tx)
      BY <1>5 DEF AppendPending, TypeInv, TypeOK, TxOrderedMap
    <2>2. Coming' = Coming /\ Latest' = clock /\ Latest = clock
      BY <1>5, <2>1 DEF AppendPending, Coming, Latest
    <2> QED BY <1>1, <1>5, <2>2 DEF AppendPending
  <1>6. CASE Pending
    <2>1. Coming' = Coming /\ Latest' = Latest /\ mined' = mined
      BY <1>6 DEF Pending, Coming, Latest
    <2>2. validator' = "addBlock" => StartsWith(Coming, txns')
      <3>1. StartsWith(Coming, Coming)
        BY DEF StartsWith
      <3>2. ASSUME txns' = pending.txns PROVE StartsWith(Coming, txns')
        <4>1. CASE rpc = "append"
          <5>1. tx \in Tx
            BY <4>1, InHand
          <5>2. /\ DOMAIN pending.txns \subseteq DOMAIN Append(pending.txns, tx)
                /\ \A i \in DOMAIN pending.txns : Append(pending.txns, tx)[i] = pending.txns[i]
            BY <5>1, AppendProperties
          <5> QED BY <3>2, <4>1, <5>2 DEF Coming, StartsWith
        <4> QED BY <3>1, <3>2, <4>1 DEF Coming
      <3>3. ASSUME rpc = "append", txns' = Append(pending.txns, tx)
            PROVE  StartsWith(Coming, txns')
        BY <3>1, <3>3 DEF Coming
      <3>4. validator = "idle"
        BY <1>6 DEF Pending
      <3> QED BY <1>6, <3>2, <3>3, <3>4 DEF Pending
    <2>3. validator # "clear" /\ validator' # "clear"
      BY <1>6 DEF Pending
    <2> QED BY <2>1, <2>2, <2>3 DEF OrderInv, NoneLater
  <1>7. CASE AddBlock
    <2>1. Coming' = Coming /\ Latest' = Latest /\ txns' = txns
      BY <1>7 DEF AddBlock, Coming, Latest
    <2>2. StartsWith(Coming, txns) /\ Ordered(Coming) /\ AllBefore(mined, Coming)
      BY <1>7 DEF AddBlock, OrderInv
    <2>3. CASE mined' = mined \o txns /\ validator' = "clear"
      <3>1. Ordered(txns) /\ AllBefore(mined, txns) /\ NoneLater(txns)
        BY <2>2, PrefixOrder DEF OrderInv
      <3>2. Ordered(mined \o txns)
        BY <2>2, <3>1, OrderedConcat DEF OrderInv
      <3>3. NoneLater(mined \o txns)
        BY <3>1, ConcatIndex DEF OrderInv, NoneLater
      <3> QED BY <2>1, <2>3, <3>2, <3>3 DEF OrderInv, NoneLater
    <2>4. CASE mined' = mined /\ validator' = "idle"
      BY <1>7, <2>1, <2>2, <2>4 DEF OrderInv, NoneLater
    <2> QED BY <1>7, <2>3, <2>4 DEF AddBlock
  <1>8. CASE ClearPending
    <2>1. Coming' = <<>> /\ Latest' = Latest /\ mined' = mined /\ validator' = "idle"
      BY <1>8 DEF ClearPending, NewTxOrderedMap, Coming, Latest
    <2> QED BY <2>1 DEF OrderInv, NoneLater, Ordered, AllBefore
  <1>9. CASE UNCHANGED vars
    BY <1>9 DEF vars, OrderInv, NoneLater, Coming, Latest
  <1> QED BY <1>2, <1>3, <1>4, <1>5, <1>6, <1>7, <1>8, <1>9
          DEF Next, RpcStep, ValidatorStep, Crashed

(***************************************************************************)
(* First in, first out, and each arrival in at most one block.             *)
(***************************************************************************)
THEOREM FirstInFirstOutHolds == Spec => []FirstInFirstOut
  <1>1. Init => OrderInv
    BY DEF Init, OrderInv, NoneLater, Ordered, AllBefore, Coming, NewTxOrderedMap
  <1>2. TypeInv /\ OrderInv /\ [Next]_vars => OrderInv'
    BY NextOrder
  <1>3. TypeInv /\ OrderInv => FirstInFirstOut
    <2> SUFFICES ASSUME TypeInv, OrderInv PROVE FirstInFirstOut
      OBVIOUS
    <2>1. pending.txns \in Seq(Tx) /\ mined \in Seq(Tx)
      BY PendingLength DEF TypeInv, TypeOK
    <2>2. StartsWith(Coming, pending.txns)
      <3>1. CASE rpc = "append"
        <4>1. tx \in Tx
          BY <3>1, InHand
        <4>2. /\ DOMAIN pending.txns \subseteq DOMAIN Append(pending.txns, tx)
              /\ \A i \in DOMAIN pending.txns : Append(pending.txns, tx)[i] = pending.txns[i]
          BY <2>1, <4>1, AppendProperties
        <4> QED BY <3>1, <4>2 DEF Coming, StartsWith
      <3> QED BY <3>1 DEF Coming, StartsWith
    <2>3. CASE validator = "clear"
      BY <2>3 DEF OrderInv, FirstInFirstOut
    <2>4. CASE validator # "clear"
      <3>1. Ordered(mined) /\ Ordered(Coming) /\ AllBefore(mined, Coming)
        BY <2>4 DEF OrderInv
      <3>2. Ordered(pending.txns) /\ AllBefore(mined, pending.txns)
        BY <2>1, <2>2, <3>1, PrefixOrder
      <3> QED BY <2>1, <2>4, <3>1, <3>2, OrderedConcat DEF FirstInFirstOut
    <2> QED BY <2>3, <2>4
  <1> QED BY <1>1, <1>2, <1>3, TypeInvHolds, PTL DEF Spec

-----------------------------------------------------------------------------
(***************************************************************************)
(* The history.  As long as no hash came twice every entry of the list is  *)
(* the one its lookup has, so pruning by the hash of the oldest entry      *)
(* removes the head of the list.                                           *)
(***************************************************************************)
Skipped(s) == IF Len(s) > max THEN Len(s) - max ELSE 0

LEMMA NewestIndex ==
    ASSUME NEW s \in Seq(Tx)
    PROVE  /\ Skipped(s) \in 0..Len(s)
           /\ Newest(s) \in Seq(Tx)
           /\ Len(Newest(s)) = Len(s) - Skipped(s)
           /\ \A i \in 1..Len(s) - Skipped(s) : Newest(s)[i] = s[Skipped(s) + i]
  <1> DEFINE k == Skipped(s) + 1
  <1>1. Len(s) \in Nat /\ max \in Nat \ {0}
    BY PoolAssumption
  <1>2. Skipped(s) \in 0..Len(s) /\ k \in 1..Len(s) + 1
    BY <1>1 DEF Skipped
  <1>3. Newest(s) = SubSeq(s, k, Len(s))
    BY <1>1 DEF Newest, Skipped
  <1> HIDE DEF k
  <1>4. \A i \in k..Len(s) : s[i] \in Tx
    BY <1>2
  <1>5. /\ Newest(s) \in Seq(Tx)
        /\ Len(Newest(s)) = IF k <= Len(s) THEN Len(s) - k + 1 ELSE 0
        /\ \A i \in 1..Len(s) - k + 1 : Newest(s)[i] = s[k + i - 1]
    BY <1>1, <1>2, <1>3, <1>4, SubSeqProperties
  <1>6. k = Skipped(s) + 1
    BY DEF k
  <1>7. Len(s) - k + 1 = Len(s) - Skipped(s)
    BY <1>1, <1>2, <1>6
  <1>8. \A i \in 1..Len(s) - Skipped(s) : k + i - 1 = Skipped(s) + i
    BY <1>1, <1>2, <1>6
  <1>9. Len(Newest(s)) = Len(s) - Skipped(s)
    BY <1>1, <1>2, <1>5, <1>6
  <1> QED BY <1>2, <1>5, <1>7, <1>8, <1>9

LEMMA NewestUnique ==
    ASSUME NEW s \in Seq(Tx), Unique(s)
    PROVE  /\ Unique(Newest(s))
           /\ Hashes(Newest(s)) \subseteq Hashes(s)
  <1>1. /\ Len(s) \in Nat /\ Skipped(s) \in 0..Len(s)
        /\ DOMAIN s = 1..Len(s) /\ DOMAIN Newest(s) = 1..Len(s) - Skipped(s)
        /\ \A i \in 1..Len(s) - Skipped(s) : Newest(s)[i] = s[Skipped(s) + i]
    <2>1. /\ Skipped(s) \in 0..Len(s) /\ Newest(s) \in Seq(Tx)
          /\ Len(Newest(s)) = Len(s) - Skipped(s)
          /\ \A i \in 1..Len(s) - Skipped(s) : Newest(s)[i] = s[Skipped(s) + i]
      BY NewestIndex
    <2>2. DOMAIN Newest(s) = 1..Len(Newest(s)) /\ DOMAIN s = 1..Len(s) /\ Len(s) \in Nat
      BY <2>1
    <2> QED BY <2>1, <2>2
  <1>2. \A i \in DOMAIN Newest(s) : 
           Skipped(s) + i \in DOMAIN s /\ Newest(s)[i] = s[Skipped(s) + i]
    BY <1>1
  <1>3. Hashes(Newest(s)) \subseteq Hashes(s)
    BY <1>2 DEF Hashes
  <1>4. ASSUME NEW i \in DOMAIN Newest(s), NEW j \in DOMAIN Newest(s),
               Newest(s)[i].hash = Newest(s)[j].hash
        PROVE  i = j
    <2>1. Skipped(s) + i = Skipped(s) + j
      BY <1>2, <1>4 DEF Unique
    <2> QED BY <1>1, <2>1
  <1> QED BY <1>3, <1>4 DEF Unique

LEMMA NewestAppend ==
    ASSUME NEW s \in Seq(Tx), NEW t \in Tx
    PROVE  Newest(Append(s, t)) = Append(IF Len(Newest(s)) = max THEN Tail(Newest(s))
                                                                 ELSE Newest(s), t)
  <1> DEFINE a == Append(s, t)
             n == Newest(s)
             r == IF Len(n) = max THEN Tail(n) ELSE n
  <1>1. max \in Nat \ {0} /\ Len(s) \in Nat
    BY PoolAssumption
  <1>2. /\ a \in Seq(Tx) /\ Len(a) = Len(s) + 1 /\ a[Len(s) + 1] = t
        /\ \A i \in 1..Len(s) : a[i] = s[i]
    BY AppendProperties
  <1>3. /\ n \in Seq(Tx) /\ Len(n) = Len(s) - Skipped(s) /\ Skipped(s) \in 0..Len(s)
        /\ \A i \in 1..Len(n) : n[i] = s[Skipped(s) + i]
    BY NewestIndex
  <1>4. /\ Newest(a) \in Seq(Tx) /\ Len(Newest(a)) = Len(a) - Skipped(a)
        /\ \A i \in 1..Len(a) - Skipped(a) : Newest(a)[i] = a[Skipped(a) + i]
    BY <1>2, NewestIndex
  <1> HIDE DEF a, n
  <1>5. /\ r \in Seq(Tx)
        /\ Len(r) = Len(s) - Skipped(a)
        /\ \A i \in 1..Len(r) : r[i] = s[Skipped(a) + i]
    <2>1. CASE Len(s) >= max
      <3>1. Skipped(s) = Len(s) - max /\ Skipped(a) = Len(s) + 1 - max /\ Len(n) = max
        BY <1>1, <1>2, <1>3, <2>1 DEF Skipped
      <3>2. r = Tail(n) /\ n # <<>>
        BY <1>1, <1>3, <3>1
      <3>3. /\ Tail(n) \in Seq(Tx) /\ Len(Tail(n)) = Len(n) - 1
            /\ \A i \in 1..Len(Tail(n)) : Tail(n)[i] = n[i + 1]
        BY <1>3, <3>2, HeadTailProperties
      <3>4. \A i \in 1..Len(n) - 1 : 
               i + 1 \in 1..Len(n) /\ Skipped(s) + (i + 1) = Skipped(a) + i
        BY <1>1, <3>1
      <3>5. \A i \in 1..Len(n) - 1 : Tail(n)[i] = s[Skipped(a) + i]
        BY <1>3, <3>3, <3>4
      <3> QED BY <1>1, <3>1, <3>2, <3>3, <3>5
    <2>2. CASE Len(s) < max
      <3>1. Skipped(s) = 0 /\ Skipped(a) = 0 /\ Len(n) # max
        BY <1>1, <1>2, <1>3, <2>2 DEF Skipped
      <3> QED BY <1>3, <3>1
    <2> QED BY <1>1, <2>1, <2>2
  <1> HIDE DEF r
  <1>6. /\ Append(r, t) \in Seq(Tx) /\ Len(Append(r, t)) = Len(r) + 1
        /\ Append(r, t)[Len(r) + 1] = t
        /\ \A i \in 1..Len(r) : Append(r, t)[i] = r[i]
    BY <1>5, AppendProperties
  <1>7. Skipped(a) \in 0..Len(s)
    BY <1>1, <1>2 DEF Skipped
  <1>8. Len(Newest(a)) = Len(Append(r, t)) /\ Len(Newest(a)) = Len(s) + 1 - Skipped(a)
    BY <1>1, <1>2, <1>4, <1>5, <1>6, <1>7
  <1>9. ASSUME NEW i \in 1..Len(Newest(a))
        PROVE  Newest(a)[i] = Append(r, t)[i]
    <2>1. Newest(a)[i] = a[Skipped(a) + i]
      BY <1>1, <1>2, <1>4, <1>7
    <2>2. CASE i \in 1..Len(r)
      <3>1. Append(r, t)[i] = r[i] /\ r[i] = s[Skipped(a) + i]
        BY <1>5, <1>6, <2>2
      <3>2. Skipped(a) + i \in 1..Len(s)
        BY <1>1, <1>5, <1>7, <2>2
      <3>3. a[Skipped(a) + i] = s[Skipped(a) + i]
        BY <1>2, <3>2
      <3> QED BY <2>1, <3>1, <3>3
    <2>3. CASE i = Len(r) + 1
      <3>1. Skipped(a) + i = Len(s) + 1
        BY <1>1, <1>5, <1>7, <2>3
      <3> QED BY <1>2, <1>6, <2>1, <2>3, <3>1
    <2> QED BY <1>1, <1>5, <1>6, <1>7, <1>8, <2>2, <2>3
  <1>10. Newest(a) = Append(r, t)
    BY <1>4, <1>6, <1>8, <1>9, SeqEqual
  <1> QED BY <1>10 DEF a, n, r

LEMMA PruneIndexed ==
    ASSUME NEW m \in TxOrderedMap, Indexed(m), Unique(m.txns)
    PROVE  /\ Prune(m).txns = IF Len(m.txns) = max THEN Tail(m.txns) ELSE m.txns
           /\ Indexed(Prune(m))
           /\ Hashes(Prune(m).txns) \subseteq Hashes(m.txns)
  <1> DEFINE q == m.txns
  <1>1. q \in Seq(Tx) /\ max \in Nat \ {0}
    BY PoolAssumption DEF TxOrderedMap
  <1>2. CASE Len(q) = max
    <2> DEFINE h == Head(q).hash
    <2>1. q # <<>> /\ Head(q) = q[1] /\ 1 \in DOMAIN q
      BY <1>1, <1>2
    <2>2. MapContains(m, h) /\ m.lookup[h] = Head(q)
      BY <2>1 DEF Indexed
    <2>3. /\ Prune(m).txns = Tail(q)
          /\ Prune(m).lookup = [g \in DOMAIN m.lookup \ {h} |-> m.lookup[g]]
      BY <1>1, <1>2, <2>1, <2>2, RemoveHead DEF Prune, MapRemove
    <2>4. /\ Tail(q) \in Seq(Tx) /\ Len(Tail(q)) = Len(q) - 1
          /\ \A i \in 1..Len(Tail(q)) : Tail(q)[i] = q[i + 1]
      BY <1>1, <2>1, HeadTailProperties
    <2>5. \A i \in DOMAIN Tail(q) : i + 1 \in DOMAIN q /\ i + 1 # 1 /\ Tail(q)[i] = q[i + 1]
      BY <1>1, <2>4
    <2>6. \A i \in DOMAIN Tail(q) : Tail(q)[i].hash # h
      BY <2>1, <2>5 DEF Unique
    <2>7. Indexed(Prune(m))
      BY <2>3, <2>5, <2>6 DEF Indexed, MapContains
    <2>8. Hashes(Tail(q)) \subseteq Hashes(q)
      BY <2>5 DEF Hashes
    <2> QED BY <1>2, <2>3, <2>7, <2>8
  <1>3. CASE Len(q) # max
    BY <1>3 DEF Prune
  <1> QED BY <1>2, <1>3

LEMMA AddIndexed ==
    ASSUME NEW m \in TxOrderedMap, Indexed(m), NEW t \in Tx, t.hash \notin Hashes(m.txns)
    PROVE  Indexed(MapAdd(m, t))
  <1> DEFINE a == MapAdd(m, t)
  <1>1. /\ a.txns = Append(m.txns, t) /\ m.txns \in Seq(Tx)
        /\ DOMAIN a.lookup = DOMAIN m.lookup \union {t.hash}
        /\ a.lookup[t.hash] = t
        /\ \A h \in DOMAIN m.lookup : h # t.hash => a.lookup[h] = m.lookup[h]
    BY AddType, IndexType DEF TxOrderedMap
  <1>2. /\ DOMAIN a.txns = 1..Len(m.txns) + 1 /\ DOMAIN m.txns = 1..Len(m.txns)
        /\ \A i \in 1..Len(m.txns) : a.txns[i] = m.txns[i]
        /\ a.txns[Len(m.txns) + 1] = t
    BY <1>1, AppendProperties
  <1> HIDE DEF a
  <1>3. ASSUME NEW i \in DOMAIN a.txns
        PROVE  MapContains(a, a.txns[i].hash) /\ a.lookup[a.txns[i].hash] = a.txns[i]
    <2>1. CASE i \in DOMAIN m.txns
      <3>1. a.txns[i] = m.txns[i] /\ m.txns[i].hash # t.hash
        BY <1>2, <2>1 DEF Hashes
      <3> QED BY <1>1, <2>1, <3>1 DEF Indexed, MapContains
    <2>2. CASE i = Len(m.txns) + 1
      BY <1>1, <1>2, <2>2 DEF MapContains
    <2> QED BY <1>1, <1>2, <2>1, <2>2
  <1> QED BY <1>3 DEF Indexed, a

LEMMA NextHistory ==
    ASSUME TypeInv, HistoryInv, [Next]_vars
    PROVE  HistoryInv'
  <1>1. ASSUME Taken' = Taken, all' = all PROVE HistoryInv'
    BY <1>1 DEF HistoryInv, Indexed, Unique, Newest
  <1>2. ASSUME NEW h \in Hash, HandleTransaction(h) PROVE HistoryInv'
    BY <1>1, <1>2 DEF HandleTransaction, Taken
  <1>3. CASE CheckSpace
    BY <1>1, <1>3 DEF CheckSpace, Taken
  <1>4. CASE CheckContains
    BY <1>1, <1>4 DEF CheckContains, Taken
  <1>5. CASE AddToAll
    <2>1. tx \in Tx /\ accepted \in Seq(Tx) /\ all \in TxOrderedMap
      BY <1>5, InHand DEF AddToAll, TypeInv, TypeOK
    <2>2. /\ Taken = accepted /\ Taken' = Append(accepted, tx)
          /\ all' = MapAdd(Prune(all), tx)
      BY <1>5 DEF AddToAll, Taken
    <2> SUFFICES ASSUME Unique(Taken') PROVE all'.txns = Newest(Taken') /\ Indexed(all')
      BY DEF HistoryInv, Newest, Unique, Indexed
    <2>3. Unique(accepted) /\ tx.hash \notin Hashes(accepted)
      BY <2>1, <2>2, HashesAppend
    <2>4. all.txns = Newest(accepted) /\ Indexed(all)
      BY <2>2, <2>3 DEF HistoryInv
    <2>5. Unique(all.txns) /\ tx.hash \notin Hashes(all.txns)
      BY <2>1, <2>3, <2>4, NewestUnique
    <2>6. /\ Prune(all).txns = IF Len(all.txns) = max THEN Tail(all.txns) ELSE all.txns
          /\ Indexed(Prune(all)) /\ tx.hash \notin Hashes(Prune(all).txns)
      BY <2>1, <2>4, <2>5, PruneIndexed
    <2>7. Prune(all) \in TxOrderedMap
      BY <2>1, PruneType
    <2>8. Indexed(all')
      BY <2>1, <2>2, <2>6, <2>7, AddIndexed
    <2>9. all'.txns = Append(Prune(all).txns, tx)
      BY <2>1, <2>2, <2>7, AddType
    <2>10. all'.txns = Newest(Taken')
      BY <2>1, <2>2, <2>4, <2>6, <2>9, NewestAppend
    <2> QED BY <2>8, <2>10
  <1>6. CASE AddToPending
    BY <1>1, <1>6 DEF AddToPending, Taken
  <1>7. CASE AppendPending
    BY <1>1, <1>7 DEF AppendPending, Taken
  <1>8. CASE Pending
    BY <1>1, <1>8 DEF Pending, Taken
  <1>9. CASE AddBlock
    BY <1>1, <1>9 DEF AddBlock, Taken
  <1>10. CASE ClearPending
    BY <1>1, <1>10 DEF ClearPending, Taken
  <1>11. CASE UNCHANGED vars
    BY <1>1, <1>11 DEF vars, Taken
  <1> QED BY <1>2, <1>3, <1>4, <1>5, <1>6, <1>7, <1>8, <1>9, <1>10, <1>11
          DEF Next, RpcStep, ValidatorStep, Crashed

(***************************************************************************)
(* The history of Add holds the newest max transactions, in order, as long *)
(* as no hash was added twice.                                             *)
(***************************************************************************)
THEOREM HistoryHolds == Spec => []HistoryIsNewest
  <1>1. Init => HistoryInv
    <2> SUFFICES ASSUME Init PROVE all.txns = Newest(Taken) /\ Indexed(all)
      BY DEF HistoryInv
    <2>1. all.txns = <<>> /\ Taken = <<>>
      BY DEF Init, NewTxOrderedMap, Taken
    <2>2. Newest(<<>>) = <<>>
      BY PoolAssumption, SubSeqEmpty DEF Newest
    <2> QED BY <2>1, <2>2 DEF Indexed
  <1>2. TypeInv /\ HistoryInv /\ [Next]_vars => HistoryInv'
    BY NextHistory
  <1>3. HistoryInv => HistoryIsNewest
    BY DEF HistoryInv, HistoryIsNewest, Taken, Unique, Newest
  <1> QED BY <1>1, <1>2, <1>3, TypeInvHolds, PTL DEF Spec
=============================================================================
