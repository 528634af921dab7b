------------------------------- MODULE TxPool -------------------------------
(***************************************************************************)
(* The transaction pool of a validating server: server/txpool.go and       *)
(* types/list.go, with the two goroutines that use it.  The rpc loop       *)
(* handles one transaction at a time (handleTransaction, TxPool.Add).  The *)
(* validator loop makes a block of what is pending (createNewBlock).       *)
(*                                                                         *)
(* TxPool.lock is never taken.  Each TxOrderedMap has a lock that covers   *)
(* one call, and Pending() reads the list without it.                      *)
(***************************************************************************)
EXTENDS Integers, Sequences, SequencesExt

CONSTANTS
    Hash,       \* hashes of the transactions that arrive
    Refused,    \* those that make AddBlock fail: their program fails in the vm
    max,        \* TxPool.max
    MaxClock    \* bound: how many transactions arrive

ASSUME PoolAssumption ==
    Refused \subseteq Hash /\ max \in Nat \ {0} /\ MaxClock \in Nat

(***************************************************************************)
(* A transaction object.  handleTransaction stamps every arrival, so two   *)
(* objects of one hash differ in createdAt and reflect.DeepEqual tells     *)
(* them apart.  Clock readings are taken to be distinct.                   *)
(***************************************************************************)
Tx == [hash : Hash, createdAt : 1..MaxClock]

VARIABLES
    all, pending,   \* the two TxOrderedMaps
    clock,          \* time.Now() at the last arrival
    rpc, tx,        \* where the rpc loop is in handleTransaction, and with what
    validator,      \* where the validator loop is in createNewBlock
    txns,           \* the slice Pending() returned to it
    accepted,       \* history: the transactions for which Add returned true
    mined,          \* history: the transactions of the blocks made, in order
    crashed         \* a panic has ended the process

vars == <<all, pending, clock, rpc, tx, validator, txns, accepted, mined, crashed>>

-----------------------------------------------------------------------------
(***************************************************************************)
(* TxOrderedMap and the List it holds.                                     *)
(***************************************************************************)
TxOrderedMap == [lookup : UNION {[D -> Tx] : D \in SUBSET Hash}, txns : Seq(Tx)]

NewTxOrderedMap == [lookup |-> [h \in {} |-> 0], txns |-> <<>>]

MapContains(m, h) == h \in DOMAIN m.lookup

Index(m, t) ==
    [m EXCEPT !.lookup = [h \in DOMAIN @ \union {t.hash} |->
                             IF h = t.hash THEN t ELSE @[h]]]

MapAdd(m, t) == [Index(m, t) EXCEPT !.txns = Append(@, t)]

(* Mutant of MapRemove: the entry leaves the lookup and stays in the list. *)
MapRemoveLookupOnly(m, h) ==
    [m EXCEPT !.lookup = [g \in DOMAIN @ \ {h} |-> @[g]]]

MapRemove(m, h) ==
    IF MapContains(m, h)
    THEN [lookup |-> [g \in DOMAIN m.lookup \ {h} |-> m.lookup[g]],
          txns |-> RemoveFirst(m.txns, m.lookup[h])]
    ELSE m

-----------------------------------------------------------------------------
Init ==
    /\ all = NewTxOrderedMap
    /\ pending = NewTxOrderedMap
    /\ clock = 0
    /\ rpc = "idle"
    /\ tx \in [hash : Hash, createdAt : {0}]
    /\ validator = "idle"
    /\ txns = <<>>
    /\ accepted = <<>>
    /\ mined = <<>>
    /\ crashed = FALSE

(***************************************************************************)
(* handleTransaction of a transaction whose signature verified; one that   *)
(* does not verify is refused before the pool is touched.                  *)
(***************************************************************************)
(* Mutant of HandleTransaction: SetCreatedAt is not called. *)
HandleTransactionUnstamped(h) ==
    /\ rpc = "idle"
    /\ clock < MaxClock
    /\ clock' = clock + 1
    /\ tx' = [hash |-> h, createdAt |-> 0]
    /\ rpc' = "space"
    /\ UNCHANGED <<all, pending, validator, txns, accepted, mined, crashed>>

HandleTransaction(h) ==
    /\ rpc = "idle"
    /\ clock < MaxClock
    /\ clock' = clock + 1
    /\ tx' = [hash |-> h, createdAt |-> clock + 1]
    /\ rpc' = "space"
    /\ UNCHANGED <<all, pending, validator, txns, accepted, mined, crashed>>

(* Mutant of Full: the comparison tolerates one more. *)
FullBeyond == Len(pending.txns) = max + 1

Full == Len(pending.txns) = max

(***************************************************************************)
(* Add: "no more space for pending transactions".                          *)
(***************************************************************************)
CheckSpace ==
    /\ rpc = "space"
    /\ rpc' = IF Full THEN "idle" ELSE "contains"
    /\ UNCHANGED <<all, pending, clock, tx, validator, txns, accepted, mined, crashed>>

(***************************************************************************)
(* Add: a transaction that is pending already is dropped.                  *)
(***************************************************************************)
(* Mutant of CheckContains: duplicates are let through. *)
CheckContainsDropped ==
    /\ rpc = "contains"
    /\ rpc' = "all"
    /\ UNCHANGED <<all, pending, clock, tx, validator, txns, accepted, mined, crashed>>

CheckContains ==
    /\ rpc = "contains"
    /\ rpc' = IF MapContains(pending, tx.hash) THEN "idle" ELSE "all"
    /\ UNCHANGED <<all, pending, clock, tx, validator, txns, accepted, mined, crashed>>

(***************************************************************************)
(* Add: make room in the history, which only the rpc loop touches, and     *)
(* add to it.  The room is made by the hash of the oldest entry, so what   *)
(* goes is the entry the lookup has for that hash.                         *)
(***************************************************************************)
Prune(m) == IF Len(m.txns) = max THEN MapRemove(m, Head(m.txns).hash) ELSE m

AddToAll ==
    /\ rpc = "all"
    /\ all' = MapAdd(Prune(all), tx)
    /\ rpc' = "pending"
    /\ UNCHANGED <<pending, clock, tx, validator, txns, accepted, mined, crashed>>

(***************************************************************************)
(* pending.Add: from here to Append the rpc loop holds pending.lock.       *)
(***************************************************************************)
AddToPending ==
    /\ rpc = "pending"
    /\ pending' = Index(pending, tx)
    /\ rpc' = "append"
    /\ UNCHANGED <<all, clock, tx, validator, txns, accepted, mined, crashed>>

AppendPending ==
    /\ rpc = "append"
    /\ pending' = [pending EXCEPT !.txns = Append(@, tx)]
    /\ accepted' = Append(accepted, tx)
    /\ rpc' = "idle"
    /\ UNCHANGED <<all, clock, tx, validator, txns, mined, crashed>>

(***************************************************************************)
(* createNewBlock: Pending() reads the slice without the lock.  While an   *)
(* append is under way it may also see the new length, and then the new    *)
(* element or, when that is not written yet, a nil pointer, on which the   *)
(* encoding of the transactions for the data hash panics.                  *)
(***************************************************************************)
Pending ==
    /\ validator = "idle"
    /\ \/ /\ txns' = pending.txns
          /\ validator' = "addBlock"
          /\ UNCHANGED crashed
       \/ /\ rpc = "append"
          /\ txns' = Append(pending.txns, tx)
          /\ validator' = "addBlock"
          /\ UNCHANGED crashed
       \/ /\ rpc = "append"
          /\ crashed' = TRUE
          /\ UNCHANGED <<txns, validator>>
    /\ UNCHANGED <<all, pending, clock, rpc, tx, accepted, mined>>

(***************************************************************************)
(* createNewBlock: AddBlock succeeds, or fails and what was pending stays. *)
(***************************************************************************)
(* Mutant of Succeeds: a block of a full pool is refused as too large. *)
SucceedsUnlessLarge == Len(txns) < max

Succeeds == \A i \in DOMAIN txns : txns[i].hash \notin Refused

AddBlock ==
    /\ validator = "addBlock"
    /\ \/ /\ Succeeds
          /\ mined' = mined \o txns
          /\ validator' = "clear"
       \/ /\ ~Succeeds
          /\ validator' = "idle"
          /\ UNCHANGED mined
    /\ UNCHANGED <<all, pending, clock, rpc, tx, txns, accepted, crashed>>

(***************************************************************************)
(* ClearPending, under pending.lock.                                       *)
(***************************************************************************)
(* Mutant of ClearPending: nothing is cleared. *)
ClearPendingForgotten ==
    /\ validator = "clear"
    /\ validator' = "idle"
    /\ UNCHANGED <<all, pending, clock, rpc, tx, txns, accepted, mined, crashed>>

ClearPending ==
    /\ validator = "clear"
    /\ rpc # "append"
    /\ pending' = NewTxOrderedMap
    /\ validator' = "idle"
    /\ txns' = <<>>
    /\ UNCHANGED <<all, clock, rpc, tx, accepted, mined, crashed>>

RpcStep == CheckSpace \/ CheckContains \/ AddToAll \/ AddToPending \/ AppendPending

ValidatorStep == Pending \/ AddBlock \/ ClearPending

(* After a crash nothing happens. *)
Crashed == crashed /\ UNCHANGED vars

Next ==
    \/ /\ ~crashed
       /\ RpcStep \/ ValidatorStep \/ \E h \in Hash : HandleTransaction(h)
    \/ Crashed

Spec == Init /\ [][Next]_vars

(***************************************************************************)
(* Both goroutines are scheduled, and the block ticker keeps firing.       *)
(***************************************************************************)
FairSpec ==
    /\ Spec
    /\ WF_vars(~crashed /\ RpcStep)
    /\ WF_vars(~crashed /\ ValidatorStep)

-----------------------------------------------------------------------------
(***************************************************************************)
(* Properties.                                                             *)
(***************************************************************************)
Hashes(s) == {s[i].hash : i \in DOMAIN s}

Ordered(s) == \A i, j \in DOMAIN s : i < j => s[i].createdAt < s[j].createdAt

(* Every variable has the type the Go declarations give it. *)
TypeOK ==
    /\ all \in TxOrderedMap
    /\ pending \in TxOrderedMap
    /\ clock \in 0..MaxClock
    /\ rpc \in {"idle", "space", "contains", "all", "pending", "append"}
    /\ tx \in [hash : Hash, createdAt : 0..MaxClock]
    /\ validator \in {"idle", "addBlock", "clear"}
    /\ txns \in Seq(Tx)
    /\ accepted \in Seq(Tx)
    /\ mined \in Seq(Tx)
    /\ crashed \in BOOLEAN

(* At most max transactions are pending, although Add compares with = and the
   length is read in another critical section than the one that appends. *)
PendingCapped == Len(pending.txns) <= max

(* The lookup and the list of the pending transactions agree outside the
   append, and no hash is pending twice: a block holds no duplicate. *)
PendingUnique ==
    /\ DOMAIN pending.lookup =
          Hashes(pending.txns) \union (IF rpc = "append" THEN {tx.hash} ELSE {})
    /\ \A i, j \in DOMAIN pending.txns :
          pending.txns[i].hash = pending.txns[j].hash => i = j

(* Transactions go into blocks first in, first out, and each arrival at most
   once: the blocks made so far, followed by what is pending and not in them,
   hold the arrivals in the order of their time stamps. *)
FirstInFirstOut ==
    Ordered(IF validator = "clear" THEN mined ELSE mined \o pending.txns)

(* As long as no hash was added twice the history holds at most max entries
   and they are the newest transactions added. *)
HistoryIsNewest ==
    /\ \A i, j \in DOMAIN accepted : accepted[i].hash = accepted[j].hash => i = j
    /\ rpc \notin {"pending", "append"}
    => all.txns = SubSeq(accepted, IF Len(accepted) > max THEN Len(accepted) - max + 1
                                                          ELSE 1, Len(accepted))

(* "add all transactions from mempool into block": every transaction the pool
   took in is pending or in a block. *)
NoTxLost ==
    \A i \in DOMAIN accepted :
       accepted[i] \in {pending.txns[j] : j \in DOMAIN pending.txns}
                          \union {mined[j] : j \in DOMAIN mined}

(* A full pool gets room again, unless it holds a transaction that makes every
   block fail: the validator loop takes what is pending into a block and clears
   it. *)
PoolDrains == Full /\ Hashes(pending.txns) \intersect Refused = {} ~> ~Full \/ crashed
=============================================================================
