-------------------------- MODULE Blockchain_proofs -------------------------
(***************************************************************************)
(* Proofs about module Blockchain, for every set of calling goroutines,    *)
(* every set of blocks and chains of every length.                         *)
(***************************************************************************)
EXTENDS Blockchain, TLAPS

(***************************************************************************)
(* The transaction a goroutine is at, and the instruction it executes.     *)
(***************************************************************************)
LEMMA TxType ==
    ASSUME TypeOK, NEW c \in Callers, TxLeft(c)
    PROVE  Tx(c) \in Transaction
  <1>1. blk[c] \in Block /\ next[c] \in Nat \ {0}
    BY DEF TypeOK
  <1>2. blk[c].Transactions \in Seq(Transaction)
    BY <1>1 DEF Block
  <1>3. next[c] \in 1..Len(blk[c].Transactions)
    BY <1>1, <1>2 DEF TxLeft
  <1> QED BY <1>2, <1>3 DEF Tx

LEMMA InstType ==
    ASSUME TypeOK, NEW c \in Callers, AtInstruction(c)
    PROVE  Inst(c) \in Instruction
  <1>1. Tx(c).Data \in Seq(Instruction)
    BY TxType DEF AtInstruction, Running, Transaction
  <1>2. ip[c] \in 1..Len(Tx(c).Data)
    BY <1>1 DEF AtInstruction, TypeOK
  <1> QED BY <1>1, <1>2 DEF Inst

(***************************************************************************)
(* Every step of AddBlock keeps the types, whatever else is under way.     *)
(***************************************************************************)
LEMMA TypeStep == TypeOK /\ [Next]_vars => TypeOK'
  <1> SUFFICES ASSUME TypeOK, [Next]_vars PROVE TypeOK'
    OBVIOUS
  <1> USE DEF TypeOK, Goto, Return, Panic, stores, Steps, Results
  <1>a. \A c \in Callers : /\ next[c] + 1 \in Nat \ {0}
                           /\ ip[c] + 1 \in Nat \ {0}
    OBVIOUS
  <1>1. ASSUME NEW c \in Callers, NEW b \in Blocks, AddBlock(c, b) PROVE TypeOK'
    BY <1>1, BlocksAssumption DEF AddBlock
  <1>2. ASSUME NEW c \in Callers, ValidateNew(c) PROVE TypeOK'
    BY <1>2 DEF ValidateNew
  <1>3. ASSUME NEW c \in Callers, ValidateHeight(c) PROVE TypeOK'
    BY <1>3 DEF ValidateHeight
  <1>4. ASSUME NEW c \in Callers, ValidatePrevious(c) PROVE TypeOK'
    BY <1>4 DEF ValidatePrevious
  <1>5. ASSUME NEW c \in Callers, Exec(c) PROVE TypeOK'
    <2>1. contractState' \subseteq Key
      BY <1>5, InstType DEF Exec, Instruction
    <2>2. ip' \in [Callers -> Nat \ {0}] /\ crashed' \in BOOLEAN
      BY <1>5, <1>a DEF Exec, Advance, VmError
    <2>3. pc' \in [Callers -> Steps] /\ ret' \in [Callers -> Results]
      BY <1>5 DEF Exec, Advance, VmError
    <2> QED BY <1>5, <2>1, <2>2, <2>3 DEF Exec
  <1>6. ASSUME NEW c \in Callers, NextTransaction(c) PROVE TypeOK'
    BY <1>6, <1>a DEF NextTransaction
  <1>7. ASSUME NEW c \in Callers, CheckHeader(c) PROVE TypeOK'
    BY <1>7 DEF CheckHeader
  <1>8. ASSUME NEW c \in Callers, PutHeader(c) PROVE TypeOK'
    <2>1. blk[c] \in Block /\ blk[c].hash \in Hash
      BY DEF Block
    <2>2. data' \in Seq(Block) /\ data' # <<>> /\ Len(data') = Len(data) + 1
      BY <1>8, <2>1 DEF PutHeader
    <2>3. /\ DOMAIN idx' \subseteq Hash
          /\ \A h \in DOMAIN idx' : idx'[h] \in 0..(Len(data') - 1)
      BY <1>8, <2>1, <2>2 DEF PutHeader, NewIndex
    <2>4. at' \in [Callers -> 1..Len(data')] /\ stored' \subseteq 1..Len(data')
      BY <1>8, <2>2 DEF PutHeader
    <2>5. pc' \in [Callers -> Steps]
      BY <1>8 DEF PutHeader
    <2> QED BY <1>8, <2>2, <2>3, <2>4, <2>5 DEF PutHeader
  <1>9. ASSUME NEW c \in Callers, PutBlock(c) PROVE TypeOK'
    <2>1. stored' \subseteq 1..Len(data')
      BY <1>9 DEF PutBlock
    <2>2. next' \in [Callers -> Nat \ {0}]
      BY <1>9 DEF PutBlock
    <2> QED BY <1>9, <2>1, <2>2 DEF PutBlock
  <1>10. ASSUME NEW c \in Callers, PutTransaction(c) PROVE TypeOK'
    <2>1. txStore' \subseteq Seq(Instruction)
      BY <1>10, TxType DEF PutTransaction, Transaction
    <2>2. /\ pc' \in [Callers -> Steps]
          /\ ret' \in [Callers -> Results]
          /\ next' \in [Callers -> Nat \ {0}]
      BY <1>10, <1>a DEF PutTransaction
    <2> QED BY <1>10, <2>1, <2>2 DEF PutTransaction
  <1>11. ASSUME NEW c \in Callers, NEW d \in Callers, ConcurrentMapAccess(c, d)
         PROVE TypeOK'
    BY <1>11 DEF ConcurrentMapAccess
  <1>12. CASE UNCHANGED vars
    BY <1>12 DEF vars
  <1> QED
    BY <1>1, <1>2, <1>3, <1>4, <1>5, <1>6, <1>7, <1>8, <1>9, <1>10, <1>11, <1>12
    DEF Next, Step, Crashed

LEMMA TypeInit == Init => TypeOK
  <1> SUFFICES ASSUME Init PROVE TypeOK
    OBVIOUS
  <1>1. Genesis \in Block /\ Genesis.hash \in Hash
    BY BlocksAssumption DEF Block
  <1>2. data \in Seq(Block) /\ data # <<>> /\ Len(data) = 1
    BY <1>1 DEF Init
  <1>3. DOMAIN idx \subseteq Hash /\ \A h \in DOMAIN idx : idx[h] \in 0..(Len(data) - 1)
    BY <1>1, <1>2 DEF Init
  <1>4. stored \subseteq 1..Len(data) /\ at \in [Callers -> 1..Len(data)]
    BY <1>2 DEF Init
  <1>5. next \in [Callers -> Nat \ {0}] /\ ip \in [Callers -> Nat \ {0}]
    BY DEF Init
  <1> QED BY <1>1, <1>2, <1>3, <1>4, <1>5 DEF Init, TypeOK, Steps, Results

(* The variables always have their types; in particular a goroutine only ever
   stores a block under a position the header store has. *)
THEOREM TypeCorrect == Spec => []TypeOK
  BY TypeInit, TypeStep, PTL DEF Spec

-----------------------------------------------------------------------------
(***************************************************************************)
(* Only headerStore.put changes the header store.                          *)
(***************************************************************************)
LEMMA HeaderChange ==
    [Next]_vars => UNCHANGED <<data, idx>> \/ \E c \in Callers : PutHeader(c)
  BY DEF Next, Step, Crashed, vars, stores, AddBlock, ValidateNew, ValidateHeight,
     ValidatePrevious, Exec, NextTransaction, CheckHeader, PutBlock,
     PutTransaction, ConcurrentMapAccess

LEMMA PutHeaderAppends ==
    ASSUME TypeOK, NEW c \in Callers, PutHeader(c)
    PROVE  /\ Len(data') = Len(data) + 1
           /\ data'[Len(data) + 1] = blk[c]
           /\ \A p \in 1..Len(data) : data'[p] = data[p]
           /\ blk[c] \in Block
  <1>1. data \in Seq(Block) /\ blk[c] \in Block
    BY DEF TypeOK
  <1> QED BY <1>1 DEF PutHeader

LEMMA DataGrows ==
    ASSUME TypeOK, [Next]_vars
    PROVE  /\ Len(data) \in Nat /\ Len(data') \in Nat
           /\ Len(data') >= Len(data)
           /\ \A p \in 1..Len(data) : data'[p] = data[p]
  <1>1. Len(data) \in Nat
    BY DEF TypeOK
  <1>2. CASE UNCHANGED <<data, idx>>
    BY <1>1, <1>2
  <1>3. ASSUME NEW c \in Callers, PutHeader(c)
        PROVE  /\ Len(data') \in Nat
               /\ Len(data') >= Len(data)
               /\ \A p \in 1..Len(data) : data'[p] = data[p]
    BY <1>1, <1>3, PutHeaderAppends
  <1> QED BY <1>1, <1>2, <1>3, HeaderChange

(***************************************************************************)
(* What AddBlock has established at each point: ValidateBlock found the    *)
(* header below the block, so the block was verified.                      *)
(***************************************************************************)
Progress ==
    \A c \in Callers :
       /\ pc[c] \in Validated => blk[c].Height \in 1..Len(data)
       /\ pc[c] \in {"vm", "putHeader"} => Verify(blk[c])

LEMMA ProgressStep == TypeOK /\ Progress /\ [Next]_vars => Progress'
  <1> SUFFICES ASSUME TypeOK, Progress, [Next]_vars,
                      NEW e \in Callers
               PROVE  /\ pc'[e] \in Validated => blk'[e].Height \in 1..Len(data')
                      /\ pc'[e] \in {"vm", "putHeader"} => Verify(blk'[e])
    BY DEF Progress, Verify
  <1> DEFINE Goal == /\ pc'[e] \in Validated => blk'[e].Height \in 1..Len(data')
                     /\ pc'[e] \in {"vm", "putHeader"} => Verify(blk'[e])
  <1>a. Len(data) \in Nat \ {0} /\ blk[e] \in Block /\ blk[e].Height \in Nat
    BY DEF TypeOK, Block
  <1>b. Len(data') \in Nat /\ Len(data') >= Len(data)
    BY DataGrows
  <1>c. /\ pc[e] \in Validated => blk[e].Height \in 1..Len(data')
        /\ pc[e] \in {"vm", "putHeader"} => Verify(blk[e])
    BY <1>a, <1>b DEF Progress
  <1>d. pc \in [Callers -> Steps] /\ blk \in [Callers -> Block]
    BY DEF TypeOK
  <1> USE DEF Goto, Return, Panic, stores, Validated
  <1>1. ASSUME NEW c \in Callers, NEW b \in Blocks, AddBlock(c, b) PROVE Goal
    BY <1>1, <1>c, <1>d DEF AddBlock
  <1>2. ASSUME NEW c \in Callers, ValidateNew(c) PROVE Goal
    BY <1>2, <1>c, <1>d DEF ValidateNew
  <1>3. ASSUME NEW c \in Callers, ValidateHeight(c) PROVE Goal
    BY <1>3, <1>a, <1>c, <1>d DEF ValidateHeight, Height
  <1>4. ASSUME NEW c \in Callers, ValidatePrevious(c) PROVE Goal
    BY <1>4, <1>a, <1>c, <1>d
       DEF ValidatePrevious, Verified, HeaderFound, Height
  <1>5. ASSUME NEW c \in Callers, Exec(c) PROVE Goal
    BY <1>5, <1>c, <1>d DEF Exec, Advance, VmError
  <1>6. ASSUME NEW c \in Callers, NextTransaction(c) PROVE Goal
    BY <1>6, <1>c DEF NextTransaction
  <1>7. ASSUME NEW c \in Callers, CheckHeader(c) PROVE Goal
    BY <1>7, <1>c, <1>d DEF CheckHeader
  <1>8. ASSUME NEW c \in Callers, PutHeader(c) PROVE Goal
    BY <1>8, <1>c, <1>d DEF PutHeader
  <1>9. ASSUME NEW c \in Callers, PutBlock(c) PROVE Goal
    BY <1>9, <1>c, <1>d DEF PutBlock
  <1>10. ASSUME NEW c \in Callers, PutTransaction(c) PROVE Goal
    BY <1>10, <1>c, <1>d DEF PutTransaction
  <1>11. ASSUME NEW c \in Callers, NEW d \in Callers, ConcurrentMapAccess(c, d) PROVE Goal
    BY <1>11, <1>c DEF ConcurrentMapAccess
  <1>12. CASE UNCHANGED vars
    BY <1>12, <1>c DEF vars
  <1> QED
    BY <1>1, <1>2, <1>3, <1>4, <1>5, <1>6, <1>7, <1>8, <1>9, <1>10, <1>11, <1>12
    DEF Next, Step, Crashed

LEMMA ProgressInit == Init => Progress
  BY DEF Init, Progress, Validated

LEMMA VerifiedStep ==
    TypeOK /\ Progress /\ OnChainVerified /\ [Next]_vars => OnChainVerified'
  <1> SUFFICES ASSUME TypeOK, Progress, OnChainVerified, [Next]_vars
               PROVE  OnChainVerified'
    OBVIOUS
  <1>1. CASE UNCHANGED <<data, idx>>
    BY <1>1 DEF OnChainVerified, Verify
  <1>2. ASSUME NEW c \in Callers, PutHeader(c) PROVE OnChainVerified'
    <2>1. Verify(blk[c])
      BY <1>2 DEF PutHeader, Progress
    <2>2. Len(data) \in Nat
      BY DEF TypeOK
    <2>3. ASSUME NEW p \in 2..(Len(data) + 1) PROVE Verify(data'[p])
      <3>1. CASE p = Len(data) + 1
        BY <3>1, <1>2, <2>1, PutHeaderAppends
      <3>2. CASE p \in 2..Len(data)
        <4>1. data'[p] = data[p]
          BY <3>2, <1>2, <2>2, PutHeaderAppends
        <4> QED BY <3>2, <4>1 DEF OnChainVerified
      <3> QED BY <3>1, <3>2, <2>2
    <2>4. Len(data') = Len(data) + 1
      BY <1>2, PutHeaderAppends
    <2> QED BY <2>3, <2>4 DEF OnChainVerified, Verify
  <1> QED BY <1>1, <1>2, HeaderChange

(* Every block above the genesis block was verified, although ValidateBlock
   lets a block pass unverified when GetHeader fails: however many goroutines
   add blocks, GetHeader never fails there, because the chain only grows. *)
THEOREM VerifiedOnChain == Spec => []OnChainVerified
  <1>1. Init => OnChainVerified
    BY DEF Init, OnChainVerified
  <1> QED BY <1>1, TypeInit, TypeStep, ProgressInit, ProgressStep, VerifiedStep, PTL
          DEF Spec

-----------------------------------------------------------------------------
LEMMA IndexStep == TypeOK /\ IndexAgrees /\ [Next]_vars => IndexAgrees'
  <1> SUFFICES ASSUME TypeOK, IndexAgrees, [Next]_vars PROVE IndexAgrees'
    OBVIOUS
  <1>1. CASE UNCHANGED <<data, idx>>
    BY <1>1 DEF IndexAgrees
  <1>2. ASSUME NEW c \in Callers, PutHeader(c) PROVE IndexAgrees'
    <2>0. Len(data) \in Nat /\ DOMAIN data = 1..Len(data)
      BY DEF TypeOK
    <2>1. /\ DOMAIN idx' = DOMAIN idx \union {blk[c].hash}
          /\ idx'[blk[c].hash] = Len(data)
          /\ \A h \in DOMAIN idx : h # blk[c].hash => idx'[h] = idx[h]
      BY <1>2 DEF PutHeader, NewIndex
    <2>2. \A h \in DOMAIN idx' : data'[idx'[h] + 1].hash = h
      <3> SUFFICES ASSUME NEW h \in DOMAIN idx' PROVE data'[idx'[h] + 1].hash = h
        OBVIOUS
      <3>1. CASE h = blk[c].hash
        BY <3>1, <1>2, <2>1, PutHeaderAppends
      <3>2. CASE h # blk[c].hash
        <4>1. idx[h] + 1 \in 1..Len(data) /\ data[idx[h] + 1].hash = h
          BY <3>2, <2>0, <2>1 DEF TypeOK, IndexAgrees
        <4> QED BY <3>2, <4>1, <1>2, <2>1, PutHeaderAppends
      <3> QED BY <3>1, <3>2
    <2>3. \A p \in DOMAIN data' : data'[p].hash \in DOMAIN idx'
      <3>1. DOMAIN data' = 1..(Len(data) + 1)
        BY <1>2, <2>0, TypeStep, PutHeaderAppends DEF TypeOK
      <3> QED BY <1>2, <2>0, <2>1, <3>1, PutHeaderAppends DEF IndexAgrees
    <2> QED BY <2>2, <2>3 DEF IndexAgrees
  <1> QED BY <1>1, <1>2, HeaderChange

(* GetBlockHash finds a header that has the hash, and every header is found,
   although headerStore.put looks and inserts in two critical sections. *)
THEOREM IndexCorrect == Spec => []IndexAgrees
  <1>1. Init => IndexAgrees
    BY DEF Init, IndexAgrees
  <1> QED BY <1>1, TypeInit, TypeStep, IndexStep, PTL DEF Spec

-----------------------------------------------------------------------------
(***************************************************************************)
(* A block that passed the height check is the next one, and one that      *)
(* passed the comparison points at the last header.  This stays true while *)
(* no other goroutine puts a header.                                       *)
(***************************************************************************)
NextOnChain ==
    \A c \in Callers :
       /\ pc[c] \in Validated => blk[c].Height = Len(data)
       /\ pc[c] \in {"vm", "putHeader"} =>
             blk[c].PreviousBlockHash = data[Len(data)].hash

LEMMA NextOnChainStep ==
    TypeOK /\ Exclusive /\ NextOnChain /\ [Next]_vars => NextOnChain'
  <1> SUFFICES ASSUME TypeOK, Exclusive, NextOnChain, [Next]_vars, NEW e \in Callers
               PROVE  /\ pc'[e] \in Validated => blk'[e].Height = Len(data')
                      /\ pc'[e] \in {"vm", "putHeader"} =>
                            blk'[e].PreviousBlockHash = data'[Len(data')].hash
    BY DEF NextOnChain
  <1> DEFINE Goal == /\ pc'[e] \in Validated => blk'[e].Height = Len(data')
                     /\ pc'[e] \in {"vm", "putHeader"} =>
                            blk'[e].PreviousBlockHash = data'[Len(data')].hash
  <1>a. Len(data) \in Nat \ {0} /\ blk[e] \in Block /\ blk[e].Height \in Nat
    BY DEF TypeOK, Block
  <1>c. /\ pc[e] \in Validated => blk[e].Height = Len(data)
        /\ pc[e] \in {"vm", "putHeader"} =>
              blk[e].PreviousBlockHash = data[Len(data)].hash
    BY DEF NextOnChain
  <1>d. pc \in [Callers -> Steps] /\ blk \in [Callers -> Block]
    BY DEF TypeOK
  <1> USE DEF Goto, Return, Panic, stores, Validated
  <1>1. ASSUME NEW c \in Callers, NEW b \in Blocks, AddBlock(c, b) PROVE Goal
    BY <1>1, <1>c, <1>d DEF AddBlock
  <1>2. ASSUME NEW c \in Callers, ValidateNew(c) PROVE Goal
    BY <1>2, <1>c, <1>d DEF ValidateNew
  <1>3. ASSUME NEW c \in Callers, ValidateHeight(c) PROVE Goal
    BY <1>3, <1>a, <1>c, <1>d DEF ValidateHeight, Height
  <1>4. ASSUME NEW c \in Callers, ValidatePrevious(c) PROVE Goal
    BY <1>4, <1>a, <1>c, <1>d DEF ValidatePrevious, Linked, HeaderFound, Height
  <1>5. ASSUME NEW c \in Callers, Exec(c) PROVE Goal
    BY <1>5, <1>c, <1>d DEF Exec, Advance, VmError
  <1>6. ASSUME NEW c \in Callers, NextTransaction(c) PROVE Goal
    BY <1>6, <1>c DEF NextTransaction
  <1>7. ASSUME NEW c \in Callers, CheckHeader(c) PROVE Goal
    BY <1>7, <1>c, <1>d DEF CheckHeader
  <1>8. ASSUME NEW c \in Callers, PutHeader(c) PROVE Goal
    BY <1>8, <1>d DEF PutHeader, Exclusive
  <1>9. ASSUME NEW c \in Callers, PutBlock(c) PROVE Goal
    BY <1>9, <1>c, <1>d DEF PutBlock
  <1>10. ASSUME NEW c \in Callers, PutTransaction(c) PROVE Goal
    BY <1>10, <1>c, <1>d DEF PutTransaction
  <1>11. ASSUME NEW c \in Callers, NEW d \in Callers, ConcurrentMapAccess(c, d)
         PROVE Goal
    BY <1>11, <1>c DEF ConcurrentMapAccess
  <1>12. CASE UNCHANGED vars
    BY <1>12, <1>c DEF vars
  <1> QED
    BY <1>1, <1>2, <1>3, <1>4, <1>5, <1>6, <1>7, <1>8, <1>9, <1>10, <1>11, <1>12
    DEF Next, Step, Crashed

LEMMA WellFormedStep ==
    TypeOK /\ NextOnChain /\ ChainWellFormed /\ [Next]_vars => ChainWellFormed'
  <1> SUFFICES ASSUME TypeOK, NextOnChain, ChainWellFormed, [Next]_vars
               PROVE  ChainWellFormed'
    OBVIOUS
  <1>1. CASE UNCHANGED <<data, idx>>
    BY <1>1 DEF ChainWellFormed
  <1>2. ASSUME NEW c \in Callers, PutHeader(c) PROVE ChainWellFormed'
    <2>1. /\ Len(data) \in Nat \ {0}
          /\ DOMAIN data = 1..Len(data)
      BY DEF TypeOK
    <2>2. DOMAIN data' = 1..(Len(data) + 1)
      BY <1>2, <2>1, TypeStep, PutHeaderAppends DEF TypeOK
    <2>3. /\ blk[c].Height = Len(data)
          /\ blk[c].PreviousBlockHash = data[Len(data)].hash
      BY <1>2 DEF PutHeader, NextOnChain, Validated
    <2>4. ASSUME NEW p \in 1..(Len(data) + 1)
          PROVE  /\ data'[p].Height = p - 1
                 /\ p > 1 => data'[p].PreviousBlockHash = data'[p - 1].hash
      <3>1. CASE p = Len(data) + 1
        BY <3>1, <1>2, <2>1, <2>3, PutHeaderAppends
      <3>2. CASE p \in 1..Len(data)
        <4>1. data'[p] = data[p] /\ (p > 1 => data'[p - 1] = data[p - 1])
          BY <3>2, <1>2, <2>1, PutHeaderAppends
        <4> QED BY <3>2, <4>1, <2>1 DEF ChainWellFormed
      <3> QED BY <3>1, <3>2, <2>1
    <2> QED BY <2>2, <2>4 DEF ChainWellFormed
  <1> QED BY <1>1, <1>2, HeaderChange

LEMMA WellFormedInit == Init => NextOnChain /\ ChainWellFormed
  BY GenesisAssumption DEF Init, NextOnChain, ChainWellFormed, Validated

(* The chain stays a chain whenever at most one goroutine at a time is between
   ValidateBlock's height check and headerStore.put.  AddBlock itself takes no
   lock that would ensure this; the condition is what it needs of its callers. *)
THEOREM ExclusiveChain == Spec /\ []Exclusive => []ChainWellFormed
  BY TypeInit, TypeStep, WellFormedInit, NextOnChainStep, WellFormedStep, PTL DEF Spec

(* On a server that does not validate, the rpc loop alone adds blocks, and its
   chain is well formed with no further condition. *)
THEOREM SingleCallerChain ==
    ASSUME \A c, d \in Callers : c = d
    PROVE  Spec => []ChainWellFormed
  <1>1. Exclusive
    BY DEF Exclusive
  <1> QED BY <1>1, ExclusiveChain, PTL

-----------------------------------------------------------------------------
(***************************************************************************)
(* Nothing leaves the stores.                                              *)
(***************************************************************************)
LEMMA StoresGrow == [Next]_vars => stored \subseteq stored' /\ txStore \subseteq txStore'
  BY DEF Next, Step, Crashed, vars, stores, AddBlock, ValidateNew, ValidateHeight,
     ValidatePrevious, Exec, NextTransaction, CheckHeader, PutHeader, PutBlock,
     PutTransaction, ConcurrentMapAccess

(***************************************************************************)
(* A goroutine that persists its block knows the position of its header,   *)
(* and has put the transactions below its loop index.                      *)
(***************************************************************************)
PutSoFar(c) ==
    \A i \in DOMAIN blk[c].Transactions :
       i < next[c] => blk[c].Transactions[i].Data \in txStore

Persisting ==
    \A c \in Callers :
       /\ pc[c] \in {"putBlock", "putTx"} => data[at[c]] = blk[c]
       /\ pc[c] = "putTx" => at[c] \in stored /\ PutSoFar(c)

LEMMA PersistingStep == TypeOK /\ Persisting /\ [Next]_vars => Persisting'
  <1> SUFFICES ASSUME TypeOK, Persisting, [Next]_vars, NEW e \in Callers
               PROVE  /\ pc'[e] \in {"putBlock", "putTx"} => data'[at'[e]] = blk'[e]
                      /\ pc'[e] = "putTx" => at'[e] \in stored' /\ PutSoFar(e)'
    BY DEF Persisting, PutSoFar
  <1> DEFINE Goal ==
        /\ pc'[e] \in {"putBlock", "putTx"} => data'[at'[e]] = blk'[e]
        /\ pc'[e] = "putTx" => at'[e] \in stored' /\ PutSoFar(e)'
  <1>a. /\ pc \in [Callers -> Steps] /\ blk \in [Callers -> Block]
        /\ next \in [Callers -> Nat \ {0}]
        /\ at \in [Callers -> 1..Len(data)]
    BY DEF TypeOK
  <1>b. data'[at[e]] = data[at[e]] /\ stored \subseteq stored' /\ txStore \subseteq txStore'
    BY <1>a, DataGrows, StoresGrow
  <1>c. /\ pc[e] \in {"putBlock", "putTx"} => data[at[e]] = blk[e]
        /\ pc[e] = "putTx" => at[e] \in stored /\ PutSoFar(e)
    BY DEF Persisting
  <1>e. ASSUME /\ at'[e] = at[e]
               /\ blk'[e] = blk[e]
               /\ next'[e] = next[e]
               /\ pc'[e] \in {"putBlock", "putTx"} => pc'[e] = pc[e]
        PROVE  Goal
    BY <1>b, <1>c, <1>e DEF PutSoFar
  <1> USE DEF Goto, Return, Panic, stores
  <1>1. ASSUME NEW c \in Callers, NEW b \in Blocks, AddBlock(c, b) PROVE Goal
    <2>1. CASE c = e
      BY <1>1, <2>1, <1>a DEF AddBlock
    <2>2. CASE c # e
      BY <1>1, <2>2, <1>a, <1>e DEF AddBlock
    <2> QED BY <2>1, <2>2
  <1>2. ASSUME NEW c \in Callers, ValidateNew(c) PROVE Goal
    BY <1>2, <1>a, <1>e DEF ValidateNew
  <1>3. ASSUME NEW c \in Callers, ValidateHeight(c) PROVE Goal
    BY <1>3, <1>a, <1>e DEF ValidateHeight
  <1>4. ASSUME NEW c \in Callers, ValidatePrevious(c) PROVE Goal
    BY <1>4, <1>a, <1>e DEF ValidatePrevious
  <1>5. ASSUME NEW c \in Callers, Exec(c) PROVE Goal
    BY <1>5, <1>a, <1>e DEF Exec, Advance, VmError
  <1>6. ASSUME NEW c \in Callers, NextTransaction(c) PROVE Goal
    <2>1. CASE c = e
      BY <1>6, <2>1, <1>a DEF NextTransaction, Running
    <2>2. CASE c # e
      BY <1>6, <2>2, <1>a, <1>e DEF NextTransaction
    <2> QED BY <2>1, <2>2
  <1>7. ASSUME NEW c \in Callers, CheckHeader(c) PROVE Goal
    BY <1>7, <1>a, <1>e DEF CheckHeader
  <1>8. ASSUME NEW c \in Callers, PutHeader(c) PROVE Goal
    <2>1. CASE c = e
      BY <1>8, <2>1, <1>a, PutHeaderAppends DEF PutHeader
    <2>2. CASE c # e
      BY <1>8, <2>2, <1>a, <1>e DEF PutHeader
    <2> QED BY <2>1, <2>2
  <1>9. ASSUME NEW c \in Callers, PutBlock(c) PROVE Goal
    <2>1. CASE c = e
      <3>1. /\ pc[e] = "putBlock" /\ blk'[e] = blk[e] /\ at'[e] = at[e]
            /\ next'[e] = 1 /\ at[e] \in stored'
        BY <1>9, <2>1, <1>a DEF PutBlock
      <3>2. PutSoFar(e)'
        <4>1. blk[e].Transactions \in Seq(Transaction)
          BY <1>a DEF Block
        <4> QED BY <3>1, <4>1 DEF PutSoFar
      <3> QED BY <3>1, <3>2, <1>b, <1>c
    <2>2. CASE c # e
      BY <1>9, <2>2, <1>a, <1>e DEF PutBlock
    <2> QED BY <2>1, <2>2
  <1>10. ASSUME NEW c \in Callers, PutTransaction(c) PROVE Goal
    <2>1. CASE c = e /\ TxLeft(c)
      <3>1. /\ pc[e] = "putTx" /\ blk'[e] = blk[e] /\ at'[e] = at[e]
            /\ next'[e] = next[e] + 1
            /\ blk[e].Transactions[next[e]].Data \in txStore'
        BY <1>10, <2>1, <1>a DEF PutTransaction, Tx
      <3>2. PutSoFar(e)'
        <4>1. blk[e].Transactions \in Seq(Transaction) /\ next[e] \in Nat
          BY <1>a DEF Block
        <4> QED BY <3>1, <4>1, <1>b, <1>c DEF PutSoFar
      <3> QED BY <3>1, <3>2, <1>b, <1>c
    <2>2. CASE c # e \/ ~TxLeft(c)
      BY <1>10, <2>2, <1>a, <1>e DEF PutTransaction
    <2> QED BY <2>1, <2>2
  <1>11. ASSUME NEW c \in Callers, NEW d \in Callers, ConcurrentMapAccess(c, d)
         PROVE Goal
    BY <1>11, <1>e DEF ConcurrentMapAccess
  <1>12. CASE UNCHANGED vars
    BY <1>12, <1>e DEF vars
  <1> QED
    BY <1>1, <1>2, <1>3, <1>4, <1>5, <1>6, <1>7, <1>8, <1>9, <1>10, <1>11, <1>12
    DEF Next, Step, Crashed

(***************************************************************************)
(* How a goroutine gets on while it persists: by its own step alone.       *)
(***************************************************************************)
LEMMA WhilePersisting ==
    ASSUME TypeOK, [Next]_vars, NEW e \in Callers
    PROVE  /\ pc[e] = "putBlock" => PutBlock(e) \/ (pc'[e] = "putBlock" /\ at'[e] = at[e])
           /\ pc[e] = "putTx" => \/ PutTransaction(e)
                                 \/ pc'[e] = "putTx" /\ at'[e] = at[e] /\ next'[e] = next[e]
           /\ ret'[e] = "ok" => \/ PutTransaction(e)
                                \/ ret[e] = "ok" /\ blk'[e] = blk[e]
  <1> DEFINE Goal ==
        /\ pc[e] = "putBlock" => PutBlock(e) \/ (pc'[e] = "putBlock" /\ at'[e] = at[e])
        /\ pc[e] = "putTx" => \/ PutTransaction(e)
                              \/ pc'[e] = "putTx" /\ at'[e] = at[e] /\ next'[e] = next[e]
        /\ ret'[e] = "ok" => \/ PutTransaction(e)
                             \/ ret[e] = "ok" /\ blk'[e] = blk[e]
  <1>a. /\ pc \in [Callers -> Steps] /\ ret \in [Callers -> Results]
        /\ next \in [Callers -> Nat \ {0}] /\ at \in [Callers -> 1..Len(data)]
        /\ blk \in [Callers -> Block]
    BY DEF TypeOK
  <1> USE DEF Goto, Return, Panic, stores
  <1>1. ASSUME NEW c \in Callers, NEW b \in Blocks, AddBlock(c, b) PROVE Goal
    BY <1>1, <1>a DEF AddBlock
  <1>2. ASSUME NEW c \in Callers, ValidateNew(c) PROVE Goal
    BY <1>2, <1>a DEF ValidateNew
  <1>3. ASSUME NEW c \in Callers, ValidateHeight(c) PROVE Goal
    BY <1>3, <1>a DEF ValidateHeight
  <1>4. ASSUME NEW c \in Callers, ValidatePrevious(c) PROVE Goal
    BY <1>4, <1>a DEF ValidatePrevious
  <1>5. ASSUME NEW c \in Callers, Exec(c) PROVE Goal
    <2>1. pc[c] = "vm"
      BY <1>5 DEF Exec, AtInstruction, Running
    <2> QED BY <1>5, <2>1, <1>a DEF Exec, Advance, VmError
  <1>6. ASSUME NEW c \in Callers, NextTransaction(c) PROVE Goal
    BY <1>6, <1>a DEF NextTransaction, Running
  <1>7. ASSUME NEW c \in Callers, CheckHeader(c) PROVE Goal
    BY <1>7, <1>a DEF CheckHeader
  <1>8. ASSUME NEW c \in Callers, PutHeader(c) PROVE Goal
    BY <1>8, <1>a DEF PutHeader
  <1>9. ASSUME NEW c \in Callers, PutBlock(c) PROVE Goal
    <2>1. CASE c = e
      BY <1>9, <2>1 DEF PutBlock
    <2>2. CASE c # e
      BY <1>9, <2>2, <1>a DEF PutBlock
    <2> QED BY <2>1, <2>2
  <1>10. ASSUME NEW c \in Callers, PutTransaction(c) PROVE Goal
    <2>1. CASE c = e
      BY <1>10, <2>1 DEF PutTransaction
    <2>2. CASE c # e
      BY <1>10, <2>2, <1>a DEF PutTransaction
    <2> QED BY <2>1, <2>2
  <1>11. ASSUME NEW c \in Callers, NEW d \in Callers, ConcurrentMapAccess(c, d)
         PROVE Goal
    BY <1>11 DEF ConcurrentMapAccess
  <1>12. CASE UNCHANGED vars
    BY <1>12 DEF vars
  <1> QED
    BY <1>1, <1>2, <1>3, <1>4, <1>5, <1>6, <1>7, <1>8, <1>9, <1>10, <1>11, <1>12
    DEF Next, Step, Crashed

LEMMA BlockReadableStep == TypeOK /\ BlockReadable /\ [Next]_vars => BlockReadable'
  <1> SUFFICES ASSUME TypeOK, BlockReadable, [Next]_vars, NEW p \in DOMAIN data'
               PROVE  \/ p \in stored'
                      \/ \E c \in Callers : pc'[c] = "putBlock" /\ at'[c] = p
    BY DEF BlockReadable
  <1>1. CASE p \in DOMAIN data
    <2>1. CASE p \in stored
      BY <2>1, StoresGrow
    <2>2. ASSUME NEW d \in Callers, pc[d] = "putBlock", at[d] = p
          PROVE  p \in stored' \/ (pc'[d] = "putBlock" /\ at'[d] = p)
      BY <2>2, WhilePersisting DEF PutBlock
    <2> QED BY <1>1, <2>1, <2>2 DEF BlockReadable
  <1>2. CASE p \notin DOMAIN data
    <2>1. PICK c \in Callers : PutHeader(c)
      BY <1>2, HeaderChange
    <2>2. p = Len(data) + 1
      <3>1. data \in Seq(Block) /\ data' \in Seq(Block)
        BY TypeStep DEF TypeOK
      <3> QED BY <1>2, <2>1, <3>1, PutHeaderAppends
    <2>3. pc'[c] = "putBlock" /\ at'[c] = Len(data) + 1
      BY <2>1 DEF PutHeader, Goto, TypeOK
    <2> QED BY <2>2, <2>3
  <1> QED BY <1>1, <1>2

(* Whatever Height() reports is readable with GetBlockAt, except a header whose
   own AddBlock has yet to call store.Put: the window in which the validator's
   rpc loop refuses a GetBlocksRequest. *)
THEOREM BlocksReadable == Spec => []BlockReadable
  <1>1. Init => BlockReadable
    BY DEF Init, BlockReadable
  <1> QED BY <1>1, TypeInit, TypeStep, BlockReadableStep, PTL DEF Spec

LEMMA TxReadableStep ==
    TypeOK /\ Persisting /\ TxReadable /\ [Next]_vars => TxReadable'
  <1> SUFFICES ASSUME TypeOK, Persisting, TxReadable, [Next]_vars,
                      NEW p \in stored', NEW i \in DOMAIN data'[p].Transactions
               PROVE  \/ data'[p].Transactions[i].Data \in txStore'
                      \/ \E c \in Callers : pc'[c] = "putTx" /\ at'[c] = p /\ next'[c] <= i
    BY DEF TxReadable
  <1>1. CASE p \in stored
    <2>1. data'[p] = data[p]
      BY <1>1, DataGrows DEF TypeOK
    <2>2. CASE data[p].Transactions[i].Data \in txStore
      BY <2>1, <2>2, StoresGrow
    <2>3. ASSUME NEW d \in Callers, pc[d] = "putTx", at[d] = p, next[d] <= i
          PROVE  \/ data[p].Transactions[i].Data \in txStore'
                 \/ pc'[d] = "putTx" /\ at'[d] = p /\ next'[d] <= i
      <3>1. CASE PutTransaction(d)
        <4>1. /\ data[p] = blk[d]
              /\ blk[d].Transactions \in Seq(Transaction)
              /\ next[d] \in Nat
          BY <2>3 DEF Persisting, TypeOK, Block
        <4>2. i \in 1..Len(blk[d].Transactions)
          BY <2>1, <4>1
        <4>3. TxLeft(d)
          BY <2>3, <4>1, <4>2 DEF TxLeft
        <4>4. /\ txStore' = txStore \union {blk[d].Transactions[next[d]].Data}
              /\ next'[d] = next[d] + 1
              /\ pc'[d] = "putTx"
              /\ at'[d] = p
          BY <2>3, <3>1, <4>3 DEF PutTransaction, Tx, TypeOK
        <4> QED BY <2>3, <4>1, <4>2, <4>4
      <3> QED BY <2>3, <3>1, WhilePersisting
    <2> QED BY <1>1, <2>1, <2>2, <2>3 DEF TxReadable
  <1>2. CASE p \notin stored
    <2>1. PICK c \in Callers : PutBlock(c)
      BY <1>2 DEF Next, Step, Crashed, vars, stores, AddBlock, ValidateNew,
         ValidateHeight, ValidatePrevious, Exec, NextTransaction, CheckHeader,
         PutHeader, PutTransaction, ConcurrentMapAccess
    <2>2. /\ pc'[c] = "putTx" /\ at'[c] = p /\ next'[c] = 1
          /\ data' = data /\ p \in 1..Len(data)
      BY <1>2, <2>1 DEF PutBlock, Goto, TypeOK
    <2>3. i \in Nat \ {0}
      <3>1. data[p] \in Block
        BY <2>2 DEF TypeOK
      <3>2. data[p].Transactions \in Seq(Transaction)
        BY <3>1 DEF Block
      <3> QED BY <2>2, <3>2
    <2> QED BY <2>2, <2>3
  <1> QED BY <1>1, <1>2

LEMMA PersistingInit == Init => Persisting
  BY DEF Init, Persisting

(* GetTransaction finds the transactions of every block GetBlockAt returns,
   except those the AddBlock that persists the block has yet to put. *)
THEOREM TransactionsReadable == Spec => []TxReadable
  <1>1. Init => TxReadable
    BY GenesisAssumption DEF Init, TxReadable
  <1> QED BY <1>1, TypeInit, TypeStep, PersistingInit, PersistingStep, TxReadableStep, PTL
          DEF Spec

LEMMA AddedStep ==
    TypeOK /\ Persisting /\ AddedIsReadable /\ [Next]_vars => AddedIsReadable'
  <1> SUFFICES ASSUME TypeOK, Persisting, AddedIsReadable, [Next]_vars,
                      NEW e \in Callers, ret'[e] = "ok"
               PROVE  /\ \E p \in stored' : data'[p] = blk'[e]
                      /\ \A i \in DOMAIN blk'[e].Transactions :
                            blk'[e].Transactions[i].Data \in txStore'
    BY DEF AddedIsReadable
  <1>1. CASE ret[e] = "ok" /\ blk'[e] = blk[e]
    <2>1. PICK p \in stored : data[p] = blk[e]
      BY <1>1 DEF AddedIsReadable
    <2>2. p \in stored' /\ data'[p] = blk'[e]
      BY <1>1, <2>1, DataGrows, StoresGrow DEF TypeOK
    <2>3. \A i \in DOMAIN blk'[e].Transactions :
             blk'[e].Transactions[i].Data \in txStore'
      BY <1>1, StoresGrow DEF AddedIsReadable
    <2> QED BY <2>2, <2>3
  <1>2. CASE PutTransaction(e) /\ ~(ret[e] = "ok" /\ blk'[e] = blk[e])
    <2>1. /\ pc[e] = "putTx" /\ ~TxLeft(e) /\ blk' = blk /\ data' = data
          /\ stored' = stored /\ txStore' = txStore
      BY <1>2 DEF PutTransaction
    <2>2. at[e] \in stored /\ data[at[e]] = blk[e] /\ PutSoFar(e)
      BY <2>1 DEF Persisting
    <2>3. \A i \in DOMAIN blk[e].Transactions : i < next[e]
      <3>1. blk[e].Transactions \in Seq(Transaction) /\ next[e] \in Nat
        BY DEF TypeOK, Block
      <3> QED BY <2>1, <3>1 DEF TxLeft
    <2> QED BY <2>1, <2>2, <2>3 DEF PutSoFar
  <1> QED BY <1>1, <1>2, WhilePersisting

(* AddBlock keeps its promise: once it has returned nil the block and all its
   transactions can be read. *)
THEOREM AddedReadable == Spec => []AddedIsReadable
  <1>1. Init => AddedIsReadable
    BY DEF Init, AddedIsReadable
  <1> QED BY <1>1, TypeInit, TypeStep, PersistingInit, PersistingStep, AddedStep, PTL
          DEF Spec

-----------------------------------------------------------------------------
(***************************************************************************)
(* What the virtual machine has done of a block that is on its way.        *)
(***************************************************************************)
RunSoFar(c) ==
    \A i \in DOMAIN blk[c].Transactions :
       \A k \in DOMAIN blk[c].Transactions[i].Data :
          i < next[c] \/ (i = next[c] /\ k < ip[c]) =>
             Applied(blk[c].Transactions[i].Data[k])

RunAll(c) ==
    \A i \in DOMAIN blk[c].Transactions :
       \A k \in DOMAIN blk[c].Transactions[i].Data :
          Applied(blk[c].Transactions[i].Data[k])

Ran ==
    \A c \in Callers :
       /\ pc[c] \in {"hasBlock", "checkHeight", "checkPrevious"} =>
             next[c] = 1 /\ ip[c] = 1
       /\ pc[c] = "vm" => RunSoFar(c)
       /\ pc[c] = "putHeader" => RunAll(c)

LEMMA StateGrows == [Next]_vars => contractState \subseteq contractState'
  BY DEF Next, Step, Crashed, vars, stores, AddBlock, ValidateNew, ValidateHeight,
     ValidatePrevious, Exec, NextTransaction, CheckHeader, PutHeader, PutBlock,
     PutTransaction, ConcurrentMapAccess

AppliedNext(inst) == inst.op = "store" => inst.key \in contractState'

LEMMA RanStep == TypeOK /\ Ran /\ [Next]_vars => Ran'
  <1> SUFFICES ASSUME TypeOK, Ran, [Next]_vars, NEW e \in Callers
               PROVE  /\ pc'[e] \in {"hasBlock", "checkHeight", "checkPrevious"} =>
                            next'[e] = 1 /\ ip'[e] = 1
                      /\ pc'[e] = "vm" => RunSoFar(e)'
                      /\ pc'[e] = "putHeader" => RunAll(e)'
    BY DEF Ran, RunSoFar, RunAll, Applied
  <1> DEFINE Goal == /\ pc'[e] \in {"hasBlock", "checkHeight", "checkPrevious"} =>
                            next'[e] = 1 /\ ip'[e] = 1
                     /\ pc'[e] = "vm" => RunSoFar(e)'
                     /\ pc'[e] = "putHeader" => RunAll(e)'
  <1>a. /\ pc \in [Callers -> Steps] /\ blk \in [Callers -> Block]
        /\ next \in [Callers -> Nat \ {0}] /\ ip \in [Callers -> Nat \ {0}]
    BY DEF TypeOK
  <1>b. contractState \subseteq contractState'
    BY StateGrows
  <1>c. /\ pc[e] \in {"hasBlock", "checkHeight", "checkPrevious"} =>
              next[e] = 1 /\ ip[e] = 1
        /\ pc[e] = "vm" => RunSoFar(e)
        /\ pc[e] = "putHeader" => RunAll(e)
    BY DEF Ran
  <1>d. /\ blk[e].Transactions \in Seq(Transaction)
        /\ \A i \in DOMAIN blk[e].Transactions :
              blk[e].Transactions[i].Data \in Seq(Instruction)
    <2>1. blk[e].Transactions \in Seq(Transaction)
      BY <1>a DEF Block
    <2>2. \A t \in Transaction : t.Data \in Seq(Instruction)
      BY DEF Transaction
    <2> QED BY <2>1, <2>2
  <1>e. ASSUME /\ blk'[e] = blk[e] /\ next'[e] = next[e] /\ ip'[e] = ip[e]
               /\ pc'[e] \in {"hasBlock", "checkHeight", "checkPrevious"} =>
                     pc[e] \in {"hasBlock", "checkHeight", "checkPrevious"}
               /\ pc'[e] = "vm" => pc[e] = "vm"
               /\ pc'[e] = "putHeader" => pc[e] = "putHeader"
        PROVE  Goal
    BY <1>b, <1>c, <1>e DEF RunSoFar, RunAll, Applied
  <1> USE DEF Goto, Return, Panic, stores
  <1>1. ASSUME NEW c \in Callers, NEW b \in Blocks, AddBlock(c, b) PROVE Goal
    <2>1. CASE c = e
      BY <1>1, <2>1, <1>a DEF AddBlock
    <2>2. CASE c # e
      BY <1>1, <2>2, <1>a, <1>e DEF AddBlock
    <2> QED BY <2>1, <2>2
  <1>2. ASSUME NEW c \in Callers, ValidateNew(c) PROVE Goal
    BY <1>2, <1>a, <1>e DEF ValidateNew
  <1>3. ASSUME NEW c \in Callers, ValidateHeight(c) PROVE Goal
    BY <1>3, <1>a, <1>e DEF ValidateHeight
  <1>4. ASSUME NEW c \in Callers, ValidatePrevious(c) PROVE Goal
    <2>1. CASE c = e
      <3>1. /\ next'[e] = 1 /\ ip'[e] = 1 /\ blk'[e] = blk[e]
            /\ pc'[e] \in {"idle", "vm"}
        BY <1>4, <2>1, <1>a, <1>c DEF ValidatePrevious
      <3>2. RunSoFar(e)'
        BY <3>1, <1>d DEF RunSoFar
      <3> QED BY <3>1, <3>2
    <2>2. CASE c # e
      BY <1>4, <2>2, <1>a, <1>e DEF ValidatePrevious
    <2> QED BY <2>1, <2>2
  <1>5. ASSUME NEW c \in Callers, Exec(c) PROVE Goal
    <2>1. CASE c = e
      <3>1. pc[e] = "vm" /\ blk'[e] = blk[e] /\ next'[e] = next[e] /\ RunSoFar(e)
        BY <1>5, <2>1, <1>c DEF Exec, AtInstruction, Running
      <3>2. \/ ip'[e] = ip[e]
            \/ ip'[e] = ip[e] + 1 /\ AppliedNext(Inst(e))
        BY <1>5, <2>1, <1>a DEF Exec, Advance, AppliedNext, Inst, Tx
      <3>3. RunSoFar(e)'
        <4>1. CASE ip'[e] = ip[e]
          BY <3>1, <4>1, <1>b DEF RunSoFar, Applied
        <4>2. CASE ip'[e] = ip[e] + 1 /\ AppliedNext(Inst(e))
          <5>1. ASSUME NEW i \in DOMAIN blk[e].Transactions,
                       NEW k \in DOMAIN blk[e].Transactions[i].Data,
                       i < next[e] \/ (i = next[e] /\ k < ip[e] + 1)
                PROVE  AppliedNext(blk[e].Transactions[i].Data[k])
            <6>1. CASE i = next[e] /\ k = ip[e]
              BY <4>2, <6>1, <3>1 DEF Inst, Tx, AppliedNext
            <6>2. CASE ~(i = next[e] /\ k = ip[e])
              <7>1. i \in Nat /\ k \in Nat /\ next[e] \in Nat /\ ip[e] \in Nat
                BY <1>a, <1>d
              <7>2. Applied(blk[e].Transactions[i].Data[k])
                BY <5>1, <6>2, <7>1, <3>1 DEF RunSoFar
              <7> QED BY <7>2, <3>1, <1>b DEF Applied, AppliedNext
            <6> QED BY <6>1, <6>2
          <5> QED BY <5>1, <3>1, <4>2 DEF RunSoFar, Applied, AppliedNext
        <4> QED BY <3>2, <4>1, <4>2
      <3>4. pc'[e] \in {"vm", "idle"}
        BY <1>5, <2>1, <1>a, <3>1 DEF Exec, Advance, VmError
      <3> QED BY <3>3, <3>4
    <2>2. CASE c # e
      BY <1>5, <2>2, <1>a, <1>e DEF Exec, Advance, VmError
    <2> QED BY <2>1, <2>2
  <1>6. ASSUME NEW c \in Callers, NextTransaction(c) PROVE Goal
    <2>1. CASE c = e
      <3>1. /\ pc'[e] = "vm" /\ blk'[e] = blk[e] /\ next'[e] = next[e] + 1
            /\ ip'[e] = 1 /\ contractState' = contractState
            /\ ip[e] > Len(blk[e].Transactions[next[e]].Data)
            /\ RunSoFar(e)
        BY <1>6, <2>1, <1>a, <1>c DEF NextTransaction, Running, Tx
      <3>2. ASSUME NEW i \in DOMAIN blk[e].Transactions,
                   NEW k \in DOMAIN blk[e].Transactions[i].Data,
                   i < next[e] + 1 \/ (i = next[e] + 1 /\ k < 1)
            PROVE  Applied(blk[e].Transactions[i].Data[k])
        <4>1. /\ i \in Nat /\ next[e] \in Nat /\ ip[e] \in Nat
              /\ k \in 1..Len(blk[e].Transactions[i].Data)
              /\ Len(blk[e].Transactions[i].Data) \in Nat
          BY <1>a, <1>d
        <4>2. i < next[e] \/ (i = next[e] /\ k < ip[e])
          BY <3>1, <3>2, <4>1
        <4> QED BY <3>1, <4>2 DEF RunSoFar
      <3>3. RunSoFar(e)'
        BY <3>1, <3>2 DEF RunSoFar, Applied
      <3> QED BY <3>1, <3>3
    <2>2. CASE c # e
      BY <1>6, <2>2, <1>a, <1>e DEF NextTransaction
    <2> QED BY <2>1, <2>2
  <1>7. ASSUME NEW c \in Callers, CheckHeader(c) PROVE Goal
    <2>1. CASE c = e
      <3>1. /\ pc'[e] \in {"idle", "putHeader"} /\ blk'[e] = blk[e]
            /\ contractState' = contractState
            /\ ~TxLeft(e) /\ RunSoFar(e)
        BY <1>7, <2>1, <1>a, <1>c DEF CheckHeader
      <3>2. \A i \in DOMAIN blk[e].Transactions : i < next[e]
        BY <3>1, <1>a, <1>d DEF TxLeft
      <3>3. RunAll(e)'
        BY <3>1, <3>2 DEF RunSoFar, RunAll, Applied
      <3> QED BY <3>1, <3>3
    <2>2. CASE c # e
      BY <1>7, <2>2, <1>a, <1>e DEF CheckHeader
    <2> QED BY <2>1, <2>2
  <1>8. ASSUME NEW c \in Callers, PutHeader(c) PROVE Goal
    BY <1>8, <1>a, <1>e DEF PutHeader
  <1>9. ASSUME NEW c \in Callers, PutBlock(c) PROVE Goal
    <2>1. CASE c = e
      BY <1>9, <2>1, <1>a DEF PutBlock
    <2>2. CASE c # e
      BY <1>9, <2>2, <1>a, <1>e DEF PutBlock
    <2> QED BY <2>1, <2>2
  <1>10. ASSUME NEW c \in Callers, PutTransaction(c) PROVE Goal
    <2>1. CASE c = e
      BY <1>10, <2>1, <1>a DEF PutTransaction
    <2>2. CASE c # e
      BY <1>10, <2>2, <1>a, <1>e DEF PutTransaction
    <2> QED BY <2>1, <2>2
  <1>11. ASSUME NEW c \in Callers, NEW d \in Callers, ConcurrentMapAccess(c, d)
         PROVE Goal
    BY <1>11, <1>e DEF ConcurrentMapAccess
  <1>12. CASE UNCHANGED vars
    BY <1>12, <1>e DEF vars
  <1> QED
    BY <1>1, <1>2, <1>3, <1>4, <1>5, <1>6, <1>7, <1>8, <1>9, <1>10, <1>11, <1>12
    DEF Next, Step, Crashed

LEMMA EffectsStep == TypeOK /\ Ran /\ EffectsApplied /\ [Next]_vars => EffectsApplied'
  <1> SUFFICES ASSUME TypeOK, Ran, EffectsApplied, [Next]_vars,
                      NEW p \in DOMAIN data', NEW i \in DOMAIN data'[p].Transactions,
                      NEW k \in DOMAIN data'[p].Transactions[i].Data
               PROVE  AppliedNext(data'[p].Transactions[i].Data[k])
    BY DEF EffectsApplied, Applied, AppliedNext
  <1>1. data \in Seq(Block) /\ data' \in Seq(Block)
    BY TypeStep DEF TypeOK
  <1>2. CASE p \in DOMAIN data
    <2>1. data'[p] = data[p]
      BY <1>1, <1>2, DataGrows
    <2>2. Applied(data[p].Transactions[i].Data[k])
      BY <1>2, <2>1 DEF EffectsApplied
    <2> QED BY <2>1, <2>2, StateGrows DEF Applied, AppliedNext
  <1>3. CASE p \notin DOMAIN data
    <2>1. PICK c \in Callers : PutHeader(c)
      BY <1>3, HeaderChange
    <2>2. p = Len(data) + 1
      BY <1>1, <1>3, <2>1, PutHeaderAppends
    <2>3. data'[p] = blk[c]
      BY <2>1, <2>2, PutHeaderAppends
    <2>4. RunAll(c) /\ contractState' = contractState
      BY <2>1 DEF PutHeader, Ran
    <2> QED BY <2>3, <2>4 DEF RunAll, Applied, AppliedNext
  <1> QED BY <1>2, <1>3

(* A block comes on the chain only after the virtual machine ran all its
   transactions to their end: whatever they store is in the contract state,
   even when another goroutine's transactions ran in between. *)
THEOREM EffectsOnChain == Spec => []EffectsApplied
  <1>1. Init => Ran
    BY DEF Init, Ran
  <1>2. Init => EffectsApplied
    BY GenesisAssumption DEF Init, EffectsApplied
  <1> QED BY <1>1, <1>2, TypeInit, TypeStep, RanStep, EffectsStep, PTL DEF Spec
=============================================================================
