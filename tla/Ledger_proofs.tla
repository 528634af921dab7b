---------------------------- MODULE Ledger_proofs ----------------------------
(***************************************************************************)
(* The refinement of Ledger by Blockchain: while at most one goroutine at  *)
(* a time is between ValidateBlock's height check and headerStore.put,     *)
(* every step of AddBlock is a step of the atomic ledger or leaves what    *)
(* the ledger shows as it is.                                              *)
(***************************************************************************)
EXTENDS Blockchain_proofs

(***************************************************************************)
(* Every block the node holds was given to it.                             *)
(***************************************************************************)
Given ==
    /\ \A p \in DOMAIN data : data[p] \in Blocks \union {Genesis}
    /\ \A c \in Callers : blk[c] \in Blocks \union {Genesis}

LEMMA BlkChange ==
    ASSUME TypeOK, [Next]_vars, NEW e \in Callers
    PROVE  blk'[e] = blk[e] \/ blk'[e] \in Blocks
  BY DEF TypeOK, Next, Step, Crashed, vars, stores, AddBlock, ValidateNew,
     ValidateHeight, ValidatePrevious, Exec, NextTransaction, CheckHeader,
     PutHeader, PutBlock, PutTransaction, ConcurrentMapAccess

LEMMA GivenStep == TypeOK /\ Given /\ [Next]_vars => Given'
  <1> SUFFICES ASSUME TypeOK, Given, [Next]_vars PROVE Given'
    OBVIOUS
  <1>1. \A c \in Callers : blk'[c] \in Blocks \union {Genesis}
    BY BlkChange DEF Given
  <1>2. CASE UNCHANGED <<data, idx>>
    BY <1>1, <1>2 DEF Given
  <1>3. ASSUME NEW c \in Callers, PutHeader(c) PROVE Given'
    <2>1. Len(data) \in Nat /\ DOMAIN data = 1..Len(data)
      BY DEF TypeOK
    <2>2. DOMAIN data' = 1..(Len(data) + 1)
      BY <1>3, <2>1, TypeStep, PutHeaderAppends DEF TypeOK
    <2>3. ASSUME NEW p \in 1..(Len(data) + 1) PROVE data'[p] \in Blocks \union {Genesis}
      <3>1. CASE p = Len(data) + 1
        BY <3>1, <1>3, PutHeaderAppends DEF Given
      <3>2. CASE p \in 1..Len(data)
        BY <3>2, <1>3, <2>1, PutHeaderAppends DEF Given
      <3> QED BY <3>1, <3>2, <2>1
    <2> QED BY <1>1, <2>2, <2>3 DEF Given
  <1> QED BY <1>2, <1>3, HeaderChange

LEMMA GivenInit == Init => Given
  BY DEF Init, Given

(***************************************************************************)
(* A block that passed ValidateBlock is not on the chain: the headers the  *)
(* index knows have smaller heights, and so other hashes.                  *)
(***************************************************************************)
LEMMA NotIndexed ==
    ASSUME TypeOK, NextOnChain, ChainWellFormed, IndexAgrees, Given,
           NEW c \in Callers, pc[c] = "vm"
    PROVE  blk[c].hash \notin DOMAIN idx
  <1> SUFFICES ASSUME blk[c].hash \in DOMAIN idx PROVE FALSE
    OBVIOUS
  <1>1. PICK p : p = idx[blk[c].hash] + 1
    OBVIOUS
  <1>2. Len(data) \in Nat /\ DOMAIN data = 1..Len(data)
    BY DEF TypeOK
  <1>3. p \in 1..Len(data) /\ data[p].hash = blk[c].hash
    BY <1>1, <1>2 DEF TypeOK, IndexAgrees
  <1>4. data[p].Height = p - 1
    BY <1>2, <1>3 DEF ChainWellFormed
  <1>5. blk[c].Height = Len(data)
    BY DEF NextOnChain, Validated
  <1>6. data[p].Height = blk[c].Height
    BY <1>2, <1>3, HashAssumption DEF Given
  <1> QED BY <1>2, <1>3, <1>4, <1>5, <1>6

(***************************************************************************)
(* What the ledger says of a block that passed ValidateBlock.              *)
(***************************************************************************)
LEMMA ExtendsChain ==
    ASSUME Progress, NextOnChain, NEW c \in Callers, pc[c] \in {"vm", "putHeader"}
    PROVE  Atomic!Extends(blk[c])
  BY DEF Progress, NextOnChain, Validated, Verify, Atomic!Extends, Atomic!Sound

LEMMA AtInst ==
    ASSUME TypeOK, NEW c \in Callers, AtInstruction(c)
    PROVE  Inst(c) \in Atomic!Instructions(blk[c])
  <1>1. blk[c].Transactions \in Seq(Transaction)
    BY DEF TypeOK, Block
  <1>2. next[c] \in DOMAIN blk[c].Transactions
    BY <1>1 DEF AtInstruction, Running, TxLeft, TypeOK
  <1>3. Tx(c).Data \in Seq(Instruction)
    BY TxType DEF AtInstruction, Running, Transaction
  <1>4. ip[c] \in DOMAIN Tx(c).Data
    BY <1>3 DEF AtInstruction, TypeOK
  <1>5. Tx(c).Data \in Atomic!Programs(blk[c])
    BY <1>2 DEF Atomic!Programs, Tx
  <1> QED BY <1>4, <1>5 DEF Atomic!Instructions, Inst

LEMMA StoresApplied ==
    ASSUME NEW c \in Callers, RunAll(c)
    PROVE  Atomic!Stores(blk[c]) \subseteq contractState
  <1> SUFFICES ASSUME NEW inst \in Atomic!Instructions(blk[c]), inst.op = "store"
               PROVE  inst.key \in contractState
    BY DEF Atomic!Stores
  <1>1. PICK p \in Atomic!Programs(blk[c]) : \E k \in DOMAIN p : inst = p[k]
    BY DEF Atomic!Instructions
  <1>2. PICK k \in DOMAIN p : inst = p[k]
    BY <1>1
  <1>3. PICK i \in DOMAIN blk[c].Transactions : p = blk[c].Transactions[i].Data
    BY DEF Atomic!Programs
  <1> QED BY <1>2, <1>3 DEF RunAll, Applied

-----------------------------------------------------------------------------
(***************************************************************************)
(* The ledger's variables under the refinement mapping.                    *)
(***************************************************************************)
LedgerCall == [c \in Callers |-> [block |-> blk[c], phase |-> Phase(c)]]

LedgerResult == [c \in Callers |-> Answer(c)]

LEMMA CallMoves ==
    ASSUME NEW c \in Callers, NEW x, blk' = blk, Phase(c)' = x,
           \A e \in Callers : e # c => Phase(e)' = Phase(e)
    PROVE  LedgerCall' = [LedgerCall EXCEPT ![c].phase = x]
  <1> DEFINE new == [LedgerCall EXCEPT ![c].phase = x]
  <1>1. \A e \in Callers : LedgerCall'[e] = [block |-> blk[e], phase |-> Phase(e)']
    BY DEF LedgerCall
  <1>2. \A e \in Callers : e # c => new[e] = LedgerCall'[e]
    BY <1>1 DEF LedgerCall
  <1>3. new[c] = [block |-> blk[c], phase |-> x]
    <2>1. LedgerCall[c] = [block |-> blk[c], phase |-> Phase(c)]
      BY DEF LedgerCall
    <2>2. new[c] = [LedgerCall[c] EXCEPT !.phase = x]
      BY DEF LedgerCall
    <2> QED BY <2>1, <2>2
  <1>4. new = [e \in Callers |-> new[e]] /\ LedgerCall' = [e \in Callers |-> LedgerCall'[e]]
    BY DEF LedgerCall
  <1> HIDE DEF new
  <1>5. \A e \in Callers : new[e] = LedgerCall'[e]
    BY <1>1, <1>2, <1>3
  <1>6. new = LedgerCall'
    BY <1>4, <1>5
  <1> QED BY <1>6 DEF new

LEMMA CallOpens ==
    ASSUME NEW c \in Callers, NEW b, blk \in [Callers -> Block],
           blk' = [blk EXCEPT ![c] = b], Phase(c)' = "open",
           \A e \in Callers : e # c => Phase(e)' = Phase(e)
    PROVE  LedgerCall' = [LedgerCall EXCEPT ![c] = [block |-> b, phase |-> "open"]]
  BY DEF LedgerCall

LEMMA ResultMoves ==
    ASSUME NEW c \in Callers, NEW x, Answer(c)' = x,
           \A e \in Callers : e # c => Answer(e)' = Answer(e)
    PROVE  LedgerResult' = [LedgerResult EXCEPT ![c] = x]
  BY DEF LedgerResult

LEMMA CallStays ==
    ASSUME blk' = blk, \A e \in Callers : Phase(e)' = Phase(e)
    PROVE  LedgerCall' = LedgerCall
  BY DEF LedgerCall

LEMMA ResultStays ==
    ASSUME \A e \in Callers : Answer(e)' = Answer(e)
    PROVE  LedgerResult' = LedgerResult
  BY DEF LedgerResult

-----------------------------------------------------------------------------
(***************************************************************************)
(* A goroutine's step leaves the phase and the answer of the others alone. *)
(***************************************************************************)
LEMMA OthersStay ==
    ASSUME TypeOK, NEW c \in Callers, NEW e \in Callers, e # c,
           NEW step, NEW answer,
           pc' = pc \/ pc' = [pc EXCEPT ![c] = step],
           ret' = ret \/ ret' = [ret EXCEPT ![c] = answer]
    PROVE  Phase(e)' = Phase(e) /\ Answer(e)' = Answer(e)
  <1>1. pc'[e] = pc[e] /\ ret'[e] = ret[e]
    BY DEF TypeOK
  <1> QED BY <1>1 DEF Phase, Answer

(***************************************************************************)
(* The steps the ledger does not see.                                      *)
(***************************************************************************)
LEMMA InsideStep ==
    ASSUME TypeOK, NEW c \in Callers, NEW step,
           data' = data, contractState' = contractState, blk' = blk, ret' = ret,
           pc' = pc \/ pc' = [pc EXCEPT ![c] = step],
           Phase(c)' = Phase(c)
    PROVE  UNCHANGED Atomic!vars
  <1>1. \A e \in Callers : Phase(e)' = Phase(e)
    <2> SUFFICES ASSUME NEW e \in Callers, e # c PROVE Phase(e)' = Phase(e)
      OBVIOUS
    <2>1. pc'[e] = pc[e]
      BY DEF TypeOK
    <2> QED BY <2>1 DEF Phase
  <1>2. \A e \in Callers : Answer(e)' = Answer(e)
    BY DEF Answer
  <1>3. LedgerCall' = LedgerCall /\ LedgerResult' = LedgerResult
    BY <1>1, <1>2, CallStays, ResultStays
  <1> QED BY <1>3 DEF LedgerCall, LedgerResult, Atomic!vars

(***************************************************************************)
(* A call begins.                                                          *)
(***************************************************************************)
LEMMA CallStep ==
    ASSUME TypeOK, NEW c \in Callers, NEW b \in Blocks, AddBlock(c, b)
    PROVE  Atomic!Call(c, b)
  <1>1. /\ pc[c] = "idle" /\ pc' = [pc EXCEPT ![c] = "hasBlock"]
        /\ ret' = [ret EXCEPT ![c] = "none"] /\ blk' = [blk EXCEPT ![c] = b]
        /\ data' = data /\ contractState' = contractState
    BY DEF AddBlock, Goto, stores
  <1>2. pc'[c] = "hasBlock" /\ ret'[c] = "none"
    BY <1>1 DEF TypeOK
  <1>3. Phase(c) = "none" /\ Phase(c)' = "open" /\ Answer(c)' = "none"
    BY <1>1, <1>2 DEF Phase, Answer
  <1>4. \A e \in Callers : e # c => Phase(e)' = Phase(e) /\ Answer(e)' = Answer(e)
    BY <1>1, OthersStay
  <1>5. LedgerCall' = [LedgerCall EXCEPT ![c] = [block |-> b, phase |-> "open"]]
    BY <1>1, <1>3, <1>4, CallOpens DEF TypeOK
  <1>6. LedgerResult' = [LedgerResult EXCEPT ![c] = "none"]
    BY <1>3, <1>4, ResultMoves
  <1>7. LedgerCall[c].phase = "none"
    BY <1>3 DEF LedgerCall
  <1> QED BY <1>1, <1>5, <1>6, <1>7 DEF Atomic!Call, LedgerCall, LedgerResult

(***************************************************************************)
(* A call is refused: by ValidateBlock, because the block does not extend  *)
(* the chain, or by the virtual machine.                                   *)
(***************************************************************************)
LEMMA RefuseStep ==
    ASSUME TypeOK, NEW c \in Callers,
           NEW answer \in Results \ {"none", "ok"},
           pc[c] \notin {"idle", "putBlock", "putTx"},
           Return(c, answer), data' = data, contractState' = contractState, blk' = blk,
           Atomic!Extends(blk[c]) => Atomic!MayFail(blk[c])
    PROVE  Atomic!Refuse(c)
  <1>1. pc' = [pc EXCEPT ![c] = "idle"] /\ ret' = [ret EXCEPT ![c] = answer]
    BY DEF Return, Goto
  <1>2. pc'[c] = "idle" /\ ret'[c] = answer
    BY <1>1 DEF TypeOK
  <1>3. Phase(c) = "open" /\ Phase(c)' = "none" /\ Answer(c)' = "error"
    BY <1>2 DEF Phase, Answer
  <1>4. \A e \in Callers : e # c => Phase(e)' = Phase(e) /\ Answer(e)' = Answer(e)
    BY <1>1, OthersStay
  <1>5. LedgerCall' = [LedgerCall EXCEPT ![c].phase = "none"]
    BY <1>3, <1>4, CallMoves
  <1>6. LedgerResult' = [LedgerResult EXCEPT ![c] = "error"]
    BY <1>3, <1>4, ResultMoves
  <1>7. LedgerCall[c].phase = "open" /\ LedgerCall[c].block = blk[c]
    BY <1>3 DEF LedgerCall
  <1> QED BY <1>5, <1>6, <1>7 DEF Atomic!Refuse, Atomic!Return, LedgerCall, LedgerResult

(***************************************************************************)
(* A block is appended.                                                    *)
(***************************************************************************)
LEMMA AcceptStep ==
    ASSUME TypeOK, Progress, NextOnChain, Ran, NEW c \in Callers, PutHeader(c)
    PROVE  Atomic!Accept(c)
  <1>1. /\ pc[c] = "putHeader" /\ pc' = [pc EXCEPT ![c] = "putBlock"]
        /\ ret' = ret /\ blk' = blk /\ contractState' = contractState
        /\ data' = Append(data, blk[c])
    BY DEF PutHeader, Goto
  <1>2. pc'[c] = "putBlock" /\ ret'[c] = ret[c]
    BY <1>1 DEF TypeOK
  <1>3. Phase(c) = "open" /\ Phase(c)' = "accepted" /\ Answer(c)' = Answer(c)
    BY <1>1, <1>2 DEF Phase, Answer
  <1>4. \A e \in Callers : e # c => Phase(e)' = Phase(e) /\ Answer(e)' = Answer(e)
    BY <1>1, OthersStay
  <1>5. LedgerCall' = [LedgerCall EXCEPT ![c].phase = "accepted"]
    BY <1>1, <1>3, <1>4, CallMoves
  <1>6. LedgerResult' = LedgerResult
    BY <1>3, <1>4, ResultStays
  <1>7. LedgerCall[c].phase = "open" /\ LedgerCall[c].block = blk[c]
    BY <1>3 DEF LedgerCall
  <1>8. Atomic!Extends(blk[c])
    BY <1>1, ExtendsChain
  <1>9. Atomic!Stores(blk[c]) \subseteq contractState
    BY <1>1, StoresApplied DEF Ran
  <1> QED BY <1>1, <1>5, <1>6, <1>7, <1>8, <1>9 DEF Atomic!Accept, LedgerCall, LedgerResult

(***************************************************************************)
(* persistBlock returns.                                                   *)
(***************************************************************************)
LEMMA ReturnStep ==
    ASSUME TypeOK, NEW c \in Callers, PutTransaction(c), ~TxLeft(c)
    PROVE  Atomic!ReturnNil(c)
  <1>1. /\ pc[c] = "putTx" /\ pc' = [pc EXCEPT ![c] = "idle"]
        /\ ret' = [ret EXCEPT ![c] = "ok"] /\ blk' = blk
        /\ data' = data /\ contractState' = contractState
    BY DEF PutTransaction, Return, Goto
  <1>2. pc'[c] = "idle" /\ ret'[c] = "ok"
    BY <1>1 DEF TypeOK
  <1>3. Phase(c) = "accepted" /\ Phase(c)' = "none" /\ Answer(c)' = "ok"
    BY <1>1, <1>2 DEF Phase, Answer
  <1>4. \A e \in Callers : e # c => Phase(e)' = Phase(e) /\ Answer(e)' = Answer(e)
    BY <1>1, OthersStay
  <1>5. LedgerCall' = [LedgerCall EXCEPT ![c].phase = "none"]
    BY <1>1, <1>3, <1>4, CallMoves
  <1>6. LedgerResult' = [LedgerResult EXCEPT ![c] = "ok"]
    BY <1>3, <1>4, ResultMoves
  <1>7. LedgerCall[c].phase = "accepted"
    BY <1>3 DEF LedgerCall
  <1> QED BY <1>1, <1>5, <1>6, <1>7
          DEF Atomic!ReturnNil, Atomic!Return, LedgerCall, LedgerResult

(***************************************************************************)
(* The virtual machine executes an instruction: it stores a key, or only   *)
(* moves on, or the call ends.                                             *)
(***************************************************************************)
LEMMA ExecStep ==
    ASSUME TypeOK, Progress, NextOnChain, NEW c \in Callers, Exec(c)
    PROVE  Atomic!Execute(c) \/ Atomic!Refuse(c) \/ UNCHANGED Atomic!vars
  <1>1. pc[c] = "vm" /\ data' = data /\ blk' = blk
    BY DEF Exec, AtInstruction, Running, stores
  <1>2. Atomic!Extends(blk[c])
    BY <1>1, ExtendsChain
  <1>3. Inst(c) \in Atomic!Instructions(blk[c])
    BY AtInst DEF Exec
  <1>4. CASE /\ Inst(c).op = "store" /\ pc' = pc /\ ret' = ret
             /\ contractState' = contractState \union {Inst(c).key}
    <2>1. \A e \in Callers : Phase(e)' = Phase(e) /\ Answer(e)' = Answer(e)
      BY <1>4 DEF Phase, Answer
    <2>2. LedgerCall' = LedgerCall /\ LedgerResult' = LedgerResult
      BY <1>1, <2>1, CallStays, ResultStays
    <2>3. LedgerCall[c].phase = "open" /\ LedgerCall[c].block = blk[c]
      BY <1>1 DEF LedgerCall, Phase
    <2>4. Inst(c).key \in Atomic!Stores(blk[c])
      BY <1>3, <1>4 DEF Atomic!Stores
    <2>5. Atomic!Execute(c)
      BY <1>1, <1>2, <1>4, <2>2, <2>3, <2>4 DEF Atomic!Execute, LedgerCall, LedgerResult
    <2> QED BY <2>5
  <1>5. CASE pc' = pc /\ ret' = ret /\ contractState' = contractState
    <2>1. Phase(c)' = Phase(c)
      BY <1>5 DEF Phase
    <2> QED BY <1>1, <1>5, <2>1, InsideStep
  <1>6. CASE /\ Inst(c).op \in {"get", "fail"}
             /\ Return(c, "vmFailed") /\ contractState' = contractState
    <2>1. Atomic!MayFail(blk[c])
      BY <1>3, <1>6 DEF Atomic!MayFail
    <2> QED BY <1>1, <1>6, <2>1, RefuseStep DEF Results
  <1> QED BY <1>4, <1>5, <1>6 DEF Exec, Advance, VmError, Panic

(***************************************************************************)
(* The steps of ValidateBlock, and headerStore.put's look at the index.    *)
(***************************************************************************)
LEMMA ValidateStep ==
    ASSUME TypeOK, NextOnChain, NEW c \in Callers,
           ValidateNew(c) \/ ValidateHeight(c) \/ ValidatePrevious(c)
    PROVE  Atomic!Refuse(c) \/ UNCHANGED Atomic!vars
  <1>1. data' = data /\ contractState' = contractState /\ blk' = blk
    BY DEF ValidateNew, ValidateHeight, ValidatePrevious, stores
  <1>2. Len(data) \in Nat /\ blk[c].Height \in Nat
    <2>1. data \in Seq(Block) /\ blk[c] \in Block
      BY DEF TypeOK
    <2> QED BY <2>1 DEF Block
  <1>3. pc[c] \in {"hasBlock", "checkHeight", "checkPrevious"}
    BY DEF ValidateNew, ValidateHeight, ValidatePrevious
  <1>4. ASSUME NEW answer \in Results \ {"none", "ok"}, Return(c, answer),
               ~Atomic!Extends(blk[c])
        PROVE  Atomic!Refuse(c)
    BY <1>1, <1>3, <1>4, RefuseStep
  <1>5. ASSUME NEW step \in {"checkHeight", "checkPrevious", "vm"}, Goto(c, step), ret' = ret
        PROVE  UNCHANGED Atomic!vars
    <2>1. pc' = [pc EXCEPT ![c] = step]
      BY <1>5 DEF Goto
    <2>2. pc'[c] = step
      BY <2>1 DEF TypeOK
    <2>3. Phase(c)' = Phase(c)
      BY <1>3, <2>2 DEF Phase
    <2> QED BY <1>1, <1>5, <2>1, <2>3, InsideStep
  <1>6. CASE ValidateNew(c)
    <2>1. HasBlockAtHeight(blk[c].Height) => ~Atomic!Extends(blk[c])
      BY <1>2 DEF HasBlockAtHeight, Height, Atomic!Extends
    <2> QED BY <1>6, <2>1, <1>4, <1>5 DEF ValidateNew, Results
  <1>7. CASE ValidateHeight(c)
    <2>1. blk[c].Height # Height + 1 => ~Atomic!Extends(blk[c])
      BY <1>2 DEF Height, Atomic!Extends
    <2> QED BY <1>7, <2>1, <1>4, <1>5 DEF ValidateHeight, Results
  <1>8. CASE ValidatePrevious(c)
    <2>1. blk[c].Height = Len(data)
      BY <1>8 DEF ValidatePrevious, NextOnChain, Validated
    <2>2. ~Linked(blk[c]) => ~Atomic!Extends(blk[c])
      BY <2>1 DEF Linked, Atomic!Extends
    <2>3. ~Verified(blk[c]) => ~Atomic!Extends(blk[c])
      BY DEF Verified, Verify, Atomic!Extends, Atomic!Sound
    <2> QED BY <1>8, <2>2, <2>3, <1>4, <1>5 DEF ValidatePrevious, Results
  <1> QED BY <1>6, <1>7, <1>8

LEMMA CheckHeaderStep ==
    ASSUME TypeOK, NextOnChain, ChainWellFormed, IndexAgrees, Given,
           NEW c \in Callers, CheckHeader(c)
    PROVE  UNCHANGED Atomic!vars
  <1>1. /\ pc[c] = "vm" /\ data' = data /\ contractState' = contractState
        /\ blk' = blk
    BY DEF CheckHeader, stores
  <1>2. pc' = [pc EXCEPT ![c] = "putHeader"] /\ ret' = ret
    BY <1>1, NotIndexed DEF CheckHeader, Goto
  <1>3. pc'[c] = "putHeader"
    BY <1>2 DEF TypeOK
  <1>4. Phase(c)' = Phase(c)
    BY <1>1, <1>3 DEF Phase
  <1> QED BY <1>1, <1>2, <1>4, InsideStep

LEMMA PersistStep ==
    ASSUME TypeOK, NEW c \in Callers,
           NextTransaction(c) \/ PutBlock(c) \/ (PutTransaction(c) /\ TxLeft(c))
    PROVE  UNCHANGED Atomic!vars
  <1>1. /\ data' = data /\ contractState' = contractState /\ blk' = blk /\ ret' = ret
        /\ pc' = pc \/ pc' = [pc EXCEPT ![c] = "putTx"]
    BY DEF NextTransaction, PutBlock, PutTransaction, Goto, stores
  <1>2. Phase(c)' = Phase(c)
    <2>1. CASE pc' = pc
      BY <2>1 DEF Phase
    <2>2. CASE pc[c] = "putBlock" /\ pc' = [pc EXCEPT ![c] = "putTx"]
      <3>1. pc'[c] = "putTx"
        BY <2>2 DEF TypeOK
      <3> QED BY <2>2, <3>1 DEF Phase
    <2> QED BY <2>1, <2>2 DEF NextTransaction, PutBlock, PutTransaction, Goto
  <1> QED BY <1>1, <1>2, InsideStep

(***************************************************************************)
(* Every step of Blockchain is a step of the ledger, or the ledger stays.  *)
(***************************************************************************)
RefinementInv ==
    /\ TypeOK /\ Progress /\ NextOnChain /\ ChainWellFormed
    /\ IndexAgrees /\ Ran /\ Given

LEMMA LedgerStep == RefinementInv /\ [Next]_vars => [Atomic!Next]_(Atomic!vars)
  <1> SUFFICES ASSUME RefinementInv, [Next]_vars
               PROVE  Atomic!Next \/ UNCHANGED Atomic!vars
    OBVIOUS
  <1> DEFINE Goal == Atomic!Next \/ UNCHANGED Atomic!vars
  <1>0. /\ TypeOK /\ Progress /\ NextOnChain /\ ChainWellFormed
        /\ IndexAgrees /\ Ran /\ Given
    BY DEF RefinementInv
  <1>1. ASSUME NEW c \in Callers, NEW b \in Blocks, AddBlock(c, b) PROVE Goal
    BY <1>0, <1>1, CallStep DEF Atomic!Next
  <1>2. ASSUME NEW c \in Callers,
               ValidateNew(c) \/ ValidateHeight(c) \/ ValidatePrevious(c)
        PROVE  Goal
    BY <1>0, <1>2, ValidateStep DEF Atomic!Next
  <1>3. ASSUME NEW c \in Callers, Exec(c) PROVE Goal
    BY <1>0, <1>3, ExecStep DEF Atomic!Next
  <1>4. ASSUME NEW c \in Callers, CheckHeader(c) PROVE Goal
    BY <1>0, <1>4, CheckHeaderStep
  <1>5. ASSUME NEW c \in Callers, PutHeader(c) PROVE Goal
    BY <1>0, <1>5, AcceptStep DEF Atomic!Next
  <1>6. ASSUME NEW c \in Callers,
               NextTransaction(c) \/ PutBlock(c) \/ (PutTransaction(c) /\ TxLeft(c))
        PROVE  Goal
    BY <1>0, <1>6, PersistStep
  <1>7. ASSUME NEW c \in Callers, PutTransaction(c), ~TxLeft(c) PROVE Goal
    BY <1>0, <1>7, ReturnStep DEF Atomic!Next
  <1>8. ASSUME NEW c \in Callers, NEW d \in Callers, ConcurrentMapAccess(c, d)
        PROVE Goal
    <2>1. /\ data' = data /\ contractState' = contractState /\ blk' = blk
          /\ ret' = ret /\ pc' = pc
      BY <1>8 DEF ConcurrentMapAccess, Panic, stores
    <2>2. Phase(c)' = Phase(c)
      BY <2>1 DEF Phase
    <2> QED BY <1>0, <2>1, <2>2, InsideStep
  <1>9. ASSUME UNCHANGED vars PROVE Goal
    <2>1. /\ data' = data /\ contractState' = contractState /\ blk' = blk
          /\ ret' = ret /\ pc' = pc
      BY <1>9 DEF vars
    <2>2. \A e \in Callers : Phase(e)' = Phase(e) /\ Answer(e)' = Answer(e)
      BY <2>1 DEF Phase, Answer
    <2>3. LedgerCall' = LedgerCall /\ LedgerResult' = LedgerResult
      BY <2>1, <2>2, CallStays, ResultStays
    <2> QED BY <2>1, <2>3 DEF LedgerCall, LedgerResult, Atomic!vars
  <1> HIDE DEF Goal
  <1>10. ASSUME NEW c \in Callers, Step(c) PROVE Goal
    <2>1. CASE ValidateNew(c) \/ ValidateHeight(c) \/ ValidatePrevious(c)
      BY <2>1, <1>2
    <2>2. CASE PutTransaction(c)
      <3>1. CASE TxLeft(c)
        BY <2>2, <3>1, <1>6
      <3>2. CASE ~TxLeft(c)
        BY <2>2, <3>2, <1>7
      <3> QED BY <3>1, <3>2
    <2>3. CASE NextTransaction(c)
      BY <2>3, <1>6
    <2>4. CASE PutBlock(c)
      BY <2>4, <1>6
    <2>5. CASE Exec(c) \/ CheckHeader(c) \/ PutHeader(c)
      BY <2>5, <1>3, <1>4, <1>5
    <2> QED BY <1>10, <2>1, <2>2, <2>3, <2>4, <2>5 DEF Step
  <1>11. ASSUME Next PROVE Goal
    BY <1>11, <1>1, <1>8, <1>9, <1>10 DEF Next, Crashed
  <1>12. Goal
    BY <1>9, <1>11
  <1> QED BY <1>12 DEF Goal

LEMMA LedgerInit == Init => Atomic!Init
  <1> SUFFICES ASSUME Init PROVE Atomic!Init
    OBVIOUS
  <1>1. \A c \in Callers : Phase(c) = "none" /\ Answer(c) = "none" /\ blk[c] = Genesis
    BY DEF Init, Phase, Answer
  <1> QED BY <1>1 DEF Init, Atomic!Init

(* AddBlock is atomic to callers that do not overlap between ValidateBlock's
   height check and headerStore.put: although it reads the height twice and the
   header once, runs the transactions and writes three stores, each call appends
   the block the chain waits for or refuses and leaves the chain alone, and it
   refuses that block only for a transaction that may fail. *)
THEOREM ExclusiveImplementsLedger == Spec /\ []Exclusive => ImplementsLedger
  <1>1. Init => RefinementInv
    <2>1. Init => IndexAgrees /\ Ran
      BY DEF Init, IndexAgrees, Ran
    <2> QED BY <2>1, TypeInit, ProgressInit, WellFormedInit, GivenInit DEF RefinementInv
  <1>2. RefinementInv /\ Exclusive /\ [Next]_vars => RefinementInv'
    BY TypeStep, ProgressStep, NextOnChainStep, WellFormedStep, IndexStep, RanStep,
       GivenStep DEF RefinementInv
  <1> QED BY <1>1, <1>2, LedgerStep, LedgerInit, PTL
          DEF Spec, ImplementsLedger, Atomic!Spec

(* On a server that does not validate, the rpc loop alone adds blocks, and to it
   AddBlock is atomic with no further condition. *)
THEOREM SingleCallerImplementsLedger ==
    ASSUME \A c, d \in Callers : c = d
    PROVE  Spec => ImplementsLedger
  <1>1. Exclusive
    BY DEF Exclusive
  <1> QED BY <1>1, ExclusiveImplementsLedger, PTL
=============================================================================
