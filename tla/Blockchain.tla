----------------------------- MODULE Blockchain -----------------------------
(***************************************************************************)
(* The chain of one node: core/blockchain.go with core/validator.go,       *)
(* core/storage.go and what Block.Verify and the virtual machine decide.   *)
(*                                                                         *)
(* Blockchain.AddBlock takes no lock of its own.  Each of its reads of     *)
(* the header store, each transaction it runs and each store it updates    *)
(* is therefore a step of the calling goroutine, and the goroutines        *)
(* (Callers) interleave between these steps.  On a validating server they  *)
(* are the rpc loop and the validator loop, elsewhere only the rpc loop.   *)
(***************************************************************************)
EXTENDS Integers, Sequences

CONSTANTS
    Callers,   \* the goroutines that call AddBlock
    Hash,      \* header hashes; sha256 is taken to be free of collisions
    Key,       \* keys of the contract state
    Blocks,    \* the blocks AddBlock is called with
    Genesis    \* the block NewBlockchain is given

(***************************************************************************)
(* A transaction's byte code is abstracted to the instructions that touch  *)
(* the contract state ("store", "get"), that return an error ("fail": a    *)
(* pop of an empty stack, a push on a full one) or that panic ("panic": a  *)
(* failed type assertion, or an index out of range, which a program        *)
(* without a single byte meets at once). Its hash covers Data alone, so    *)
(* Data stands for the hash; hasher tells whether the hash is cached or a  *)
(* hasher is set, which is not the case for a transaction gob decoded. A   *)
(* block's DataHash is a hash of a list of transactions and is represented *)
(* by the list it was computed from; hash stands for the hash of the       *)
(* header. Signature tells whether the signature is present and verifies.  *)
(***************************************************************************)
Instruction == [op : {"store", "get", "fail", "panic"}, key : Key]

Transaction == [Data : Seq(Instruction), Signature : BOOLEAN, hasher : BOOLEAN]

Block == [hash : Hash, Height : Nat, PreviousBlockHash : Hash,
          Transactions : Seq(Transaction), DataHash : Seq(Transaction),
          Signature : BOOLEAN]

ASSUME BlocksAssumption == Blocks \subseteq Block /\ Genesis \in Block

ASSUME GenesisAssumption == Genesis.Height = 0 /\ Genesis.Transactions = <<>>

(* The hash covers the header, and with it the height. *)
ASSUME HashAssumption ==
    \A a, b \in Blocks \union {Genesis} : a.hash = b.hash => a.Height = b.Height

VARIABLES
    data,            \* headerStore.data, numbered from 1
    idx,             \* headerStore.idx: header hash to position, from 0
    stored,          \* positions in data whose header pointer is a key of bc.store
    txStore,         \* the transaction hashes that are keys of bc.txStore
    contractState,   \* the keys of bc.contractState
    pc,              \* where each goroutine is inside AddBlock
    blk,             \* the argument of the goroutine's call
    next,            \* its loop index over blk.Transactions
    ip,              \* the instruction pointer of its virtual machine
    at,              \* the position at which it appended its header
    ret,             \* what its last call returned
    crashed          \* a panic or a fatal error has ended the process

stores == <<data, idx, stored, txStore>>

vars == <<data, idx, stored, txStore, contractState, pc, blk, next, ip, at,
          ret, crashed>>

Steps == {"idle", "hasBlock", "checkHeight", "checkPrevious", "vm",
          "putHeader", "putBlock", "putTx"}

Results == {"none", "ok", "exists", "ErrOutOfSync", "badPrevious",
            "unverified", "vmFailed"}

-----------------------------------------------------------------------------
(***************************************************************************)
(* Reads of the header store, each under its own short read lock.          *)
(***************************************************************************)
Height == Len(data) - 1

HasBlockAtHeight(h) == h <= Height

(***************************************************************************)
(* Block.Verify: the block's signature, the signature of each of its       *)
(* transactions, and the data hash.                                        *)
(***************************************************************************)
Verify(b) ==
    /\ b.Signature
    /\ \A i \in DOMAIN b.Transactions : b.Transactions[i].Signature
    /\ b.DataHash = b.Transactions

-----------------------------------------------------------------------------
(***************************************************************************)
(* NewBlockchain: persistBlock of the genesis block, before any other      *)
(* goroutine holds the chain.                                              *)
(***************************************************************************)
Init ==
    /\ data = <<Genesis>>
    /\ idx = [h \in {Genesis.hash} |-> 0]
    /\ stored = {1}
    /\ txStore = {}
    /\ contractState = {}
    /\ pc = [c \in Callers |-> "idle"]
    /\ blk = [c \in Callers |-> Genesis]
    /\ next = [c \in Callers |-> 1]
    /\ ip = [c \in Callers |-> 1]
    /\ at = [c \in Callers |-> 1]
    /\ ret = [c \in Callers |-> "none"]
    /\ crashed = FALSE

Goto(c, step) == pc' = [pc EXCEPT ![c] = step]

Return(c, result) ==
    /\ Goto(c, "idle")
    /\ ret' = [ret EXCEPT ![c] = result]

(***************************************************************************)
(* A panic or a fatal error in one goroutine ends the process.             *)
(***************************************************************************)
Panic == crashed' = TRUE /\ UNCHANGED <<pc, ret>>

(***************************************************************************)
(* A call of AddBlock.                                                     *)
(***************************************************************************)
AddBlock(c, b) ==
    /\ pc[c] = "idle"
    /\ Goto(c, "hasBlock")
    /\ blk' = [blk EXCEPT ![c] = b]
    /\ next' = [next EXCEPT ![c] = 1]
    /\ ip' = [ip EXCEPT ![c] = 1]
    /\ ret' = [ret EXCEPT ![c] = "none"]
    /\ UNCHANGED <<stores, contractState, at, crashed>>

(***************************************************************************)
(* ValidateBlock reads the height a first time and refuses a height the    *)
(* chain already has.                                                      *)
(***************************************************************************)
ValidateNew(c) ==
    /\ pc[c] = "hasBlock"
    /\ \/ /\ HasBlockAtHeight(blk[c].Height)
          /\ Return(c, "exists")
       \/ /\ ~HasBlockAtHeight(blk[c].Height)
          /\ Goto(c, "checkHeight")
          /\ UNCHANGED ret
    /\ UNCHANGED <<stores, contractState, blk, next, ip, at, crashed>>

(***************************************************************************)
(* It reads the height a second time to see that the block is the next.    *)
(***************************************************************************)
ValidateHeight(c) ==
    /\ pc[c] = "checkHeight"
    /\ \/ /\ blk[c].Height # Height + 1
          /\ Return(c, "ErrOutOfSync")
       \/ /\ blk[c].Height = Height + 1
          /\ Goto(c, "checkPrevious")
          /\ UNCHANGED ret
    /\ UNCHANGED <<stores, contractState, blk, next, ip, at, crashed>>

(***************************************************************************)
(* It reads the header below the block and compares hashes, then verifies  *)
(* the block.  When GetHeader fails ValidateBlock returns nil: such a      *)
(* block goes on with neither check made.                                  *)
(***************************************************************************)
HeaderFound(b) == b.Height - 1 <= Height

(* Mutant of Linked: the comparison of the hashes is gone. *)
LinkedAlways(b) == TRUE

Linked(b) == HeaderFound(b) => data[b.Height].hash = b.PreviousBlockHash

(* Mutant of Verified: the result of Verify is dropped. *)
VerifiedAlways(b) == TRUE

Verified(b) == HeaderFound(b) => Verify(b)

ValidatePrevious(c) ==
    /\ pc[c] = "checkPrevious"
    /\ \/ /\ ~Linked(blk[c])
          /\ Return(c, "badPrevious")
       \/ /\ Linked(blk[c])
          /\ ~Verified(blk[c])
          /\ Return(c, "unverified")
       \/ /\ Linked(blk[c])
          /\ Verified(blk[c])
          /\ Goto(c, "vm")
          /\ UNCHANGED ret
    /\ UNCHANGED <<stores, contractState, blk, next, ip, at, crashed>>

(***************************************************************************)
(* The virtual machine runs the transactions of the block in turn, on the  *)
(* contract state that all goroutines share and that no lock protects.     *)
(***************************************************************************)
(* Mutant of TxLeft: the loops end one transaction early. *)
TxLeftOffByOne(c) == next[c] < Len(blk[c].Transactions)

TxLeft(c) == next[c] <= Len(blk[c].Transactions)

Running(c) == pc[c] = "vm" /\ TxLeft(c)

Tx(c) == blk[c].Transactions[next[c]]

AtInstruction(c) == Running(c) /\ ip[c] <= Len(Tx(c).Data)

Inst(c) == Tx(c).Data[ip[c]]

Advance(c) == ip' = [ip EXCEPT ![c] = @ + 1] /\ UNCHANGED <<pc, ret, crashed>>

(***************************************************************************)
(* AddBlock gives up, and nothing undoes what ran before.  The error text  *)
(* holds tx.Hash(), which calls through the nil hasher of a decoded        *)
(* transaction.                                                            *)
(***************************************************************************)
(* Mutant of VmError: the error is dropped and the block persisted. *)
VmErrorDropped(c) == Goto(c, "putHeader") /\ UNCHANGED <<ret, crashed>>

VmError(c) ==
    \/ Tx(c).hasher /\ Return(c, "vmFailed") /\ UNCHANGED crashed
    \/ ~Tx(c).hasher /\ Panic

Exec(c) ==
    /\ AtInstruction(c)
    /\ \/ /\ Inst(c).op = "store"
          /\ contractState' = contractState \union {Inst(c).key}
          /\ Advance(c)
       \/ /\ Inst(c).op = "get"
          /\ Inst(c).key \in contractState
          /\ Advance(c)
          /\ UNCHANGED contractState
       \/ /\ \/ Inst(c).op = "get" /\ Inst(c).key \notin contractState
             \/ Inst(c).op = "fail"
          /\ VmError(c)
          /\ UNCHANGED <<contractState, ip>>
       \/ /\ Inst(c).op = "panic"
          /\ Panic
          /\ UNCHANGED <<contractState, ip>>
    /\ UNCHANGED <<stores, blk, next, at>>

(***************************************************************************)
(* The program is at its end: the loop makes a new virtual machine for     *)
(* the next transaction.                                                   *)
(***************************************************************************)
(* Mutant of NextTransaction: the loop index is not advanced. *)
NextTransactionForgets(c) ==
    /\ Running(c)
    /\ ip[c] > Len(Tx(c).Data)
    /\ ip' = [ip EXCEPT ![c] = 1]
    /\ UNCHANGED <<stores, contractState, pc, blk, next, at, ret, crashed>>

NextTransaction(c) ==
    /\ Running(c)
    /\ ip[c] > Len(Tx(c).Data)
    /\ next' = [next EXCEPT ![c] = @ + 1]
    /\ ip' = [ip EXCEPT ![c] = 1]
    /\ UNCHANGED <<stores, contractState, pc, blk, at, ret, crashed>>

(***************************************************************************)
(* Two goroutines reach the contract state's map at once, one of them to   *)
(* write.  The Go runtime may detect this and then ends the process; when  *)
(* it does not, the accesses happen in some order (Exec).                  *)
(***************************************************************************)
ConcurrentMapAccess(c, d) ==
    /\ c # d
    /\ AtInstruction(c) /\ Inst(c).op = "store"
    /\ AtInstruction(d) /\ Inst(d).op \in {"store", "get"}
    /\ Panic
    /\ UNCHANGED <<stores, contractState, blk, next, ip, at>>

(***************************************************************************)
(* persistBlock, headerStore.put: the lookup under the read lock.          *)
(***************************************************************************)
CheckHeader(c) ==
    /\ pc[c] = "vm"
    /\ ~TxLeft(c)
    /\ \/ /\ blk[c].hash \in DOMAIN idx
          /\ Return(c, "exists")
       \/ /\ blk[c].hash \notin DOMAIN idx
          /\ Goto(c, "putHeader")
          /\ UNCHANGED ret
    /\ UNCHANGED <<stores, contractState, blk, next, ip, at, crashed>>

(***************************************************************************)
(* headerStore.put: append and index under the write lock.  From here on   *)
(* the new height is visible to every reader.                              *)
(***************************************************************************)
(* Mutants of NewIndex: the length before and after the append confused. *)
NewIndexAhead == Len(data) + 1

NewIndexBehind == Len(data) - 1

NewIndex == Len(data)

PutHeader(c) ==
    /\ pc[c] = "putHeader"
    /\ data' = Append(data, blk[c])
    /\ idx' = [h \in DOMAIN idx \union {blk[c].hash} |->
                  IF h = blk[c].hash THEN NewIndex ELSE idx[h]]
    /\ at' = [at EXCEPT ![c] = Len(data) + 1]
    /\ Goto(c, "putBlock")
    /\ UNCHANGED <<stored, txStore, contractState, blk, next, ip, ret, crashed>>

(***************************************************************************)
(* bc.store.Put, answered by the store's own goroutine.  It never fails.   *)
(***************************************************************************)
(* Mutant of PutBlock: stored under the newest header, not under its own. *)
PutBlockNewest(c) ==
    /\ pc[c] = "putBlock"
    /\ stored' = stored \union {Len(data)}
    /\ next' = [next EXCEPT ![c] = 1]
    /\ Goto(c, "putTx")
    /\ UNCHANGED <<data, idx, txStore, contractState, blk, ip, at, ret, crashed>>

PutBlock(c) ==
    /\ pc[c] = "putBlock"
    /\ stored' = stored \union {at[c]}
    /\ next' = [next EXCEPT ![c] = 1]
    /\ Goto(c, "putTx")
    /\ UNCHANGED <<data, idx, txStore, contractState, blk, ip, at, ret, crashed>>

(***************************************************************************)
(* One turn of the loop over the transactions, or the return after it.     *)
(***************************************************************************)
(* Mutant of PutTransaction: persistBlock returns after the first transaction. *)
PutTransactionFirst(c) ==
    /\ pc[c] = "putTx"
    /\ txStore' = IF TxLeft(c) THEN txStore \union {Tx(c).Data} ELSE txStore
    /\ Return(c, "ok")
    /\ UNCHANGED <<data, idx, stored, contractState, blk, next, ip, at, crashed>>

PutTransaction(c) ==
    /\ pc[c] = "putTx"
    /\ \/ /\ TxLeft(c)
          /\ txStore' = txStore \union {Tx(c).Data}
          /\ next' = [next EXCEPT ![c] = @ + 1]
          /\ UNCHANGED <<pc, ret>>
       \/ /\ ~TxLeft(c)
          /\ Return(c, "ok")
          /\ UNCHANGED <<txStore, next>>
    /\ UNCHANGED <<data, idx, stored, contractState, blk, ip, at, crashed>>

Step(c) ==
    \/ ValidateNew(c)
    \/ ValidateHeight(c)
    \/ ValidatePrevious(c)
    \/ Exec(c)
    \/ NextTransaction(c)
    \/ CheckHeader(c)
    \/ PutHeader(c)
    \/ PutBlock(c)
    \/ PutTransaction(c)

(* After a crash nothing happens. *)
Crashed == crashed /\ UNCHANGED vars

Next ==
    \/ /\ ~crashed
       /\ \E c \in Callers : \/ Step(c)
                             \/ \E b \in Blocks : AddBlock(c, b)
                             \/ \E d \in Callers : ConcurrentMapAccess(c, d)
    \/ Crashed

Spec == Init /\ [][Next]_vars

(***************************************************************************)
(* A goroutine inside AddBlock is scheduled until it returns; when and     *)
(* whether AddBlock is called is up to its callers.                        *)
(***************************************************************************)
FairSpec == Spec /\ \A c \in Callers : WF_vars(~crashed /\ Step(c))

-----------------------------------------------------------------------------
(***************************************************************************)
(* Properties.                                                             *)
(***************************************************************************)

(* Every variable has the type the Go declarations give it. *)
TypeOK ==
    /\ data \in Seq(Block) /\ data # <<>>
    /\ DOMAIN idx \subseteq Hash
    /\ \A h \in DOMAIN idx : idx[h] \in 0..(Len(data) - 1)
    /\ stored \subseteq 1..Len(data)
    /\ txStore \subseteq Seq(Instruction)
    /\ contractState \subseteq Key
    /\ pc \in [Callers -> Steps]
    /\ blk \in [Callers -> Block]
    /\ next \in [Callers -> Nat \ {0}]
    /\ ip \in [Callers -> Nat \ {0}]
    /\ at \in [Callers -> 1..Len(data)]
    /\ ret \in [Callers -> Results]
    /\ crashed \in BOOLEAN

(* The chain is a chain: the header at height h says it has height h and
   points at the header below it.  This is what GetHeader, GetBlockAt and
   createNewBlock rely on.  It holds while at most one goroutine at a time is
   between ValidateBlock's height check and headerStore.put. *)
ChainWellFormed ==
    \A p \in DOMAIN data :
       /\ data[p].Height = p - 1
       /\ p > 1 => data[p].PreviousBlockHash = data[p - 1].hash

(* Every block above the genesis block has passed Verify, in spite of the
   path on which ValidateBlock answers nil because GetHeader failed. *)
OnChainVerified == \A p \in 2..Len(data) : Verify(data[p])

(* GetBlockHash finds a block that has the hash it was asked for, and every
   header of the chain can be found by its hash. *)
IndexAgrees ==
    /\ \A h \in DOMAIN idx : data[idx[h] + 1].hash = h
    /\ \A p \in DOMAIN data : data[p].hash \in DOMAIN idx

(* GetBlockAt(h) succeeds for every h up to Height(), except for a header
   whose AddBlock is between headerStore.put and store.Put. *)
BlockReadable ==
    \A p \in DOMAIN data :
       p \in stored \/ \E c \in Callers : pc[c] = "putBlock" /\ at[c] = p

(* GetTransaction finds every transaction of a block that GetBlockAt returns,
   except for those the AddBlock that persists the block has yet to put. *)
TxReadable ==
    \A p \in stored : \A i \in DOMAIN data[p].Transactions :
       \/ data[p].Transactions[i].Data \in txStore
       \/ \E c \in Callers : pc[c] = "putTx" /\ at[c] = p /\ next[c] <= i

Applied(inst) == inst.op = "store" => inst.key \in contractState

(* A block is on the chain only after all its transactions ran to their end:
   everything they store is in the contract state. *)
EffectsApplied ==
    \A p \in DOMAIN data : \A i \in DOMAIN data[p].Transactions :
       \A k \in DOMAIN data[p].Transactions[i].Data :
          Applied(data[p].Transactions[i].Data[k])

(* The keys stored by the transactions of the chain. *)
ChainKeys ==
    {key \in Key : \E p \in DOMAIN data : \E i \in DOMAIN data[p].Transactions :
                      \E k \in DOMAIN data[p].Transactions[i].Data :
                         data[p].Transactions[i].Data[k] = [op |-> "store", key |-> key]}

(* Between calls the contract state is what the transactions of the chain
   make it, "a big state machine" that "each transaction" moves. *)
ContractStateIsReplay ==
    (\A c \in Callers : pc[c] = "idle") => contractState = ChainKeys

(* When AddBlock has returned nil, GetBlockAt and GetTransaction find the
   block and all its transactions, whatever other goroutines do. *)
AddedIsReadable ==
    \A c \in Callers : ret[c] = "ok" =>
       /\ \E p \in stored : data[p] = blk[c]
       /\ \A i \in DOMAIN blk[c].Transactions :
             blk[c].Transactions[i].Data \in txStore

(* AddBlock returns, unless the process ends. *)
CallReturns == \A c \in Callers : pc[c] # "idle" ~> pc[c] = "idle" \/ crashed

(* No two goroutines are between ValidateBlock's height check and the append
   of headerStore.put: what a lock around AddBlock would guarantee. *)
Validated == {"checkPrevious", "vm", "putHeader"}

Exclusive ==
    \A c, d \in Callers : pc[c] \in Validated /\ pc[d] \in Validated => c = d

-----------------------------------------------------------------------------
(***************************************************************************)
(* The refinement of Ledger.  A call takes effect when headerStore.put     *)
(* appends; the writes to the two stores after it belong to its return.    *)
(***************************************************************************)
Phase(c) ==
    CASE pc[c] = "idle" -> "none"
      [] pc[c] \in {"putBlock", "putTx"} -> "accepted"
      [] OTHER -> "open"

Answer(c) == IF ret[c] \in {"none", "ok"} THEN ret[c] ELSE "error"

Atomic == INSTANCE Ledger WITH
    chain <- data,
    state <- contractState,
    call <- [c \in Callers |-> [block |-> blk[c], phase |-> Phase(c)]],
    result <- [c \in Callers |-> Answer(c)]

(* To callers that do not overlap AddBlock is atomic: although it reads the
   height twice, the header once, runs the transactions and writes three stores,
   each call appends the one block the chain waits for or refuses and leaves the
   chain alone, and it refuses that block only for a transaction that may fail. *)
ImplementsLedger == Atomic!Spec
=============================================================================
