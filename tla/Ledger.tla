------------------------------- MODULE Ledger -------------------------------
(***************************************************************************)
(* What Blockchain.AddBlock of core/blockchain.go promises to callers that *)
(* do not overlap: each call decides at one instant.  The block that the   *)
(* chain waits for is appended once everything it stores is in the         *)
(* contract state; any other block is refused and the chain stays as it    *)
(* is.  A block that would extend the chain is refused only when one of    *)
(* its transactions may fail, and what these have stored by then remains.  *)
(* Blockchain!ImplementsLedger is the refinement.                          *)
(***************************************************************************)
EXTENDS Integers, Sequences

CONSTANTS
    Callers,   \* the goroutines that call AddBlock
    Blocks,    \* the blocks they call it with
    Genesis    \* the block at height 0

VARIABLES
    chain,     \* the blocks, the genesis block first
    state,     \* the keys of the contract state
    call,      \* each caller's call: its block, and how far it has come
    result     \* what each caller's last call returned

vars == <<chain, state, call, result>>

-----------------------------------------------------------------------------
Programs(b) == {b.Transactions[i].Data : i \in DOMAIN b.Transactions}

Instructions(b) == UNION {{p[k] : k \in DOMAIN p} : p \in Programs(b)}

Stores(b) == {inst.key : inst \in {i \in Instructions(b) : i.op = "store"}}

(* A lookup may miss, a push may overflow, a pop may find nothing. *)
MayFail(b) == \E inst \in Instructions(b) : inst.op \in {"get", "fail"}

Sound(b) ==
    /\ b.Signature
    /\ \A i \in DOMAIN b.Transactions : b.Transactions[i].Signature
    /\ b.DataHash = b.Transactions

Extends(b) ==
    /\ b.Height = Len(chain)
    /\ b.PreviousBlockHash = chain[Len(chain)].hash
    /\ Sound(b)

-----------------------------------------------------------------------------
Init ==
    /\ chain = <<Genesis>>
    /\ state = {}
    /\ call = [c \in Callers |-> [block |-> Genesis, phase |-> "none"]]
    /\ result = [c \in Callers |-> "none"]

Call(c, b) ==
    /\ call[c].phase = "none"
    /\ call' = [call EXCEPT ![c] = [block |-> b, phase |-> "open"]]
    /\ result' = [result EXCEPT ![c] = "none"]
    /\ UNCHANGED <<chain, state>>

Execute(c) ==
    /\ call[c].phase = "open"
    /\ Extends(call[c].block)
    /\ \E k \in Stores(call[c].block) : state' = state \union {k}
    /\ UNCHANGED <<chain, call, result>>

Accept(c) ==
    /\ call[c].phase = "open"
    /\ Extends(call[c].block)
    /\ Stores(call[c].block) \subseteq state
    /\ chain' = Append(chain, call[c].block)
    /\ call' = [call EXCEPT ![c].phase = "accepted"]
    /\ UNCHANGED <<state, result>>

Return(c, answer) ==
    /\ call' = [call EXCEPT ![c].phase = "none"]
    /\ result' = [result EXCEPT ![c] = answer]
    /\ UNCHANGED <<chain, state>>

ReturnNil(c) == call[c].phase = "accepted" /\ Return(c, "ok")

Refuse(c) ==
    /\ call[c].phase = "open"
    /\ Extends(call[c].block) => MayFail(call[c].block)
    /\ Return(c, "error")

Next ==
    \E c \in Callers : \/ \E b \in Blocks : Call(c, b)
                       \/ Execute(c)
                       \/ Accept(c)
                       \/ ReturnNil(c)
                       \/ Refuse(c)

Spec == Init /\ [][Next]_vars
=============================================================================
