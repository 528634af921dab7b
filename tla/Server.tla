------------------------------- MODULE Server -------------------------------
(***************************************************************************)
(* The goroutines of one server: Start and receive of server/server.go,    *)
(* the rpc loop and the validator loop of server/server_internal.go, the   *)
(* handlers they run, handlePutTransaction of api/server.go, and the       *)
(* server's calls of its transport (LocalTransport).                       *)
(*                                                                         *)
(* Its peers send what they like and when they like, so a message is       *)
(* chosen when the rpc loop takes it.  The contents of the pool, the chain *)
(* and s.Peers are left to TxPool, Blockchain and BlockSync: where a       *)
(* handler depends on them, each outcome is possible here.  A handler is   *)
(* one step up to its first call that may block.                           *)
(***************************************************************************)
EXTENDS LocalTransport, Sequences

CONSTANTS
    Script,      \* what the program around the server calls, in this order
    Cast         \* bound: the broadcasts under way at one time

ASSUME ServerAssumption ==
    /\ Proc = Cast \union {"rpc", "main"} /\ {"rpc", "main"} \intersect Cast = {}
    /\ Script \in Seq({Broadcast} \union {Send(p) : p \in Peer}
                                  \union {Connect(p) : p \in Peer})

VARIABLES
    rpc,         \* where the rpc loop is
    val,         \* where the validator loop is; one without a key never starts
    start,       \* where Start is
    errs,        \* how many errors errChan holds; it has room for one
    done,        \* the context is cancelled
    main         \* how many calls of Script have begun

server == <<rpc, val, start, errs, done>>

vars == <<transport, server, main>>

-----------------------------------------------------------------------------
Init ==
    /\ InitTransport
    /\ rpc = "select"
    /\ val \in {"select", "ended"}
    /\ start = "loop"
    /\ errs = 0
    /\ done = FALSE
    /\ main = 0

(* A loop is back at its select when the handler's last call has returned. *)
Selecting == rpc = "select" /\ Idle("rpc")

Report == rpc' = "report" /\ UNCHANGED transport

Calls(c) ==
    /\ Begin("rpc", c)
    /\ UNCHANGED <<peers, readers, writer, full, gone, jammed, rpc>>

(* go func() { broadcast }() *)
Go ==
    /\ \E g \in Cast : Idle(g) /\ Begin(g, Broadcast)
    /\ UNCHANGED <<peers, readers, writer, full, gone, jammed>>

-----------------------------------------------------------------------------
(***************************************************************************)
(* The rpc loop takes a message from rpcChan, or a transaction from the    *)
(* API, and handles it.                                                    *)
(***************************************************************************)

(* ExtractMessageFromRPC fails, or the type is unknown to ProcessMessage. *)
HandleInvalid == Report

(* handleTransaction: refused by Verify or by the full pool, known already, or
   new, and then relayed. *)
HandleTransaction ==
    \/ Report
    \/ UNCHANGED <<transport, rpc>>
    \/ Go /\ UNCHANGED rpc

(* handlePutTransaction waits at the unbuffered apiTxCh until the loop takes its
   transaction. *)
HandlePutTransaction == HandleTransaction

(* handleBlock: the block is added and relayed, or refused; one too far ahead
   makes the loop itself broadcast a request. *)
HandleBlock ==
    \/ Go /\ UNCHANGED rpc
    \/ Report
    \/ Calls(Broadcast)

(* The subscribe handlers look the peer's pipe up, for which they need the
   transport's lock, and the one of the request answers: see GetPipe. *)
HandleSubscribe == rpc' = "get" /\ UNCHANGED transport

(* handleGetBlocksRequest: a requestor that has not subscribed, or a block whose
   header the validator loop has put and whose body it has not, is an error; a
   subscriber is a peer of the transport. *)
HandleGetBlocksRequest(p) ==
    \/ p \in peers /\ Calls(Send(p))
    \/ Report

(* handleGetBlocksResponse: all blocks are applied, or those before one that
   AddBlock refuses. *)
HandleGetBlocksResponse ==
    \/ UNCHANGED <<transport, rpc>>
    \/ Report

(* handleStatusMessageRequest answers all peers from the loop; the response is
   only logged. *)
HandleStatusMessage ==
    \/ Calls(Broadcast)
    \/ UNCHANGED <<transport, rpc>>

Handle ==
    /\ Selecting
    /\ \/ HandleInvalid
       \/ HandleTransaction \/ HandlePutTransaction
       \/ HandleBlock
       \/ HandleSubscribe
       \/ \E p \in Peer : HandleGetBlocksRequest(p)
       \/ HandleGetBlocksResponse
       \/ HandleStatusMessage
    /\ UNCHANGED <<val, start, errs, done, main>>

GetPipe ==
    /\ rpc = "get"
    /\ CanRLock
    /\ \E p \in Peer :
          \/ p \notin peers /\ Report
          \/ /\ p \in peers
             /\ rpc' = "select"
             /\ UNCHANGED call \/ Begin("rpc", Send(p))
             /\ UNCHANGED <<peers, readers, writer, full, gone, jammed>>
    /\ UNCHANGED <<val, start, errs, done, main>>

(* s.errChan <- err *)
ReportRpc ==
    /\ rpc = "report"
    /\ errs = 0
    /\ errs' = 1
    /\ rpc' = "select"
    /\ UNCHANGED <<transport, val, start, done, main>>

EndRpc ==
    /\ Selecting
    /\ done
    /\ rpc' = "ended"
    /\ UNCHANGED <<transport, val, start, errs, done, main>>

-----------------------------------------------------------------------------
(***************************************************************************)
(* The validator loop.  createNewBlock fails when a pending transaction    *)
(* does, or makes a block, which is broadcast.                             *)
(***************************************************************************)
CreateNewBlock ==
    /\ val = "select"
    /\ \/ val' = "report" /\ UNCHANGED transport
       \/ Go /\ UNCHANGED val
    /\ UNCHANGED <<rpc, start, errs, done, main>>

(* Mutant of ReportVal: errChan takes an error it has no room for. *)
ReportValOver ==
    /\ val = "report"
    /\ errs' = errs + 1
    /\ val' = "select"
    /\ UNCHANGED <<transport, rpc, start, done, main>>

ReportVal ==
    /\ val = "report"
    /\ errs = 0
    /\ errs' = 1
    /\ val' = "select"
    /\ UNCHANGED <<transport, rpc, start, done, main>>

(* Mutant of EndVal: the break leaves the select only. *)
EndValBreaksSelect ==
    /\ val = "select"
    /\ done
    /\ UNCHANGED vars

EndVal ==
    /\ val = "select"
    /\ done
    /\ val' = "ended"
    /\ UNCHANGED <<transport, rpc, start, errs, done, main>>

-----------------------------------------------------------------------------
(***************************************************************************)
(* Start reads errors until the context is done, then waits for both loops *)
(* and returns.  receive is left behind, with at most one message in hand. *)
(***************************************************************************)

(* Mutant of TakeError: the first error ends the error loop. *)
TakeErrorOnce ==
    /\ start = "loop"
    /\ errs = 1
    /\ errs' = 0
    /\ start' = "wait"
    /\ UNCHANGED <<transport, rpc, val, done, main>>

TakeError ==
    /\ start = "loop"
    /\ errs = 1
    /\ errs' = 0
    /\ UNCHANGED <<transport, rpc, val, start, done, main>>

EndErrorLoop ==
    /\ start = "loop"
    /\ done
    /\ start' = "wait"
    /\ UNCHANGED <<transport, rpc, val, errs, done, main>>

(* Mutant of LoopsEnded: the validator loop is not waited for. *)
RpcEnded == rpc = "ended"

LoopsEnded == rpc = "ended" /\ val = "ended"

Return ==
    /\ start = "wait"
    /\ LoopsEnded
    /\ start' = "returned"
    /\ UNCHANGED <<transport, rpc, val, errs, done, main>>

Cancel ==
    /\ ~done
    /\ done' = TRUE
    /\ UNCHANGED <<transport, rpc, val, start, errs, main>>

(* The program around the server: Connect, by it or by a peer that connects to
   it, Subscribe and the sending of transactions (sendRandomTransaction). *)
Main ==
    /\ Idle("main")
    /\ main < Len(Script)
    /\ Begin("main", Script[main + 1])
    /\ main' = main + 1
    /\ UNCHANGED <<peers, readers, writer, full, gone, jammed, server>>

CallServer(g) == CallStep(g) /\ UNCHANGED <<server, main>>

DrainPeer(p) == Drain(p) /\ UNCHANGED <<server, main>>

LeavePeer(p) == Leave(p) /\ UNCHANGED <<server, main>>

JamPeer(p) == Jam(p) /\ UNCHANGED <<server, main>>

Next ==
    \/ Handle \/ GetPipe \/ ReportRpc \/ EndRpc
    \/ CreateNewBlock \/ ReportVal \/ EndVal
    \/ TakeError \/ EndErrorLoop \/ Return \/ Cancel
    \/ Main
    \/ \E g \in Proc : CallServer(g)
    \/ \E p \in Peer : DrainPeer(p) \/ LeavePeer(p) \/ JamPeer(p)

Spec == Init /\ [][Next]_vars

(***************************************************************************)
(* Goroutines that can run do.  Go's select chooses among the cases that   *)
(* are ready at random, its channels serve blocked senders in turn, and    *)
(* its RWMutex lets neither readers nor writers starve: a case or a call   *)
(* that could go on again and again does in the end.  No message has to    *)
(* come, no block to be made, and nobody has to cancel the context.  The   *)
(* four steps of Shutdown happen once each at most, so that one condition  *)
(* makes each of them happen.                                              *)
(***************************************************************************)
GoOn == GetPipe \/ ReportRpc \/ CallServer("rpc")

Shutdown == EndRpc \/ EndVal \/ EndErrorLoop \/ Return

FairSpec ==
    /\ Spec
    /\ SF_vars(GoOn) /\ SF_vars(ReportVal) /\ WF_vars(TakeError)
    /\ SF_vars(Shutdown)
    /\ \A g \in Proc \ {"rpc"} : SF_vars(CallServer(g))
    /\ \A p \in Peer : WF_vars(DrainPeer(p))

-----------------------------------------------------------------------------
(***************************************************************************)
(* Properties.                                                             *)
(***************************************************************************)

(* Every variable has the type the Go declarations give it, and errChan
   holds at most one error. *)
TypeOK ==
    /\ TransportTypeOK
    /\ rpc \in {"select", "get", "report", "ended"}
    /\ val \in {"select", "report", "ended"}
    /\ start \in {"loop", "wait", "returned"}
    /\ errs \in 0 .. 1
    /\ done \in BOOLEAN
    /\ main \in 0 .. Len(Script)

(* A call that hangs does so for good: neither a peer nor a cancelled context
   gets a goroutine out of the transport. *)
HungForGood == [][\A g \in Proc : Hung(g) => Hung(g)']_vars

(* Every call of the transport returns, unless it hangs in one of the three ways
   Hung describes: there are no others.  One of them is not of this transport's
   making: a Connect ends with the peer's, and that with this one again. *)
CallsReturn == \A g \in Proc : []<>(Idle(g) \/ Hung(g))

(* The rpc loop waits for a lock or a channel for good. *)
RpcHung == Hung("rpc") \/ (rpc = "get" /\ LockStuck)

(* At the shutdown Start has left its error loop, errChan is full, and a loop
   has an error to report. *)
ErrHung ==
    /\ done /\ start = "wait"
    /\ errs = 1
    /\ rpc = "report" \/ val = "report"

(* After the context is cancelled Start returns, as the network test waits for,
   unless the rpc loop hangs in the transport or an error finds errChan full. *)
StartReturns == []<>(done => start = "returned" \/ RpcHung \/ ErrHung)

(* Once Start has returned the server is at rest, for the network test compares
   the chains then: no handler runs, no block is made, no broadcast begins. *)
QuietAfterReturn ==
    [][start = "returned" =>
          UNCHANGED server /\ \A g \in Cast : Idle(g) => Idle(g)']_vars

(* "the rpc receiver can block the ticker" no more: whatever the rpc loop waits
   for, until the shutdown the validator loop comes back for its next tick. *)
BlockTimeReliable == []<>(val # "report" \/ done)

(* The rpc loop comes back from every handler, to take the next message or the
   transaction of an API request that waits, unless it hangs. *)
RpcLoopComesBack == []<>(Selecting \/ RpcHung \/ ErrHung \/ rpc = "ended")
=============================================================================
