------------------------------ MODULE MCServer ------------------------------
(***************************************************************************)
(* A server with two peers.  The program around it sends to one that is    *)
(* not connected, connects and subscribes to the first, as main.go does,   *)
(* and connects the second while messages and blocks are under way.        *)
(***************************************************************************)
EXTENDS Server

CONSTANTS p, q, k

MCProc == Cast \union {"rpc", "main"}

MCScript == <<Send(q), Connect(p), Send(p), Connect(q)>>
=============================================================================
