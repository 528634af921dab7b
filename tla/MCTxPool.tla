------------------------------ MODULE MCTxPool ------------------------------
(***************************************************************************)
(* Small instances of TxPool: three hashes and a pool of two, so that the  *)
(* pool fills, the history rolls over and a hash comes again after it was  *)
(* mined.                                                                  *)
(***************************************************************************)
EXTENDS TxPool
=============================================================================
