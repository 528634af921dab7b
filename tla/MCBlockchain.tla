---------------------------- MODULE MCBlockchain ----------------------------
(***************************************************************************)
(* Small instances of Blockchain: two competing blocks of height 1, two    *)
(* of height 2, one of height 3, a block nobody signed, one whose data     *)
(* hash is wrong, one whose transaction fails after it stored a key, one   *)
(* whose decoded transaction fails and one whose transaction panics.       *)
(***************************************************************************)
EXTENDS Blockchain, TLC

Store(k) == [op |-> "store", key |-> k]

Get(k) == [op |-> "get", key |-> k]

Fail == [op |-> "fail", key |-> "x"]

(* A transaction that came through the pool, and one gob decoded. *)
Hashed(prog) == [Data |-> prog, Signature |-> TRUE, hasher |-> TRUE]

Decoded(prog) == [Data |-> prog, Signature |-> TRUE, hasher |-> FALSE]

Signed(h, height, prev, txns) ==
    [hash |-> h, Height |-> height, PreviousBlockHash |-> prev,
     Transactions |-> txns, DataHash |-> txns, Signature |-> TRUE]

MCHash == {"g", "a1", "b1", "a2", "b2", "a3", "u1", "d1", "f1", "f2", "p2",
           "zero"}

MCKey == {"x", "y", "z"}

MCGenesis == Signed("g", 0, "zero", <<>>)

A1 == Signed("a1", 1, "g", <<Hashed(<<Store("x")>>)>>)

B1 == Signed("b1", 1, "g", <<>>)

A2 == Signed("a2", 2, "a1", <<Decoded(<<Get("x"), Store("y")>>),
                              Decoded(<<Get("y")>>)>>)

B2 == Signed("b2", 2, "b1", <<Hashed(<<Store("y")>>)>>)

A3 == Signed("a3", 3, "a2", <<>>)

Unsigned == [Signed("u1", 1, "g", <<>>) EXCEPT !.Signature = FALSE]

WrongDataHash == [Signed("d1", 1, "g", <<Hashed(<<Store("x")>>)>>)
                     EXCEPT !.DataHash = <<>>]

Failing == Signed("f1", 1, "g", <<Hashed(<<Store("z"), Get("y"), Store("x")>>)>>)

FailingDecoded == Signed("f2", 2, "b1", <<Decoded(<<Fail>>)>>)

Panicking == Signed("p2", 2, "b1", <<Hashed(<<[Fail EXCEPT !.op = "panic"]>>)>>)

MCBlocks == {A1, B1, A2, B2, A3, Unsigned, WrongDataHash, Failing,
             FailingDecoded, Panicking}
=============================================================================
