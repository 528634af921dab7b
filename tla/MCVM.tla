-------------------------------- MODULE MCVM --------------------------------
(***************************************************************************)
(* Programs of one or two statements over keys of up to three bytes, and   *)
(* arbitrary bytes, alone and behind a statement.                          *)
(***************************************************************************)
EXTENDS VM

Keys == {<<>>, <<97>>, <<97, 98>>, <<97, 98, 97>>, <<11>>}

Addends == {<<2>>, <<5, 2>>}

Statements ==
    {[op |-> "set", key |-> k, ints |-> n] : k \in Keys, n \in Addends}
      \union {[op |-> "get", key |-> k, ints |-> <<>>] : k \in Keys}

(* Bytes no wallet would put together: every instruction, and operands. *)
Codes(n) ==
    {[op |-> "code", key |-> s, ints |-> <<>>] :
        s \in BoundedSeq(Instructions \union {0, 1}, n)}

(* A sum that is no int any more, and one that no slice is as long as, taken for
   the length of a key. *)
Sum(a, b) == <<a, InstructionPushInt, b, InstructionPushInt, InstructionAddInt>>

LongKey(a, b) ==
    [op |-> "code", key |-> Sum(a, b) \o <<InstructionPack>>, ints |-> <<>>]

MCSource ==
    {<<LongKey(200, 60)>>, <<LongKey(200, 150)>>} \union
    {<<s>> : s \in Statements}
      \union {<<s, t>> : s, t \in Statements}
      \union {<<c>> : c \in Codes(3)}
      \union {<<s, c>> : s \in {[op |-> "get", key |-> <<97>>, ints |-> <<>>],
                                [op |-> "set", key |-> <<97>>, ints |-> <<5, 2>>]},
                         c \in Codes(2)}
=============================================================================
