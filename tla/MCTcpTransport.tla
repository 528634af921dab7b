--------------------------- MODULE MCTcpTransport ---------------------------
(***************************************************************************)
(* Two processes; two goroutines connect a to b, perhaps both at once.     *)
(***************************************************************************)
EXTENDS TcpTransport

CONSTANTS a, b, c1, c2, g1, g2, m1, m2, m3

MCDialer == [g \in Caller |-> a]

(* m2 fills the buffer, m3 is too long for it. *)
MCSize == [m \in Message |-> CASE m = m1 -> 1 [] m = m2 -> 2 [] m = m3 -> 3]
=============================================================================
