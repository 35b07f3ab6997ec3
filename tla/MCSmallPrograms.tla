-------------------------- MODULE MCSmallPrograms --------------------------
(* Two readers or users; texts of up to two chunks; an urgent piece that   *)
(* follows ordinary bytes, and one that ends a longer piece.               *)
EXTENDS SmallPrograms

CONSTANTS r1, r2, host

MCClients == {r1, r2}
MCScript == <<[bytes |-> 1, oob |-> FALSE], [bytes |-> 1, oob |-> TRUE],
              [bytes |-> 1, oob |-> FALSE], [bytes |-> 2, oob |-> TRUE]>>
=============================================================================
