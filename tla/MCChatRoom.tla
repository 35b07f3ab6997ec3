----------------------------- MODULE MCChatRoom -----------------------------
(***************************************************************************)
(* The room with two clients: one says something once, the other listens   *)
(* on a terminal that may stop.                                            *)
(***************************************************************************)
EXTENDS ChatRoom

CONSTANTS c1, c2

MCClients == {c1, c2}
MCOne == [c \in Clients |-> IF c = c1 THEN 1 ELSE 0]
=============================================================================
