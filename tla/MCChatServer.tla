---------------------------- MODULE MCChatServer ----------------------------
(***************************************************************************)
(* ChatServer on small instances: three clients, so that one can take over *)
(* the descriptor number another one gave back, of which two send and the  *)
(* third may stop reading; the server may be stopped at any time.          *)
(***************************************************************************)
EXTENDS ChatServer, TLC

CONSTANTS Silent   \* clients that only listen

Messages == [c \in Clients |-> IF c \in Silent THEN 0 ELSE 1]

SenderSymmetry == Permutations(Clients \ Silent)
=============================================================================
