---------------------------- MODULE MCEventLoop -----------------------------
(***************************************************************************)
(* EventLoop, all three servers, with two clients.  One sends a newline    *)
(* between two letters to a server whose buffer takes two bytes: a newline *)
(* can end a read or not, and one event can need two reads.  The other     *)
(* sends a byte and may stop reading.                                      *)
(***************************************************************************)
EXTENDS EventLoop, TLC

CONSTANTS c1, c2

Letters == {"a", "b", Newline}
Lines   == c1 :> <<"a", Newline, "b">> @@ c2 :> <<"b">>
=============================================================================
