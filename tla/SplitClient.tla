---------------------------- MODULE SplitClient -----------------------------
(***************************************************************************)
(* ch10/echo_mpclient.c: a client of two processes that share one          *)
(* connection.  The parent prints what comes back (read_routine); its      *)
(* child sends the lines the user enters (write_routine), then shuts down  *)
(* the sending direction only and exits.  When the parent's reading ends   *)
(* it sends the child SIGTERM.  The parent's SIGCHLD handler collects the  *)
(* child.                                                                  *)
(*                                                                         *)
(* The server is echo_mpserv or one like it: it echoes line by line and    *)
(* closes when the client has sent its end of stream.  Init may choose a   *)
(* server that fails instead: it can end the connection at any time.       *)
(***************************************************************************)
EXTENDS Integers

CONSTANTS MaxLines   (* lines the user enters at most: bounds the model    *)

ASSUME MaxLinesAssumption == MaxLines \in Nat

VARIABLES
  failing,               (* the server may fail                            *)
  srv, echoed,           (* its end of the connection; lines echoed        *)
  sent, fin,             (* lines sent; the sending direction is shut down *)
  cut,                   (* the receiving direction is shut down           *)
  got,                   (* lines that came back and were printed          *)
  rpc,                   (* the parent                                     *)
  pending, sigterm,      (* SIGCHLD for the parent, SIGTERM for the child  *)
  wpc                    (* the child                                      *)

srvVars == <<failing, srv, echoed>>
vars    == <<srvVars, sent, fin, cut, got, rpc, pending, sigterm, wpc>>

Init ==
  /\ failing \in BOOLEAN
  /\ srv = "open" /\ echoed = 0
  /\ sent = 0 /\ fin = FALSE /\ cut = FALSE
  /\ got = 0
  /\ rpc = "fork"
  /\ pending = FALSE /\ sigterm = FALSE
  /\ wpc = "none"

-----------------------------------------------------------------------------
(* The server: external.                                                   *)

ServerEcho ==
  /\ srv = "open" /\ echoed < sent
  /\ echoed' = echoed + 1
  /\ UNCHANGED <<failing, srv, sent, fin, cut, got, rpc, pending, sigterm, wpc>>

ServerClose ==
  /\ srv = "open"
  /\ \/ fin /\ echoed = sent /\ srv' = "closed"
     \/ failing /\ srv' \in {"closed", "reset"}
  /\ UNCHANGED <<failing, echoed, sent, fin, cut, got, rpc, pending, sigterm, wpc>>

-----------------------------------------------------------------------------
(* The parent.                                                             *)

(* fork returns -1 when it fails: the parent goes on as if it had a child. *)
Fork ==
  /\ rpc = "fork"
  /\ rpc' = "read" /\ wpc' \in {"input", "none"}
  /\ UNCHANGED <<srvVars, sent, fin, cut, got, pending, sigterm>>

AtEnd == (srv = "closed" \/ cut) /\ got = echoed

ReadLine ==
  /\ rpc = "read" /\ got < echoed
  /\ got' = got + 1
  /\ UNCHANGED <<srvVars, sent, fin, cut, rpc, pending, sigterm, wpc>>

(* 0, or an error; a reset can cost the lines that were not read yet.  A   *)
(* read that SIGCHLD interrupts (EINTR) is repeated: no step of its own.   *)
ReadEnd ==
  /\ rpc = "read" /\ (AtEnd \/ srv = "reset")
  /\ rpc' = "kill"
  /\ UNCHANGED <<srvVars, sent, fin, cut, got, pending, sigterm, wpc>>

Alive == wpc \in {"input", "write", "shutdown", "exit"}

(* Faulty variant of Kill: the parent just ends.                           *)
KillForgotten ==
  /\ rpc = "kill"
  /\ rpc' = "end"
  /\ UNCHANGED <<srvVars, sent, fin, cut, got, pending, sigterm, wpc>>

(* kill(pid, SIGTERM), close, return.  The pid may be one that was         *)
(* collected already, or -1, in which case the child is not what it hits.  *)
Kill ==
  /\ rpc = "kill"
  /\ sigterm' = Alive
  /\ rpc' = "end"
  /\ UNCHANGED <<srvVars, sent, fin, cut, got, pending, wpc>>

(* read_child_proc, wherever the parent is when the signal comes.          *)
ReadChildProc ==
  /\ pending /\ rpc # "end"
  /\ pending' = FALSE
  /\ wpc' = IF wpc = "zombie" THEN "reaped" ELSE wpc
  /\ UNCHANGED <<srvVars, sent, fin, cut, got, rpc, sigterm>>

Reader == Fork \/ ReadLine \/ ReadEnd \/ Kill \/ ReadChildProc

-----------------------------------------------------------------------------
(* The child.                                                              *)

(* fgets: a line, or the end of the input, or "q".                         *)
Input ==
  /\ wpc = "input"
  /\ \/ sent < MaxLines /\ wpc' = "write"
     \/ wpc' = "shutdown"
  /\ UNCHANGED <<srvVars, sent, fin, cut, got, rpc, pending, sigterm>>

(* A server that closed answers with a reset.                              *)
Write ==
  /\ wpc = "write" /\ srv # "reset"
  /\ \/ srv = "open" /\ sent' = sent + 1 /\ srv' = srv
     \/ srv = "closed" /\ sent' = sent /\ srv' \in {"closed", "reset"}
  /\ wpc' = "input"
  /\ UNCHANGED <<failing, echoed, fin, cut, got, rpc, pending, sigterm>>

(* The error is printed and the loop goes on, unless SIGPIPE ends it.      *)
WriteFails ==
  /\ wpc = "write" /\ srv = "reset"
  /\ wpc' = "input"
  /\ UNCHANGED <<srvVars, sent, fin, cut, got, rpc, pending, sigterm>>

(* Faulty variant of Shutdown: SHUT_RDWR.                                  *)
ShutdownBoth ==
  /\ wpc = "shutdown"
  /\ fin' = TRUE /\ cut' = TRUE
  /\ wpc' = "exit"
  /\ UNCHANGED <<srvVars, sent, got, rpc, pending, sigterm>>

Shutdown ==
  /\ wpc = "shutdown"
  /\ fin' = TRUE
  /\ wpc' = "exit"
  /\ UNCHANGED <<srvVars, sent, cut, got, rpc, pending, sigterm>>

(* exit, SIGTERM or SIGPIPE.  The connection stays open: the parent has a  *)
(* descriptor of it, and end of stream is sent when nobody has.            *)
WriterEnds ==
  /\ \/ wpc = "exit"
     \/ Alive /\ sigterm
     \/ wpc = "write" /\ srv = "reset"
  /\ wpc' = "zombie" /\ pending' = TRUE
  /\ fin' = (fin \/ rpc = "end")
  /\ UNCHANGED <<srvVars, sent, cut, got, rpc, sigterm>>

Writer == Write \/ WriteFails \/ Shutdown \/ WriterEnds

-----------------------------------------------------------------------------
Next == ServerEcho \/ ServerClose \/ Reader \/ Input \/ Writer

Spec == Init /\ [][Next]_vars

(* Both processes run when they can, a signal is delivered in the end, the *)
(* server answers; nobody makes the user enter anything.                   *)
FairSpec ==
  /\ Spec /\ WF_vars(Reader) /\ WF_vars(Writer) /\ WF_vars(WriterEnds)
  /\ WF_vars(ServerEcho) /\ WF_vars(ServerClose)

-----------------------------------------------------------------------------
(* Properties.                                                             *)

(* The variables keep their types, and no line is printed that did not     *)
(* come back (lines 42-56).                                                *)
TypeOK ==
  /\ failing \in BOOLEAN /\ fin \in BOOLEAN /\ cut \in BOOLEAN
  /\ srv \in {"open", "closed", "reset"}
  /\ sent \in 0 .. MaxLines /\ echoed \in 0 .. sent /\ got \in 0 .. echoed
  /\ rpc \in {"fork", "read", "kill", "end"}
  /\ pending \in BOOLEAN /\ sigterm \in BOOLEAN
  /\ wpc \in {"none", "input", "write", "shutdown", "exit", "zombie", "reaped"}

(* "only shutdown socket write stream, ensure read stream can be           *)
(* continued" (85): unless the server fails, every line the user sent has  *)
(* come back and is printed before the parent stops reading, although the  *)
(* process that sent them may have ended long before.                      *)
ReadsAllEchoes == ~failing /\ rpc \in {"kill", "end"} => got = sent

(* What the invariants need to be inductive: who is still to write when    *)
(* the sending direction is shut down, and what a server that does not     *)
(* fail waited for before it closed.                                       *)
Bookkeeping ==
  /\ ~cut
  /\ rpc = "fork" => wpc = "none" /\ ~fin
  /\ wpc = "write" => sent < MaxLines
  /\ fin => wpc \notin {"input", "write", "shutdown"}
  /\ ~failing => srv # "reset" /\ (srv = "closed" => fin /\ echoed = sent)
  /\ ~failing /\ rpc \in {"kill", "end"} => srv = "closed"

IndInv == TypeOK /\ ReadsAllEchoes /\ Bookkeeping

(* Neither process outlives the other for ever: when the connection ends   *)
(* the parent notices, and the child, even one that waits for the user,    *)
(* gets its SIGTERM (118-122).                                             *)
BothEnd == srv # "open" ~> (rpc = "end" /\ ~Alive)

(* "ensure child process can be killed" (119): the process id the parent   *)
(* signals still is its child's, and not one it has collected, which the   *)
(* system may have given to another process since; stated for a session in *)
(* which nothing fails.                                                    *)
SignalsItsChild ==
  [][~failing /\ rpc = "kill" /\ rpc' = "end" => wpc # "reaped"]_vars
=============================================================================
