------------------------------- MODULE Local --------------------------------
(***************************************************************************)
(* Programs without a socket:                                              *)
(*   "zombie"  ch10/remove_zombie.c: a parent whose handler of SIGCHLD     *)
(*             reaps its children; child 3 has a child of its own          *)
(*   "pipe1", "pipe2", "pipe3"  ch11/pipe1.c to pipe3.c: a parent and a    *)
(*             child that write to each other, over one pipe or two        *)
(*   "select"  ch12/select.c: standard input behind a select with timeout  *)
(***************************************************************************)
EXTENDS Program, Integers, Sequences, FiniteSets

CONSTANTS
  KidCount,          (* children that remove_zombie forks                  *)
  MaxTyped           (* lines typed to select: bounds the model            *)

ASSUME LocalAssumption == KidCount \in Nat /\ MaxTyped \in Nat

Pipes         == {"pipe1", "pipe2", "pipe3"}
LocalPrograms == Pipes \cup {"zombie", "select"}
Kids          == 0 .. KidCount - 1

VARIABLES
  ppc, kpc,          (* the parent, or the only process; the pipes' child  *)
  \* remove_zombie: none, run, zombie or gone
  kids, grandchild,
  recycles,          (* child 3 still has its parent's handler             *)
  sigchld, handling, (* the parent's: pending, in recycle_child            *)
  \* pipes: who wrote the message that is in them
  pipe, late,        (* late: the child's sleep is too short               *)
  shownParent, shownChild,
  \* select
  typed, eof, temps, (* temps: descriptor 0 is in it                       *)
  merged             (* history: a q was read together with other lines    *)

kidVars   == <<kids, grandchild, recycles, sigchld, handling>>
pipeVars  == <<kpc, pipe, late, shownParent, shownChild>>
inputVars == <<typed, eof, temps, merged>>
localVars == <<program, ppc, kidVars, pipeVars, inputVars>>

LocalInit ==
  /\ ppc = CASE program = "zombie" -> "fork" [] program = "select" -> "select"
             [] OTHER -> "read"
  /\ kpc \in IF program \in Pipes THEN {"write", "none"} ELSE {"none"}  \* fork fails
  /\ kids = [k \in Kids |-> "none"] /\ grandchild = "none" /\ recycles = TRUE
  /\ sigchld = FALSE /\ handling = FALSE
  /\ pipe = [i \in 1 .. 2 |-> "empty"]
  /\ late \in IF program = "pipe2" THEN BOOLEAN ELSE {FALSE}
  /\ shownParent = "none" /\ shownChild = "none"
  /\ typed = <<>> /\ eof = FALSE /\ temps = TRUE /\ merged = FALSE

-----------------------------------------------------------------------------
(* remove_zombie: main, interrupted by recycle_child.                      *)

ForkKid ==
  /\ program = "zombie" /\ ppc = "fork" /\ ~handling
  /\ \E k \in Kids :
       /\ kids[k] = "none" /\ \A j \in 0 .. k - 1 : kids[j] # "none"
       /\ kids' = [kids EXCEPT ![k] = "run"]
       /\ ppc' = IF k = KidCount - 1 THEN "sleep" ELSE "fork"
  /\ UNCHANGED <<program, grandchild, recycles, sigchld, handling, pipeVars, inputVars>>

ForkGrandchild ==
  /\ program = "zombie" /\ 3 \in Kids /\ kids[3] = "run" /\ grandchild = "none"
  /\ grandchild' = "run"
  /\ UNCHANGED <<program, ppc, kids, recycles, sigchld, handling, pipeVars, inputVars>>

register_signal_default ==
  /\ program = "zombie" /\ 3 \in Kids /\ kids[3] = "run" /\ grandchild # "none" /\ recycles
  /\ recycles' = FALSE
  /\ UNCHANGED <<program, ppc, kids, grandchild, sigchld, handling, pipeVars, inputVars>>

(* A child sleeps and exits; signals of the same kind are one.  What child *)
(* 3 leaves behind is no longer this program's.                            *)
child(k) ==
  /\ program = "zombie" /\ kids[k] = "run" /\ (k = 3 => ~recycles)
  /\ kids' = [kids EXCEPT ![k] = "zombie"] /\ sigchld' = TRUE
  /\ grandchild' = IF k = 3 /\ grandchild = "zombie" THEN "gone" ELSE grandchild
  /\ UNCHANGED <<program, ppc, recycles, handling, pipeVars, inputVars>>

(* It stays a zombie if child 3 lives and has given up its handler.        *)
GrandchildExit ==
  /\ program = "zombie" /\ grandchild = "run"
  /\ grandchild' = IF kids[3] = "run" /\ ~recycles THEN "zombie" ELSE "gone"
  /\ UNCHANGED <<program, ppc, kids, recycles, sigchld, handling, pipeVars, inputVars>>

recycle_child ==
  /\ program = "zombie" /\ sigchld /\ ~handling
  /\ sigchld' = FALSE /\ handling' = TRUE
  /\ UNCHANGED <<program, ppc, kids, grandchild, recycles, pipeVars, inputVars>>

(* while (waitpid(-1, &status, WNOHANG) > 0)                               *)
WaitPid ==
  /\ program = "zombie" /\ handling
  /\ \/ \E k \in Kids : kids[k] = "zombie" /\ kids' = [kids EXCEPT ![k] = "gone"]
        /\ handling' = TRUE
     \/ (\A k \in Kids : kids[k] # "zombie") /\ kids' = kids /\ handling' = FALSE
  /\ UNCHANGED <<program, ppc, grandchild, recycles, sigchld, pipeVars, inputVars>>

-----------------------------------------------------------------------------
(* The pipes.  A message is written and read whole.                        *)

ToParent == 1
ToChild  == IF program = "pipe3" THEN 2 ELSE 1

ChildWrite ==
  /\ kpc = "write"
  /\ pipe' = [pipe EXCEPT ![ToParent] = "child"]
  /\ kpc' = CASE program = "pipe1" -> "exit" [] program = "pipe2" -> "sleep"
              [] program = "pipe3" -> "read"
  /\ UNCHANGED <<program, ppc, late, shownParent, shownChild, kidVars, inputVars>>

(* The two seconds in which the parent is meant to have read and answered. *)
ChildSleep ==
  /\ kpc = "sleep" /\ (late \/ ppc = "exit")
  /\ kpc' = "read"
  /\ UNCHANGED <<program, ppc, pipe, late, shownParent, shownChild, kidVars, inputVars>>

ChildRead ==
  /\ kpc = "read" /\ pipe[ToChild] # "empty"
  /\ shownChild' = pipe[ToChild] /\ pipe' = [pipe EXCEPT ![ToChild] = "empty"]
  /\ kpc' = "exit"
  /\ UNCHANGED <<program, ppc, late, shownParent, kidVars, inputVars>>

ParentRead ==
  /\ program \in Pipes /\ ppc = "read" /\ pipe[ToParent] # "empty"
  /\ shownParent' = pipe[ToParent] /\ pipe' = [pipe EXCEPT ![ToParent] = "empty"]
  /\ ppc' = IF program = "pipe1" THEN "exit" ELSE "write"
  /\ UNCHANGED <<program, kpc, late, shownChild, kidVars, inputVars>>

ParentWrite ==
  /\ program \in Pipes /\ ppc = "write"
  /\ pipe' = [pipe EXCEPT ![ToChild] = "parent"]
  /\ ppc' = "exit"
  /\ UNCHANGED <<program, kpc, late, shownParent, shownChild, kidVars, inputVars>>

PipeProgram == ChildWrite \/ ChildSleep \/ ChildRead \/ ParentRead \/ ParentWrite

-----------------------------------------------------------------------------
(* select.                                                                 *)

(* The user: external.                                                     *)
Type ==
  /\ program = "select" /\ ~eof
  /\ \/ \E line \in {"q", "other"} : Len(typed) < MaxTyped /\ typed' = Append(typed, line)
        /\ eof' = FALSE
     \/ typed' = typed /\ eof' = TRUE
  /\ UNCHANGED <<program, ppc, temps, merged, kidVars, pipeVars>>

(* Faulty variant of Watched: temps is not set again before each select.   *)
WatchedKept == temps

Watched == TRUE

(* It takes out of temps what is not ready: after a timeout, everything.   *)
Select ==
  /\ program = "select" /\ ppc = "select"
  /\ temps' = (Watched /\ (typed # <<>> \/ eof))
  /\ ppc' = IF temps' THEN "read" ELSE "select"
  /\ UNCHANGED <<program, typed, eof, merged, kidVars, pipeVars>>

(* A terminal gives one line, a pipe what there is: a q must come alone.   *)
(* The end of the input is an empty message for ever.                      *)
ReadInput ==
  /\ program = "select" /\ ppc = "read"
  /\ \E n \in 0 .. Len(typed) :
       /\ n = 0 => typed = <<>>
       /\ typed' = SubSeq(typed, n + 1, Len(typed))
       /\ ppc' = IF n = 1 /\ Head(typed) = "q" THEN "exit" ELSE "select"
       /\ merged' = (merged \/ (n > 1 /\ \E i \in 1 .. n : typed[i] = "q"))
  /\ UNCHANGED <<program, eof, temps, kidVars, pipeVars>>

-----------------------------------------------------------------------------
Parent == ForkKid \/ recycle_child \/ WaitPid

LocalNext ==
  \/ Parent \/ ForkGrandchild \/ register_signal_default \/ GrandchildExit
  \/ \E k \in Kids : child(k)
  \/ PipeProgram \/ Type \/ Select \/ ReadInput

(* Signals are delivered and the processes run; nobody has to type.        *)
LocalFairness ==
  /\ WF_localVars(Parent) /\ WF_localVars(PipeProgram) /\ WF_localVars(Select \/ ReadInput)

-----------------------------------------------------------------------------
(* Properties.                                                             *)

(* Nobody waits in vain (one property of three programs):                  *)
(* every child that has exited is reaped, although the signals of several  *)
(* are one and more may come while the handler runs                        *)
(* (remove_zombie.c:11-18);                                                *)
AllReaped == \A k \in Kids : kids[k] = "zombie" ~> kids[k] = "gone"

(* parent and child read each other's message, never their own, and end:   *)
(* with one pipe only if the sleep is long enough (pipe1.c:18-25,          *)
(* pipe2.c:19-31, pipe3.c:19-28);                                          *)
MessagesCross ==
  (kpc = "write") ~>
    \/ late
    \/ /\ ppc = "exit" /\ shownParent = "child"
       /\ kpc = "exit" /\ (program # "pipe1" => shownChild = "parent")

(* a q that is typed is heard however many timeouts came before, unless    *)
(* one read returns it together with other lines (select.c:23-52).         *)
QuitHeard == (\E i \in DOMAIN typed : typed[i] = "q") ~> (ppc = "exit" \/ merged)

WaitedForComes == AllReaped /\ MessagesCross /\ QuitHeard
=============================================================================
