--------------------------- MODULE SmallPrograms ---------------------------
(***************************************************************************)
(* The book's small programs side by side: one of them, or one pair, runs; *)
(* the variables of the others stay as they are.                           *)
(***************************************************************************)
EXTENDS OneWay, Datagrams, Urgent, Local, SplitClient

allVars == <<oneWayVars, dgramVars, urgentVars, localVars, vars>>

AllInit ==
  /\ program \in OneWayPrograms \cup DatagramPrograms \cup UrgentPrograms
             \cup LocalPrograms \cup {"split"}
  /\ OneWayInit /\ DatagramsInit /\ UrgentInit /\ LocalInit /\ Init
  /\ failing => program = "split"

OneWayStep   == OneWayNext /\ UNCHANGED <<dgramVars, urgentVars, localVars, vars>>
DatagramStep == DatagramsNext /\ UNCHANGED <<oneWayVars, urgentVars, localVars, vars>>
UrgentStep   == UrgentNext /\ UNCHANGED <<oneWayVars, dgramVars, localVars, vars>>
LocalStep    == LocalNext /\ UNCHANGED <<oneWayVars, dgramVars, urgentVars, vars>>
SplitStep    == /\ program = "split" /\ Next
                /\ UNCHANGED <<oneWayVars, dgramVars, urgentVars, localVars>>

AllNext == OneWayStep \/ DatagramStep \/ UrgentStep \/ LocalStep \/ SplitStep

AllSpec == AllInit /\ [][AllNext]_allVars

(* The fairness of SplitClient's FairSpec, of its own program.             *)
Split(action) == program = "split" /\ action
SplitFairness ==
  /\ WF_vars(Split(Reader)) /\ WF_vars(Split(Writer)) /\ WF_vars(Split(WriterEnds))
  /\ WF_vars(Split(ServerEcho)) /\ WF_vars(Split(ServerClose))

AllFairSpec ==
  /\ AllSpec
  /\ OneWayFairness /\ DatagramsFairness /\ UrgentFairness /\ LocalFairness
  /\ SplitFairness

-----------------------------------------------------------------------------
(* Nobody waits for ever, server, client, sender or receiver: for the end  *)
(* of a stream, for a datagram that was not lost, for bytes behind an      *)
(* urgent one (file_server.c:76-87, sep_client.c:40-46,                    *)
(* uecho_server.c:44-63, oob_recv.c:34, peek_recv.c:22-25).                *)
NobodyWaitsForEver == SidesEnd /\ ReceivedUnlessLost /\ ReceiverEnds
=============================================================================
