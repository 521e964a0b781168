------------------------------ MODULE Transfer -----------------------------
(* The two ways of an artifact between the workstation and the training host,*)
(* and what both promise.  A pane carries one of them at a time.             *)
EXTENDS Upload, Download

CONSTANT Directions  \* a subset of {"up", "down"}

VARIABLE direction

vars == <<direction, uploadVars, downloadVars>>

Init == direction \in Directions /\ UploadInit /\ DownloadInit
Up == direction = "up" /\ UploadNext /\ UNCHANGED <<direction, downloadVars>>
Down == direction = "down" /\ DownloadNext /\ UNCHANGED <<direction, uploadVars>>
Next == Up \/ Down

Fairness ==
  /\ WF_vars(direction = "up" /\ ReceiverRuns /\ UNCHANGED <<direction, downloadVars>>)
  /\ WF_vars(direction = "down" /\ LocalRuns /\ UNCHANGED <<direction, uploadVars>>)

Spec == Init /\ [][Next]_vars /\ Fairness
-----------------------------------------------------------------------------
(* A file that stands under its final name is whole and is the one that was  *)
(* asked for, whatever the pane lost or changed, whichever end died and      *)
(* however often it was tried; and a tool that reports success has published,*)
(* so the answer it saw was to its own transfer.                             *)
PublishedIsWhole ==
  /\ \A d \in Destinations : dest[d] \in Files \union {None}
  /\ receiver.pc = "linked" => dest[receiver.to] = receiver.expected
  /\ target \in {<< >>, Expected}
  /\ sender.pc = "verified" => dest[sender.to] = sender.checksum
  /\ local.pc = "verified" => target = Expected

(* Neither end waits for ever: the receiver gives the terminal back, the tool*)
(* takes the pipe off the pane.                                              *)
TerminalGivenBack ==
  /\ receiver.pc = "receiving" ~> receiver.pc # "receiving"
  /\ local.pc = "reading" ~> local.pc # "reading"
=============================================================================
