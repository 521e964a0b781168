------------------------------ MODULE Download -----------------------------
(* download_training_artifact.py: a command in a terminal pane prints a file *)
(* of the training host as numbered lines, a sink started by tmux copies     *)
(* what the pane prints to a file, and the tool reads that file while it     *)
(* grows.  Lines may be lost or changed, the tool may be killed, and what a  *)
(* whole transcript holds can be recovered later.                            *)
EXTENDS Naturals, Sequences

CONSTANTS
  Stored,   \* contents the file on the host may have: sequences of blocks
  Expected  \* the content whose digest the operator gave

VARIABLES
  stored,     \* the file on the host
  printer,    \* the remote command: what it has printed so far
  piped,      \* tmux copies the pane to the sink
  transcript, \* the lines in the .transport file
  local,      \* the tool: where it is, what it has read, what it has written
  target,     \* the published content, << >> for none
  leftovers   \* the files a failed attempt leaves: partial, recovered

downloadVars == <<stored, printer, piped, transcript, local, target, leftovers>>

Start == <<"start">>
Data(i, block) == <<"data", i, block>>
End == <<"end">>
Noise == <<"noise">>

DownloadInit ==
  /\ stored \in Stored
  /\ printer = [pc |-> "none", next |-> 0]
  /\ piped = FALSE
  /\ transcript = << >>
  /\ local = [pc |-> "idle", read |-> 0, started |-> FALSE, written |-> << >>]
  /\ target = << >>
  /\ leftovers = {}
-----------------------------------------------------------------------------
(* The remote command: nothing is printed unless the digest is the expected  *)
(* one; the file is then read once more.  A line may arrive changed, with    *)
(* another block, or not at all.                                             *)
Printed(line, pc, next) ==
  /\ printer' = [pc |-> pc, next |-> next]
  /\ \/ transcript' = IF piped THEN Append(transcript, line) ELSE transcript
     \/ piped /\ transcript' = Append(transcript, Noise)
     \/ UNCHANGED transcript
  /\ UNCHANGED <<stored, piped, local, target, leftovers>>

PrintStart == printer.pc = "begun" /\ stored = Expected /\ Printed(Start, "data", 1)
PrintRefuses ==
  /\ printer.pc = "begun" /\ stored # Expected
  /\ printer' = [printer EXCEPT !.pc = "none"]
  /\ UNCHANGED <<stored, piped, transcript, local, target, leftovers>>
PrintBlock ==
  /\ printer.pc = "data" /\ printer.next <= Len(stored)
  /\ \E f \in Stored : \E i \in DOMAIN f :
       Printed(Data(printer.next - 1, f[i]), "data", printer.next + 1)
PrintEnd == printer.pc = "data" /\ printer.next > Len(stored) /\ Printed(End, "none", 0)

ReplaceStored ==
  /\ \E f \in Stored \ {stored} : stored' = f
  /\ UNCHANGED <<printer, piped, transcript, local, target, leftovers>>
-----------------------------------------------------------------------------
(* main: it refuses to begin beside a target or the files of an attempt      *)
(* before, and in a pane that is piped already.                              *)
StartDownload ==
  /\ local.pc = "idle"
  /\ target = << >> /\ "partial" \notin leftovers /\ transcript = << >>
  /\ ~piped /\ printer.pc = "none"
  /\ piped' = TRUE
  /\ printer' = [printer EXCEPT !.pc = "begun"]
  /\ leftovers' = leftovers \union {"partial"}
  /\ local' = [local EXCEPT !.pc = "reading"]
  /\ UNCHANGED <<stored, transcript, target>>

Line == transcript[local.read + 1]

(* Reading a line: how far a reader has got and what it has written, or      *)
(* "raise".  Before the start line everything is skipped.                    *)
InOrder(line, written) == line[2] = Len(written)
Raises(line, started, written) == started /\ line[1] = "data" /\ ~InOrder(line, written)
Written(line, started, written) ==
  IF started /\ line[1] = "data" THEN Append(written, line[3]) ELSE written
Whole(written) == written = Expected

Finished(published) ==
  /\ piped' = FALSE
  /\ local' = [local EXCEPT !.pc = IF published THEN "verified" ELSE "failed"]
  /\ target' = IF published THEN local.written ELSE target
  /\ leftovers' = IF published THEN leftovers \ {"partial"} ELSE leftovers
  /\ UNCHANGED <<stored, printer, transcript>>

ReadLine ==
  /\ local.pc = "reading" /\ local.read < Len(transcript)
  /\ ~Raises(Line, local.started, local.written) /\ ~(local.started /\ Line = End)
  /\ local' = [local EXCEPT !.read = @ + 1, !.started = @ \/ Line = Start,
                 !.written = Written(Line, local.started, @)]
  /\ UNCHANGED <<stored, printer, piped, transcript, target, leftovers>>

ReadEnd ==
  /\ local.pc = "reading" /\ local.read < Len(transcript)
  /\ local.started /\ Line = End
  /\ Finished(Whole(local.written))

ReadRaises ==
  /\ local.pc = "reading" /\ local.read < Len(transcript)
  /\ Raises(Line, local.started, local.written)
  /\ Finished(FALSE)

(* 90 seconds without a byte.                                                *)
Stalls == local.pc = "reading" /\ local.read = Len(transcript)
Stalled == Stalls /\ Finished(FALSE)

(* The tool is killed: the pane stays piped.                                 *)
LocalKilled ==
  /\ local.pc = "reading"
  /\ local' = [local EXCEPT !.pc = "killed"]
  /\ UNCHANGED <<stored, printer, piped, transcript, target, leftovers>>
-----------------------------------------------------------------------------
(* recover: the transcript is read once more, from its beginning to the first*)
(* end line; a failure leaves .recover-partial, which the next one refuses.  *)
Replay(upto) ==
  LET reads[n \in 0..Len(transcript)] ==
        IF n = 0 THEN [started |-> FALSE, ended |-> FALSE, raised |-> FALSE, written |-> << >>]
        ELSE LET before == reads[n - 1]  line == transcript[n] IN
             IF before.ended \/ before.raised THEN before
             ELSE [started |-> before.started \/ line = Start,
                   ended |-> before.started /\ line = End,
                   raised |-> Raises(line, before.started, before.written),
                   written |-> Written(line, before.started, before.written)]
  IN reads[upto]

Recover ==
  /\ local.pc \in {"failed", "killed"}
  /\ target = << >> /\ "recovered" \notin leftovers
  /\ LET replayed == Replay(Len(transcript)) IN
     IF replayed.ended /\ ~replayed.raised /\ Whole(replayed.written)
     THEN target' = replayed.written /\ UNCHANGED leftovers
     ELSE leftovers' = leftovers \union {"recovered"} /\ UNCHANGED target
  /\ UNCHANGED <<stored, printer, piped, transcript, local>>

LocalRuns == ReadLine \/ ReadEnd \/ ReadRaises \/ Stalled
RemoteNext == PrintStart \/ PrintRefuses \/ PrintBlock \/ PrintEnd \/ ReplaceStored
LocalNext ==
  StartDownload \/ LocalRuns \/ LocalKilled \/ Recover
DownloadNext == RemoteNext \/ LocalNext
=============================================================================
