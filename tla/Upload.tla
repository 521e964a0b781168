------------------------------- MODULE Upload ------------------------------
(* transfer_training_archive.py: a file is typed, chunk by chunk, into a     *)
(* terminal pane behind which a receiver runs on the training host.  The     *)
(* sender reads the receiver's answers off the screen.  A pasted chunk may   *)
(* arrive short or changed, either end may be killed or wait in vain, and a  *)
(* transfer may be tried again, to the same or to another destination.  A    *)
(* digest is equal only for equal contents.                                  *)
EXTENDS Naturals, Sequences

CONSTANTS
  Files,         \* contents a file may have: sequences of chunks
  Destinations,  \* paths on the host
  MaxAttempts    \* bound: transfers started

VARIABLES
  file,      \* the file that is sent
  dest,      \* destination -> the published content, << >> for none
  partial,   \* the destinations with a .partial file
  typed,     \* what was pasted and not read yet
  screen,    \* the answers that can be seen in the pane
  sender,    \* the process that sends
  receiver   \* the process that receives

uploadVars == <<file, dest, partial, typed, screen, sender, receiver>>

None == << >>
Idle == [pc |-> "idle", nonce |-> 0, to |-> None, checksum |-> None, size |-> 0, sent |-> 0, last |-> 0]
Absent == [pc |-> "absent", nonce |-> 0, to |-> None, expected |-> None, size |-> 0, got |-> None]

(* A chunk as it arrives: itself, with bytes missing, or another.            *)
Short == "short"
Bad == "not base64"
Arriving(chunk) == {chunk, Short, Bad} \union UNION {{f[i] : i \in DOMAIN f} : f \in Files}

UploadInit ==
  /\ file \in Files
  /\ dest = [d \in Destinations |-> None]
  /\ partial = {}
  /\ typed = << >> /\ screen = {}
  /\ sender = Idle /\ receiver = Absent
-----------------------------------------------------------------------------
(* The answers of the receiver, each with the nonce of its transfer.         *)
Ready(n) == <<"ready", n>>
Ack(n, i, chunk) == <<"ack", n, i, chunk>>
Done(n, content) == <<"done", n, content>>
Fail(n) == <<"fail", n>>
SeenInAnyTransfer(marker) == \E m \in screen : \E n \in 1..MaxAttempts : m = [marker EXCEPT ![2] = n]
Seen(marker) == marker \in screen

(* main: the file is hashed, its size is taken and the command is typed: to a*)
(* shell, which runs the receiver, or to a receiver that still reads.        *)
StartSender(d) ==
  /\ sender.pc \in {"idle", "failed", "verified"} /\ sender.nonce < MaxAttempts
  /\ receiver.pc \in {"absent", "receiving"}
  /\ sender' = [Idle EXCEPT !.pc = "ready", !.nonce = sender.nonce + 1, !.to = d,
                  !.checksum = file, !.size = Len(file)]
  /\ IF receiver.pc = "receiving"
     THEN typed' = Append(typed, Bad) /\ UNCHANGED receiver
     ELSE /\ receiver' = [Absent EXCEPT !.pc = "begun", !.nonce = sender'.nonce, !.to = d,
                            !.expected = sender'.checksum, !.size = sender'.size]
          /\ typed' = << >>
  /\ UNCHANGED <<file, dest, partial, screen>>

(* wait_marker: a failure that is seen, or 70 seconds, end the transfer.     *)
Waiting == sender.pc \in {"ready", "ack", "done"}
SenderFails ==
  /\ Waiting
  /\ Seen(Fail(sender.nonce))
  /\ sender' = [sender EXCEPT !.pc = "failed"]
  /\ UNCHANGED <<file, dest, partial, typed, screen, receiver>>

SenderTimesOut ==
  /\ Waiting
  /\ sender' = [sender EXCEPT !.pc = "failed"]
  /\ UNCHANGED <<file, dest, partial, typed, screen, receiver>>

(* The next chunk of the file as it is now is pasted, once the answer to the *)
(* last is there; at its end the sender waits for the whole.                 *)
Answered ==
  IF sender.pc = "ready" THEN Seen(Ready(sender.nonce))
  ELSE Seen(Ack(sender.nonce, sender.sent, sender.last))

SendChunk ==
  /\ sender.pc \in {"ready", "ack"} /\ sender.sent < Len(file)
  /\ ~Seen(Fail(sender.nonce)) /\ Answered
  /\ sender' = [sender EXCEPT !.sent = @ + 1, !.last = file[sender.sent + 1], !.pc = "ack"]
  /\ \E chunk \in Arriving(file[sender.sent + 1]) : typed' = Append(typed, chunk)
  /\ UNCHANGED <<file, dest, partial, screen, receiver>>

EndOfFile ==
  /\ sender.pc \in {"ready", "ack"} /\ sender.sent >= Len(file)
  /\ ~Seen(Fail(sender.nonce)) /\ Answered
  /\ sender' = [sender EXCEPT !.pc = "done"]
  /\ UNCHANGED <<file, dest, partial, typed, screen, receiver>>

Verified ==
  /\ sender.pc = "done"
  /\ ~Seen(Fail(sender.nonce)) /\ Seen(Done(sender.nonce, sender.checksum))
  /\ sender' = [sender EXCEPT !.pc = "verified"]
  /\ UNCHANGED <<file, dest, partial, typed, screen, receiver>>

(* The file is written anew.                                                 *)
ReplaceFile ==
  /\ \E f \in Files \ {file} : file' = f
  /\ UNCHANGED <<dest, partial, typed, screen, sender, receiver>>
-----------------------------------------------------------------------------
(* The receiver.  It refuses a destination that exists, and one with a       *)
(* .partial file, before it answers at all.                                  *)
ReceiverRefuses ==
  /\ receiver.pc = "begun"
  /\ dest[receiver.to] # None \/ receiver.to \in partial
  /\ receiver' = [receiver EXCEPT !.pc = "absent"]
  /\ UNCHANGED <<file, dest, partial, typed, screen, sender>>

ReceiverOpens ==
  /\ receiver.pc = "begun"
  /\ dest[receiver.to] = None /\ receiver.to \notin partial
  /\ partial' = partial \union {receiver.to}
  /\ screen' = screen \union {Ready(receiver.nonce)}
  /\ receiver' = [receiver EXCEPT !.pc = "receiving"]
  /\ UNCHANGED <<file, dest, typed, sender>>

(* Any exception: CGFAIL; what was typed ahead is dropped and the terminal is*)
(* given back.  The .partial file stays.                                     *)
Raise ==
  /\ screen' = screen \union {Fail(receiver.nonce)}
  /\ receiver' = [receiver EXCEPT !.pc = "absent"]
  /\ typed' = << >>
  /\ UNCHANGED <<file, dest, partial, sender>>

Complete == Len(receiver.got) >= receiver.size
TakeChunk ==
  /\ receiver.pc = "receiving" /\ ~Complete
  /\ typed # << >> /\ Head(typed) \notin {Short, Bad}
  /\ receiver' = [receiver EXCEPT !.got = Append(@, Head(typed))]
  /\ screen' = screen \union {Ack(receiver.nonce, Len(receiver.got) + 1, Head(typed))}
  /\ typed' = Tail(typed)
  /\ UNCHANGED <<file, dest, partial, sender>>

BadChunk ==
  /\ receiver.pc = "receiving" /\ ~Complete
  /\ typed # << >> /\ (Head(typed) = Bad \/ (Head(typed) = Short /\ Len(typed) > 1))
  /\ Raise

(* 60 seconds without the rest of a chunk.                                   *)
ChunkTimesOutNever == FALSE
ChunkTimesOut == receiver.pc = "receiving" /\ ~Complete /\ typed \in {<< >>, <<Short>>}
TimeOut == ChunkTimesOut /\ Raise

(* The digest is compared, and os.link publishes: it never replaces a file.  *)
DigestAgrees(content, expected) == content = expected
Publish ==
  /\ receiver.pc = "receiving" /\ Complete
  /\ DigestAgrees(receiver.got, receiver.expected) /\ dest[receiver.to] = None
  /\ dest' = [dest EXCEPT ![receiver.to] = receiver.got]
  /\ receiver' = [receiver EXCEPT !.pc = "linked"]
  /\ UNCHANGED <<file, partial, typed, screen, sender>>

PublishFails ==
  /\ receiver.pc = "receiving" /\ Complete
  /\ ~(DigestAgrees(receiver.got, receiver.expected) /\ dest[receiver.to] = None)
  /\ Raise

Report ==
  /\ receiver.pc = "linked"
  /\ partial' = partial \ {receiver.to}
  /\ screen' = screen \union {Done(receiver.nonce, receiver.expected)}
  /\ receiver' = [receiver EXCEPT !.pc = "absent"]
  /\ typed' = << >>
  /\ UNCHANGED <<file, dest, sender>>

(* The connection is lost: the receiver is killed where it stands.           *)
ReceiverKilled ==
  /\ receiver.pc \in {"begun", "receiving", "linked"}
  /\ receiver' = [receiver EXCEPT !.pc = "absent"]
  /\ typed' = << >>
  /\ UNCHANGED <<file, dest, partial, screen, sender>>

SenderNext ==
  \/ \E d \in Destinations : StartSender(d)
  \/ SenderFails \/ SenderTimesOut \/ SendChunk \/ EndOfFile \/ Verified \/ ReplaceFile
ReceiverRuns ==
  \/ ReceiverRefuses \/ ReceiverOpens \/ TakeChunk \/ BadChunk \/ TimeOut
  \/ Publish \/ PublishFails \/ Report
UploadNext == SenderNext \/ ReceiverRuns \/ ReceiverKilled
=============================================================================
