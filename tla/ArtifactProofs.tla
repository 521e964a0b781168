--------------------------- MODULE ArtifactProofs ---------------------------
(***************************************************************************)
(* Theorems about what becomes of the files of a training: that a transfer *)
(* publishes whole files; that an artifact tells the truth about what it   *)
(* was made from, while one tool runs at a time; that a campaign trains no *)
(* arm twice, says no more in a status than was done and selects only an   *)
(* arm that every check has passed; for any files, product lines, arms,    *)
(* panels and reviewers.                                                   *)
(*                                                                         *)
(* For the lineage the inductive part is LineageInv: what may be below a   *)
(* file, and of what versions, by the origins it names (Faithful, Chain).  *)
(* For the campaign the inductive part is CampaignInv: each record of a    *)
(* training, a generation, an audit and a packet tells the truth of the    *)
(* record it was made from, which nothing changes any more.                *)
(***************************************************************************)
EXTENDS Transfer, Qualification, Campaign, FiniteSetTheorems, TLAPS

-----------------------------------------------------------------------------
(* The transfer. *)

(* The parts of the records the argument reads; of the others nothing is     *)
(* said.                                                                     *)
SenderOK ==
  sender \in [pc : {"idle", "ready", "ack", "done", "failed", "verified"}, nonce : Nat,
              to : Destinations \union {None}, checksum : Files \union {None},
              size : {sender.size}, sent : {sender.sent}, last : {sender.last}]
ReceiverOK ==
  /\ receiver \in [pc : {"absent", "begun", "receiving", "linked"}, nonce : Nat,
                   to : Destinations \union {None}, expected : Files \union {None},
                   size : {receiver.size}, got : {receiver.got}]
  /\ receiver.pc # "absent" => receiver.to \in Destinations /\ receiver.expected \in Files
LocalOK ==
  local \in [pc : {"idle", "reading", "failed", "killed", "verified"}, read : {local.read},
             started : {local.started}, written : {local.written}]
ShapesOK ==
  /\ file \in Files
  /\ dest \in [Destinations -> Files \union {None}]
  /\ SenderOK /\ ReceiverOK /\ LocalOK

(* A receiver is of the present transfer or of one before, which the present *)
(* one types to in vain; one of the present transfer writes what its sender  *)
(* asked for.                                                                *)
SameTransfer ==
  receiver.pc # "absent" =>
    /\ receiver.nonce <= sender.nonce
    /\ receiver.nonce = sender.nonce => receiver.to = sender.to
Linked == receiver.pc = "linked" => dest[receiver.to] = receiver.expected

(* An answer that a file was published is of this transfer or of one before; *)
(* when it is of this one, its receiver has gone and the file stands.        *)
AnswersTrue ==
  \A n, c : Done(n, c) \in screen =>
    /\ n \in Nat /\ n <= sender.nonce
    /\ n = sender.nonce => receiver.pc = "absent" /\ dest[sender.to] = c
SuccessSeen == sender.pc = "verified" => Done(sender.nonce, sender.checksum) \in screen

DownloadOK ==
  /\ target \in {<< >>, Expected}
  /\ local.pc = "verified" => target = Expected

Inv == ShapesOK /\ SameTransfer /\ Linked /\ AnswersTrue /\ SuccessSeen /\ DownloadOK
-----------------------------------------------------------------------------
(* The answers of the receiver cannot be taken for one another.              *)
LEMMA AnswersDiffer ==
  ASSUME NEW n, NEW c, NEW m, NEW i, NEW d
  PROVE /\ Done(n, c) # Ready(m) /\ Done(n, c) # Fail(m) /\ Done(n, c) # Ack(m, i, d)
        /\ Done(n, c) = Done(m, d) => n = m /\ c = d
  BY DEF Done, Ready, Fail, Ack

(* At the start nothing is on the screen and nothing is published.           *)
LEMMA InitInv == Init => Inv
  BY DEF Init, UploadInit, DownloadInit, Inv, ShapesOK, SenderOK, ReceiverOK, LocalOK,
         SameTransfer, Linked, AnswersTrue, SuccessSeen, DownloadOK, Idle, Absent, None

(* The invariant is about the two halves of the state, which a step of the   *)
(* other direction leaves alone.                                             *)
UploadInv ==
  /\ file \in Files /\ dest \in [Destinations -> Files \union {None}]
  /\ SenderOK /\ ReceiverOK /\ SameTransfer /\ Linked /\ AnswersTrue /\ SuccessSeen
DownloadInv == LocalOK /\ DownloadOK
LEMMA Halves == Inv <=> UploadInv /\ DownloadInv
  BY DEF Inv, ShapesOK, UploadInv, DownloadInv
-----------------------------------------------------------------------------
(* The sender.  A transfer gets a number no answer on the screen has, and    *)
(* what it asks for is its receiver's, when the shell starts one.            *)
LEMMA StartSenderInv ==
  ASSUME UploadInv, NEW d \in Destinations, StartSender(d)
  PROVE  UploadInv'
<1> DEFINE n == sender.nonce + 1
<1>1. /\ sender.nonce \in Nat /\ n \in Nat /\ sender.nonce < n
      /\ sender' = [Idle EXCEPT !.pc = "ready", !.nonce = n, !.to = d,
                      !.checksum = file, !.size = Len(file)]
      /\ UNCHANGED <<file, dest, screen>>
  BY DEF UploadInv, SenderOK, StartSender
<1>2. SenderOK' /\ sender'.nonce = n /\ sender'.to = d /\ sender'.checksum = file
      /\ sender'.pc = "ready"
  BY <1>1 DEF UploadInv, SenderOK, Idle
<1>3. ReceiverOK' /\ SameTransfer' /\ Linked'
  <2>1. CASE receiver.pc = "receiving"
    <3>1. UNCHANGED receiver
      BY <2>1 DEF StartSender
    <3>2. receiver'.nonce < n
      BY <2>1, <3>1, <1>1 DEF UploadInv, SameTransfer, ReceiverOK
    <3> QED  BY <1>1, <1>2, <2>1, <3>1, <3>2 DEF UploadInv, ReceiverOK, SameTransfer, Linked
  <2>2. CASE receiver.pc # "receiving"
    <3>1. receiver' = [Absent EXCEPT !.pc = "begun", !.nonce = n, !.to = d,
                        !.expected = file, !.size = Len(file)]
      BY <2>2, <1>1, <1>2 DEF StartSender, Idle
    <3>2. /\ receiver'.pc = "begun" /\ receiver'.nonce = n /\ receiver'.to = d
          /\ receiver'.expected = file
      BY <3>1 DEF Absent
    <3>3. ReceiverOK'
      BY <3>1, <1>1 DEF UploadInv, ReceiverOK, Absent
    <3> QED  BY <1>1, <1>2, <3>2, <3>3 DEF SameTransfer, Linked
  <2> QED  BY <2>1, <2>2
<1>4. AnswersTrue'
  BY <1>1, <1>2 DEF UploadInv, AnswersTrue
<1> QED  BY <1>1, <1>2, <1>3, <1>4 DEF UploadInv, SuccessSeen

(* The other steps of the sender leave the transfer what it is; only the     *)
(* answer to the present one lets it report success.                         *)
LEMMA SenderStepInv ==
  ASSUME UploadInv,
         SenderFails \/ SenderTimesOut \/ SendChunk \/ EndOfFile \/ Verified \/ ReplaceFile
  PROVE  UploadInv'
<1>1. /\ UNCHANGED <<dest, screen, receiver>> /\ file' \in Files
      /\ sender'.nonce = sender.nonce /\ sender'.to = sender.to
      /\ sender'.checksum = sender.checksum /\ SenderOK'
  <2>1. CASE SenderFails \/ SenderTimesOut \/ EndOfFile \/ Verified
    BY <2>1 DEF UploadInv, SenderOK, SenderFails, SenderTimesOut, EndOfFile, Verified
  <2>2. CASE SendChunk
    <3>1. UNCHANGED <<dest, screen, receiver, file>>
      BY <2>2 DEF SendChunk
    <3>2. sender' = [sender EXCEPT !.sent = @ + 1, !.last = file[sender.sent + 1], !.pc = "ack"]
      BY <2>2 DEF SendChunk
    <3> QED  BY <3>1, <3>2 DEF UploadInv, SenderOK
  <2>3. CASE ReplaceFile
    BY <2>3 DEF UploadInv, SenderOK, ReplaceFile
  <2> QED  BY <2>1, <2>2, <2>3
<1>2. SuccessSeen'
  <2>1. CASE Verified
    BY <2>1, <1>1 DEF Verified, Seen, SuccessSeen
  <2>2. CASE ReplaceFile
    BY <2>2 DEF ReplaceFile, UploadInv, SuccessSeen
  <2>3. CASE SenderFails \/ SenderTimesOut \/ SendChunk \/ EndOfFile
    <3>1. sender'.pc # "verified"
      BY <2>3 DEF SenderFails, SenderTimesOut, SendChunk, EndOfFile, UploadInv, SenderOK
    <3> QED  BY <3>1 DEF SuccessSeen
  <2> QED  BY <2>1, <2>2, <2>3
<1> QED
  BY <1>1, <1>2 DEF UploadInv, ReceiverOK, SameTransfer, Linked, AnswersTrue
-----------------------------------------------------------------------------
(* The receiver.                                                             *)

(* Steps that publish nothing and say nothing of it: refusals, the opening,  *)
(* a chunk, a failure, the end of the process.                               *)
LEMMA ReceiverStepInv ==
  ASSUME UploadInv,
         \/ ReceiverRefuses \/ ReceiverOpens \/ TakeChunk \/ BadChunk \/ TimeOut
         \/ PublishFails \/ ReceiverKilled
  PROVE  UploadInv'
<1>1. UNCHANGED <<file, dest, sender>>
  BY DEF ReceiverRefuses, ReceiverOpens, TakeChunk, BadChunk, TimeOut, PublishFails,
         ReceiverKilled, Raise
<1>2. /\ receiver.pc # "absent" /\ receiver'.pc \in {"absent", "receiving"}
      /\ receiver'.nonce = receiver.nonce /\ receiver'.to = receiver.to
      /\ ReceiverOK'
  <2>1. CASE ReceiverRefuses \/ BadChunk \/ TimeOut \/ PublishFails \/ ReceiverKilled
    BY <2>1 DEF UploadInv, ReceiverOK, ReceiverRefuses, BadChunk, TimeOut, ChunkTimesOut,
                PublishFails, ReceiverKilled, Raise
  <2>2. CASE ReceiverOpens
    BY <2>2 DEF UploadInv, ReceiverOK, ReceiverOpens
  <2>3. CASE TakeChunk
    <3>1. receiver.pc = "receiving" /\ receiver' = [receiver EXCEPT !.got = Append(@, Head(typed))]
      BY <2>3 DEF TakeChunk
    <3> QED  BY <3>1 DEF UploadInv, ReceiverOK
  <2> QED  BY <2>1, <2>2, <2>3
<1>3. \A n, c : Done(n, c) \in screen' <=> Done(n, c) \in screen
  <2> SUFFICES ASSUME NEW n, NEW c PROVE Done(n, c) \in screen' <=> Done(n, c) \in screen
    OBVIOUS
  <2>1. CASE ReceiverRefuses \/ ReceiverKilled
    BY <2>1 DEF ReceiverRefuses, ReceiverKilled
  <2>2. CASE ReceiverOpens
    BY <2>2, AnswersDiffer DEF ReceiverOpens
  <2>3. CASE TakeChunk
    <3> DEFINE i == Len(receiver.got) + 1
    <3>1. screen' = screen \union {Ack(receiver.nonce, i, Head(typed))}
      BY <2>3 DEF TakeChunk
    <3>2. Done(n, c) # Ack(receiver.nonce, i, Head(typed))
      BY AnswersDiffer
    <3> QED  BY <3>1, <3>2
  <2>4. CASE BadChunk \/ TimeOut \/ PublishFails
    <3>1. screen' = screen \union {Fail(receiver.nonce)}
      BY <2>4 DEF BadChunk, TimeOut, PublishFails, Raise
    <3> QED  BY <3>1, AnswersDiffer
  <2> QED  BY <2>1, <2>2, <2>3, <2>4
<1>4. SameTransfer' /\ Linked'
  BY <1>1, <1>2 DEF UploadInv, SameTransfer, Linked
<1>5. AnswersTrue'
  BY <1>1, <1>2, <1>3 DEF UploadInv, AnswersTrue
<1>6. SenderOK' /\ SuccessSeen'
  BY <1>1, <1>3 DEF UploadInv, SenderOK, SuccessSeen
<1> QED  BY <1>1, <1>2, <1>4, <1>5, <1>6 DEF UploadInv

(* A receiver that publishes has not answered yet, so that no answer is made *)
(* false; what it publishes has the digest of a whole file.                  *)
LEMMA PublishInv ==
  ASSUME UploadInv, Publish
  PROVE  UploadInv'
<1>1. /\ receiver.pc = "receiving" /\ receiver.got = receiver.expected
      /\ receiver.to \in Destinations /\ receiver.expected \in Files
      /\ dest' = [dest EXCEPT ![receiver.to] = receiver.expected]
      /\ receiver' = [receiver EXCEPT !.pc = "linked"]
      /\ UNCHANGED <<file, screen, sender>>
  BY DEF Publish, DigestAgrees, UploadInv, ReceiverOK
<1>2. dest' \in [Destinations -> Files \union {None}] /\ dest'[receiver.to] = receiver.expected
  BY <1>1 DEF UploadInv
<1>3. ReceiverOK' /\ SameTransfer' /\ Linked'
  BY <1>1, <1>2 DEF UploadInv, ReceiverOK, SameTransfer, Linked
<1>4. AnswersTrue'
  <2>1. \A n, c : Done(n, c) \in screen => n \in Nat /\ n < sender.nonce
    BY <1>1 DEF UploadInv, AnswersTrue, SenderOK
  <2> QED  BY <1>1, <2>1 DEF AnswersTrue, UploadInv, SenderOK
<1> QED  BY <1>1, <1>2, <1>3, <1>4 DEF UploadInv, SenderOK, SuccessSeen

(* It answers last, and what it says stands.                                 *)
LEMMA ReportInv ==
  ASSUME UploadInv, Report
  PROVE  UploadInv'
<1>1. /\ receiver.pc = "linked" /\ receiver.nonce \in Nat /\ receiver.nonce <= sender.nonce
      /\ dest[receiver.to] = receiver.expected
      /\ receiver.nonce = sender.nonce => receiver.to = sender.to
      /\ receiver' = [receiver EXCEPT !.pc = "absent"] /\ receiver'.pc = "absent"
      /\ screen' = screen \union {Done(receiver.nonce, receiver.expected)}
      /\ UNCHANGED <<file, dest, sender>>
  BY DEF Report, UploadInv, ReceiverOK, SameTransfer, Linked
<1>2. ReceiverOK' /\ SameTransfer' /\ Linked'
  BY <1>1 DEF UploadInv, ReceiverOK, SameTransfer, Linked
<1>3. AnswersTrue'
  <2> SUFFICES ASSUME NEW n, NEW c, Done(n, c) \in screen'
               PROVE  /\ n \in Nat /\ n <= sender.nonce
                      /\ n = sender.nonce => dest[sender.to] = c
    BY <1>1 DEF AnswersTrue
  <2>1. CASE Done(n, c) \in screen
    BY <2>1 DEF UploadInv, AnswersTrue
  <2>2. CASE Done(n, c) = Done(receiver.nonce, receiver.expected)
    <3>1. n = receiver.nonce /\ c = receiver.expected
      BY <2>2, AnswersDiffer
    <3> QED  BY <1>1, <3>1
  <2> QED  BY <1>1, <2>1, <2>2
<1> QED  BY <1>1, <1>2, <1>3 DEF UploadInv, SenderOK, SuccessSeen

LEMMA UploadStep == ASSUME UploadInv, UploadNext  PROVE UploadInv'
<1>1. ASSUME NEW d \in Destinations, StartSender(d)  PROVE UploadInv'
  BY <1>1, StartSenderInv
<1> QED  BY <1>1, SenderStepInv, ReceiverStepInv, PublishInv, ReportInv
         DEF UploadNext, SenderNext, ReceiverRuns
-----------------------------------------------------------------------------
(* The tool publishes what it has read only where that is what was asked     *)
(* for, and after that has nothing left to do.                               *)
LEMMA DownloadStep == ASSUME DownloadInv, DownloadNext  PROVE DownloadInv'
<1>1. CASE RemoteNext
  BY <1>1 DEF RemoteNext, PrintStart, PrintRefuses, PrintBlock, PrintEnd, Printed, ReplaceStored,
              DownloadInv, LocalOK, DownloadOK
<1>2. CASE StartDownload \/ LocalKilled
  BY <1>2 DEF StartDownload, LocalKilled, DownloadInv, LocalOK, DownloadOK
<1>3. CASE ReadLine
  <2>1. /\ UNCHANGED target /\ local.pc = "reading"
        /\ \E w : local' = [local EXCEPT !.read = @ + 1, !.started = @ \/ Line = Start, !.written = w]
    BY <1>3 DEF ReadLine
  <2> QED  BY <2>1 DEF DownloadInv, LocalOK, DownloadOK
<1>4. CASE ReadEnd \/ ReadRaises \/ Stalled
  <2>1. PICK published \in BOOLEAN :
          Finished(published) /\ (published => local.written = Expected)
    BY <1>4 DEF ReadEnd, ReadRaises, Stalled, Whole
  <2> QED  BY <2>1 DEF Finished, DownloadInv, LocalOK, DownloadOK
<1>5. CASE Recover
  <2>1. UNCHANGED local /\ local.pc # "verified" /\ target' \in {target, Expected}
    BY <1>5 DEF Recover, Whole, DownloadInv, LocalOK
  <2> QED  BY <2>1 DEF DownloadInv, LocalOK, DownloadOK
<1> QED  BY <1>1, <1>2, <1>3, <1>4, <1>5 DEF DownloadNext, LocalNext, LocalRuns

LEMMA StepInv == ASSUME Inv, [Next]_vars  PROVE Inv'
<1> UploadInv /\ DownloadInv
  BY Halves
<1>1. UploadInv' /\ DownloadInv' => Inv'
  BY DEF Inv, ShapesOK, UploadInv, DownloadInv
<1>2. UNCHANGED uploadVars => UploadInv'
  BY DEF uploadVars, UploadInv, SenderOK, ReceiverOK, SameTransfer, Linked, AnswersTrue, SuccessSeen
<1>3. UNCHANGED downloadVars => DownloadInv'
  BY DEF downloadVars, DownloadInv, LocalOK, DownloadOK
<1> QED  BY <1>1, <1>2, <1>3, UploadStep, DownloadStep DEF Next, Up, Down, vars

LEMMA InvPublished == Inv => PublishedIsWhole
  BY DEF Inv, ShapesOK, SenderOK, LocalOK, Linked, AnswersTrue, SuccessSeen, DownloadOK,
         PublishedIsWhole, None

(* A file under its final name is whole and the one asked for, and a tool    *)
(* that reports success has published it: of transfer_training_archive.py    *)
(* and download_training_artifact.py, for all files, destinations, attempts  *)
(* and whatever the pane makes of what it carries.                           *)
THEOREM PublishedAlwaysWhole == Spec => []PublishedIsWhole
<1>1. Spec => []Inv
  BY InitInv, StepInv, PTL DEF Spec
<1> QED  BY <1>1, InvPublished, PTL

-----------------------------------------------------------------------------
(* The lineage. *)

(* Versions of the files of the line, and the files themselves.              *)
Stamps == Paths(line) \X (1..MaxVersions)
FileStates ==
  [version : 0..MaxVersions, torn : BOOLEAN,
   read : SUBSET Stamps, used : SUBSET Stamps, names : SUBSET Stamps]
Outs == {t.out : t \in line.tools}
FilesOK == line \in Lines /\ disk \in [Paths(line) -> FileStates]

(* A file knows of no version that is yet to come.                           *)
Past ==
  \A x \in Paths(line) :
    \A u \in disk[x].read \union disk[x].used \union disk[x].names : u[2] <= disk[u[1]].version

(* A file no tool has written says nothing.                                  *)
Blank ==
  \A x \in Paths(line) :
    /\ ~Present(x) \/ x \notin Outs =>
         disk[x].read = {} /\ disk[x].used = {} /\ disk[x].names = {}
    /\ x \notin Outs \union line.roots => ~Present(x)

(* While the one input of a file is the one that is there, the file was made *)
(* from all that was made from.                                              *)
Copies ==
  \A x, y \in Paths(line) :
    disk[x].read = {Now(y)} => disk[x].used = {Now(y)} \union disk[y].used

(* A tool at work, while it is alone, could as well begin now.               *)
Loaded(j) ==
  /\ j.tool \in line.tools
  /\ \A p \in j.tool.reads \union j.tool.needs : Present(p)
  /\ \A c \in j.tool.checks : Agrees(c[1], c[2])
  /\ disk[j.tool.out].version < MaxVersions
  /\ j.read = {Now(p) : p \in j.tool.reads}
  /\ j.used = UNION {disk[p].used : p \in j.tool.reads}
  /\ j.fingerprints = {Now(p) : p \in j.tool.early}
JobOK == jobs = {} \/ \E j : jobs = {j} /\ Loaded(j)

(* What a step does to the disk: nothing; or a file is written, by a tool    *)
(* that could begin now, or lost or replaced.                                *)
Rewritten(y) ==
  /\ y \in Paths(line) /\ line' = line
  /\ \E f \in FileStates : f.version = disk[y].version + 1 /\ disk' = [disk EXCEPT ![y] = f]
Made(t) ==
  /\ t \in line.tools /\ Rewritten(t.out) /\ Present(t.out)'
  /\ \A p \in t.reads \union t.needs : Present(p)
  /\ \A c \in t.checks : Agrees(c[1], c[2])
  /\ disk'[t.out].read = {Now(p) : p \in t.reads}
  /\ disk'[t.out].used = {Now(p) : p \in t.reads} \union UNION {disk[p].used : p \in t.reads}
  /\ disk'[t.out].names = {Now(p) : p \in Names(t)}
Lost(y) ==
  /\ y \in Outs \union line.roots /\ Rewritten(y)
  /\ ~Present(y)' \/ y \notin Outs
  /\ disk'[y].read = {} /\ disk'[y].used = {} /\ disk'[y].names = {}

(* All that a tool looks at is among its inputs.                             *)
Wired(t) ==
  /\ Names(t) \subseteq t.reads \union t.needs
  /\ \A c \in t.checks : c[1] \in t.reads \union t.needs /\ c[2] \in t.reads \union t.needs
  /\ t.reads # {}
Fields(t, reads, needs, checks, names, out) ==
  /\ t.reads = reads /\ t.needs = needs /\ t.checks = checks
  /\ Names(t) = names /\ t.out = out
-----------------------------------------------------------------------------
(* The tools. *)
LEMMA WriterTools ==
  /\ Fields(EncodeFeatures, {"rows"}, {}, {}, {"rows"}, "features")
  /\ Fields(TrainWriter, {"rows", "features"}, {}, OnRows, {"rows"}, "writer")
  /\ Fields(TrainTagger, {"rows", "features", "writer"}, {}, OnRows, {"writer"}, "tagger")
  /\ Fields(ContinueTagger, {"rows", "features", "writer", "tagger"}, {},
            OnRows \union {<<"tagger", "writer">>}, {"writer"}, "tagger")
  /\ Fields(TrainKeys, {"rows", "features", "writer"}, {"tagger"}, OnRows, {"writer"}, "keys")
  /\ Fields(ContinueKeys, {"rows", "features", "writer", "keys"}, {"tagger"},
            OnRows \union {<<"keys", "writer">>}, {"writer"}, "keys")
  /\ Fields(TrainOperation, {"rows", "features", "writer"}, {"writerbin"}, OnRows,
            {"rows", "writer", "writerbin"}, "operation")
<1>1. Fields(EncodeFeatures, {"rows"}, {}, {}, {"rows"}, "features")
  BY DEF Fields, EncodeFeatures, Tool, Names
<1>2. Fields(TrainWriter, {"rows", "features"}, {}, OnRows, {"rows"}, "writer")
  BY DEF Fields, TrainWriter, Tool, Names
<1>3. Fields(TrainTagger, {"rows", "features", "writer"}, {}, OnRows, {"writer"}, "tagger")
  BY DEF Fields, TrainTagger, Tool, Names
<1>4. Fields(ContinueTagger, {"rows", "features", "writer", "tagger"}, {},
             OnRows \union {<<"tagger", "writer">>}, {"writer"}, "tagger")
  BY DEF Fields, ContinueTagger, TrainTagger, Tool, Names
<1>5. Fields(TrainKeys, {"rows", "features", "writer"}, {"tagger"}, OnRows, {"writer"}, "keys")
  BY DEF Fields, TrainKeys, Tool, Names
<1>6. Fields(ContinueKeys, {"rows", "features", "writer", "keys"}, {"tagger"},
             OnRows \union {<<"keys", "writer">>}, {"writer"}, "keys")
  BY DEF Fields, ContinueKeys, TrainKeys, Tool, Names
<1>7. Fields(TrainOperation, {"rows", "features", "writer"}, {"writerbin"}, OnRows,
             {"rows", "writer", "writerbin"}, "operation")
  BY DEF Fields, TrainOperation, Tool, Names
<1> QED  BY <1>1, <1>2, <1>3, <1>4, <1>5, <1>6, <1>7

LEMMA ExportTools ==
  /\ Fields(ExportWriter, {"writer", "tagger", "keys"}, {},
            {<<"tagger", "writer">>, <<"keys", "writer">>}, {}, "writerbin")
  /\ Fields(ExportWriterOperation, {"writer", "tagger", "keys", "operation"}, {},
            {<<"tagger", "writer">>, <<"keys", "writer">>, <<"operation", "writer">>}, {},
            "writerbin")
  /\ Fields(TuneFusion, {"rows", "features", "writer", "tagger", "keys"}, {}, OnRows, {}, "fusion")
  /\ Fields(WriterParity, {"rows", "features", "writer", "tagger", "keys"}, {}, OnRows, {},
           "parity")
  /\ Fields(TrainPair, {"rows", "features", "writer"}, {}, OnRows, {}, "pair")
  /\ Fields(ExportPair, {"pair"}, {}, {}, {}, "pairbin")
  /\ Fields(PairParity, {"pair"}, {}, {}, {}, "pairparity")
  /\ Fields(RuntimeParity, {"pair", "features"}, {}, {}, {}, "runtimeparity")
  /\ Fields(RuntimeLinkParity, {"pair", "features"}, {}, {}, {}, "runtimelinkparity")
<1>1. Fields(ExportWriter, {"writer", "tagger", "keys"}, {},
             {<<"tagger", "writer">>, <<"keys", "writer">>}, {}, "writerbin")
  BY DEF Fields, ExportWriter, Tool, Names
<1>2. Fields(ExportWriterOperation, {"writer", "tagger", "keys", "operation"}, {},
             {<<"tagger", "writer">>, <<"keys", "writer">>, <<"operation", "writer">>}, {},
             "writerbin")
  BY DEF Fields, ExportWriterOperation, ExportWriter, Tool, Names
<1>3. Fields(TuneFusion, {"rows", "features", "writer", "tagger", "keys"}, {}, OnRows, {}, "fusion")
  BY DEF Fields, TuneFusion, Tool, Names
<1>4. Fields(WriterParity, {"rows", "features", "writer", "tagger", "keys"}, {}, OnRows, {},
            "parity")
  BY DEF Fields, WriterParity, Tool, Names
<1>5. Fields(TrainPair, {"rows", "features", "writer"}, {}, OnRows, {}, "pair")
  BY DEF Fields, TrainPair, Tool, Names
<1>6. Fields(ExportPair, {"pair"}, {}, {}, {}, "pairbin")
  BY DEF Fields, ExportPair, Tool, Names
<1>7. Fields(PairParity, {"pair"}, {}, {}, {}, "pairparity")
  BY DEF Fields, PairParity, Tool, Names
<1>8. Fields(RuntimeParity, {"pair", "features"}, {}, {}, {}, "runtimeparity")
  BY DEF Fields, RuntimeParity, Tool, Names
<1>9. Fields(RuntimeLinkParity, {"pair", "features"}, {}, {}, {}, "runtimelinkparity")
  BY DEF Fields, RuntimeLinkParity, RuntimeParity, Tool, Names
<1> QED  BY <1>1, <1>2, <1>3, <1>4, <1>5, <1>6, <1>7, <1>8, <1>9

LEMMA HeadTools ==
  /\ Fields(CompileQueries, {"queries", "pair"}, {}, {}, {"queries", "pair"}, "qcache")
  /\ Fields(TrainQuery, {"qcache"}, {"queries", "pair"},
            {<<"qcache", "queries">>, <<"qcache", "pair">>}, {"pair"}, "query")
  /\ Fields(RetrainQuery, {"qcache"}, {"pair"}, {<<"qcache", "pair">>}, {"pair"}, "query")
  /\ Fields(ExportQuery, {"query"}, {"pair", "pairbin"}, {<<"query", "pair">>}, {"pairbin"},
            "querybin")
  /\ Fields(TrainLink, {"pair"}, {"pairbin"}, {}, {"pair"}, "link")
  /\ Fields(ExportLink, {"link"}, {}, {}, {}, "linkbin")
  /\ Fields(LinkParity, {"link"}, {}, {}, {}, "linkparity")
<1>1. Fields(CompileQueries, {"queries", "pair"}, {}, {}, {"queries", "pair"}, "qcache")
  BY DEF Fields, CompileQueries, Tool, Names
<1>2. Fields(TrainQuery, {"qcache"}, {"queries", "pair"},
             {<<"qcache", "queries">>, <<"qcache", "pair">>}, {"pair"}, "query")
  <2>1. {<<"qcache", p>> : p \in Names(CompileQueries)}
          = {<<"qcache", "queries">>, <<"qcache", "pair">>}
    BY <1>1 DEF Fields
  <2>2. TrainQuery.checks = {<<"qcache", "queries">>, <<"qcache", "pair">>}
    BY <2>1 DEF TrainQuery, Tool
  <2>3. /\ TrainQuery.reads = {"qcache"} /\ TrainQuery.needs = {"queries", "pair"}
        /\ TrainQuery.out = "query" /\ Names(TrainQuery) = {"pair"}
    BY DEF TrainQuery, Tool, Names
  <2> QED  BY <2>2, <2>3 DEF Fields
<1>3. Fields(RetrainQuery, {"qcache"}, {"pair"}, {<<"qcache", "pair">>}, {"pair"}, "query")
  BY DEF Fields, RetrainQuery, Tool, Names
<1>4. Fields(ExportQuery, {"query"}, {"pair", "pairbin"}, {<<"query", "pair">>}, {"pairbin"},
             "querybin")
  BY DEF Fields, ExportQuery, Tool, Names
<1>5. Fields(TrainLink, {"pair"}, {"pairbin"}, {}, {"pair"}, "link")
  BY DEF Fields, TrainLink, Tool, Names
<1>6. Fields(ExportLink, {"link"}, {}, {}, {}, "linkbin")
  BY DEF Fields, ExportLink, Tool, Names
<1>7. Fields(LinkParity, {"link"}, {}, {}, {}, "linkparity")
  BY DEF Fields, LinkParity, Tool, Names
<1> QED  BY <1>1, <1>2, <1>3, <1>4, <1>5, <1>6, <1>7

LEMMA ResidentTools ==
  /\ Fields(EncodeWorlds, {"rows"}, {}, {}, {"rows"}, "cache")
  /\ Fields(TrainMemorySet, {"rows", "cache"}, {}, {<<"cache", "rows">>}, {"rows"}, "baseline")
  /\ Fields(TrainIdentity, {"rows", "cache", "baseline"}, {},
            {<<"cache", "rows">>, <<"baseline", "rows">>}, {"rows", "cache", "baseline"},
            "resident")
  /\ Fields(ExportIdentity, {"resident"}, {}, {}, {"resident"}, "residentbin")
<1>1. Fields(EncodeWorlds, {"rows"}, {}, {}, {"rows"}, "cache")
  BY DEF Fields, EncodeWorlds, Tool, Names
<1>2. Fields(TrainMemorySet, {"rows", "cache"}, {}, {<<"cache", "rows">>}, {"rows"}, "baseline")
  BY DEF Fields, TrainMemorySet, Tool, Names
<1>3. Fields(TrainIdentity, {"rows", "cache", "baseline"}, {},
             {<<"cache", "rows">>, <<"baseline", "rows">>}, {"rows", "cache", "baseline"},
             "resident")
  BY DEF Fields, TrainIdentity, Tool, Names
<1>4. Fields(ExportIdentity, {"resident"}, {}, {}, {"resident"}, "residentbin")
  BY DEF Fields, ExportIdentity, Tool, Names
<1> QED  BY <1>1, <1>2, <1>3, <1>4

LEMMA FeatureTools ==
  /\ Fields(RegisterFeatures, {"features"}, {}, {}, {"features"}, "code")
  /\ Fields(CompileFeatures, {"corpus"}, {}, {}, {"corpus"}, "features")
  /\ Fields(AuditData, {"corpus"}, {}, {}, {"corpus"}, "dataaudit")
  /\ Fields(SmokeFeatures, {"corpus"}, {}, {}, {"corpus"}, "smoke")
  /\ Fields(FullPreflight, {"features", "smoke", "dataaudit"}, {}, {}, {"features", "smoke"},
            "fullpreflight")
  /\ Fields(ExportFixtures, {"features"}, {}, {}, {"features"}, "fixtures")
  /\ Fields(PackagePlatform, {"code", "modules", "fixtures"}, {}, {},
            {"code", "modules", "fixtures"}, "platform")
  /\ Fields(CudaPreflight, {"code", "modules", "fixtures", "platform"}, {},
            {<<"platform", "code">>, <<"platform", "modules">>}, {"fixtures", "platform"}, "cuda")
<1>1. Fields(RegisterFeatures, {"features"}, {}, {}, {"features"}, "code")
  BY DEF Fields, RegisterFeatures, Tool, Names
<1>2. Fields(CompileFeatures, {"corpus"}, {}, {}, {"corpus"}, "features")
  BY DEF Fields, CompileFeatures, Tool, Names
<1>3. Fields(AuditData, {"corpus"}, {}, {}, {"corpus"}, "dataaudit")
  BY DEF Fields, AuditData, Tool, Names
<1>4. Fields(SmokeFeatures, {"corpus"}, {}, {}, {"corpus"}, "smoke")
  BY DEF Fields, SmokeFeatures, CompileFeatures, Tool, Names
<1>5. Fields(FullPreflight, {"features", "smoke", "dataaudit"}, {}, {}, {"features", "smoke"},
             "fullpreflight")
  BY DEF Fields, FullPreflight, Tool, Names
<1>6. Fields(ExportFixtures, {"features"}, {}, {}, {"features"}, "fixtures")
  BY DEF Fields, ExportFixtures, Tool, Names
<1>7. Fields(PackagePlatform, {"code", "modules", "fixtures"}, {}, {},
             {"code", "modules", "fixtures"}, "platform")
  BY DEF Fields, PackagePlatform, Tool, Names, Sources
<1>8. Fields(CudaPreflight, {"code", "modules", "fixtures", "platform"}, {},
             {<<"platform", "code">>, <<"platform", "modules">>}, {"fixtures", "platform"}, "cuda")
  BY DEF Fields, CudaPreflight, Tool, Names, Sources, On
<1> QED  BY <1>1, <1>2, <1>3, <1>4, <1>5, <1>6, <1>7, <1>8

LEMMA LaunchTools ==
  /\ Fields(QualifyNative, {"code", "modules", "features"}, {}, {}, {"features", "modules"},
           "native")
  /\ Fields(TakeSnapshot, {"code", "modules", "features"}, {}, {<<"code", "features">>},
            {"code", "modules", "features"}, "snapshot")
  /\ Fields(PreflightOptimizer, {"code", "modules", "features", "snapshot"}, {},
            {<<"snapshot", "code">>, <<"snapshot", "modules">>, <<"code", "features">>},
            {"code", "modules", "features", "snapshot"}, "optimizer")
  /\ Fields(TrainJoint, {"code", "modules", "features", "snapshot", "optimizer"},
           {"native", "cuda"},
            {<<"snapshot", "code">>, <<"snapshot", "modules">>, <<"native", "modules">>,
             <<"code", "features">>, <<"optimizer", "code">>, <<"optimizer", "modules">>,
             <<"optimizer", "snapshot">>, <<"optimizer", "features">>},
            {"code", "modules", "features"}, "checkpoint")
  /\ Fields(QualifyRole, {"code", "features"}, {}, {<<"code", "features">>}, {"code", "features"},
            "native")
  /\ Fields(AuthorizeRole, {"code", "features", "native"}, {}, {}, {"code", "features", "native"},
            "authorization")
  /\ Fields(TrainRole, {"code", "features", "native", "authorization"}, {},
            {<<"authorization", "code">>, <<"authorization", "features">>,
             <<"authorization", "native">>, <<"native", "code">>, <<"native", "features">>,
             <<"code", "features">>}, {"code", "features"}, "checkpoint")
<1>1. Fields(QualifyNative, {"code", "modules", "features"}, {}, {}, {"features", "modules"},
            "native")
  BY DEF Fields, QualifyNative, Tool, Names, Sources
<1>2. Fields(TakeSnapshot, {"code", "modules", "features"}, {}, {<<"code", "features">>},
             {"code", "modules", "features"}, "snapshot")
  BY DEF Fields, TakeSnapshot, Tool, Names, Sources, Registered, On
<1>3. Fields(PreflightOptimizer, {"code", "modules", "features", "snapshot"}, {},
             {<<"snapshot", "code">>, <<"snapshot", "modules">>, <<"code", "features">>},
             {"code", "modules", "features", "snapshot"}, "optimizer")
  BY DEF Fields, PreflightOptimizer, Tool, Names, Sources, Registered, On
<1>4. Fields(TrainJoint, {"code", "modules", "features", "snapshot", "optimizer"},
            {"native", "cuda"},
             {<<"snapshot", "code">>, <<"snapshot", "modules">>, <<"native", "modules">>,
              <<"code", "features">>, <<"optimizer", "code">>, <<"optimizer", "modules">>,
              <<"optimizer", "snapshot">>, <<"optimizer", "features">>},
             {"code", "modules", "features"}, "checkpoint")
  BY DEF Fields, TrainJoint, TrainJointOnAnyPreflight, Tool, Names, Sources, Registered, On
<1>5. Fields(QualifyRole, {"code", "features"}, {}, {<<"code", "features">>}, {"code", "features"},
             "native")
  BY DEF Fields, QualifyRole, Tool, Names, Registered, On
<1>6. Fields(AuthorizeRole, {"code", "features", "native"}, {}, {}, {"code", "features", "native"},
             "authorization")
  BY DEF Fields, AuthorizeRole, Tool, Names
<1>7. Fields(TrainRole, {"code", "features", "native", "authorization"}, {},
             {<<"authorization", "code">>, <<"authorization", "features">>,
              <<"authorization", "native">>, <<"native", "code">>, <<"native", "features">>,
              <<"code", "features">>}, {"code", "features"}, "checkpoint")
  BY DEF Fields, TrainRole, Tool, Names, Registered, On
<1> QED  BY <1>1, <1>2, <1>3, <1>4, <1>5, <1>6, <1>7

LEMMA AvailabilityFields ==
  /\ Fields(CompileAvailability, {"corpus"}, {}, {}, {"corpus"}, "features")
  /\ Fields(AuditAvailability, {"corpus"}, {}, {}, {"corpus"}, "dataaudit")
  /\ Fields(BaselineAvailability, {"corpus"}, {"features"}, {}, {"corpus", "features"}, "reference")
  /\ Fields(AuthorizeAvailability, {"code", "features", "reference"}, {}, {},
            {"code", "features", "reference"}, "authorization")
  /\ Fields(TrainAvailability, {"code", "corpus", "features", "reference", "authorization"}, {},
            {<<"authorization", "code">>, <<"authorization", "features">>,
             <<"authorization", "reference">>, <<"reference", "features">>,
             <<"features", "corpus">>}, {"code", "features"}, "checkpoint")
<1>1. Fields(CompileAvailability, {"corpus"}, {}, {}, {"corpus"}, "features")
  BY FeatureTools DEF CompileAvailability
<1>2. Fields(AuditAvailability, {"corpus"}, {}, {}, {"corpus"}, "dataaudit")
  BY FeatureTools DEF AuditAvailability
<1>3. Fields(BaselineAvailability, {"corpus"}, {"features"}, {}, {"corpus", "features"},
            "reference")
  BY DEF Fields, BaselineAvailability, Tool, Names
<1>4. Fields(AuthorizeAvailability, {"code", "features", "reference"}, {}, {},
             {"code", "features", "reference"}, "authorization")
  BY DEF Fields, AuthorizeAvailability, Tool, Names
<1>5. Fields(TrainAvailability, {"code", "corpus", "features", "reference", "authorization"}, {},
             {<<"authorization", "code">>, <<"authorization", "features">>,
              <<"authorization", "reference">>, <<"reference", "features">>,
              <<"features", "corpus">>}, {"code", "features"}, "checkpoint")
  BY DEF Fields, TrainAvailability, Tool, Names, On
<1> QED  BY <1>1, <1>2, <1>3, <1>4, <1>5
-----------------------------------------------------------------------------
(* Every tool is wired, and the files of the pipeline are none of a          *)
(* campaign's.                                                               *)
PipelineOnly ==
  {"writer", "tagger", "keys", "operation", "writerbin", "pair", "pairbin", "query", "querybin",
   "link", "linkbin", "baseline", "resident", "residentbin"}

LEMMA FieldsWire ==
  ASSUME NEW t, NEW reads, NEW needs, NEW checks, NEW names, NEW out,
         Fields(t, reads, needs, checks, names, out),
         reads # {}, names \subseteq reads \union needs,
         \A c \in checks : c[1] \in reads \union needs /\ c[2] \in reads \union needs
  PROVE  Wired(t)
BY DEF Fields, Wired

LEMMA PipelineWired == \A t \in Pipeline : Wired(t) /\ t.out # "checkpoint"
<1> USE DEF Fields, Wired, OnRows
<1>1. /\ Wired(EncodeFeatures) /\ Wired(TrainWriter) /\ Wired(TrainTagger) /\ Wired(ContinueTagger)
      /\ Wired(TrainKeys) /\ Wired(ContinueKeys) /\ Wired(TrainOperation)
  BY WriterTools
<1>2. /\ Wired(ExportWriter) /\ Wired(ExportWriterOperation) /\ Wired(TuneFusion)
      /\ Wired(WriterParity) /\ Wired(TrainPair) /\ Wired(ExportPair) /\ Wired(PairParity)
      /\ Wired(RuntimeParity) /\ Wired(RuntimeLinkParity)
  BY ExportTools
<1>3. /\ Wired(CompileQueries) /\ Wired(TrainQuery) /\ Wired(RetrainQuery) /\ Wired(ExportQuery)
      /\ Wired(TrainLink) /\ Wired(ExportLink) /\ Wired(LinkParity)
  BY HeadTools
<1>4. /\ Wired(EncodeWorlds) /\ Wired(TrainMemorySet) /\ Wired(TrainIdentity)
      /\ Wired(ExportIdentity)
  BY ResidentTools
<1>5. \A t \in Pipeline : t.out # "checkpoint"
  BY WriterTools, ExportTools, HeadTools, ResidentTools DEF Pipeline
<1> HIDE DEF Fields, Wired, OnRows
<1> QED  BY <1>1, <1>2, <1>3, <1>4, <1>5 DEF Pipeline

LEMMA CampaignWired ==
  \A t \in JointTools \union RoleTools \union AvailabilityTools :
    Wired(t) /\ t.out \notin PipelineOnly
<1> USE DEF Fields, Wired, PipelineOnly
<1>1. \A t \in JointTools : Wired(t) /\ t.out \notin PipelineOnly
  BY FeatureTools, LaunchTools DEF JointTools
<1>2. \A t \in RoleTools : Wired(t) /\ t.out \notin PipelineOnly
  BY FeatureTools, LaunchTools DEF RoleTools
<1>3. \A t \in AvailabilityTools : Wired(t) /\ t.out \notin PipelineOnly
  BY AvailabilityFields DEF AvailabilityTools
<1> QED  BY <1>1, <1>2, <1>3

LEMMA LineIs ==
  ASSUME FilesOK
  PROVE  /\ line.roots \subseteq Roots /\ line.roots \intersect Outs = {}
         /\ \A t \in line.tools : Wired(t)
         /\ \/ line.tools \subseteq Pipeline \/ line.tools \subseteq JointTools
            \/ line.tools \subseteq RoleTools \/ line.tools \subseteq AvailabilityTools
<1>1. /\ line.roots \subseteq Roots /\ \A t \in line.tools : t.out \notin line.roots
      /\ \/ line.tools \subseteq Pipeline \/ line.tools \subseteq JointTools
         \/ line.tools \subseteq RoleTools \/ line.tools \subseteq AvailabilityTools
  BY LinesAssumption DEF FilesOK
<1>2. \A t \in line.tools : Wired(t)
  BY <1>1, PipelineWired, CampaignWired
<1>3. line.roots \intersect Outs = {}
  BY <1>1 DEF Outs
<1> QED  BY <1>1, <1>2, <1>3

LEMMA PathsOfTools ==
  ASSUME NEW t \in line.tools
  PROVE  t.out \in Paths(line) /\ t.reads \union t.needs \subseteq Paths(line) /\ t.out \in Outs
<1>1. {t.out} \union t.reads \union t.needs \subseteq Paths(line)
  BY DEF Paths
<1> QED  BY <1>1 DEF Outs

LEMMA OutsArePaths == Outs \subseteq Paths(line) /\ line.roots \subseteq Paths(line)
<1>1. Outs \subseteq Paths(line)
  BY PathsOfTools DEF Outs
<1> QED  BY <1>1 DEF Paths
-----------------------------------------------------------------------------
(* A step writes one file, and other files are as they were.                 *)
LEMMA WrittenGives ==
  ASSUME FilesOK, NEW y, Rewritten(y)
  PROVE  /\ FilesOK' /\ Paths(line)' = Paths(line) /\ Outs' = Outs /\ line' = line
         /\ y \in Paths(line) /\ disk[y].version \in Nat
         /\ disk'[y] \in FileStates /\ disk'[y].version = disk[y].version + 1
         /\ \A x \in Paths(line) : x # y => disk'[x] = disk[x]
         /\ \A x \in Paths(line) : disk[x] \in FileStates /\ disk[x].version \in Nat
<1>1. line' = line /\ y \in Paths(line)
  BY DEF Rewritten
<1>2. Paths(line)' = Paths(line) /\ Outs' = Outs /\ FileStates' = FileStates
  BY <1>1 DEF Paths, Outs, FileStates, Stamps
<1>3. PICK f \in FileStates : f.version = disk[y].version + 1 /\ disk' = [disk EXCEPT ![y] = f]
  BY DEF Rewritten
<1>4. disk \in [Paths(line) -> FileStates]
  BY DEF FilesOK
<1>5. \A x \in Paths(line) : disk[x] \in FileStates /\ disk[x].version \in Nat
  BY <1>4, LineageConstants DEF FileStates
<1>6. disk' \in [Paths(line) -> FileStates]
  BY <1>3, <1>4
<1>7. FilesOK'
  BY <1>1, <1>2, <1>6 DEF FilesOK
<1>8. disk'[y] = f /\ \A x \in Paths(line) : x # y => disk'[x] = disk[x]
  BY <1>1, <1>3, <1>4
<1> QED  BY <1>1, <1>2, <1>3, <1>5, <1>7, <1>8

(* So no other file names the new version.                                   *)
LEMMA OthersAgree ==
  ASSUME FilesOK, Past, NEW y, Rewritten(y), NEW h \in Paths(line), h # y, NEW p \in Paths(line)
  PROVE  /\ Agrees(h, p)' <=> Agrees(h, p) /\ p # y
         /\ p # y => Now(p)' = Now(p)
<1>1. /\ disk'[h] = disk[h] /\ disk'[y].version = disk[y].version + 1 /\ disk[y].version \in Nat
      /\ p # y => disk'[p] = disk[p]
  BY WrittenGives
<1>2. ASSUME p = y PROVE ~Agrees(h, p)'
  <2>1. SUFFICES ASSUME Agrees(h, p)' PROVE FALSE
    OBVIOUS
  <2>2. <<y, disk[y].version + 1>> \in disk[h].names
    BY <1>1, <1>2, <2>1 DEF Agrees, Now
  <2>3. disk[y].version + 1 <= disk[y].version
    BY <2>2 DEF Past
  <2> QED  BY <1>1, <2>3
<1>3. ASSUME p # y PROVE Now(p)' = Now(p)
  BY <1>1, <1>3 DEF Now
<1>4. ASSUME p # y PROVE Agrees(h, p)' <=> Agrees(h, p)
  BY <1>1, <1>3, <1>4 DEF Agrees
<1> QED  BY <1>2, <1>3, <1>4

LEMMA PastKept ==
  ASSUME FilesOK, Past, NEW y, Rewritten(y),
         \A u \in disk'[y].read \union disk'[y].used \union disk'[y].names :
           u[1] \in Paths(line) /\ u[2] <= disk[u[1]].version
  PROVE  Past'
<1>1. SUFFICES ASSUME NEW x \in Paths(line),
                      NEW u \in disk'[x].read \union disk'[x].used \union disk'[x].names
               PROVE  u[2] <= disk'[u[1]].version
  BY WrittenGives DEF Past
<1>2. u[1] \in Paths(line) /\ u[2] \in Nat /\ u[2] <= disk[u[1]].version
  <2>1. CASE x = y
    <3>1. u \in Stamps
      BY <1>1, <2>1, WrittenGives DEF FileStates
    <3> QED  BY <1>1, <2>1, <3>1, LineageConstants DEF Stamps
  <2>2. CASE x # y
    <3>1. disk'[x] = disk[x] /\ disk[x] \in FileStates
      BY <2>2, WrittenGives
    <3>2. u \in Stamps
      BY <1>1, <3>1 DEF FileStates
    <3> QED  BY <1>1, <3>1, <3>2, LineageConstants DEF Stamps, Past
  <2> QED  BY <2>1, <2>2
<1>3. disk'[u[1]] = disk[u[1]] \/ disk'[u[1]].version = disk[u[1]].version + 1
  BY <1>2, WrittenGives
<1>4. disk[u[1]].version \in Nat
  BY <1>2, WrittenGives
<1> QED  BY <1>2, <1>3, <1>4

(* What goes into a new file.                                                *)
LEMMA NewUsed ==
  ASSUME NEW t, Made(t)
  PROVE  \A u : u \in disk'[t.out].used <=>
                  \E p \in t.reads : u = Now(p) \/ u \in disk[p].used
BY DEF Made

Basics == FilesOK /\ Past /\ Blank /\ Copies

LEMMA MadeBasics ==
  ASSUME Basics, NEW t, Made(t)
  PROVE  Basics'
<1> DEFINE y == t.out
<1>1. FilesOK /\ Past /\ Blank /\ Copies /\ Rewritten(y) /\ t \in line.tools
  BY DEF Basics, Made
<1>2. /\ FilesOK' /\ Paths(line)' = Paths(line) /\ Outs' = Outs /\ line' = line
      /\ disk'[y].version = disk[y].version + 1 /\ disk[y].version \in Nat
      /\ \A x \in Paths(line) : x # y => disk'[x] = disk[x]
      /\ \A x \in Paths(line) : disk[x] \in FileStates /\ disk[x].version \in Nat
  BY <1>1, WrittenGives
<1>3. Wired(t) /\ y \in Outs /\ y \in Paths(line) /\ t.reads \union t.needs \subseteq Paths(line)
  BY <1>1, LineIs, PathsOfTools
<1>4. Past'
  <2>1. ASSUME NEW u \in disk'[y].read \union disk'[y].used \union disk'[y].names
        PROVE  u[1] \in Paths(line) /\ u[2] <= disk[u[1]].version
    <3>1. CASE \E p \in Paths(line) : u = Now(p)
      BY <1>2, <3>1 DEF Now
    <3>2. CASE \E p \in Paths(line) : u \in disk[p].used
      <4>1. PICK p \in Paths(line) : u \in disk[p].used
        BY <3>2
      <4>2. u \in Stamps
        BY <1>2, <4>1 DEF FileStates
      <4> QED  BY <1>1, <4>1, <4>2 DEF Past, Stamps
    <3>3. (\E p \in Paths(line) : u = Now(p)) \/ \E p \in Paths(line) : u \in disk[p].used
      <4>1. Names(t) \subseteq Paths(line)
        BY <1>3 DEF Wired
      <4>2. /\ disk'[y].read = {Now(p) : p \in t.reads}
            /\ disk'[y].used = {Now(p) : p \in t.reads} \union UNION {disk[p].used : p \in t.reads}
            /\ disk'[y].names = {Now(p) : p \in Names(t)}
        BY DEF Made
      <4> QED  BY <1>3, <2>1, <4>1, <4>2
    <3> QED  BY <3>1, <3>2, <3>3
  <2> QED  BY <1>1, <2>1, PastKept
<1>5. Blank'
  <2>1. ASSUME NEW x \in Paths(line), x # y
        PROVE  /\ ~Present(x)' \/ x \notin Outs =>
                    disk'[x].read = {} /\ disk'[x].used = {} /\ disk'[x].names = {}
               /\ x \notin Outs \union line.roots => ~Present(x)'
    BY <1>1, <1>2, <2>1 DEF Blank, Present
  <2>2. Present(y)'
    BY DEF Made
  <2> QED  BY <1>2, <1>3, <2>1, <2>2 DEF Blank
<1>6. Copies'
  <2>1. SUFFICES ASSUME NEW x \in Paths(line), NEW z \in Paths(line), disk'[x].read = {Now(z)'}
                 PROVE  disk'[x].used = {Now(z)'} \union disk'[z].used
    BY <1>2 DEF Copies
  <2>2. CASE x = y
    <3>1. disk'[y].read = {Now(p) : p \in t.reads} /\ t.reads # {}
      BY <1>3 DEF Made, Wired
    <3>2. \A p \in t.reads : Now(p) = Now(z)'
      BY <2>1, <2>2, <3>1
    <3>3. \A p \in t.reads : p = z /\ disk[p].version = disk'[z].version
      BY <3>2 DEF Now
    <3>4. z # y /\ t.reads = {z}
      BY <1>2, <1>3, <3>1, <3>3
    <3>5. disk'[z] = disk[z] /\ Now(z)' = Now(z)
      BY <1>2, <3>4 DEF Now
    <3> QED  BY <2>2, <3>4, <3>5 DEF Made
  <2>3. CASE x # y
    <3>1. disk'[x] = disk[x]
      BY <1>2, <2>3
    <3>2. z # y
      <4>1. SUFFICES ASSUME z = y PROVE FALSE
        OBVIOUS
      <4>2. <<y, disk[y].version + 1>> \in disk[x].read
        BY <1>2, <2>1, <3>1, <4>1 DEF Now
      <4>3. disk[y].version + 1 <= disk[y].version
        BY <1>1, <4>2 DEF Past
      <4> QED  BY <1>2, <4>3
    <3>3. disk'[z] = disk[z] /\ Now(z)' = Now(z)
      BY <1>2, <3>2 DEF Now
    <3> QED  BY <1>1, <2>1, <3>1, <3>3 DEF Copies
  <2> QED  BY <2>2, <2>3
<1> QED  BY <1>2, <1>4, <1>5, <1>6 DEF Basics

LEMMA LostBasics ==
  ASSUME Basics, NEW y, Lost(y)
  PROVE  Basics'
<1>1. FilesOK /\ Past /\ Blank /\ Copies /\ Rewritten(y) /\ y \in Outs \union line.roots
  BY DEF Basics, Lost
<1>2. /\ FilesOK' /\ Paths(line)' = Paths(line) /\ Outs' = Outs /\ line' = line
      /\ disk'[y].version = disk[y].version + 1 /\ disk[y].version \in Nat
      /\ \A x \in Paths(line) : x # y => disk'[x] = disk[x]
  BY <1>1, WrittenGives
<1>3. disk'[y].read = {} /\ disk'[y].used = {} /\ disk'[y].names = {}
  BY DEF Lost
<1>4. Past'
  BY <1>1, <1>3, PastKept
<1>5. Blank'
  <2>1. ASSUME NEW x \in Paths(line), x # y
        PROVE  /\ ~Present(x)' \/ x \notin Outs =>
                    disk'[x].read = {} /\ disk'[x].used = {} /\ disk'[x].names = {}
               /\ x \notin Outs \union line.roots => ~Present(x)'
    BY <1>1, <1>2, <2>1 DEF Blank, Present
  <2> QED  BY <1>1, <1>2, <1>3, <2>1 DEF Blank
<1>6. Copies'
  <2>1. SUFFICES ASSUME NEW x \in Paths(line), NEW z \in Paths(line), disk'[x].read = {Now(z)'}
                 PROVE  disk'[x].used = {Now(z)'} \union disk'[z].used
    BY <1>2 DEF Copies
  <2>2. x # y
    BY <1>3, <2>1
  <2>3. disk'[x] = disk[x]
    BY <1>2, <2>2
  <2>4. z # y
    <3>1. SUFFICES ASSUME z = y PROVE FALSE
      OBVIOUS
    <3>2. <<y, disk[y].version + 1>> \in disk[x].read
      BY <1>2, <2>1, <2>3, <3>1 DEF Now
    <3>3. disk[y].version + 1 <= disk[y].version
      BY <1>1, <3>2 DEF Past
    <3> QED  BY <1>2, <3>3
  <2>5. disk'[z] = disk[z] /\ Now(z)' = Now(z)
    BY <1>2, <2>4 DEF Now
  <2> QED  BY <1>1, <2>1, <2>3, <2>5 DEF Copies
<1> QED  BY <1>2, <1>4, <1>5, <1>6 DEF Basics
-----------------------------------------------------------------------------
(* One tool at a time: a step of the specification is one of these.          *)
LEMMA Alone ==
  ASSUME Together = 1, JobOK, Cardinality(jobs) < Together
  PROVE  jobs = {}
<1>1. ASSUME NEW j, jobs = {j} PROVE FALSE
  <2>1. Cardinality({j}) = 1
    BY FS_Singleton
  <2> QED  BY <1>1, <2>1
<1> QED  BY <1>1 DEF JobOK

LEMMA StepIs ==
  ASSUME Together = 1, FilesOK, JobOK, [LineageNext]_lineageVars
  PROVE  /\ JobOK'
         /\ \/ UNCHANGED <<line, disk>>
            \/ \E t \in line.tools : Made(t)
            \/ \E y \in Paths(line) : Lost(y)
<1>1. CASE UNCHANGED lineageVars
  <2>1. line' = line /\ disk' = disk /\ jobs' = jobs
    BY <1>1 DEF lineageVars
  <2>2. ASSUME NEW j, Loaded(j) PROVE Loaded(j)'
    BY <2>1, <2>2 DEF Loaded, Present, Agrees, Now
  <2> QED  BY <2>1, <2>2 DEF JobOK
<1>2. ASSUME NEW t \in line.tools, Begin(t) PROVE UNCHANGED <<line, disk>> /\ JobOK'
  <2> PICK j : j = [tool |-> t, read |-> {Now(p) : p \in t.reads},
                    used |-> UNION {disk[p].used : p \in t.reads},
                    fingerprints |-> {Now(p) : p \in t.early}]
    OBVIOUS
  <2>1. line' = line /\ disk' = disk
    BY <1>2 DEF Begin
  <2>2. jobs' = {j}
    BY <1>2, Alone DEF Begin
  <2>3. Loaded(j)
    BY <1>2 DEF Begin, Loaded
  <2>4. Loaded(j)'
    BY <2>1, <2>3 DEF Loaded, Present, Agrees, Now
  <2> QED  BY <2>1, <2>2, <2>4 DEF JobOK
<1>3. ASSUME NEW j \in jobs PROVE jobs \ {j} = {} /\ Loaded(j)
  BY <1>3 DEF JobOK
<1>4. ASSUME NEW j \in jobs, Finish(j) PROVE Made(j.tool) /\ j.tool \in line.tools /\ JobOK'
  <2> DEFINE t == j.tool
             f == [version |-> disk[t.out].version + 1, torn |-> FALSE, read |-> j.read,
                   used |-> j.read \union j.used, names |-> Origins(j)]
  <2>1. Loaded(j) /\ jobs' = {} /\ line' = line /\ disk' = [disk EXCEPT ![t.out] = f]
    BY <1>3, <1>4 DEF Finish
  <2>2. /\ t \in line.tools /\ Wired(t) /\ t.out \in Paths(line)
        /\ t.reads \union t.needs \subseteq Paths(line)
    BY <2>1, LineIs, PathsOfTools DEF Loaded
  <2>3. /\ j.read = {Now(p) : p \in t.reads} /\ j.used = UNION {disk[p].used : p \in t.reads}
        /\ j.fingerprints = {Now(p) : p \in t.early} /\ disk[t.out].version < MaxVersions
        /\ \A p \in t.reads \union t.needs : Present(p)
        /\ \A c \in t.checks : Agrees(c[1], c[2])
    BY <2>1 DEF Loaded
  <2>4. Origins(j) = {Now(p) : p \in Names(t)}
    BY <2>3 DEF Origins, Names
  <2>5. disk \in [Paths(line) -> FileStates] /\ MaxVersions \in Nat
    BY LineageConstants DEF FilesOK
  <2>6. \A p \in t.reads \union t.needs : Now(p) \in Stamps
    <3>1. SUFFICES ASSUME NEW p \in t.reads \union t.needs PROVE Now(p) \in Stamps
      OBVIOUS
    <3>2. p \in Paths(line) /\ disk[p].version \in 0..MaxVersions /\ disk[p].version > 0
      BY <2>2, <2>3, <2>5, <3>1 DEF FileStates, Present
    <3>3. disk[p].version \in 1..MaxVersions
      BY <2>5, <3>2
    <3> QED  BY <3>2, <3>3 DEF Now, Stamps
  <2>7. j.read \subseteq Stamps /\ Origins(j) \subseteq Stamps
    BY <2>2, <2>3, <2>4, <2>6 DEF Wired
  <2>8. j.used \subseteq Stamps
    <3>1. \A p \in t.reads : disk[p].used \subseteq Stamps
      BY <2>2, <2>5 DEF FileStates
    <3> QED  BY <2>3, <3>1
  <2>9. f.version \in 0..MaxVersions
    <3>1. disk[t.out].version \in 0..MaxVersions
      BY <2>2, <2>5 DEF FileStates
    <3> QED  BY <2>3, <2>5, <3>1
  <2>10. f \in FileStates
    BY <2>7, <2>8, <2>9 DEF FileStates
  <2>11. disk'[t.out] = f
    BY <2>1, <2>2, <2>5
  <2>12. Rewritten(t.out)
    BY <2>1, <2>2, <2>10 DEF Rewritten
  <2>13. Present(t.out)'
    <3>1. disk[t.out].version \in Nat
      BY <2>2, <2>5 DEF FileStates
    <3> QED  BY <2>11, <3>1 DEF Present
  <2>14. Made(t)
    BY <2>2, <2>3, <2>4, <2>11, <2>12, <2>13 DEF Made
  <2> QED  BY <2>1, <2>2, <2>14 DEF JobOK
<1>5. ASSUME NEW j \in jobs, Crash(j)
      PROVE  JobOK' /\ (UNCHANGED <<line, disk>> \/ \E y \in Paths(line) : Lost(y))
  <2> DEFINE y == j.tool.out
             f == [NoFile EXCEPT !.version = disk[y].version + 1, !.torn = TRUE]
  <2>1. Loaded(j) /\ jobs' = {} /\ line' = line
    BY <1>3, <1>5 DEF Crash
  <2>2. y \in Outs /\ y \in Paths(line) /\ disk[y].version < MaxVersions
    BY <2>1, PathsOfTools DEF Loaded
  <2>3. CASE UNCHANGED disk
    BY <2>1, <2>3 DEF JobOK
  <2>4. CASE disk' = [disk EXCEPT ![y] = f]
    <3>1. /\ f.version = disk[y].version + 1 /\ f.torn = TRUE
          /\ f.read = {} /\ f.used = {} /\ f.names = {}
      BY DEF NoFile
    <3>2. disk \in [Paths(line) -> FileStates] /\ MaxVersions \in Nat
      BY LineageConstants DEF FilesOK
    <3>3. disk[y].version + 1 \in 0..MaxVersions
      <4>1. disk[y].version \in 0..MaxVersions
        BY <2>2, <3>2 DEF FileStates
      <4> QED  BY <2>2, <3>2, <4>1
    <3>4. f \in FileStates
      BY <3>3 DEF FileStates, NoFile
    <3>5. disk'[y] = f
      BY <2>2, <2>4, <3>2
    <3> HIDE DEF f
    <3>6. Lost(y)
      BY <2>1, <2>2, <2>4, <3>1, <3>4, <3>5 DEF Lost, Rewritten, Present
    <3> QED  BY <2>1, <2>2, <3>6 DEF JobOK
  <2> QED  BY <1>5, <2>3, <2>4 DEF Crash
<1>6. ASSUME NEW y \in line.roots, Replace(y) PROVE JobOK' /\ \E z \in Paths(line) : Lost(z)
  <2> DEFINE f == [NoFile EXCEPT !.version = disk[y].version + 1]
  <2>1. /\ jobs' = {} /\ line' = line
        /\ disk' = [disk EXCEPT ![y] = f] /\ disk[y].version < MaxVersions
    BY <1>6, Alone DEF Replace
  <2>2. y \in Paths(line) /\ y \notin Outs
    BY LineIs, OutsArePaths
  <2>3. f.version = disk[y].version + 1 /\ f.read = {} /\ f.used = {} /\ f.names = {}
    BY DEF NoFile
  <2>4. disk \in [Paths(line) -> FileStates] /\ MaxVersions \in Nat
    BY LineageConstants DEF FilesOK
  <2>5. disk[y].version + 1 \in 0..MaxVersions
    <3>1. disk[y].version \in 0..MaxVersions
      BY <2>2, <2>4 DEF FileStates
    <3> QED  BY <2>1, <2>4, <3>1
  <2>6. f \in FileStates
    BY <2>5 DEF FileStates, NoFile
  <2>7. disk'[y] = f
    BY <2>1, <2>2, <2>4
  <2> HIDE DEF f
  <2>8. Lost(y)
    BY <2>1, <2>2, <2>3, <2>6, <2>7 DEF Lost, Rewritten
  <2> QED  BY <2>1, <2>2, <2>8 DEF JobOK
<1> QED  BY <1>1, <1>2, <1>4, <1>5, <1>6 DEF LineageNext

LEMMA InitBasics == ASSUME LineageInit PROVE Basics /\ JobOK
<1>1. line \in Lines /\ jobs = {} /\ MaxVersions \in Nat /\ MaxVersions >= 1
  BY LineageConstants DEF LineageInit
<1>2. [NoFile EXCEPT !.version = 1] \in FileStates /\ NoFile \in FileStates
  <2>1. 0 \in 0..MaxVersions /\ 1 \in 0..MaxVersions
    BY <1>1
  <2> QED  BY <2>1 DEF FileStates, NoFile
<1>3. \A x \in Paths(line) :
        disk[x] = IF x \in line.roots THEN [NoFile EXCEPT !.version = 1] ELSE NoFile
  BY DEF LineageInit
<1>4. \A x \in Paths(line) :
        /\ disk[x].read = {} /\ disk[x].used = {} /\ disk[x].names = {}
        /\ x \notin line.roots => disk[x].version = 0
  BY <1>3 DEF NoFile
<1>5. disk \in [Paths(line) -> FileStates]
  BY <1>2 DEF LineageInit
<1>6. FilesOK
  BY <1>1, <1>5 DEF FilesOK
<1>7. Past
  BY <1>4 DEF Past
<1>8. Blank
  BY <1>4 DEF Blank, Present
<1>9. Copies
  BY <1>4 DEF Copies
<1> QED  BY <1>1, <1>6, <1>7, <1>8, <1>9 DEF Basics, JobOK
-----------------------------------------------------------------------------
(* The pipeline of the resident bundle: what may be below a file; that the   *)
(* version a checkpoint names of a file is the one version of it that is     *)
(* below the checkpoint; that an export has one version, read directly.      *)
From(x, S) == x \in Paths(line) => \A u \in disk[x].used : u[1] \in S
Faithful(x, p) ==
  x \in Outs /\ Present(x) =>
    \E v \in 1..MaxVersions :
      VersionsOf(p, disk[x].used) = {v} /\ VersionsOf(p, disk[x].names) = {v}
Holds(x, p) ==
  x \in Outs /\ Present(x) =>
    \E v \in 1..MaxVersions :
      VersionsOf(p, disk[x].used) = {v} /\ <<p, v>> \in disk[x].read

Ancestry ==
  /\ From("rows", {}) /\ From("queries", {})
  /\ From("features", {"rows"}) /\ From("cache", {"rows"})
  /\ From("writer", {"rows", "features"}) /\ From("baseline", {"rows", "cache"})
  /\ From("pair", {"rows", "features", "writer"})
Faith ==
  /\ Faithful("features", "rows") /\ Faithful("writer", "rows")
  /\ Faithful("tagger", "writer") /\ Faithful("keys", "writer") /\ Faithful("operation", "writer")
  /\ Faithful("qcache", "pair") /\ Faithful("query", "pair") /\ Faithful("link", "pair")
  /\ Faithful("cache", "rows") /\ Faithful("baseline", "rows")
  /\ Faithful("resident", "rows") /\ Faithful("resident", "baseline")
  /\ Holds("writerbin", "writer") /\ Holds("pairbin", "pair")
PipelineInv == Ancestry /\ Faith

LEMMA NotBelow ==
  ASSUME NEW x \in Paths(line), NEW S, From(x, S), NEW q, q \notin S
  PROVE  VersionsOf(q, disk[x].used) = {}
BY DEF From, VersionsOf

LEMMA AgreesGives ==
  ASSUME FilesOK, Blank, NEW x \in Paths(line), NEW p, Faithful(x, p), Agrees(x, p)
  PROVE  VersionsOf(p, disk[x].used) = {disk[p].version} /\ disk[p].version \in 1..MaxVersions
<1>1. <<p, disk[p].version>> \in disk[x].names
  BY DEF Agrees, Now
<1>2. x \in Outs /\ Present(x)
  BY <1>1 DEF Blank
<1>3. PICK v \in 1..MaxVersions :
        VersionsOf(p, disk[x].used) = {v} /\ VersionsOf(p, disk[x].names) = {v}
  BY <1>2 DEF Faithful
<1>4. disk[x].names \subseteq Stamps
  BY DEF FilesOK, FileStates
<1>5. disk[p].version \in 1..MaxVersions
  BY <1>1, <1>4 DEF Stamps
<1>6. disk[p].version \in VersionsOf(p, disk[x].names)
  BY <1>1, <1>5 DEF VersionsOf
<1> QED  BY <1>3, <1>5, <1>6

(* One version of q goes into a new file if no input has another below it.   *)
LEMMA NewVersions ==
  ASSUME FilesOK, NEW t, Made(t), NEW q, NEW v \in 1..MaxVersions,
         \A p \in t.reads : VersionsOf(q, disk[p].used) \subseteq {v},
         q \in t.reads => disk[q].version = v,
         q \in t.reads \/ \E p \in t.reads : VersionsOf(q, disk[p].used) = {v}
  PROVE  VersionsOf(q, disk'[t.out].used) = {v}
<1>1. \A w \in 1..MaxVersions :
        <<q, w>> \in disk'[t.out].used <=>
          (q \in t.reads /\ w = disk[q].version) \/ \E p \in t.reads : w \in VersionsOf(q, disk[p].used)
  BY NewUsed DEF Now, VersionsOf
<1>2. \A w \in 1..MaxVersions : <<q, w>> \in disk'[t.out].used <=> w = v
  BY <1>1
<1> QED  BY <1>2 DEF VersionsOf

LEMMA NewNames ==
  ASSUME FilesOK, NEW t, Made(t), Wired(t), NEW q \in Names(t)
  PROVE  /\ disk[q].version \in 1..MaxVersions
         /\ VersionsOf(q, disk'[t.out].names) = {disk[q].version}
<1>1. t \in line.tools /\ q \in t.reads \union t.needs /\ Present(q)
  BY DEF Made, Wired
<1>2. q \in Paths(line)
  BY <1>1, PathsOfTools
<1>3. disk[q].version \in 0..MaxVersions /\ disk[q].version > 0 /\ MaxVersions \in Nat
  BY <1>1, <1>2, LineageConstants DEF FilesOK, FileStates, Present
<1>4. disk[q].version \in 1..MaxVersions
  BY <1>3
<1>5. \A w : <<q, w>> \in disk'[t.out].names <=> w = disk[q].version
  BY DEF Made, Now
<1> QED  BY <1>4, <1>5 DEF VersionsOf

LEMMA NewFaithful ==
  ASSUME FilesOK, NEW t, Made(t), Wired(t), NEW q \in Names(t),
         \A p \in t.reads : VersionsOf(q, disk[p].used) \subseteq {disk[q].version},
         q \in t.reads \/ \E p \in t.reads : VersionsOf(q, disk[p].used) = {disk[q].version}
  PROVE  Faithful(t.out, q)'
<1>1. /\ disk[q].version \in 1..MaxVersions
      /\ VersionsOf(q, disk'[t.out].names) = {disk[q].version}
  BY NewNames
<1>2. VersionsOf(q, disk'[t.out].used) = {disk[q].version}
  BY <1>1, NewVersions
<1> QED  BY <1>1, <1>2 DEF Faithful, VersionsOf

LEMMA NewHolds ==
  ASSUME FilesOK, NEW t, Made(t), NEW q \in t.reads,
         \A p \in t.reads : VersionsOf(q, disk[p].used) \subseteq {disk[q].version}
  PROVE  Holds(t.out, q)'
<1>1. t \in line.tools /\ Present(q) /\ q \in Paths(line)
  BY PathsOfTools DEF Made
<1>2. disk[q].version \in 0..MaxVersions /\ disk[q].version > 0 /\ MaxVersions \in Nat
  BY <1>1, LineageConstants DEF FilesOK, FileStates, Present
<1>3. disk[q].version \in 1..MaxVersions
  BY <1>2
<1>4. VersionsOf(q, disk'[t.out].used) = {disk[q].version}
  BY <1>3, NewVersions
<1>5. <<q, disk[q].version>> \in disk'[t.out].read
  BY DEF Made, Now
<1> QED  BY <1>3, <1>4, <1>5 DEF Holds, VersionsOf

LEMMA NewFrom ==
  ASSUME FilesOK, NEW t, Made(t), NEW S, t.reads \subseteq S,
         \A p \in t.reads : From(p, S)
  PROVE  From(t.out, S)'
<1>1. t \in line.tools /\ t.reads \subseteq Paths(line)
  BY PathsOfTools DEF Made
<1>2. SUFFICES ASSUME NEW u \in disk'[t.out].used PROVE u[1] \in S
  BY DEF From
<1>3. PICK p \in t.reads : u = Now(p) \/ u \in disk[p].used
  BY NewUsed
<1> QED  BY <1>1, <1>3 DEF From, Now

(* What is said of a file stays true while another is written, and is void   *)
(* of one that is lost.                                                      *)
LEMMA SaidOfOthers ==
  ASSUME FilesOK, NEW y, Rewritten(y), NEW x, x # y
  PROVE  /\ \A S : From(x, S) => From(x, S)'
         /\ \A p : Faithful(x, p) => Faithful(x, p)'
         /\ \A p : Holds(x, p) => Holds(x, p)'
<1>1. Paths(line)' = Paths(line) /\ Outs' = Outs /\ (x \in Paths(line) => disk'[x] = disk[x])
  BY WrittenGives
<1>2. Outs \subseteq Paths(line)
  BY OutsArePaths
<1>3. \A S : From(x, S) => From(x, S)'
  BY <1>1 DEF From
<1>4. x \in Outs => disk'[x] = disk[x] /\ (Present(x)' <=> Present(x))
  BY <1>1, <1>2 DEF Present
<1>5. \A p : Faithful(x, p) => Faithful(x, p)'
  BY <1>1, <1>4 DEF Faithful, VersionsOf
<1>6. \A p : Holds(x, p) => Holds(x, p)'
  BY <1>1, <1>4 DEF Holds, VersionsOf
<1> QED  BY <1>3, <1>5, <1>6

LEMMA SaidOfLost ==
  ASSUME FilesOK, NEW y, Lost(y)
  PROVE  (\A S : From(y, S)') /\ (\A p : Faithful(y, p)') /\ (\A p : Holds(y, p)')
<1>1. Outs' = Outs /\ disk'[y].used = {} /\ (~Present(y)' \/ y \notin Outs)
  BY WrittenGives DEF Lost
<1> QED  BY <1>1 DEF From, Faithful, Holds

LEMMA PipelineLost ==
  ASSUME FilesOK, PipelineInv, NEW y, Lost(y)
  PROVE  PipelineInv'
<1>1. Rewritten(y)
  BY DEF Lost
<1>2. ASSUME NEW x
      PROVE  /\ \A S : From(x, S) => From(x, S)'
             /\ \A p : Faithful(x, p) => Faithful(x, p)'
             /\ \A p : Holds(x, p) => Holds(x, p)'
  BY <1>1, SaidOfOthers, SaidOfLost
<1>3. Ancestry'
  BY <1>2 DEF PipelineInv, Ancestry
<1>4. Faith'
  BY <1>2 DEF PipelineInv, Faith
<1> QED  BY <1>3, <1>4 DEF PipelineInv
(* What the pipeline's tools read and compare, by what they write.           *)
ToolInputs(t) ==
  /\ t.out \notin {"rows", "queries"}
  /\ t.out = "features" => t.reads = {"rows"} /\ "rows" \in Names(t)
  /\ t.out = "cache" => t.reads = {"rows"} /\ "rows" \in Names(t)
  /\ t.out = "writer" =>
       t.reads = {"rows", "features"} /\ <<"features", "rows">> \in t.checks /\ "rows" \in Names(t)
  /\ t.out \in {"tagger", "keys", "operation"} =>
       /\ "writer" \in t.reads /\ t.reads \subseteq {"rows", "features", "writer", t.out}
       /\ t.out \in t.reads => <<t.out, "writer">> \in t.checks
       /\ "writer" \in Names(t)
  /\ t.out = "writerbin" =>
       /\ "writer" \in t.reads /\ t.reads \subseteq {"writer", "tagger", "keys", "operation"}
       /\ \A p \in t.reads \ {"writer"} : <<p, "writer">> \in t.checks
  /\ t.out = "pair" => t.reads = {"rows", "features", "writer"}
  /\ t.out = "pairbin" => t.reads = {"pair"}
  /\ t.out = "qcache" => t.reads = {"queries", "pair"} /\ "pair" \in Names(t)
  /\ t.out = "query" =>
       t.reads = {"qcache"} /\ <<"qcache", "pair">> \in t.checks /\ "pair" \in Names(t)
  /\ t.out = "link" => t.reads = {"pair"} /\ "pair" \in Names(t)
  /\ t.out = "baseline" =>
       t.reads = {"rows", "cache"} /\ <<"cache", "rows">> \in t.checks /\ "rows" \in Names(t)
  /\ t.out = "resident" =>
       /\ t.reads = {"rows", "cache", "baseline"} /\ {"rows", "baseline"} \subseteq Names(t)
       /\ {<<"cache", "rows">>, <<"baseline", "rows">>} \subseteq t.checks

LEMMA PipelineReads == \A t \in Pipeline : ToolInputs(t)
<1>1. /\ ToolInputs(EncodeFeatures) /\ ToolInputs(TrainWriter)
      /\ ToolInputs(TrainTagger) /\ ToolInputs(ContinueTagger)
  BY WriterTools DEF Fields, ToolInputs, OnRows
<1>2. ToolInputs(TrainKeys) /\ ToolInputs(ContinueKeys) /\ ToolInputs(TrainOperation)
  BY WriterTools DEF Fields, ToolInputs, OnRows
<1>3. ToolInputs(ExportWriter) /\ ToolInputs(ExportWriterOperation)
  BY ExportTools DEF Fields, ToolInputs
<1>4. /\ ToolInputs(TuneFusion) /\ ToolInputs(WriterParity)
      /\ ToolInputs(TrainPair) /\ ToolInputs(ExportPair)
      /\ ToolInputs(PairParity) /\ ToolInputs(RuntimeParity) /\ ToolInputs(RuntimeLinkParity)
  BY ExportTools DEF Fields, ToolInputs
<1>5. ToolInputs(CompileQueries) /\ ToolInputs(TrainQuery) /\ ToolInputs(RetrainQuery)
  BY HeadTools DEF Fields, ToolInputs
<1>6. /\ ToolInputs(ExportQuery) /\ ToolInputs(TrainLink)
      /\ ToolInputs(ExportLink) /\ ToolInputs(LinkParity)
  BY HeadTools DEF Fields, ToolInputs
<1>7. /\ ToolInputs(EncodeWorlds) /\ ToolInputs(TrainMemorySet)
      /\ ToolInputs(TrainIdentity) /\ ToolInputs(ExportIdentity)
  BY ResidentTools DEF Fields, ToolInputs
<1> QED  BY <1>1, <1>2, <1>3, <1>4, <1>5, <1>6, <1>7 DEF Pipeline

(* The files below a new one.                                                *)
LEMMA AncestryMade ==
  ASSUME Basics, Ancestry, NEW t \in Pipeline, Made(t)
  PROVE  Ancestry'
<1>1. FilesOK /\ Rewritten(t.out)
  BY DEF Basics, Made
<1>2. ASSUME NEW x, x # t.out PROVE \A S : From(x, S) => From(x, S)'
  BY <1>1, <1>2, SaidOfOthers
<1>3. \A S : t.reads \subseteq S /\ (\A p \in t.reads : From(p, S)) => From(t.out, S)'
  BY <1>1, NewFrom
<1>4. \A x, S, T : From(x, S) /\ S \subseteq T => From(x, T)
  BY DEF From
<1>5. From("rows", {})' /\ From("queries", {})'
  BY <1>2, PipelineReads DEF ToolInputs, Ancestry
<1>6. From("features", {"rows"})' /\ From("cache", {"rows"})'
  <2>1. \A p \in {"rows"} : From(p, {"rows"})
    BY <1>4 DEF Ancestry
  <2>2. t.out \in {"features", "cache"} => t.reads = {"rows"}
    BY PipelineReads DEF ToolInputs
  <2>3. t.out \in {"features", "cache"} => From(t.out, {"rows"})'
    BY <1>3, <2>1, <2>2
  <2> QED  BY <1>2, <2>3 DEF Ancestry
<1>7. From("writer", {"rows", "features"})'
  <2>1. \A p \in {"rows", "features"} : From(p, {"rows", "features"})
    BY <1>4 DEF Ancestry
  <2>2. t.out = "writer" => t.reads = {"rows", "features"}
    BY PipelineReads DEF ToolInputs
  <2>3. t.out = "writer" => From(t.out, {"rows", "features"})'
    BY <1>3, <2>1, <2>2
  <2> QED  BY <1>2, <2>3 DEF Ancestry
<1>8. From("baseline", {"rows", "cache"})'
  <2>1. \A p \in {"rows", "cache"} : From(p, {"rows", "cache"})
    BY <1>4 DEF Ancestry
  <2>2. t.out = "baseline" => t.reads = {"rows", "cache"}
    BY PipelineReads DEF ToolInputs
  <2>3. t.out = "baseline" => From(t.out, {"rows", "cache"})'
    BY <1>3, <2>1, <2>2
  <2> QED  BY <1>2, <2>3 DEF Ancestry
<1>9. From("pair", {"rows", "features", "writer"})'
  <2>1. \A p \in {"rows", "features", "writer"} : From(p, {"rows", "features", "writer"})
    BY <1>4 DEF Ancestry
  <2>2. t.out = "pair" => t.reads = {"rows", "features", "writer"}
    BY PipelineReads DEF ToolInputs
  <2>3. t.out = "pair" => From(t.out, {"rows", "features", "writer"})'
    BY <1>3, <2>1, <2>2
  <2> QED  BY <1>2, <2>3 DEF Ancestry
<1> QED  BY <1>5, <1>6, <1>7, <1>8, <1>9 DEF Ancestry

(* A new file is faithful: its tool compared what its inputs were made of    *)
(* with what it read.                                                        *)
LEMMA FaithOfNew ==
  ASSUME Basics, PipelineInv, NEW t \in Pipeline, Made(t)
  PROVE  /\ t.out \in {"features", "writer", "cache", "baseline", "resident"} =>
              Faithful(t.out, "rows")'
         /\ t.out \in {"tagger", "keys", "operation"} => Faithful(t.out, "writer")'
         /\ t.out \in {"qcache", "query", "link"} => Faithful(t.out, "pair")'
         /\ t.out = "resident" => Faithful(t.out, "baseline")'
         /\ t.out = "writerbin" => Holds(t.out, "writer")'
         /\ t.out = "pairbin" => Holds(t.out, "pair")'
<1>1. /\ FilesOK /\ Blank /\ Ancestry /\ Faith /\ Wired(t)
      /\ t.reads \subseteq Paths(line) /\ t \in line.tools
  BY LineIs, PathsOfTools DEF Basics, PipelineInv, Made
<1> DEFINE Only(q) == \A p \in t.reads : VersionsOf(q, disk[p].used) \subseteq {disk[q].version}
<1>2. \A q \in Names(t) :
        Only(q) /\ (q \in t.reads \/ \E p \in t.reads : VersionsOf(q, disk[p].used) = {disk[q].version})
          => Faithful(t.out, q)'
  BY <1>1, NewFaithful
<1>3. \A q \in t.reads : Only(q) => Holds(t.out, q)'
  BY <1>1, NewHolds
<1>4. ASSUME NEW p \in t.reads, NEW q, NEW S, From(p, S), q \notin S
      PROVE  VersionsOf(q, disk[p].used) = {}
  BY <1>1, <1>4, NotBelow
<1>5. ASSUME NEW p \in t.reads, NEW q, <<p, q>> \in t.checks, Faithful(p, q)
      PROVE  VersionsOf(q, disk[p].used) = {disk[q].version}
  <2>1. Agrees(p, q)
    <3>1. Agrees(<<p, q>>[1], <<p, q>>[2])
      BY <1>5 DEF Made
    <3> QED  BY <3>1
  <2> QED  BY <1>1, <1>5, <2>1, AgreesGives
<1> HIDE DEF Only
<1>6. ASSUME t.out \in {"features", "writer", "cache", "baseline", "resident"}
      PROVE  Faithful(t.out, "rows")'
  <2>1. /\ "rows" \in t.reads /\ t.reads \subseteq {"rows", "features", "cache", "baseline"}
        /\ \A p \in t.reads \ {"rows"} : <<p, "rows">> \in t.checks
        /\ "rows" \in Names(t)
    BY <1>6, PipelineReads DEF ToolInputs
  <2>2. VersionsOf("rows", disk["rows"].used) = {}
    BY <1>1, <1>4, <2>1 DEF Ancestry
  <2>3. \A p \in t.reads \ {"rows"} : Faithful(p, "rows")
    BY <1>1, <2>1 DEF Faith
  <2>4. Only("rows")
    BY <1>5, <2>1, <2>2, <2>3 DEF Only
  <2> QED  BY <1>2, <2>1, <2>4
<1>7. ASSUME t.out \in {"tagger", "keys", "operation"} PROVE Faithful(t.out, "writer")'
  <2>1. /\ "writer" \in t.reads /\ t.reads \subseteq {"rows", "features", "writer", t.out}
        /\ t.out \in t.reads => <<t.out, "writer">> \in t.checks
        /\ "writer" \in Names(t)
    BY <1>7, PipelineReads DEF ToolInputs
  <2>2. \A p \in t.reads \ {t.out} : VersionsOf("writer", disk[p].used) = {}
    BY <1>1, <1>4, <2>1 DEF Ancestry
  <2>3. Faithful(t.out, "writer")
    BY <1>1, <1>7 DEF Faith
  <2>4. Only("writer")
    BY <1>5, <2>1, <2>2, <2>3 DEF Only
  <2> QED  BY <1>2, <2>1, <2>4
<1>8. ASSUME t.out \in {"qcache", "link"} PROVE Faithful(t.out, "pair")'
  <2>1. "pair" \in t.reads /\ t.reads \subseteq {"queries", "pair"} /\ "pair" \in Names(t)
    BY <1>8, PipelineReads DEF ToolInputs
  <2>2. \A p \in t.reads : VersionsOf("pair", disk[p].used) = {}
    BY <1>1, <1>4, <2>1 DEF Ancestry
  <2>3. Only("pair")
    BY <2>2 DEF Only
  <2> QED  BY <1>2, <2>1, <2>3
<1>9. ASSUME t.out = "query" PROVE Faithful(t.out, "pair")'
  <2>1. t.reads = {"qcache"} /\ <<"qcache", "pair">> \in t.checks /\ "pair" \in Names(t)
    BY <1>9, PipelineReads DEF ToolInputs
  <2>2. VersionsOf("pair", disk["qcache"].used) = {disk["pair"].version}
    BY <1>1, <1>5, <2>1 DEF Faith
  <2>3. Only("pair")
    BY <2>1, <2>2 DEF Only
  <2> QED  BY <1>2, <2>1, <2>2, <2>3
<1>10. ASSUME t.out = "resident" PROVE Faithful(t.out, "baseline")'
  <2>1. t.reads = {"rows", "cache", "baseline"} /\ "baseline" \in Names(t)
    BY <1>10, PipelineReads DEF ToolInputs
  <2>2. \A p \in t.reads : VersionsOf("baseline", disk[p].used) = {}
    BY <1>1, <1>4, <2>1 DEF Ancestry
  <2>3. Only("baseline")
    BY <2>2 DEF Only
  <2> QED  BY <1>2, <2>1, <2>3
<1>11. ASSUME t.out = "writerbin" PROVE Holds(t.out, "writer")'
  <2>1. /\ "writer" \in t.reads /\ t.reads \subseteq {"writer", "tagger", "keys", "operation"}
        /\ \A p \in t.reads \ {"writer"} : <<p, "writer">> \in t.checks
    BY <1>11, PipelineReads DEF ToolInputs
  <2>2. VersionsOf("writer", disk["writer"].used) = {}
    BY <1>1, <1>4, <2>1 DEF Ancestry
  <2>3. \A p \in t.reads \ {"writer"} : Faithful(p, "writer")
    BY <1>1, <2>1 DEF Faith
  <2>4. Only("writer")
    BY <1>5, <2>1, <2>2, <2>3 DEF Only
  <2> QED  BY <1>3, <2>1, <2>4
<1>12. ASSUME t.out = "pairbin" PROVE Holds(t.out, "pair")'
  <2>1. t.reads = {"pair"}
    BY <1>12, PipelineReads DEF ToolInputs
  <2>2. VersionsOf("pair", disk["pair"].used) = {}
    BY <1>1, <1>4, <2>1 DEF Ancestry
  <2>3. Only("pair")
    BY <2>1, <2>2 DEF Only
  <2> QED  BY <1>3, <2>1, <2>3
<1> QED  BY <1>6, <1>7, <1>8, <1>9, <1>10, <1>11, <1>12

LEMMA PipelineMade ==
  ASSUME Basics, PipelineInv, NEW t \in Pipeline, Made(t)
  PROVE  PipelineInv'
<1>1. FilesOK /\ Rewritten(t.out) /\ Ancestry /\ Faith
  BY DEF Basics, Made, PipelineInv
<1>2. Ancestry'
  BY <1>1, AncestryMade
<1>3. ASSUME NEW x, x # t.out
      PROVE (\A p : Faithful(x, p) => Faithful(x, p)') /\ (\A p : Holds(x, p) => Holds(x, p)')
  BY <1>1, <1>3, SaidOfOthers
<1>4. /\ Faithful("features", "rows")' /\ Faithful("writer", "rows")' /\ Faithful("cache", "rows")'
      /\ Faithful("baseline", "rows")' /\ Faithful("resident", "rows")'
  BY <1>1, <1>3, FaithOfNew DEF Faith
<1>5. /\ Faithful("tagger", "writer")' /\ Faithful("keys", "writer")'
      /\ Faithful("operation", "writer")'
  BY <1>1, <1>3, FaithOfNew DEF Faith
<1>6. Faithful("qcache", "pair")' /\ Faithful("query", "pair")' /\ Faithful("link", "pair")'
  BY <1>1, <1>3, FaithOfNew DEF Faith
<1>7. Faithful("resident", "baseline")' /\ Holds("writerbin", "writer")' /\ Holds("pairbin", "pair")'
  BY <1>1, <1>3, FaithOfNew DEF Faith
<1> QED  BY <1>2, <1>4, <1>5, <1>6, <1>7 DEF PipelineInv, Faith

LEMMA PipelineInit == ASSUME LineageInit PROVE PipelineInv
<1>1. /\ Basics /\ \A x \in Paths(line) : disk[x].used = {}
      /\ \A x \in Outs : ~Present(x)
  <2>1. Basics
    BY InitBasics
  <2>2. line.roots \intersect Outs = {} /\ Outs \subseteq Paths(line)
    BY <2>1, LineIs, OutsArePaths DEF Basics
  <2>3. \A x \in Paths(line) :
          disk[x] = IF x \in line.roots THEN [NoFile EXCEPT !.version = 1] ELSE NoFile
    BY DEF LineageInit
  <2>4. \A x \in Paths(line) :
          disk[x].used = {} /\ (x \notin line.roots => disk[x].version = 0)
    BY <2>3 DEF NoFile
  <2> QED  BY <2>1, <2>2, <2>4 DEF Present
<1>2. /\ \A x, S : From(x, S)
      /\ \A x, p : Faithful(x, p) /\ Holds(x, p)
  BY <1>1 DEF From, Faithful, Holds
<1> QED  BY <1>2 DEF PipelineInv, Ancestry, Faith
-----------------------------------------------------------------------------
(* The campaigns.  While the certificates in cs agree with the files that are*)
(* there, what is below x is the present versions of ps and what the feature *)
(* package was made of.                                                      *)
Bound(ps) == {Now(p) : p \in ps} \union disk["features"].used
Chain(x, cs, ps) ==
  ({x} \union ps \subseteq Paths(line) /\ \A c \in cs : Agrees(c[1], c[2])) =>
    disk[x].used \subseteq Bound(ps)

(* A chain breaks whenever one of ps is written: each is in a certificate.   *)
Certified(x, cs, ps) ==
  /\ x \notin ps /\ "features" \in ps
  /\ \A p \in ps : \E c \in cs : c[2] = p /\ c[1] # p
  /\ \A c \in cs : c[1] \in {x} \union ps /\ c[2] \in ps

CodeChain == Chain("code", {<<"code", "features">>}, {"features"})
SnapshotChain ==
  Chain("snapshot", {<<"snapshot", "code">>, <<"snapshot", "modules">>, <<"code", "features">>},
        {"code", "modules", "features"})
OptimizerChain ==
  Chain("optimizer",
        {<<"optimizer", "code">>, <<"optimizer", "modules">>, <<"optimizer", "snapshot">>,
         <<"optimizer", "features">>, <<"snapshot", "code">>, <<"snapshot", "modules">>,
         <<"code", "features">>},
        {"code", "modules", "features", "snapshot"})
NativeChain ==
  Chain("native", {<<"native", "code">>, <<"native", "features">>, <<"code", "features">>},
        {"code", "features"})
RoleChain ==
  Chain("authorization",
        {<<"authorization", "code">>, <<"authorization", "features">>,
         <<"authorization", "native">>, <<"native", "code">>, <<"native", "features">>,
         <<"code", "features">>},
        {"code", "features", "native"})
ReferenceChain ==
  Chain("reference", {<<"reference", "features">>, <<"features", "corpus">>},
        {"features", "corpus"})
AvailabilityChain ==
  Chain("authorization",
        {<<"authorization", "code">>, <<"authorization", "features">>,
         <<"authorization", "reference">>, <<"reference", "features">>,
         <<"features", "corpus">>},
        {"code", "features", "reference", "corpus"})

(* The feature package is made of one corpus, and says so.                   *)
OneCorpus ==
  "features" \in Paths(line) =>
    LET about == disk["features"].used \union disk["features"].names
    IN \A u, w \in about : u = w /\ u[1] = "corpus"

Launched ==
  "checkpoint" \in Outs => LaunchedAsQualified

JointInv == OneCorpus /\ CodeChain /\ SnapshotChain /\ OptimizerChain /\ Launched
RoleInv == OneCorpus /\ CodeChain /\ NativeChain /\ RoleChain /\ Launched
AvailabilityInv == OneCorpus /\ ReferenceChain /\ AvailabilityChain /\ Launched

LEMMA ChainOfOthers ==
  ASSUME FilesOK, Past, NEW y, Rewritten(y), NEW x, x # y, NEW cs, NEW ps,
         Certified(x, cs, ps), Chain(x, cs, ps)
  PROVE  Chain(x, cs, ps)'
<1>1. Paths(line)' = Paths(line)
  BY WrittenGives
<1>2. SUFFICES ASSUME {x} \union ps \subseteq Paths(line), \A c \in cs : Agrees(c[1], c[2])'
               PROVE  disk'[x].used \subseteq Bound(ps)'
  BY <1>1 DEF Chain
<1>3. y \notin ps
  <2>1. SUFFICES ASSUME y \in ps PROVE FALSE
    OBVIOUS
  <2>2. PICK c \in cs : c[2] = y /\ c[1] # y
    BY <2>1 DEF Certified
  <2>3. c[1] \in Paths(line) /\ Agrees(c[1], c[2])'
    BY <1>2, <2>2 DEF Certified
  <2> QED  BY <1>2, <2>1, <2>2, <2>3, OthersAgree
<1>4. \A c \in cs : Agrees(c[1], c[2])
  <2>1. SUFFICES ASSUME NEW c \in cs PROVE Agrees(c[1], c[2])
    OBVIOUS
  <2>2. c[1] \in Paths(line) /\ c[2] \in Paths(line) /\ c[1] # y /\ Agrees(c[1], c[2])'
    BY <1>2, <1>3, <2>1 DEF Certified
  <2> QED  BY <2>2, OthersAgree
<1>5. disk[x].used \subseteq Bound(ps)
  BY <1>2, <1>4 DEF Chain
<1>6. /\ disk'[x] = disk[x] /\ \A p \in ps : disk'[p] = disk[p]
      /\ "features" \in ps
  BY <1>2, <1>3, WrittenGives DEF Certified
<1>7. Bound(ps)' = Bound(ps)
  BY <1>6 DEF Bound, Now
<1> QED  BY <1>5, <1>6, <1>7

LEMMA ChainOfLost ==
  ASSUME NEW y, Lost(y), NEW cs, NEW ps
  PROVE  Chain(y, cs, ps)'
BY DEF Chain, Lost

LEMMA ChainOfNew ==
  ASSUME FilesOK, Past, NEW t, Made(t), NEW cs, NEW ps, Certified(t.out, cs, ps),
         t.reads \subseteq ps,
         (\A c \in cs : c[1] # t.out => Agrees(c[1], c[2])) =>
            \A p \in t.reads : disk[p].used \subseteq Bound(ps)
  PROVE  Chain(t.out, cs, ps)'
<1> DEFINE y == t.out
<1>1. Paths(line)' = Paths(line) /\ Rewritten(y)
  BY WrittenGives DEF Made
<1>2. SUFFICES ASSUME {y} \union ps \subseteq Paths(line), \A c \in cs : Agrees(c[1], c[2])'
               PROVE  disk'[y].used \subseteq Bound(ps)'
  BY <1>1 DEF Chain
<1>3. \A c \in cs : c[1] # y => Agrees(c[1], c[2])
  <2>1. SUFFICES ASSUME NEW c \in cs, c[1] # y PROVE Agrees(c[1], c[2])
    OBVIOUS
  <2>2. c[1] \in Paths(line) /\ c[2] \in Paths(line) /\ Agrees(c[1], c[2])'
    BY <1>2, <2>1 DEF Certified
  <2> QED  BY <1>1, <2>1, <2>2, OthersAgree
<1>4. \A p \in t.reads : disk[p].used \subseteq Bound(ps) /\ Now(p) \in Bound(ps)
  BY <1>3 DEF Bound
<1>5. \A p \in ps : disk'[p] = disk[p]
  BY <1>1, <1>2, WrittenGives DEF Certified
<1>6. Bound(ps)' = Bound(ps)
  BY <1>5 DEF Bound, Now, Certified
<1>7. \A u \in disk'[y].used : u \in Bound(ps)
  BY <1>4, NewUsed
<1> QED  BY <1>6, <1>7

LEMMA ChainGives ==
  ASSUME NEW x, NEW cs, NEW qs, Chain(x, cs, qs), {x} \union qs \subseteq Paths(line),
         \A c \in cs : Agrees(c[1], c[2]), NEW ps, qs \subseteq ps
  PROVE  disk[x].used \subseteq Bound(ps)
BY DEF Chain, Bound

LEMMA CorpusOfOthers ==
  ASSUME FilesOK, OneCorpus, NEW y, Rewritten(y), y # "features"
  PROVE  OneCorpus'
BY WrittenGives DEF OneCorpus

LEMMA CorpusOfLost ==
  ASSUME FilesOK, OneCorpus, NEW y, Lost(y)
  PROVE  OneCorpus'
<1>1. CASE y = "features"
  BY <1>1 DEF OneCorpus, Lost
<1>2. CASE y # "features"
  BY <1>2, CorpusOfOthers DEF Lost
<1> QED  BY <1>1, <1>2

LEMMA CorpusOfNew ==
  ASSUME Basics, NEW t, Made(t), t.out = "features", t.reads = {"corpus"}, Names(t) = {"corpus"},
         "corpus" \notin Outs
  PROVE  OneCorpus'
<1>1. "corpus" \in Paths(line)
  BY PathsOfTools DEF Made
<1>2. disk["corpus"].used = {}
  BY <1>1 DEF Basics, Blank
<1>3. \A u \in disk'["features"].used \union disk'["features"].names : u = Now("corpus")
  BY <1>2 DEF Made
<1>4. Now("corpus")[1] = "corpus"
  BY DEF Now
<1> QED  BY <1>3, <1>4 DEF OneCorpus

LEMMA LaunchedOfOthers ==
  ASSUME FilesOK, Launched, NEW y, Rewritten(y), y # "checkpoint"
  PROVE  Launched'
<1>1. Paths(line)' = Paths(line) /\ Outs' = Outs /\ Outs \subseteq Paths(line)
  BY WrittenGives, OutsArePaths
<1>2. SUFFICES ASSUME "checkpoint" \in Outs PROVE LaunchedAsQualified'
  BY <1>1 DEF Launched
<1>3. LaunchedAsQualified /\ disk'["checkpoint"] = disk["checkpoint"]
      /\ "checkpoint" \in DOMAIN disk /\ "checkpoint" \in DOMAIN disk'
  BY <1>1, <1>2, WrittenGives DEF Launched, FilesOK
<1>4. Has("checkpoint")' <=> Has("checkpoint")
  BY <1>3 DEF Has, Present
<1> QED  BY <1>3, <1>4 DEF LaunchedAsQualified, VersionsOf

LEMMA LaunchedOfLost ==
  ASSUME FilesOK, Launched, NEW y, Lost(y)
  PROVE  Launched'
<1>1. CASE y = "checkpoint"
  <2>1. Outs' = Outs /\ ("checkpoint" \in Outs => ~Present("checkpoint")')
    BY <1>1, WrittenGives DEF Lost
  <2> QED  BY <2>1 DEF Launched, LaunchedAsQualified, Has
<1>2. CASE y # "checkpoint"
  BY <1>2, LaunchedOfOthers DEF Lost
<1> QED  BY <1>1, <1>2

(* What is launched has below it the present version of what it was admitted *)
(* with and one corpus.                                                      *)
LEMMA LaunchedOfNew ==
  ASSUME Basics, OneCorpus, NEW t, Made(t), Wired(t), t.out = "checkpoint",
         {"code", "features"} \subseteq t.reads, {"code", "features"} \subseteq Names(t),
         \A p \in t.reads : disk[p].used \subseteq Bound(t.reads),
         "corpus" \in t.reads => Agrees("features", "corpus")
  PROVE  Launched'
<1>1. /\ FilesOK /\ t \in line.tools /\ t.reads \subseteq Paths(line)
      /\ "features" \in Paths(line)
  BY PathsOfTools DEF Basics, Made
<1>2. \A u \in disk["features"].used : u[1] = "corpus"
  BY <1>1 DEF OneCorpus
<1>3. \A u \in disk'["checkpoint"].used :
        (\E p \in t.reads : u = Now(p)) \/ u \in disk["features"].used
  BY NewUsed DEF Bound
<1>4. \A p \in t.reads : Now(p) \in disk'["checkpoint"].used
  BY NewUsed
<1>5. \A p \in Names(t) : disk[p].version \in 1..MaxVersions
  BY <1>1, NewNames
<1>6. ASSUME NEW p \in {"code", "features"}
      PROVE  /\ {<<p, v>> : v \in VersionsOf(p, disk'["checkpoint"].used)} = {Now(p)}
             /\ {n \in disk'["checkpoint"].names : n[1] = p} = {Now(p)}
             /\ VersionsOf(p, disk'["checkpoint"].used) = {disk[p].version}
  <2>1. disk[p].version \in 1..MaxVersions /\ p \in t.reads /\ p \in Names(t)
    BY <1>5
  <2>2. \A v \in 1..MaxVersions : <<p, v>> \in disk'["checkpoint"].used <=> v = disk[p].version
    BY <1>2, <1>3, <1>4, <2>1 DEF Now
  <2>3. VersionsOf(p, disk'["checkpoint"].used) = {disk[p].version}
    BY <2>1, <2>2 DEF VersionsOf
  <2>4. disk'["checkpoint"].names = {Now(q) : q \in Names(t)}
    BY DEF Made
  <2>5. {n \in disk'["checkpoint"].names : n[1] = p} = {Now(p)}
    BY <2>1, <2>4 DEF Now
  <2>6. {<<p, v>> : v \in {disk[p].version}} = {Now(p)}
    BY DEF Now
  <2> QED  BY <2>3, <2>5, <2>6
<1>7. ASSUME NEW p \in {"modules", "corpus"}
      PROVE  \E v : VersionsOf(p, disk'["checkpoint"].used) \subseteq {v}
  <2>1. CASE p = "modules"
    <3>1. VersionsOf(p, disk'["checkpoint"].used) \subseteq {disk[p].version}
      BY <1>2, <1>3, <2>1 DEF VersionsOf, Now
    <3> QED  BY <3>1
  <2>2. CASE p = "corpus" /\ p \in t.reads
    <3>1. Now("corpus") \in disk["features"].names
      BY <2>2 DEF Agrees
    <3>2. \A u \in disk["features"].used : u = Now("corpus")
      BY <1>1, <3>1 DEF OneCorpus
    <3>3. VersionsOf(p, disk'["checkpoint"].used) \subseteq {disk[p].version}
      BY <1>3, <2>2, <3>2 DEF VersionsOf, Now
    <3> QED  BY <3>3
  <2>3. CASE p = "corpus" /\ p \notin t.reads
    <3>1. \A v \in VersionsOf(p, disk'["checkpoint"].used) : <<p, v>> \in disk["features"].used
      BY <1>3, <2>3 DEF VersionsOf, Now
    <3>2. ASSUME NEW v \in VersionsOf(p, disk'["checkpoint"].used),
                 NEW w \in VersionsOf(p, disk'["checkpoint"].used)
          PROVE  v = w
      <4>1. <<p, v>> = <<p, w>>
        BY <1>1, <3>1 DEF OneCorpus
      <4> QED  BY <4>1
    <3> QED  BY <3>2
  <2> QED  BY <2>1, <2>2, <2>3
<1>8. ASSUME NEW p \in {"code", "features", "modules", "corpus"}
      PROVE  Cardinality(VersionsOf(p, disk'["checkpoint"].used)) <= 1
  <2>1. PICK v : VersionsOf(p, disk'["checkpoint"].used) \subseteq {v}
    BY <1>6, <1>7
  <2>2. VersionsOf(p, disk'["checkpoint"].used) \in {{}, {v}}
    BY <2>1
  <2>3. Cardinality({v}) = 1 /\ Cardinality({}) = 0
    BY FS_Singleton, FS_EmptySet
  <2> QED  BY <2>2, <2>3
<1>9. /\ \A p \in {"code", "features"} :
           {<<p, v>> : v \in VersionsOf(p, disk'["checkpoint"].used)}
             = {n \in disk'["checkpoint"].names : n[1] = p}
  BY <1>6
<1>10. LaunchedAsQualified'
  BY <1>8, <1>9 DEF LaunchedAsQualified, VersionsOf
<1> QED  BY <1>10 DEF Launched
-----------------------------------------------------------------------------
(* CG-003, CG-002 and CG-001: what their tools read and compare, by what they*)
(* write.                                                                    *)
FeatureInputs(t) ==
  /\ t.out \notin {"modules", "corpus"}
  /\ t.out = "features" => t.reads = {"corpus"} /\ Names(t) = {"corpus"}
JointInputs(t) ==
  /\ FeatureInputs(t)
  /\ t.out = "code" => t.reads = {"features"}
  /\ t.out = "snapshot" =>
       t.reads = {"code", "modules", "features"} /\ <<"code", "features">> \in t.checks
  /\ t.out = "optimizer" =>
       /\ t.reads = {"code", "modules", "features", "snapshot"}
       /\ {<<"snapshot", "code">>, <<"snapshot", "modules">>, <<"code", "features">>}
            \subseteq t.checks
  /\ t.out = "checkpoint" =>
       /\ t.reads = {"code", "modules", "features", "snapshot", "optimizer"}
       /\ Names(t) = {"code", "modules", "features"}
       /\ {<<"optimizer", "code">>, <<"optimizer", "modules">>, <<"optimizer", "snapshot">>,
           <<"optimizer", "features">>, <<"snapshot", "code">>, <<"snapshot", "modules">>,
           <<"code", "features">>} \subseteq t.checks
RoleInputs(t) ==
  /\ t.out \notin {"modules", "corpus", "features"}
  /\ t.out = "code" => t.reads = {"features"}
  /\ t.out = "native" => t.reads = {"code", "features"} /\ <<"code", "features">> \in t.checks
  /\ t.out = "authorization" => t.reads = {"code", "features", "native"}
  /\ t.out = "checkpoint" =>
       /\ t.reads = {"code", "features", "native", "authorization"}
       /\ Names(t) = {"code", "features"}
       /\ {<<"authorization", "code">>, <<"authorization", "features">>,
           <<"authorization", "native">>, <<"native", "code">>, <<"native", "features">>,
           <<"code", "features">>} \subseteq t.checks
AvailabilityInputs(t) ==
  /\ t.out # "code" /\ FeatureInputs(t)
  /\ t.out = "reference" => t.reads = {"corpus"}
  /\ t.out = "authorization" => t.reads = {"code", "features", "reference"}
  /\ t.out = "checkpoint" =>
       /\ t.reads = {"code", "corpus", "features", "reference", "authorization"}
       /\ Names(t) = {"code", "features"}
       /\ {<<"authorization", "code">>, <<"authorization", "features">>,
           <<"authorization", "reference">>, <<"reference", "features">>,
           <<"features", "corpus">>} \subseteq t.checks

LEMMA CampaignReads ==
  /\ \A t \in JointTools : JointInputs(t)
  /\ \A t \in RoleTools : RoleInputs(t)
  /\ \A t \in AvailabilityTools : AvailabilityInputs(t)
<1>1. \A t \in JointTools : JointInputs(t)
  <2>1. /\ JointInputs(RegisterFeatures) /\ JointInputs(CompileFeatures) /\ JointInputs(AuditData)
        /\ JointInputs(SmokeFeatures) /\ JointInputs(FullPreflight) /\ JointInputs(ExportFixtures)
        /\ JointInputs(PackagePlatform) /\ JointInputs(CudaPreflight)
    BY FeatureTools DEF Fields, JointInputs, FeatureInputs
  <2>2. JointInputs(QualifyNative) /\ JointInputs(TakeSnapshot) /\ JointInputs(PreflightOptimizer)
    BY LaunchTools DEF Fields, JointInputs, FeatureInputs
  <2>3. JointInputs(TrainJoint)
    BY LaunchTools DEF Fields, JointInputs, FeatureInputs
  <2> QED  BY <2>1, <2>2, <2>3 DEF JointTools
<1>2. \A t \in RoleTools : RoleInputs(t)
  <2>1. RoleInputs(RegisterFeatures)
    BY FeatureTools DEF Fields, RoleInputs
  <2>2. RoleInputs(QualifyRole) /\ RoleInputs(AuthorizeRole) /\ RoleInputs(TrainRole)
    BY LaunchTools DEF Fields, RoleInputs
  <2> QED  BY <2>1, <2>2 DEF RoleTools
<1>3. \A t \in AvailabilityTools : AvailabilityInputs(t)
  BY AvailabilityFields DEF Fields, AvailabilityInputs, FeatureInputs, AvailabilityTools
<1> QED  BY <1>1, <1>2, <1>3

LEMMA ChainsCertified ==
  /\ Certified("code", {<<"code", "features">>}, {"features"})
  /\ Certified("snapshot",
        {<<"snapshot", "code">>, <<"snapshot", "modules">>, <<"code", "features">>},
        {"code", "modules", "features"})
  /\ Certified("optimizer",
        {<<"optimizer", "code">>, <<"optimizer", "modules">>, <<"optimizer", "snapshot">>,
         <<"optimizer", "features">>, <<"snapshot", "code">>, <<"snapshot", "modules">>,
         <<"code", "features">>},
        {"code", "modules", "features", "snapshot"})
  /\ Certified("native",
        {<<"native", "code">>, <<"native", "features">>, <<"code", "features">>},
        {"code", "features"})
  /\ Certified("authorization",
        {<<"authorization", "code">>, <<"authorization", "features">>,
         <<"authorization", "native">>, <<"native", "code">>, <<"native", "features">>,
         <<"code", "features">>},
        {"code", "features", "native"})
  /\ Certified("reference", {<<"reference", "features">>, <<"features", "corpus">>},
        {"features", "corpus"})
  /\ Certified("authorization",
        {<<"authorization", "code">>, <<"authorization", "features">>,
         <<"authorization", "reference">>, <<"reference", "features">>,
         <<"features", "corpus">>},
        {"code", "features", "reference", "corpus"})
BY DEF Certified

(* Each chain stays while another file is written, and when its own is lost. *)
LEMMA ChainsOfOthers ==
  ASSUME FilesOK, Past, NEW y, Rewritten(y)
  PROVE  /\ CodeChain /\ y # "code" => CodeChain'
         /\ SnapshotChain /\ y # "snapshot" => SnapshotChain'
         /\ OptimizerChain /\ y # "optimizer" => OptimizerChain'
         /\ NativeChain /\ y # "native" => NativeChain'
         /\ RoleChain /\ y # "authorization" => RoleChain'
         /\ ReferenceChain /\ y # "reference" => ReferenceChain'
         /\ AvailabilityChain /\ y # "authorization" => AvailabilityChain'
<1>1. \A x, cs, ps : x # y /\ Certified(x, cs, ps) /\ Chain(x, cs, ps) => Chain(x, cs, ps)'
  BY ChainOfOthers
<1>2. /\ CodeChain /\ y # "code" => CodeChain'
      /\ SnapshotChain /\ y # "snapshot" => SnapshotChain'
      /\ OptimizerChain /\ y # "optimizer" => OptimizerChain'
  BY <1>1, ChainsCertified DEF CodeChain, SnapshotChain, OptimizerChain
<1>3. /\ NativeChain /\ y # "native" => NativeChain'
      /\ RoleChain /\ y # "authorization" => RoleChain'
  BY <1>1, ChainsCertified DEF NativeChain, RoleChain
<1>4. /\ ReferenceChain /\ y # "reference" => ReferenceChain'
      /\ AvailabilityChain /\ y # "authorization" => AvailabilityChain'
  BY <1>1, ChainsCertified DEF ReferenceChain, AvailabilityChain
<1> QED  BY <1>2, <1>3, <1>4

LEMMA ChainsOfLost ==
  ASSUME FilesOK, Past, NEW y, Lost(y)
  PROVE  /\ CodeChain => CodeChain'
         /\ SnapshotChain => SnapshotChain'
         /\ OptimizerChain => OptimizerChain'
         /\ NativeChain => NativeChain'
         /\ RoleChain => RoleChain'
         /\ ReferenceChain => ReferenceChain'
         /\ AvailabilityChain => AvailabilityChain'
<1>1. Rewritten(y)
  BY DEF Lost
<1>2. \A cs, ps : Chain(y, cs, ps)'
  BY ChainOfLost
<1>3. /\ y = "code" => CodeChain'
      /\ y = "snapshot" => SnapshotChain'
      /\ y = "optimizer" => OptimizerChain'
      /\ y = "native" => NativeChain'
      /\ y = "authorization" => RoleChain' /\ AvailabilityChain'
      /\ y = "reference" => ReferenceChain'
  BY <1>2 DEF CodeChain, SnapshotChain, OptimizerChain, NativeChain, RoleChain, ReferenceChain,
              AvailabilityChain
<1> QED  BY <1>1, <1>3, ChainsOfOthers

LEMMA CampaignsLost ==
  ASSUME FilesOK, Past, NEW y, Lost(y)
  PROVE  /\ JointInv => JointInv'
         /\ RoleInv => RoleInv'
         /\ AvailabilityInv => AvailabilityInv'
BY ChainsOfLost, CorpusOfLost, LaunchedOfLost DEF JointInv, RoleInv, AvailabilityInv

(* Below a file no tool of the line makes there is nothing.                  *)
LEMMA Bottom ==
  ASSUME Basics, NEW x \in Paths(line), x \notin Outs
  PROVE  disk[x].used = {}
BY DEF Basics, Blank

LEMMA CheckedOf ==
  ASSUME NEW t, Made(t), NEW cs, cs \subseteq t.checks
  PROVE  \A c \in cs : Agrees(c[1], c[2])
BY DEF Made

LEMMA JointMade ==
  ASSUME Basics, line.tools \subseteq JointTools, JointInv, NEW t, Made(t)
  PROVE  JointInv'
<1>1. /\ FilesOK /\ Past /\ Rewritten(t.out) /\ t \in line.tools /\ Wired(t) /\ JointInputs(t)
      /\ t.reads \subseteq Paths(line) /\ t.out \in Paths(line)
  BY LineIs, PathsOfTools, CampaignReads DEF Basics, Made
<1>2. OneCorpus /\ CodeChain /\ SnapshotChain /\ OptimizerChain /\ Launched
  BY DEF JointInv
<1>3. "modules" \notin Outs /\ "corpus" \notin Outs
  BY CampaignReads DEF Outs, JointInputs, FeatureInputs
<1>4. \A ps : disk["features"].used \subseteq Bound(ps)
  BY DEF Bound
<1>5. "modules" \in Paths(line) => disk["modules"].used = {}
  BY <1>3, Bottom
<1>6. OneCorpus'
  BY <1>1, <1>2, <1>3, CorpusOfNew, CorpusOfOthers DEF JointInputs, FeatureInputs
<1>7. CodeChain'
  <2>1. CASE t.out = "code"
    <3>1. t.reads = {"features"} /\ \A p \in t.reads : disk[p].used \subseteq Bound({"features"})
      BY <1>1, <1>4, <2>1 DEF JointInputs
    <3> QED  BY <1>1, <2>1, <3>1, ChainsCertified, ChainOfNew DEF CodeChain
  <2> QED  BY <1>1, <1>2, <2>1, ChainsOfOthers
<1>8. SnapshotChain'
  <2>1. CASE t.out = "snapshot"
    <3> DEFINE ps == {"code", "modules", "features"}
    <3>1. t.reads = ps /\ <<"code", "features">> \in t.checks
      BY <1>1, <2>1 DEF JointInputs
    <3>2. disk["code"].used \subseteq Bound(ps)
      <4>1. \A c \in {<<"code", "features">>} : Agrees(c[1], c[2])
        BY <3>1, CheckedOf
      <4> QED  BY <1>1, <1>2, <3>1, <4>1, ChainGives DEF CodeChain
    <3>3. \A p \in t.reads : disk[p].used \subseteq Bound(ps)
      BY <1>1, <1>4, <1>5, <3>1, <3>2
    <3> QED  BY <1>1, <2>1, <3>1, <3>3, ChainsCertified, ChainOfNew DEF SnapshotChain
  <2> QED  BY <1>1, <1>2, <2>1, ChainsOfOthers
<1>9. OptimizerChain'
  <2>1. CASE t.out = "optimizer"
    <3> DEFINE ps == {"code", "modules", "features", "snapshot"}
    <3>1. /\ t.reads = ps
          /\ {<<"snapshot", "code">>, <<"snapshot", "modules">>, <<"code", "features">>}
               \subseteq t.checks
      BY <1>1, <2>1 DEF JointInputs
    <3>2. disk["code"].used \subseteq Bound(ps)
      <4>1. \A c \in {<<"code", "features">>} : Agrees(c[1], c[2])
        BY <3>1, CheckedOf
      <4> QED  BY <1>1, <1>2, <3>1, <4>1, ChainGives DEF CodeChain
    <3>3. disk["snapshot"].used \subseteq Bound(ps)
      <4>1. \A c \in {<<"snapshot", "code">>, <<"snapshot", "modules">>, <<"code", "features">>} :
              Agrees(c[1], c[2])
        BY <3>1, CheckedOf
      <4> QED  BY <1>1, <1>2, <3>1, <4>1, ChainGives DEF SnapshotChain
    <3>4. \A p \in t.reads : disk[p].used \subseteq Bound(ps)
      BY <1>1, <1>4, <1>5, <3>1, <3>2, <3>3
    <3> QED  BY <1>1, <2>1, <3>1, <3>4, ChainsCertified, ChainOfNew DEF OptimizerChain
  <2> QED  BY <1>1, <1>2, <2>1, ChainsOfOthers
<1>10. Launched'
  <2>1. CASE t.out = "checkpoint"
    <3> DEFINE ps == {"code", "modules", "features", "snapshot", "optimizer"}
               cs == {<<"optimizer", "code">>, <<"optimizer", "modules">>,
                      <<"optimizer", "snapshot">>, <<"optimizer", "features">>,
                      <<"snapshot", "code">>, <<"snapshot", "modules">>, <<"code", "features">>}
    <3>1. t.reads = ps /\ Names(t) = {"code", "modules", "features"} /\ cs \subseteq t.checks
      BY <1>1, <2>1 DEF JointInputs
    <3>2. \A c \in cs : Agrees(c[1], c[2])
      BY <3>1, CheckedOf
    <3>3. disk["code"].used \subseteq Bound(ps)
      <4>1. \A c \in {<<"code", "features">>} : Agrees(c[1], c[2])
        BY <3>2
      <4> QED  BY <1>1, <1>2, <3>1, <4>1, ChainGives DEF CodeChain
    <3>4. disk["snapshot"].used \subseteq Bound(ps)
      <4>1. \A c \in {<<"snapshot", "code">>, <<"snapshot", "modules">>, <<"code", "features">>} :
              Agrees(c[1], c[2])
        BY <3>2
      <4> QED  BY <1>1, <1>2, <3>1, <4>1, ChainGives DEF SnapshotChain
    <3>5. disk["optimizer"].used \subseteq Bound(ps)
      BY <1>1, <1>2, <3>1, <3>2, ChainGives DEF OptimizerChain
    <3>6. \A p \in t.reads : disk[p].used \subseteq Bound(t.reads)
      BY <1>1, <1>4, <1>5, <3>1, <3>3, <3>4, <3>5
    <3> QED  BY <1>1, <1>2, <2>1, <3>1, <3>6, LaunchedOfNew
  <2> QED  BY <1>1, <1>2, <2>1, LaunchedOfOthers
<1> QED  BY <1>6, <1>7, <1>8, <1>9, <1>10 DEF JointInv

LEMMA RoleMade ==
  ASSUME Basics, line.tools \subseteq RoleTools, RoleInv, NEW t, Made(t)
  PROVE  RoleInv'
<1>1. /\ FilesOK /\ Past /\ Rewritten(t.out) /\ t \in line.tools /\ Wired(t) /\ RoleInputs(t)
      /\ t.reads \subseteq Paths(line) /\ t.out \in Paths(line)
  BY LineIs, PathsOfTools, CampaignReads DEF Basics, Made
<1>2. OneCorpus /\ CodeChain /\ NativeChain /\ RoleChain /\ Launched
  BY DEF RoleInv
<1>3. \A ps : disk["features"].used \subseteq Bound(ps)
  BY DEF Bound
<1>4. OneCorpus'
  BY <1>1, <1>2, CorpusOfOthers DEF RoleInputs
<1>5. CodeChain'
  <2>1. CASE t.out = "code"
    <3>1. t.reads = {"features"} /\ \A p \in t.reads : disk[p].used \subseteq Bound({"features"})
      BY <1>1, <1>3, <2>1 DEF RoleInputs
    <3> QED  BY <1>1, <2>1, <3>1, ChainsCertified, ChainOfNew DEF CodeChain
  <2> QED  BY <1>1, <1>2, <2>1, ChainsOfOthers
<1>6. NativeChain'
  <2>1. CASE t.out = "native"
    <3> DEFINE ps == {"code", "features"}
    <3>1. t.reads = ps /\ <<"code", "features">> \in t.checks
      BY <1>1, <2>1 DEF RoleInputs
    <3>2. disk["code"].used \subseteq Bound(ps)
      <4>1. \A c \in {<<"code", "features">>} : Agrees(c[1], c[2])
        BY <3>1, CheckedOf
      <4> QED  BY <1>1, <1>2, <3>1, <4>1, ChainGives DEF CodeChain
    <3>3. \A p \in t.reads : disk[p].used \subseteq Bound(ps)
      BY <1>3, <3>1, <3>2
    <3> QED  BY <1>1, <2>1, <3>1, <3>3, ChainsCertified, ChainOfNew DEF NativeChain
  <2> QED  BY <1>1, <1>2, <2>1, ChainsOfOthers
<1>7. RoleChain'
  <2>1. CASE t.out = "authorization"
    <3> DEFINE ps == {"code", "features", "native"}
               cs == {<<"authorization", "code">>, <<"authorization", "features">>,
                      <<"authorization", "native">>, <<"native", "code">>,
                      <<"native", "features">>, <<"code", "features">>}
    <3>1. t.reads = ps
      BY <1>1, <2>1 DEF RoleInputs
    <3>2. ASSUME \A c \in cs : c[1] # t.out => Agrees(c[1], c[2])
          PROVE  \A p \in t.reads : disk[p].used \subseteq Bound(ps)
      <4>1. \A c \in {<<"native", "code">>, <<"native", "features">>, <<"code", "features">>} :
              c \in cs /\ c[1] # t.out
        BY <2>1
      <4>2. \A c \in {<<"native", "code">>, <<"native", "features">>, <<"code", "features">>} :
              Agrees(c[1], c[2])
        BY <3>2, <4>1
      <4>3. disk["native"].used \subseteq Bound(ps)
        BY <1>1, <1>2, <3>1, <4>2, ChainGives DEF NativeChain
      <4>4. disk["code"].used \subseteq Bound(ps)
        <5>1. \A c \in {<<"code", "features">>} : Agrees(c[1], c[2])
          BY <4>2
        <5> QED  BY <1>1, <1>2, <3>1, <5>1, ChainGives DEF CodeChain
      <4> QED  BY <1>3, <3>1, <4>3, <4>4
    <3>3. Certified(t.out, cs, ps)
      BY <2>1, ChainsCertified
    <3> HIDE DEF cs
    <3>4. Chain(t.out, cs, ps)'
      BY <1>1, <3>1, <3>2, <3>3, ChainOfNew
    <3> QED  BY <2>1, <3>4 DEF RoleChain, cs
  <2> QED  BY <1>1, <1>2, <2>1, ChainsOfOthers
<1>8. Launched'
  <2>1. CASE t.out = "checkpoint"
    <3> DEFINE ps == {"code", "features", "native", "authorization"}
               cs == {<<"authorization", "code">>, <<"authorization", "features">>,
                      <<"authorization", "native">>, <<"native", "code">>,
                      <<"native", "features">>, <<"code", "features">>}
    <3>1. t.reads = ps /\ Names(t) = {"code", "features"} /\ cs \subseteq t.checks
      BY <1>1, <2>1 DEF RoleInputs
    <3>2. \A c \in cs : Agrees(c[1], c[2])
      BY <3>1, CheckedOf
    <3>3. disk["code"].used \subseteq Bound(ps)
      <4>1. \A c \in {<<"code", "features">>} : Agrees(c[1], c[2])
        BY <3>2
      <4> QED  BY <1>1, <1>2, <3>1, <4>1, ChainGives DEF CodeChain
    <3>4. disk["native"].used \subseteq Bound(ps)
      <4>1. \A c \in {<<"native", "code">>, <<"native", "features">>, <<"code", "features">>} :
              Agrees(c[1], c[2])
        BY <3>2
      <4> QED  BY <1>1, <1>2, <3>1, <4>1, ChainGives DEF NativeChain
    <3>5. disk["authorization"].used \subseteq Bound(ps)
      BY <1>1, <1>2, <3>1, <3>2, ChainGives DEF RoleChain
    <3>6. \A p \in t.reads : disk[p].used \subseteq Bound(t.reads)
      BY <1>3, <3>1, <3>3, <3>4, <3>5
    <3> QED  BY <1>1, <1>2, <2>1, <3>1, <3>6, LaunchedOfNew
  <2> QED  BY <1>1, <1>2, <2>1, LaunchedOfOthers
<1> QED  BY <1>4, <1>5, <1>6, <1>7, <1>8 DEF RoleInv

LEMMA AvailabilityMade ==
  ASSUME Basics, line.tools \subseteq AvailabilityTools, AvailabilityInv, NEW t, Made(t)
  PROVE  AvailabilityInv'
<1>1. /\ FilesOK /\ Past /\ Rewritten(t.out) /\ t \in line.tools /\ Wired(t)
      /\ AvailabilityInputs(t) /\ t.reads \subseteq Paths(line) /\ t.out \in Paths(line)
  BY LineIs, PathsOfTools, CampaignReads DEF Basics, Made
<1>2. OneCorpus /\ ReferenceChain /\ AvailabilityChain /\ Launched
  BY DEF AvailabilityInv
<1>3. "code" \notin Outs /\ "corpus" \notin Outs
  BY CampaignReads DEF Outs, AvailabilityInputs, FeatureInputs
<1>4. \A ps : disk["features"].used \subseteq Bound(ps)
  BY DEF Bound
<1>5. \A x \in {"code", "corpus"} \intersect Paths(line) : disk[x].used = {}
  BY <1>3, Bottom
<1>6. OneCorpus'
  BY <1>1, <1>2, <1>3, CorpusOfNew, CorpusOfOthers DEF AvailabilityInputs, FeatureInputs
<1>7. ReferenceChain'
  <2>1. CASE t.out = "reference"
    <3>1. t.reads = {"corpus"}
      BY <1>1, <2>1 DEF AvailabilityInputs
    <3>2. \A p \in t.reads : disk[p].used \subseteq Bound({"features", "corpus"})
      BY <1>1, <1>5, <3>1
    <3> QED  BY <1>1, <2>1, <3>1, <3>2, ChainsCertified, ChainOfNew DEF ReferenceChain
  <2> QED  BY <1>1, <1>2, <2>1, ChainsOfOthers
<1>8. AvailabilityChain'
  <2>1. CASE t.out = "authorization"
    <3> DEFINE ps == {"code", "features", "reference", "corpus"}
               cs == {<<"authorization", "code">>, <<"authorization", "features">>,
                      <<"authorization", "reference">>, <<"reference", "features">>,
                      <<"features", "corpus">>}
    <3>1. t.reads = {"code", "features", "reference"}
      BY <1>1, <2>1 DEF AvailabilityInputs
    <3> QED
      <4>1. CASE "corpus" \in Paths(line)
        <5>1. ASSUME \A c \in cs : c[1] # t.out => Agrees(c[1], c[2])
              PROVE  \A p \in t.reads : disk[p].used \subseteq Bound(ps)
          <6>1. \A c \in {<<"reference", "features">>, <<"features", "corpus">>} :
                  c \in cs /\ c[1] # t.out
            BY <2>1
          <6>2. \A c \in {<<"reference", "features">>, <<"features", "corpus">>} :
                  Agrees(c[1], c[2])
            BY <5>1, <6>1
          <6>3. disk["reference"].used \subseteq Bound(ps)
            BY <1>1, <1>2, <3>1, <4>1, <6>2, ChainGives DEF ReferenceChain
          <6> QED  BY <1>1, <1>4, <1>5, <3>1, <6>3
        <5>2. Certified(t.out, cs, ps)
          BY <2>1, ChainsCertified
        <5>3. t.reads \subseteq ps
          BY <3>1
        <5> HIDE DEF cs, ps
        <5>4. Chain(t.out, cs, ps)'
          BY <1>1, <5>1, <5>2, <5>3, ChainOfNew
        <5> QED  BY <2>1, <5>4 DEF AvailabilityChain, cs, ps
      <4>2. CASE "corpus" \notin Paths(line)
        BY <1>1, <4>2, WrittenGives DEF AvailabilityChain, Chain
      <4> QED  BY <4>1, <4>2
  <2> QED  BY <1>1, <1>2, <2>1, ChainsOfOthers
<1>9. Launched'
  <2>1. CASE t.out = "checkpoint"
    <3> DEFINE ps == {"code", "corpus", "features", "reference", "authorization"}
               cs == {<<"authorization", "code">>, <<"authorization", "features">>,
                      <<"authorization", "reference">>, <<"reference", "features">>,
                      <<"features", "corpus">>}
    <3>1. t.reads = ps /\ Names(t) = {"code", "features"} /\ cs \subseteq t.checks
      BY <1>1, <2>1 DEF AvailabilityInputs
    <3>2. \A c \in cs : Agrees(c[1], c[2])
      BY <3>1, CheckedOf
    <3>3. disk["reference"].used \subseteq Bound(ps)
      <4>1. \A c \in {<<"reference", "features">>, <<"features", "corpus">>} : Agrees(c[1], c[2])
        BY <3>2
      <4> QED  BY <1>1, <1>2, <3>1, <4>1, ChainGives DEF ReferenceChain
    <3>4. disk["authorization"].used \subseteq Bound(ps)
      BY <1>1, <1>2, <3>1, <3>2, ChainGives DEF AvailabilityChain
    <3>5. \A p \in t.reads : disk[p].used \subseteq Bound(t.reads)
      BY <1>1, <1>4, <1>5, <3>1, <3>3, <3>4
    <3>6. Agrees("features", "corpus")
      <4>1. Agrees(<<"features", "corpus">>[1], <<"features", "corpus">>[2])
        BY <3>2
      <4> QED  BY <4>1
    <3> QED  BY <1>1, <1>2, <2>1, <3>1, <3>5, <3>6, LaunchedOfNew
  <2> QED  BY <1>1, <1>2, <2>1, LaunchedOfOthers
<1> QED  BY <1>6, <1>7, <1>8, <1>9 DEF AvailabilityInv

LEMMA CampaignsInit == ASSUME LineageInit PROVE JointInv /\ RoleInv /\ AvailabilityInv
<1>1. /\ Basics
      /\ \A x \in Paths(line) : disk[x].used = {} /\ disk[x].names = {}
      /\ \A x \in Outs : ~Present(x)
  <2>1. Basics
    BY InitBasics
  <2>2. line.roots \intersect Outs = {} /\ Outs \subseteq Paths(line)
    BY <2>1, LineIs, OutsArePaths DEF Basics
  <2>3. \A x \in Paths(line) :
          disk[x] = IF x \in line.roots THEN [NoFile EXCEPT !.version = 1] ELSE NoFile
    BY DEF LineageInit
  <2>4. \A x \in Paths(line) :
          /\ disk[x].used = {} /\ disk[x].names = {}
          /\ x \notin line.roots => disk[x].version = 0
    BY <2>3 DEF NoFile
  <2> QED  BY <2>1, <2>2, <2>4 DEF Present
<1>2. \A x, cs, ps : Chain(x, cs, ps)
  BY <1>1 DEF Chain
<1>3. OneCorpus
  BY <1>1 DEF OneCorpus
<1>4. Launched
  BY <1>1 DEF Launched, LaunchedAsQualified, Has
<1>5. CodeChain /\ SnapshotChain /\ OptimizerChain
  BY <1>2 DEF CodeChain, SnapshotChain, OptimizerChain
<1>6. NativeChain /\ RoleChain /\ ReferenceChain /\ AvailabilityChain
  BY <1>2 DEF NativeChain, RoleChain, ReferenceChain, AvailabilityChain
<1> QED  BY <1>3, <1>4, <1>5, <1>6 DEF JointInv, RoleInv, AvailabilityInv
-----------------------------------------------------------------------------
(* What holds of a product line while one tool runs at a time.               *)
LineageInv ==
  /\ Basics
  /\ line.tools \subseteq Pipeline => PipelineInv
  /\ line.tools \subseteq JointTools => JointInv
  /\ line.tools \subseteq RoleTools => RoleInv
  /\ line.tools \subseteq AvailabilityTools => AvailabilityInv

LEMMA LineageInvStep ==
  ASSUME Together = 1, LineageInv, JobOK, [LineageNext]_lineageVars
  PROVE  LineageInv' /\ JobOK'
<1>1. Basics /\ FilesOK /\ Past
  BY DEF LineageInv, Basics
<1>2. /\ JobOK'
      /\ \/ UNCHANGED <<line, disk>>
         \/ \E t \in line.tools : Made(t)
         \/ \E y \in Paths(line) : Lost(y)
  BY <1>1, StepIs
<1>3. CASE UNCHANGED <<line, disk>>
  <2>1. line' = line /\ disk' = disk
    BY <1>3
  <2>2. Basics <=> Basics'
    BY <2>1 DEF Basics, FilesOK, Past, Blank, Copies, Paths, FileStates, Stamps, Outs, Present, Now
  <2>3. PipelineInv <=> PipelineInv'
    BY <2>1 DEF PipelineInv, Ancestry, Faith, From, Faithful, Holds, Paths, Outs, Present,
                VersionsOf
  <2>4. /\ \A x, cs, ps : Chain(x, cs, ps) <=> Chain(x, cs, ps)'
        /\ OneCorpus <=> OneCorpus'
    BY <2>1 DEF Chain, Bound, Agrees, Now, Paths, OneCorpus
  <2>5. Launched <=> Launched'
    BY <2>1 DEF Launched, LaunchedAsQualified, Has, Present, VersionsOf, Outs
  <2>6. (JointInv => JointInv') /\ (RoleInv => RoleInv') /\ (AvailabilityInv => AvailabilityInv')
    <3>1. /\ CodeChain => CodeChain'
          /\ SnapshotChain => SnapshotChain'
          /\ OptimizerChain => OptimizerChain'
      BY <2>4 DEF CodeChain, SnapshotChain, OptimizerChain
    <3>2. /\ NativeChain => NativeChain'
          /\ RoleChain => RoleChain'
          /\ ReferenceChain => ReferenceChain'
          /\ AvailabilityChain => AvailabilityChain'
      BY <2>4 DEF NativeChain, RoleChain, ReferenceChain, AvailabilityChain
    <3> QED  BY <2>4, <2>5, <3>1, <3>2 DEF JointInv, RoleInv, AvailabilityInv
  <2> QED  BY <1>2, <2>1, <2>2, <2>3, <2>6 DEF LineageInv
<1>4. ASSUME NEW t \in line.tools, Made(t) PROVE LineageInv'
  <2>1. line' = line
    BY <1>4 DEF Made, Rewritten
  <2>2. Basics'
    BY <1>1, <1>4, MadeBasics
  <2>3. line.tools \subseteq Pipeline => PipelineInv'
    BY <1>1, <1>4, PipelineMade DEF LineageInv
  <2>4. line.tools \subseteq JointTools => JointInv'
    BY <1>1, <1>4, JointMade DEF LineageInv
  <2>5. line.tools \subseteq RoleTools => RoleInv'
    BY <1>1, <1>4, RoleMade DEF LineageInv
  <2>6. line.tools \subseteq AvailabilityTools => AvailabilityInv'
    BY <1>1, <1>4, AvailabilityMade DEF LineageInv
  <2> QED  BY <2>1, <2>2, <2>3, <2>4, <2>5, <2>6 DEF LineageInv
<1>5. ASSUME NEW y \in Paths(line), Lost(y) PROVE LineageInv'
  <2>1. line' = line
    BY <1>5 DEF Lost, Rewritten
  <2>2. Basics'
    BY <1>1, <1>5, LostBasics
  <2>3. PipelineInv => PipelineInv'
    BY <1>1, <1>5, PipelineLost
  <2>4. (JointInv => JointInv') /\ (RoleInv => RoleInv') /\ (AvailabilityInv => AvailabilityInv')
    BY <1>1, <1>5, CampaignsLost
  <2> QED  BY <2>1, <2>2, <2>3, <2>4 DEF LineageInv
<1> QED  BY <1>2, <1>3, <1>4, <1>5

LEMMA LineageAlways == ASSUME Together = 1 PROVE LineageSpec => []LineageInv
<1>1. LineageInit => LineageInv /\ JobOK
  BY InitBasics, PipelineInit, CampaignsInit DEF LineageInv
<1>2. LineageInv /\ JobOK /\ [LineageNext]_lineageVars => LineageInv' /\ JobOK'
  BY LineageInvStep
<1> QED  BY <1>1, <1>2, PTL DEF LineageSpec
-----------------------------------------------------------------------------
(* What it means for what is there.                                          *)
LEMMA PipelineFile ==
  ASSUME LineageInv, NEW a \in PipelineOnly \ {"pair"}, Has(a)
  PROVE  Basics /\ PipelineInv /\ a \in Outs /\ a \in Paths(line)
<1>1. Basics /\ FilesOK /\ Blank
  BY DEF LineageInv, Basics
<1>2. a \in Paths(line) /\ Present(a)
  BY <1>1 DEF Has, FilesOK
<1>3. a \in Outs \union line.roots
  BY <1>1, <1>2 DEF Blank
<1>4. a \notin line.roots
  BY <1>1, LineIs DEF PipelineOnly, Roots
<1>5. PICK t \in line.tools : t.out = a
  BY <1>3, <1>4 DEF Outs
<1>6. t \notin JointTools \union RoleTools \union AvailabilityTools
  BY <1>5, CampaignWired
<1>7. line.tools \subseteq Pipeline
  BY <1>1, <1>5, <1>6, LineIs
<1> QED  BY <1>1, <1>2, <1>3, <1>4, <1>7 DEF LineageInv

LEMMA NamesTold == LineageInv => NamesWhatItUsed
<1>1. SUFFICES ASSUME LineageInv, NEW a \in DOMAIN TrainedFor \intersect DOMAIN disk, Present(a),
                      NEW p \in TrainedFor[a]
               PROVE  \E v \in 1..MaxVersions :
                        <<p, v>> \in disk[a].names /\ VersionsOf(p, disk[a].used) = {v}
  BY DEF NamesWhatItUsed
<1>2. a \in {"writer", "tagger", "keys", "operation", "query", "link", "baseline", "resident"}
  BY DEF TrainedFor
<1>3. a \in Outs /\ PipelineInv
  BY <1>1, <1>2, PipelineFile DEF Has, PipelineOnly
<1>4. Faithful(a, p)
  BY <1>2, <1>3 DEF TrainedFor, PipelineInv, Faith
<1>5. PICK v \in 1..MaxVersions :
        VersionsOf(p, disk[a].used) = {v} /\ VersionsOf(p, disk[a].names) = {v}
  BY <1>1, <1>3, <1>4 DEF Faithful
<1>6. v \in VersionsOf(p, disk[a].names)
  BY <1>5
<1> QED  BY <1>5, <1>6 DEF VersionsOf

LEMMA ExportedOne == LineageInv => ExportedTogether
<1>1. SUFFICES ASSUME LineageInv, Has("writerbin")
               PROVE  Cardinality(VersionsOf("writer", disk["writerbin"].used)) = 1
  BY DEF ExportedTogether
<1>2. "writerbin" \in Outs /\ Holds("writerbin", "writer") /\ Present("writerbin")
  BY <1>1, PipelineFile DEF PipelineOnly, PipelineInv, Faith, Has
<1>3. PICK v \in 1..MaxVersions : VersionsOf("writer", disk["writerbin"].used) = {v}
  BY <1>2 DEF Holds
<1> QED  BY <1>3, FS_Singleton

(* An export that is reproduced: of the one file it read, and of all that was*)
(* made from.                                                                *)
LEMMA ReproducedHolds ==
  ASSUME NEW out \in Outs, NEW inputs, NEW p, Holds(out, p), Reproduced(out, inputs)
  PROVE  VersionsOf(p, disk[out].used) = {disk[p].version}
<1>1. PICK v \in 1..MaxVersions :
        VersionsOf(p, disk[out].used) = {v} /\ <<p, v>> \in disk[out].read
  BY DEF Holds, Reproduced
<1>2. \A n \in disk[out].read : n[1] = p => n[2] = disk[p].version
  BY DEF Reproduced, Now
<1>3. v = disk[p].version
  BY <1>1, <1>2
<1> QED  BY <1>1, <1>3

LEMMA ReproducedCopies ==
  ASSUME Basics, NEW out \in Paths(line), NEW x \in Paths(line), NEW p, p # x,
         Reproduced(out, {x}), Faithful(x, p), Agrees(x, p)
  PROVE  VersionsOf(p, disk[out].used) = {disk[p].version}
<1>1. disk[out].used = {Now(x)} \union disk[x].used
  BY DEF Basics, Copies, Reproduced
<1>2. VersionsOf(p, disk[out].used) = VersionsOf(p, disk[x].used)
  BY <1>1 DEF VersionsOf, Now
<1> QED  BY <1>2, AgreesGives DEF Basics

LEMMA VerifiedOne == LineageInv => VerifiedTogether
<1> SUFFICES ASSUME LineageInv PROVE VerifiedTogether
  OBVIOUS
<1>1. ASSUME WriterVerified
      PROVE  VersionsOf("writer", disk["writerbin"].used) = {disk["writer"].version}
  <2>1. "writerbin" \in Outs /\ Holds("writerbin", "writer")
    BY <1>1, PipelineFile DEF WriterVerified, PipelineOnly, PipelineInv, Faith
  <2> QED  BY <1>1, <2>1, ReproducedHolds DEF WriterVerified
<1>2. ASSUME PairVerified
      PROVE  \A p \in {"pairbin", "querybin", "linkbin"} :
                VersionsOf("pair", disk[p].used) = {disk["pair"].version}
  <2>1. /\ Has("querybin") /\ Has("linkbin") /\ Has("query") /\ Has("link")
        /\ Agrees("query", "pair") /\ Agrees("link", "pair") /\ Agrees("querybin", "pairbin")
        /\ Reproduced("pairbin", {"pair"}) /\ Reproduced("linkbin", {"link"})
        /\ Reproduced("querybin", {"query"})
    BY <1>2 DEF PairVerified
  <2>2. /\ Basics /\ PipelineInv
        /\ {"querybin", "linkbin", "query", "link"} \subseteq Paths(line)
    BY <2>1, PipelineFile DEF PipelineOnly
  <2>3. Has("pairbin")
    <3>1. disk["querybin"].names \subseteq Stamps /\ DOMAIN disk = Paths(line)
      BY <2>2 DEF Basics, FilesOK, FileStates
    <3>2. "pairbin" \in Paths(line)
      BY <2>1, <3>1 DEF Agrees, Now, Stamps
    <3> QED  BY <2>1, <3>1, <3>2 DEF Has, Reproduced
  <2>4. "pairbin" \in Outs
    BY <2>3, PipelineFile DEF PipelineOnly
  <2>5. Faithful("query", "pair") /\ Faithful("link", "pair") /\ Holds("pairbin", "pair")
    BY <2>2 DEF PipelineInv, Faith
  <2>6. VersionsOf("pair", disk["pairbin"].used) = {disk["pair"].version}
    BY <2>1, <2>4, <2>5, ReproducedHolds
  <2>7. VersionsOf("pair", disk["querybin"].used) = {disk["pair"].version}
    BY <2>1, <2>2, <2>5, ReproducedCopies
  <2>8. VersionsOf("pair", disk["linkbin"].used) = {disk["pair"].version}
    BY <2>1, <2>2, <2>5, ReproducedCopies
  <2> QED  BY <2>6, <2>7, <2>8
<1>3. ASSUME ResidentVerified
      PROVE  VersionsOf("rows", disk["residentbin"].used) = {disk["rows"].version}
  <2>1. /\ Has("residentbin") /\ Has("resident") /\ Agrees("resident", "rows")
        /\ Reproduced("residentbin", {"resident"})
    BY <1>3 DEF ResidentVerified
  <2>2. Basics /\ PipelineInv /\ {"residentbin", "resident"} \subseteq Paths(line)
    BY <2>1, PipelineFile DEF PipelineOnly
  <2>3. Faithful("resident", "rows")
    BY <2>2 DEF PipelineInv, Faith
  <2> QED  BY <2>1, <2>2, <2>3, ReproducedCopies
<1> QED  BY <1>1, <1>2, <1>3 DEF VerifiedTogether

LEMMA LaunchedOne == LineageInv => LaunchedAsQualified
<1>1. SUFFICES ASSUME LineageInv, Has("checkpoint") PROVE LaunchedAsQualified
  BY DEF LaunchedAsQualified
<1>2. Basics /\ FilesOK /\ Blank
  BY <1>1 DEF LineageInv, Basics
<1>3. "checkpoint" \in Outs \union line.roots /\ "checkpoint" \notin line.roots
  BY <1>1, <1>2, LineIs DEF Has, FilesOK, Blank, Roots
<1>4. PICK t \in line.tools : t.out = "checkpoint"
  BY <1>3 DEF Outs
<1>5. t \notin Pipeline
  BY <1>4, PipelineWired
<1>6. Launched
  BY <1>1, <1>2, <1>4, <1>5, LineIs DEF LineageInv, JointInv, RoleInv, AvailabilityInv
<1> QED  BY <1>3, <1>6 DEF Launched
-----------------------------------------------------------------------------
(* Each checkpoint of the pipeline names, of each file it was trained for,   *)
(* the one version of it that went into it, however often its inputs and it  *)
(* are made anew, lost halfway or continued: the fingerprints that           *)
(* prepare_typed_memory_features, the trainers and load_or_compile record    *)
(* are true.  (Not with two tools at a time: the trainers of the tagger, the *)
(* keys and the query head take a fingerprint when they end.)                *)
THEOREM OriginsAlwaysTrue ==
  ASSUME Together = 1
  PROVE  LineageSpec => []NamesWhatItUsed
<1>1. LineageSpec => []LineageInv
  BY LineageAlways
<1> QED  BY <1>1, NamesTold, PTL

(* The checks of export_typed_writer_model let no writer file mix the tagger,*)
(* the keys or the operation of two writers.                                 *)
THEOREM ExportAlwaysOfOneWriter ==
  ASSUME Together = 1
  PROVE  LineageSpec => []ExportedTogether
<1>1. LineageSpec => []LineageInv
  BY LineageAlways
<1> QED  BY <1>1, ExportedOne, PTL

(* What verify.py accepts was made from the writer, the pair encoder and the *)
(* rows that are in the bundle: exporting again and comparing the recorded   *)
(* origins is enough to vouch for all that the files were made from.         *)
THEOREM VerifiedAlwaysTogether ==
  ASSUME Together = 1
  PROVE  LineageSpec => []VerifiedTogether
<1>1. LineageSpec => []LineageInv
  BY LineageAlways
<1> QED  BY <1>1, VerifiedOne, PTL

(* The checks of require_launch, train_role and the launch of CG-001 let no  *)
(* campaign train on evidence of another source, feature package or corpus,  *)
(* through any chain of reports.                                             *)
THEOREM CampaignsAlwaysQualified ==
  ASSUME Together = 1
  PROVE  LineageSpec => []LaunchedAsQualified
<1>1. LineageSpec => []LineageInv
  BY LineageAlways
<1> QED  BY <1>1, LaunchedOne, PTL

-----------------------------------------------------------------------------
(* The campaign. *)

(* The names of the arms, and the kinds of the records.                      *)
ArmNames == {"joint_aux", "joint_product", "role", "availability"}
Campaigns == {Joint, Role, Availability}
Directories ==
  [arm : ArmNames, loaded : Nat, evidence : Nat, named : Nat, late : Nat, steps : 0..Steps,
   initial : {"none", "torn", "whole"}, final : {"none", "torn", "whole"},
   pc : {"claimed", "stepping", "saved", "done", "dead"}, replaced : BOOLEAN]
Outcomes == {Baseline[c] : c \in Panel} \union UNION {Possible(c) : c \in Panel}
GenerationRecords ==
  [training : Nat, cases : SUBSET Panel, predictions : [Panel -> Outcomes],
   report : BOOLEAN, running : BOOLEAN]
CampaignTypes ==
  /\ protocol \in Campaigns
  /\ source \in Nat /\ approved \in Nat
  /\ trainings \in Seq(Directories)
  /\ generations \in Seq(GenerationRecords)

(* What stands in a training directory, by the place its process has reached.*)
WholeBefore(d, p) ==
  /\ d.pc = "claimed" => d.initial = "none" /\ d.final = "none" /\ d.steps = 0
  /\ d.pc = "stepping" => d.initial = "whole" /\ d.final = "none"
  /\ d.pc \in {"saved", "done"} => d.initial = "whole" /\ d.final = "whole" /\ d.steps = Steps
  /\ d.loaded = d.evidence
  /\ p.claims =>
       /\ d.initial # "torn" /\ d.final # "torn"
       /\ d.pc = "done" => d.late = d.named
DirectoriesTrue == \A t \in DOMAIN trainings : WholeBefore(trainings[t], protocol)

(* With claims an arm is trained in one directory.                           *)
ClaimedOnce ==
  protocol.claims =>
    \A t \in DOMAIN trainings :
      /\ trainings[t].arm \in claims
      /\ \A u \in DOMAIN trainings : trainings[u].arm = trainings[t].arm => u = t

(* A generation is of a training that is there, with claims of one that is   *)
(* complete; it stays so.                                                    *)
FromTraining ==
  \A g \in DOMAIN generations :
    /\ generations[g].training \in DOMAIN trainings
    /\ protocol.claims => trainings[generations[g].training].pc = "done"

CampaignInv ==
  /\ CampaignTypes /\ DirectoriesTrue /\ ClaimedOnce /\ FromTraining /\ SelectedIsQualified
-----------------------------------------------------------------------------
(* What the three campaigns are.                                             *)
LEMMA CampaignsAre ==
  ASSUME NEW p \in Campaigns
  PROVE /\ p.claims \in BOOLEAN /\ p.linked \in BOOLEAN /\ p.rehashed \in BOOLEAN
        /\ p.claims => p.linked /\ p.rehashed /\ p = Joint
        /\ Len(p.arms) \in {1, 2} /\ p.arms[1] \in ArmNames
        /\ Len(p.arms) = 2 => p.arms[2] \in ArmNames
        /\ DOMAIN p.arms = 1..Len(p.arms)
<1>1. CASE p = Joint
  BY <1>1 DEF Joint, ArmNames
<1>2. CASE p = Role
  BY <1>2 DEF Role, ArmNames
<1>3. CASE p = Availability
  <2>1. p.arms = <<"availability">> /\ p.claims = FALSE /\ p.linked = FALSE /\ p.rehashed = FALSE
    BY <1>3 DEF Availability, Role
  <2>2. Len(p.arms) = 1 /\ p.arms[1] = "availability" /\ DOMAIN p.arms = 1..1
    BY <2>1
  <2> QED  BY <2>1, <2>2 DEF ArmNames
<1> QED  BY <1>1, <1>2, <1>3 DEF Campaigns

LEMMA ClaimsBegin == CampaignInit => CampaignInv
<1> SUFFICES ASSUME CampaignInit PROVE CampaignInv
  OBVIOUS
<1>1. CampaignTypes
  BY CampaignConstants DEF CampaignInit, CampaignTypes, Campaigns
<1>2. DOMAIN trainings = {} /\ DOMAIN generations = {} /\ ~final.made
  BY DEF CampaignInit, NoFinal
<1> QED  BY <1>1, <1>2 DEF CampaignInv, DirectoriesTrue, ClaimedOnce, FromTraining, SelectedIsQualified

(* What leaves the directories alone, and the review's end, preserves it.    *)
LEMMA CampaignStutter ==
  ASSUME CampaignInv, UNCHANGED <<protocol, claims, trainings, generations, final>>,
         ~final.made, source' \in Nat, approved' \in Nat
  PROVE  CampaignInv'
<1>1. UNCHANGED protocol /\ UNCHANGED claims /\ UNCHANGED trainings /\ UNCHANGED generations
      /\ UNCHANGED final
  OBVIOUS
<1>2. CampaignTypes'
  BY <1>1 DEF CampaignInv, CampaignTypes
<1>3. DirectoriesTrue' /\ ClaimedOnce' /\ FromTraining'
  BY <1>1 DEF CampaignInv, DirectoriesTrue, ClaimedOnce, FromTraining
<1>4. SelectedIsQualified'
  BY <1>1 DEF SelectedIsQualified
<1> QED  BY <1>2, <1>3, <1>4 DEF CampaignInv

(* A training directory changes as long as it stays true.                    *)
LEMMA BecomeInv ==
  ASSUME CampaignInv, ~final.made, NEW t \in DOMAIN trainings, NEW d \in Directories,
         Become(t, d), WholeBefore(d, protocol), d.arm = trainings[t].arm,
         trainings[t].pc = "done" => d.pc = "done"
  PROVE  CampaignInv'
<1>1. /\ UNCHANGED <<protocol, source, approved, claims, generations, files>>
      /\ trainings' = [trainings EXCEPT ![t] = d]
  BY DEF Become
<1>2. UNCHANGED protocol /\ UNCHANGED claims /\ UNCHANGED generations /\ UNCHANGED final
      /\ UNCHANGED source /\ UNCHANGED approved
  BY <1>1 DEF files
<1>3. trainings \in Seq(Directories)
  BY DEF CampaignInv, CampaignTypes
<1>4. /\ DOMAIN trainings' = DOMAIN trainings /\ trainings' \in Seq(Directories)
      /\ \A u \in DOMAIN trainings : trainings'[u] = IF u = t THEN d ELSE trainings[u]
  BY <1>1, <1>3
<1>5. CampaignTypes'
  BY <1>2, <1>4 DEF CampaignInv, CampaignTypes
<1>6. DirectoriesTrue'
  BY <1>2, <1>4 DEF CampaignInv, DirectoriesTrue
<1>7. ClaimedOnce'
  BY <1>2, <1>4 DEF CampaignInv, ClaimedOnce
<1>8. FromTraining'
  BY <1>2, <1>4 DEF CampaignInv, FromTraining
<1>9. SelectedIsQualified'
  BY <1>2 DEF SelectedIsQualified
<1> QED  BY <1>5, <1>6, <1>7, <1>8, <1>9 DEF CampaignInv

(* A generation directory likewise.                                          *)
LEMMA ChangeInv ==
  ASSUME CampaignInv, ~final.made, NEW g \in DOMAIN generations, NEW d \in GenerationRecords,
         Change(g, d), d.training = generations[g].training
  PROVE  CampaignInv'
<1>1. /\ UNCHANGED <<protocol, source, approved, claims, trainings, files>>
      /\ generations' = [generations EXCEPT ![g] = d]
  BY DEF Change
<1>2. UNCHANGED protocol /\ UNCHANGED claims /\ UNCHANGED trainings /\ UNCHANGED final
      /\ UNCHANGED source /\ UNCHANGED approved
  BY <1>1 DEF files
<1>3. generations \in Seq(GenerationRecords)
  BY DEF CampaignInv, CampaignTypes
<1>4. /\ DOMAIN generations' = DOMAIN generations /\ generations' \in Seq(GenerationRecords)
      /\ \A u \in DOMAIN generations : generations'[u] = IF u = g THEN d ELSE generations[u]
  BY <1>1, <1>3
<1>5. CampaignTypes'
  BY <1>2, <1>4 DEF CampaignInv, CampaignTypes
<1>6. DirectoriesTrue' /\ ClaimedOnce'
  BY <1>2 DEF CampaignInv, DirectoriesTrue, ClaimedOnce
<1>7. FromTraining'
  BY <1>2, <1>4 DEF CampaignInv, FromTraining
<1>8. SelectedIsQualified'
  BY <1>2 DEF SelectedIsQualified
<1> QED  BY <1>5, <1>6, <1>7, <1>8 DEF CampaignInv
-----------------------------------------------------------------------------
(* Training.  A process is started with the evidence of the source it loads, *)
(* for an arm nobody has claimed.                                            *)
LEMMA TrainInv ==
  ASSUME CampaignInv, ~final.made, NEW arm \in ArmNames, NEW loaded,
         Train(arm, loaded, loaded)
  PROVE  CampaignInv'
<1> DEFINE d == Directory(arm, loaded, loaded)
           n == Len(trainings) + 1
<1>1. /\ RequireLaunch(loaded) /\ Unclaimed(arm)
      /\ claims' = IF protocol.claims THEN claims \union {arm} ELSE claims
      /\ trainings' = Append(trainings, d)
      /\ UNCHANGED <<protocol, source, approved, generations, files>>
  BY DEF Train
<1>2. UNCHANGED protocol /\ UNCHANGED generations /\ UNCHANGED final
      /\ UNCHANGED source /\ UNCHANGED approved
  BY <1>1 DEF files
<1>3. loaded \in Nat
  BY <1>1 DEF RequireLaunch, CampaignInv, CampaignTypes
<1>4. d \in Directories
  BY <1>3, CampaignConstants DEF Directory, Directories
<1>5. d.arm = arm /\ WholeBefore(d, protocol)
  BY DEF Directory, WholeBefore
<1>6. trainings \in Seq(Directories)
  BY DEF CampaignInv, CampaignTypes
<1> HIDE DEF d
<1>7. /\ trainings' \in Seq(Directories) /\ n \in Nat /\ DOMAIN trainings = 1..(n - 1)
      /\ DOMAIN trainings' = 1..n /\ trainings'[n] = d
      /\ \A u \in DOMAIN trainings : trainings'[u] = trainings[u]
  BY <1>1, <1>4, <1>6
<1>8. CampaignTypes'
  BY <1>2, <1>7 DEF CampaignInv, CampaignTypes
<1>9. DirectoriesTrue'
  <2>1. \A u \in DOMAIN trainings' : u = n \/ u \in DOMAIN trainings
    BY <1>7
  <2> QED  BY <2>1, <1>2, <1>5, <1>7 DEF CampaignInv, DirectoriesTrue
<1>10. ClaimedOnce'
  <2>1. SUFFICES ASSUME protocol.claims PROVE ClaimedOnce'
    BY <1>2 DEF ClaimedOnce
  <2>2. \A u \in DOMAIN trainings :
          /\ trainings[u].arm \in claims
          /\ \A v \in DOMAIN trainings : trainings[v].arm = trainings[u].arm => v = u
    BY <2>1 DEF CampaignInv, ClaimedOnce
  <2>3. arm \notin claims /\ claims' = claims \union {arm}
    BY <2>1, <1>1 DEF Unclaimed
  <2>4. \A u \in DOMAIN trainings' : u = n \/ u \in DOMAIN trainings
    BY <1>7
  <2>5. \A u \in DOMAIN trainings : trainings'[u].arm \in claims /\ trainings'[u].arm # arm
    BY <2>2, <2>3, <1>7
  <2>6. \A u \in DOMAIN trainings' : trainings'[u].arm \in claims'
    BY <2>3, <2>4, <2>5, <1>5, <1>7
  <2>7. ASSUME NEW u \in DOMAIN trainings', NEW v \in DOMAIN trainings',
               trainings'[v].arm = trainings'[u].arm
        PROVE  v = u
    BY <2>2, <2>4, <2>5, <2>7, <1>5, <1>7
  <2> QED  BY <2>6, <2>7 DEF ClaimedOnce
<1>11. FromTraining'
  BY <1>2, <1>7 DEF CampaignInv, FromTraining
<1>12. SelectedIsQualified'
  BY <1>2 DEF SelectedIsQualified
<1> QED  BY <1>8, <1>9, <1>10, <1>11, <1>12 DEF CampaignInv

LEMMA LaunchInv ==
  ASSUME CampaignInv, ~final.made, Launch
  PROVE  CampaignInv'
<1>1. protocol \in Campaigns
  BY DEF CampaignInv, CampaignTypes
<1>2. protocol.arms[1] \in ArmNames
  BY <1>1, CampaignsAre
<1>3. approved = source /\ Train(protocol.arms[1], source, approved)
  BY DEF Launch, Train, RequireLaunch
<1>4. Train(protocol.arms[1], source, source)
  BY <1>3
<1> QED  BY <1>2, <1>4, TrainInv

LEMMA NextArmInv ==
  ASSUME CampaignInv, ~final.made, NEW t \in DOMAIN trainings, NextArm(t)
  PROVE  CampaignInv'
<1>1. protocol \in Campaigns
  BY DEF CampaignInv, CampaignTypes
<1>2. protocol.arms[2] \in ArmNames
  BY <1>1, CampaignsAre DEF NextArm
<1>3. trainings[t].loaded = trainings[t].evidence
  BY DEF CampaignInv, DirectoriesTrue, WholeBefore
<1>4. Train(protocol.arms[2], trainings[t].loaded, trainings[t].loaded)
  BY <1>3 DEF NextArm
<1> QED  BY <1>2, <1>4, TrainInv

(* The steps of a training and what may befall its directory.                *)
LEMMA TrainingStepInv ==
  ASSUME CampaignInv, ~final.made, NEW t \in DOMAIN trainings,
         SaveInitial(t) \/ Step(t) \/ SaveFinal(t) \/ WriteStatus(t) \/ ReplaceCheckpoint(t)
  PROVE  CampaignInv'
<1> DEFINE d == trainings[t]
<1>1. /\ d \in Directories /\ WholeBefore(d, protocol) /\ source \in Nat
      /\ protocol.claims => protocol.rehashed
  <2>1. d \in Directories /\ protocol \in Campaigns /\ source \in Nat
    BY DEF CampaignInv, CampaignTypes
  <2>2. WholeBefore(d, protocol)
    BY DEF CampaignInv, DirectoriesTrue
  <2> QED  BY <2>1, <2>2, CampaignsAre
<1> HIDE DEF d
<1>2. CASE SaveInitial(t)
  <2> DEFINE e == [d EXCEPT !.initial = "whole", !.named = source, !.pc = "stepping"]
  <2>1. Become(t, e) /\ d.pc = "claimed"
    BY <1>2 DEF SaveInitial, d
  <2>2. e \in Directories /\ e.arm = d.arm
    BY <1>1 DEF Directories
  <2>3. WholeBefore(e, protocol)
    BY <1>1, <2>1 DEF Directories, WholeBefore
  <2> HIDE DEF e
  <2> QED  BY <2>1, <2>2, <2>3, BecomeInv DEF d
<1>3. CASE Step(t)
  <2> DEFINE e == [d EXCEPT !.steps = @ + 1]
  <2>1. Become(t, e) /\ d.pc = "stepping" /\ d.steps < Steps
    BY <1>3 DEF Step, d
  <2>2. e \in Directories /\ e.arm = d.arm
    BY <1>1, <2>1, CampaignConstants DEF Directories
  <2>3. WholeBefore(e, protocol)
    BY <1>1, <2>1 DEF Directories, WholeBefore
  <2> HIDE DEF e
  <2> QED  BY <2>1, <2>2, <2>3, BecomeInv DEF d
<1>4. CASE SaveFinal(t)
  <2> DEFINE e == [d EXCEPT !.final = "whole", !.pc = "saved",
                     !.named = IF protocol.rehashed THEN @ ELSE source]
  <2>1. Become(t, e) /\ d.pc = "stepping" /\ d.steps = Steps
    BY <1>4 DEF SaveFinal, d
  <2>2. e \in Directories /\ e.arm = d.arm
    BY <1>1 DEF Directories
  <2>3. WholeBefore(e, protocol)
    BY <1>1, <2>1 DEF Directories, WholeBefore
  <2> HIDE DEF e
  <2> QED  BY <2>1, <2>2, <2>3, BecomeInv DEF d
<1>5. CASE WriteStatus(t)
  <2> DEFINE e == [d EXCEPT !.late = source, !.pc = "done"]
  <2>1. Become(t, e) /\ d.pc = "saved" /\ (protocol.rehashed => d.named = source)
    BY <1>5 DEF WriteStatus, SourceKept, d
  <2>2. e \in Directories /\ e.arm = d.arm
    BY <1>1 DEF Directories
  <2>3. WholeBefore(e, protocol)
    BY <1>1, <2>1 DEF Directories, WholeBefore
  <2> HIDE DEF e
  <2> QED  BY <2>1, <2>2, <2>3, BecomeInv DEF d
<1>6. CASE ReplaceCheckpoint(t)
  <2> DEFINE e == [d EXCEPT !.replaced = TRUE]
  <2>1. Become(t, e)
    BY <1>6 DEF ReplaceCheckpoint, d
  <2>2. e \in Directories /\ e.arm = d.arm /\ e.pc = d.pc
    BY <1>1 DEF Directories
  <2>3. WholeBefore(e, protocol)
    BY <1>1 DEF Directories, WholeBefore
  <2> HIDE DEF e
  <2> QED  BY <2>1, <2>2, <2>3, BecomeInv DEF d
<1> QED  BY <1>2, <1>3, <1>4, <1>5, <1>6

LEMMA CrashTrainingInv ==
  ASSUME CampaignInv, ~final.made, NEW t \in DOMAIN trainings, CrashTraining(t)
  PROVE  CampaignInv'
<1> DEFINE d == trainings[t]
<1>1. /\ d \in Directories /\ WholeBefore(d, protocol)
      /\ protocol.claims => protocol.linked
  <2>1. d \in Directories /\ protocol \in Campaigns
    BY DEF CampaignInv, CampaignTypes
  <2>2. WholeBefore(d, protocol)
    BY DEF CampaignInv, DirectoriesTrue
  <2> QED  BY <2>1, <2>2, CampaignsAre
<1>2. d.pc \in {"claimed", "stepping", "saved"}
  BY DEF CrashTraining
<1>3. LeftByCrash \subseteq {"none", "torn"} /\ (protocol.linked => "torn" \notin LeftByCrash)
  BY DEF LeftByCrash
<1>4. \E e \in Directories :
         Become(t, e) /\ e.arm = d.arm /\ WholeBefore(e, protocol)
  <2>1. CASE Become(t, [d EXCEPT !.pc = "dead"])
    <3> DEFINE e == [d EXCEPT !.pc = "dead"]
    <3>1. e \in Directories /\ e.arm = d.arm /\ WholeBefore(e, protocol)
      BY <1>1, <1>2 DEF Directories, WholeBefore
    <3> QED  BY <2>1, <3>1
  <2>2. ASSUME NEW left \in LeftByCrash, Become(t, [d EXCEPT !.initial = left, !.pc = "dead"])
        PROVE  \E e \in Directories : Become(t, e) /\ e.arm = d.arm /\ WholeBefore(e, protocol)
    <3> DEFINE e == [d EXCEPT !.initial = left, !.pc = "dead"]
    <3>1. e \in Directories /\ e.arm = d.arm
      BY <1>1, <1>3 DEF Directories
    <3>2. WholeBefore(e, protocol)
      BY <1>1, <1>2, <1>3 DEF Directories, WholeBefore
    <3> QED  BY <2>2, <3>1, <3>2
  <2>3. ASSUME NEW left \in LeftByCrash, Become(t, [d EXCEPT !.final = left, !.pc = "dead"])
        PROVE  \E e \in Directories : Become(t, e) /\ e.arm = d.arm /\ WholeBefore(e, protocol)
    <3> DEFINE e == [d EXCEPT !.final = left, !.pc = "dead"]
    <3>1. e \in Directories /\ e.arm = d.arm
      BY <1>1, <1>3 DEF Directories
    <3>2. WholeBefore(e, protocol)
      BY <1>1, <1>2, <1>3 DEF Directories, WholeBefore
    <3> QED  BY <2>3, <3>1, <3>2
  <2> QED  BY <2>1, <2>2, <2>3 DEF CrashTraining
<1> QED  BY <1>2, <1>4, BecomeInv
-----------------------------------------------------------------------------
(* Generation.                                                               *)
LEMMA BeginGenerationInv ==
  ASSUME CampaignInv, ~final.made, NEW t \in DOMAIN trainings, BeginGeneration(t)
  PROVE  CampaignInv'
<1> DEFINE d == Generated(t)
           n == Len(generations) + 1
<1>1. /\ Loads(t) /\ generations' = Append(generations, d)
      /\ UNCHANGED <<protocol, source, approved, claims, trainings, files>>
  BY DEF BeginGeneration
<1>2. UNCHANGED protocol /\ UNCHANGED claims /\ UNCHANGED trainings /\ UNCHANGED final
      /\ UNCHANGED source /\ UNCHANGED approved
  BY <1>1 DEF files
<1>3. t \in Nat
  BY DEF CampaignInv, CampaignTypes
<1>4. d \in GenerationRecords
  <2>1. Baseline \in [Panel -> Outcomes]
    <3>1. Baseline = [c \in Panel |-> Baseline[c]]
      BY DEF Baseline
    <3>2. \A c \in Panel : Baseline[c] \in Outcomes
      BY DEF Outcomes
    <3> QED  BY <3>1, <3>2
  <2> QED  BY <1>3, <2>1 DEF Generated, GenerationRecords
<1>5. d.training = t /\ (protocol.claims => trainings[t].pc = "done")
  BY <1>1 DEF Generated, Loads
<1>6. generations \in Seq(GenerationRecords)
  BY DEF CampaignInv, CampaignTypes
<1> HIDE DEF d
<1>7. /\ generations' \in Seq(GenerationRecords) /\ generations'[n] = d
      /\ \A g \in DOMAIN generations' : g = n \/ g \in DOMAIN generations
      /\ \A g \in DOMAIN generations : generations'[g] = generations[g]
  BY <1>1, <1>4, <1>6
<1>8. CampaignTypes'
  BY <1>2, <1>7 DEF CampaignInv, CampaignTypes
<1>9. DirectoriesTrue' /\ ClaimedOnce'
  BY <1>2 DEF CampaignInv, DirectoriesTrue, ClaimedOnce
<1>10. FromTraining'
  BY <1>2, <1>5, <1>7 DEF CampaignInv, FromTraining
<1>11. SelectedIsQualified'
  BY <1>2 DEF SelectedIsQualified
<1> QED  BY <1>8, <1>9, <1>10, <1>11 DEF CampaignInv

LEMMA GenerationStepInv ==
  ASSUME CampaignInv, ~final.made, NEW g \in DOMAIN generations,
         \/ \E c \in Panel : WriteCase(g, c)
         \/ WriteReport(g) \/ CrashGeneration(g)
  PROVE  CampaignInv'
<1> DEFINE d == generations[g]
<1>1. d \in GenerationRecords
  BY DEF CampaignInv, CampaignTypes
<1> HIDE DEF d
<1>2. ASSUME NEW c \in Panel, WriteCase(g, c)
      PROVE  CampaignInv'
  <2>1. PICK prediction \in Possible(c) :
          Change(g, [d EXCEPT !.cases = @ \union {c}, !.predictions[c] = prediction])
    BY <1>2 DEF WriteCase, d
  <2> DEFINE e == [d EXCEPT !.cases = @ \union {c}, !.predictions[c] = prediction]
  <2>2. prediction \in Outcomes
    BY DEF Outcomes
  <2>3. [d.predictions EXCEPT ![c] = prediction] \in [Panel -> Outcomes]
    BY <1>1, <2>2 DEF GenerationRecords
  <2>4. e \in GenerationRecords /\ e.training = d.training
    BY <1>1, <2>3 DEF GenerationRecords
  <2> HIDE DEF e
  <2> QED  BY <2>1, <2>4, ChangeInv DEF d, e
<1>3. CASE WriteReport(g)
  <2> DEFINE e == [d EXCEPT !.report = TRUE, !.running = FALSE]
  <2>1. Change(g, e)
    BY <1>3 DEF WriteReport, d
  <2>2. e \in GenerationRecords /\ e.training = d.training
    BY <1>1 DEF GenerationRecords
  <2> HIDE DEF e
  <2> QED  BY <2>1, <2>2, ChangeInv DEF d
<1>4. CASE CrashGeneration(g)
  <2> DEFINE e == [d EXCEPT !.running = FALSE]
  <2>1. Change(g, e)
    BY <1>4 DEF CrashGeneration, d
  <2>2. e \in GenerationRecords /\ e.training = d.training
    BY <1>1 DEF GenerationRecords
  <2> HIDE DEF e
  <2> QED  BY <2>1, <2>2, ChangeInv DEF d
<1> QED  BY <1>2, <1>3, <1>4
-----------------------------------------------------------------------------
(* The review.  A packet that passes was passed by two reviewers, who are not*)
(* one.                                                                      *)
PassedBy(packet, by) ==
  {v.reviewer : v \in {w \in by : w.finds = "pass" /\ w.packet = packet}}

LEMMA TwoPassed ==
  ASSUME NEW by, NEW packets, ValidBundle(by, packets), NEW packet,
         Status(packet, by) = "pass"
  PROVE  Cardinality(PassedBy(packet, by)) >= 2
<1> DEFINE cast == VotesOn(packet, by)
           who == {v.reviewer : v \in cast}
           found == {v.finds : v \in cast}
           f == [v \in cast |-> v.reviewer]
<1>1. IsFiniteSet(Reviewers) /\ who \subseteq Reviewers
  BY PanelConstants DEF ValidBundle, VotesOn
<1>2. IsFiniteSet(who) /\ Cardinality(who) \in Nat
  BY <1>1, FS_Subset, FS_CardinalityType
<1>3. f \in Injection(cast, who)
  <2>1. \A v, w \in cast : v.reviewer = w.reviewer => v = w
    BY DEF ValidBundle, VotesOn
  <2> QED  BY <2>1 DEF Injection, IsInjective
<1>4. IsFiniteSet(cast) /\ Cardinality(cast) \in Nat /\ Cardinality(cast) <= Cardinality(who)
  BY <1>2, <1>3, FS_Injection, FS_CardinalityType
<1>5. IsFiniteSet(found) /\ Cardinality(found) \in Nat
  <2>1. [v \in cast |-> v.finds] \in Surjection(cast, found)
    BY DEF Surjection
  <2> QED  BY <1>4, <2>1, FS_Surjection, FS_CardinalityType
<1>6. Cardinality(cast) >= 2 /\ Cardinality(found) <= 1 /\ (CHOOSE v \in cast : TRUE).finds = "pass"
  BY <1>4, <1>5 DEF Status
<1>7. cast # {}
  BY <1>6, FS_EmptySet
<1>8. "pass" \in found
  BY <1>6, <1>7
<1>9. ASSUME NEW v \in cast
      PROVE  v.finds = "pass"
  <2>1. SUFFICES ASSUME v.finds # "pass" PROVE FALSE
    OBVIOUS
  <2>2. {"pass", v.finds} \subseteq found
    BY <1>8
  <2>3. Cardinality({"pass"} \union {v.finds}) = 2
    <3>1. IsFiniteSet({"pass"}) /\ Cardinality({"pass"}) = 1 /\ v.finds \notin {"pass"}
      BY <2>1, FS_Singleton
    <3> QED  BY <3>1, FS_AddElement
  <2>4. {"pass"} \union {v.finds} = {"pass", v.finds}
    OBVIOUS
  <2>5. Cardinality({"pass", v.finds}) <= Cardinality(found)
    BY <1>5, <2>2, FS_Subset
  <2> QED  BY <1>6, <2>3, <2>4, <2>5, <1>5
<1>10. cast = {w \in by : w.finds = "pass" /\ w.packet = packet}
  BY <1>9 DEF VotesOn
<1>11. PassedBy(packet, by) = who
  BY <1>10 DEF PassedBy
<1> QED  BY <1>2, <1>4, <1>6, <1>11

(* What the selected arm's predictions have passed.                          *)
LEMMA GatesGive ==
  ASSUME NEW predictions, NEW by, NEW packets, ValidBundle(by, packets),
         PilotGatesPassed(predictions, by)
  PROVE  /\ \A c \in Normal : predictions[c] = Baseline[c]
                             /\ Cardinality(PassedBy(Packet(c, predictions[c]), by)) >= 2
         /\ Cardinality({c \in Memory : Cardinality(PassedBy(Packet(c, predictions[c]), by)) >= 2}) >= Needed
<1>1. ASSUME NEW c, Gated(c, predictions[c], by) = "pass"
      PROVE  Cardinality(PassedBy(Packet(c, predictions[c]), by)) >= 2
  <2>1. Status(Packet(c, predictions[c]), by) = "pass"
    BY <1>1 DEF Gated
  <2> QED  BY <2>1, TwoPassed
<1>2. ASSUME NEW c \in Normal
      PROVE  predictions[c] = Baseline[c]
             /\ Cardinality(PassedBy(Packet(c, predictions[c]), by)) >= 2
  <2>1. ~Mechanical(c, predictions[c]) /\ c \in Passing(Normal, predictions, by)
    BY DEF PilotGatesPassed, Panel
  <2> QED  BY <2>1, <1>1 DEF Mechanical, Passing
<1>3. Cardinality({c \in Memory : Cardinality(PassedBy(Packet(c, predictions[c]), by)) >= 2}) >= Needed
  <2> DEFINE all == {c \in Memory : Cardinality(PassedBy(Packet(c, predictions[c]), by)) >= 2}
             some == Passing(Memory, predictions, by)
  <2>1. some \subseteq all /\ all \subseteq Memory
    BY <1>1 DEF Passing
  <2>2. IsFiniteSet(all)
    BY <2>1, PanelConstants, FS_Subset
  <2>3. IsFiniteSet(some) /\ Cardinality(some) <= Cardinality(all)
    BY <2>1, <2>2, FS_Subset
  <2>4. Cardinality(some) \in Nat /\ Cardinality(all) \in Nat
    BY <2>2, <2>3, FS_CardinalityType
  <2>5. Cardinality(Memory) \in Nat
    BY PanelConstants, FS_CardinalityType
  <2>6. Cardinality(some) >= Needed /\ Needed \in Nat
    BY <2>5, PanelConstants DEF PilotGatesPassed
  <2> HIDE DEF all, some
  <2>7. Cardinality(all) >= Needed
    BY <2>3, <2>4, <2>6
  <2> QED  BY <2>7 DEF all
<1> QED  BY <1>2, <1>3

LEMMA SelectedIs ==
  ASSUME NEW reports, NEW by, Selected(reports, by) # "none"
  PROVE  /\ Selected(reports, by) \in DOMAIN reports
         /\ PilotGatesPassed(reports[Selected(reports, by)], by)
<1> DEFINE eligible == {a \in DOMAIN reports : PilotGatesPassed(reports[a], by)}
           passes(a) == Cardinality(Passing(Memory, reports[a], by))
           best == {a \in eligible : \A b \in eligible : passes(b) <= passes(a)}
<1>1. best # {} /\ Selected(reports, by)
                     = IF "joint_aux" \in best THEN "joint_aux" ELSE CHOOSE a \in best : TRUE
  BY DEF Selected
<1>2. Selected(reports, by) \in best
  BY <1>1
<1> QED  BY <1>2

LEMMA ScoreInv ==
  ASSUME CampaignInv, ~final.made, Score
  PROVE  CampaignInv'
<1>1. PICK chosen \in Candidates :
        /\ AllQualify(chosen)
        /\ ValidBundle(votes, AllPackets(chosen))
        /\ final' = [made |-> TRUE, arm |-> Selected(Reports(chosen), votes),
                      chosen |-> chosen, by |-> votes]
  BY DEF Score
<1>2. protocol.claims
      /\ UNCHANGED protocol /\ UNCHANGED claims /\ UNCHANGED trainings /\ UNCHANGED generations
      /\ UNCHANGED source /\ UNCHANGED approved /\ UNCHANGED audits
  BY DEF Score
<1>3. CampaignTypes'
  BY <1>2 DEF CampaignInv, CampaignTypes
<1>4. DirectoriesTrue' /\ ClaimedOnce' /\ FromTraining'
  BY <1>2 DEF CampaignInv, DirectoriesTrue, ClaimedOnce, FromTraining
<1>5. SelectedIsQualified'
  <2> DEFINE a == Selected(Reports(chosen), votes)
             g == chosen[a].generation
  <2>1. /\ final'.arm = a /\ final'.chosen = chosen /\ final'.by = votes
    BY <1>1
  <2>2. SUFFICES ASSUME a # "none" PROVE SelectedIsQualified'
    BY <2>1 DEF SelectedIsQualified
  <2>3. a \in DOMAIN Reports(chosen) /\ PilotGatesPassed(Reports(chosen)[a], votes)
    BY <2>2, SelectedIs
  <2>4. a \in Arms(protocol) /\ Reports(chosen)[a] = generations[g].predictions
    BY <2>3 DEF Reports
  <2>5. chosen[a] \in [generation : DOMAIN generations, audit : audits]
    BY <2>4 DEF Candidates
  <2>6. g \in DOMAIN generations /\ chosen[a].audit \in audits
    BY <2>5
  <2>7. Qualifies(g, chosen[a].audit, a)
    BY <1>1, <2>4 DEF AllQualify
  <2>8. /\ trainings[generations[g].training].arm = a
        /\ chosen[a].audit.generation = g /\ chosen[a].audit.cases = Panel
        /\ chosen[a].audit.complete
    BY <2>7 DEF Qualifies, QualifiesAnyGeneration, QualifiesPartial
  <2>9. trainings[generations[g].training].pc = "done"
    BY <1>2, <2>6 DEF CampaignInv, FromTraining
  <2>10. /\ \A c \in Normal :
              /\ generations[g].predictions[c] = Baseline[c]
              /\ Cardinality(PassedBy(Packet(c, generations[g].predictions[c]), votes)) >= 2
         /\ Cardinality({c \in Memory :
              Cardinality(PassedBy(Packet(c, generations[g].predictions[c]), votes)) >= 2}) >= Needed
    BY <1>1, <2>3, <2>4, GatesGive
  <2> HIDE DEF a, g
  <2>11. final'.arm = a /\ final'.chosen[a].generation = g /\ final'.by = votes
    BY <2>1 DEF a, g
  <2> QED  BY <1>2, <2>6, <2>8, <2>9, <2>10, <2>11 DEF SelectedIsQualified, PassedBy
<1> QED  BY <1>3, <1>4, <1>5 DEF CampaignInv

LEMMA ClaimsStep == CampaignInv /\ [~final.made /\ CampaignNext]_campaignVars => CampaignInv'
<1> SUFFICES ASSUME CampaignInv, [~final.made /\ CampaignNext]_campaignVars PROVE CampaignInv'
  OBVIOUS
<1>1. CASE UNCHANGED campaignVars
  <2>1. /\ UNCHANGED protocol /\ UNCHANGED source /\ UNCHANGED approved /\ UNCHANGED claims
        /\ UNCHANGED trainings /\ UNCHANGED generations /\ UNCHANGED audits /\ UNCHANGED final
    BY <1>1 DEF campaignVars
  <2>2. CampaignTypes' /\ DirectoriesTrue' /\ ClaimedOnce' /\ FromTraining'
    BY <2>1 DEF CampaignInv, CampaignTypes, DirectoriesTrue, ClaimedOnce, FromTraining
  <2>3. SelectedIsQualified'
    BY <2>1 DEF CampaignInv, SelectedIsQualified
  <2> QED  BY <2>2, <2>3 DEF CampaignInv
<1>2. CASE ~final.made /\ CampaignNext
  <2>1. source \in Nat /\ approved \in Nat
    BY DEF CampaignInv, CampaignTypes
  <2>2. CASE Edit \/ Preflight
    <3>1. /\ UNCHANGED <<protocol, claims, trainings, generations, final>>
          /\ source' \in Nat /\ approved' \in Nat
      BY <2>1, <2>2 DEF Edit, Preflight, files
    <3> QED  BY <3>1, <1>2, CampaignStutter
  <2>3. CASE Launch
    BY <1>2, <2>3, LaunchInv
  <2>4. ASSUME NEW t \in DOMAIN trainings,
               \/ NextArm(t) \/ SaveInitial(t) \/ Step(t) \/ SaveFinal(t) \/ WriteStatus(t)
               \/ CrashTraining(t) \/ ReplaceCheckpoint(t) \/ BeginGeneration(t)
        PROVE  CampaignInv'
    BY <1>2, <2>4, NextArmInv, TrainingStepInv, CrashTrainingInv, BeginGenerationInv
  <2>5. ASSUME NEW g \in DOMAIN generations,
               (\E c \in Panel : WriteCase(g, c)) \/ WriteReport(g) \/ CrashGeneration(g)
        PROVE  CampaignInv'
    BY <1>2, <2>5, GenerationStepInv
  <2>6. ASSUME NEW g \in DOMAIN generations, NEW some \in BOOLEAN, Audit(g, some)
        PROVE  CampaignInv'
    <3>1. /\ UNCHANGED <<protocol, claims, trainings, generations, final>>
          /\ source' \in Nat /\ approved' \in Nat
      BY <2>1, <2>6 DEF Audit
    <3> QED  BY <3>1, <1>2, CampaignStutter
  <2>7. CASE Pack \/ \E r \in Reviewers : Review(r)
    <3>1. /\ UNCHANGED <<protocol, claims, trainings, generations, final>>
          /\ source' \in Nat /\ approved' \in Nat
      BY <2>1, <2>7 DEF Pack, Review
    <3> QED  BY <3>1, <1>2, CampaignStutter
  <2>8. CASE Score
    BY <1>2, <2>8, ScoreInv
  <2> QED  BY <1>2, <2>2, <2>3, <2>4, <2>5, <2>6, <2>7, <2>8 DEF CampaignNext
<1> QED  BY <1>1, <1>2

LEMMA CampaignAlwaysInv == CampaignSpec => []CampaignInv
  BY ClaimsBegin, ClaimsStep, PTL DEF CampaignSpec

(* The sum of a function on at most one element.                             *)
LEMMA SumOfNone ==
  ASSUME NEW f, DOMAIN f = {}
  PROVE  Sum(f) = 0
<1> DEFINE F(sum) == [s \in SUBSET DOMAIN f |->
                        IF s = {} THEN 0
                        ELSE LET x == CHOOSE x \in s : TRUE IN f[x] + sum[s \ {x}]]
           sums == [s \in SUBSET DOMAIN f |-> 0]
           sum == CHOOSE sum : sum = F(sum)
<1>1. sums = F(sums)
  OBVIOUS
<1>2. sum = F(sum)
  BY <1>1
<1>3. Sum(f) = sum[DOMAIN f]
  BY DEF Sum
<1>4. F(sum)[{}] = 0
  OBVIOUS
<1> HIDE DEF F, sum
<1> QED  BY <1>2, <1>3, <1>4

LEMMA SumOfOne ==
  ASSUME NEW f, NEW t, DOMAIN f = {t}, f[t] \in Nat
  PROVE  Sum(f) = f[t]
<1> DEFINE F(sum) == [s \in SUBSET DOMAIN f |->
                        IF s = {} THEN 0
                        ELSE LET x == CHOOSE x \in s : TRUE IN f[x] + sum[s \ {x}]]
           sums == [s \in SUBSET DOMAIN f |-> IF s = {} THEN 0 ELSE f[t]]
           sum == CHOOSE sum : sum = F(sum)
<1>1. sums = F(sums)
  <2>1. ASSUME NEW s \in SUBSET DOMAIN f, s # {}
        PROVE  (LET x == CHOOSE x \in s : TRUE IN f[x] + sums[s \ {x}]) = f[t]
    <3>1. s = {t} /\ (CHOOSE x \in s : TRUE) = t /\ s \ {t} = {}
      BY <2>1
    <3>2. sums[{}] = 0
      OBVIOUS
    <3> QED  BY <3>1, <3>2
  <2> QED  BY <2>1
<1>2. sum = F(sum)
  BY <1>1
<1>3. Sum(f) = sum[{t}]
  BY DEF Sum
<1>4. F(sum)[{t}] = f[t] + sum[{}]
  <2>1. (CHOOSE x \in {t} : TRUE) = t /\ {t} \ {t} = {} /\ {t} # {} /\ {t} \in SUBSET DOMAIN f
    OBVIOUS
  <2>2. F(sum)[{t}] = LET x == CHOOSE x \in {t} : TRUE IN f[x] + sum[{t} \ {x}]
    BY <2>1
  <2> HIDE DEF F, sum
  <2> QED  BY <2>1, <2>2
<1>5. F(sum)[{}] = 0
  OBVIOUS
<1> HIDE DEF F, sum
<1> QED  BY <1>2, <1>3, <1>4, <1>5

(* However often a claimed campaign is started, an arm's optimizer steps     *)
(* stay within the one allocation: its one directory has at most Steps.      *)
LEMMA InvOneAllocation == CampaignInv => OneAllocation
<1> SUFFICES ASSUME CampaignInv, protocol.claims, NEW a \in Arms(protocol)
             PROVE  Sum([t \in {t \in DOMAIN trainings : trainings[t].arm = a} |->
                          trainings[t].steps]) <= Steps
  BY DEF OneAllocation
<1> DEFINE of == {t \in DOMAIN trainings : trainings[t].arm = a}
           f == [t \in of |-> trainings[t].steps]
<1>1. trainings \in Seq(Directories)
  BY DEF CampaignInv, CampaignTypes
<1>2. CASE of = {}
  <2>1. Sum(f) = 0
    BY <1>2, SumOfNone
  <2> QED  BY <2>1, CampaignConstants
<1>3. ASSUME NEW t \in of
      PROVE  Sum(f) <= Steps
  <2>1. of = {t}
    BY <1>3 DEF CampaignInv, ClaimedOnce
  <2>2. trainings[t].steps \in 0..Steps
    <3>1. trainings[t] \in Directories
      BY <1>1
    <3> QED  BY <3>1 DEF Directories
  <2>3. f[t] = trainings[t].steps /\ f[t] \in Nat /\ DOMAIN f = {t}
    BY <2>1, <2>2, CampaignConstants
  <2>4. Sum(f) = f[t]
    BY <2>3, SumOfOne
  <2> QED  BY <2>2, <2>3, <2>4, CampaignConstants
<1> QED  BY <1>2, <1>3

THEOREM AllocatedOnce == CampaignSpec => []OneAllocation
  BY CampaignAlwaysInv, InvOneAllocation, PTL

(* A status stands beside two whole checkpoints, after all steps, and names  *)
(* the source of all that ran.                                               *)
LEMMA InvStatusIsTrue == CampaignInv => StatusIsTrue
  BY DEF CampaignInv, DirectoriesTrue, WholeBefore, StatusIsTrue

THEOREM StatusAlwaysTrue == CampaignSpec => []StatusIsTrue
  BY CampaignAlwaysInv, InvStatusIsTrue, PTL

(* The selected arm was replayed, on the checkpoint of its one training, and *)
(* every reply that counts was passed by two reviewers.                      *)
THEOREM SelectedAlwaysQualified == CampaignSpec => []SelectedIsQualified
<1>1. CampaignInv => SelectedIsQualified
  BY DEF CampaignInv
<1> QED  BY <1>1, CampaignAlwaysInv, PTL
=============================================================================
