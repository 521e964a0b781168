------------------------------ MODULE Lineage ------------------------------
(* The artifacts of the typed-memory pipeline and the tools that make them   *)
(* from one another: feature caches, checkpoints, exported model files.  A   *)
(* tool loads its inputs, compares the fingerprints they recorded with those *)
(* of the files that are there now, works for minutes to hours, and writes   *)
(* its output in place with the fingerprints of some of its inputs.  Nothing *)
(* locks a file: an input may be made anew before, after or, if the operator *)
(* runs tools together, while a tool works.  A fingerprint names a version of*)
(* a file; two versions never have the same one.                             *)
EXTENDS Naturals, FiniteSets

CONSTANTS
  Lines,       \* the product lines: sets of tools with the roots they start from
  Together,    \* how many tools run at a time
  MaxVersions  \* bound: how often a file is written

ASSUME LineageConstants == {Together, MaxVersions} \subseteq Nat \ {0}

VARIABLES
  line,  \* the product line
  disk,  \* path -> the file that is there
  jobs   \* the tools that are at work, with the inputs they loaded

lineageVars == <<line, disk, jobs>>
-----------------------------------------------------------------------------
(* A file: its version; the versions of the files its tool read; those and   *)
(* all that they were made from; the versions it names as its origin.        *)
NoFile == [version |-> 0, torn |-> FALSE, read |-> {}, used |-> {}, names |-> {}]
Present(p) == disk[p].version > 0 /\ ~disk[p].torn

(* file_fingerprint(path), as of now. *)
Now(p) == <<p, disk[p].version>>
VersionsOf(p, set) == {v \in 1..MaxVersions : <<p, v>> \in set}

(* A tool: what it reads, what else must be there, which recorded origins it *)
(* compares with the present files, whether an output with the right origins *)
(* is used again, which origins it records, taken as it starts or as it ends.*)
Tool(reads, out) ==
  [reads |-> reads, needs |-> {}, checks |-> {}, early |-> {}, late |-> {},
   cached |-> FALSE, out |-> out]
Names(t) == t.early \union t.late

(* prepare_typed_memory_features.load_or_encode *)
EncodeFeatures ==
  [Tool({"rows"}, "features") EXCEPT !.early = {"rows"}, !.cached = TRUE]

(* train_typed_memory_writer: load_writer_examples pairs rows and features   *)
OnRows == {<<"features", "rows">>}
TrainWriter ==
  [Tool({"rows", "features"}, "writer") EXCEPT !.checks = OnRows, !.late = {"rows"}]

(* train_typed_span_tagger, from the writer's boundary keys or from a tagger *)
TrainTagger ==
  [Tool({"rows", "features", "writer"}, "tagger") EXCEPT !.checks = OnRows, !.late = {"writer"}]
ContinueTaggerUnchecked ==
  [TrainTagger EXCEPT !.reads = @ \union {"tagger"}]
ContinueTagger ==
  [TrainTagger EXCEPT !.reads = @ \union {"tagger"}, !.checks = @ \union {<<"tagger", "writer">>}]

(* train_typed_anchor_keys: a tagger must load, and is not used              *)
TrainKeys ==
  [Tool({"rows", "features", "writer"}, "keys") EXCEPT
     !.needs = {"tagger"}, !.checks = OnRows, !.late = {"writer"}]
ContinueKeys ==
  [TrainKeys EXCEPT !.reads = @ \union {"keys"}, !.checks = @ \union {<<"keys", "writer">>}]

(* train_context_memory_operation *)
TrainOperation ==
  [Tool({"rows", "features", "writer"}, "operation") EXCEPT
     !.needs = {"writerbin"}, !.checks = OnRows, !.late = {"rows", "writer", "writerbin"}]

(* export_typed_writer_model, without and with a context operation           *)
ExportWriterUnchecked == Tool({"writer", "tagger", "keys"}, "writerbin")
ExportWriter ==
  [Tool({"writer", "tagger", "keys"}, "writerbin") EXCEPT
     !.checks = {<<"tagger", "writer">>, <<"keys", "writer">>}]
ExportWriterOperation ==
  [ExportWriter EXCEPT !.reads = @ \union {"operation"}, !.checks = @ \union {<<"operation", "writer">>}]

(* tune_typed_anchor_span_fusion and export_typed_writer_parity_sample take  *)
(* any tagger and keys of the same backbone                                  *)
TuneFusion ==
  [Tool({"rows", "features", "writer", "tagger", "keys"}, "fusion") EXCEPT !.checks = OnRows]
WriterParity ==
  [Tool({"rows", "features", "writer", "tagger", "keys"}, "parity") EXCEPT !.checks = OnRows]

(* train_typed_pair_verifier, and export_typed_pair_encoder                  *)
TrainPair ==
  [Tool({"rows", "features", "writer"}, "pair") EXCEPT !.checks = OnRows]
ExportPair == Tool({"pair"}, "pairbin")
PairParity == Tool({"pair"}, "pairparity")

(* train_typed_query_activator: load_or_compile, then the training proper    *)
CompileQueries ==
  [Tool({"queries", "pair"}, "qcache") EXCEPT
     !.early = {"queries", "pair"}, !.cached = TRUE]
TrainQuery ==
  [Tool({"qcache"}, "query") EXCEPT
     !.needs = {"queries", "pair"}, !.late = {"pair"},
     !.checks = {<<"qcache", p>> : p \in Names(CompileQueries)}]
ExportQuery ==
  [Tool({"query"}, "querybin") EXCEPT
     !.needs = {"pair", "pairbin"}, !.checks = {<<"query", "pair">>}, !.late = {"pairbin"}]

(* retrain_query_from_features, from the kept rows of the query training     *)
RetrainQuery ==
  [Tool({"qcache"}, "query") EXCEPT
     !.needs = {"pair"}, !.late = {"pair"}, !.checks = {<<"qcache", "pair">>}]

(* export_typed_runtime_parity_sample, export_typed_runtime_link_parity_sample *)
RuntimeParity == Tool({"pair", "features"}, "runtimeparity")
RuntimeLinkParity == [RuntimeParity EXCEPT !.out = "runtimelinkparity"]

(* train_natural_link_head, and export_typed_link_model                      *)
TrainLink == [Tool({"pair"}, "link") EXCEPT !.needs = {"pairbin"}, !.late = {"pair"}]
ExportLink == Tool({"link"}, "linkbin")
LinkParity == Tool({"link"}, "linkparity")

(* train_resident_memory_set, its feature cache and its selected weights     *)
EncodeWorlds == [Tool({"rows"}, "cache") EXCEPT !.early = {"rows"}]
TrainMemorySet ==
  [Tool({"rows", "cache"}, "baseline") EXCEPT
     !.checks = {<<"cache", "rows">>}, !.early = {"rows"}]

(* train_resident_identity, and export_resident_identity                     *)
TrainIdentity ==
  [Tool({"rows", "cache", "baseline"}, "resident") EXCEPT
     !.checks = {<<"cache", "rows">>, <<"baseline", "rows">>},
     !.early = {"rows", "cache", "baseline"}]
ExportIdentity == [Tool({"resident"}, "residentbin") EXCEPT !.late = {"resident"}]

Pipeline ==
  {EncodeFeatures, TrainWriter, TrainTagger, ContinueTagger, TrainKeys, ContinueKeys,
   TrainOperation, ExportWriter, ExportWriterOperation, TuneFusion, WriterParity, TrainPair,
   ExportPair, PairParity, CompileQueries, TrainQuery, ExportQuery, RetrainQuery,
   RuntimeParity, RuntimeLinkParity, TrainLink, ExportLink, LinkParity, EncodeWorlds,
   TrainMemorySet, TrainIdentity, ExportIdentity}
-----------------------------------------------------------------------------
(* Running a tool. *)

Paths(l) == l.roots \union UNION {{t.out} \union t.reads \union t.needs : t \in l.tools}

(* Recorded origins agree with the files that are there now. *)
Agrees(holder, p) == Now(p) \in disk[holder].names
CacheHit(t) ==
  t.cached /\ Present(t.out) /\ \A p \in Names(t) : Agrees(t.out, p)

(* The tool loads its inputs and compares; a cached output is used as it is. *)
Begin(t) ==
  /\ Cardinality(jobs) < Together
  /\ \A p \in t.reads \union t.needs : Present(p)
  /\ \A c \in t.checks : Agrees(c[1], c[2])
  /\ ~CacheHit(t)
  /\ \A j \in jobs : j.tool # t
  /\ disk[t.out].version < MaxVersions
  /\ jobs' = jobs \union {[tool |-> t,
                           read |-> {Now(p) : p \in t.reads},
                           used |-> UNION {disk[p].used : p \in t.reads},
                           fingerprints |-> {Now(p) : p \in t.early}]}
  /\ UNCHANGED <<line, disk>>

Origins(j) == j.fingerprints \union {Now(p) : p \in j.tool.late}

(* The output replaces what was at its path, and records its origins.        *)
Finish(j) ==
  /\ disk' = [disk EXCEPT ![j.tool.out] =
                [version |-> @.version + 1, torn |-> FALSE, read |-> j.read,
                 used |-> j.read \union j.used, names |-> Origins(j)]]
  /\ jobs' = jobs \ {j}
  /\ UNCHANGED line

(* The tool is killed, before it writes or in the middle of its output.      *)
Crash(j) ==
  /\ jobs' = jobs \ {j}
  /\ \/ UNCHANGED disk
     \/ disk' = [disk EXCEPT ![j.tool.out] =
                   [NoFile EXCEPT !.version = disk[j.tool.out].version + 1, !.torn = TRUE]]
  /\ UNCHANGED line

(* A root is prepared anew: rows, queries, or what another line delivers.    *)
Replace(p) ==
  /\ disk[p].version < MaxVersions
  /\ Cardinality(jobs) < Together
  /\ disk' = [disk EXCEPT ![p] = [NoFile EXCEPT !.version = disk[p].version + 1]]
  /\ UNCHANGED <<line, jobs>>

LineageInit ==
  /\ line \in Lines
  /\ disk = [p \in Paths(line) |->
               IF p \in line.roots THEN [NoFile EXCEPT !.version = 1] ELSE NoFile]
  /\ jobs = {}

LineageNext ==
  \/ \E t \in line.tools : Begin(t)
  \/ \E j \in jobs : Finish(j)
  \/ \E j \in jobs : Crash(j)
  \/ \E p \in line.roots : Replace(p)

LineageSpec == LineageInit /\ [][LineageNext]_lineageVars
-----------------------------------------------------------------------------
(* The verification of a bundle (training/memory/resident-0.5b/verify.py):   *)
(* the checkpoints name one another, and every model file is what exporting  *)
(* the checkpoints again gives.                                              *)

(* Exporting the present inputs gives the file that is there.                *)
ReproducedIfPresent(out, inputs) == Present(out)
Reproduced(out, inputs) == Present(out) /\ disk[out].read = {Now(p) : p \in inputs}

Has(p) == p \in DOMAIN disk /\ Present(p)

WriterVerified ==
  /\ Has("writerbin") /\ Has("operation")
  /\ \A p \in {"tagger", "keys", "operation"} : Has(p) /\ Agrees(p, "writer")
  /\ Reproduced("writerbin", {"writer", "tagger", "keys", "operation"})

PairVerified ==
  /\ Has("querybin") /\ Has("linkbin")
  /\ \A p \in {"query", "link", "qcache"} : Has(p) /\ Agrees(p, "pair")
  /\ Reproduced("pairbin", {"pair"}) /\ Reproduced("linkbin", {"link"})
  /\ Reproduced("querybin", {"query"}) /\ Agrees("querybin", "pairbin")

ResidentVerified ==
  /\ Has("residentbin")
  /\ Has("resident") /\ Agrees("resident", "rows") /\ Agrees("resident", "baseline")
  /\ Has("baseline") /\ Agrees("baseline", "rows")
  /\ Reproduced("residentbin", {"resident"})

(* typed_query_activator.c: the model file of the query head names the file  *)
(* of the pair encoder that is loaded beside it.                             *)
RuntimeAccepts == Has("querybin") /\ Has("pairbin") /\ Agrees("querybin", "pairbin")
-----------------------------------------------------------------------------
(* What each checkpoint was trained for, and names as its origin.  Caches are*)
(* left out: made again from the same rows they are the same.                *)
TrainedFor ==
  [a \in {"writer", "tagger", "keys", "operation", "query", "link", "baseline", "resident"} |->
     CASE a \in {"writer", "baseline"} -> {"rows"}
       [] a \in {"tagger", "keys", "operation"} -> {"writer"}
       [] a \in {"query", "link"} -> {"pair"}
       [] a = "resident" -> {"rows", "baseline"}]

(* A checkpoint tells the truth about its origin: of each file it was trained*)
(* for, the version it names and no other went into it, directly, through a  *)
(* cache or through the checkpoint it was continued from.                    *)
NamesWhatItUsed ==
  \A a \in DOMAIN TrainedFor \intersect DOMAIN disk :
    Present(a) => \A p \in TrainedFor[a] :
      \E v \in 1..MaxVersions :
        <<p, v>> \in disk[a].names /\ VersionsOf(p, disk[a].used) = {v}

(* What one writer file holds was trained for one writer: no export can put  *)
(* the tagger, the keys or the operation of another writer into it, whatever *)
(* was trained again in between.                                             *)
ExportedTogether ==
  Has("writerbin") => Cardinality(VersionsOf("writer", disk["writerbin"].used)) = 1

(* A bundle that verifies was made from one writer, one pair encoder and one *)
(* set of rows: its query head and link head were trained on the encoder     *)
(* that is shipped, its resident head on the rows its baseline was chosen on.*)
VerifiedTogether ==
  /\ WriterVerified =>
       VersionsOf("writer", disk["writerbin"].used) = {disk["writer"].version}
  /\ PairVerified =>
       \A p \in {"pairbin", "querybin", "linkbin"} :
          VersionsOf("pair", disk[p].used) = {disk["pair"].version}
  /\ ResidentVerified =>
       VersionsOf("rows", disk["residentbin"].used) = {disk["rows"].version}

(* The run time takes a query head only together with the encoder it was     *)
(* trained on.                                                               *)
HeadOnItsEncoder ==
  RuntimeAccepts =>
    VersionsOf("pair", disk["querybin"].used) = VersionsOf("pair", disk["pairbin"].used)
=============================================================================
