------------------------------ MODULE MCLineage ----------------------------
(* The product lines of the resident bundle and the lines that lead to       *)
(* the launch of a campaign, each file written at most twice, one tool at a  *)
(* time.                                                                     *)
EXTENDS Qualification

WriterLine ==
  [roots |-> {"rows"},
   tools |-> {EncodeFeatures, TrainWriter, TrainTagger, ContinueTagger, TrainKeys,
              TrainOperation, ExportWriter, ExportWriterOperation}]
PairLine ==
  [roots |-> {"pair", "queries"},
   tools |-> {ExportPair, CompileQueries, TrainQuery, RetrainQuery, ExportQuery,
              TrainLink, ExportLink}]
RuntimeLine ==
  [roots |-> {"pair", "features"}, tools |-> {RuntimeParity, RuntimeLinkParity}]
ResidentLine ==
  [roots |-> {"rows"},
   tools |-> {EncodeWorlds, TrainMemorySet, TrainIdentity, ExportIdentity}]
TuningLine ==
  [roots |-> {"rows"},
   tools |-> {EncodeFeatures, TrainWriter, TrainTagger, TrainKeys, ContinueKeys,
              TuneFusion, WriterParity}]
EncoderLine ==
  [roots |-> {"rows"},
   tools |-> {EncodeFeatures, TrainWriter, TrainPair, ExportPair, PairParity,
              TrainLink, LinkParity}]

DataLine ==
  [roots |-> {"corpus"},
   tools |-> {CompileFeatures, SmokeFeatures, AuditData, FullPreflight}]
PlatformLine ==
  [roots |-> {"code", "modules", "features"},
   tools |-> {ExportFixtures, PackagePlatform, CudaPreflight}]
JointLine ==
  [roots |-> {"features", "modules", "cuda"},
   tools |-> {RegisterFeatures, QualifyNative, TakeSnapshot, PreflightOptimizer, TrainJoint}]
RoleLine ==
  [roots |-> {"features"}, tools |-> {RegisterFeatures, QualifyRole, AuthorizeRole, TrainRole}]
AvailabilityLine ==
  [roots |-> {"corpus", "code"},
   tools |-> {CompileAvailability, AuditAvailability, BaselineAvailability,
              AuthorizeAvailability, TrainAvailability}]

MCLines ==
  {WriterLine, PairLine, ResidentLine, TuningLine, EncoderLine, RuntimeLine,
   DataLine, PlatformLine, JointLine, RoleLine, AvailabilityLine}
MCHeadLine ==
  {[roots |-> {"pair", "queries"},
    tools |-> {ExportPair, CompileQueries, TrainQuery, ExportQuery}]}
=============================================================================
