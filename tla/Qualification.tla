--------------------------- MODULE Qualification ---------------------------
(* The evidence a campaign of the memory research is launched on (Campaign   *)
(* takes it for granted): feature packages, audits, snapshots of the source, *)
(* certificates of the numerical preflights.  Each is a tool of Lineage.  A  *)
(* report that does not pass is no evidence: its tool counts as killed.      *)
(* "modules" are the three source files the native certificate of CG-003     *)
(* names, "code" is the rest of the source tree.                             *)
EXTENDS Lineage

Sources == {"code", "modules"}
On(holder, paths) == {<<holder, p>> : p \in paths}
-----------------------------------------------------------------------------
(* CG-003.  The digest of the feature package is a constant of the code      *)
(* (FEATURE_DIGEST): the source is edited to register a package.             *)
RegisterFeatures == [Tool({"features"}, "code") EXCEPT !.late = {"features"}]
Registered == On("code", {"features"})

(* joint_training_data.compile_records verifies the corpus, and the package  *)
(* names it; prepare_joint_training_features extracts the features.          *)
CompileFeatures == [Tool({"corpus"}, "features") EXCEPT !.early = {"corpus"}]

(* audit_joint_binding_data                                                  *)
AuditData == [Tool({"corpus"}, "dataaudit") EXCEPT !.early = {"corpus"}]

(* preflight_joint_full, on the package and on a smaller one, which must hold*)
(* the same features for what is in both                                     *)
SmokeFeatures == [CompileFeatures EXCEPT !.out = "smoke"]
FullPreflight ==
  [Tool({"features", "smoke", "dataaudit"}, "fullpreflight") EXCEPT
     !.checks = {}, !.early = {"features", "smoke"}]

(* scripts/package_joint_preflight, joint_cuda_preflight.export and run      *)
ExportFixtures == [Tool({"features"}, "fixtures") EXCEPT !.early = {"features"}]
PackagePlatform ==
  [Tool(Sources \union {"fixtures"}, "platform") EXCEPT !.late = Sources \union {"fixtures"}]
CudaPreflight ==
  [Tool(Sources \union {"fixtures", "platform"}, "cuda") EXCEPT
     !.checks = On("platform", Sources), !.early = {"fixtures"}, !.late = {"platform"}]

(* qualify_joint_native: it names three of the source files it runs          *)
QualifyNative ==
  [Tool(Sources \union {"features"}, "native") EXCEPT !.early = {"features"}, !.late = {"modules"}]

(* scripts/package_joint_training, joint_optimizer_preflight                 *)
TakeSnapshot ==
  [Tool(Sources \union {"features"}, "snapshot") EXCEPT
     !.checks = Registered, !.late = Sources \union {"features"}]
PreflightOptimizer ==
  [Tool(Sources \union {"features", "snapshot"}, "optimizer") EXCEPT
     !.checks = On("snapshot", Sources) \union Registered,
     !.early = Sources \union {"features"}, !.late = {"snapshot"}]

(* joint_launch.require_launch, and the training it opens                    *)
TrainJointOnAnyPreflight ==
  [Tool(Sources \union {"features", "snapshot", "optimizer"}, "checkpoint") EXCEPT
     !.needs = {"native", "cuda"},
     !.checks = On("snapshot", Sources) \union On("native", {"modules"}) \union Registered,
     !.early = Sources \union {"features"}]
TrainJoint ==
  [TrainJointOnAnyPreflight EXCEPT
     !.checks = @ \union On("optimizer", Sources \union {"snapshot", "features"})]
-----------------------------------------------------------------------------
(* CG-002.  Its certificate names all the source it runs; an authorization,  *)
(* written by hand, names the certificate.                                   *)
QualifyRole ==
  [Tool({"code", "features"}, "native") EXCEPT
     !.checks = Registered, !.early = {"features"}, !.late = {"code"}]
AuthorizeRole ==
  [Tool({"code", "features", "native"}, "authorization") EXCEPT
     !.late = {"code", "features", "native"}]
TrainRole ==
  [Tool({"code", "features", "native", "authorization"}, "checkpoint") EXCEPT
     !.checks = On("authorization", {"code", "features", "native"})
                  \union On("native", {"code", "features"}) \union Registered,
     !.early = {"features"}, !.late = {"code"}]

(* CG-001.  The digest of the package is an argument: its launch evidence    *)
(* names the package and the base reply, and that the package it was told of,*)
(* which it does not open.                                                   *)
CompileAvailability == CompileFeatures
AuditAvailability == AuditData
BaselineAvailability ==
  [Tool({"corpus"}, "reference") EXCEPT !.needs = {"features"}, !.early = {"corpus", "features"}]
AuthorizeAvailability ==
  [Tool({"code", "features", "reference"}, "authorization") EXCEPT
     !.late = {"code", "features", "reference"}]
TrainAvailability ==
  [Tool({"code", "corpus", "features", "reference", "authorization"}, "checkpoint") EXCEPT
     !.checks = On("authorization", {"code", "features", "reference"})
                  \union On("reference", {"features"}) \union On("features", {"corpus"}),
     !.early = {"features"}, !.late = {"code"}]
-----------------------------------------------------------------------------
JointTools ==
  {RegisterFeatures, CompileFeatures, AuditData, SmokeFeatures, FullPreflight, ExportFixtures,
   PackagePlatform, CudaPreflight, QualifyNative, TakeSnapshot, PreflightOptimizer, TrainJoint}
RoleTools == {RegisterFeatures, QualifyRole, AuthorizeRole, TrainRole}
AvailabilityTools ==
  {CompileAvailability, AuditAvailability, BaselineAvailability, AuthorizeAvailability,
   TrainAvailability}

(* A product line is made of tools of the pipeline or of one campaign; what  *)
(* it starts from is none of the checkpoints, and none of its own outputs.   *)
Roots == {"rows", "queries", "pair", "features", "corpus", "code", "modules", "cuda"}
ASSUME LinesAssumption ==
  \A l \in Lines :
    /\ l.roots \subseteq Roots
    /\ \A t \in l.tools : t.out \notin l.roots
    /\ \E family \in {Pipeline, JointTools, RoleTools, AvailabilityTools} : l.tools \subseteq family
-----------------------------------------------------------------------------
(* A campaign trains what was qualified: behind its checkpoint, through every*)
(* report it was admitted with and all they were made from, there is one     *)
(* version of the source, of the feature package and of the corpus, and the  *)
(* checkpoint names it.  (Not through the certificates CG-003 only needs to  *)
(* have: they name less than they ran.)                                      *)
LaunchedAsQualified ==
  Has("checkpoint") =>
    /\ \A p \in {"code", "features"} :
         {<<p, v>> : v \in VersionsOf(p, disk["checkpoint"].used)}
           = {n \in disk["checkpoint"].names : n[1] = p}
    /\ \A p \in {"code", "features", "modules", "corpus"} :
         Cardinality(VersionsOf(p, disk["checkpoint"].used)) <= 1
=============================================================================
