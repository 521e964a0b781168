------------------------------ MODULE Campaign -----------------------------
(* An approved training campaign of the memory research, from the launch of  *)
(* its arms to the choice of one: CG-003 (joint) with a budget of its own for*)
(* each arm, and its predecessors CG-002 (role) and CG-001 (availability),   *)
(* which trained one arm and kept less evidence.  The steps are programs that*)
(* run for hours, are started by hand, may be started again after a crash    *)
(* with other output directories, and find the files as they then are.       *)
EXTENDS PanelReview, Sequences

CONSTANTS
  Protocols,       \* the campaigns to consider
  Possible(_),     \* the predictions a model may make for a case
  Steps,           \* optimizer steps of one arm (50)
  Relaunches,      \* bound: trainings beyond one for each arm
  MaxGenerations,  \* bound: starts of the native generation
  MaxAudits,       \* bound: reports of the auditor
  MaxSources       \* bound: versions of the source tree

VARIABLES
  protocol,     \* the campaign
  source,       \* the version of the source tree
  approved,     \* the version the launch evidence was made for
  claims,       \* the arms whose budget directory exists
  trainings,    \* the output directories of the training, in order
  generations,  \* those of the native generation
  audits,       \* the reports of the auditor
  packed,       \* the blind packets handed to the reviewers
  votes,        \* the rows the reviewers returned
  final         \* the final review

campaignVars == <<protocol, source, approved, claims, trainings, generations, audits, packed, votes, final>>
files == <<audits, packed, votes, final>>
-----------------------------------------------------------------------------
Joint ==
  [arms |-> <<"joint_aux", "joint_product">>, claims |-> TRUE, linked |-> TRUE, rehashed |-> TRUE,
   partial |-> TRUE, hashedAgain |-> TRUE]
Role ==
  [arms |-> <<"role">>, claims |-> FALSE, linked |-> FALSE, rehashed |-> FALSE,
   partial |-> FALSE, hashedAgain |-> TRUE]
Availability == [Role EXCEPT !.arms = <<"availability">>, !.hashedAgain = FALSE]

(* These are the campaigns the code has.                                     *)
ASSUME CampaignConstants ==
  /\ Protocols \subseteq {Joint, Role, Availability}
  /\ Steps \in Nat

Arms(p) == {p.arms[i] : i \in DOMAIN p.arms}

(* A training directory.  "loaded" is the source the process runs, "evidence"*)
(* what it was launched with, "named" the source its last file records, and  *)
(* "late" the source of the modules it loads after the last step; a          *)
(* checkpoint is none, torn (cut off while it was written) or whole.         *)
Directory(arm, loaded, evidence) ==
  [arm |-> arm, loaded |-> loaded, evidence |-> evidence, named |-> 0, late |-> 0, steps |-> 0,
   initial |-> "none", final |-> "none", pc |-> "claimed", replaced |-> FALSE]

(* A generation directory: the cases that are written, and the report.       *)
Generated(t) ==
  [training |-> t, cases |-> {}, predictions |-> Baseline,
   report |-> FALSE, running |-> TRUE]

NoFinal == [made |-> FALSE, arm |-> "none", chosen |-> <<>>, by |-> {}]

CampaignInit ==
  /\ protocol \in Protocols
  /\ source = 1 /\ approved = 0
  /\ claims = {}
  /\ trainings = <<>> /\ generations = <<>>
  /\ audits = {} /\ packed = {} /\ votes = {}
  /\ final = NoFinal
-----------------------------------------------------------------------------
(* Launching and training. *)

(* Somebody edits the source tree.                                           *)
Edit ==
  /\ source < MaxSources
  /\ source' = source + 1
  /\ UNCHANGED <<protocol, approved, claims, trainings, generations, files>>

(* The preflight passes on the present source, and its evidence is recorded. *)
Preflight ==
  /\ approved # source
  /\ approved' = source
  /\ UNCHANGED <<protocol, source, claims, trainings, generations, files>>

(* joint_launch.require_launch, require_training_ready, require_ready: the   *)
(* evidence is complete and the source is the one it was made for.           *)
RequireLaunch(evidence) == evidence # 0 /\ evidence = source

(* train_candidate: the budget of the arm is claimed before anything else is *)
(* made, and a failure does not give it back.                                *)
UnclaimedAlways(arm) == TRUE
Unclaimed(arm) == protocol.claims => arm \notin claims

Train(arm, loaded, evidence) ==
  /\ Len(trainings) < Len(protocol.arms) + Relaunches
  /\ RequireLaunch(evidence)
  /\ Unclaimed(arm)
  /\ claims' = IF protocol.claims THEN claims \union {arm} ELSE claims
  /\ trainings' = Append(trainings, Directory(arm, loaded, evidence))
  /\ UNCHANGED <<protocol, source, approved, generations, files>>

(* run_joint_training.run, and main of the others: a process is started.     *)
Launch == Train(protocol.arms[1], source, approved)

(* The process goes on with the next arm; its evidence is that of its start. *)
NextArm(t) ==
  /\ trainings[t].pc = "done" /\ trainings[t].arm = protocol.arms[1]
  /\ Len(protocol.arms) = 2
  /\ Train(protocol.arms[2], trainings[t].loaded, trainings[t].evidence)

Become(t, directory) ==
  /\ trainings' = [trainings EXCEPT ![t] = directory]
  /\ UNCHANGED <<protocol, source, approved, claims, generations, files>>

(* save_checkpoint(0), and the source hashes taken just before it.           *)
SaveInitial(t) ==
  /\ trainings[t].pc = "claimed"
  /\ Become(t, [trainings[t] EXCEPT !.initial = "whole", !.named = source, !.pc = "stepping"])

(* _run_fixed_loop: one optimizer step and its row in training.jsonl.        *)
Step(t) ==
  /\ trainings[t].pc = "stepping" /\ trainings[t].steps < Steps
  /\ Become(t, [trainings[t] EXCEPT !.steps = @ + 1])

(* save_checkpoint(50).  The predecessors take the hashes of the source anew.*)
SaveFinal(t) ==
  /\ trainings[t].pc = "stepping" /\ trainings[t].steps = Steps
  /\ Become(t, [trainings[t] EXCEPT !.final = "whole", !.pc = "saved",
                  !.named = IF protocol.rehashed THEN @ ELSE source])

(* The source must be what it was; then the supervision module is loaded for *)
(* the diagnostic, and the status is written, last.                          *)
SourceKept(t) == protocol.rehashed => trainings[t].named = source
WriteStatus(t) ==
  /\ trainings[t].pc = "saved"
  /\ SourceKept(t)
  /\ Become(t, [trainings[t] EXCEPT !.late = source, !.pc = "done"])

(* The process dies: between two steps, or while it writes a checkpoint.     *)
(* _atomic_save links a complete file to its name; torch.save does not.      *)
LeftByCrashInPlace == {"none", "torn"}
LeftByCrash == IF protocol.linked THEN {"none"} ELSE {"none", "torn"}
CrashTraining(t) ==
  /\ trainings[t].pc \in {"claimed", "stepping", "saved"}
  /\ \/ Become(t, [trainings[t] EXCEPT !.pc = "dead"])
     \/ \E left \in LeftByCrash :
          /\ trainings[t].pc = "claimed"
          /\ Become(t, [trainings[t] EXCEPT !.initial = left, !.pc = "dead"])
     \/ \E left \in LeftByCrash :
          /\ trainings[t].pc = "stepping" /\ trainings[t].steps = Steps
          /\ Become(t, [trainings[t] EXCEPT !.final = left, !.pc = "dead"])

(* A final checkpoint is replaced by another file.                           *)
ReplaceCheckpoint(t) ==
  /\ trainings[t].final # "none" /\ ~trainings[t].replaced
  /\ Become(t, [trainings[t] EXCEPT !.replaced = TRUE])
-----------------------------------------------------------------------------
(* Native generation on the panel. *)

(* load_checkpoint and, for joint, the status and restore_certified_initial: *)
(* the files are the recorded ones and the source is the one they name.      *)
Loads(t) ==
  /\ trainings[t].final = "whole" /\ ~trainings[t].replaced
  /\ trainings[t].named = source
  /\ protocol.claims => trainings[t].pc = "done" /\ trainings[t].initial = "whole"

BeginGeneration(t) ==
  /\ Len(generations) < MaxGenerations
  /\ Loads(t)
  /\ generations' = Append(generations, Generated(t))
  /\ UNCHANGED <<protocol, source, approved, claims, trainings, files>>

Change(g, directory) ==
  /\ generations' = [generations EXCEPT ![g] = directory]
  /\ UNCHANGED <<protocol, source, approved, claims, trainings, files>>

(* A worker of the pool has finished a case: greedy_generate with the native *)
(* backend, then generation.json of the case, in the order they finish.  A   *)
(* normal route gives the bytes of the base model.                           *)
WriteCase(g, c) ==
  /\ generations[g].running /\ c \notin generations[g].cases
  /\ \E prediction \in Possible(c) :
       /\ prediction.route = 0 => prediction.reply = Baseline[c].reply
       /\ Change(g, [generations[g] EXCEPT
                       !.cases = @ \union {c}, !.predictions[c] = prediction])

(* The report of the whole panel is written last.  The checkpoint is hashed  *)
(* once more, except in CG-001.                                              *)
WriteReport(g) ==
  /\ generations[g].running /\ generations[g].cases = Panel
  /\ protocol.hashedAgain => ~trainings[generations[g].training].replaced
  /\ Change(g, [generations[g] EXCEPT !.report = TRUE, !.running = FALSE])

(* The generation is killed, or a case raises.                               *)
CrashGeneration(g) ==
  /\ generations[g].running
  /\ Change(g, [generations[g] EXCEPT !.running = FALSE])

(* audit_joint_generation.run, audit and audit of the predecessors: the cases*)
(* that are there are replayed; --partial, of joint only, lets some be       *)
(* missing.  The auditor writes nothing but its report, so that it is one    *)
(* step: a report that appears meanwhile is not seen.                        *)
Audit(g, partial) ==
  /\ Cardinality(audits) < MaxAudits
  /\ Loads(generations[g].training)
  /\ ~partial => generations[g].report
  /\ partial => protocol.partial
  /\ audits' = audits \union
       {[generation |-> g, cases |-> generations[g].cases,
         complete |-> generations[g].report,
         arm |-> trainings[generations[g].training].arm]}
  /\ UNCHANGED <<protocol, source, approved, claims, trainings, generations, packed, votes, final>>
-----------------------------------------------------------------------------
(* The review of both arms. *)

(* finalize_joint_evaluation.qualify, and the comparison of the hashes.      *)
QualifiesPartial(g, audit, arm) ==
  /\ generations[g].report
  /\ trainings[generations[g].training].arm = arm
  /\ audit.arm = arm
QualifiesAnyGeneration(g, audit, arm) ==
  QualifiesPartial(g, audit, arm) /\ audit.complete /\ audit.cases = Panel
Qualifies(g, audit, arm) ==
  QualifiesAnyGeneration(g, audit, arm) /\ audit.generation = g

(* What run is given: for each arm a generation directory and an audit.      *)
Candidates ==
  [Arms(protocol) -> [generation : DOMAIN generations, audit : audits]]
AllQualify(chosen) ==
  \A a \in Arms(protocol) : Qualifies(chosen[a].generation, chosen[a].audit, a)
Reports(chosen) == [a \in Arms(protocol) |-> generations[chosen[a].generation].predictions]
AllPackets(chosen) == UNION {Packets(Reports(chosen)[a]) : a \in Arms(protocol)}

Pack ==
  /\ protocol.claims
  /\ \E chosen \in Candidates :
       /\ AllQualify(chosen)
       /\ packed' = AllPackets(chosen)
  /\ packed' # packed
  /\ UNCHANGED <<protocol, source, approved, claims, trainings, generations, audits, votes, final>>

(* A reviewer returns a file with a row for each packet; rows on the same    *)
(* packets that were returned before are replaced, others are kept.          *)
Review(r) ==
  /\ packed # {}
  /\ \E good \in SUBSET packed :
       votes' = {v \in votes : v.reviewer # r \/ v.packet \notin packed}
                  \union {Vote(p, r, IF p \in good THEN "pass" ELSE "fail") : p \in packed}
  /\ votes' # votes
  /\ UNCHANGED <<protocol, source, approved, claims, trainings, generations, audits, packed, final>>

(* The reports are qualified again, on the files as they are now, and scored.*)
Score ==
  /\ protocol.claims
  /\ \E chosen \in Candidates :
       /\ AllQualify(chosen)
       /\ ValidBundle(votes, AllPackets(chosen))
       /\ final' = [made |-> TRUE, arm |-> Selected(Reports(chosen), votes),
                    chosen |-> chosen, by |-> votes]
  /\ UNCHANGED <<protocol, source, approved, claims, trainings, generations, audits, packed, votes>>

CampaignNext ==
  \/ Edit \/ Preflight \/ Launch
  \/ \E t \in DOMAIN trainings :
       \/ NextArm(t) \/ SaveInitial(t) \/ Step(t) \/ SaveFinal(t) \/ WriteStatus(t)
       \/ CrashTraining(t) \/ ReplaceCheckpoint(t) \/ BeginGeneration(t)
  \/ \E g \in DOMAIN generations :
       \/ \E c \in Panel : WriteCase(g, c)
       \/ WriteReport(g) \/ CrashGeneration(g)
       \/ \E partial \in BOOLEAN : Audit(g, partial)
  \/ Pack
  \/ \E r \in Reviewers : Review(r)
  \/ Score

(* The final review ends the campaign.                                       *)
CampaignSpec == CampaignInit /\ [][~final.made /\ CampaignNext]_campaignVars
-----------------------------------------------------------------------------
Sum(f) ==
  LET sum[s \in SUBSET DOMAIN f] ==
        IF s = {} THEN 0 ELSE LET x == CHOOSE x \in s : TRUE IN f[x] + sum[s \ {x}]
  IN sum[DOMAIN f]

(* However often the campaign is started, crashes and is started again, in   *)
(* whichever directories, an approved arm gets its optimizer steps once:     *)
(* there is no second draw of the seed (run_joint_training, train_candidate).*)
OneAllocation ==
  protocol.claims =>
    \A a \in Arms(protocol) :
      Sum([t \in {d \in DOMAIN trainings : trainings[d].arm = a} |-> trainings[t].steps]) <= Steps

(* A status stands only beside two whole checkpoints, after all steps.  For a*)
(* joint arm a checkpoint is whole from the moment it has its name, and the  *)
(* status names the source of all that was loaded since it was hashed; what  *)
(* ran is what the launch was approved for, in the second arm as well.       *)
StatusIsTrue ==
  \A t \in DOMAIN trainings :
    LET d == trainings[t] IN
    /\ d.pc = "done" => d.initial = "whole" /\ d.final = "whole" /\ d.steps = Steps
    /\ protocol.claims =>
         /\ d.initial # "torn" /\ d.final # "torn"
         /\ d.pc = "done" => d.late = d.named /\ d.loaded = d.evidence

(* The arm that is selected was replayed case by case, in the very report it *)
(* was selected for, on the checkpoint of the arm's one training; each of its*)
(* replies that counts was passed by two registered reviewers who saw that   *)
(* reply, and no ordinary reply differs from the one without memory.         *)
SelectedIsQualified ==
  final.made /\ final.arm # "none" =>
    LET g == final.chosen[final.arm].generation
        d == trainings[generations[g].training]
        passedBy(c) == {v.reviewer : v \in
              {w \in final.by : w.finds = "pass" /\ w.packet = Packet(c, generations[g].predictions[c])}}
    IN /\ d.arm = final.arm /\ d.pc = "done"
       /\ \E a \in audits : a.generation = g /\ a.cases = Panel /\ a.complete
       /\ \A c \in Normal : generations[g].predictions[c] = Baseline[c]
                            /\ Cardinality(passedBy(c)) >= 2
       /\ Cardinality({c \in Memory : Cardinality(passedBy(c)) >= 2}) >= Needed
=============================================================================
