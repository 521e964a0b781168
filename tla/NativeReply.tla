----------------------------- MODULE NativeReply ----------------------------
(* One reply of the fixed panel, generated natively and audited afterwards.  *)
(* The replies without memory come first, all cases abreast                  *)
(* (eval_joint_baseline).  Then greedy_generate asks one of three backends   *)
(* for one case, a token at a time; every token is a new native process.  The*)
(* backends are those of CG-001 (continuous: memory is mixed in anew at each *)
(* token), CG-002 (role) and CG-003 (joint): those choose a route once for   *)
(* the reply, from its prompt.  Executables may be replaced while the reply  *)
(* is generated, and one file of its evidence may be changed before the      *)
(* audit reads it.                                                           *)
(*                                                                           *)
(* A prefix is what was generated after the prompt.  A hidden state stands   *)
(* for the prefix it was computed on, and the networks are functions of it.  *)
EXTENDS Naturals, Sequences, FiniteSets, SequencesExt

CONSTANTS
  Vocabulary,  \* tokens
  Stops,       \* the tokens that end a reply
  Cases,       \* the panel, 1..n
  Memorized,   \* the case the backend is asked for
  Networks,    \* the networks to consider
  Backends,    \* a subset of {"continuous", "role", "joint"}
  MaxNewTokens,
  Rooms        \* tokens the context has room for after the prompt

VARIABLES
  network,   \* base[case][prefix], content, unsure and route[prefix]
  backend,   \* which one
  source,    \* whether there is an episode to read
  room,      \* the room in the context
  baseline,  \* the batch without memory
  intact,    \* the executables and the model file as they were at the start
  reply,     \* greedy_generate and the backend
  wire,      \* the files of each step
  report,    \* backend.json, with its digests, and the reply
  changed,   \* a file was changed
  verdict    \* of the audit

nativeVars == <<network, backend, source, room, baseline, intact, reply, wire, report, changed, verdict>>

Contexts == UNION {[1..n -> Vocabulary \ Stops] : n \in 0..(MaxNewTokens - 1)}
Answers == [Contexts -> Vocabulary]

ASSUME NativeConstants ==
  /\ Stops \subseteq Vocabulary
  /\ IsFiniteSet(Cases) /\ Cases = 1..Cardinality(Cases)
  /\ Memorized \in Cases
  /\ Networks \subseteq [base : [Cases -> Answers], content : Answers, unsure : Answers,
                         route : [Contexts -> 0..2]]
  /\ Backends \subseteq {"continuous", "role", "joint"}
  /\ MaxNewTokens \in Nat \ {0} /\ Rooms \subseteq Nat \ {0}

Prompt == << >>
Undecided == 3
Binaries == {"gguf", "probe"}

Before == [pc |-> "none", tokens |-> Prompt, decision |-> Undecided, steps |-> << >>, reason |-> "none"]
NoReport == [made |-> FALSE, steps |-> << >>, digests |-> << >>, tokens |-> << >>, reason |-> "none"]

NativeInit ==
  /\ network \in Networks /\ backend \in Backends /\ source \in BOOLEAN /\ room \in Rooms
  /\ ~source => \A p \in Contexts : network.route[p] # 1
  /\ baseline = [pc |-> "run", step |-> 0, done |-> {}, generated |-> [c \in Cases |-> Prompt],
                 raw |-> << >>]
  /\ intact = Binaries
  /\ reply = Before /\ wire = << >> /\ report = NoReport
  /\ changed = FALSE /\ verdict = "none"
-----------------------------------------------------------------------------
(* eval_joint_baseline: a batch has a row for each case that is not done; the*)
(* rows come back in its order.  A prompt without room stops the whole panel.*)
Of(cases) ==
  FlattenSeq([c \in 1..Cardinality(Cases) |-> IF c \in cases THEN <<c>> ELSE <<>>])
Active == Of(Cases \ baseline.done)
Row(c) == CHOOSE i \in DOMAIN Active : Active[i] = c
Logits == [i \in DOMAIN Active |-> network.base[Active[i]][baseline.generated[Active[i]]]]
Advance(c) == Append(baseline.generated[c], Logits[Row(c)])

BaselineStep ==
  /\ baseline.pc = "run"
  /\ baseline' =
       IF Active = << >> \/ baseline.step = MaxNewTokens THEN [baseline EXCEPT !.pc = "reported"]
       ELSE IF baseline.step >= room THEN [baseline EXCEPT !.pc = "raised"]
       ELSE [baseline EXCEPT
              !.step = @ + 1,
              !.raw = Append(@, [active |-> Active, rows |-> Logits]),
              !.generated = [c \in Cases |-> IF c \in ToSet(Active) THEN Advance(c) ELSE @[c]],
              !.done = @ \union {c \in ToSet(Active) : Logits[Row(c)] \in Stops}]
  /\ UNCHANGED <<network, backend, source, room, intact, reply, wire, report, changed, verdict>>
-----------------------------------------------------------------------------
(* The backends. *)

(* A file is replaced: another build, another model.                         *)
ReplaceBinary ==
  /\ reply.pc \in {"check", "call", "finish"}
  /\ \E b \in intact : intact' = intact \ {b}
  /\ UNCHANGED <<network, backend, source, room, baseline, reply, wire, report, changed, verdict>>

(* NativeJointBackend reads the query and the memory as it is made, and      *)
(* chooses the route there; the others see the source in their first step.   *)
BeginReply ==
  /\ reply.pc = "none" /\ baseline.pc = "reported"
  /\ reply' = [Before EXCEPT !.pc = "check",
                 !.decision = IF backend = "joint" THEN network.route[Prompt] ELSE Undecided]
  /\ UNCHANGED <<network, backend, source, room, baseline, intact, wire, report, changed, verdict>>

(* greedy_generate asks for the next token, unless the context is full.  The *)
(* probe is hashed at each step, the model file when a source is encoded.    *)
Encodes == source /\ reply.steps = << >> /\ backend # "joint"
Check ==
  /\ reply.pc = "check"
  /\ reply' =
       IF Len(reply.tokens) >= room THEN [reply EXCEPT !.pc = "finish", !.reason = "context_limit"]
       ELSE IF "probe" \notin intact \/ (Encodes /\ "gguf" \notin intact) THEN [reply EXCEPT !.pc = "raised"]
       ELSE [reply EXCEPT !.pc = "call"]
  /\ UNCHANGED <<network, backend, source, room, baseline, intact, wire, report, changed, verdict>>

(* The route of a step; CG-001 has none and mixes.                           *)
RouteAnew(decision, prefix) == network.route[prefix]
Route(decision, prefix) == IF decision = Undecided THEN network.route[prefix] ELSE decision

(* What the memory adds to the hidden state, and the token that comes of it. *)
Residual(route, prefix) ==
  IF backend # "continuous" /\ route = 0 THEN <<"zero">> ELSE <<"memory", route, prefix>>
Output(route, prefix) ==
  CASE backend = "continuous" -> network.content[prefix]
    [] backend # "continuous" /\ route = 0 -> network.base[Memorized][prefix]
    [] backend # "continuous" /\ route = 1 -> network.content[prefix]
    [] OTHER -> network.unsure[prefix]

(* __call__: the reference, the base and the output, each a native process,  *)
(* and their files.  Replaced files may give anything, or be noticed.        *)
Answered(route, token) ==
  /\ reply' = [reply EXCEPT
       !.decision = IF backend = "continuous" THEN @ ELSE route,
       !.steps = Append(@, [prefix |-> reply.tokens, token |-> token, route |-> route]),
       !.tokens = Append(@, token),
       !.reason = IF token \in Stops THEN "stop_token" ELSE "max_new_tokens",
       !.pc = IF token \in Stops \/ Len(reply.tokens) + 1 = MaxNewTokens THEN "finish" ELSE "check"]
  /\ wire' = Append(wire, [prefix |-> reply.tokens, residual |-> Residual(route, reply.tokens),
                           at |-> reply.tokens, token |-> token])

Call ==
  /\ reply.pc = "call"
  /\ \/ /\ intact = Binaries
        /\ LET route == Route(reply.decision, reply.tokens) IN
           Answered(route, Output(route, reply.tokens))
     \/ /\ intact # Binaries
        /\ \E token \in Vocabulary, route \in 0..2 :
             /\ reply.decision # Undecided => route = reply.decision
             /\ Answered(route, token)
     \/ /\ intact # Binaries
        /\ reply' = [reply EXCEPT !.pc = "raised"] /\ UNCHANGED wire
  /\ UNCHANGED <<network, backend, source, room, baseline, intact, report, changed, verdict>>

(* finish: the model file and the executables are hashed once more; the      *)
(* evidence is hashed as it is now.  Then the report is written.             *)
StillIntact == intact = Binaries
Finish ==
  /\ reply.pc = "finish"
  /\ IF StillIntact
     THEN /\ report' = [made |-> TRUE, steps |-> reply.steps, digests |-> wire,
                        tokens |-> reply.tokens, reason |-> reply.reason]
          /\ reply' = [reply EXCEPT !.pc = "done"]
     ELSE reply' = [reply EXCEPT !.pc = "raised"] /\ UNCHANGED report
  /\ UNCHANGED <<network, backend, source, room, baseline, intact, wire, changed, verdict>>
-----------------------------------------------------------------------------
(* One file is changed: an input or output of a step, backend.json, or the   *)
(* report.                                                                   *)
Replies == UNION {[1..n -> Vocabulary] : n \in 1..MaxNewTokens}
ChangeFile ==
  /\ ~changed /\ verdict = "none" /\ reply.pc \in {"check", "finish", "done"}
  /\ changed' = TRUE
  /\ \/ \E i \in DOMAIN wire, p \in Contexts : wire' = [wire EXCEPT ![i].prefix = p] /\ UNCHANGED report
     \/ \E i \in DOMAIN wire, t \in Vocabulary, p \in Contexts :
          wire' = [wire EXCEPT ![i].token = t, ![i].at = p] /\ UNCHANGED report
     \/ /\ report.made /\ UNCHANGED wire
        /\ \/ \E r \in Replies : report' = [report EXCEPT !.tokens = r]
           \/ \E i \in DOMAIN report.steps, t \in Vocabulary, r \in 0..2, p \in Contexts :
                report' = [report EXCEPT !.steps[i] = [prefix |-> p, token |-> t, route |-> r]]
  /\ wire' # wire \/ report' # report
  /\ UNCHANGED <<network, backend, source, room, baseline, intact, reply, verdict>>
-----------------------------------------------------------------------------
(* audit_joint_baseline: the rows of each step are those of the cases that   *)
(* have a token there, and give it; the replies end as they may.             *)
EndsWell(tokens) ==
  /\ Len(tokens) \in 1..MaxNewTokens
  /\ \A i \in DOMAIN tokens : tokens[i] \in Stops => i = Len(tokens)
  /\ Last(tokens) \notin Stops => Len(tokens) = MaxNewTokens
BaselinePasses ==
  LET replies == baseline.generated  raw == baseline.raw IN
  /\ \A c \in Cases : EndsWell(replies[c]) /\ Len(replies[c]) <= Len(raw)
  /\ \E c \in Cases : Len(replies[c]) = Len(raw)
  /\ \A i \in DOMAIN raw :
       /\ raw[i].active = Of({c \in Cases : Len(replies[c]) >= i})
       /\ \A j \in DOMAIN raw[i].active : raw[i].rows[j] = replies[raw[i].active[j]][i]

(* The audits of the replies read the report and the files, and run the      *)
(* networks again.                                                           *)
Hashed == wire = report.digests
TokensOf(steps) == [i \in DOMAIN steps |-> steps[i].token]
Extends == \A i \in 2..Len(report.steps) :
             report.steps[i].prefix = Append(report.steps[i - 1].prefix, report.steps[i - 1].token)

(* The route the audit expects: of the first files, or of its own prefill.   *)
AuditedRoute == IF backend = "role" THEN network.route[wire[1].at] ELSE network.route[Prompt]

(* A step is replayed from its own files.                                    *)
ReplayedByHash(i) == Hashed
Replayed(i) ==
  LET step == report.steps[i]  file == wire[i]  route == AuditedRoute IN
  /\ file.prefix = step.prefix /\ step.route = route
  /\ file.residual = Residual(route, file.at)
  /\ file.token = Output(route, file.at) /\ file.token = step.token

NormalIsBaseline == AuditedRoute = 0 => report.tokens = baseline.generated[Memorized]

(* audit_availability_generation: the numbers of the first step only; the    *)
(* tokens of the report are not compared.                                    *)
ContinuousPasses == Hashed /\ Extends /\ wire[1].token = Output(0, wire[1].at)

(* audit_role_generation                                                     *)
RolePasses ==
  /\ Hashed /\ Extends
  /\ \A i \in DOMAIN report.steps : Replayed(i)
  /\ report.tokens = TokensOf(report.steps) /\ NormalIsBaseline

(* audit_joint_generation: from the prompt to the stop token or the limit.   *)
JointPasses ==
  /\ RolePasses /\ report.steps[1].prefix = Prompt /\ EndsWell(report.tokens)
  /\ report.reason = (IF Last(report.tokens) \in Stops THEN "stop_token" ELSE "max_new_tokens")

AuditReply ==
  /\ report.made /\ verdict = "none"
  /\ verdict' = IF CASE backend = "continuous" -> ContinuousPasses
                     [] backend = "role" -> RolePasses
                     [] backend = "joint" -> JointPasses
                THEN "passed" ELSE "refused"
  /\ UNCHANGED <<network, backend, source, room, baseline, intact, reply, wire, report, changed>>

NativeNext ==
  \/ BaselineStep \/ BeginReply \/ Check \/ Call \/ Finish \/ ReplaceBinary \/ ChangeFile \/ AuditReply
-----------------------------------------------------------------------------
(* The reply a network gives greedily: each token is its answer to all before*)
(* it, and only a stop token or the limit ends it.                           *)
Limit == IF room < MaxNewTokens THEN room ELSE MaxNewTokens
IsGreedy(tokens, answer(_)) ==
  /\ Len(tokens) \in 1..Limit
  /\ \A i \in DOMAIN tokens :
       /\ tokens[i] = answer(SubSeq(tokens, 1, i - 1))
       /\ tokens[i] \in Stops => i = Len(tokens)
  /\ Last(tokens) \notin Stops => Len(tokens) = Limit

ByRoute(p) == Output(network.route[Prompt], p)

(* Replies that are reported are those of the networks: without memory each  *)
(* case gets its own, whichever of the batch end earlier; with memory the    *)
(* route that was chosen at the prompt holds to the end, though a later      *)
(* hidden state would choose another; and no reply is reported of which a    *)
(* token came from a replaced executable or model.  The batch passes its own *)
(* audit.                                                                    *)
ReportedIsGenerated ==
  /\ baseline.pc = "reported" =>
       /\ BaselinePasses
       /\ \A c \in Cases :
            LET base(p) == network.base[c][p] IN IsGreedy(baseline.generated[c], base)
  /\ report.made /\ ~changed => IsGreedy(report.tokens, ByRoute)

(* A reply that passes its audit is the greedy reply of the audited network, *)
(* even if one file of its evidence was changed, before or after it was      *)
(* hashed; and the files that are left show it.  (Of CG-002 and CG-003.)  An *)
(* honest reply is not refused, unless it is one of CG-003 that the context  *)
(* cut short.                                                                *)
AuditVouches ==
  /\ verdict = "refused" /\ ~changed => backend = "joint" /\ report.reason = "context_limit"
  /\ verdict = "passed" /\ backend # "continuous" =>
    /\ IsGreedy(report.tokens, ByRoute)
    /\ TokensOf(wire) = report.tokens
    /\ network.route[Prompt] = 0 => report.tokens = baseline.generated[Memorized]
=============================================================================
