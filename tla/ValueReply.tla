----------------------------- MODULE ValueReply -----------------------------
(* One reply of the autonomous value controller and of the uncertainty       *)
(* controller that wraps it (python/autonomous_value_controller.py and       *)
(* python/uncertainty_reply_controller.py).  A caller shows the controller a *)
(* frame (hidden state and logits for the present prefix), gets a decision,  *)
(* emits its token and acknowledges it.  A decision is the base token, the   *)
(* next token of a value copied out of memory, or the token that ends the    *)
(* value; a route that lacks support hands the reply over to the uncertainty *)
(* branch.  Callers may show stale frames, acknowledge other tokens or other *)
(* decisions, and weights or frames may be written to between two calls: each*)
(* of these must end the reply, never bend it.                               *)
(*                                                                           *)
(* A trajectory of python/value_teacher_trajectory.py may drive the frames,  *)
(* which is how the neural readers are to be trained.                        *)
EXTENDS Naturals, Sequences, SequencesExt

CONSTANTS
  Words,          \* ordinary tokens
  Eos,            \* the token that ends a reply
  Values,         \* token sequences of the values the reader can point at
  Unusable,       \* stands for a value that is NULL, unsafe or not exact
  Prompts,        \* lengths of prompts, in tokens
  MaxNew,         \* max_new_tokens
  MaxReads,       \* max_value_reads
  MaxTotal,       \* TransportLimits.max_total_tokens
  MaxValueTokens, \* TransportLimits.max_value_tokens
  Trajectories,   \* teacher trajectories whose replay is checked
  Free            \* stands for no teacher: the frames are arbitrary

ASSUME ReplyConstants ==
  /\ Prompts \subseteq Nat /\ MaxNew \in Nat \ {0} /\ MaxReads \in Nat \ {0}
  /\ MaxTotal \in Nat /\ MaxValueTokens \in Nat
  /\ \A p \in Prompts : p < MaxTotal
  /\ Values \subseteq Seq(Words) /\ <<>> \notin Values
  /\ Unusable \notin Values /\ Eos \notin Words
  /\ Free \notin Trajectories

VARIABLES
  prompt,  \* the length of the prompt of this reply
  core,    \* the AutonomousValueController
  outer,   \* the ResearchUncertaintyController around it
  output,  \* the generated tokens of the reply
  altered, \* weights, codec or source tensors are not those bound at the start
  smeared, \* the tensors of the frame of the pending decision were written to
  kinds,   \* history: the kinds of the committed decisions
  teacher  \* the trajectory that drives the frames, or Free

vars == <<prompt, core, outer, output, altered, smeared, kinds, teacher>>

Tokens == Words \union {Eos}
Routes == {"none", "supported", "insufficient"}
Kinds == {"base", "start", "continue", "end", "uncertain"}

NoCursor == [value |-> <<>>, offset |-> 0]
Reading(c) == c.cursor # NoCursor
CursorDone(cur) == cur.offset = Len(cur.value)
Advanced(cur) == [cur EXCEPT !.offset = @ + 1]
NextOfValue(cur) == cur.value[cur.offset + 1]

Frames == [fresh : BOOLEAN, base : Tokens, route : Routes, mode : {"generate", "start"},
           value : Values \union {Unusable}, branch : Tokens]

Remaining == MaxNew - Len(output)
Used == prompt + Len(output)
WithinBudget == Len(output) < MaxNew /\ Used < MaxTotal
-----------------------------------------------------------------------------
(* Teacher trajectories.                                                     *)

(* The phases of a reply whose text is  pre, value, post  and then Eos: the  *)
(* token after the value, Eos if nothing follows, is the one that ends it.   *)
Compile(route, pre, value, post) ==
  LET tokens == pre \o value \o post \o <<Eos>>
      end == Len(pre) + Len(value) + 1
      phase(i) == IF value = <<>> \/ i <= Len(pre) \/ i > end THEN "base"
                  ELSE IF i = Len(pre) + 1 THEN "start"
                  ELSE IF i = end THEN "end" ELSE "continue"
  IN [route |-> route, tokens |-> tokens, value |-> value,
      phases |-> [i \in 1..Len(tokens) |->
                    IF route = "insufficient" THEN "uncertain" ELSE phase(i)]]

(* A supported reply has one value, and text before and after it; the others *)
(* are text only.                                                            *)
Teaches(t, pre, post) ==
  /\ pre \in Seq(Words) /\ post \in Seq(Words)
  /\ t = Compile(t.route, pre, t.value, post)
  /\ \/ t.route = "supported" /\ t.value \in Values
     \/ t.route \in {"none", "insufficient"} /\ t.value = <<>>

ASSUME TrajectoryConstants ==
  \A t \in Trajectories : \E a, b \in 0..Len(t.tokens) :
    Teaches(t, SubSeq(t.tokens, 1, a), SubSeq(t.tokens, b + 1, Len(t.tokens) - 1))

(* compile_teacher refuses what does not fit the context, and a trajectory   *)
(* is used with a reply budget it fits (UncertaintyTrajectory).              *)
Compiles(t) ==
  /\ prompt + Len(t.tokens) <= MaxTotal
  /\ Len(t.tokens) <= MaxNew
  /\ Len(t.value) <= MaxValueTokens

(* The frames of a model that has learnt the trajectory: its base token and  *)
(* its idle mode are the targets of the present position.                    *)
Taught(f) ==
  teacher # Free =>
     /\ f.fresh
     /\ f.route = teacher.route
     /\ LET i == Len(output) + 1 IN
        /\ i <= Len(teacher.tokens)
        /\ IF teacher.route = "insufficient"
           THEN f.branch = teacher.tokens[i]
           ELSE /\ teacher.phases[i] \in {"base", "end"} => f.base = teacher.tokens[i]
                /\ teacher.phases[i] = "start" <=> f.mode = "start"
     /\ teacher.value # <<>> => f.value = teacher.value
-----------------------------------------------------------------------------
(* AutonomousValueController.propose.                                        *)

(* The reader runs only while no value is being copied and the reply was not *)
(* found to need no memory.                                                  *)
ReaderRuns(c) == ~Reading(c) /\ c.route # "none"
RouteOf(c, f) == IF ReaderRuns(c) THEN f.route ELSE c.route

KindOf(c, f) ==
  CASE Reading(c) /\ CursorDone(c.cursor)  -> "end"
    [] Reading(c) /\ ~CursorDone(c.cursor) -> "continue"
    [] ReaderRuns(c) /\ f.route = "insufficient" -> "uncertain"
    [] ReaderRuns(c) /\ f.route = "supported" /\ f.mode = "start" -> "start"
    [] OTHER -> "base"

(* Mutants: no token kept for the end of a value; one token too many kept.   *)
FitsWithoutEnd(c, value) ==
  /\ c.reads < MaxReads
  /\ value # Unusable
  /\ Len(value) <= MaxValueTokens
  /\ Len(value) <= Remaining
  /\ Used + Len(value) <= MaxTotal

FitsWithSlack(c, value) ==
  /\ c.reads < MaxReads
  /\ value # Unusable
  /\ Len(value) <= MaxValueTokens
  /\ Len(value) < Remaining - 1
  /\ Used + Len(value) < MaxTotal

(* A value is started only if it can be completed and ended.                 *)
Fits(c, value) ==
  /\ c.reads < MaxReads
  /\ Remaining >= 2
  /\ MaxTotal - Used >= 2
  /\ value # Unusable
  /\ Len(value) <= MaxValueTokens
  /\ Len(value) <= Remaining - 1
  /\ Used + Len(value) <= MaxTotal - 1

Unpledged(c) == c.state \in {"idle", "active"} /\ c.pending = <<>>

RouteKept(c, f) == c.route = "unset" \/ RouteOf(c, f) = c.route

CoreAccepts(c, f) ==
  /\ Unpledged(c) /\ ~altered /\ f.fresh
  /\ WithinBudget
  /\ RouteKept(c, f)
  /\ KindOf(c, f) = "start" => Fits(c, f.value)

TokenOf(c, f) ==
  CASE KindOf(c, f) = "start"    -> f.value[1]
    [] KindOf(c, f) = "continue" -> NextOfValue(c.cursor)
    [] OTHER -> f.base

CoreProposed(c, f) ==
  LET decided == [c EXCEPT !.route = RouteOf(c, f)] IN
  CASE ~CoreAccepts(c, f) -> [c EXCEPT !.state = "failed", !.pending = <<>>]
    [] CoreAccepts(c, f) /\ KindOf(c, f) = "uncertain" ->
         [decided EXCEPT !.state = "wait_uncertainty"]
    [] OTHER ->
         [decided EXCEPT
            !.pending = <<[kind |-> KindOf(c, f), token |-> TokenOf(c, f)]>>,
            !.cursor = IF KindOf(c, f) = "start" THEN [value |-> f.value, offset |-> 0] ELSE @]

(* AutonomousValueController.commit, called by the wrapper only for the      *)
(* pending decision and its token.                                           *)
StateAfter(kind, token) ==
  IF token = Eos THEN "done" ELSE IF kind \in {"start", "continue"} THEN "active" ELSE "idle"

(* Mutant: the end of a value does not drop its cursor. *)
CoreCommittedKeepingCursor(c, d) ==
  IF smeared THEN [c EXCEPT !.state = "failed", !.pending = <<>>]
  ELSE [c EXCEPT
          !.state = StateAfter(d.kind, d.token),
          !.pending = <<>>,
          !.reads = @ + (IF d.kind = "start" THEN 1 ELSE 0),
          !.cursor = IF d.kind \in {"start", "continue"} THEN Advanced(@) ELSE @]

CoreCommitted(c, d) ==
  IF smeared THEN [c EXCEPT !.state = "failed", !.pending = <<>>]
  ELSE [c EXCEPT
          !.state = StateAfter(d.kind, d.token),
          !.pending = <<>>,
          !.reads = @ + (IF d.kind = "start" THEN 1 ELSE 0),
          !.cursor = IF d.kind \in {"start", "continue"} THEN Advanced(@)
                     ELSE IF d.kind = "end" THEN NoCursor ELSE @]

-----------------------------------------------------------------------------
(* ResearchUncertaintyController.                                            *)

OuterFailed == outer' = [outer EXCEPT !.failed = TRUE, !.pending = <<>>]

Open == ~outer.done /\ ~outer.failed /\ outer.pending = <<>>

(* propose refuses a reply that is over or has a decision pending, and one   *)
(* whose weights changed, before the core sees the frame.                    *)
ProposeRefused ==
  /\ (~Open \/ altered)
  /\ OuterFailed
  /\ UNCHANGED core

(* The core decides.  Its refusal fails both; its hand-over is followed by   *)
(* the branch within the same call.                                          *)
ProposeByCore(f) ==
  /\ Open /\ ~altered /\ ~outer.uncertain
  /\ core' = CoreProposed(core, f)
  /\ CASE core'.state = "failed" -> OuterFailed
       [] core'.state = "wait_uncertainty" ->
            outer' = [outer EXCEPT !.uncertain = TRUE,
                                   !.pending = <<[kind |-> "uncertain", token |-> f.branch]>>]
       [] OTHER -> outer' = [outer EXCEPT !.pending = core'.pending]

ProposeByBranch(f) ==
  /\ Open /\ ~altered /\ outer.uncertain
  /\ IF f.fresh /\ WithinBudget
     THEN outer' = [outer EXCEPT !.pending = <<[kind |-> "uncertain", token |-> f.branch]>>]
     ELSE OuterFailed
  /\ UNCHANGED core

Propose ==
  /\ \E f \in Frames :
       /\ Taught(f)
       /\ ProposeRefused \/ ProposeByCore(f) \/ ProposeByBranch(f)
  /\ smeared' = FALSE
  /\ UNCHANGED <<prompt, output, altered, kinds, teacher>>

(* commit(decision, token): same is whether the decision is the pending one. *)
CommitRefused(same, token) ==
  /\ (~outer.done /\ ~outer.failed /\ outer.pending # <<>>
       => ~same \/ altered \/ token # outer.pending[1].token)
  /\ OuterFailed
  /\ UNCHANGED <<core, output, kinds>>

Acknowledged(same, token) ==
  /\ ~outer.done /\ ~outer.failed /\ outer.pending # <<>>
  /\ same /\ ~altered /\ token = outer.pending[1].token

Emitted(token) ==
  /\ output' = Append(output, token)
  /\ kinds' = Append(kinds, outer.pending[1].kind)

CommitByCore(same, token) ==
  /\ Acknowledged(same, token) /\ ~outer.uncertain
  /\ core' = CoreCommitted(core, outer.pending[1])
  /\ IF core'.state = "failed"
     THEN OuterFailed /\ UNCHANGED <<output, kinds>>
     ELSE /\ outer' = [outer EXCEPT !.pending = <<>>, !.done = core'.state = "done"]
          /\ Emitted(token)

(* The output of the branch is bound to the tensors of its frame.            *)
CommitByBranch(same, token) ==
  /\ Acknowledged(same, token) /\ outer.uncertain
  /\ IF smeared THEN OuterFailed /\ UNCHANGED <<output, kinds>>
     ELSE /\ outer' = [outer EXCEPT !.pending = <<>>, !.done = token = Eos]
          /\ Emitted(token)
  /\ UNCHANGED core

Commit ==
  /\ \E same \in BOOLEAN, token \in Tokens :
       /\ teacher # Free => Acknowledged(same, token)
       /\ CommitRefused(same, token) \/ CommitByCore(same, token) \/ CommitByBranch(same, token)
  /\ UNCHANGED <<prompt, altered, smeared, teacher>>

(* Other code of the process writes to the weights, the codec or the source  *)
(* tensors, or to the frame of the decision that waits for its commit.       *)
Alter ==
  /\ teacher = Free /\ ~altered
  /\ altered' = TRUE
  /\ UNCHANGED <<prompt, core, outer, output, smeared, kinds, teacher>>

Smear ==
  /\ teacher = Free /\ ~smeared /\ outer.pending # <<>>
  /\ smeared' = TRUE
  /\ UNCHANGED <<prompt, core, outer, output, altered, kinds, teacher>>
-----------------------------------------------------------------------------
Init ==
  /\ prompt \in Prompts
  /\ core = [state |-> "idle", route |-> "unset", cursor |-> NoCursor, reads |-> 0, pending |-> <<>>]
  /\ outer = [uncertain |-> FALSE, done |-> FALSE, failed |-> FALSE, pending |-> <<>>]
  /\ output = <<>> /\ kinds = <<>>
  /\ altered = FALSE /\ smeared = FALSE
  /\ teacher \in {Free} \union {t \in Trajectories : Compiles(t)}

(* With a teacher the caller stops at the end of the reply; without one it   *)
(* may call again whenever it likes.                                         *)
Next ==
  \/ (teacher # Free => Open) /\ Propose
  \/ Commit
  \/ Alter
  \/ Smear

Spec == Init /\ [][Next]_vars
-----------------------------------------------------------------------------
Decisions == [kind : Kinds, token : Tokens]

(* Types, and the budgets that every reply keeps.                            *)
TypeOK ==
  /\ prompt \in Prompts
  /\ core \in [state : {"idle", "active", "wait_uncertainty", "done", "failed"},
               route : Routes \union {"unset"},
               cursor : [value : Values \union {<<>>}, offset : 0..MaxValueTokens],
               reads : 0..MaxReads,
               pending : {<<>>} \union {<<d>> : d \in Decisions}]
  /\ outer \in [uncertain : BOOLEAN, done : BOOLEAN, failed : BOOLEAN,
                pending : {<<>>} \union {<<d>> : d \in Decisions}]
  /\ output \in Seq(Tokens) /\ Len(output) <= MaxNew /\ Used <= MaxTotal
  /\ kinds \in Seq(Kinds) /\ Len(kinds) = Len(output)
  /\ altered \in BOOLEAN /\ smeared \in BOOLEAN
  /\ teacher \in {Free} \union Trajectories

(* Runs of value tokens in the output, from a start to just before what is   *)
(* not a continuation.                                                       *)
RunFrom(i) ==
  LET longer == {j \in i..Len(kinds) : \A k \in i + 1..j : kinds[k] = "continue"}
  IN SubSeq(output, i, CHOOSE j \in longer : \A k \in longer : k <= j)

(* Whatever the caller does, a value is copied out of memory in one piece:   *)
(* each start is followed by the rest of the same value and then by an end;  *)
(* only the last may be unfinished, in a reply that is not done.             *)
ValuesWhole ==
  /\ \A i \in 1..Len(kinds) : kinds[i] = "start" =>
       LET run == RunFrom(i) IN
       \/ /\ run \in Values
          /\ i + Len(run) <= Len(kinds) => kinds[i + Len(run)] = "end"
       \/ /\ \E v \in Values : IsPrefix(run, v)
          /\ i + Len(run) = Len(kinds) + 1
          /\ ~outer.done
  /\ \A i \in 1..Len(kinds) : kinds[i] \in {"continue", "end"} =>
       i > 1 /\ kinds[i - 1] \in {"start", "continue"}
  /\ outer.done => kinds[Len(kinds)] \in {"base", "end", "uncertain"}

(* While a value is being copied there is room for its rest and for the token*)
(* that ends it, in the reply and in the context: no budget can cut a value. *)
RoomToEnd ==
  Reading(core) /\ core.state # "failed" =>
    LET rest == Len(core.cursor.value) - core.cursor.offset + 1 IN
    /\ Len(output) + rest <= MaxNew
    /\ Used + rest <= MaxTotal

(* The controller does at inference what the trajectories teach: shown the   *)
(* frames of a trajectory that fits the budgets, it never fails, and its     *)
(* decisions are the phases of the trajectory, to the last.                  *)
TeacherReplayed ==
  teacher # Free =>
    /\ ~outer.failed
    /\ kinds = SubSeq(teacher.phases, 1, Len(kinds))
    /\ output = SubSeq(teacher.tokens, 1, Len(output))
    /\ outer.done <=> Len(output) = Len(teacher.tokens)
=============================================================================
