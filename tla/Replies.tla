------------------------------ MODULE Replies ------------------------------
(* The two generators of single replies in the memory research: the value    *)
(* controllers, and the native backends of the campaigns with their audit.   *)
(* They share nothing; a behaviour is a reply of one of them.                *)
EXTENDS ValueReply, NativeReply

CONSTANT Generators  \* a subset of {"value", "native"}

VARIABLE generator

replyVars == <<generator, vars, nativeVars>>

(* What does not take part stands still at one of its initial states.        *)
RepliesInit ==
  /\ generator \in Generators
  /\ Init /\ (generator # "value" => teacher = Free /\ prompt = CHOOSE p \in Prompts : TRUE)
  /\ NativeInit
  /\ generator # "native" =>
       /\ backend = "continuous" /\ ~source /\ room = CHOOSE r \in Rooms : TRUE
       /\ network = CHOOSE n \in Networks : \A p \in Contexts : n.route[p] # 1
ByValue == generator = "value" /\ Next /\ UNCHANGED <<generator, nativeVars>>
ByNative == generator = "native" /\ NativeNext /\ UNCHANGED <<generator, vars>>
RepliesNext == ByValue \/ ByNative

RepliesSpec == RepliesInit /\ [][RepliesNext]_replyVars
=============================================================================
