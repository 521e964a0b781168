----------------------------- MODULE Generation -----------------------------
(***************************************************************************)
(* Conversations of src/examples/openai_server.c.  A session keeps the     *)
(* context of the model (the tokens in its KV cache), the tokens the       *)
(* server believes are in it (history_tokens, history_count), and the text *)
(* they stand for (transcript).  A request that continues a conversation   *)
(* is evaluated only where it goes beyond the transcript.                  *)
(*                                                                         *)
(* The server has one thread, but it polls for other requests whenever it  *)
(* has sent a piece of a streamed reply, and handles them right there,     *)
(* below the frame of the reply in progress: "stack" are the generations   *)
(* in progress, the innermost last.  Only its last one runs.               *)
(*                                                                         *)
(* A text is a sequence of pieces, and a token stands for a piece, except  *)
(* "lead" and "cont", the two halves of the one character "accent".  Which *)
(* token is sampled is arbitrary.                                          *)
(***************************************************************************)
EXTENDS Naturals, Sequences, SequencesExt

CONSTANTS
  Sessions,
  Settings,   \* what the server and its clients are like, see Setting
  MaxNew,     \* max_request_tokens
  Samples,    \* tokens the model samples
  Styles,     \* how clients continue: with the "full" history or the "next" turn
  Thinking,   \* values of enable_thinking
  MaxDepth    \* bound on the generations in progress

Pieces == {"turn", "noThink", "word", "think", "accent"}
Tokens == (Pieces \ {"accent"}) \cup {"bos", "lead", "cont"}

\* max_context_tokens; the sessions clients ask for; whether they may ask again
\* before the session's last reply is complete; and whether bitnet_eval may fail
\* for other reasons than its capacity.
Setting == [capacity : Nat, asking : SUBSET Sessions, interrupts : BOOLEAN, fails : BOOLEAN]

ASSUME ConversationAssumption ==
  /\ Settings \subseteq Setting /\ MaxNew \in Nat \ {0} /\ MaxDepth \in Nat \ {0}
  /\ Samples \subseteq Tokens \ {"bos"}
  /\ Styles \subseteq {"full", "next"}
  /\ Thinking \subseteq BOOLEAN

VARIABLES
  setting,   \* the one of Settings there is
  session,   \* the sessions of the server
  stack,     \* generations in progress
  style,     \* how the client of a session continues its conversation
  conv,      \* the conversation as the client of a session has it
  disturbed  \* sessions that are inexact after a failure, an interruption, or a
             \* turn that was taken for history

vars == <<setting, session, stack, style, conv, disturbed>>

Capacity == setting.capacity
-----------------------------------------------------------------------------
(* Texts and tokens *)

Tokenize(text, bos) ==
  (IF bos THEN <<"bos">> ELSE <<>>)
    \o FlattenSeq([i \in DOMAIN text |->
         IF text[i] = "accent" THEN <<"lead", "cont">> ELSE <<text[i]>>])

\* Characters are taken when complete; a first half that nothing follows, and
\* a second half after nothing, are dropped.
Decode(decoded, token) ==
  [text |-> IF token = "lead" \/ (token = "cont" /\ ~decoded.pending)
            THEN decoded.text
            ELSE Append(decoded.text, IF token = "cont" THEN "accent" ELSE token),
   pending |-> token = "lead"]

NothingDecoded == [text |-> <<>>, pending |-> FALSE]

\* The answer of a reply that is not streamed: what follows the reasoning.
Content(text) ==
  IF "think" \in Range(text)
  THEN SubSeq(text, SelectInSeq(text, LAMBDA p : p = "think") + 1, Len(text))
  ELSE text
-----------------------------------------------------------------------------
(* Contexts and sessions *)

\* Results of bitnet_eval: it may fail before or after it has filled the cache.
Evaluated(kv, tokens) ==
  IF Len(kv) + Len(tokens) > Capacity THEN {[ok |-> FALSE, kv |-> kv]}
  ELSE {[ok |-> TRUE, kv |-> kv \o tokens]}
         \cup (IF setting.fails THEN [ok : {FALSE}, kv : {kv, kv \o tokens}] ELSE {})

Blank == [kv |-> <<>>, tokens |-> <<>>, count |-> 0, transcript |-> <<>>]


\* Writes tokens into history_tokens from position n on.
Written(history, n, tokens) ==
  [i \in 1 .. IF Len(history) > n + Len(tokens) THEN Len(history) ELSE n + Len(tokens) |->
     IF i \in n + 1 .. n + Len(tokens) THEN tokens[i - n] ELSE history[i]]

Busy(s) == \E i \in DOMAIN stack : stack[i].session = s

\* Fault of ResetContext: the cache is not reset.
ResetContextNotCache(s) == [Blank EXCEPT !.kv = session[s].kv]

\* Only a reply in progress can still reach the tokens that a reset leaves in
\* history_tokens.
ResetContext(s) == [Blank EXCEPT !.tokens = IF Busy(s) THEN session[s].tokens ELSE <<>>]

Init ==
  /\ setting \in Settings
  /\ session = [s \in Sessions |-> Blank]
  /\ stack = <<>>
  /\ style \in [Sessions -> Styles]
  /\ conv = [s \in Sessions |-> <<>>]
  /\ disturbed = {}
-----------------------------------------------------------------------------
(* Requests *)

\* The server is in mg_mgr_poll: in its main loop or in a streamed reply.
Polling == stack # <<>> => Last(stack).polls

\* Fault of TextReused: the prompt must be a part of the transcript.
TextReusedReversed(s, prompt) ==
  s.count > 0 /\ s.transcript # <<>> /\ IsPrefix(prompt, s.transcript)

\* How a prompt continues session s: by text, by tokens, or not at all.
TextReused(s, prompt) ==
  s.count > 0 /\ s.transcript # <<>> /\ IsPrefix(s.transcript, prompt)

TokensReused(s, prompt) ==
  LET full == Tokenize(prompt, TRUE) IN
  /\ s.count > 0 /\ ~TextReused(s, prompt)
  /\ Len(full) <= Capacity
  /\ IsPrefix(SubSeq(s.tokens, 1, s.count), full)

PromptTokens(s, prompt) ==
  IF TextReused(s, prompt)
    THEN Tokenize(SubSeq(prompt, Len(s.transcript) + 1, Len(prompt)), FALSE)
  ELSE IF TokensReused(s, prompt)
    THEN SubSeq(Tokenize(prompt, TRUE), s.count + 1, Len(Tokenize(prompt, TRUE)))
  ELSE Tokenize(prompt, s.count = 0)

\* Fault of Transcribed: a prompt that starts anew replaces the transcript.
TranscribedAnew(s, prompt) == prompt

Transcribed(s, prompt) ==
  IF TextReused(s, prompt) \/ TokensReused(s, prompt) THEN prompt
  ELSE s.transcript \o prompt

\* Fault of Admissible: the reply is forgotten.
AdmissibleWithoutReply(s, prompt, max) ==
  /\ Len(PromptTokens(s, prompt)) <= Capacity
  /\ PromptTokens(s, prompt) # <<>> \/ TextReused(s, prompt) \/ TokensReused(s, prompt)
  /\ s.count + Len(PromptTokens(s, prompt)) <= Capacity

Admissible(s, prompt, max) ==
  /\ Len(PromptTokens(s, prompt)) <= Capacity
  /\ PromptTokens(s, prompt) # <<>> \/ TextReused(s, prompt) \/ TokensReused(s, prompt)
  /\ s.count + Len(PromptTokens(s, prompt)) + max + 1 <= Capacity

\* What prefilling leaves of session s, and whether it succeeds.
Prefilled(s, prompt) ==
  LET new == PromptTokens(s, prompt) IN
  IF new = <<>> THEN {[ok |-> TRUE, session |-> [s EXCEPT !.transcript = prompt]]}
  ELSE {IF e.ok
        THEN [ok |-> TRUE, session |-> [kv |-> e.kv,
                tokens |-> Written(s.tokens, s.count, new),
                count |-> s.count + Len(new), transcript |-> Transcribed(s, prompt)]]
        ELSE [ok |-> FALSE, session |-> [s EXCEPT !.kv = e.kv]]
        : e \in Evaluated(s.kv, new)}

Reused(s, prompt) == IF TextReused(s, prompt) \/ TokensReused(s, prompt) THEN s.count ELSE 0

\* A client's next turn.  Without thinking the template ends it with an empty
\* block of reasoning, which no later prompt repeats.
Turn(thinking) == IF thinking THEN <<"turn">> ELSE <<"turn", "noThink">>

\* A client that sends its next turn only and repeats the turn that had no reply
\* is taken for one that sends its history: nothing of the turn is evaluated.
Misread(s, prompt) == PromptTokens(s, prompt) = <<>>

\* A client that does not interrupt waits for its reply.
MayAsk(s) == s \in setting.asking /\ Polling /\ (Busy(s) => setting.interrupts)

\* What was inexact is exact again when it is reset while no reply uses it.
Settled(s, reset) ==
  IF reset = "none" THEN disturbed ELSE IF Busy(s) THEN disturbed \cup {s} ELSE disturbed \ {s}

\* A request for session s; "context" resets what "session" resets here, but
\* its client goes on with the same conversation.  A reply that is not streamed
\* does not poll.
Request(s, reset, max, stream, thinking) ==
  LET known  == IF style[s] = "full" /\ reset # "session" THEN conv[s] ELSE <<>>
      prompt == known \o Turn(thinking)
      before == IF reset = "none" THEN session[s] ELSE ResetContext(s)
      gen(after) ==
        [session |-> s, count |-> after.count, max |-> max, emitted |-> 0,
         decoded |-> NothingDecoded, status |-> "going", stream |-> stream, polls |-> stream,
         cached |-> before.count, reused |-> Reused(before, prompt),
         prompt |-> Len(PromptTokens(before, prompt)),
         asked |-> Append(known, "turn"), thinking |-> thinking]
  IN
  /\ MayAsk(s) /\ Len(stack) < MaxDepth
  /\ IF Admissible(before, prompt, max)
     THEN \E p \in Prefilled(before, prompt) :
            /\ session' = [session EXCEPT ![s] = p.session]
            /\ stack' = IF p.ok THEN Append(stack, gen(p.session)) ELSE stack
            /\ disturbed' = Settled(s, reset)
                 \cup (IF Busy(s) \/ ~p.ok \/ Misread(before, prompt) THEN {s} ELSE {})
     ELSE /\ session' = [session EXCEPT ![s] = before]
          /\ disturbed' = Settled(s, reset)
          /\ UNCHANGED stack
  /\ UNCHANGED <<setting, style, conv>>

\* An import of memory forgets the conversation of the session.
Forget(s) ==
  /\ MayAsk(s)
  /\ session' = [session EXCEPT ![s] = ResetContext(s)]
  /\ disturbed' = Settled(s, "context")
  /\ UNCHANGED <<setting, stack, style, conv>>
-----------------------------------------------------------------------------
(* Replies *)

Going == stack # <<>> /\ Last(stack).status = "going"

Become(g) == stack' = Append(Front(stack), g)

\* The end-of-generation token is sampled: it is not part of the reply.
Stop ==
  /\ Going
  /\ Become([Last(stack) EXCEPT !.status = "done", !.polls = Last(stack).stream])
  /\ UNCHANGED <<setting, session, style, conv, disturbed>>

Failed(g) == [g EXCEPT !.status = "failed", !.polls = g.stream]

\* A token is sampled, decoded, recorded, evaluated and transcribed.  A piece
\* of text that is complete is sent.
Emit(token) ==
  /\ Going
  /\ LET g    == Last(stack)
         s    == g.session
         new  == Decode(g.decoded, token)
         sent == SubSeq(new.text, Len(g.decoded.text) + 1, Len(new.text))
         last == g.emitted + 1 = g.max
         noted == [session[s] EXCEPT !.tokens = Written(@, g.count, <<token>>),
                                     !.count = g.count + 1]
     IN
     IF g.count >= Capacity
     THEN /\ Become(Failed(g))
          /\ UNCHANGED <<session, disturbed>>
     ELSE \E e \in Evaluated(noted.kv, <<token>>) :
            /\ session' = [session EXCEPT ![s] =
                 [noted EXCEPT !.kv = e.kv, !.transcript = IF e.ok THEN @ \o sent ELSE @]]
            /\ Become(IF ~e.ok THEN Failed([g EXCEPT !.count = @ + 1])
                      ELSE [g EXCEPT !.count = @ + 1, !.emitted = @ + 1, !.decoded = new,
                                     !.status = IF last THEN "done" ELSE "going",
                                     !.polls = g.stream /\ (sent # <<>> \/ last)])
            /\ disturbed' = IF e.ok THEN disturbed ELSE disturbed \cup {s}
  /\ UNCHANGED <<setting, style, conv>>

\* The reply is complete, or the client has been told that it failed.
Finish ==
  /\ stack # <<>> /\ Last(stack).status # "going"
  /\ LET g == Last(stack)
         s == g.session
     IN
     /\ session' = [session EXCEPT ![s].count = g.count]
     /\ conv' = IF g.status = "done" /\ style[s] = "full"
                THEN [conv EXCEPT ![s] = g.asked \o IF g.stream THEN g.decoded.text
                                                   ELSE Content(g.decoded.text)]
                ELSE conv
  /\ stack' = Front(stack)
  /\ UNCHANGED <<setting, style, disturbed>>

Next ==
  \/ \E s \in Sessions :
       \/ \E reset \in {"none", "context", "session"}, max \in 1 .. MaxNew,
             stream \in BOOLEAN, thinking \in Thinking :
            Request(s, reset, max, stream, thinking)
       \/ Forget(s)
  \/ Stop
  \/ \E token \in Samples : Emit(token)
  \/ Finish

Spec == Init /\ [][Next]_vars
-----------------------------------------------------------------------------
(* Properties *)

Conversation ==
  [kv : Seq(Tokens), tokens : Seq(Tokens), count : Nat, transcript : Seq(Pieces)]

\* What the server believes to be in the KV cache of a session is in it, in the
\* sessions of other clients' interleaved replies too, and after a reset even
\* in one that was disturbed: what a request reuses was evaluated.
HistoryIsCached ==
  \A s \in Sessions \ disturbed :
    /\ session[s].kv = SubSeq(session[s].tokens, 1, session[s].count)
    /\ \A i \in DOMAIN stack : stack[i].session = s => stack[i].count = session[s].count

\* The text by which the server recognizes a conversation is the text of the
\* tokens in its KV cache, which begin with the one "bos" there is.
TranscriptIsCached ==
  \A s \in Sessions \ disturbed :
    LET kv == session[s].kv IN
    /\ kv # <<>> => Head(kv) = "bos"
    /\ session[s].transcript =
         FoldLeft(Decode, NothingDecoded, IF kv = <<>> THEN kv ELSE Tail(kv)).text

\* "If the client sends full history again, the server de-duplicates the
\* already cached prefix instead of evaluating it twice." (README.md:416-418)
Deduplicates ==
  \A i \in DOMAIN stack : LET g == stack[i] IN
    style[g.session] = "full" /\ g.cached > 0 /\ g.session \notin disturbed =>
      g.reused = g.cached /\ g.prompt = Len(Turn(g.thinking))

\* Whatever interrupts a reply, and however stale its counts are by then, no
\* position beyond the context is ever written, and no count points beyond the
\* history.
WithinContext ==
  /\ \A s \in Sessions :
       /\ session[s] \in Conversation
       /\ Len(session[s].kv) <= Capacity /\ Len(session[s].tokens) <= Capacity
       /\ session[s].count <= Len(session[s].tokens)
  /\ \A i \in DOMAIN stack : stack[i].count <= Len(session[stack[i].session].tokens)

\* And a request that was accepted has room for the whole reply it asked for:
\* none is cut by the end of the context after its first piece was sent.
RoomForReply ==
  /\ WithinContext
  /\ \A i \in DOMAIN stack : LET g == stack[i] IN
       g.session \notin disturbed /\ g.status = "going" =>
         Len(session[g.session].kv) + (g.max - g.emitted) <= Capacity

\* "`context_tokens`: current session context length after generation."
\* (README.md:279)
ContextTokens ==
  [][Going /\ Last(stack').status = "done" =>
       LET g == Last(stack') IN g.count = Len(session'[g.session].kv)]_vars
=============================================================================
