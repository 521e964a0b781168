----------------------------- MODULE MCSelection ----------------------------
(* Every training program, five steps with an evaluation every second and,   *)
(* where the program evaluates its last weights, at the fifth; two starts on *)
(* the same output path.                                                     *)
EXTENDS Selection

MCTrainers ==
  {TypedWriter, PairVerifier, QueryActivator, SpanTagger, AnchorKeys, LinkHead,
   ContextOperation, MemorySet, Identity, MemoryGate, SpanGate, Fusion,
   EpisodeBinding, Relevance1, Relevance2, Relevance3, Relevance4, Relevance5,
   Relevance6, Relevance7, WideMixed, WideMixed2, WideMixed7, WideLiveCE,
   CrossAttention}

MCThird == {Relevance3}
=============================================================================
