--------------------------- MODULE GenerationProofs ---------------------------
(***************************************************************************)
(* What the server believes to be cached is cached, for any number of      *)
(* sessions, of replies in progress and of tokens.                         *)
(*                                                                         *)
(* Three invariants carry the proofs.  Bounded keeps every count and every *)
(* write inside the context.  Faithful relates, for every session that is  *)
(* not disturbed, its history to its cache, its transcript to the text of  *)
(* the cache, and its reply in progress to both.  Repeats relates what the *)
(* client of such a session will send to what the server has recorded.     *)
(* Texts are decoded and encoded by folds, so the facts about them need    *)
(* the induction of InductionProofs.                                       *)
(***************************************************************************)
EXTENDS Generation, InductionProofs
-----------------------------------------------------------------------------
(* Folds of texts, which the community modules define by recursion           *)

(* Max is the greatest of a set of positions.                                *)
LEMMA MaxOf ==
  ASSUME NEW k \in Nat, NEW s \in SUBSET (1..k), s # {}
  PROVE Max(s) \in s /\ \A y \in s : y <= Max(s)
<1> DEFINE B == {m \in Nat : \A y \in s : y <= m}
<1>1. k \in B
  OBVIOUS
<1>2. PICK m \in B : \A b \in B : m <= b
  <2>1. B \in SUBSET Nat /\ B # {}
    BY <1>1
  <2> HIDE DEF B
  <2> QED  BY <2>1, Least
<1>3. m \in s
  <2> SUFFICES ASSUME m \notin s PROVE FALSE
    OBVIOUS
  <2>1. m \in Nat /\ \A y \in s : y \in Nat /\ 1 <= y /\ y <= m /\ y # m
    BY <1>2
  <2>2. PICK z : z \in s
    OBVIOUS
  <2>3. m - 1 \in Nat
    BY <2>1, <2>2
  <2>4. \A y \in s : y <= m - 1
    BY <2>1
  <2> QED  BY <1>2, <2>3, <2>4
<1>4. \A y \in s : m >= y
  BY <1>2
<1> QED  BY <1>3, <1>4 DEF Max

\* f is the fold of the first k tokens of seq, by the positions that are left.
Folds(f, seq, k) ==
  f = [s \in SUBSET (1..k) |->
       IF s = {} THEN NothingDecoded ELSE Decode(f[s \ {Max(s)}], seq[Max(s)])]

(* A function that folds the first k tokens exists, for every k.             *)
LEMMA FoldExists ==
  ASSUME NEW seq
  PROVE \A k \in Nat : \E f : Folds(f, seq, k)
<1> DEFINE S == {k \in Nat : \E f : Folds(f, seq, k)}
<1>1. 0 \in S
  <2> DEFINE g == [s \in SUBSET (1..0) |-> NothingDecoded]
  <2>1. \A s \in SUBSET (1..0) : s = {}
    OBVIOUS
  <2>2. g = [s \in SUBSET (1..0) |-> IF s = {} THEN NothingDecoded ELSE Decode(g[s \ {Max(s)}], seq[Max(s)])]
    BY <2>1
  <2> HIDE DEF g
  <2> QED  BY <2>2 DEF Folds
<1>2. ASSUME NEW k \in Nat, k \in S PROVE k + 1 \in S
  <2>1. PICK f : Folds(f, seq, k)
    BY <1>2
  <2> DEFINE Body(h, s) == IF s = {} THEN NothingDecoded ELSE Decode(h[s \ {Max(s)}], seq[Max(s)])
             g == [s \in SUBSET (1..k+1) |-> Body(f, s)]
  <2>2. f = [s \in SUBSET (1..k) |-> Body(f, s)]
    BY <2>1 DEF Folds
  <2>3. ASSUME NEW s \in SUBSET (1..k) PROVE g[s] = f[s]
    <3>1. s \in SUBSET (1..k+1)
      OBVIOUS
    <3>2. f[s] = Body(f, s)
      <4> HIDE DEF Body
      <4> QED BY <2>2
    <3> HIDE DEF Body
    <3> QED  BY <3>1, <3>2
  <2>4. ASSUME NEW s \in SUBSET (1..k+1), s # {} PROVE s \ {Max(s)} \in SUBSET (1..k)
    <3>1. Max(s) \in s /\ \A y \in s : y <= Max(s)
      <4>1. k + 1 \in Nat
        OBVIOUS
      <4> HIDE DEF g, Body
      <4> QED  BY <2>4, <4>1, MaxOf
    <3>2. PICK m : m = Max(s)
      OBVIOUS
    <3>3. m \in s /\ \A y \in s : y <= m
      BY <3>1, <3>2
    <3>4. s \ {m} \in SUBSET (1..k)
      BY <3>3
    <3> QED  BY <3>2, <3>4
  <2>5. ASSUME NEW s \in SUBSET (1..k+1) PROVE Body(f, s) = Body(g, s)
    <3>1. CASE s = {}
      BY <3>1
    <3>2. CASE s # {}
      <4>1. g[s \ {Max(s)}] = f[s \ {Max(s)}]
        BY <3>2, <2>3, <2>4
      <4> HIDE DEF g
      <4> QED  BY <4>1
    <3> QED  BY <3>1, <3>2
  <2>6. g = [s \in SUBSET (1..k+1) |-> Body(g, s)]
    <3> HIDE DEF Body
    <3> QED  BY <2>5
  <2>7. Folds(g, seq, k+1)
    <3> HIDE DEF g
    <3> QED BY <2>6 DEF Folds
  <2> QED  BY <2>7
<1>3. \A k \in Nat : k \in S
  <2> HIDE DEF S
  <2> QED  BY <1>1, <1>2, Induction
<1> QED  BY <1>3

(* What FoldLeft of a sequence of tokens is defined as.                      *)
LEMMA FoldDef ==
  ASSUME NEW seq
  PROVE FoldLeft(Decode, NothingDecoded, seq) =
   (CHOOSE f : f = [s \in SUBSET DOMAIN seq |->
       IF s = {} THEN NothingDecoded ELSE Decode(f[s \ {Max(s)}], seq[Max(s)])])[DOMAIN seq]
  BY DEF FoldLeft, MapThenFoldSet

(* The text of tokens.                                                       *)
Text(seq) == FoldLeft(Decode, NothingDecoded, seq)

(* Text is the value of such a function.                                     *)
LEMMA TextIsFold ==
  ASSUME NEW seq, NEW n \in Nat, DOMAIN seq = 1..n
  PROVE \E f : Folds(f, seq, n) /\ Text(seq) = f[1..n]
<1> DEFINE f == CHOOSE f : Folds(f, seq, n)
<1>1. Text(seq) = f[1..n]
  BY FoldDef DEF Folds, Text
<1>2. Folds(f, seq, n)
  BY FoldExists
<1> QED  BY <1>1, <1>2

(* Folds of two sequences agree on a common prefix.                          *)
LEMMA FoldsAgree ==
  ASSUME NEW m \in Nat, NEW n \in Nat, m <= n, NEW a, NEW b,
         \A i \in 1..m : a[i] = b[i],
         NEW f, NEW g, Folds(f, a, m), Folds(g, b, n)
  PROVE f[1..m] = g[1..m]
<1> DEFINE S == {k \in Nat : k <= m => f[1..k] = g[1..k]}
<1>1. ASSUME NEW k \in Nat, k + 1 <= m
      PROVE /\ f[1..k+1] = Decode(f[1..k], a[k+1])
            /\ g[1..k+1] = Decode(g[1..k], b[k+1])
  <2>1. 1..k+1 \in SUBSET (1..m) /\ 1..k+1 \in SUBSET (1..n) /\ 1..k+1 # {}
    BY <1>1
  <2>2. Max(1..k+1) = k + 1
    <3>1. k + 1 \in Nat
      OBVIOUS
    <3>2. Max(1..k+1) \in 1..k+1 /\ \A y \in 1..k+1 : y <= Max(1..k+1)
      BY <2>1, <3>1, MaxOf
    <3>3. PICK x : x = Max(1..k+1)
      OBVIOUS
    <3> QED  BY <3>2, <3>3
  <2>3. (1..k+1) \ {k+1} = 1..k
    OBVIOUS
  <2>4. f[1..k+1] = Decode(f[(1..k+1) \ {Max(1..k+1)}], a[Max(1..k+1)])
    BY <2>1 DEF Folds
  <2>5. g[1..k+1] = Decode(g[(1..k+1) \ {Max(1..k+1)}], b[Max(1..k+1)])
    BY <2>1 DEF Folds
  <2> QED  BY <2>2, <2>3, <2>4, <2>5
<1>2. 0 \in S
  <2>1. 1..0 = {} /\ {} \in SUBSET (1..m) /\ {} \in SUBSET (1..n)
    OBVIOUS
  <2>2. f[{}] = NothingDecoded /\ g[{}] = NothingDecoded
    BY <2>1 DEF Folds
  <2> QED  BY <2>1, <2>2
<1>3. ASSUME NEW k \in Nat, k \in S PROVE k + 1 \in S
  <2>1. SUFFICES ASSUME k + 1 <= m PROVE f[1..k+1] = g[1..k+1]
    OBVIOUS
  <2>2. a[k+1] = b[k+1]
    BY <2>1
  <2>3. f[1..k] = g[1..k]
    BY <1>3, <2>1
  <2> QED  BY <1>1, <2>1, <2>2, <2>3
<1>4. m \in S
  <2> HIDE DEF S
  <2> QED  BY <1>2, <1>3, Induction
<1> QED  BY <1>4

(* No tokens are no text.                                                    *)
LEMMA TextEmpty == Text(<<>>) = NothingDecoded
<1>1. PICK f : Folds(f, <<>>, 0) /\ Text(<<>>) = f[1..0]
  BY TextIsFold
<1>2. 1..0 = {} /\ {} \in SUBSET (1..0)
  OBVIOUS
<1> QED  BY <1>1, <1>2 DEF Folds

(* One more token is one more step of Decode.                                *)
LEMMA TextAppend ==
  ASSUME NEW T, NEW seq \in Seq(T), NEW t \in T
  PROVE Text(Append(seq, t)) = Decode(Text(seq), t)
<1> DEFINE n == Len(seq)
           long == Append(seq, t)
<1>1. n \in Nat /\ DOMAIN seq = 1..n /\ DOMAIN long = 1..n+1 /\ long[n+1] = t
      /\ \A i \in 1..n : seq[i] = long[i]
  OBVIOUS
<1> HIDE DEF n, long
<1>2. PICK f : Folds(f, seq, n) /\ Text(seq) = f[1..n]
  BY <1>1, TextIsFold
<1>3. PICK g : Folds(g, long, n + 1) /\ Text(long) = g[1..n+1]
  <2>1. n + 1 \in Nat
    BY <1>1
  <2> QED  BY <1>1, <2>1, TextIsFold
<1>4. f[1..n] = g[1..n]
  <2>1. n + 1 \in Nat /\ n <= n + 1
    BY <1>1
  <2> QED  BY <1>1, <1>2, <1>3, <2>1, FoldsAgree
<1>5. g[1..n+1] = Decode(g[1..n], long[n+1])
  <2>1. n + 1 \in Nat /\ 1..n+1 \in SUBSET (1..n+1) /\ 1..n+1 # {}
    <3>1. n + 1 \in Nat /\ n + 1 \in 1..n+1
      BY <1>1
    <3> QED  BY <3>1
  <2>2. Max(1..n+1) = n + 1
    <3>1. Max(1..n+1) \in 1..n+1 /\ \A y \in 1..n+1 : y <= Max(1..n+1)
      BY <2>1, MaxOf
    <3>2. PICK x : x = Max(1..n+1)
      OBVIOUS
    <3> QED  BY <1>1, <3>1, <3>2
  <2>3. (1..n+1) \ {n+1} = 1..n
    BY <1>1
  <2>4. g[1..n+1] = Decode(g[(1..n+1) \ {Max(1..n+1)}], long[Max(1..n+1)])
    BY <2>1, <1>3 DEF Folds
  <2> QED  BY <2>2, <2>3, <2>4
<1> QED  BY <1>1, <1>2, <1>3, <1>4, <1>5 DEF long

-----------------------------------------------------------------------------
(* Texts and their tokens                                                    *)

Marks == Tokens \cup Pieces
(* The tokens of one piece, and of a text.                                   *)
TokensOf(p) == IF p = "accent" THEN <<"lead", "cont">> ELSE <<p>>

(* They are tokens.                                                          *)
LEMMA TokensOfType ==
  ASSUME NEW p \in Pieces
  PROVE TokensOf(p) \in Seq(Tokens)
<1>1. CASE p = "accent"
  <2>1. "lead" \in Tokens /\ "cont" \in Tokens
    BY DEF Tokens, Pieces
  <2> QED  BY <1>1, <2>1 DEF TokensOf
<1>2. CASE p # "accent"
  <2>1. p \in Tokens
    BY <1>2 DEF Tokens
  <2> QED  BY <1>2, <2>1 DEF TokensOf
<1> QED  BY <1>1, <1>2

Parts(text) == [i \in DOMAIN text |-> TokensOf(text[i])]
Coded(text) == FlattenSeq(Parts(text))

(* No text has no tokens.                                                    *)
LEMMA CodedEmpty == Coded(<<>>) = <<>>
<1>1. Parts(<<>>) = <<>>
  <2>1. DOMAIN <<>> = {}
    OBVIOUS
  <2> QED  BY <2>1 DEF Parts
<1> QED  BY <1>1, FlattenEmpty DEF Coded

(* The parts of a text, one piece at a time.                                 *)
LEMMA PartsAppend ==
  ASSUME NEW text \in Seq(Pieces), NEW p \in Pieces
  PROVE /\ Parts(text) \in Seq(Seq(Tokens))
        /\ Parts(Append(text, p)) = Append(Parts(text), TokensOf(p))
<1> DEFINE long == Append(text, p)
           n == Len(text)
<1>1. DOMAIN text = 1..n /\ n \in Nat
  OBVIOUS
<1>2. DOMAIN long = 1..n+1 /\ long[n+1] = p /\ \A i \in 1..n : long[i] = text[i]
  OBVIOUS
<1>3. \A i \in 1..n : TokensOf(text[i]) \in Seq(Tokens)
  BY TokensOfType
<1> HIDE DEF n
<1>4. Parts(text) = [i \in 1..n |-> TokensOf(text[i])]
  BY <1>1 DEF Parts
<1>5. Parts(text) \in Seq(Seq(Tokens)) /\ Len(Parts(text)) = n
  BY <1>1, <1>3, <1>4
<1> HIDE DEF long
<1>6. Parts(long) = [i \in 1..n+1 |-> TokensOf(long[i])]
  BY <1>2 DEF Parts
<1>7. \A i \in 1..n+1 : Parts(long)[i] = IF i = n+1 THEN TokensOf(p) ELSE Parts(text)[i]
  BY <1>1, <1>2, <1>4, <1>6
<1>8. \A i \in 1..n+1 : Parts(long)[i] \in Seq(Tokens)
  <2>1. \A i \in 1..n : Parts(text)[i] \in Seq(Tokens)
    BY <1>3, <1>4
  <2> QED  BY <1>1, <1>7, <2>1, TokensOfType
<1>9. Parts(long) = Append(Parts(text), TokensOf(p))
  <2>1. PICK q \in Seq(Seq(Tokens)) : q = Parts(text) /\ Len(q) = n
    BY <1>5
  <2>2. PICK e \in Seq(Tokens) : e = TokensOf(p)
    BY TokensOfType
  <2>3. PICK r : r = Parts(long)
    OBVIOUS
  <2>4. r \in Seq(Seq(Tokens)) /\ Len(r) = n + 1
    BY <1>1, <1>6, <1>8, <2>3
  <2>5. \A i \in 1..n+1 : r[i] = IF i = n+1 THEN e ELSE q[i]
    BY <1>7, <2>1, <2>2, <2>3
  <2>6. r = Append(q, e)
    <3>1. Append(q, e) \in Seq(Seq(Tokens)) /\ Len(Append(q, e)) = n + 1
      BY <2>1
    <3>2. \A i \in 1..n+1 : Append(q, e)[i] = r[i]
      BY <2>1, <2>5
    <3> QED  BY <2>4, <3>1, <3>2, SeqEqual
  <2> QED  BY <2>1, <2>2, <2>3, <2>6
<1> QED  BY <1>5, <1>9 DEF long

(* The tokens of a text, one piece at a time.                                *)
LEMMA CodedAppend ==
  ASSUME NEW text \in Seq(Pieces), NEW p \in Pieces
  PROVE Coded(Append(text, p)) = Coded(text) \o TokensOf(p)
  BY PartsAppend, TokensOfType, FlattenAppend DEF Coded

(* They are tokens, and some for a text that is not empty.                   *)
LEMMA CodedType ==
  ASSUME NEW text \in Seq(Pieces)
  PROVE Coded(text) \in Seq(Tokens) /\ (text # <<>> => Coded(text) # <<>>)
<1> DEFINE S == {q \in Seq(Pieces) : Coded(q) \in Seq(Tokens) /\ (q # <<>> => Coded(q) # <<>>)}
<1>1. <<>> \in S
  <2>1. <<>> \in Seq(Pieces) /\ <<>> \in Seq(Tokens)
    OBVIOUS
  <2> QED  BY <2>1, CodedEmpty
<1>2. ASSUME NEW q \in Seq(Pieces), NEW p \in Pieces, q \in S PROVE Append(q, p) \in S
  <2>1. TokensOf(p) \in Seq(Tokens) /\ Coded(q) \in Seq(Tokens)
    BY <1>2, TokensOfType
  <2>2. TokensOf(p) # <<>>
    BY DEF TokensOf
  <2>3. PICK a \in Seq(Tokens), b \in Seq(Tokens) : a = Coded(q) /\ b = TokensOf(p) /\ b # <<>>
    BY <2>1, <2>2
  <2>4. a \o b \in Seq(Tokens) /\ a \o b # <<>>
    BY <2>3, ConcatProperties, EmptySeq
  <2>5. Append(q, p) \in Seq(Pieces)
    OBVIOUS
  <2>6. Coded(Append(q, p)) = a \o b
    BY <2>3, CodedAppend
  <2> QED  BY <2>4, <2>5, <2>6
<1>3. text \in S
  <2> HIDE DEF S
  <2> QED  BY <1>1, <1>2, SequenceInduction
<1> QED  BY <1>3

(* Tokenize is Coded, with "bos" before it or without.                       *)
LEMMA TokenizeIsCoded ==
  ASSUME NEW text \in Seq(Pieces)
  PROVE /\ Tokenize(text, FALSE) = Coded(text)
        /\ Tokenize(text, TRUE) = <<"bos">> \o Coded(text)
<1>1. /\ Tokenize(text, FALSE) = <<>> \o Coded(text)
      /\ Tokenize(text, TRUE) = <<"bos">> \o Coded(text)
  BY DEF Tokenize, Coded, Parts, TokensOf
<1>2. <<>> \o Coded(text) = Coded(text)
  BY CodedType, ConcatEmptySeq
<1> QED  BY <1>1, <1>2

(* What tokens are decoded to.                                               *)
LEMMA TextType ==
  ASSUME NEW seq \in Seq(Tokens)
  PROVE Text(seq) \in [text : Seq(Marks), pending : BOOLEAN]
<1> DEFINE R == [text : Seq(Marks), pending : BOOLEAN]
           S == {q \in Seq(Tokens) : Text(q) \in R}
<1>1. <<>> \in S
  <2>1. <<>> \in Seq(Tokens) /\ <<>> \in Seq(Marks)
    OBVIOUS
  <2>2. NothingDecoded \in R
    BY <2>1 DEF NothingDecoded
  <2> HIDE DEF R
  <2> QED  BY <2>1, <2>2, TextEmpty
<1>2. ASSUME NEW q \in Seq(Tokens), NEW t \in Tokens, q \in S PROVE Append(q, t) \in S
  <2>1. PICK d \in R : d = Text(q)
    BY <1>2
  <2>2. "accent" \in Marks /\ t \in Marks
    BY DEF Marks, Pieces
  <2>3. Decode(d, t).text \in Seq(Marks)
    BY <2>2 DEF Decode
  <2>4. Decode(d, t) \in R
    BY <2>3 DEF Decode
  <2> QED  BY <2>1, <2>4, TextAppend
<1>3. seq \in S
  <2> HIDE DEF S
  <2> QED  BY <1>1, <1>2, SequenceInduction
<1> QED  BY <1>3

(* One more piece of text.                                                   *)
LEMMA TextOfPiece ==
  ASSUME NEW a \in Seq(Tokens), NEW p \in Pieces
  PROVE /\ Text(a \o TokensOf(p)).text = Append(Text(a).text, p)
        /\ ~Text(a \o TokensOf(p)).pending
<1>1. Text(a) \in [text : Seq(Marks), pending : BOOLEAN]
  BY TextType
<1>2. CASE p = "accent"
  <2>1. "lead" \in Tokens /\ "cont" \in Tokens
    BY DEF Tokens, Pieces
  <2>2. a \o <<"lead", "cont">> = Append(Append(a, "lead"), "cont")
    BY <2>1
  <2>3. Text(Append(a, "lead")) = Decode(Text(a), "lead")
    BY <2>1, TextAppend
  <2>4. Text(Append(Append(a, "lead"), "cont")) = Decode(Decode(Text(a), "lead"), "cont")
    <3>1. Append(a, "lead") \in Seq(Tokens)
      BY <2>1
    <3> QED  BY <2>1, <2>3, <3>1, TextAppend
  <2>5. PICK d : d = Text(a)
    OBVIOUS
  <2>6. Decode(d, "lead") = [text |-> d.text, pending |-> TRUE]
    BY DEF Decode
  <2>7. Decode([text |-> d.text, pending |-> TRUE], "cont") = [text |-> Append(d.text, "accent"), pending |-> FALSE]
    BY DEF Decode
  <2>8. TokensOf(p) = <<"lead", "cont">>
    BY <1>2 DEF TokensOf
  <2>9. Text(a \o TokensOf(p)) = [text |-> Append(d.text, "accent"), pending |-> FALSE]
    BY <2>2, <2>4, <2>5, <2>6, <2>7, <2>8
  <2> QED  BY <1>2, <2>5, <2>9
<1>3. CASE p # "accent"
  <2>1. p \in Tokens /\ p # "lead" /\ p # "cont"
    BY <1>3 DEF Tokens, Pieces
  <2>2. a \o <<p>> = Append(a, p)
    BY <2>1
  <2>3. Text(Append(a, p)) = Decode(Text(a), p)
    BY <2>1, TextAppend
  <2>4. PICK d : d = Text(a)
    OBVIOUS
  <2>5. Decode(d, p) = [text |-> Append(d.text, p), pending |-> FALSE]
    BY <2>1 DEF Decode
  <2>6. TokensOf(p) = <<p>>
    BY <1>3 DEF TokensOf
  <2>7. Text(a \o TokensOf(p)) = [text |-> Append(d.text, p), pending |-> FALSE]
    BY <2>2, <2>3, <2>4, <2>5, <2>6
  <2> QED  BY <2>4, <2>7
<1> QED  BY <1>2, <1>3

(* Decoding the tokens of a text appends the text, whatever came before, and *)
(* waits for nothing.                                                        *)
LEMMA TextOfPieces ==
  ASSUME NEW a \in Seq(Tokens), NEW text \in Seq(Pieces)
  PROVE /\ Text(a \o Coded(text)).text = Text(a).text \o text
        /\ text # <<>> => ~Text(a \o Coded(text)).pending
<1> DEFINE S == {q \in Seq(Pieces) :
                   /\ Text(a \o Coded(q)).text = Text(a).text \o q
                   /\ q # <<>> => ~Text(a \o Coded(q)).pending}
<1>0. Text(a).text \in Seq(Marks) /\ Pieces \subseteq Marks
  BY TextType DEF Marks
<1>1. <<>> \in S
  <2>1. a \o <<>> = a
    OBVIOUS
  <2>2. Text(a).text \o <<>> = Text(a).text
    BY <1>0, ConcatEmptySeq
  <2>3. <<>> \in Seq(Pieces)
    OBVIOUS
  <2> QED  BY <2>1, <2>2, <2>3, CodedEmpty
<1>2. ASSUME NEW q \in Seq(Pieces), NEW p \in Pieces, q \in S PROVE Append(q, p) \in S
  <2>1. Coded(q) \in Seq(Tokens) /\ TokensOf(p) \in Seq(Tokens)
    BY CodedType, TokensOfType
  <2>2. a \o Coded(Append(q, p)) = (a \o Coded(q)) \o TokensOf(p)
    <3>1. (a \o Coded(q)) \o TokensOf(p) = a \o (Coded(q) \o TokensOf(p))
      BY <2>1, ConcatAssociative
    <3> QED  BY <3>1, CodedAppend
  <2>3. a \o Coded(q) \in Seq(Tokens)
    BY <2>1, ConcatProperties
  <2>4. /\ Text((a \o Coded(q)) \o TokensOf(p)).text = Append(Text(a \o Coded(q)).text, p)
        /\ ~Text((a \o Coded(q)) \o TokensOf(p)).pending
    BY <2>3, TextOfPiece
  <2>5. Append(Text(a).text \o q, p) = Text(a).text \o Append(q, p)
    <3>1. PICK x \in Seq(Marks) : x = Text(a).text
      BY <1>0
    <3>2. q \in Seq(Marks) /\ p \in Marks
      BY <1>0, SeqMonotonic
    <3>3. Append(x \o q, p) = (x \o q) \o <<p>> /\ Append(q, p) = q \o <<p>>
      BY <3>2, ConcatProperties, AppendIsConcat
    <3>4. <<p>> \in Seq(Marks)
      BY <3>2
    <3>5. (x \o q) \o <<p>> = x \o (q \o <<p>>)
      BY <3>2, <3>4, ConcatAssociative
    <3> QED  BY <3>1, <3>3, <3>5
  <2>6. Append(q, p) \in Seq(Pieces)
    OBVIOUS
  <2>7. Text(a \o Coded(q)).text = Text(a).text \o q
    BY <1>2
  <2>8. Text(a \o Coded(Append(q, p))).text = Text(a).text \o Append(q, p)
    BY <2>2, <2>4, <2>5, <2>7
  <2>9. ~Text(a \o Coded(Append(q, p))).pending
    BY <2>2, <2>4
  <2> QED  BY <2>6, <2>8, <2>9
<1>3. text \in S
  <2> HIDE DEF S
  <2> QED  BY <1>1, <1>2, SequenceInduction
<1> QED  BY <1>3

-----------------------------------------------------------------------------
(* The invariant that bounds the state, and the steps of a session           *)

USE ConversationAssumption

(* What a reply in progress is.                                              *)
Decoding == [text : Seq(Pieces), pending : BOOLEAN]

Replying ==
  [session : Sessions, count : Nat, max : 1..MaxNew, emitted : Nat, decoded : Decoding,
   status : {"going", "done", "failed"}, stream : BOOLEAN, polls : BOOLEAN, cached : Nat,
   reused : Nat, prompt : Nat, asked : Seq(Pieces), thinking : Thinking]

TypeOK ==
  /\ setting \in Settings
  /\ session \in [Sessions -> Conversation]
  /\ stack \in Seq(Replying)
  /\ style \in [Sessions -> Styles]
  /\ conv \in [Sessions -> Seq(Pieces)]
  /\ disturbed \in SUBSET Sessions

(* Counts, tokens and caches stay within the context.                        *)
Sound(c) == Len(c.kv) <= Capacity /\ Len(c.tokens) <= Capacity /\ c.count <= Len(c.tokens)
Bounded ==
  /\ \A s \in Sessions : Sound(session[s])
  /\ \A i \in DOMAIN stack : stack[i].count <= Len(session[stack[i].session].tokens)

(* The context has a capacity.                                               *)
LEMMA CapacityNat == ASSUME TypeOK PROVE Capacity \in Nat
  BY DEF TypeOK, Capacity, Setting

(* What is written into the history: nothing is lost before it, and it       *)
(* follows what is kept.                                                     *)
LEMMA WrittenOK ==
  ASSUME NEW h \in Seq(Tokens), NEW n \in Nat, n <= Len(h), NEW new \in Seq(Tokens)
  PROVE LET w == Written(h, n, new) IN
        /\ w \in Seq(Tokens) /\ Len(w) >= Len(h) /\ Len(w) >= n + Len(new)
        /\ Len(w) = Len(h) \/ Len(w) = n + Len(new)
        /\ SubSeq(w, 1, n + Len(new)) = SubSeq(h, 1, n) \o new
<1> DEFINE m == IF Len(h) > n + Len(new) THEN Len(h) ELSE n + Len(new)
           e(i) == IF i \in n + 1 .. n + Len(new) THEN new[i - n] ELSE h[i]
           w == [i \in 1..m |-> e(i)]
<1>1. Written(h, n, new) = w
  BY DEF Written
<1>2. Len(h) \in Nat /\ Len(new) \in Nat
  OBVIOUS
<1>3. m \in Nat /\ m >= Len(h) /\ m >= n + Len(new) /\ (m = Len(h) \/ m = n + Len(new))
  BY <1>2
<1>4. \A i \in 1..m : e(i) \in Tokens
  <2>1. ASSUME NEW i \in 1..m, i \in n + 1 .. n + Len(new) PROVE new[i - n] \in Tokens
    <3>1. i - n \in 1..Len(new)
      BY <1>2, <2>1
    <3> QED  BY <3>1
  <2>2. ASSUME NEW i \in 1..m, i \notin n + 1 .. n + Len(new) PROVE h[i] \in Tokens
    <3>1. i \in 1..Len(h)
      BY <1>2, <2>2
    <3> QED  BY <3>1
  <2> QED  BY <2>1, <2>2
<1> HIDE DEF m
<1>5. w \in Seq(Tokens) /\ Len(w) = m
  <2> HIDE DEF e
  <2> QED  BY <1>3, <1>4
<1>6. SubSeq(w, 1, n + Len(new)) = SubSeq(h, 1, n) \o new
  <2>1. SubSeq(h, 1, n) \in Seq(Tokens) /\ Len(SubSeq(h, 1, n)) = n
        /\ \A i \in 1..n : SubSeq(h, 1, n)[i] = h[i]
    <3>1. \A i \in 1..n : h[i] \in Tokens
      BY <1>2
    <3> QED  BY <3>1, SubSeqProperties
  <2>2. /\ SubSeq(w, 1, n + Len(new)) \in Seq(Tokens) /\ Len(SubSeq(w, 1, n + Len(new))) = n + Len(new)
        /\ \A i \in 1..n + Len(new) : SubSeq(w, 1, n + Len(new))[i] = w[i]
    <3>1. \A i \in 1..n + Len(new) : w[i] \in Tokens
      <4> HIDE DEF w
      <4> QED  BY <1>2, <1>3, <1>5
    <3>2. n + Len(new) \in Nat
      BY <1>2
    <3> HIDE DEF w
    <3> QED  BY <3>1, <3>2, SubSeqProperties
  <2>3. \A i \in 1..n + Len(new) : w[i] = IF i <= n THEN h[i] ELSE new[i - n]
    BY <1>2, <1>3
  <2>4. PICK a \in Seq(Tokens) : a = SubSeq(h, 1, n)
    BY <2>1
  <2>5. PICK b \in Seq(Tokens) : b = SubSeq(w, 1, n + Len(new))
    BY <2>2
  <2>6. b = a \o new
    <3> HIDE DEF w
    <3>1. /\ a \o new \in Seq(Tokens) /\ Len(a \o new) = n + Len(new)
          /\ \A i \in 1..n + Len(new) : (a \o new)[i] = IF i <= n THEN a[i] ELSE new[i - n]
      <4>1. Len(a) = n
        BY <2>1, <2>4
      <4> QED  BY <4>1, ConcatProperties
    <3>2. \A i \in 1..n + Len(new) : b[i] = (a \o new)[i]
      <4>1. ASSUME NEW i \in 1..n + Len(new), i <= n PROVE b[i] = (a \o new)[i]
        <5>1. i \in 1..n
          BY <4>1, <1>2
        <5> QED  BY <5>1, <4>1, <2>1, <2>2, <2>3, <2>4, <2>5, <3>1
      <4>2. ASSUME NEW i \in 1..n + Len(new), ~(i <= n) PROVE b[i] = (a \o new)[i]
        BY <4>2, <2>2, <2>3, <2>5, <3>1
      <4> QED  BY <4>1, <4>2
    <3> QED  BY <2>2, <2>5, <3>1, <3>2, SeqEqual
  <2> QED  BY <2>4, <2>5, <2>6
<1> HIDE DEF w
<1> QED  BY <1>1, <1>3, <1>5, <1>6

(* Up to where it was written it is what was kept and what is new.           *)
LEMMA WrittenFirst ==
  ASSUME NEW h \in Seq(Tokens), NEW n \in Nat, n <= Len(h), NEW new \in Seq(Tokens)
  PROVE  SubSeq(Written(h, n, new), 1, n + Len(new)) = SubSeq(h, 1, n) \o new
  BY WrittenOK

(* bitnet_eval fills the cache, or fails before or after it did.             *)
LEMMA EvaluatedOK ==
  ASSUME TypeOK, NEW kv \in Seq(Tokens), NEW new \in Seq(Tokens), NEW e \in Evaluated(kv, new)
  PROVE /\ e.ok \in BOOLEAN /\ e.kv \in Seq(Tokens) /\ e.kv \in {kv, kv \o new}
        /\ e.ok => e.kv = kv \o new
        /\ Len(kv) <= Capacity => Len(e.kv) <= Capacity
        /\ Len(kv) + Len(new) > Capacity => ~e.ok
        /\ e = [ok |-> e.ok, kv |-> e.kv]
<1>1. kv \o new \in Seq(Tokens) /\ Len(kv \o new) = Len(kv) + Len(new) /\ Len(kv) \in Nat /\ Len(new) \in Nat
  BY ConcatProperties
<1>2. Capacity \in Nat
  BY CapacityNat
<1>3. CASE Len(kv) + Len(new) > Capacity
  <2>1. e = [ok |-> FALSE, kv |-> kv]
    BY <1>3 DEF Evaluated
  <2> QED  BY <2>1
<1>4. CASE ~(Len(kv) + Len(new) > Capacity)
  <2>1. \/ e = [ok |-> TRUE, kv |-> kv \o new]
        \/ e \in [ok : {FALSE}, kv : {kv, kv \o new}]
    BY <1>4 DEF Evaluated
  <2>2. Len(kv \o new) <= Capacity
    BY <1>1, <1>2, <1>4
  <2>3. CASE e = [ok |-> TRUE, kv |-> kv \o new]
    BY <1>1, <1>4, <2>2, <2>3
  <2>4. CASE e \in [ok : {FALSE}, kv : {kv, kv \o new}]
    <3>1. PICK k \in {kv, kv \o new} : e = [ok |-> FALSE, kv |-> k]
      BY <2>4
    <3>2. e.ok = FALSE /\ e.kv = k
      BY <3>1
    <3> QED  BY <1>1, <2>2, <3>1, <3>2
  <2> QED  BY <2>1, <2>3, <2>4
<1> QED  BY <1>3, <1>4

-----------------------------------------------------------------------------
(* Requests                                                                  *)

(* The session and the text that a request starts from, and the reply it     *)
(* begins.                                                                   *)
Before(s, reset) == IF reset = "none" THEN session[s] ELSE ResetContext(s)
Known(s, reset) == IF style[s] = "full" /\ reset # "session" THEN conv[s] ELSE <<>>
Prompt(s, reset, thinking) == Known(s, reset) \o Turn(thinking)
Began(s, reset, max, stream, thinking, after) ==
  [session |-> s, count |-> after.count, max |-> max, emitted |-> 0,
   decoded |-> NothingDecoded, status |-> "going", stream |-> stream, polls |-> stream,
   cached |-> Before(s, reset).count,
   reused |-> Reused(Before(s, reset), Prompt(s, reset, thinking)),
   prompt |-> Len(PromptTokens(Before(s, reset), Prompt(s, reset, thinking))),
   asked |-> Append(Known(s, reset), "turn"), thinking |-> thinking]

Resets == {"none", "context", "session"}

Declined(s, reset, max, thinking) ==
  /\ session' = [session EXCEPT ![s] = Before(s, reset)]
  /\ disturbed' = Settled(s, reset)
  /\ UNCHANGED stack
Accepted(s, reset, max, stream, thinking, p) ==
  /\ session' = [session EXCEPT ![s] = p.session]
  /\ stack' = IF p.ok THEN Append(stack, Began(s, reset, max, stream, thinking, p.session)) ELSE stack
  /\ disturbed' = Settled(s, reset)
       \cup (IF Busy(s) \/ ~p.ok \/ Misread(Before(s, reset), Prompt(s, reset, thinking)) THEN {s} ELSE {})

(* A request is declined, or a prefill is tried.                             *)
LEMMA RequestCases ==
  ASSUME NEW s, NEW reset, NEW max, NEW stream, NEW thinking,
         Request(s, reset, max, stream, thinking)
  PROVE /\ MayAsk(s) /\ UNCHANGED <<setting, style, conv>>
        /\ \/ Declined(s, reset, max, thinking)
           \/ /\ Admissible(Before(s, reset), Prompt(s, reset, thinking), max)
              /\ \E p \in Prefilled(Before(s, reset), Prompt(s, reset, thinking)) :
                   Accepted(s, reset, max, stream, thinking, p)
  BY DEF Request, Declined, Accepted, Began, Before, Prompt, Known

(* The session as the request finds it, or as it resets it.                  *)
LEMMA BeforeOK ==
  ASSUME TypeOK, Bounded, NEW s \in Sessions, NEW reset \in Resets
  PROVE /\ Before(s, reset) \in Conversation /\ Sound(Before(s, reset))
        /\ Busy(s) => Len(Before(s, reset).tokens) = Len(session[s].tokens)
        /\ reset # "none" => Before(s, reset).kv = <<>> /\ Before(s, reset).count = 0 /\ Before(s, reset).transcript = <<>>
<1>1. session[s] \in Conversation /\ Sound(session[s])
  BY DEF TypeOK, Bounded
<1>2. Capacity \in Nat
  BY CapacityNat
<1>3. CASE reset = "none"
  BY <1>1, <1>3 DEF Before
<1>4. CASE reset # "none"
  <2>1. Before(s, reset) = [kv |-> <<>>, tokens |-> IF Busy(s) THEN session[s].tokens ELSE <<>>,
                            count |-> 0, transcript |-> <<>>]
    BY <1>4 DEF Before, ResetContext, Blank
  <2>2. <<>> \in Seq(Tokens) /\ <<>> \in Seq(Pieces) /\ Len(<<>>) = 0
    OBVIOUS
  <2>3. PICK t \in Seq(Tokens) : t = (IF Busy(s) THEN session[s].tokens ELSE <<>>) /\ Len(t) <= Capacity
                                 /\ (Busy(s) => t = session[s].tokens)
    <3>1. session[s].tokens \in Seq(Tokens) /\ Len(session[s].tokens) <= Capacity
      BY <1>1 DEF Conversation, Sound
    <3>2. Len(<<>>) <= Capacity
      BY <1>2, <2>2
    <3> QED  BY <2>2, <3>1, <3>2
  <2>4. Before(s, reset) = [kv |-> <<>>, tokens |-> t, count |-> 0, transcript |-> <<>>]
    BY <2>1, <2>3
  <2> QED  BY <1>2, <2>2, <2>3, <2>4 DEF Conversation, Sound
<1> QED  BY <1>3, <1>4

(* A prompt has text.                                                        *)
LEMMA PromptOK ==
  ASSUME TypeOK, NEW s \in Sessions, NEW reset, NEW thinking
  PROVE /\ Prompt(s, reset, thinking) \in Seq(Pieces) /\ Prompt(s, reset, thinking) # <<>>
        /\ Known(s, reset) \in Seq(Pieces) /\ Append(Known(s, reset), "turn") \in Seq(Pieces)
        /\ Turn(thinking) \in Seq(Pieces) /\ Len(Turn(thinking)) \in {1, 2}
<1>1. Known(s, reset) \in Seq(Pieces)
  <2>1. conv[s] \in Seq(Pieces) /\ <<>> \in Seq(Pieces)
    BY DEF TypeOK
  <2> QED  BY <2>1 DEF Known
<1>2. "turn" \in Pieces /\ "noThink" \in Pieces
  BY DEF Pieces
<1>3. Turn(thinking) \in Seq(Pieces) /\ Len(Turn(thinking)) \in {1, 2}
  BY <1>2 DEF Turn
<1>4. Prompt(s, reset, thinking) \in Seq(Pieces) /\ Prompt(s, reset, thinking) # <<>>
  <2>1. PICK k \in Seq(Pieces) : k = Known(s, reset)
    BY <1>1
  <2>2. PICK t \in Seq(Pieces) : t = Turn(thinking) /\ Len(t) \in {1, 2}
    BY <1>3
  <2>3. Len(k \o t) = Len(k) + Len(t) /\ k \o t \in Seq(Pieces)
    OBVIOUS
  <2>4. k \o t # <<>>
    <3>1. t # <<>>
      <4>1. SUFFICES ASSUME t = <<>> PROVE FALSE
        OBVIOUS
      <4>2. Len(t) = 0
        BY <4>1
      <4>3. Len(t) = 1 \/ Len(t) = 2
        BY <2>2
      <4> QED  BY <4>2, <4>3
    <3> QED  BY <3>1, ConcatEqualIffEmpty
  <2> QED  BY <2>1, <2>2, <2>3, <2>4 DEF Prompt
<1> QED  BY <1>1, <1>2, <1>3, <1>4

(* What a suffix of a sequence is.                                           *)
LEMMA Suffix ==
  ASSUME NEW T, NEW q \in Seq(T), NEW n \in Nat
  PROVE SubSeq(q, n + 1, Len(q)) \in Seq(T)
<1>1. \A i \in n + 1 .. Len(q) : q[i] \in T
  OBVIOUS
<1> QED  BY <1>1, SubSeqProperties

(* Its new tokens are tokens.                                                *)
LEMMA PromptTokensOK ==
  ASSUME NEW c \in Conversation, NEW text \in Seq(Pieces)
  PROVE PromptTokens(c, text) \in Seq(Tokens)
<1>0. c.count \in Nat /\ Len(c.transcript) \in Nat
  BY DEF Conversation
<1>1. SubSeq(text, Len(c.transcript) + 1, Len(text)) \in Seq(Pieces)
  BY <1>0, Suffix
<1>2. \A q \in Seq(Pieces) : \A b : b \in BOOLEAN => Tokenize(q, b) \in Seq(Tokens)
  <2>1. ASSUME NEW q \in Seq(Pieces) PROVE Tokenize(q, TRUE) \in Seq(Tokens) /\ Tokenize(q, FALSE) \in Seq(Tokens)
    <3>1. Coded(q) \in Seq(Tokens) /\ <<"bos">> \in Seq(Tokens)
      BY CodedType DEF Tokens
    <3>2. <<"bos">> \o Coded(q) \in Seq(Tokens)
      BY <3>1, ConcatProperties
    <3> QED  BY <3>1, <3>2, TokenizeIsCoded
  <2> QED  BY <2>1
<1>3. Tokenize(text, TRUE) \in Seq(Tokens) /\ Tokenize(text, c.count = 0) \in Seq(Tokens)
  BY <1>2
<1>4. SubSeq(Tokenize(text, TRUE), c.count + 1, Len(Tokenize(text, TRUE))) \in Seq(Tokens)
  BY <1>0, <1>3, Suffix
<1> QED  BY <1>1, <1>2, <1>3, <1>4 DEF PromptTokens

(* The three outcomes of Prefilled.                                          *)
Unfilled(c, text, p) ==
  /\ PromptTokens(c, text) = <<>> /\ p.ok = TRUE /\ p.session = [c EXCEPT !.transcript = text]
Filled(c, text, p) ==
  /\ PromptTokens(c, text) # <<>> /\ p.ok = TRUE
  /\ Len(c.kv) + Len(PromptTokens(c, text)) <= Capacity
  /\ p.session = [kv |-> c.kv \o PromptTokens(c, text),
                  tokens |-> Written(c.tokens, c.count, PromptTokens(c, text)),
                  count |-> c.count + Len(PromptTokens(c, text)), transcript |-> Transcribed(c, text)]
Broken(c, text, p) ==
  /\ p.ok = FALSE
  /\ \E k \in Seq(Tokens) : Len(k) <= Capacity /\ p.session = [c EXCEPT !.kv = k]

(* What prefilling leaves: nothing to do, done, or failed.                   *)
LEMMA PrefillCases ==
  ASSUME TypeOK, NEW c \in Conversation, Sound(c), NEW text \in Seq(Pieces), NEW p \in Prefilled(c, text)
  PROVE Unfilled(c, text, p) \/ Filled(c, text, p) \/ Broken(c, text, p)
<1> DEFINE new == PromptTokens(c, text)
<1>1. CASE new = <<>>
  <2>1. p = [ok |-> TRUE, session |-> [c EXCEPT !.transcript = text]]
    BY <1>1 DEF Prefilled
  <2> QED  BY <1>1, <2>1 DEF Unfilled
<1>2. CASE new # <<>>
  <2> DEFINE F(e) ==
        IF e.ok
        THEN [ok |-> TRUE, session |-> [kv |-> e.kv,
                tokens |-> Written(c.tokens, c.count, new),
                count |-> c.count + Len(new), transcript |-> Transcribed(c, text)]]
        ELSE [ok |-> FALSE, session |-> [c EXCEPT !.kv = e.kv]]
  <2>1. PICK e \in Evaluated(c.kv, new) : p = F(e)
    BY <1>2 DEF Prefilled
  <2>2. c.kv \in Seq(Tokens) /\ new \in Seq(Tokens) /\ Len(c.kv) <= Capacity
    BY PromptTokensOK DEF Conversation, Sound
  <2>3. /\ e.ok \in BOOLEAN /\ e.kv \in Seq(Tokens)
        /\ e.ok => e.kv = c.kv \o new /\ ~(Len(c.kv) + Len(new) > Capacity)
        /\ Len(e.kv) <= Capacity
    <3> HIDE DEF new
    <3> QED  BY <2>2, EvaluatedOK
  <2>4. CASE e.ok
    <3>1. Len(c.kv) + Len(new) <= Capacity
      <4>1. Len(c.kv) \in Nat /\ Len(new) \in Nat /\ Capacity \in Nat
        BY <2>2, CapacityNat
      <4> QED  BY <2>3, <2>4, <4>1
    <3>2. p = [ok |-> TRUE, session |-> [kv |-> c.kv \o new,
                tokens |-> Written(c.tokens, c.count, new),
                count |-> c.count + Len(new), transcript |-> Transcribed(c, text)]]
      BY <2>1, <2>3, <2>4
    <3> QED  BY <1>2, <3>1, <3>2 DEF Filled
  <2>5. CASE ~e.ok
    <3>1. p = [ok |-> FALSE, session |-> [c EXCEPT !.kv = e.kv]]
      BY <2>1, <2>5
    <3> QED  BY <2>3, <3>1 DEF Broken
  <2> QED  BY <2>4, <2>5
<1> QED  BY <1>1, <1>2

(* It stays within the context.                                              *)
LEMMA PrefilledOK ==
  ASSUME TypeOK, NEW c \in Conversation, Sound(c), NEW text \in Seq(Pieces), NEW p \in Prefilled(c, text),
         NEW max \in Nat, Admissible(c, text, max)
  PROVE /\ p.ok \in BOOLEAN /\ p.session \in Conversation /\ Sound(p.session)
        /\ Len(p.session.tokens) >= Len(c.tokens)
<1>1. /\ Capacity \in Nat /\ c.count \in Nat /\ c.tokens \in Seq(Tokens) /\ c.kv \in Seq(Tokens)
      /\ Len(c.tokens) \in Nat /\ c.transcript \in Seq(Pieces)
  BY CapacityNat DEF Conversation
<1>2. PromptTokens(c, text) \in Seq(Tokens)
  BY PromptTokensOK
<1>3. CASE Unfilled(c, text, p)
  <2>1. p.ok = TRUE /\ p.session = [kv |-> c.kv, tokens |-> c.tokens, count |-> c.count, transcript |-> text]
    BY <1>3 DEF Unfilled, Conversation
  <2>2. p.session \in Conversation
    BY <1>1, <2>1 DEF Conversation
  <2>3. p.session.tokens = c.tokens /\ p.session.kv = c.kv /\ p.session.count = c.count
    BY <2>1
  <2>4. Sound(p.session)
    BY <2>3 DEF Sound
  <2>5. Len(p.session.tokens) >= Len(c.tokens)
    BY <1>1, <2>3
  <2> QED  BY <2>1, <2>2, <2>4, <2>5
<1>4. CASE Filled(c, text, p)
  <2> DEFINE new == PromptTokens(c, text)
             w == Written(c.tokens, c.count, new)
  <2>1. Len(new) \in Nat /\ c.count + Len(new) + max + 1 <= Capacity
    BY <1>2, <1>4 DEF Admissible, Filled
  <2>2. c.kv \o new \in Seq(Tokens) /\ Len(c.kv \o new) = Len(c.kv) + Len(new)
    BY <1>1, <1>2, ConcatProperties
  <2>3. /\ w \in Seq(Tokens) /\ Len(w) >= Len(c.tokens) /\ Len(w) >= c.count + Len(new)
        /\ Len(w) = Len(c.tokens) \/ Len(w) = c.count + Len(new)
    BY <1>1, <1>2, WrittenOK DEF Sound
  <2>4. Transcribed(c, text) \in Seq(Pieces)
    <3>1. c.transcript \o text \in Seq(Pieces)
      BY <1>1, ConcatProperties
    <3> QED  BY <3>1 DEF Transcribed
  <2>5. p.ok = TRUE /\ Len(c.kv) + Len(new) <= Capacity
        /\ p.session = [kv |-> c.kv \o new, tokens |-> w, count |-> c.count + Len(new),
                     transcript |-> Transcribed(c, text)]
    BY <1>4 DEF Filled
  <2> HIDE DEF new, w
  <2>6. Len(w) <= Capacity
    BY <1>1, <2>1, <2>3 DEF Sound
  <2>7. p.session \in Conversation
    BY <1>1, <2>1, <2>2, <2>3, <2>4, <2>5 DEF Conversation
  <2>8. Sound(p.session)
    BY <1>1, <2>1, <2>2, <2>3, <2>5, <2>6 DEF Sound
  <2>9. p.session.tokens = w
    BY <2>5
  <2> QED  BY <2>3, <2>5, <2>7, <2>8, <2>9
<1>5. CASE Broken(c, text, p)
  <2>1. PICK k \in Seq(Tokens) : p.ok = FALSE /\ Len(k) <= Capacity /\ p.session = [c EXCEPT !.kv = k]
    BY <1>5 DEF Broken
  <2>2. p.session = [kv |-> k, tokens |-> c.tokens, count |-> c.count, transcript |-> c.transcript]
    BY <2>1 DEF Conversation
  <2>3. p.session \in Conversation
    BY <1>1, <2>2 DEF Conversation
  <2>4. p.session.tokens = c.tokens /\ p.session.kv = k /\ p.session.count = c.count
    BY <2>2
  <2>5. Sound(p.session)
    BY <2>1, <2>4 DEF Sound
  <2>6. Len(p.session.tokens) >= Len(c.tokens)
    BY <1>1, <2>4
  <2> QED  BY <2>1, <2>3, <2>5, <2>6
<1> QED  BY <1>3, <1>4, <1>5, PrefillCases

(* The innermost reply.                                                      *)
LEMMA Innermost ==
  ASSUME TypeOK, stack # <<>>
  PROVE /\ Len(stack) \in Nat \ {0} /\ Len(stack) \in DOMAIN stack /\ DOMAIN stack = 1..Len(stack)
        /\ Last(stack) = stack[Len(stack)] /\ Last(stack) \in Replying
        /\ Front(stack) \in Seq(Replying) /\ Len(Front(stack)) = Len(stack) - 1
        /\ \A i \in 1..Len(stack) - 1 : Front(stack)[i] = stack[i]
<1>1. stack \in Seq(Replying) /\ Len(stack) \in Nat \ {0} /\ DOMAIN stack = 1..Len(stack)
  BY EmptySeq DEF TypeOK
<1>2. Len(stack) \in DOMAIN stack
  BY <1>1
<1>3. \A i \in 1..Len(stack) - 1 : stack[i] \in Replying
  BY <1>1
<1>4. /\ Front(stack) \in Seq(Replying) /\ Len(Front(stack)) = Len(stack) - 1
      /\ \A i \in 1..Len(stack) - 1 : Front(stack)[i] = stack[i]
  <2>0. Len(stack) - 1 \in Nat
    BY <1>1
  <2>1. PICK n \in Nat : n = Len(stack) - 1
    BY <2>0
  <2>2. /\ SubSeq(stack, 1, n) \in Seq(Replying)
        /\ Len(SubSeq(stack, 1, n)) = IF 1 <= n THEN n-1+1 ELSE 0
        /\ \A i \in 1 .. n-1+1 : SubSeq(stack, 1, n)[i] = stack[1+i-1]
    BY <1>3, <2>1, SubSeqProperties
  <2> QED  BY <2>1, <2>2 DEF Front
<1> QED  BY <1>1, <1>2, <1>4 DEF Last

(* Replacing the innermost reply.                                            *)
LEMMA Becomes ==
  ASSUME TypeOK, stack # <<>>, NEW g \in Replying, Become(g)
  PROVE /\ stack' \in Seq(Replying) /\ Len(stack') = Len(stack) /\ DOMAIN stack' = DOMAIN stack
        /\ stack'[Len(stack)] = g
        /\ \A i \in DOMAIN stack : i # Len(stack) => stack'[i] = stack[i]
<1>1. PICK f \in Seq(Replying) : f = Front(stack)
  BY Innermost
<1>2. stack' = Append(f, g)
  BY <1>1 DEF Become
<1>3. /\ Append(f, g) \in Seq(Replying) /\ Len(Append(f, g)) = Len(f) + 1
      /\ Append(f, g)[Len(f) + 1] = g /\ \A i \in 1..Len(f) : Append(f, g)[i] = f[i]
  BY AppendProperties
<1>4. Len(f) = Len(stack) - 1 /\ Len(stack) \in Nat \ {0} /\ DOMAIN stack = 1..Len(stack)
      /\ \A i \in 1..Len(stack) - 1 : f[i] = stack[i]
  BY <1>1, Innermost
<1>5. Len(stack') = Len(stack) /\ stack' \in Seq(Replying)
  BY <1>2, <1>3, <1>4
<1>6. DOMAIN stack' = 1..Len(stack)
  BY <1>5
<1>7. stack'[Len(stack)] = g
  BY <1>2, <1>3, <1>4
<1>8. ASSUME NEW i \in 1..Len(stack), i # Len(stack) PROVE stack'[i] = stack[i]
  <2>1. i \in 1..Len(f) /\ i \in 1..Len(stack) - 1
    BY <1>4, <1>8
  <2> QED  BY <1>2, <1>3, <1>4, <2>1
<1> QED  BY <1>4, <1>5, <1>6, <1>7, <1>8

(* One session changes, and at most one reply: the rest stays in bounds.     *)
LEMMA SessionUpdate ==
  ASSUME TypeOK, Bounded, NEW s \in Sessions, NEW c \in Conversation, Sound(c),
         session' = [session EXCEPT ![s] = c], setting' = setting,
         stack' \in Seq(Replying),
         \A i \in DOMAIN stack' :
            \/ /\ i \in DOMAIN stack /\ stack'[i].session = stack[i].session
               /\ stack'[i].count = stack[i].count
               /\ stack[i].session = s => Len(session[s].tokens) <= Len(c.tokens)
            \/ stack'[i].session = s /\ stack'[i].count <= Len(c.tokens)
  PROVE session' \in [Sessions -> Conversation] /\ Bounded'
<1>1. session' \in [Sessions -> Conversation] /\ session'[s] = c
      /\ \A r \in Sessions : r # s => session'[r] = session[r]
  BY DEF TypeOK
<1>2. (\A r \in Sessions : Sound(session[r]))'
  BY <1>1 DEF Bounded, Sound, Capacity
<1>3. ASSUME NEW i \in DOMAIN stack' PROVE stack'[i].count <= Len(session'[stack'[i].session].tokens)
  <2>1. CASE stack'[i].session = s /\ stack'[i].count <= Len(c.tokens)
    BY <1>1, <2>1
  <2>2. CASE /\ i \in DOMAIN stack /\ stack'[i].session = stack[i].session
             /\ stack'[i].count = stack[i].count
             /\ stack[i].session = s => Len(session[s].tokens) <= Len(c.tokens)
    <3>1. stack[i] \in Replying /\ stack[i].session \in Sessions /\ stack[i].count \in Nat
      <4>1. stack[i] \in Replying
        BY <2>2 DEF TypeOK
      <4> QED  BY <4>1 DEF Replying
    <3>2. stack[i].count <= Len(session[stack[i].session].tokens)
      BY <2>2 DEF Bounded
    <3>3. CASE stack[i].session # s
      BY <1>1, <2>2, <3>1, <3>2, <3>3
    <3>4. CASE stack[i].session = s
      <4>1. Len(session[s].tokens) \in Nat /\ Len(c.tokens) \in Nat
        BY DEF TypeOK, Conversation
      <4>2. PICK a \in Nat, b \in Nat, d \in Nat :
              a = stack[i].count /\ b = Len(session[s].tokens) /\ d = Len(c.tokens)
        BY <3>1, <4>1
      <4>3. a <= b /\ b <= d
        BY <2>2, <3>2, <3>4, <4>2
      <4>4. a <= d
        BY <4>3
      <4> QED  BY <1>1, <2>2, <3>4, <4>2, <4>4
    <3> QED  BY <3>3, <3>4
  <2> QED  BY <2>1, <2>2
<1> QED  BY <1>1, <1>2, <1>3 DEF Bounded

(* A request keeps the bounds.                                               *)
LEMMA RequestBounded ==
  ASSUME TypeOK, Bounded, NEW s \in Sessions, NEW reset \in Resets, NEW max \in 1..MaxNew,
         NEW stream \in BOOLEAN, NEW thinking \in Thinking, Request(s, reset, max, stream, thinking)
  PROVE TypeOK' /\ Bounded'
<1> DEFINE b == Before(s, reset)
           text == Prompt(s, reset, thinking)
<1>1. b \in Conversation /\ Sound(b) /\ (Busy(s) => Len(b.tokens) = Len(session[s].tokens))
  BY BeforeOK
<1>2. text \in Seq(Pieces) /\ Append(Known(s, reset), "turn") \in Seq(Pieces)
  BY PromptOK
<1>3. disturbed \in SUBSET Sessions /\ Settled(s, reset) \in SUBSET Sessions
  BY DEF TypeOK, Settled
<1>4. UNCHANGED <<setting, style, conv>>
  BY RequestCases
<1>5. stack \in Seq(Replying)
  BY DEF TypeOK
<1>6. ASSUME NEW i \in DOMAIN stack, stack[i].session = s PROVE Busy(s)
  BY <1>6 DEF Busy
<1> HIDE DEF b, text
<1>7. CASE Declined(s, reset, max, thinking)
  <2>1. session' = [session EXCEPT ![s] = b] /\ disturbed' \in SUBSET Sessions /\ stack' = stack
    BY <1>3, <1>7 DEF Declined, b
  <2>2. \A i \in DOMAIN stack' :
               /\ i \in DOMAIN stack /\ stack'[i].session = stack[i].session
               /\ stack'[i].count = stack[i].count
               /\ stack[i].session = s => Len(session[s].tokens) <= Len(b.tokens)
    <3>1. Len(b.tokens) \in Nat
      BY <1>1 DEF Conversation
    <3> QED  BY <1>1, <1>6, <2>1, <3>1
  <2>3. session' \in [Sessions -> Conversation] /\ Bounded'
    BY <1>1, <1>4, <1>5, <2>1, <2>2, SessionUpdate
  <2> QED  BY <1>4, <2>1, <2>3 DEF TypeOK
<1>8. CASE /\ Admissible(b, text, max)
           /\ \E p \in Prefilled(b, text) : Accepted(s, reset, max, stream, thinking, p)
  <2>1. PICK p \in Prefilled(b, text) : Accepted(s, reset, max, stream, thinking, p)
    BY <1>8
  <2>2. /\ p.ok \in BOOLEAN /\ p.session \in Conversation /\ Sound(p.session)
        /\ Len(p.session.tokens) >= Len(b.tokens)
    BY <1>1, <1>2, <1>8, PrefilledOK
  <2>3. session' = [session EXCEPT ![s] = p.session] /\ disturbed' \in SUBSET Sessions
    BY <1>3, <2>1 DEF Accepted
  <2> DEFINE g == Began(s, reset, max, stream, thinking, p.session)
  <2>4. g \in Replying /\ g.session = s /\ g.count <= Len(p.session.tokens)
    <3>1. b.count \in Nat /\ p.session.count \in Nat /\ p.session.count <= Len(p.session.tokens)
      BY <1>1, <2>2 DEF Conversation, Sound
    <3>2. Reused(b, text) \in Nat
      BY <3>1 DEF Reused
    <3>3. Len(PromptTokens(b, text)) \in Nat
      BY <1>1, <1>2, PromptTokensOK
    <3>4. NothingDecoded \in Decoding
      <4>1. <<>> \in Seq(Pieces)
        OBVIOUS
      <4> QED  BY <4>1 DEF NothingDecoded, Decoding
    <3>5. g = [session |-> s, count |-> p.session.count, max |-> max, emitted |-> 0,
               decoded |-> NothingDecoded, status |-> "going", stream |-> stream, polls |-> stream,
               cached |-> b.count, reused |-> Reused(b, text), prompt |-> Len(PromptTokens(b, text)),
               asked |-> Append(Known(s, reset), "turn"), thinking |-> thinking]
      BY DEF Began, b, text
    <3> HIDE DEF g
    <3> QED  BY <1>2, <3>1, <3>2, <3>3, <3>4, <3>5 DEF Replying
  <2>5. stack' = IF p.ok THEN Append(stack, g) ELSE stack
    BY <2>1 DEF Accepted
  <2> HIDE DEF g
  <2>6. /\ stack' \in Seq(Replying)
        /\ \A i \in DOMAIN stack' :
              \/ i \in DOMAIN stack /\ stack'[i] = stack[i]
              \/ stack'[i] = g
    BY <1>5, <2>4, <2>5
  <2>7. \A i \in DOMAIN stack' :
            \/ /\ i \in DOMAIN stack /\ stack'[i].session = stack[i].session
               /\ stack'[i].count = stack[i].count
               /\ stack[i].session = s => Len(session[s].tokens) <= Len(p.session.tokens)
            \/ stack'[i].session = s /\ stack'[i].count <= Len(p.session.tokens)
    BY <1>1, <1>6, <2>2, <2>4, <2>6
  <2>8. session' \in [Sessions -> Conversation] /\ Bounded'
    BY <1>4, <2>2, <2>3, <2>6, <2>7, SessionUpdate
  <2> QED  BY <1>4, <2>3, <2>6, <2>8 DEF TypeOK
<1> QED  BY <1>7, <1>8, RequestCases DEF b, text

-----------------------------------------------------------------------------
(* Tokens of a reply                                                         *)

(* The innermost reply, the one that runs, and what one token makes of it.   *)
Inner == Last(stack)
NewText(token) == Decode(Inner.decoded, token)
Sent(token) == SubSeq(NewText(token).text, Len(Inner.decoded.text) + 1, Len(NewText(token).text))
Final == Inner.emitted + 1 = Inner.max
Spoken(token) ==
  [Inner EXCEPT !.count = @ + 1, !.emitted = @ + 1, !.decoded = NewText(token),
                !.status = IF Final THEN "done" ELSE "going",
                !.polls = Inner.stream /\ (Sent(token) # <<>> \/ Final)]
Recorded(token) == Written(session[Inner.session].tokens, Inner.count, <<token>>)

(* The three outcomes of Emit.                                               *)
AtCapacity ==
  Inner.count >= Capacity /\ Become(Failed(Inner)) /\ UNCHANGED <<session, disturbed>>
Speaks(token) ==
  LET s == Inner.session IN
  /\ ~(Inner.count >= Capacity) /\ Len(session[s].kv) + 1 <= Capacity
  /\ session' = [session EXCEPT ![s] =
       [kv |-> session[s].kv \o <<token>>, tokens |-> Recorded(token), count |-> Inner.count + 1,
        transcript |-> session[s].transcript \o Sent(token)]]
  /\ Become(Spoken(token)) /\ disturbed' = disturbed
Stumbles(token) ==
  LET s == Inner.session IN
  /\ ~(Inner.count >= Capacity)
  /\ \E k \in Seq(Tokens) : Len(k) <= Capacity /\
       session' = [session EXCEPT ![s] =
       [kv |-> k, tokens |-> Recorded(token), count |-> Inner.count + 1,
        transcript |-> session[s].transcript]]
  /\ Become(Failed([Inner EXCEPT !.count = @ + 1])) /\ disturbed' = disturbed \cup {s}

(* One token appends to the text, and what is sent is what was appended.     *)
LEMMA DecodeOK ==
  ASSUME NEW d \in Decoding, NEW token \in Tokens \ {"bos"}
  PROVE /\ Decode(d, token) \in Decoding
        /\ \E q \in Seq(Pieces) : /\ Decode(d, token).text = d.text \o q
                                  /\ SubSeq(Decode(d, token).text, Len(d.text) + 1, Len(Decode(d, token).text)) = q
<1>1. "accent" \in Pieces /\ (token # "lead" /\ token # "cont" => token \in Pieces)
  BY DEF Pieces, Tokens
<1>2. PICK t \in Seq(Pieces) : t = d.text
  BY DEF Decoding
<1>3. CASE token = "lead" \/ (token = "cont" /\ ~d.pending)
  <2>1. Decode(d, token) = [text |-> t, pending |-> token = "lead"]
    BY <1>2, <1>3 DEF Decode
  <2>2. <<>> \in Seq(Pieces) /\ t \o <<>> = t
    OBVIOUS
  <2>3. SubSeq(t, Len(t) + 1, Len(t)) = <<>>
    BY SubSeqEmpty
  <2>4. Decode(d, token) \in Decoding
    BY <2>1 DEF Decoding
  <2>5. Decode(d, token).text = t
    BY <2>1
  <2> QED  BY <1>2, <2>2, <2>3, <2>4, <2>5
<1>4. CASE ~(token = "lead" \/ (token = "cont" /\ ~d.pending))
  <2>1. PICK p \in Pieces : p = IF token = "cont" THEN "accent" ELSE token
    BY <1>1, <1>4
  <2>2. Decode(d, token) = [text |-> Append(t, p), pending |-> token = "lead"]
    BY <1>2, <1>4, <2>1 DEF Decode
  <2>3. Append(t, p) = t \o <<p>> /\ <<p>> \in Seq(Pieces) /\ Append(t, p) \in Seq(Pieces)
        /\ Len(Append(t, p)) = Len(t) + 1 /\ Append(t, p)[Len(t) + 1] = p
    OBVIOUS
  <2>4. SubSeq(Append(t, p), Len(t) + 1, Len(t) + 1) = <<p>>
    <3>0. Len(t) + 1 \in Nat
      OBVIOUS
    <3>1. PICK r \in Seq(Pieces), n \in Nat : r = Append(t, p) /\ n = Len(t) + 1 /\ r[n] = p
      BY <2>3, <3>0
    <3>2. \A i \in n..n : r[i] \in Pieces
      BY <3>1
    <3>3. /\ SubSeq(r, n, n) \in Seq(Pieces) /\ Len(SubSeq(r, n, n)) = 1
          /\ \A i \in 1..1 : SubSeq(r, n, n)[i] = r[n + i - 1]
      <4>1. n \in Int /\ n <= n /\ n - n + 1 = 1
        OBVIOUS
      <4> QED  BY <3>2, <4>1, SubSeqProperties
    <3>4. <<p>> \in Seq(Pieces) /\ Len(<<p>>) = 1 /\ <<p>>[1] = p
      OBVIOUS
    <3>5. SubSeq(r, n, n)[1] = p
      BY <3>1, <3>3
    <3>6. SubSeq(r, n, n) = <<p>>
      <4>1. PICK x \in Seq(Pieces) : x = SubSeq(r, n, n) /\ Len(x) = 1 /\ x[1] = p
        BY <3>3, <3>5
      <4>2. x = <<p>>
        <5>1. PICK y \in Seq(Pieces) : y = <<p>> /\ Len(y) = 1 /\ y[1] = p
          BY <3>4
        <5>2. \A i \in 1..Len(x) : x[i] = y[i]
          BY <4>1, <5>1
        <5> QED  BY <4>1, <5>1, <5>2, SeqEqual
      <4> QED  BY <4>1, <4>2
    <3> QED  BY <3>1, <3>6
  <2>5. Decode(d, token) \in Decoding
    BY <2>2, <2>3 DEF Decoding
  <2>6. Decode(d, token).text = Append(t, p) /\ Len(Append(t, p)) = Len(t) + 1
    BY <2>2, <2>3
  <2> QED  BY <1>2, <2>3, <2>4, <2>5, <2>6
<1> QED  BY <1>3, <1>4

(* A session in which a token is recorded.                                   *)
LEMMA Renoted ==
  ASSUME NEW c \in Conversation, NEW tokens, NEW count
  PROVE [c EXCEPT !.tokens = tokens, !.count = count] =
          [kv |-> c.kv, tokens |-> tokens, count |-> count, transcript |-> c.transcript]
<1>1. PICK c1 : c1 = [c EXCEPT !.tokens = tokens]
  OBVIOUS
<1>2. c1 = [kv |-> c.kv, tokens |-> tokens, count |-> c.count, transcript |-> c.transcript]
  BY <1>1 DEF Conversation
<1>3. [c1 EXCEPT !.count = count] =
        [kv |-> c.kv, tokens |-> tokens, count |-> count, transcript |-> c.transcript]
  BY <1>2
<1> QED  BY <1>1, <1>3

(* A token meets the end of the context, is taken, or its evaluation fails.  *)
LEMMA EmitCases ==
  ASSUME TypeOK, Bounded, NEW token \in Samples, Emit(token)
  PROVE /\ Going /\ UNCHANGED <<setting, style, conv>>
        /\ AtCapacity \/ Speaks(token) \/ Stumbles(token)
<1> DEFINE s == Inner.session
           noted == [session[s] EXCEPT !.tokens = Recorded(token), !.count = Inner.count + 1]
<1>1. Going /\ UNCHANGED <<setting, style, conv>>
  BY DEF Emit
<1>2. Inner \in Replying /\ s \in Sessions
  BY <1>1, Innermost DEF Going, Inner, Replying
<1>3. session[s] \in Conversation /\ session[s].kv \in Seq(Tokens) /\ Len(session[s].kv) <= Capacity
      /\ Len(session[s].kv) \in Nat
  BY <1>2 DEF TypeOK, Bounded, Sound, Conversation
<1>4. CASE Inner.count >= Capacity
  BY <1>4 DEF Emit, AtCapacity, Inner
<1>5. CASE ~(Inner.count >= Capacity)
  <2>1. PICK e \in Evaluated(noted.kv, <<token>>) :
            /\ session' = [session EXCEPT ![s] =
                 [noted EXCEPT !.kv = e.kv, !.transcript = IF e.ok THEN @ \o Sent(token) ELSE @]]
            /\ Become(IF ~e.ok THEN Failed([Inner EXCEPT !.count = @ + 1]) ELSE Spoken(token))
            /\ disturbed' = IF e.ok THEN disturbed ELSE disturbed \cup {s}
    BY <1>5 DEF Emit, Inner, NewText, Sent, Final, Spoken, Recorded
  <2>2. noted.kv = session[s].kv /\ noted.transcript = session[s].transcript
    BY <1>3 DEF Conversation
  <2>3. token \in Tokens /\ <<token>> \in Seq(Tokens) /\ Len(<<token>>) = 1
    OBVIOUS
  <2>5. /\ e.ok \in BOOLEAN /\ e.kv \in Seq(Tokens)
        /\ e.ok => e.kv = session[s].kv \o <<token>>
        /\ Len(e.kv) <= Capacity
        /\ Len(session[s].kv) + 1 > Capacity => ~e.ok
    <3> HIDE DEF noted
    <3>1. e \in Evaluated(session[s].kv, <<token>>)
      BY <2>1, <2>2
    <3>2. /\ e.ok \in BOOLEAN /\ e.kv \in Seq(Tokens)
          /\ e.ok => e.kv = session[s].kv \o <<token>>
          /\ Len(session[s].kv) <= Capacity => Len(e.kv) <= Capacity
          /\ Len(session[s].kv) + Len(<<token>>) > Capacity => ~e.ok
      BY <1>3, <2>3, <3>1, EvaluatedOK
    <3> QED  BY <1>3, <2>3, <3>2
  <2>8. noted = [session[s] EXCEPT !.tokens = Recorded(token), !.count = Inner.count + 1]
    OBVIOUS
  <2> HIDE DEF noted
  <2>6. CASE e.ok
    <3>1. Len(session[s].kv) + 1 <= Capacity
      BY <1>3, <2>5, <2>6, CapacityNat
    <3>2. session' = [session EXCEPT ![s] = [noted EXCEPT !.kv = e.kv,
                                         !.transcript = session[s].transcript \o Sent(token)]]
      BY <2>1, <2>2, <2>6
    <3>3. [noted EXCEPT !.kv = e.kv, !.transcript = session[s].transcript \o Sent(token)] =
            [kv |-> e.kv, tokens |-> Recorded(token), count |-> Inner.count + 1,
             transcript |-> session[s].transcript \o Sent(token)]
      <4>1. PICK c, w, n, k, x :
              c \in Conversation /\ c = session[s] /\ w = Recorded(token) /\ n = Inner.count + 1 /\ k = e.kv /\ x = session[s].transcript \o Sent(token)
        BY <1>3
      <4>2. noted = [kv |-> c.kv, tokens |-> w, count |-> n, transcript |-> c.transcript]
        BY <2>8, <4>1, Renoted
      <4>3. PICK c1 : c1 = [noted EXCEPT !.kv = k]
        OBVIOUS
      <4>4. c1 = [kv |-> k, tokens |-> w, count |-> n, transcript |-> c.transcript]
        BY <4>2, <4>3
      <4>5. [c1 EXCEPT !.transcript = x] = [kv |-> k, tokens |-> w, count |-> n, transcript |-> x]
        BY <4>4
      <4>6. [noted EXCEPT !.kv = k, !.transcript = x] = [kv |-> k, tokens |-> w, count |-> n, transcript |-> x]
        BY <4>3, <4>5
      <4> QED  BY <4>1, <4>6
    <3>4. session' = [session EXCEPT ![s] =
            [kv |-> session[s].kv \o <<token>>, tokens |-> Recorded(token), count |-> Inner.count + 1,
             transcript |-> session[s].transcript \o Sent(token)]]
      BY <2>5, <2>6, <3>2, <3>3
    <3>5. Become(Spoken(token)) /\ disturbed' = disturbed
      BY <2>1, <2>6
    <3>6. Speaks(token)
      BY <1>5, <3>1, <3>4, <3>5 DEF Speaks
    <3> QED  BY <1>1, <3>6
  <2>7. CASE ~e.ok
    <3>1. session' = [session EXCEPT ![s] = [noted EXCEPT !.kv = e.kv,
                                         !.transcript = session[s].transcript]]
      BY <2>1, <2>2, <2>7
    <3>2. [noted EXCEPT !.kv = e.kv, !.transcript = session[s].transcript] =
            [kv |-> e.kv, tokens |-> Recorded(token), count |-> Inner.count + 1,
             transcript |-> session[s].transcript]
      <4>1. PICK c, w, n, k, x :
              c \in Conversation /\ c = session[s] /\ w = Recorded(token) /\ n = Inner.count + 1 /\ k = e.kv /\ x = session[s].transcript
        BY <1>3
      <4>2. noted = [kv |-> c.kv, tokens |-> w, count |-> n, transcript |-> c.transcript]
        BY <2>8, <4>1, Renoted
      <4>3. PICK c1 : c1 = [noted EXCEPT !.kv = k]
        OBVIOUS
      <4>4. c1 = [kv |-> k, tokens |-> w, count |-> n, transcript |-> c.transcript]
        BY <4>2, <4>3
      <4>5. [c1 EXCEPT !.transcript = x] = [kv |-> k, tokens |-> w, count |-> n, transcript |-> x]
        BY <4>4
      <4>6. [noted EXCEPT !.kv = k, !.transcript = x] = [kv |-> k, tokens |-> w, count |-> n, transcript |-> x]
        BY <4>3, <4>5
      <4> QED  BY <4>1, <4>6
    <3>3. session' = [session EXCEPT ![s] =
            [kv |-> e.kv, tokens |-> Recorded(token), count |-> Inner.count + 1,
             transcript |-> session[s].transcript]]
      BY <3>1, <3>2
    <3>4. Become(Failed([Inner EXCEPT !.count = @ + 1])) /\ disturbed' = disturbed \cup {s}
      BY <2>1, <2>7
    <3>5. Stumbles(token)
      BY <1>5, <2>5, <3>3, <3>4 DEF Stumbles
    <3> QED  BY <1>1, <3>5
  <2> QED  BY <2>6, <2>7
<1> QED  BY <1>1, <1>4, <1>5

(* The innermost reply and its session.                                      *)
LEMMA InnerOK ==
  ASSUME TypeOK, Bounded, stack # <<>>
  PROVE /\ Inner \in Replying /\ Inner.session \in Sessions /\ Inner.count \in Nat
        /\ Inner.decoded \in Decoding /\ Inner.max \in 1..MaxNew /\ Inner.emitted \in Nat
        /\ Inner.stream \in BOOLEAN
        /\ session[Inner.session] \in Conversation /\ Sound(session[Inner.session])
        /\ Inner.count <= Len(session[Inner.session].tokens)
        /\ Inner = stack[Len(stack)]
<1>1. Inner \in Replying /\ Len(stack) \in DOMAIN stack /\ Inner = stack[Len(stack)]
  BY Innermost DEF Inner
<1>2. Inner.count <= Len(session[Inner.session].tokens)
  BY <1>1 DEF Bounded
<1>3. Inner.session \in Sessions
  BY <1>1 DEF Replying
<1>4. session[Inner.session] \in Conversation /\ Sound(session[Inner.session])
  BY <1>3 DEF TypeOK, Bounded
<1> QED  BY <1>1, <1>2, <1>3, <1>4 DEF Replying

(* Replacing the innermost reply of a session leaves the frames below.       *)
LEMMA InnerUpdate ==
  ASSUME TypeOK, Bounded, stack # <<>>, NEW c \in Conversation, Sound(c),
         session' = [session EXCEPT ![Inner.session] = c], setting' = setting,
         Len(session[Inner.session].tokens) <= Len(c.tokens),
         NEW g \in Replying, Become(g), g.session = Inner.session, g.count <= Len(c.tokens)
  PROVE session' \in [Sessions -> Conversation] /\ Bounded' /\ stack' \in Seq(Replying)
<1> DEFINE s == Inner.session
<1>1. /\ stack' \in Seq(Replying) /\ DOMAIN stack' = DOMAIN stack
      /\ stack'[Len(stack)] = g
      /\ \A i \in DOMAIN stack : i # Len(stack) => stack'[i] = stack[i]
  BY Becomes
<1>2. s \in Sessions
  BY InnerOK
<1>3. \A i \in DOMAIN stack' :
            \/ /\ i \in DOMAIN stack /\ stack'[i].session = stack[i].session
               /\ stack'[i].count = stack[i].count
               /\ stack[i].session = s => Len(session[s].tokens) <= Len(c.tokens)
            \/ stack'[i].session = s /\ stack'[i].count <= Len(c.tokens)
  <2>1. ASSUME NEW i \in DOMAIN stack, i = Len(stack)
        PROVE stack'[i].session = s /\ stack'[i].count <= Len(c.tokens)
    BY <1>1, <2>1
  <2>2. ASSUME NEW i \in DOMAIN stack, i # Len(stack)
        PROVE /\ i \in DOMAIN stack /\ stack'[i].session = stack[i].session
              /\ stack'[i].count = stack[i].count
              /\ stack[i].session = s => Len(session[s].tokens) <= Len(c.tokens)
    BY <1>1, <2>2
  <2> QED  BY <1>1, <2>1, <2>2
<1> HIDE DEF s
<1>4. session' = [session EXCEPT ![s] = c]
  BY DEF s
<1> QED  BY <1>1, <1>2, <1>3, <1>4, SessionUpdate

(* A reply that failed.                                                      *)
LEMMA FailedOK ==
  ASSUME NEW g \in Replying
  PROVE /\ Failed(g) \in Replying /\ Failed(g).session = g.session /\ Failed(g).count = g.count
        /\ Failed(g).status = "failed"
<1>1. PICK h : h = [g EXCEPT !.status = "failed"]
  OBVIOUS
<1>2. h \in Replying /\ h.session = g.session /\ h.count = g.count /\ h.stream = g.stream /\ h.status = "failed"
  BY <1>1 DEF Replying
<1>3. [h EXCEPT !.polls = g.stream] \in Replying
      /\ [h EXCEPT !.polls = g.stream].session = g.session
      /\ [h EXCEPT !.polls = g.stream].count = g.count
      /\ [h EXCEPT !.polls = g.stream].status = "failed"
  BY <1>2 DEF Replying
<1> QED  BY <1>1, <1>3 DEF Failed

(* A reply that counted one more token.                                      *)
LEMMA CountedOK ==
  ASSUME NEW g \in Replying
  PROVE /\ [g EXCEPT !.count = @ + 1] \in Replying
        /\ [g EXCEPT !.count = @ + 1].session = g.session
        /\ [g EXCEPT !.count = @ + 1].count = g.count + 1
  BY DEF Replying

(* A reply that took one more token.                                         *)
LEMMA SpokenOK ==
  ASSUME TypeOK, Bounded, stack # <<>>, NEW token \in Samples
  PROVE /\ Spoken(token) \in Replying
        /\ Spoken(token).session = Inner.session /\ Spoken(token).count = Inner.count + 1
        /\ Spoken(token).emitted = Inner.emitted + 1 /\ Spoken(token).max = Inner.max
        /\ Spoken(token).decoded = NewText(token)
        /\ Spoken(token).status = IF Final THEN "done" ELSE "going"
        /\ Spoken(token).asked = Inner.asked /\ Spoken(token).thinking = Inner.thinking
        /\ Spoken(token).cached = Inner.cached /\ Spoken(token).reused = Inner.reused
        /\ Spoken(token).prompt = Inner.prompt /\ Spoken(token).stream = Inner.stream
<1>1. PICK g \in Replying : g = Inner
  BY InnerOK
<1>2. token \in Tokens \ {"bos"} /\ g.decoded \in Decoding
  BY DEF Replying
<1>3. PICK d \in Decoding : d = NewText(token)
  BY <1>1, <1>2, DecodeOK DEF NewText
<1>4. PICK st \in {"going", "done", "failed"} : st = IF Final THEN "done" ELSE "going"
  OBVIOUS
<1>5. PICK po \in BOOLEAN : po = (Inner.stream /\ (Sent(token) # <<>> \/ Final))
  <2>1. Inner.stream \in BOOLEAN
    BY InnerOK
  <2>2. (Inner.stream /\ (Sent(token) # <<>> \/ Final)) \in BOOLEAN
    BY <2>1 DEF Final
  <2> QED  BY <2>2
<1>6. PICK g1 : g1 = [g EXCEPT !.count = g.count + 1]
  OBVIOUS
<1>7. PICK g2 : g2 = [g1 EXCEPT !.emitted = g.emitted + 1]
  OBVIOUS
<1>8. PICK g3 : g3 = [g2 EXCEPT !.decoded = d]
  OBVIOUS
<1>9. PICK g4 : g4 = [g3 EXCEPT !.status = st]
  OBVIOUS
<1>10. PICK g5 : g5 = [g4 EXCEPT !.polls = po]
  OBVIOUS
<1>11. g1 = [g EXCEPT !.count = @ + 1]
  BY <1>6
<1>12. g2 = [g EXCEPT !.count = @ + 1, !.emitted = @ + 1]
  BY <1>7, <1>6 DEF Replying
<1>13. g5 = Spoken(token)
  BY <1>1, <1>3, <1>4, <1>5, <1>8, <1>9, <1>10, <1>12 DEF Spoken
<1>14. g1 \in Replying /\ g1.count = g.count + 1 /\ g1.session = g.session /\ g1.emitted = g.emitted
       /\ g1.max = g.max /\ g1.asked = g.asked /\ g1.thinking = g.thinking
       /\ g1.cached = g.cached /\ g1.reused = g.reused /\ g1.prompt = g.prompt /\ g1.stream = g.stream
  BY <1>6 DEF Replying
<1>15. g2 \in Replying /\ g2.count = g.count + 1 /\ g2.session = g.session /\ g2.emitted = g.emitted + 1
       /\ g2.max = g.max /\ g2.asked = g.asked /\ g2.thinking = g.thinking
       /\ g2.cached = g.cached /\ g2.reused = g.reused /\ g2.prompt = g.prompt /\ g2.stream = g.stream
  <2>1. PICK n \in Nat : n = g.emitted + 1
    BY DEF Replying
  <2>2. g2 = [g1 EXCEPT !.emitted = n]
    BY <1>7, <2>1
  <2>3. g2 \in Replying
    BY <1>14, <2>2 DEF Replying
  <2>4. g2.emitted = n
    BY <1>14, <2>2 DEF Replying
  <2> QED  BY <1>14, <2>1, <2>2, <2>3, <2>4 DEF Replying
<1>16. g3 \in Replying /\ g3.count = g.count + 1 /\ g3.session = g.session /\ g3.emitted = g.emitted + 1
       /\ g3.max = g.max /\ g3.asked = g.asked /\ g3.thinking = g.thinking /\ g3.decoded = d
       /\ g3.cached = g.cached /\ g3.reused = g.reused /\ g3.prompt = g.prompt /\ g3.stream = g.stream
  BY <1>8, <1>15 DEF Replying
<1>17. g4 \in Replying /\ g4.count = g.count + 1 /\ g4.session = g.session /\ g4.emitted = g.emitted + 1
       /\ g4.max = g.max /\ g4.asked = g.asked /\ g4.thinking = g.thinking /\ g4.decoded = d
       /\ g4.cached = g.cached /\ g4.reused = g.reused /\ g4.prompt = g.prompt /\ g4.stream = g.stream
       /\ g4.status = st
  BY <1>9, <1>16 DEF Replying
<1>18. g5 \in Replying /\ g5.count = g.count + 1 /\ g5.session = g.session /\ g5.emitted = g.emitted + 1
       /\ g5.max = g.max /\ g5.asked = g.asked /\ g5.thinking = g.thinking /\ g5.decoded = d
       /\ g5.cached = g.cached /\ g5.reused = g.reused /\ g5.prompt = g.prompt /\ g5.stream = g.stream
       /\ g5.status = st
  BY <1>10, <1>17 DEF Replying
<1> QED  BY <1>1, <1>3, <1>4, <1>13, <1>18

(* A token keeps the bounds.                                                 *)
LEMMA EmitBounded ==
  ASSUME TypeOK, Bounded, NEW token \in Samples, Emit(token)
  PROVE TypeOK' /\ Bounded'
<1> DEFINE s == Inner.session
<1>1. stack # <<>> /\ UNCHANGED <<setting, style, conv>>
  BY EmitCases DEF Going
<1>2. /\ Inner \in Replying /\ s \in Sessions /\ Inner.count \in Nat /\ session[s] \in Conversation
      /\ Sound(session[s]) /\ Inner.count <= Len(session[s].tokens) /\ Capacity \in Nat
      /\ Len(session[s].tokens) \in Nat /\ session[s].tokens \in Seq(Tokens)
      /\ session[s].kv \in Seq(Tokens) /\ session[s].transcript \in Seq(Pieces)
  BY <1>1, InnerOK, CapacityNat DEF Conversation
<1>3. token \in Tokens \ {"bos"} /\ <<token>> \in Seq(Tokens) /\ Len(<<token>>) = 1
  OBVIOUS
<1>4. /\ Recorded(token) \in Seq(Tokens) /\ Len(Recorded(token)) >= Len(session[s].tokens)
      /\ Len(Recorded(token)) >= Inner.count + 1
      /\ Len(Recorded(token)) = Len(session[s].tokens) \/ Len(Recorded(token)) = Inner.count + 1
  BY <1>2, <1>3, WrittenOK DEF Recorded
<1>5. ASSUME ~(Inner.count >= Capacity), NEW k \in Seq(Tokens), Len(k) <= Capacity, NEW t \in Seq(Pieces),
             NEW c, c = [kv |-> k, tokens |-> Recorded(token), count |-> Inner.count + 1, transcript |-> t]
      PROVE /\ c \in Conversation /\ Sound(c) /\ Len(session[s].tokens) <= Len(c.tokens)
            /\ Inner.count + 1 <= Len(c.tokens)
  <2>1. c \in Conversation
    BY <1>2, <1>4, <1>5 DEF Conversation
  <2>2. c.tokens = Recorded(token) /\ c.kv = k /\ c.count = Inner.count + 1
    BY <1>5
  <2>3. Len(Recorded(token)) <= Capacity /\ Len(Recorded(token)) \in Nat
    BY <1>2, <1>4, <1>5 DEF Sound
  <2> QED  BY <1>2, <1>4, <1>5, <2>1, <2>2, <2>3 DEF Sound
<1>6. CASE AtCapacity
  <2>1. Become(Failed(Inner)) /\ UNCHANGED <<session, disturbed>>
    BY <1>6 DEF AtCapacity
  <2>2. session' = [session EXCEPT ![s] = session[s]]
    BY <1>2, <2>1 DEF TypeOK
  <2>3. Failed(Inner) \in Replying /\ Failed(Inner).session = s /\ Failed(Inner).count = Inner.count
    BY <1>2, FailedOK
  <2>4. session' \in [Sessions -> Conversation] /\ Bounded' /\ stack' \in Seq(Replying)
    <3>1. Len(session[s].tokens) <= Len(session[s].tokens)
      BY <1>2
    <3>2. Failed(Inner).count <= Len(session[s].tokens)
      BY <1>2, <2>3
    <3> QED  BY <1>1, <1>2, <2>1, <2>2, <2>3, <3>1, <3>2, InnerUpdate
  <2> QED  BY <1>1, <2>1, <2>4 DEF TypeOK
<1>7. CASE Speaks(token)
  <2>1. PICK c : /\ c = [kv |-> session[s].kv \o <<token>>, tokens |-> Recorded(token),
                         count |-> Inner.count + 1, transcript |-> session[s].transcript \o Sent(token)]
                 /\ session' = [session EXCEPT ![s] = c]
    BY <1>7 DEF Speaks
  <2>2. session[s].transcript \o Sent(token) \in Seq(Pieces)
    <3>1. Sent(token) \in Seq(Pieces)
      BY <1>1, <1>3, InnerOK, DecodeOK DEF Sent, NewText
    <3> QED  BY <1>2, <3>1, ConcatProperties
  <2>3. session[s].kv \o <<token>> \in Seq(Tokens) /\ Len(session[s].kv \o <<token>>) <= Capacity
    <3>1. Len(session[s].kv \o <<token>>) = Len(session[s].kv) + 1 /\ session[s].kv \o <<token>> \in Seq(Tokens)
      BY <1>2, <1>3, ConcatProperties
    <3> QED  BY <1>7, <3>1 DEF Speaks
  <2>4. ~(Inner.count >= Capacity) /\ Become(Spoken(token)) /\ disturbed' = disturbed
    BY <1>7 DEF Speaks
  <2>5. /\ c \in Conversation /\ Sound(c) /\ Len(session[s].tokens) <= Len(c.tokens)
        /\ Inner.count + 1 <= Len(c.tokens)
    BY <1>5, <2>1, <2>2, <2>3, <2>4
  <2>6. Spoken(token) \in Replying /\ Spoken(token).session = s /\ Spoken(token).count <= Len(c.tokens)
    BY <1>1, <2>5, SpokenOK
  <2>7. session' \in [Sessions -> Conversation] /\ Bounded' /\ stack' \in Seq(Replying)
    BY <1>1, <2>1, <2>4, <2>5, <2>6, InnerUpdate
  <2> QED  BY <1>1, <2>4, <2>7 DEF TypeOK
<1>8. CASE Stumbles(token)
  <2>1. PICK k, c :
           /\ k \in Seq(Tokens) /\ Len(k) <= Capacity
           /\ c = [kv |-> k, tokens |-> Recorded(token),
                   count |-> Inner.count + 1, transcript |-> session[s].transcript]
           /\ session' = [session EXCEPT ![s] = c]
    BY <1>8 DEF Stumbles
  <2>2. PICK g : g = [Inner EXCEPT !.count = @ + 1]
    OBVIOUS
  <2>3. /\ ~(Inner.count >= Capacity) /\ Become(Failed(g)) /\ disturbed' = disturbed \cup {s}
    BY <1>8, <2>2 DEF Stumbles
  <2>4. /\ c \in Conversation /\ Sound(c) /\ Len(session[s].tokens) <= Len(c.tokens)
        /\ Inner.count + 1 <= Len(c.tokens)
    BY <1>2, <1>5, <2>1, <2>3
  <2>5. Failed(g) \in Replying /\ Failed(g).session = s /\ Failed(g).count <= Len(c.tokens)
    BY <1>2, <2>2, <2>4, CountedOK, FailedOK
  <2>6. session' \in [Sessions -> Conversation] /\ Bounded' /\ stack' \in Seq(Replying)
    BY <1>1, <2>1, <2>3, <2>4, <2>5, InnerUpdate
  <2>7. disturbed' \in SUBSET Sessions
    BY <1>2, <2>3 DEF TypeOK
  <2> QED  BY <1>1, <2>6, <2>7 DEF TypeOK
<1> QED  BY <1>6, <1>7, <1>8, EmitCases
(* The reply when its end is sampled.                                        *)
Stopped == [Inner EXCEPT !.status = "done", !.polls = Inner.stream]

(* A reply that is complete.                                                 *)
LEMMA StoppedOK ==
  ASSUME TypeOK, Bounded, stack # <<>>
  PROVE /\ Stopped \in Replying /\ Stopped.session = Inner.session /\ Stopped.count = Inner.count
        /\ Stopped.status = "done" /\ Stopped.decoded = Inner.decoded /\ Stopped.asked = Inner.asked
        /\ Stopped.thinking = Inner.thinking /\ Stopped.cached = Inner.cached
        /\ Stopped.reused = Inner.reused /\ Stopped.prompt = Inner.prompt
        /\ Stopped.stream = Inner.stream
<1>1. PICK g \in Replying : g = Inner
  BY InnerOK
<1>2. PICK h : h = [g EXCEPT !.status = "done"]
  OBVIOUS
<1>3. /\ h \in Replying /\ h.session = g.session /\ h.count = g.count /\ h.stream = g.stream
      /\ h.status = "done" /\ h.decoded = g.decoded /\ h.asked = g.asked /\ h.thinking = g.thinking
      /\ h.cached = g.cached /\ h.reused = g.reused /\ h.prompt = g.prompt
  BY <1>2 DEF Replying
<1>4. PICK k : k = [h EXCEPT !.polls = g.stream]
  OBVIOUS
<1>5. /\ k \in Replying /\ k.session = g.session /\ k.count = g.count /\ k.stream = g.stream
      /\ k.status = "done" /\ k.decoded = g.decoded /\ k.asked = g.asked /\ k.thinking = g.thinking
      /\ k.cached = g.cached /\ k.reused = g.reused /\ k.prompt = g.prompt
  BY <1>3, <1>4 DEF Replying
<1>6. k = Stopped
  BY <1>1, <1>2, <1>4 DEF Stopped
<1> QED  BY <1>1, <1>5, <1>6

(* The end of a reply keeps the bounds.                                      *)
LEMMA StopBounded ==
  ASSUME TypeOK, Bounded, Stop
  PROVE TypeOK' /\ Bounded'
<1>1. stack # <<>> /\ Become(Stopped) /\ UNCHANGED <<setting, session, style, conv, disturbed>>
  BY DEF Stop, Going, Stopped, Inner
<1> DEFINE s == Inner.session
<1>2. /\ s \in Sessions /\ session[s] \in Conversation /\ Sound(session[s])
      /\ Inner.count <= Len(session[s].tokens) /\ Len(session[s].tokens) \in Nat
  BY <1>1, InnerOK DEF Conversation
<1>3. Stopped \in Replying /\ Stopped.session = s /\ Stopped.count <= Len(session[s].tokens)
  BY <1>1, <1>2, StoppedOK
<1>4. session' = [session EXCEPT ![s] = session[s]]
  BY <1>1, <1>2 DEF TypeOK
<1>5. session' \in [Sessions -> Conversation] /\ Bounded' /\ stack' \in Seq(Replying)
  <2>1. Len(session[s].tokens) <= Len(session[s].tokens)
    BY <1>2
  <2> QED  BY <1>1, <1>2, <1>3, <1>4, <2>1, InnerUpdate
<1> QED  BY <1>1, <1>5 DEF TypeOK

(* An import of memory keeps the bounds.                                     *)
LEMMA ForgetBounded ==
  ASSUME TypeOK, Bounded, NEW s \in Sessions, Forget(s)
  PROVE TypeOK' /\ Bounded'
<1> DEFINE b == Before(s, "context")
<1>1. /\ session' = [session EXCEPT ![s] = b] /\ disturbed' = Settled(s, "context")
      /\ UNCHANGED <<setting, stack, style, conv>>
  BY DEF Forget, Before
<1>2. b \in Conversation /\ Sound(b) /\ (Busy(s) => Len(b.tokens) = Len(session[s].tokens))
  BY BeforeOK DEF Resets
<1>3. disturbed' \in SUBSET Sessions
  BY <1>1 DEF TypeOK, Settled
<1> HIDE DEF b
<1>4. \A i \in DOMAIN stack' :
        /\ i \in DOMAIN stack /\ stack'[i].session = stack[i].session
        /\ stack'[i].count = stack[i].count
        /\ stack[i].session = s => Len(session[s].tokens) <= Len(b.tokens)
  <2>1. ASSUME NEW i \in DOMAIN stack, stack[i].session = s
        PROVE Len(session[s].tokens) <= Len(b.tokens)
    <3>1. Busy(s)
      BY <2>1 DEF Busy
    <3>2. Len(b.tokens) \in Nat
      BY <1>2 DEF Conversation
    <3> QED  BY <1>2, <3>1, <3>2
  <2> QED  BY <1>1, <2>1
<1>5. stack' \in Seq(Replying)
  BY <1>1 DEF TypeOK
<1>6. session' \in [Sessions -> Conversation] /\ Bounded'
  BY <1>1, <1>2, <1>4, <1>5, SessionUpdate
<1> QED  BY <1>1, <1>3, <1>5, <1>6 DEF TypeOK

(* What Finish leaves of the stack.                                          *)
LEMMA Popped ==
  ASSUME TypeOK, stack # <<>>, stack' = Front(stack)
  PROVE /\ stack' \in Seq(Replying) /\ DOMAIN stack' = 1..Len(stack) - 1
        /\ DOMAIN stack = 1..Len(stack) /\ Len(stack) \in Nat \ {0}
        /\ \A i \in DOMAIN stack' : i \in DOMAIN stack /\ i # Len(stack) /\ stack'[i] = stack[i]
<1>1. /\ stack' \in Seq(Replying) /\ Len(stack') = Len(stack) - 1
      /\ \A i \in 1..Len(stack) - 1 : stack'[i] = stack[i]
      /\ Len(stack) \in Nat \ {0} /\ DOMAIN stack = 1..Len(stack)
  BY Innermost
<1>2. DOMAIN stack' = 1..Len(stack) - 1
  BY <1>1
<1> QED  BY <1>1, <1>2

(* The answer of a reply that did not reason is its text.                    *)
LEMMA ContentOK ==
  ASSUME NEW text \in Seq(Pieces)
  PROVE /\ Content(text) \in Seq(Pieces)
        /\ "think" \notin Range(text) => Content(text) = text
<1>1. ASSUME "think" \in Range(text) PROVE Content(text) \in Seq(Pieces)
  <2> DEFINE n == SelectInSeq(text, LAMBDA p : p = "think")
  <2>1. n \in Nat
    <3>1. PICK j \in 1..Len(text) : text[j] = "think"
      BY <1>1 DEF Range
    <3> DEFINE I == {i \in 1..Len(text) : text[i] = "think"}
    <3>2. I \in SUBSET (1..Len(text)) /\ I # {} /\ I \in SUBSET Nat
      BY <3>1
    <3>3. n = Min(I)
      BY <3>2 DEF SelectInSeq
    <3> HIDE DEF n, I
    <3>4. \E m \in I : \A y \in I : m <= y
      BY <3>2, Least
    <3>5. Min(I) \in I
      BY <3>4 DEF Min
    <3> QED  BY <3>2, <3>3, <3>5
  <2>2. Content(text) = SubSeq(text, n + 1, Len(text))
    BY <1>1 DEF Content
  <2> HIDE DEF n
  <2> QED  BY <2>1, <2>2, Suffix
<1>2. "think" \notin Range(text) => Content(text) = text
  BY DEF Content
<1> QED  BY <1>1, <1>2

(* Leaving a reply keeps the bounds.                                         *)
LEMMA FinishBounded ==
  ASSUME TypeOK, Bounded, Finish
  PROVE TypeOK' /\ Bounded'
<1> DEFINE s == Inner.session
           old == session[s]
           c == [old EXCEPT !.count = Inner.count]
<1>1. /\ stack # <<>> /\ UNCHANGED <<setting, style, disturbed>>
      /\ session' = [session EXCEPT ![s].count = Inner.count] /\ stack' = Front(stack)
      /\ conv' = IF Inner.status = "done" /\ style[s] = "full"
                 THEN [conv EXCEPT ![s] = Inner.asked \o IF Inner.stream THEN Inner.decoded.text
                                                         ELSE Content(Inner.decoded.text)]
                 ELSE conv
  BY DEF Finish, Inner
<1>2. /\ Inner \in Replying /\ s \in Sessions /\ old \in Conversation /\ Sound(old)
      /\ Inner.count <= Len(old.tokens) /\ Len(old.tokens) \in Nat /\ Inner.count \in Nat
      /\ Inner.asked \in Seq(Pieces) /\ Inner.decoded.text \in Seq(Pieces)
  BY <1>1, InnerOK DEF Conversation, Replying, Decoding
<1>3. conv' \in [Sessions -> Seq(Pieces)]
  <2>1. PICK t \in Seq(Pieces) :
          t = IF Inner.stream THEN Inner.decoded.text ELSE Content(Inner.decoded.text)
    BY <1>2, ContentOK
  <2>2. Inner.asked \o t \in Seq(Pieces)
    BY <1>2, ConcatProperties
  <2> QED  BY <1>1, <1>2, <2>1, <2>2 DEF TypeOK
<1> HIDE DEF s
<1>4. c \in Conversation /\ Sound(c) /\ c.tokens = old.tokens
  BY <1>2 DEF Conversation, Sound
<1>5. session' = [session EXCEPT ![s] = c]
  BY <1>1, <1>2 DEF TypeOK
<1>6. /\ stack' \in Seq(Replying)
      /\ \A i \in DOMAIN stack' : i \in DOMAIN stack /\ stack'[i] = stack[i]
  BY <1>1, Popped
<1> HIDE DEF c, old
<1>7. \A i \in DOMAIN stack' :
        /\ i \in DOMAIN stack /\ stack'[i].session = stack[i].session
        /\ stack'[i].count = stack[i].count
        /\ stack[i].session = s => Len(session[s].tokens) <= Len(c.tokens)
  BY <1>2, <1>4, <1>6 DEF old
<1>8. session' \in [Sessions -> Conversation] /\ Bounded'
  BY <1>1, <1>2, <1>4, <1>5, <1>6, <1>7, SessionUpdate
<1> QED  BY <1>1, <1>3, <1>6, <1>8 DEF TypeOK

(* The first state is within the bounds.                                     *)
LEMMA InitBounded == Init => TypeOK /\ Bounded
<1> SUFFICES ASSUME Init PROVE TypeOK /\ Bounded
  OBVIOUS
<1>1. <<>> \in Seq(Tokens) /\ <<>> \in Seq(Pieces) /\ <<>> \in Seq(Replying) /\ DOMAIN <<>> = {} /\ Len(<<>>) = 0
  OBVIOUS
<1>2. Blank \in Conversation
  BY <1>1 DEF Blank, Conversation
<1>3. TypeOK
  BY <1>1, <1>2 DEF Init, TypeOK
<1>4. Sound(Blank)
  BY <1>1, <1>3, CapacityNat DEF Blank, Sound
<1>5. Bounded
  BY <1>1, <1>4 DEF Init, Bounded
<1> QED  BY <1>3, <1>5

(* So is a state that did not change.                                        *)
LEMMA UnchangedBounded ==
  ASSUME TypeOK, Bounded, UNCHANGED vars
  PROVE TypeOK' /\ Bounded'
  BY DEF TypeOK, Bounded, Sound, Capacity, vars

(* Every step keeps the bounds.                                              *)
LEMMA NextBounded ==
  ASSUME TypeOK, Bounded, [Next]_vars
  PROVE TypeOK' /\ Bounded'
<1>1. CASE UNCHANGED vars
  BY <1>1, UnchangedBounded
<1>2. ASSUME NEW s \in Sessions, NEW reset \in {"none", "context", "session"}, NEW max \in 1..MaxNew,
             NEW stream \in BOOLEAN, NEW thinking \in Thinking, Request(s, reset, max, stream, thinking)
      PROVE TypeOK' /\ Bounded'
  BY <1>2, RequestBounded DEF Resets
<1>3. ASSUME NEW s \in Sessions, Forget(s) PROVE TypeOK' /\ Bounded'
  BY <1>3, ForgetBounded
<1>4. ASSUME Stop PROVE TypeOK' /\ Bounded'
  BY <1>4, StopBounded
<1>5. ASSUME NEW token \in Samples, Emit(token) PROVE TypeOK' /\ Bounded'
  BY <1>5, EmitBounded
<1>6. ASSUME Finish PROVE TypeOK' /\ Bounded'
  BY <1>6, FinishBounded
<1> QED  BY <1>1, <1>2, <1>3, <1>4, <1>5, <1>6 DEF Next

(* The state of the server has its type: every reply in progress belongs to  *)
(* a session, and neither a session nor a reply has text or tokens of        *)
(* another kind.                                                             *)
THEOREM TypeCorrect == Spec => []TypeOK
<1>1. TypeOK /\ Bounded /\ [Next]_vars => TypeOK' /\ Bounded'
  BY NextBounded
<1> QED  BY InitBounded, <1>1, PTL DEF Spec

-----------------------------------------------------------------------------
(* Sessions that are exact                                                   *)

(* What the tokens of a cache say; a session that is exact; a reply that     *)
(* agrees with its session; and the invariant: whoever is not disturbed is   *)
(* exact, and has one reply in progress at most, which agrees with it.       *)
Heard(c) == Text(IF c.kv = <<>> THEN c.kv ELSE Tail(c.kv))

Exact(c) ==
  /\ c.kv = SubSeq(c.tokens, 1, c.count)
  /\ c.kv # <<>> => Head(c.kv) = "bos"
  /\ c.transcript = Heard(c).text

Agrees(c, g) ==
  /\ g.count = c.count /\ c.kv # <<>> /\ g.decoded.pending = Heard(c).pending
  /\ g.status # "failed"
  /\ g.status = "going" => g.emitted < g.max /\ Len(c.kv) + (g.max - g.emitted) <= Capacity

Followed(s) ==
  /\ Exact(session[s])
  /\ \A i \in DOMAIN stack : stack[i].session = s =>
       /\ Agrees(session[s], stack[i])
       /\ \A j \in DOMAIN stack : stack[j].session = s => j = i

Faithful == \A s \in Sessions \ disturbed : Followed(s)

(* A session that was reset.                                                 *)
LEMMA BlankExact == ASSUME NEW t PROVE Exact([kv |-> <<>>, tokens |-> t, count |-> 0, transcript |-> <<>>])
<1>1. SubSeq(t, 1, 0) = <<>>
  BY SubSeqEmpty
<1>2. Text(<<>>).text = <<>>
  BY TextEmpty DEF NothingDecoded
<1> QED  BY <1>1, <1>2 DEF Exact, Heard

(* The count of an exact session is the length of its cache.                 *)
LEMMA ExactLength ==
  ASSUME NEW c \in Conversation, Sound(c), Exact(c)
  PROVE Len(c.kv) = c.count /\ c.kv \in Seq(Tokens) /\ c.count \in Nat
<1>1. c.kv \in Seq(Tokens) /\ c.tokens \in Seq(Tokens) /\ c.count \in Nat /\ c.count <= Len(c.tokens)
  BY DEF Conversation, Sound
<1>2. \A i \in 1..c.count : c.tokens[i] \in Tokens
  BY <1>1
<1>3. Len(SubSeq(c.tokens, 1, c.count)) = c.count
  BY <1>1, <1>2, SubSeqProperties
<1> QED  BY <1>1, <1>3 DEF Exact

(* The tail of the tokens in the cache when more follow.                     *)
LEMMA TailConcat ==
  ASSUME NEW T, NEW a \in Seq(T), a # <<>>, NEW b \in Seq(T)
  PROVE /\ Tail(a \o b) = Tail(a) \o b /\ Head(a \o b) = Head(a) /\ a \o b # <<>> /\ a \o b \in Seq(T)
        /\ Tail(a) \in Seq(T)
<1>1. Len(a) \in Nat /\ Len(a) # 0 /\ Len(b) \in Nat
  BY EmptySeq
<1>2. a \o b \in Seq(T) /\ Len(a \o b) = Len(a) + Len(b) /\ \A i \in 1..Len(a) + Len(b) :
         (a \o b)[i] = IF i <= Len(a) THEN a[i] ELSE b[i - Len(a)]
  BY ConcatProperties
<1>3. a \o b # <<>>
  BY <1>1, <1>2, EmptySeq
<1>4. PICK x \in Seq(T) : x = a \o b
  BY <1>2
<1>5. /\ Tail(a) \in Seq(T) /\ Len(Tail(a)) = Len(a) - 1 /\ \A i \in 1..Len(a) - 1 : Tail(a)[i] = a[i + 1]
  BY HeadTailProperties
<1>6. /\ Tail(x) \in Seq(T) /\ Len(Tail(x)) = Len(x) - 1 /\ \A i \in 1..Len(x) - 1 : Tail(x)[i] = x[i + 1]
  BY <1>3, <1>4, HeadTailProperties
<1>7. PICK y \in Seq(T), z \in Seq(T) : y = Tail(a) /\ z = Tail(x)
  BY <1>5, <1>6
<1>8. /\ y \o b \in Seq(T) /\ Len(y \o b) = Len(y) + Len(b) /\ \A i \in 1..Len(y) + Len(b) :
         (y \o b)[i] = IF i <= Len(y) THEN y[i] ELSE b[i - Len(y)]
  BY ConcatProperties
<1>9. Len(y) = Len(a) - 1 /\ Len(z) = Len(a) + Len(b) - 1
  BY <1>1, <1>2, <1>4, <1>5, <1>6, <1>7
<1>10. \A i \in 1..Len(a) + Len(b) - 1 : z[i] = (y \o b)[i]
  <2>1. ASSUME NEW i \in 1..Len(a) + Len(b) - 1 PROVE z[i] = (y \o b)[i]
    <3>1. z[i] = x[i+1] /\ i + 1 \in 1..Len(a) + Len(b)
      BY <1>1, <1>2, <1>4, <1>6, <1>7
    <3>2. x[i+1] = IF i + 1 <= Len(a) THEN a[i+1] ELSE b[i + 1 - Len(a)]
      BY <1>2, <1>4, <3>1
    <3>3. (y \o b)[i] = IF i <= Len(y) THEN y[i] ELSE b[i - Len(y)]
      BY <1>1, <1>8, <1>9
    <3>4. CASE i <= Len(y)
      <4>1. i \in 1..Len(a) - 1
        BY <1>1, <1>9, <3>4
      <4>2. y[i] = a[i+1]
        BY <1>5, <1>7, <4>1
      <4>3. i + 1 <= Len(a)
        BY <1>1, <4>1
      <4> QED  BY <3>1, <3>2, <3>3, <3>4, <4>2, <4>3
    <3>5. CASE ~(i <= Len(y))
      <4>1. ~(i + 1 <= Len(a)) /\ i - Len(y) = i + 1 - Len(a)
        BY <1>1, <1>9, <3>5
      <4> QED  BY <3>1, <3>2, <3>3, <3>5, <4>1
    <3> QED  BY <3>4, <3>5
  <2> QED  BY <2>1
<1>11. z = y \o b
  <2>1. PICK u \in Seq(T) : u = y \o b
    BY <1>8
  <2>2. Len(z) = Len(a) + Len(b) - 1 /\ Len(u) = Len(z)
    BY <1>1, <1>8, <1>9, <2>1
  <2>3. \A i \in 1..Len(z) : z[i] = u[i]
    BY <1>10, <2>1, <2>2
  <2> QED  BY <2>1, <2>2, <2>3, SeqEqual
<1>12. Head(x) = Head(a)
  BY <1>1, <1>2, <1>4 DEF Head
<1> QED  BY <1>2, <1>3, <1>4, <1>5, <1>7, <1>11, <1>12

(* What a cache is heard as.                                                 *)
LEMMA HeardOK ==
  ASSUME NEW c \in Conversation
  PROVE Heard(c) \in [text : Seq(Marks), pending : BOOLEAN]
<1>1. c.kv \in Seq(Tokens)
  BY DEF Conversation
<1>2. c.kv # <<>> => Tail(c.kv) \in Seq(Tokens)
  BY <1>1, HeadTailProperties
<1> QED  BY <1>1, <1>2, TextType DEF Heard

(* What a cache that has the tokens of a text is heard as.                   *)
LEMMA HeardMore ==
  ASSUME NEW c \in Conversation, c.kv # <<>>, NEW text \in Seq(Pieces), text # <<>>,
         NEW d \in Conversation, d.kv = c.kv \o Coded(text)
  PROVE Heard(d).text = Heard(c).text \o text /\ ~Heard(d).pending /\ d.kv # <<>> /\ Head(d.kv) = Head(c.kv)
<1>1. c.kv \in Seq(Tokens) /\ Coded(text) \in Seq(Tokens)
  BY CodedType DEF Conversation
<1>2. /\ Tail(d.kv) = Tail(c.kv) \o Coded(text) /\ Head(d.kv) = Head(c.kv) /\ d.kv # <<>>
      /\ Tail(c.kv) \in Seq(Tokens)
  <2>1. PICK a \in Seq(Tokens), b \in Seq(Tokens) : a = c.kv /\ b = Coded(text)
    BY <1>1
  <2>2. a # <<>>
    BY <2>1
  <2>3. /\ Tail(a \o b) = Tail(a) \o b /\ Head(a \o b) = Head(a) /\ a \o b # <<>>
        /\ Tail(a) \in Seq(Tokens)
    BY <2>2, TailConcat
  <2> QED  BY <2>1, <2>3
<1>3. Heard(d) = Text(Tail(c.kv) \o Coded(text)) /\ Heard(c) = Text(Tail(c.kv))
  BY <1>2 DEF Heard
<1>4. /\ Text(Tail(c.kv) \o Coded(text)).text = Text(Tail(c.kv)).text \o text
      /\ ~Text(Tail(c.kv) \o Coded(text)).pending
  BY <1>2, TextOfPieces
<1> QED  BY <1>2, <1>3, <1>4

(* The same for a cache that has the tokens of a text only.                  *)
LEMMA HeardAnew ==
  ASSUME NEW text \in Seq(Pieces), text # <<>>,
         NEW d \in Conversation, d.kv = <<"bos">> \o Coded(text)
  PROVE Heard(d).text = text /\ ~Heard(d).pending /\ d.kv # <<>> /\ Head(d.kv) = "bos"
<1>1. Coded(text) \in Seq(Tokens) /\ <<"bos">> \in Seq(Tokens) /\ <<"bos">> # <<>>
      /\ Tail(<<"bos">>) = <<>> /\ Head(<<"bos">>) = "bos"
  BY CodedType DEF Tokens
<1>2. /\ Tail(d.kv) = Tail(<<"bos">>) \o Coded(text) /\ Head(d.kv) = Head(<<"bos">>) /\ d.kv # <<>>
  BY <1>1, TailConcat
<1>3. <<>> \in Seq(Tokens)
  OBVIOUS
<1>4. Heard(d) = Text(<<>> \o Coded(text))
  BY <1>1, <1>2 DEF Heard
<1>5. /\ Text(<<>> \o Coded(text)).text = Text(<<>>).text \o text
      /\ ~Text(<<>> \o Coded(text)).pending
  BY <1>3, TextOfPieces
<1>6. Text(<<>>).text = <<>> /\ <<>> \o text = text
  BY TextEmpty, ConcatEmptySeq DEF NothingDecoded
<1> QED  BY <1>1, <1>2, <1>4, <1>5, <1>6

(* A sequence is its prefix and the rest.                                    *)
LEMMA PrefixSplit ==
  ASSUME NEW T, NEW a \in Seq(T), NEW b \in Seq(T), IsPrefix(a, b)
  PROVE /\ a \o SubSeq(b, Len(a) + 1, Len(b)) = b
        /\ SubSeq(b, Len(a) + 1, Len(b)) \in Seq(T)
<1>1. Len(a) \in Nat /\ Len(b) \in Nat /\ Len(a) <= Len(b) /\ SubSeq(a, 1, Len(a)) = SubSeq(b, 1, Len(a))
  BY DEF IsPrefix
<1>2. PICK n \in Nat : n = Len(a)
  BY <1>1
<1>3. 1 \in 1..Len(b) + 1 /\ n \in 1 - 1 .. Len(b) /\ Len(b) \in n .. Len(b)
  BY <1>1, <1>2
<1>4. SubSeq(b, 1, n) \o SubSeq(b, n + 1, Len(b)) = SubSeq(b, 1, Len(b))
  BY <1>3, ConcatAdjacentSubSeq
<1>5. SubSeq(a, 1, Len(a)) = a /\ SubSeq(b, 1, Len(b)) = b
  BY SubSeqFull
<1>6. SubSeq(b, n + 1, Len(b)) \in Seq(T)
  BY <1>2, Suffix
<1> QED  BY <1>1, <1>2, <1>4, <1>5, <1>6

(* What prefilling adds to the cache, by how the prompt continues it.        *)
LEMMA PromptAdds ==
  ASSUME NEW c \in Conversation, Sound(c), Exact(c), NEW text \in Seq(Pieces), text # <<>>,
         PromptTokens(c, text) # <<>>
  PROVE \/ /\ c.kv = <<>> /\ c.transcript = <<>> /\ Transcribed(c, text) = text
           /\ PromptTokens(c, text) = <<"bos">> \o Coded(text)
        \/ /\ c.kv # <<>>
           /\ c.kv \o PromptTokens(c, text) = <<"bos">> \o Coded(text)
           /\ Transcribed(c, text) = text
        \/ /\ c.kv # <<>>
           /\ \E q \in Seq(Pieces) : /\ q # <<>> /\ PromptTokens(c, text) = Coded(q)
                                     /\ Transcribed(c, text) = c.transcript \o q
<1>1. /\ Len(c.kv) = c.count /\ c.kv \in Seq(Tokens) /\ c.count \in Nat /\ c.transcript \in Seq(Pieces)
      /\ Len(c.transcript) \in Nat
  BY ExactLength DEF Conversation
<1>2. c.count = 0 <=> c.kv = <<>>
  BY <1>1, EmptySeq
<1>3. /\ Tokenize(text, TRUE) = <<"bos">> \o Coded(text) /\ Tokenize(text, FALSE) = Coded(text)
      /\ Tokenize(text, TRUE) \in Seq(Tokens)
  <2>1. Coded(text) \in Seq(Tokens) /\ <<"bos">> \in Seq(Tokens)
    BY CodedType DEF Tokens
  <2>2. <<"bos">> \o Coded(text) \in Seq(Tokens)
    BY <2>1, ConcatProperties
  <2> QED  BY <2>2, TokenizeIsCoded
<1>4. CASE TextReused(c, text)
  <2> DEFINE q == SubSeq(text, Len(c.transcript) + 1, Len(text))
  <2>1. c.count # 0 /\ IsPrefix(c.transcript, text)
    BY <1>1, <1>4 DEF TextReused
  <2>2. c.transcript \o q = text /\ q \in Seq(Pieces)
    BY <1>1, <2>1, PrefixSplit
  <2>3. PromptTokens(c, text) = Coded(q)
    <3>1. PromptTokens(c, text) = Tokenize(q, FALSE)
      BY <1>4 DEF PromptTokens
    <3> HIDE DEF q
    <3> QED  BY <2>2, <3>1, TokenizeIsCoded
  <2>4. q # <<>>
    <3> HIDE DEF q
    <3> QED  BY <2>3, CodedEmpty
  <2>5. Transcribed(c, text) = c.transcript \o q
    BY <1>4, <2>2 DEF Transcribed
  <2> QED  BY <1>2, <2>1, <2>2, <2>3, <2>4, <2>5
<1>5. CASE TokensReused(c, text)
  <2> DEFINE full == Tokenize(text, TRUE)
  <2>1. c.count # 0 /\ ~TextReused(c, text) /\ IsPrefix(c.kv, full)
    <3>1. c.count > 0 /\ ~TextReused(c, text) /\ IsPrefix(SubSeq(c.tokens, 1, c.count), Tokenize(text, TRUE))
      BY <1>5 DEF TokensReused
    <3>2. c.count # 0
      BY <1>1, <3>1
    <3>3. c.kv = SubSeq(c.tokens, 1, c.count)
      BY DEF Exact
    <3> QED  BY <3>1, <3>2, <3>3
  <2>2. PromptTokens(c, text) = SubSeq(full, c.count + 1, Len(full))
    BY <1>5, <2>1 DEF PromptTokens
  <2>3. full \in Seq(Tokens)
    BY <1>3
  <2> HIDE DEF full
  <2>4. c.kv \o SubSeq(full, c.count + 1, Len(full)) = full
    <3>1. c.kv \o SubSeq(full, Len(c.kv) + 1, Len(full)) = full
      BY <1>1, <2>1, <2>3, PrefixSplit
    <3> QED  BY <1>1, <3>1
  <2>5. Transcribed(c, text) = text
    BY <1>5 DEF Transcribed
  <2> QED  BY <1>2, <1>3, <2>1, <2>2, <2>4, <2>5 DEF full
<1>6. CASE ~TextReused(c, text) /\ ~TokensReused(c, text)
  <2>1. PromptTokens(c, text) = Tokenize(text, c.count = 0) /\ Transcribed(c, text) = c.transcript \o text
    BY <1>6 DEF PromptTokens, Transcribed
  <2>2. CASE c.count = 0
    <3>1. c.kv = <<>>
      BY <1>2, <2>2
    <3>2. c.transcript = <<>>
      <4>1. Text(<<>>).text = <<>>
        BY TextEmpty DEF NothingDecoded
      <4>2. c.transcript = Text(<<>>).text
        BY <3>1 DEF Exact, Heard
      <4> QED  BY <4>1, <4>2
    <3>3. <<>> \o text = text
      OBVIOUS
    <3>4. (c.count = 0) = TRUE
      BY <2>2
    <3> QED  BY <1>3, <2>1, <3>1, <3>2, <3>3, <3>4
  <2>3. CASE c.count # 0
    <3>1. (c.count = 0) = FALSE
      BY <2>3
    <3> QED  BY <1>2, <1>3, <2>1, <2>3, <3>1
  <2> QED  BY <2>2, <2>3
<1> QED  BY <1>4, <1>5, <1>6

(* A session that was exact is exact when it is prefilled, however its       *)
(* prompt continues it.                                                      *)
LEMMA PrefillExact ==
  ASSUME TypeOK, NEW c \in Conversation, Sound(c), Exact(c), NEW text \in Seq(Pieces), text # <<>>,
         NEW p, Filled(c, text, p), p.session \in Conversation
  PROVE /\ Exact(p.session) /\ p.session.kv # <<>> /\ ~Heard(p.session).pending
        /\ p.session.count = c.count + Len(PromptTokens(c, text))
        /\ Len(p.session.kv) = p.session.count
<1> DEFINE new == PromptTokens(c, text)
<1>1. /\ new # <<>>
      /\ p.session = [kv |-> c.kv \o new, tokens |-> Written(c.tokens, c.count, new),
                      count |-> c.count + Len(new), transcript |-> Transcribed(c, text)]
  BY DEF Filled
<1>2. new \in Seq(Tokens)
  BY PromptTokensOK
<1>3. /\ Len(c.kv) = c.count /\ c.kv \in Seq(Tokens) /\ c.count \in Nat /\ c.tokens \in Seq(Tokens)
      /\ c.count <= Len(c.tokens)
  BY ExactLength DEF Conversation, Sound
<1> HIDE DEF new
<1>4. PICK d \in Conversation : d = p.session
  OBVIOUS
<1>5. /\ d.kv = c.kv \o new /\ d.tokens = Written(c.tokens, c.count, new)
      /\ d.count = c.count + Len(new) /\ d.transcript = Transcribed(c, text)
  BY <1>1, <1>4
<1>6. d.kv = SubSeq(d.tokens, 1, d.count)
  <2>1. SubSeq(Written(c.tokens, c.count, new), 1, c.count + Len(new)) = SubSeq(c.tokens, 1, c.count) \o new
    BY <1>2, <1>3, WrittenFirst
  <2> QED  BY <1>5, <2>1 DEF Exact
<1>7. Heard(d).text = d.transcript /\ ~Heard(d).pending /\ d.kv # <<>> /\ Head(d.kv) = "bos"
  <2>1. CASE /\ c.kv = <<>> /\ c.transcript = <<>> /\ Transcribed(c, text) = text
             /\ new = <<"bos">> \o Coded(text)
    <3>1. d.kv = <<"bos">> \o Coded(text)
      <4>1. <<>> \o new = new
        BY <1>2, ConcatEmptySeq
      <4> QED  BY <1>5, <2>1, <4>1
    <3> QED  BY <1>5, <2>1, <3>1, HeardAnew
  <2>2. CASE /\ c.kv # <<>>
             /\ c.kv \o new = <<"bos">> \o Coded(text)
             /\ Transcribed(c, text) = text
    BY <1>5, <2>2, HeardAnew
  <2>3. CASE /\ c.kv # <<>>
             /\ \E q \in Seq(Pieces) : /\ q # <<>> /\ new = Coded(q)
                                       /\ Transcribed(c, text) = c.transcript \o q
    <3>1. PICK q \in Seq(Pieces) : q # <<>> /\ new = Coded(q) /\ Transcribed(c, text) = c.transcript \o q
      BY <2>3
    <3>2. Heard(d).text = Heard(c).text \o q /\ ~Heard(d).pending /\ d.kv # <<>> /\ Head(d.kv) = Head(c.kv)
      BY <1>5, <2>3, <3>1, HeardMore
    <3> QED  BY <1>5, <2>3, <3>1, <3>2 DEF Exact
  <2> QED  BY <1>1, <2>1, <2>2, <2>3, PromptAdds DEF new
<1>8. Len(d.kv) = d.count
  <2>1. Len(c.kv \o new) = Len(c.kv) + Len(new)
    BY <1>2, <1>3, ConcatProperties
  <2> QED  BY <1>3, <1>5, <2>1
<1> QED  BY <1>4, <1>5, <1>6, <1>7, <1>8 DEF Exact, new

-----------------------------------------------------------------------------
(* The steps keep them exact                                                 *)

(* A session that a step does not touch.                                     *)
LEMMA OtherFollowed ==
  ASSUME NEW r \in Sessions, Followed(r), session'[r] = session[r], setting' = setting,
         \A i \in DOMAIN stack' : stack'[i].session = r => i \in DOMAIN stack /\ stack'[i] = stack[i]
  PROVE Followed(r)'
<1>1. Exact(session[r])'
  BY DEF Followed, Exact, Heard
<1>2. ASSUME NEW i \in DOMAIN stack', stack'[i].session = r
      PROVE /\ Agrees(session[r], stack[i])'
            /\ \A j \in DOMAIN stack' : stack'[j].session = r => j = i
  <2>1. i \in DOMAIN stack /\ stack'[i] = stack[i] /\ stack[i].session = r
    BY <1>2
  <2>2. Agrees(session[r], stack[i]) /\ \A j \in DOMAIN stack : stack[j].session = r => j = i
    BY <2>1 DEF Followed
  <2>3. Agrees(session[r], stack[i])'
    BY <2>1, <2>2 DEF Agrees, Heard, Capacity
  <2> QED  BY <2>1, <2>2, <2>3
<1>3. \A i \in DOMAIN stack' : stack'[i].session = r =>
       /\ Agrees(session[r], stack[i])'
       /\ \A j \in DOMAIN stack' : stack'[j].session = r => j = i
  BY <1>2
<1> QED  BY <1>1, <1>3 DEF Followed

(* So it is enough to look at the session that a step touches.               *)
LEMMA RestFollowed ==
  ASSUME TypeOK, Faithful, NEW s \in Sessions,
         \A r \in Sessions : r # s => session'[r] = session[r], setting' = setting,
         \A r \in Sessions : r # s /\ r \in disturbed => r \in disturbed',
         \A i \in DOMAIN stack' : stack'[i].session # s => i \in DOMAIN stack /\ stack'[i] = stack[i],
         s \notin disturbed' => Followed(s)'
  PROVE Faithful'
<1>1. ASSUME NEW r \in Sessions, r \notin disturbed', r # s PROVE Followed(r)'
  <2>1. r \notin disturbed /\ Followed(r)
    BY <1>1 DEF Faithful
  <2>2. \A i \in DOMAIN stack' : stack'[i].session = r => i \in DOMAIN stack /\ stack'[i] = stack[i]
    BY <1>1
  <2> QED  BY <1>1, <2>1, <2>2, OtherFollowed
<1>2. (\A r \in Sessions \ disturbed : Followed(r))'
  BY <1>1
<1> QED  BY <1>2 DEF Faithful

(* A session that no reply uses.                                             *)
LEMMA IdleFollowed ==
  ASSUME NEW s \in Sessions, Exact(session[s])', \A i \in DOMAIN stack' : stack'[i].session # s
  PROVE Followed(s)'
  BY DEF Followed

(* The session a request starts from is exact, or stays disturbed.           *)
LEMMA BeforeExact ==
  ASSUME TypeOK, Bounded, Faithful, NEW s \in Sessions, NEW reset \in Resets,
         s \notin Settled(s, reset)
  PROVE Exact(Before(s, reset)) /\ (reset # "none" => ~Busy(s))
<1>1. CASE reset = "none"
  BY <1>1 DEF Before, Settled, Faithful, Followed
<1>2. CASE reset # "none"
  <2>1. ~Busy(s)
    BY <1>2 DEF Settled
  <2>2. Before(s, reset) = [kv |-> <<>>, tokens |-> <<>>, count |-> 0, transcript |-> <<>>]
    BY <1>2, <2>1 DEF Before, ResetContext, Blank
  <2> QED  BY <2>1, <2>2, BlankExact
<1> QED  BY <1>1, <1>2

(* A request.                                                                *)
LEMMA RequestFaithful ==
  ASSUME TypeOK, Bounded, Faithful, NEW s \in Sessions, NEW reset \in Resets, NEW max \in 1..MaxNew,
         NEW stream \in BOOLEAN, NEW thinking \in Thinking, Request(s, reset, max, stream, thinking)
  PROVE Faithful'
<1> DEFINE b == Before(s, reset)
           text == Prompt(s, reset, thinking)
<1>1. b \in Conversation /\ Sound(b) /\ text \in Seq(Pieces) /\ text # <<>>
  BY BeforeOK, PromptOK
<1>2. UNCHANGED <<setting, style, conv>> /\ session \in [Sessions -> Conversation]
  BY RequestCases DEF TypeOK
<1>3. \A r \in Sessions : r # s /\ r \in disturbed => r \in Settled(s, reset)
  BY DEF Settled
<1>4. s \notin Settled(s, reset) => Exact(b) /\ (reset # "none" => ~Busy(s))
  BY BeforeExact
<1> HIDE DEF b, text
<1>5. CASE Declined(s, reset, max, thinking)
  <2>1. session' = [session EXCEPT ![s] = b] /\ disturbed' = Settled(s, reset) /\ stack' = stack
    BY <1>5 DEF Declined, b
  <2>2. session'[s] = b /\ \A r \in Sessions : r # s => session'[r] = session[r]
    BY <1>2, <2>1
  <2>3. ASSUME s \notin disturbed' PROVE Followed(s)'
    <3>1. Exact(session[s])'
      BY <1>4, <2>1, <2>2, <2>3 DEF Exact, Heard
    <3>2. CASE reset = "none"
      <4>1. Followed(s) /\ session'[s] = session[s]
        BY <2>1, <2>2, <2>3, <3>2 DEF Faithful, Settled, Before, b
      <4> QED  BY <1>2, <2>1, <4>1, OtherFollowed
    <3>3. CASE reset # "none"
      <4>1. \A i \in DOMAIN stack' : stack'[i].session # s
        BY <1>4, <2>1, <2>3, <3>3 DEF Busy
      <4> QED  BY <3>1, <4>1, IdleFollowed
    <3> QED  BY <3>2, <3>3
  <2> QED  BY <1>2, <1>3, <2>1, <2>2, <2>3, RestFollowed
<1>6. CASE /\ Admissible(b, text, max)
           /\ \E p \in Prefilled(b, text) : Accepted(s, reset, max, stream, thinking, p)
  <2>1. PICK p \in Prefilled(b, text) : Accepted(s, reset, max, stream, thinking, p)
    BY <1>6
  <2>2. p.ok \in BOOLEAN /\ p.session \in Conversation
    BY <1>1, <1>6, PrefilledOK
  <2> DEFINE g == Began(s, reset, max, stream, thinking, p.session)
  <2>3. /\ session' = [session EXCEPT ![s] = p.session]
        /\ stack' = IF p.ok THEN Append(stack, g) ELSE stack
        /\ Settled(s, reset) \subseteq disturbed'
        /\ s \notin disturbed' => s \notin Settled(s, reset) /\ ~Busy(s) /\ p.ok /\ PromptTokens(b, text) # <<>>
    BY <2>1 DEF Accepted, Misread, b, text
  <2>4. session'[s] = p.session /\ \A r \in Sessions : r # s => session'[r] = session[r]
    BY <1>2, <2>3
  <2>5. /\ g.session = s /\ g.count = p.session.count /\ g.max = max /\ g.emitted = 0
        /\ g.decoded = NothingDecoded /\ g.status = "going"
    BY DEF Began
  <2> HIDE DEF g
  <2>6. /\ DOMAIN stack = 1..Len(stack) /\ Len(stack) \in Nat
        /\ p.ok => /\ DOMAIN stack' = 1..Len(stack) + 1 /\ stack'[Len(stack) + 1] = g
                   /\ \A i \in 1..Len(stack) : stack'[i] = stack[i]
    BY <2>3 DEF TypeOK
  <2>7. \A i \in DOMAIN stack' : stack'[i].session # s => i \in DOMAIN stack /\ stack'[i] = stack[i]
    <3>1. CASE p.ok
      <4>1. ASSUME NEW i \in DOMAIN stack', stack'[i].session # s PROVE i \in DOMAIN stack /\ stack'[i] = stack[i]
        <5>1. i # Len(stack) + 1
          BY <2>5, <2>6, <3>1, <4>1
        <5> QED  BY <2>6, <3>1, <4>1, <5>1
      <4> QED  BY <4>1
    <3>2. CASE ~p.ok
      BY <2>3, <3>2
    <3> QED  BY <3>1, <3>2
  <2>8. ASSUME s \notin disturbed' PROVE Followed(s)'
    <3>1. Exact(b) /\ ~Busy(s) /\ p.ok /\ PromptTokens(b, text) # <<>>
      BY <1>4, <2>3, <2>8
    <3>2. Filled(b, text, p)
      BY <1>1, <2>1, <3>1, PrefillCases DEF Unfilled, Broken
    <3>3. /\ Exact(p.session) /\ p.session.kv # <<>> /\ ~Heard(p.session).pending
          /\ p.session.count = b.count + Len(PromptTokens(b, text))
          /\ Len(p.session.kv) = p.session.count
      BY <1>1, <2>2, <3>1, <3>2, PrefillExact
    <3>4. Len(p.session.kv) + max + 1 <= Capacity
      BY <1>6, <3>3 DEF Admissible
    <3>5. Agrees(p.session, g)
      <4>1. /\ Heard(p.session).pending = FALSE /\ NothingDecoded.pending = FALSE
        BY <3>3, HeardOK, <2>2 DEF NothingDecoded
      <4>2. Len(p.session.kv) \in Nat /\ Capacity \in Nat
        BY <2>2, CapacityNat DEF Conversation
      <4>3. g.emitted < g.max /\ Len(p.session.kv) + (g.max - g.emitted) <= Capacity
        BY <2>5, <3>4, <4>2
      <4> QED  BY <2>5, <3>3, <4>1, <4>3 DEF Agrees
    <3>6. \A i \in DOMAIN stack' : stack'[i].session = s => i = Len(stack) + 1
      <4>1. ASSUME NEW i \in DOMAIN stack', stack'[i].session = s, i # Len(stack) + 1 PROVE FALSE
        <5>1. i \in DOMAIN stack /\ stack'[i] = stack[i]
          BY <2>6, <3>1, <4>1
        <5> QED  BY <3>1, <4>1, <5>1 DEF Busy
      <4> QED  BY <4>1
    <3>7. Exact(session[s])'
      BY <2>4, <3>3 DEF Exact, Heard
    <3>8. ASSUME NEW i \in DOMAIN stack', stack'[i].session = s
          PROVE /\ Agrees(session[s], stack[i])'
                /\ \A j \in DOMAIN stack' : stack'[j].session = s => j = i
      <4>1. i = Len(stack) + 1 /\ stack'[i] = g
        BY <2>6, <3>1, <3>6, <3>8
      <4>2. Agrees(session[s], stack[i])'
        BY <1>2, <2>4, <3>5, <4>1 DEF Agrees, Heard, Capacity
      <4> QED  BY <3>6, <4>1, <4>2
    <3> QED  BY <3>7, <3>8 DEF Followed
  <2> QED
    <3>1. \A r \in Sessions : r # s /\ r \in disturbed => r \in disturbed'
      BY <1>3, <2>3
    <3> QED  BY <1>2, <2>4, <2>7, <2>8, <3>1, RestFollowed
<1> QED  BY <1>5, <1>6, RequestCases DEF b, text

(* An import of memory.                                                      *)
LEMMA ForgetFaithful ==
  ASSUME TypeOK, Bounded, Faithful, NEW s \in Sessions, Forget(s)
  PROVE Faithful'
<1> DEFINE b == Before(s, "context")
<1>1. /\ session' = [session EXCEPT ![s] = b] /\ disturbed' = Settled(s, "context")
      /\ UNCHANGED <<setting, stack, style, conv>> /\ session \in [Sessions -> Conversation]
  BY DEF Forget, Before, TypeOK
<1>2. s \notin Settled(s, "context") => Exact(b) /\ ~Busy(s)
  BY BeforeExact DEF Resets
<1> HIDE DEF b
<1>3. session'[s] = b /\ \A r \in Sessions : r # s => session'[r] = session[r]
  BY <1>1
<1>4. ASSUME s \notin disturbed' PROVE Followed(s)'
  <2>1. Exact(session[s])'
    BY <1>1, <1>2, <1>3, <1>4 DEF Exact, Heard
  <2>2. \A i \in DOMAIN stack' : stack'[i].session # s
    BY <1>1, <1>2, <1>4 DEF Busy
  <2> QED  BY <2>1, <2>2, IdleFollowed
<1>5. \A r \in Sessions : r # s /\ r \in disturbed => r \in disturbed'
  BY <1>1 DEF Settled
<1> QED  BY <1>1, <1>3, <1>4, <1>5, RestFollowed

(* The innermost reply changes, and its session.                             *)
LEMMA InnerFaithful ==
  ASSUME TypeOK, Bounded, Faithful, stack # <<>>, NEW s \in Sessions, s = Inner.session,
         NEW g \in Replying, Become(g), g.session = s,
         setting' = setting, disturbed \subseteq disturbed',
         \A r \in Sessions : r # s => session'[r] = session[r],
         s \notin disturbed' => Exact(session[s])' /\ Agrees(session[s], g)'
  PROVE Faithful'
<1>0. PICK n : n = Len(stack)
  OBVIOUS
<1>1. /\ DOMAIN stack' = DOMAIN stack /\ stack'[n] = g /\ n \in DOMAIN stack
      /\ \A i \in DOMAIN stack : i # n => stack'[i] = stack[i]
  BY <1>0, Becomes, Innermost
<1>2. stack[n].session = s
  BY <1>0, InnerOK
<1>3. \A i \in DOMAIN stack' : stack'[i].session # s => i \in DOMAIN stack /\ stack'[i] = stack[i]
  BY <1>1
<1>4. ASSUME s \notin disturbed' PROVE Followed(s)'
  <2>1. Followed(s)
    BY <1>4 DEF Faithful
  <2>2. \A i \in DOMAIN stack : stack[i].session = s => i = n
    BY <1>1, <1>2, <2>1 DEF Followed
  <2>3. \A i \in DOMAIN stack' : stack'[i].session = s => i = n
    BY <1>1, <2>2
  <2>4. Exact(session[s])' /\ Agrees(session[s], g)'
    BY <1>4
  <2>5. ASSUME NEW i \in DOMAIN stack', stack'[i].session = s
        PROVE /\ Agrees(session[s], stack[i])'
              /\ \A j \in DOMAIN stack' : stack'[j].session = s => j = i
    <3>1. i = n /\ stack'[i] = g
      BY <1>1, <2>3, <2>5
    <3>2. Agrees(session[s], stack[i])'
      BY <2>4, <3>1 DEF Agrees
    <3> QED  BY <2>3, <3>1, <3>2
  <2>6. (\A i \in DOMAIN stack : stack[i].session = s =>
           Agrees(session[s], stack[i]) /\ \A j \in DOMAIN stack : stack[j].session = s => j = i)'
    BY <2>5
  <2> QED  BY <2>4, <2>6 DEF Followed
<1>5. \A r \in Sessions : r # s /\ r \in disturbed => r \in disturbed'
  OBVIOUS
<1> QED  BY <1>3, <1>4, <1>5, RestFollowed

(* What is known of the innermost reply when its session is not disturbed.   *)
LEMMA InnerAgrees ==
  ASSUME TypeOK, Bounded, Faithful, stack # <<>>, NEW s, s = Inner.session, s \notin disturbed
  PROVE Exact(session[s]) /\ Agrees(session[s], Inner) /\ Followed(s)
<1>1. Len(stack) \in DOMAIN stack /\ Inner = stack[Len(stack)] /\ s \in Sessions
  BY InnerOK, Innermost
<1> QED  BY <1>1 DEF Faithful, Followed

(* The end of a reply.                                                       *)
LEMMA StopFaithful ==
  ASSUME TypeOK, Bounded, Faithful, Stop
  PROVE Faithful'
<1>1. stack # <<>> /\ Become(Stopped) /\ UNCHANGED <<setting, session, style, conv, disturbed>>
  BY DEF Stop, Going, Stopped, Inner
<1>2. /\ Stopped \in Replying /\ Stopped.session = Inner.session /\ Stopped.count = Inner.count
      /\ Stopped.status = "done" /\ Stopped.decoded = Inner.decoded
  BY <1>1, StoppedOK
<1>3. PICK s \in Sessions : s = Inner.session
  BY <1>1, InnerOK
<1>4. PICK g \in Replying : g = Stopped
  BY <1>2
<1>5. ASSUME s \notin disturbed'
      PROVE Exact(session[s])' /\ Agrees(session[s], g)'
  <2>1. Exact(session[s]) /\ Agrees(session[s], Inner)
    BY <1>1, <1>3, <1>5, InnerAgrees
  <2>2. Agrees(session[s], g)
    BY <1>2, <1>4, <2>1 DEF Agrees
  <2>3. Exact(session[s])'
    BY <1>1, <2>1 DEF Exact, Heard
  <2>4. Agrees(session[s], g)'
    BY <1>1, <2>2 DEF Agrees, Heard, Capacity
  <2> QED  BY <2>3, <2>4
<1> QED  BY <1>1, <1>2, <1>3, <1>4, <1>5, InnerFaithful

(* Leaving a reply: its count is what the session has already.               *)
LEMMA FinishFaithful ==
  ASSUME TypeOK, Bounded, Faithful, Finish
  PROVE Faithful'
<1>0. stack # <<>>
  BY DEF Finish
<1>1. PICK s \in Sessions : s = Inner.session
  BY <1>0, InnerOK
<1>2. /\ UNCHANGED <<setting, style, disturbed>>
      /\ session' = [session EXCEPT ![s].count = Inner.count] /\ stack' = Front(stack)
  BY <1>1 DEF Finish, Inner
<1>3. /\ session[s] \in Conversation /\ session \in [Sessions -> Conversation]
  BY <1>1 DEF TypeOK
<1>4. /\ \A i \in DOMAIN stack' : i \in DOMAIN stack /\ i # Len(stack) /\ stack'[i] = stack[i]
      /\ Len(stack) \in DOMAIN stack /\ stack[Len(stack)].session = s
  BY <1>0, <1>1, <1>2, Popped, Innermost, InnerOK
<1>5. \A r \in Sessions : r # s => session'[r] = session[r]
  BY <1>2, <1>3
<1>6. ASSUME s \notin disturbed' PROVE Followed(s)'
  <2>1. Exact(session[s]) /\ Agrees(session[s], Inner) /\ Followed(s)
    BY <1>0, <1>1, <1>2, <1>6, InnerAgrees
  <2>2. session'[s] = session[s]
    <3>1. Inner.count = session[s].count
      BY <2>1 DEF Agrees
    <3>2. [session[s] EXCEPT !.count = session[s].count] = session[s]
      BY <1>3 DEF Conversation
    <3> QED  BY <1>2, <1>3, <3>1, <3>2
  <2>3. \A i \in DOMAIN stack' : stack'[i].session # s
    BY <1>4, <2>1 DEF Followed
  <2>4. Exact(session[s])'
    BY <2>1, <2>2 DEF Exact, Heard
  <2> QED  BY <2>3, <2>4, IdleFollowed
<1>7. \A i \in DOMAIN stack' : stack'[i].session # s => i \in DOMAIN stack /\ stack'[i] = stack[i]
  BY <1>4
<1>8. setting' = setting /\ \A r \in Sessions : r # s /\ r \in disturbed => r \in disturbed'
  BY <1>2
<1> QED  BY <1>5, <1>6, <1>7, <1>8, RestFollowed

(* Two decodings that wait for the same half take the same text.             *)
LEMMA DecodeSame ==
  ASSUME NEW d \in Decoding, NEW e \in Decoding, d.pending = e.pending, NEW token \in Tokens \ {"bos"}
  PROVE /\ Decode(d, token).pending = Decode(e, token).pending
        /\ Decode(e, token).text = e.text \o SubSeq(Decode(d, token).text, Len(d.text) + 1, Len(Decode(d, token).text))
<1>1. PICK q \in Seq(Pieces) : /\ Decode(d, token).text = d.text \o q
                               /\ SubSeq(Decode(d, token).text, Len(d.text) + 1, Len(Decode(d, token).text)) = q
  BY DecodeOK
<1>2. PICK t \in Seq(Pieces), u \in Seq(Pieces) : t = d.text /\ u = e.text
  BY DEF Decoding
<1>3. PICK p : p = IF token = "cont" THEN "accent" ELSE token
  OBVIOUS
<1>4. CASE token = "lead" \/ (token = "cont" /\ ~d.pending)
  <2>1. Decode(d, token) = [text |-> t, pending |-> token = "lead"]
        /\ Decode(e, token) = [text |-> u, pending |-> token = "lead"]
    BY <1>2, <1>4 DEF Decode
  <2>2. t \o q = t
    BY <1>1, <1>2, <2>1
  <2>3. q = <<>>
    BY <2>2, ConcatEqualIffEmpty
  <2>4. u \o <<>> = u
    OBVIOUS
  <2>5. Decode(e, token).text = u /\ Decode(e, token).pending = Decode(d, token).pending
    BY <2>1
  <2> QED  BY <1>1, <1>2, <2>3, <2>4, <2>5
<1>5. CASE ~(token = "lead" \/ (token = "cont" /\ ~d.pending))
  <2>1. Decode(d, token) = [text |-> Append(t, p), pending |-> token = "lead"]
        /\ Decode(e, token) = [text |-> Append(u, p), pending |-> token = "lead"]
    BY <1>2, <1>3, <1>5 DEF Decode
  <2>2. p \in Pieces
    BY <1>3, <1>5 DEF Pieces, Tokens
  <2>3. t \o q = t \o <<p>>
    BY <1>1, <1>2, <2>1, <2>2, AppendIsConcat
  <2>4. q = <<p>>
    <3>1. <<p>> \in Seq(Pieces)
      BY <2>2
    <3>2. \A v, w \in Seq(Pieces) : t \o v = t \o w => v = w
      BY ConcatSimplifications
    <3> QED  BY <2>3, <3>1, <3>2
  <2>5. Append(u, p) = u \o <<p>>
    BY <2>2, AppendIsConcat
  <2>6. Decode(e, token).text = Append(u, p) /\ Decode(e, token).pending = Decode(d, token).pending
    BY <2>1
  <2> QED  BY <1>1, <1>2, <2>4, <2>5, <2>6
<1> QED  BY <1>4, <1>5

(* A reply that is not disturbed has room for its next token.                *)
LEMMA RoomLeft ==
  ASSUME TypeOK, Bounded, Faithful, Going, NEW s, s = Inner.session, s \notin disturbed
  PROVE ~(Inner.count >= Capacity)
<1>1. stack # <<>> /\ Inner.status = "going"
  BY DEF Going, Inner
<1>2. s \in Sessions /\ session[s] \in Conversation /\ Sound(session[s]) /\ Inner.max \in Nat /\ Inner.emitted \in Nat
  BY <1>1, InnerOK
<1>3. Exact(session[s]) /\ Agrees(session[s], Inner)
  BY <1>1, InnerAgrees
<1>4. Len(session[s].kv) = session[s].count /\ session[s].count \in Nat
  BY <1>2, <1>3, ExactLength
<1>5. Inner.count = Len(session[s].kv) /\ Inner.emitted < Inner.max
      /\ Len(session[s].kv) + (Inner.max - Inner.emitted) <= Capacity
  BY <1>1, <1>3, <1>4 DEF Agrees
<1>6. PICK k \in Nat, c \in Nat, e \in Nat, m \in Nat :
        k = Len(session[s].kv) /\ c = Capacity /\ e = Inner.emitted /\ m = Inner.max
  BY <1>2, <1>4, CapacityNat
<1>7. e < m /\ k + (m - e) <= c
  BY <1>5, <1>6
<1>8. ~(k >= c)
  BY <1>7
<1> QED  BY <1>5, <1>6, <1>8

(* A token that is taken goes to the cache, the history and the transcript.  *)
LEMMA SpeaksFaithful ==
  ASSUME TypeOK, Bounded, Faithful, NEW token \in Samples, Going, setting' = setting, Speaks(token)
  PROVE Faithful'
<1>0. stack # <<>> /\ Inner.status = "going"
  BY DEF Going, Inner
<1>1. PICK s \in Sessions : s = Inner.session
  BY <1>0, InnerOK
<1>2. PICK c, new : c = session[s] /\ new = NewText(token)
  OBVIOUS
<1>3. /\ c \in Conversation /\ Sound(c) /\ session \in [Sessions -> Conversation]
      /\ Inner \in Replying /\ Inner.decoded \in Decoding /\ Inner.max \in Nat /\ Inner.emitted \in Nat
      /\ Inner.count \in Nat /\ Capacity \in Nat
  BY <1>0, <1>1, <1>2, InnerOK, CapacityNat DEF TypeOK
<1>4. token \in Tokens \ {"bos"} /\ <<token>> \in Seq(Tokens) /\ Len(<<token>>) = 1
  OBVIOUS
<1>5. PICK d : /\ d = [kv |-> c.kv \o <<token>>, tokens |-> Recorded(token), count |-> Inner.count + 1,
                       transcript |-> c.transcript \o Sent(token)]
               /\ session' = [session EXCEPT ![s] = d]
  BY <1>1, <1>2 DEF Speaks
<1>6. d.kv = c.kv \o <<token>> /\ d.tokens = Recorded(token) /\ d.count = Inner.count + 1
      /\ d.transcript = c.transcript \o Sent(token)
  BY <1>5
<1>7. PICK g \in Replying : g = Spoken(token)
  BY <1>0, SpokenOK
<1>8. /\ g.session = s /\ g.count = Inner.count + 1 /\ g.emitted = Inner.emitted + 1 /\ g.max = Inner.max
      /\ g.decoded = new /\ g.status = IF Final THEN "done" ELSE "going"
  BY <1>0, <1>1, <1>2, <1>7, SpokenOK
<1>9. Become(g) /\ disturbed' = disturbed
  BY <1>7 DEF Speaks
<1>10. session'[s] = d /\ \A r \in Sessions : r # s => session'[r] = session[r]
  BY <1>3, <1>5
<1>11. ASSUME s \notin disturbed' PROVE Exact(d) /\ Agrees(d, g)
  <2>1. Exact(c) /\ Agrees(c, Inner)
    BY <1>0, <1>1, <1>2, <1>9, <1>11, InnerAgrees
  <2>2. /\ Inner.count = c.count /\ c.kv # <<>> /\ Inner.decoded.pending = Heard(c).pending
        /\ Inner.emitted < Inner.max /\ Len(c.kv) + (Inner.max - Inner.emitted) <= Capacity
    BY <1>0, <2>1 DEF Agrees
  <2>3. /\ Len(c.kv) = c.count /\ c.kv \in Seq(Tokens) /\ c.tokens \in Seq(Tokens) /\ c.count <= Len(c.tokens)
        /\ c.transcript \in Seq(Pieces) /\ c.count \in Nat
    BY <1>3, <2>1, ExactLength DEF Conversation, Sound
  <2>4. d.kv = SubSeq(d.tokens, 1, d.count)
    <3>1. SubSeq(Written(c.tokens, c.count, <<token>>), 1, c.count + Len(<<token>>)) = SubSeq(c.tokens, 1, c.count) \o <<token>>
      BY <1>4, <2>3, WrittenFirst
    <3>2. Recorded(token) = Written(c.tokens, c.count, <<token>>)
      BY <1>1, <1>2, <2>2 DEF Recorded
    <3>3. c.kv = SubSeq(c.tokens, 1, c.count)
      BY <2>1 DEF Exact
    <3>4. d.count = c.count + Len(<<token>>)
      BY <1>4, <1>6, <2>2
    <3> QED  BY <1>6, <3>1, <3>2, <3>3, <3>4
  <2>5. /\ Tail(d.kv) = Tail(c.kv) \o <<token>> /\ Head(d.kv) = "bos" /\ d.kv # <<>> /\ Tail(c.kv) \in Seq(Tokens)
    <3>1. /\ Tail(c.kv \o <<token>>) = Tail(c.kv) \o <<token>> /\ Head(c.kv \o <<token>>) = Head(c.kv)
          /\ c.kv \o <<token>> # <<>> /\ Tail(c.kv) \in Seq(Tokens)
      <4>1. PICK a \in Seq(Tokens), b \in Seq(Tokens) : a = c.kv /\ b = <<token>>
        BY <1>4, <2>3
      <4>3. a # <<>>
        BY <2>2, <4>1
      <4>2. /\ Tail(a \o b) = Tail(a) \o b /\ Head(a \o b) = Head(a) /\ a \o b # <<>>
            /\ Tail(a) \in Seq(Tokens)
        BY <4>3, TailConcat
      <4> QED  BY <4>1, <4>2
    <3> QED  BY <1>6, <2>1, <2>2, <3>1 DEF Exact
  <2>6. Heard(d) = Decode(Heard(c), token)
    <3>1. PICK q \in Seq(Tokens) : q = Tail(c.kv)
      BY <2>5
    <3>2. q \o <<token>> = Append(q, token)
      BY <1>4, AppendIsConcat
    <3>3. Text(Append(q, token)) = Decode(Text(q), token)
      BY <1>4, TextAppend
    <3>4. Heard(d) = Text(q \o <<token>>) /\ Heard(c) = Text(q)
      BY <2>2, <2>5, <3>1 DEF Heard
    <3> QED  BY <3>2, <3>3, <3>4
  <2>7. Heard(c) \in Decoding /\ Heard(c).text = c.transcript
    <3>1. PICK h : h = Heard(c)
      OBVIOUS
    <3>2. h \in [text : Seq(Marks), pending : BOOLEAN]
      BY <1>3, <3>1, HeardOK
    <3>3. h.text = c.transcript
      BY <2>1, <3>1 DEF Exact
    <3>4. h = [text |-> h.text, pending |-> h.pending] /\ h.pending \in BOOLEAN
      BY <3>2
    <3>5. h \in Decoding
      BY <2>3, <3>3, <3>4 DEF Decoding
    <3> QED  BY <3>1, <3>3, <3>5
  <2>8. /\ Decode(Inner.decoded, token).pending = Decode(Heard(c), token).pending
        /\ Decode(Heard(c), token).text = Heard(c).text \o Sent(token)
    <3>1. PICK x \in Decoding, y \in Decoding : x = Inner.decoded /\ y = Heard(c) /\ x.pending = y.pending
      BY <1>3, <2>2, <2>7
    <3>2. /\ Decode(x, token).pending = Decode(y, token).pending
          /\ Decode(y, token).text = y.text \o SubSeq(Decode(x, token).text, Len(x.text) + 1, Len(Decode(x, token).text))
      BY <1>4, <3>1, DecodeSame
    <3> QED  BY <3>1, <3>2 DEF Sent, NewText
  <2>9. Exact(d)
    BY <1>6, <2>4, <2>5, <2>6, <2>7, <2>8 DEF Exact
  <2>10. g.decoded.pending = Heard(d).pending
    BY <1>2, <1>8, <2>6, <2>8 DEF NewText
  <2>11. g.status = "going" => g.emitted < g.max /\ Len(d.kv) + (g.max - g.emitted) <= Capacity
    <3>1. Len(d.kv) = Len(c.kv) + 1
      <4>1. Len(c.kv \o <<token>>) = Len(c.kv) + Len(<<token>>)
        BY <1>4, <2>3, ConcatProperties
      <4> QED  BY <1>4, <1>6, <4>1
    <3>2. PICK k \in Nat, cap \in Nat, e \in Nat, m \in Nat :
            k = Len(c.kv) /\ cap = Capacity /\ e = Inner.emitted /\ m = Inner.max
      BY <1>3, <2>3
    <3>3. e < m /\ k + (m - e) <= cap
      BY <2>2, <3>2
    <3>4. SUFFICES ASSUME g.status = "going" PROVE e + 1 < m /\ (k + 1) + (m - (e + 1)) <= cap
      BY <1>8, <3>1, <3>2
    <3>5. e + 1 # m
      BY <1>8, <3>2, <3>4 DEF Final
    <3> QED  BY <3>3, <3>5
  <2>12. g.status # "failed" /\ g.count = d.count
    BY <1>6, <1>8
  <2> QED  BY <2>5, <2>9, <2>10, <2>11, <2>12 DEF Agrees
<1>12. ASSUME s \notin disturbed' PROVE Exact(session[s])' /\ Agrees(session[s], g)'
  <2>1. Exact(session[s])'
    BY <1>10, <1>11, <1>12 DEF Exact, Heard
  <2>2. Agrees(session[s], g)'
    BY <1>10, <1>11, <1>12 DEF Agrees, Heard, Capacity
  <2> QED  BY <2>1, <2>2
<1> QED  BY <1>0, <1>1, <1>8, <1>9, <1>10, <1>12, InnerFaithful

(* A token, taken or not.                                                    *)
LEMMA EmitFaithful ==
  ASSUME TypeOK, Bounded, Faithful, NEW token \in Samples, Emit(token)
  PROVE Faithful'
<1>1. Going /\ setting' = setting /\ stack # <<>>
  BY EmitCases DEF Going
<1>2. PICK s \in Sessions : s = Inner.session
  BY <1>1, InnerOK
<1>3. Inner \in Replying /\ session \in [Sessions -> Conversation]
  BY <1>1, InnerOK DEF TypeOK
<1>4. CASE Speaks(token)
  BY <1>1, <1>4, SpeaksFaithful
<1>5. CASE AtCapacity
  <2>1. PICK g \in Replying : g = Failed(Inner) /\ g.session = s
    BY <1>2, <1>3, FailedOK
  <2>2. Become(g) /\ UNCHANGED <<session, disturbed>> /\ s \in disturbed
    BY <1>1, <1>2, <1>5, <2>1, RoomLeft DEF AtCapacity
  <2> QED  BY <1>1, <1>2, <2>1, <2>2, InnerFaithful
<1>6. CASE Stumbles(token)
  <2>1. PICK h : h = [Inner EXCEPT !.count = @ + 1]
    OBVIOUS
  <2>2. h \in Replying /\ h.session = s
    BY <1>2, <1>3, <2>1, CountedOK
  <2>3. PICK g \in Replying : g = Failed(h) /\ g.session = s
    BY <2>2, FailedOK
  <2>4. Become(g) /\ disturbed' = disturbed \cup {s}
    BY <1>2, <1>6, <2>1, <2>3 DEF Stumbles
  <2>5. \A r \in Sessions : r # s => session'[r] = session[r]
    BY <1>2, <1>3, <1>6 DEF Stumbles
  <2> QED  BY <1>1, <1>2, <2>3, <2>4, <2>5, InnerFaithful
<1> QED  BY <1>4, <1>5, <1>6, EmitCases

(* The first state.                                                          *)
LEMMA InitFaithful == Init => Faithful
<1> SUFFICES ASSUME Init, NEW s \in Sessions PROVE Followed(s)
  BY DEF Faithful
<1>1. session[s] = [kv |-> <<>>, tokens |-> <<>>, count |-> 0, transcript |-> <<>>]
  BY DEF Init, Blank
<1>2. DOMAIN stack = {}
  BY DEF Init
<1> QED  BY <1>1, <1>2, BlankExact DEF Followed

(* Every step.                                                               *)
LEMMA NextFaithful ==
  ASSUME TypeOK, Bounded, Faithful, [Next]_vars
  PROVE Faithful'
<1>1. CASE UNCHANGED vars
  BY <1>1 DEF vars, Faithful, Followed, Exact, Agrees, Heard, Capacity
<1>2. ASSUME NEW s \in Sessions, NEW reset \in {"none", "context", "session"}, NEW max \in 1..MaxNew,
             NEW stream \in BOOLEAN, NEW thinking \in Thinking, Request(s, reset, max, stream, thinking)
      PROVE Faithful'
  BY <1>2, RequestFaithful DEF Resets
<1>3. ASSUME NEW s \in Sessions, Forget(s) PROVE Faithful'
  BY <1>3, ForgetFaithful
<1>4. ASSUME Stop PROVE Faithful'
  BY <1>4, StopFaithful
<1>5. ASSUME NEW token \in Samples, Emit(token) PROVE Faithful'
  BY <1>5, EmitFaithful
<1>6. ASSUME Finish PROVE Faithful'
  BY <1>6, FinishFaithful
<1> QED  BY <1>1, <1>2, <1>3, <1>4, <1>5, <1>6 DEF Next

(* The invariant is inductive.                                               *)
LEMMA InvariantStep == TypeOK /\ Bounded /\ Faithful /\ [Next]_vars => TypeOK' /\ Bounded' /\ Faithful'
  BY NextBounded, NextFaithful

(* So it holds of every state of every behaviour.                            *)
LEMMA AlwaysFaithful == Spec => [](TypeOK /\ Bounded /\ Faithful)
  BY InitBounded, InitFaithful, InvariantStep, PTL DEF Spec

(* Whatever requests interleave, fail, interrupt or reset each other, the    *)
(* tokens the server believes to be in the cache of a session that is not    *)
(* disturbed are those in it, and a reply in progress counts them right      *)
(* (g_session.history_tokens and history_count against the KV cache of       *)
(* bitnet_eval).                                                             *)
THEOREM HistoryCached == Spec => []HistoryIsCached
<1>1. Faithful => HistoryIsCached
  BY DEF Faithful, Followed, Exact, Agrees, HistoryIsCached
<1> QED  BY <1>1, AlwaysFaithful, PTL

(* The text by which a conversation is recognised (transcript) is the text   *)
(* of the tokens in the cache, characters that are split over two tokens     *)
(* included.                                                                 *)
THEOREM TranscriptCached == Spec => []TranscriptIsCached
<1>1. Faithful => TranscriptIsCached
  BY DEF Faithful, Followed, Exact, TranscriptIsCached, Heard, Text
<1> QED  BY <1>1, AlwaysFaithful, PTL

(* A request that was accepted has room for the whole reply it asked for,    *)
(* and nothing is ever written beyond the context.                           *)
THEOREM ReplyHasRoom == Spec => []RoomForReply
<1>1. TypeOK /\ Bounded => WithinContext
  BY DEF TypeOK, Bounded, Sound, WithinContext
<1>2. TypeOK /\ Faithful =>
        \A i \in DOMAIN stack : LET g == stack[i] IN
          g.session \notin disturbed /\ g.status = "going" =>
            Len(session[g.session].kv) + (g.max - g.emitted) <= Capacity
  <2> SUFFICES ASSUME TypeOK, Faithful, NEW i \in DOMAIN stack,
                      stack[i].session \notin disturbed, stack[i].status = "going"
               PROVE Len(session[stack[i].session].kv) + (stack[i].max - stack[i].emitted) <= Capacity
    OBVIOUS
  <2>0. stack[i] \in Replying
    BY DEF TypeOK
  <2>1. stack[i].session \in Sessions
    BY <2>0 DEF Replying
  <2> QED  BY <2>1 DEF Faithful, Followed, Agrees
<1>3. TypeOK /\ Bounded /\ Faithful => RoomForReply
  BY <1>1, <1>2 DEF RoomForReply
<1> QED  BY <1>3, AlwaysFaithful, PTL

-----------------------------------------------------------------------------
(* Conversations that are sent again                                         *)

(* A reply whose session has what its client asked and was told so far; and  *)
(* the invariant: the client of a session that is not disturbed will repeat  *)
(* what the server has recorded.                                             *)
Echoes(c, g) ==
  /\ c.transcript = g.asked \o g.decoded.text /\ g.asked # <<>>
  /\ "think" \notin Range(g.decoded.text)
  /\ g.cached > 0 => g.reused = g.cached /\ g.prompt = Len(Turn(g.thinking))

Idle(s) == \A i \in DOMAIN stack : stack[i].session # s

Repeated(s) ==
  style[s] = "full" =>
    /\ \A i \in DOMAIN stack : stack[i].session = s => Echoes(session[s], stack[i])
    /\ Idle(s) /\ session[s].count > 0 => session[s].transcript = conv[s] /\ conv[s] # <<>>

Repeats == \A s \in Sessions \ disturbed : Repeated(s)

(* It is enough to look at the session that a step touches.                  *)
LEMMA RestRepeated ==
  ASSUME TypeOK, Repeats, NEW s \in Sessions, style' = style,
         \A r \in Sessions : r # s => session'[r] = session[r] /\ conv'[r] = conv[r],
         \A r \in Sessions : r # s /\ r \in disturbed => r \in disturbed',
         \A i \in DOMAIN stack' : stack'[i].session # s => i \in DOMAIN stack /\ stack'[i] = stack[i],
         \A i \in DOMAIN stack : stack[i].session # s => i \in DOMAIN stack' /\ stack'[i] = stack[i],
         s \notin disturbed' => Repeated(s)'
  PROVE Repeats'
<1>1. ASSUME NEW r \in Sessions, r \notin disturbed', r # s PROVE Repeated(r)'
  <2>1. Repeated(r)
    BY <1>1 DEF Repeats
  <2>2. Idle(r)' => Idle(r)
    BY <1>1 DEF Idle
  <2>3. session'[r] = session[r] /\ conv'[r] = conv[r] /\ style'[r] = style[r]
    BY <1>1
  <2>4. SUFFICES ASSUME style[r] = "full"
                 PROVE /\ \A i \in DOMAIN stack' : stack'[i].session = r => Echoes(session'[r], stack'[i])
                       /\ Idle(r)' /\ session'[r].count > 0 => session'[r].transcript = conv'[r] /\ conv'[r] # <<>>
    BY <2>3 DEF Repeated, Echoes
  <2>5. ASSUME NEW i \in DOMAIN stack', stack'[i].session = r PROVE Echoes(session'[r], stack'[i])
    <3>1. i \in DOMAIN stack /\ stack'[i] = stack[i]
      BY <1>1, <2>5
    <3>2. Echoes(session[r], stack[i])
      BY <2>1, <2>4, <2>5, <3>1 DEF Repeated
    <3> QED  BY <2>3, <3>1, <3>2
  <2>6. Idle(r)' /\ session'[r].count > 0 => session'[r].transcript = conv'[r] /\ conv'[r] # <<>>
    BY <2>1, <2>2, <2>3, <2>4 DEF Repeated
  <2> QED  BY <2>5, <2>6
<1>2. (\A r \in Sessions \ disturbed : Repeated(r))'
  BY <1>1
<1> QED  BY <1>2 DEF Repeats

(* A turn after a conversation.                                              *)
LEMMA TurnFollows ==
  ASSUME NEW k \in Seq(Pieces)
  PROVE /\ IsPrefix(k, k \o <<"turn">>)
        /\ Tokenize(SubSeq(k \o <<"turn">>, Len(k) + 1, Len(k \o <<"turn">>)), FALSE) = <<"turn">>
<1>1. "turn" \in Pieces /\ <<"turn">> \in Seq(Pieces) /\ Len(<<"turn">>) = 1 /\ Len(k) \in Nat
  BY DEF Pieces
<1>2. PICK x \in Seq(Pieces) : x = k \o <<"turn">> /\ Len(x) = Len(k) + 1
  <2>1. PICK one \in Seq(Pieces) : one = <<"turn">> /\ Len(one) = 1
    BY <1>1
  <2>2. k \o one \in Seq(Pieces) /\ Len(k \o one) = Len(k) + Len(one)
    BY ConcatProperties
  <2> QED  BY <2>1, <2>2
<1>3. IsPrefix(k, x)
  <2>1. CASE k = <<>>
    <3>1. SubSeq(k, 1, Len(k)) = <<>> /\ SubSeq(x, 1, Len(k)) = <<>>
      <4>1. Len(k) = 0
        BY <2>1
      <4> QED  BY <4>1, SubSeqEmpty
    <3> QED  BY <1>1, <1>2, <3>1 DEF IsPrefix
  <2>2. CASE k # <<>>
    <3>1. 1 \in 1..Len(k) /\ Len(k) \in 1..Len(k)
      BY <1>1, <2>2, EmptySeq
    <3>2. SubSeq(k \o <<"turn">>, 1, Len(k)) = SubSeq(k, 1, Len(k))
      BY <1>1, <3>1, SubSeqOfConcat1
    <3> QED  BY <1>1, <1>2, <3>2 DEF IsPrefix
  <2> QED  BY <2>1, <2>2
<1>4. SubSeq(x, Len(k) + 1, Len(x)) = <<"turn">>
  <2>1. k \o SubSeq(x, Len(k) + 1, Len(x)) = x /\ SubSeq(x, Len(k) + 1, Len(x)) \in Seq(Pieces)
    BY <1>3, PrefixSplit
  <2>2. PICK y \in Seq(Pieces) : y = SubSeq(x, Len(k) + 1, Len(x))
    BY <2>1
  <2>3. k \o y = k \o <<"turn">>
    BY <1>2, <2>1, <2>2
  <2>4. \A v, w \in Seq(Pieces) : k \o v = k \o w => v = w
    BY ConcatSimplifications
  <2> QED  BY <1>1, <2>2, <2>3, <2>4
<1>5. Tokenize(<<"turn">>, FALSE) = <<"turn">>
  <2>1. Tokenize(<<"turn">>, FALSE) = Coded(<<"turn">>)
    BY <1>1, TokenizeIsCoded
  <2>2. Append(<<>>, "turn") = <<"turn">> /\ <<>> \in Seq(Pieces)
    OBVIOUS
  <2>3. Coded(Append(<<>>, "turn")) = Coded(<<>>) \o TokensOf("turn")
    BY <1>1, <2>2, CodedAppend
  <2>4. Coded(<<>>) = <<>> /\ TokensOf("turn") = <<"turn">> /\ <<>> \o <<"turn">> = <<"turn">>
    BY CodedEmpty DEF TokensOf
  <2> QED  BY <2>1, <2>2, <2>3, <2>4
<1> QED  BY <1>2, <1>3, <1>4, <1>5

(* What a full history is taken for.                                         *)
LEMMA RequestEchoes ==
  ASSUME TypeOK, Bounded, Faithful, Repeats, FALSE \notin Thinking,
         NEW s \in Sessions, NEW reset \in Resets, NEW thinking \in Thinking, NEW max, NEW stream,
         style[s] = "full", s \notin Settled(s, reset), ~Busy(s),
         NEW p, Filled(Before(s, reset), Prompt(s, reset, thinking), p)
  PROVE Echoes(p.session, Began(s, reset, max, stream, thinking, p.session))
<1> DEFINE g == Began(s, reset, max, stream, thinking, p.session)
<1>1. PICK b \in Conversation : b = Before(s, reset) /\ Sound(b) /\ Exact(b)
  BY BeforeOK, BeforeExact
<1>2. PICK k \in Seq(Pieces) : k = Known(s, reset)
  BY PromptOK
<1>3. thinking = TRUE /\ Turn(thinking) = <<"turn">> /\ Len(<<"turn">>) = 1 /\ "turn" \in Pieces /\ <<"turn">> \in Seq(Pieces)
  <2>1. thinking \in BOOLEAN /\ thinking # FALSE
    OBVIOUS
  <2>2. thinking = TRUE
    BY <2>1
  <2>3. Turn(TRUE) = <<"turn">>
    BY DEF Turn
  <2>4. Len(<<"turn">>) = 1 /\ "turn" \in Pieces /\ <<"turn">> \in Seq(Pieces)
    BY DEF Pieces
  <2> QED  BY <2>2, <2>3, <2>4
<1>4. PICK text \in Seq(Pieces) : text = Prompt(s, reset, thinking) /\ text = k \o <<"turn">>
  BY <1>2, <1>3, PromptOK DEF Prompt
<1>5. /\ g.asked = Append(k, "turn") /\ g.decoded.text = <<>> /\ g.cached = b.count /\ g.reused = Reused(b, text)
      /\ g.prompt = Len(PromptTokens(b, text)) /\ g.thinking = thinking
  BY <1>1, <1>2, <1>4 DEF Began, NothingDecoded
<1> HIDE DEF g
<1>6. Append(k, "turn") = text /\ text # <<>> /\ text \o <<>> = text
  <2>1. Append(k, "turn") = k \o <<"turn">> /\ Append(k, "turn") # <<>>
    BY <1>3, AppendIsConcat
  <2> QED  BY <1>4, <2>1
<1>7. p.session.transcript = Transcribed(b, text)
  BY <1>1, <1>4 DEF Filled
<1>8. Range(<<>>) = {}
  BY DEF Range
<1>9. b.count \in Nat /\ Len(b.kv) = b.count /\ b.kv \in Seq(Tokens)
  BY <1>1, ExactLength
<1>10. CASE b.count = 0
  <2>1. ~TextReused(b, text) /\ ~TokensReused(b, text)
    BY <1>10 DEF TextReused, TokensReused
  <2>2. b.transcript = <<>>
    <3>1. b.kv = <<>>
      BY <1>9, <1>10, EmptySeq
    <3>2. b.transcript = Text(<<>>).text
      BY <1>1, <3>1 DEF Exact, Heard
    <3> QED  BY <3>2, TextEmpty DEF NothingDecoded
  <2>3. Transcribed(b, text) = text
    <3>1. <<>> \o text = text
      OBVIOUS
    <3> QED  BY <2>1, <2>2, <3>1 DEF Transcribed
  <2> QED  BY <1>5, <1>6, <1>7, <1>8, <1>10, <2>3 DEF Echoes, g
<1>11. CASE b.count # 0
  <2>1. reset = "none" /\ b = session[s] /\ s \notin disturbed
    <3>1. reset = "none"
      BY <1>1, <1>11, BeforeOK
    <3> QED  BY <1>1, <3>1 DEF Before, Settled
  <2>2. b.transcript = conv[s] /\ conv[s] # <<>>
    <3>1. Repeated(s)
      BY <2>1 DEF Repeats
    <3>2. Idle(s)
      BY DEF Busy, Idle
    <3>3. session[s].count > 0
      BY <1>9, <1>11, <2>1
    <3> QED  BY <2>1, <3>1, <3>2, <3>3 DEF Repeated
  <2>3. k = b.transcript /\ k # <<>>
    BY <1>2, <2>1, <2>2 DEF Known
  <2>4. TextReused(b, text)
    <3>1. IsPrefix(k, text)
      BY <1>4, TurnFollows
    <3>2. b.count > 0
      BY <1>9, <1>11
    <3> QED  BY <2>3, <3>1, <3>2 DEF TextReused
  <2>5. PromptTokens(b, text) = <<"turn">>
    BY <1>4, <2>3, <2>4, TurnFollows DEF PromptTokens
  <2>6. Transcribed(b, text) = text /\ Reused(b, text) = b.count
    BY <2>4 DEF Transcribed, Reused
  <2> QED  BY <1>3, <1>5, <1>6, <1>7, <1>8, <2>5, <2>6 DEF Echoes, g
<1> QED  BY <1>10, <1>11

(* A request.                                                                *)
LEMMA RequestRepeats ==
  ASSUME TypeOK, Bounded, Faithful, Repeats, FALSE \notin Thinking,
         NEW s \in Sessions, NEW reset \in Resets, NEW max \in 1..MaxNew,
         NEW stream \in BOOLEAN, NEW thinking \in Thinking, Request(s, reset, max, stream, thinking)
  PROVE Repeats'
<1> DEFINE b == Before(s, reset)
           text == Prompt(s, reset, thinking)
<1>1. b \in Conversation /\ Sound(b) /\ text \in Seq(Pieces) /\ text # <<>>
  BY BeforeOK, PromptOK
<1>2. UNCHANGED <<setting, style, conv>> /\ session \in [Sessions -> Conversation]
  BY RequestCases DEF TypeOK
<1>3. \A r \in Sessions : r # s /\ r \in disturbed => r \in Settled(s, reset)
  BY DEF Settled
<1>4. s \notin Settled(s, reset) => (reset # "none" => ~Busy(s))
  BY BeforeExact
<1>5. CASE Declined(s, reset, max, thinking)
  <2>1. session' = [session EXCEPT ![s] = b] /\ disturbed' = Settled(s, reset) /\ stack' = stack
    BY <1>5 DEF Declined
  <2>2. session'[s] = b /\ \A r \in Sessions : r # s => session'[r] = session[r]
    BY <1>2, <2>1
  <2>3. ASSUME s \notin disturbed' PROVE Repeated(s)'
    <3>1. CASE reset = "none"
      <4>1. Repeated(s) /\ session'[s] = session[s]
        BY <2>1, <2>2, <2>3, <3>1 DEF Repeats, Settled, Before
      <4> QED  BY <1>2, <2>1, <4>1 DEF Repeated, Echoes, Idle
    <3>2. CASE reset # "none"
      <4>1. Idle(s)'
        BY <1>4, <2>1, <2>3, <3>2 DEF Busy, Idle
      <4>2. session'[s].count = 0
        BY <2>2, <3>2, BeforeOK
      <4>3. ~(session'[s].count > 0)
        BY <4>2
      <4> QED  BY <4>1, <4>3 DEF Repeated, Idle
    <3> QED  BY <3>1, <3>2
  <2> QED  BY <1>2, <1>3, <2>1, <2>2, <2>3, RestRepeated
<1>6. CASE /\ Admissible(b, text, max)
           /\ \E p \in Prefilled(b, text) : Accepted(s, reset, max, stream, thinking, p)
  <2>1. PICK p \in Prefilled(b, text) : Accepted(s, reset, max, stream, thinking, p)
    BY <1>6
  <2>2. p.ok \in BOOLEAN /\ p.session \in Conversation
    <3> HIDE DEF b, text
    <3> QED  BY <1>1, <1>6, PrefilledOK
  <2> DEFINE g == Began(s, reset, max, stream, thinking, p.session)
  <2>3. /\ session' = [session EXCEPT ![s] = p.session]
        /\ stack' = IF p.ok THEN Append(stack, g) ELSE stack
        /\ Settled(s, reset) \subseteq disturbed'
        /\ s \notin disturbed' => s \notin Settled(s, reset) /\ ~Busy(s) /\ p.ok /\ PromptTokens(b, text) # <<>>
    BY <2>1 DEF Accepted, Misread
  <2>4. session'[s] = p.session /\ \A r \in Sessions : r # s => session'[r] = session[r]
    BY <1>2, <2>3
  <2>5. g.session = s
    BY DEF Began
  <2> HIDE DEF g, b, text
  <2>6. /\ DOMAIN stack = 1..Len(stack) /\ Len(stack) \in Nat
        /\ p.ok => /\ DOMAIN stack' = 1..Len(stack) + 1 /\ stack'[Len(stack) + 1] = g
                   /\ \A i \in 1..Len(stack) : stack'[i] = stack[i]
    BY <2>3 DEF TypeOK
  <2>7. \A i \in DOMAIN stack' : stack'[i].session # s => i \in DOMAIN stack /\ stack'[i] = stack[i]
    <3>1. CASE p.ok
      <4>1. ASSUME NEW i \in DOMAIN stack', stack'[i].session # s PROVE i \in DOMAIN stack /\ stack'[i] = stack[i]
        <5>1. i # Len(stack) + 1
          BY <2>5, <2>6, <3>1, <4>1
        <5> QED  BY <2>6, <3>1, <4>1, <5>1
      <4> QED  BY <4>1
    <3>2. CASE ~p.ok
      BY <2>3, <3>2
    <3> QED  BY <3>1, <3>2
  <2>8. \A i \in DOMAIN stack : i \in DOMAIN stack' /\ stack'[i] = stack[i]
    <3>1. CASE p.ok
      BY <2>6, <3>1
    <3>2. CASE ~p.ok
      BY <2>3, <3>2
    <3> QED  BY <3>1, <3>2
  <2>9. ASSUME s \notin disturbed' PROVE Repeated(s)'
    <3>1. s \notin Settled(s, reset) /\ ~Busy(s) /\ p.ok /\ PromptTokens(b, text) # <<>>
      BY <2>3, <2>9
    <3>2. Filled(b, text, p)
      BY <1>1, <2>1, <3>1, PrefillCases DEF Unfilled, Broken
    <3>3. style[s] = "full" => Echoes(p.session, g)
      BY <3>1, <3>2, RequestEchoes DEF b, text, g
    <3>4. ASSUME NEW i \in DOMAIN stack', stack'[i].session = s PROVE stack'[i] = g
      <4>1. i = Len(stack) + 1
        <5>1. i \in DOMAIN stack \/ i = Len(stack) + 1
          BY <2>6, <3>1, <3>4
        <5> QED  BY <2>6, <3>1, <3>4, <5>1 DEF Busy
      <4> QED  BY <2>6, <3>1, <4>1
    <3>5. ~Idle(s)'
      <4>1. Len(stack) + 1 \in DOMAIN stack' /\ stack'[Len(stack) + 1].session = s
        BY <2>5, <2>6, <3>1
      <4> QED  BY <4>1 DEF Idle
    <3>6. style'[s] = "full" => \A i \in DOMAIN stack' : stack'[i].session = s => Echoes(session'[s], stack'[i])
      BY <1>2, <2>4, <3>3, <3>4
    <3> QED  BY <3>5, <3>6 DEF Repeated, Echoes
  <2> QED
    <3>1. \A r \in Sessions : r # s /\ r \in disturbed => r \in disturbed'
      BY <1>3, <2>3
    <3>2. \A r \in Sessions : r # s => session'[r] = session[r] /\ conv'[r] = conv[r]
      BY <1>2, <2>4
    <3> QED  BY <1>2, <2>7, <2>8, <2>9, <3>1, <3>2, RestRepeated
<1> QED  BY <1>5, <1>6, RequestCases

(* An import of memory.                                                      *)
LEMMA ForgetRepeats ==
  ASSUME TypeOK, Bounded, Faithful, Repeats, NEW s \in Sessions, Forget(s)
  PROVE Repeats'
<1> DEFINE b == Before(s, "context")
<1>1. /\ session' = [session EXCEPT ![s] = b] /\ disturbed' = Settled(s, "context")
      /\ UNCHANGED <<setting, stack, style, conv>> /\ session \in [Sessions -> Conversation]
  BY DEF Forget, Before, TypeOK
<1>2. (s \notin Settled(s, "context") => ~Busy(s)) /\ b.count = 0
  BY BeforeExact, BeforeOK DEF Resets
<1> HIDE DEF b
<1>3. session'[s] = b /\ \A r \in Sessions : r # s => session'[r] = session[r]
  BY <1>1
<1>4. ASSUME s \notin disturbed' PROVE Repeated(s)'
  <2>1. Idle(s)'
    BY <1>1, <1>2, <1>4 DEF Busy, Idle
  <2>2. ~(session'[s].count > 0)
    BY <1>2, <1>3
  <2> QED  BY <2>1, <2>2 DEF Repeated, Idle
<1>5. \A r \in Sessions : r # s /\ r \in disturbed => r \in disturbed'
  BY <1>1 DEF Settled
<1> QED  BY <1>1, <1>3, <1>4, <1>5, RestRepeated

(* The innermost reply changes, and its session.                             *)
LEMMA InnerRepeats ==
  ASSUME TypeOK, Bounded, Faithful, Repeats, stack # <<>>, NEW s \in Sessions, s = Inner.session,
         NEW g \in Replying, Become(g), g.session = s,
         style' = style, conv' = conv, disturbed \subseteq disturbed',
         \A r \in Sessions : r # s => session'[r] = session[r],
         s \notin disturbed' /\ style[s] = "full" => Echoes(session'[s], g)
  PROVE Repeats'
<1>0. PICK n : n = Len(stack)
  OBVIOUS
<1>1. /\ DOMAIN stack' = DOMAIN stack /\ stack'[n] = g /\ n \in DOMAIN stack
      /\ \A i \in DOMAIN stack : i # n => stack'[i] = stack[i]
  BY <1>0, Becomes, Innermost
<1>2. stack[n].session = s
  BY <1>0, InnerOK
<1>3. \A i \in DOMAIN stack' : stack'[i].session # s => i \in DOMAIN stack /\ stack'[i] = stack[i]
  BY <1>1
<1>4. \A i \in DOMAIN stack : stack[i].session # s => i \in DOMAIN stack' /\ stack'[i] = stack[i]
  BY <1>1, <1>2
<1>5. ASSUME s \notin disturbed' PROVE Repeated(s)'
  <2>1. Followed(s)
    BY <1>5 DEF Faithful
  <2>2. \A i \in DOMAIN stack : stack[i].session = s => i = n
    BY <1>1, <1>2, <2>1 DEF Followed
  <2>3. \A i \in DOMAIN stack' : stack'[i].session = s => stack'[i] = g
    BY <1>1, <2>2
  <2>4. ~Idle(s)'
    BY <1>1 DEF Idle
  <2>5. style'[s] = "full" => \A i \in DOMAIN stack' : stack'[i].session = s => Echoes(session'[s], stack'[i])
    BY <1>5, <2>3
  <2> QED  BY <2>4, <2>5 DEF Repeated, Echoes
<1>6. \A r \in Sessions : r # s => session'[r] = session[r] /\ conv'[r] = conv[r]
  OBVIOUS
<1>7. \A r \in Sessions : r # s /\ r \in disturbed => r \in disturbed'
  OBVIOUS
<1> QED  BY <1>3, <1>4, <1>5, <1>6, <1>7, RestRepeated

(* What is known of the innermost reply when its session is not disturbed.   *)
LEMMA InnerEchoes ==
  ASSUME TypeOK, Bounded, Repeats, stack # <<>>, NEW s, s = Inner.session, s \notin disturbed, style[s] = "full"
  PROVE Echoes(session[s], Inner)
<1>1. Len(stack) \in DOMAIN stack /\ Inner = stack[Len(stack)] /\ s \in Sessions
  BY InnerOK, Innermost
<1> QED  BY <1>1 DEF Repeats, Repeated

(* The end of a reply.                                                       *)
LEMMA StopRepeats ==
  ASSUME TypeOK, Bounded, Faithful, Repeats, Stop
  PROVE Repeats'
<1>1. stack # <<>> /\ Become(Stopped) /\ UNCHANGED <<setting, session, style, conv, disturbed>>
  BY DEF Stop, Going, Stopped, Inner
<1>2. /\ Stopped \in Replying /\ Stopped.session = Inner.session
      /\ Stopped.decoded = Inner.decoded /\ Stopped.asked = Inner.asked
      /\ Stopped.thinking = Inner.thinking /\ Stopped.cached = Inner.cached
      /\ Stopped.reused = Inner.reused /\ Stopped.prompt = Inner.prompt
  BY <1>1, StoppedOK
<1>3. PICK s \in Sessions : s = Inner.session
  BY <1>1, InnerOK
<1>4. PICK g \in Replying : g = Stopped
  BY <1>2
<1>5. s \notin disturbed' /\ style[s] = "full" => Echoes(session'[s], g)
  BY <1>1, <1>2, <1>3, <1>4, InnerEchoes DEF Echoes
<1> QED  BY <1>1, <1>2, <1>3, <1>4, <1>5, InnerRepeats

(* What a token adds to the text of a reply that does not reason.            *)
LEMMA SentOK ==
  ASSUME TypeOK, Bounded, stack # <<>>, NEW token \in Samples, "think" \notin Samples,
         "think" \notin Range(Inner.decoded.text)
  PROVE /\ NewText(token).text = Inner.decoded.text \o Sent(token)
        /\ Inner.decoded.text \in Seq(Pieces) /\ Sent(token) \in Seq(Pieces)
        /\ "think" \notin Range(NewText(token).text)
<1>1. PICK d \in Decoding : d = Inner.decoded
  BY InnerOK
<1>2. token \in Tokens \ {"bos"} /\ token # "think"
  OBVIOUS
<1>3. PICK q \in Seq(Pieces) : Decode(d, token).text = d.text \o q /\ Sent(token) = q
  BY <1>1, <1>2, DecodeOK DEF Sent, NewText
<1>4. PICK t \in Seq(Pieces) : t = d.text
  BY DEF Decoding
<1>5. "think" \notin Range(Decode(d, token).text)
  <2>1. PICK p : p = IF token = "cont" THEN "accent" ELSE token
    OBVIOUS
  <2>2. Decode(d, token).text = t \/ Decode(d, token).text = Append(t, p)
    BY <1>4, <2>1 DEF Decode
  <2>3. p # "think"
    BY <1>2, <2>1
  <2>4. \A i \in DOMAIN Append(t, p) : Append(t, p)[i] # "think"
    <3>1. \A i \in DOMAIN t : t[i] # "think"
      BY <1>1, <1>4 DEF Range
    <3>2. \A i \in DOMAIN Append(t, p) : (i \in DOMAIN t /\ Append(t, p)[i] = t[i]) \/ Append(t, p)[i] = p
      OBVIOUS
    <3> QED  BY <2>3, <3>1, <3>2
  <2>5. "think" \notin Range(Append(t, p))
    BY <2>4 DEF Range
  <2> QED  BY <1>1, <1>4, <2>2, <2>5
<1> QED  BY <1>1, <1>3, <1>4, <1>5 DEF NewText

(* A token.                                                                  *)
LEMMA EmitRepeats ==
  ASSUME TypeOK, Bounded, Faithful, Repeats, "think" \notin Samples, NEW token \in Samples, Emit(token)
  PROVE Repeats'
<1>1. Going /\ UNCHANGED <<setting, style, conv>> /\ stack # <<>>
  BY EmitCases DEF Going
<1>2. PICK s \in Sessions : s = Inner.session
  BY <1>1, InnerOK
<1>3. Inner \in Replying /\ session \in [Sessions -> Conversation]
  BY <1>1, InnerOK DEF TypeOK
<1>4. CASE Speaks(token)
  <2>1. PICK g \in Replying : g = Spoken(token)
    BY <1>1, SpokenOK
  <2>2. /\ g.session = s /\ g.decoded = NewText(token) /\ g.asked = Inner.asked /\ g.thinking = Inner.thinking
        /\ g.cached = Inner.cached /\ g.reused = Inner.reused /\ g.prompt = Inner.prompt
    BY <1>1, <1>2, <2>1, SpokenOK
  <2>3. Become(g) /\ disturbed' = disturbed
    BY <1>4, <2>1 DEF Speaks
  <2>4. \A r \in Sessions : r # s => session'[r] = session[r]
    BY <1>2, <1>3, <1>4 DEF Speaks
  <2>5. session'[s].transcript = session[s].transcript \o Sent(token)
    BY <1>2, <1>3, <1>4 DEF Speaks
  <2>6. ASSUME s \notin disturbed', style[s] = "full" PROVE Echoes(session'[s], g)
    <3>1. Echoes(session[s], Inner)
      BY <1>1, <1>2, <2>3, <2>6, InnerEchoes
    <3>2. PICK x \in Seq(Pieces), t \in Seq(Pieces), q \in Seq(Pieces) :
            x = Inner.asked /\ t = Inner.decoded.text /\ q = Sent(token) /\ NewText(token).text = t \o q
      <4>1. Inner.asked \in Seq(Pieces)
        BY <1>3 DEF Replying
      <4> QED  BY <1>1, <3>1, <4>1, SentOK DEF Echoes
    <3>3. "think" \notin Range(NewText(token).text)
      BY <1>1, <3>1, SentOK DEF Echoes
    <3>4. (x \o t) \o q = x \o (t \o q)
      BY ConcatAssociative
    <3>5. session'[s].transcript = g.asked \o g.decoded.text
      BY <2>2, <2>5, <3>1, <3>2, <3>4 DEF Echoes
    <3> QED  BY <2>2, <3>1, <3>3, <3>5 DEF Echoes
  <2> QED  BY <1>1, <1>2, <2>2, <2>3, <2>4, <2>6, InnerRepeats
<1>5. CASE AtCapacity
  <2>1. PICK g \in Replying : g = Failed(Inner) /\ g.session = s
    BY <1>2, <1>3, FailedOK
  <2>2. Become(g) /\ UNCHANGED <<session, disturbed>> /\ s \in disturbed
    BY <1>1, <1>2, <1>5, <2>1, RoomLeft DEF AtCapacity
  <2> QED  BY <1>1, <1>2, <2>1, <2>2, InnerRepeats
<1>6. CASE Stumbles(token)
  <2>1. PICK h : h = [Inner EXCEPT !.count = @ + 1]
    OBVIOUS
  <2>2. h \in Replying /\ h.session = s
    BY <1>2, <1>3, <2>1, CountedOK
  <2>3. PICK g \in Replying : g = Failed(h) /\ g.session = s
    BY <2>2, FailedOK
  <2>4. Become(g) /\ disturbed' = disturbed \cup {s}
    BY <1>2, <1>6, <2>1, <2>3 DEF Stumbles
  <2>5. \A r \in Sessions : r # s => session'[r] = session[r]
    BY <1>2, <1>3, <1>6 DEF Stumbles
  <2> QED  BY <1>1, <1>2, <2>3, <2>4, <2>5, InnerRepeats
<1> QED  BY <1>4, <1>5, <1>6, EmitCases

(* Leaving a reply: its client repeats what was recorded.                    *)
LEMMA FinishRepeats ==
  ASSUME TypeOK, Bounded, Faithful, Repeats, Finish
  PROVE Repeats'
<1>0. stack # <<>> /\ Inner.status # "going"
  BY DEF Finish, Inner
<1>1. PICK s \in Sessions : s = Inner.session
  BY <1>0, InnerOK
<1>2. /\ UNCHANGED <<setting, style, disturbed>>
      /\ session' = [session EXCEPT ![s].count = Inner.count] /\ stack' = Front(stack)
      /\ conv' = IF Inner.status = "done" /\ style[s] = "full"
                 THEN [conv EXCEPT ![s] = Inner.asked \o IF Inner.stream THEN Inner.decoded.text
                                                         ELSE Content(Inner.decoded.text)]
                 ELSE conv
  BY <1>1 DEF Finish, Inner
<1>3. /\ session[s] \in Conversation /\ session \in [Sessions -> Conversation]
      /\ conv \in [Sessions -> Seq(Pieces)]
  BY <1>1 DEF TypeOK
<1>4. /\ \A i \in DOMAIN stack' : i \in DOMAIN stack /\ i # Len(stack) /\ stack'[i] = stack[i]
      /\ Len(stack) \in DOMAIN stack /\ stack[Len(stack)].session = s
      /\ \A i \in DOMAIN stack : i # Len(stack) => i \in DOMAIN stack'
  BY <1>0, <1>1, <1>2, Popped, Innermost, InnerOK
<1>5. \A r \in Sessions : r # s => session'[r] = session[r] /\ conv'[r] = conv[r]
  BY <1>2, <1>3
<1>6. ASSUME s \notin disturbed' PROVE Repeated(s)'
  <2>1. Agrees(session[s], Inner) /\ Followed(s)
    BY <1>0, <1>1, <1>2, <1>6, InnerAgrees
  <2>2. session'[s].transcript = session[s].transcript
    BY <1>2, <1>3 DEF Conversation
  <2>3. Idle(s)'
    BY <1>4, <2>1 DEF Followed, Idle
  <2>4. ASSUME style[s] = "full" PROVE session'[s].transcript = conv'[s] /\ conv'[s] # <<>>
    <3>1. Echoes(session[s], Inner)
      BY <1>0, <1>1, <1>2, <1>6, <2>4, InnerEchoes
    <3>2. Inner.status = "done"
      <4>1. Inner \in Replying
        BY <1>0, InnerOK
      <4> QED  BY <1>0, <2>1, <4>1 DEF Agrees, Replying
    <3>3. Inner.decoded.text \in Seq(Pieces) /\ Inner.asked \in Seq(Pieces)
      BY <1>0, InnerOK DEF Decoding, Replying
    <3>4. Content(Inner.decoded.text) = Inner.decoded.text
      BY <3>1, <3>3, ContentOK DEF Echoes
    <3>5. conv'[s] = Inner.asked \o Inner.decoded.text
      BY <1>2, <1>3, <2>4, <3>2, <3>4
    <3>6. Inner.asked \o Inner.decoded.text # <<>>
      BY <3>1, <3>3, ConcatEqualIffEmpty DEF Echoes
    <3> QED  BY <2>2, <3>1, <3>5, <3>6 DEF Echoes
  <2>5. style' = style
    BY <1>2
  <2> QED  BY <2>3, <2>4, <2>5 DEF Repeated, Idle
<1>7. \A i \in DOMAIN stack' : stack'[i].session # s => i \in DOMAIN stack /\ stack'[i] = stack[i]
  BY <1>4
<1>8. \A i \in DOMAIN stack : stack[i].session # s => i \in DOMAIN stack' /\ stack'[i] = stack[i]
  BY <1>4
<1>9. style' = style /\ \A r \in Sessions : r # s /\ r \in disturbed => r \in disturbed'
  BY <1>2
<1> QED  BY <1>5, <1>6, <1>7, <1>8, <1>9, RestRepeated

(* The first state.                                                          *)
LEMMA InitRepeats == Init => Repeats
<1> SUFFICES ASSUME Init, NEW s \in Sessions PROVE Repeated(s)
  BY DEF Repeats
<1>1. session[s].count = 0 /\ DOMAIN stack = {}
  BY DEF Init, Blank
<1>2. ~(session[s].count > 0)
  BY <1>1
<1> QED  BY <1>1, <1>2 DEF Repeated

(* Every step.                                                               *)
LEMMA NextRepeats ==
  ASSUME TypeOK, Bounded, Faithful, Repeats, [Next]_vars, FALSE \notin Thinking, "think" \notin Samples
  PROVE Repeats'
<1>1. CASE UNCHANGED vars
  <2>1. UNCHANGED <<session, stack, style, conv, disturbed>>
    BY <1>1 DEF vars
  <2>2. ASSUME NEW s \in Sessions, s \notin disturbed' PROVE Repeated(s)'
    <3>1. Repeated(s)
      BY <2>1, <2>2 DEF Repeats
    <3> QED  BY <2>1, <3>1 DEF Repeated, Echoes, Idle
  <2>3. (\A s \in Sessions \ disturbed : Repeated(s))'
    BY <2>2
  <2> QED  BY <2>3 DEF Repeats
<1>2. ASSUME NEW s \in Sessions, NEW reset \in {"none", "context", "session"}, NEW max \in 1..MaxNew,
             NEW stream \in BOOLEAN, NEW thinking \in Thinking, Request(s, reset, max, stream, thinking)
      PROVE Repeats'
  BY <1>2, RequestRepeats DEF Resets
<1>3. ASSUME NEW s \in Sessions, Forget(s) PROVE Repeats'
  BY <1>3, ForgetRepeats
<1>4. ASSUME Stop PROVE Repeats'
  BY <1>4, StopRepeats
<1>5. ASSUME NEW token \in Samples, Emit(token) PROVE Repeats'
  BY <1>5, EmitRepeats
<1>6. ASSUME Finish PROVE Repeats'
  BY <1>6, FinishRepeats
<1> QED  BY <1>1, <1>2, <1>3, <1>4, <1>5, <1>6 DEF Next

(* "If the client sends full history again, the server de-duplicates the     *)
(* already cached prefix instead of evaluating it twice"                     *)
(* (README.md:416-418): proved where the claim holds, for clients that leave *)
(* thinking enabled and replies without a block of reasoning.  Only the new  *)
(* turn is evaluated, whatever else goes on.                                 *)
THEOREM FullHistoryDeduplicated ==
  ASSUME FALSE \notin Thinking, "think" \notin Samples
  PROVE Spec => []Deduplicates
<1>1. TypeOK /\ Bounded /\ Faithful /\ Repeats /\ [Next]_vars => Repeats'
  BY NextRepeats
<1>2. TypeOK /\ Repeats => Deduplicates
  <2> SUFFICES ASSUME TypeOK, Repeats, NEW i \in DOMAIN stack,
                      style[stack[i].session] = "full", stack[i].cached > 0, stack[i].session \notin disturbed
               PROVE stack[i].reused = stack[i].cached /\ stack[i].prompt = Len(Turn(stack[i].thinking))
    BY DEF Deduplicates
  <2>1. stack[i] \in Replying
    BY DEF TypeOK
  <2>2. stack[i].session \in Sessions
    BY <2>1 DEF Replying
  <2> QED  BY <2>2 DEF Repeats, Repeated, Echoes
<1> QED  BY <1>1, <1>2, InitRepeats, AlwaysFaithful, PTL DEF Spec
=============================================================================
