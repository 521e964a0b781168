--------------------------- MODULE InductionProofs ---------------------------
(***************************************************************************)
(* Induction over numbers and sequences, for a set in place of an          *)
(* operator, derived from the least element of a set of numbers; and on it *)
(* what FlattenSeq of the community modules gives, sequence by sequence.   *)
(***************************************************************************)
EXTENDS Naturals, SequencesExt, SequenceTheorems, WellFoundedInduction, TLAPS

(* Every nonempty set of numbers has a least one.                            *)
LEMMA Least ==
  ASSUME NEW S \in SUBSET Nat, S # {}
  PROVE \E n \in S : \A m \in S : n <= m
<1> DEFINE R == OpToRel(<,Nat)
<1>1. IsWellFoundedOn(R, Nat)
  BY NatLessThanWellFounded
<1>2. PICK n \in S : \A y \in S : ~ (<<y, n>> \in R)
  <2> HIDE DEF R
  <2> QED  BY <1>1, WFMin
<1>3. ASSUME NEW m \in S PROVE n <= m
  <2>1. ~ (<<m, n>> \in {p \in Nat \X Nat : p[1] < p[2]})
    BY <1>2 DEF OpToRel
  <2> QED  BY <2>1
<1> QED  BY <1>3

(* Induction, for a set instead of an operator.                              *)
LEMMA Induction ==
  ASSUME NEW S, 0 \in S, \A n \in Nat : n \in S => n + 1 \in S
  PROVE \A n \in Nat : n \in S
<1> SUFFICES ASSUME Nat \ S # {} PROVE FALSE
  OBVIOUS
<1>1. PICK n \in Nat \ S : \A m \in Nat \ S : n <= m
  BY Least
<1>2. n # 0 /\ n - 1 \in Nat
  OBVIOUS
<1>3. n - 1 \in S
  BY <1>1, <1>2
<1> QED  BY <1>2, <1>3

(* Induction over sequences, for a set of sequences.                         *)
LEMMA SequenceInduction ==
  ASSUME NEW T, NEW S, <<>> \in S,
         \A q \in Seq(T), e \in T : q \in S => Append(q, e) \in S
  PROVE \A q \in Seq(T) : q \in S
<1> DEFINE N == {n \in Nat : \A q \in Seq(T) : Len(q) = n => q \in S}
<1>1. 0 \in N
  <2>1. \A q \in Seq(T) : Len(q) = 0 => q = <<>>
    OBVIOUS
  <2> QED  BY <2>1
<1>2. ASSUME NEW n \in Nat, n \in N PROVE n + 1 \in N
  <2>1. ASSUME NEW q \in Seq(T), Len(q) = n + 1 PROVE q \in S
    <3>1. q # <<>>
      BY <2>1
    <3>2. PICK r \in Seq(T), e \in T : q = Append(r, e)
      BY <3>1, SequenceEmptyOrAppend
    <3>3. Len(r) = n
      BY <2>1, <3>2
    <3> QED  BY <1>2, <3>2, <3>3
  <2> QED  BY <2>1
<1>3. \A n \in Nat : n \in N
  <2> HIDE DEF N
  <2> QED  BY <1>1, <1>2, Induction
<1>4. ASSUME NEW q \in Seq(T) PROVE q \in S
  <2>1. Len(q) \in N
    <3>1. Len(q) \in Nat
      OBVIOUS
    <3> HIDE DEF N
    <3> QED  BY <1>3, <3>1
  <2> QED  BY <2>1
<1> QED  BY <1>4

\* f[i] is the concatenation of the first i sequences of ss.
Flattens(f, ss, n) ==
  f = [i \in 1..n |-> IF i = 1 THEN ss[i] ELSE f[i-1] \o ss[i]]

(* A function that flattens the first n sequences exists, for every n.       *)
LEMMA FlattenExists ==
  ASSUME NEW ss
  PROVE \A n \in Nat : \E f : Flattens(f, ss, n)
<1> DEFINE S == {n \in Nat : \E f : Flattens(f, ss, n)}
<1>1. 0 \in S
  <2> DEFINE g == [i \in 1..0 |-> <<>>]
  <2>1. g = [i \in 1..0 |-> IF i = 1 THEN ss[i] ELSE g[i-1] \o ss[i]]
    <3>1. 1..0 = {}
      OBVIOUS
    <3> QED  BY <3>1
  <2> HIDE DEF g
  <2> QED  BY <2>1 DEF Flattens
<1>2. ASSUME NEW n \in Nat, n \in S PROVE n + 1 \in S
  <2>1. PICK f : Flattens(f, ss, n)
    BY <1>2
  <2> DEFINE Body(h, i) == IF i = 1 THEN ss[i] ELSE h[i-1] \o ss[i]
             g == [i \in 1..n+1 |-> Body(f, i)]
  <2>2. f = [i \in 1..n |-> Body(f, i)]
    BY <2>1 DEF Flattens
  <2>3. ASSUME NEW i \in 1..n PROVE g[i] = f[i]
    <3>1. i \in 1..n+1
      OBVIOUS
    <3>2. f[i] = Body(f, i)
      <4> HIDE DEF Body
      <4> QED  BY <2>2
    <3> HIDE DEF Body
    <3> QED  BY <3>1, <3>2
  <2>4. ASSUME NEW i \in 1..n+1 PROVE Body(f, i) = Body(g, i)
    <3>1. CASE i = 1
      BY <3>1
    <3>2. CASE i # 1
      <4>1. i - 1 \in 1..n
        BY <3>2
      <4>2. g[i-1] = f[i-1]
        BY <4>1, <2>3
      <4> HIDE DEF g
      <4> QED  BY <4>2
    <3> QED  BY <3>1, <3>2
  <2>5. g = [i \in 1..n+1 |-> Body(g, i)]
    <3> HIDE DEF Body
    <3> QED  BY <2>4
  <2>6. Flattens(g, ss, n + 1)
    <3> HIDE DEF g
    <3> QED  BY <2>5 DEF Flattens
  <2> QED  BY <2>6
<1>3. \A n \in Nat : n \in S
  <2> HIDE DEF S
  <2> QED  BY <1>1, <1>2, Induction
<1> QED  BY <1>3

(* FlattenSeq is the last value of such a function.                          *)
LEMMA FlattenDef ==
  ASSUME NEW ss, NEW n \in Nat, Len(ss) = n, n # 0
  PROVE \E f : Flattens(f, ss, n) /\ FlattenSeq(ss) = f[n]
<1> DEFINE f == CHOOSE f : Flattens(f, ss, n)
<1>1. FlattenSeq(ss) = f[n]
  BY DEF FlattenSeq, Flattens
<1>2. Flattens(f, ss, n)
  BY FlattenExists
<1> QED  BY <1>1, <1>2

(* Flattenings of two sequences agree on a common prefix.                    *)
LEMMA FlattensAgree ==
  ASSUME NEW m \in Nat, NEW n \in Nat, m <= n, m # 0, NEW a, NEW b,
         \A i \in 1..m : a[i] = b[i],
         NEW f, NEW g, Flattens(f, a, m), Flattens(g, b, n)
  PROVE f[m] = g[m]
<1> DEFINE S == {k \in Nat : k + 1 <= m => f[k+1] = g[k+1]}
<1>1. 0 \in S
  <2>1. 1 \in 1..m /\ 1 \in 1..n
    OBVIOUS
  <2>2. f[1] = a[1] /\ g[1] = b[1]
    BY <2>1 DEF Flattens
  <2> QED  BY <2>1, <2>2
<1>2. ASSUME NEW k \in Nat, k \in S PROVE k + 1 \in S
  <2>1. SUFFICES ASSUME k + 1 + 1 <= m PROVE f[k+1+1] = g[k+1+1]
    OBVIOUS
  <2>2. k+1+1 \in 1..m /\ k+1+1 \in 1..n /\ k+1+1 # 1 /\ (k+1+1) - 1 = k+1 /\ k+1 <= m
    BY <2>1
  <2>3. f[k+1+1] = f[(k+1+1)-1] \o a[k+1+1] /\ g[k+1+1] = g[(k+1+1)-1] \o b[k+1+1]
    BY <2>2 DEF Flattens
  <2>4. f[k+1] = g[k+1]
    BY <1>2, <2>2
  <2> QED  BY <2>2, <2>3, <2>4
<1>3. m - 1 \in S
  <2>1. m - 1 \in Nat
    OBVIOUS
  <2> HIDE DEF S
  <2> QED  BY <1>1, <1>2, <2>1, Induction
<1>4. (m - 1) + 1 = m
  OBVIOUS
<1> QED  BY <1>3, <1>4

(* Nothing is flattened to nothing.                                          *)
LEMMA FlattenEmpty == FlattenSeq(<<>>) = <<>>
  BY DEF FlattenSeq

(* One more sequence is appended.                                            *)
LEMMA FlattenAppend ==
  ASSUME NEW T, NEW ss \in Seq(Seq(T)), NEW s \in Seq(T)
  PROVE FlattenSeq(Append(ss, s)) = FlattenSeq(ss) \o s
<1> DEFINE n == Len(ss)
           long == Append(ss, s)
<1>1. n \in Nat /\ Len(long) = n + 1 /\ long[n+1] = s /\ \A i \in 1..n : ss[i] = long[i]
  OBVIOUS
<1>2. CASE n = 0
  <2>1. ss = <<>>
    BY <1>2
  <2>2. PICK g : Flattens(g, long, 1) /\ FlattenSeq(long) = g[1]
    <3>1. Len(long) = 1 /\ 1 \in Nat /\ 1 # 0
      BY <1>1, <1>2
    <3> HIDE DEF long
    <3> QED  BY <3>1, FlattenDef
  <2>3. g[1] = long[1]
    BY <2>2 DEF Flattens
  <2>4. <<>> \o s = s
    OBVIOUS
  <2> QED  BY <1>1, <1>2, <2>1, <2>2, <2>3, <2>4, FlattenEmpty
<1>3. CASE n # 0
  <2> HIDE DEF n, long
  <2>0. n = Len(ss)
    BY DEF n
  <2>1. PICK f : Flattens(f, ss, n) /\ FlattenSeq(ss) = f[n]
    BY <1>1, <1>3, <2>0, FlattenDef
  <2>2. n + 1 \in Nat /\ n + 1 # 0 /\ n <= n + 1 /\ n + 1 \in 1..n+1 /\ n + 1 # 1 /\ (n+1) - 1 = n
    <3>1. n \in Nat
      BY <1>1
    <3> QED  BY <1>3, <3>1
  <2>3. PICK g : Flattens(g, long, n + 1) /\ FlattenSeq(long) = g[n+1]
    BY <1>1, <2>2, FlattenDef
  <2>4. f[n] = g[n]
    <3>1. \A i \in 1..n : ss[i] = long[i]
      BY <1>1
    <3>2. n \in Nat /\ n + 1 \in Nat /\ n <= n + 1 /\ n # 0
      BY <1>1, <1>3
    <3>3. Flattens(f, ss, n) /\ Flattens(g, long, n + 1)
      BY <2>1, <2>3
    <3> QED  BY <3>1, <3>2, <3>3, FlattensAgree
  <2>5. g[n+1] = g[(n+1)-1] \o long[n+1]
    BY <2>2, <2>3 DEF Flattens
  <2> QED  BY <1>1, <2>1, <2>2, <2>3, <2>4, <2>5 DEF long
<1> QED  BY <1>2, <1>3

(* The words of each sequence stand in the flattened one after those of the  *)
(* sequences before it.                                                      *)
LEMMA FlattenPlaces ==
  ASSUME NEW T, NEW ss \in Seq(Seq(T))
  PROVE /\ FlattenSeq(ss) \in Seq(T)
        /\ \A i \in 1..Len(ss) :
             LET a == FlattenSeq(SubSeq(ss, 1, i - 1))  b == FlattenSeq(ss) IN
             /\ a \in Seq(T) /\ Len(a) + Len(ss[i]) <= Len(b)
             /\ FlattenSeq(SubSeq(ss, 1, i)) = a \o ss[i]
             /\ \A k \in 1..Len(ss[i]) : b[Len(a) + k] = ss[i][k]
<1> DEFINE P(q, i) ==
             LET a == FlattenSeq(SubSeq(q, 1, i - 1))  b == FlattenSeq(q) IN
             /\ a \in Seq(T) /\ Len(a) + Len(q[i]) <= Len(b)
             /\ FlattenSeq(SubSeq(q, 1, i)) = a \o q[i]
             /\ \A k \in 1..Len(q[i]) : b[Len(a) + k] = q[i][k]
           S == {q \in Seq(Seq(T)) : FlattenSeq(q) \in Seq(T) /\ \A i \in 1..Len(q) : P(q, i)}
<1>1. <<>> \in S
  <2>1. FlattenSeq(<<>>) \in Seq(T)
    <3>1. <<>> \in Seq(T)
      OBVIOUS
    <3> QED  BY <3>1, FlattenEmpty
  <2>2. <<>> \in Seq(Seq(T)) /\ 1..Len(<<>>) = {}
    OBVIOUS
  <2> QED  BY <2>1, <2>2
<1>2. ASSUME NEW q \in Seq(Seq(T)), NEW e \in Seq(T), q \in S PROVE Append(q, e) \in S
  <2>1. PICK n, c : n \in Nat /\ n = Len(q) /\ c = Append(q, e)
    <3>1. Len(q) \in Nat
      OBVIOUS
    <3> QED  BY <3>1
  <2>2. c \in Seq(Seq(T)) /\ Len(c) = n + 1 /\ c[n + 1] = e /\ \A i \in 1..n : c[i] = q[i]
    BY <2>1
  <2>3. PICK b \in Seq(T) : b = FlattenSeq(q)
    BY <1>2
  <2>4. FlattenSeq(c) = b \o e
    BY <2>1, <2>3, FlattenAppend
  <2>5. /\ b \o e \in Seq(T) /\ Len(b \o e) = Len(b) + Len(e)
        /\ \A i \in 1..Len(b) : (b \o e)[i] = b[i]
        /\ \A i \in 1..Len(e) : (b \o e)[Len(b) + i] = e[i]
    OBVIOUS
  <2>6. ASSUME NEW i \in 1..n PROVE P(c, i)
    <3>1. P(q, i)
      BY <1>2, <2>1
    <3>2. SubSeq(c, 1, i - 1) = SubSeq(q, 1, i - 1) /\ SubSeq(c, 1, i) = SubSeq(q, 1, i) /\ c[i] = q[i]
      BY <2>1, <2>2
    <3>3. PICK a : a = FlattenSeq(SubSeq(q, 1, i - 1))
      OBVIOUS
    <3>4. /\ a \in Seq(T) /\ Len(a) + Len(q[i]) <= Len(b)
          /\ FlattenSeq(SubSeq(q, 1, i)) = a \o q[i]
          /\ \A k \in 1..Len(q[i]) : b[Len(a) + k] = q[i][k]
      BY <2>3, <3>1, <3>3
    <3>5. q[i] \in Seq(T)
      BY <2>1
    <3>6. ASSUME NEW k \in 1..Len(q[i]) PROVE (b \o e)[Len(a) + k] = q[i][k]
      <4>1. Len(a) \in Nat /\ Len(q[i]) \in Nat /\ Len(b) \in Nat
        BY <3>4, <3>5
      <4>2. Len(a) + k \in 1..Len(b)
        BY <3>4, <4>1
      <4> QED  BY <2>5, <3>4, <4>2
    <3>7. Len(a) + Len(q[i]) <= Len(b \o e)
      BY <2>5, <3>4, <3>5
    <3> QED  BY <2>4, <3>2, <3>3, <3>4, <3>6, <3>7
  <2>7. P(c, n + 1)
    <3>1. (n + 1) - 1 = n /\ SubSeq(c, 1, n) = q /\ SubSeq(c, 1, n + 1) = c
      BY <2>1, <2>2
    <3>2. Len(b) + Len(e) <= Len(b \o e)
      BY <2>5
    <3>3. \A k \in 1..Len(e) : (b \o e)[Len(b) + k] = e[k]
      BY <2>5
    <3>4. /\ FlattenSeq(SubSeq(c, 1, (n + 1) - 1)) = b /\ FlattenSeq(c) = b \o e
          /\ FlattenSeq(SubSeq(c, 1, n + 1)) = b \o e /\ c[n + 1] = e
      BY <2>2, <2>3, <2>4, <3>1
    <3> QED  BY <3>2, <3>3, <3>4
  <2>8. \A i \in 1..Len(c) : P(c, i)
    <3>1. \A i \in 1..Len(c) : i \in 1..n \/ i = n + 1
      <4>1. \A i \in 1..(n + 1) : i \in 1..n \/ i = n + 1
        BY <2>1
      <4>2. Len(c) = n + 1
        BY <2>2
      <4> QED  BY <4>1, <4>2
    <3> HIDE DEF P
    <3> QED  BY <2>6, <2>7, <3>1
  <2> HIDE DEF P
  <2> QED  BY <2>1, <2>2, <2>4, <2>5, <2>8
<1>3. \A q \in Seq(Seq(T)) : q \in S
  <2> HIDE DEF S
  <2> QED  BY <1>1, <1>2, SequenceInduction
<1> QED  BY <1>3
=============================================================================
