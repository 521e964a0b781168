---------------------------- MODULE RepliesProofs ---------------------------
(* Of the native replies: what is reported is what the networks give, and the*)
(* audits pass nothing else.  Of the value controllers: a value is copied out*)
(* of memory in one piece, no budget cuts it, and a trajectory that fits is  *)
(* replayed to its end.  For all vocabularies, panels, networks, values,     *)
(* budgets and prompts, and whatever the networks answer and the caller does.*)
EXTENDS Replies, InductionProofs, SequenceTheorems, FiniteSetTheorems, TLAPS

(* A row for each of the cases, and no other.                                *)
LEMMA OfCases ==
  ASSUME NEW S \in SUBSET Cases
  PROVE  /\ Of(S) \in Seq(S)
         /\ \A c \in S : \E j \in 1..Len(Of(S)) : Of(S)[j] = c
<1>1. PICK n \in Nat : n = Cardinality(Cases)
  BY NativeConstants, FS_CardinalityType
<1>2. Cases = 1..n
  BY <1>1, NativeConstants
<1>3. PICK ss : ss = [c \in 1..n |-> IF c \in S THEN <<c>> ELSE <<>>]
  OBVIOUS
<1>4. ss \in Seq(Seq(S)) /\ Len(ss) = n
  <2>1. ASSUME NEW c \in 1..n PROVE (IF c \in S THEN <<c>> ELSE <<>>) \in Seq(S)
    OBVIOUS
  <2> QED BY <1>3, <2>1
<1>5. PICK of : of = FlattenSeq(ss)
  OBVIOUS
<1>6. Of(S) = of
  BY <1>1, <1>3, <1>5 DEF Of
<1>7. of \in Seq(S)
  BY <1>4, <1>5, FlattenPlaces
<1>8. ASSUME NEW c \in S PROVE \E j \in 1..Len(of) : of[j] = c
  <2>1. c \in 1..n /\ ss[c] = <<c>> /\ Len(ss[c]) = 1 /\ ss[c][1] = c
    BY <1>2, <1>3
  <2>2. PICK a : a = FlattenSeq(SubSeq(ss, 1, c - 1))
    OBVIOUS
  <2>3. /\ a \in Seq(S) /\ Len(a) + Len(ss[c]) <= Len(of)
        /\ \A k \in 1..Len(ss[c]) : of[Len(a) + k] = ss[c][k]
    <3>1. c \in 1..Len(ss)
      BY <1>4, <2>1
    <3>2. LET d == FlattenSeq(SubSeq(ss, 1, c - 1))  e == FlattenSeq(ss) IN
          /\ d \in Seq(S) /\ Len(d) + Len(ss[c]) <= Len(e)
          /\ \A k \in 1..Len(ss[c]) : e[Len(d) + k] = ss[c][k]
      BY <1>4, <3>1, FlattenPlaces
    <3> QED BY <1>5, <2>2, <3>2
  <2>4. 1 \in 1..Len(ss[c]) /\ Len(a) \in Nat
    BY <2>1, <2>3
  <2>5. of[Len(a) + 1] = c /\ Len(a) + 1 <= Len(of)
    BY <2>1, <2>3, <2>4
  <2> QED BY <1>7, <2>4, <2>5
<1> QED BY <1>6, <1>7, <1>8

(* A prefix is a sequence of tokens that are no stops and leave room for one.*)
LEMMA ContextsAre ==
  /\ \A p \in Seq(Vocabulary) :
       Len(p) < MaxNewTokens /\ (\A i \in 1..Len(p) : p[i] \notin Stops) => p \in Contexts
  /\ Prompt \in Contexts
<1>1. ASSUME NEW p \in Seq(Vocabulary), Len(p) < MaxNewTokens, \A i \in 1..Len(p) : p[i] \notin Stops
      PROVE  p \in Contexts
  <2>1. PICK n \in Nat : n = Len(p)
    OBVIOUS
  <2>2. n \in 0..(MaxNewTokens - 1)
    BY <1>1, <2>1, NativeConstants
  <2>3. p \in [1..n -> Vocabulary \ Stops]
    BY <1>1, <2>1
  <2> QED BY <2>2, <2>3 DEF Contexts
<1>2. <<>> \in Seq(Vocabulary) /\ Len(<<>>) = 0
  OBVIOUS
<1>3. <<>> \in Contexts
  <2>1. PICK p \in Seq(Vocabulary) : p = <<>> /\ Len(p) = 0
    BY <1>2
  <2>2. Len(p) < MaxNewTokens /\ \A i \in 1..Len(p) : p[i] \notin Stops
    BY <2>1, NativeConstants
  <2>3. p \in Contexts
    BY <1>1, <2>2
  <2> QED BY <2>1, <2>3
<1> QED BY <1>1, <1>3 DEF Prompt
-----------------------------------------------------------------------------
(* The batch without memory: how far it is and what each case has.           *)
RawRow == [active : Seq(Cases), rows : Seq(Vocabulary)]
BaselineType ==
  /\ network \in Networks /\ room \in Rooms
  /\ baseline \in [pc : {"run", "reported", "raised"}, step : 0..Limit, done : SUBSET Cases,
                   generated : [Cases -> Seq(Vocabulary)],
                   raw : Seq(RawRow)]

(* The reply of a case so far: the network's, ended by a stop token or not yet.*)
CaseOK(c, t) ==
  /\ Len(t) <= baseline.step
  /\ c \notin baseline.done => Len(t) = baseline.step
  /\ c \in baseline.done => Len(t) >= 1 /\ t[Len(t)] \in Stops
  /\ \A i \in 1..Len(t) :
       /\ t[i] = network.base[c][SubSeq(t, 1, i - 1)]
       /\ t[i] \in Stops => i = Len(t) /\ c \in baseline.done

(* The rows of a step are the tokens the cases have there.                   *)
RawOK(raw, replies) ==
  \A i \in DOMAIN raw :
    /\ raw[i].active = Of({c \in Cases : Len(replies[c]) >= i})
    /\ \A j \in DOMAIN raw[i].active : raw[i].rows[j] = replies[raw[i].active[j]][i]

BaselineOK ==
  /\ Len(baseline.raw) = baseline.step
  /\ baseline.step > 0 => \E c \in Cases : Len(baseline.generated[c]) = baseline.step
  /\ \A c \in Cases : CaseOK(c, baseline.generated[c])
  /\ RawOK(baseline.raw, baseline.generated)
  /\ baseline.pc = "reported" => baseline.done = Cases \/ baseline.step = MaxNewTokens

(* A reply that has not ended, token by token, and one with another token.   *)
Goes(t, f, n) ==
  /\ t \in Seq(Vocabulary) /\ f \in Answers /\ n \in Nat /\ Len(t) = n /\ n < MaxNewTokens
  /\ \A i \in 1..n : t[i] = f[SubSeq(t, 1, i - 1)]
  /\ \A i \in 1..n : t[i] \notin Stops
Went(t, f, n, long) ==
  /\ f[t] \in Vocabulary /\ long \in Seq(Vocabulary) /\ Len(long) = n + 1 /\ long[n + 1] = f[t]
  /\ \A i \in 1..n : long[i] = t[i]
  /\ \A i \in 1..(n + 1) : /\ SubSeq(long, 1, i - 1) = SubSeq(t, 1, i - 1)
                           /\ long[i] = f[SubSeq(long, 1, i - 1)]

(* The reply of a case after another step.                                   *)
LEMMA CaseStep ==
  ASSUME NEW t, NEW f, NEW n, Goes(t, f, n)
  PROVE  Went(t, f, n, Append(t, f[t]))
<1> USE DEF Goes
<1>0. PICK long : long = Append(t, f[t])
  OBVIOUS
<1>1. t \in Contexts
  BY ContextsAre
<1>2. f[t] \in Vocabulary
  BY <1>1 DEF Answers
<1>3. /\ long \in Seq(Vocabulary) /\ Len(long) = n + 1 /\ long[n + 1] = f[t]
      /\ \A i \in 1..n : long[i] = t[i]
  BY <1>0, <1>2
<1>4. ASSUME NEW i \in 1..(n + 1)
      PROVE  SubSeq(long, 1, i - 1) = SubSeq(t, 1, i - 1)
  BY <1>3
<1>5. SubSeq(t, 1, n) = t
  OBVIOUS
<1>6. ASSUME NEW i \in 1..(n + 1) PROVE long[i] = f[SubSeq(long, 1, i - 1)]
  <2>1. CASE i = n + 1
    <3>1. SubSeq(long, 1, i - 1) = t
      <4>1. i - 1 = n
        BY <2>1
      <4> QED BY <1>4, <1>5, <4>1
    <3> QED BY <1>3, <2>1, <3>1
  <2>2. CASE i # n + 1
    <3>1. i \in 1..n
      BY <2>2
    <3>2. SubSeq(long, 1, i - 1) = SubSeq(t, 1, i - 1)
      BY <1>4
    <3> QED BY <1>3, <3>1, <3>2
  <2> QED BY <2>1, <2>2
<1> QED BY <1>0, <1>2, <1>3, <1>4, <1>6 DEF Went
-----------------------------------------------------------------------------
(* The limit is the context's or that of new tokens.                         *)
LEMMA LimitIs ==
  ASSUME room \in Rooms
  PROVE  /\ Limit \in Nat \ {0} /\ room \in Nat \ {0} /\ Limit <= room /\ Limit <= MaxNewTokens
         /\ Limit = room \/ Limit = MaxNewTokens
  BY NativeConstants DEF Limit

LEMMA NetworkIs ==
  ASSUME network \in Networks
  PROVE  /\ \A c \in Cases : network.base[c] \in Answers
         /\ network.content \in Answers /\ network.unsure \in Answers
         /\ network.route \in [Contexts -> 0..2]
  BY NativeConstants

(* Another step of the batch.                                                *)
LEMMA BaselineStepOK ==
  ASSUME BaselineType, BaselineOK, BaselineStep
  PROVE  BaselineType' /\ BaselineOK'
<1>1. PICK b : b = baseline
  OBVIOUS
<1>2. PICK next : next = baseline'
  OBVIOUS
<1>3. /\ b \in [pc : {"run", "reported", "raised"}, step : 0..Limit, done : SUBSET Cases,
                generated : [Cases -> Seq(Vocabulary)],
                raw : Seq(RawRow)]
      /\ network' = network /\ room' = room
  BY <1>1 DEF BaselineType, BaselineStep
<1>4. Limit' = Limit
  BY <1>3 DEF Limit
<1>5. CASE next = [b EXCEPT !.pc = "reported"] /\ (Active = <<>> \/ b.step = MaxNewTokens)
  <2>1. /\ next.pc = "reported" /\ next.step = b.step /\ next.done = b.done
        /\ next.generated = b.generated /\ next.raw = b.raw
    BY <1>3, <1>5
  <2>2. b.done = Cases \/ b.step = MaxNewTokens
    <3>1. Active = <<>> => Cases \ b.done = {}
      <4>1. PICK d \in SUBSET Cases : d = Cases \ b.done
        OBVIOUS
      <4>2. Active = Of(d)
        BY <1>1, <4>1 DEF Active
      <4>3. \A c \in d : \E j \in 1..Len(Of(d)) : Of(d)[j] = c
        BY OfCases
      <4>4. Active = <<>> => 1..Len(Of(d)) = {}
        BY <4>2
      <4> QED BY <4>1, <4>3, <4>4
    <3> QED BY <1>3, <1>5, <3>1
  <2>3. BaselineType'
    BY <1>2, <1>3, <1>4, <1>5 DEF BaselineType
  <2>4. \A c \in Cases : CaseOK(c, baseline.generated[c]) => CaseOK(c, baseline.generated[c])'
    BY <1>1, <1>2, <1>3, <2>1 DEF CaseOK
  <2>5. RawOK(baseline.raw, baseline.generated)'
    <3>1. RawOK(next.raw, next.generated)
      BY <1>1, <2>1 DEF BaselineOK
    <3> QED BY <1>2, <3>1 DEF RawOK
  <2> QED BY <1>1, <1>2, <2>1, <2>2, <2>3, <2>4, <2>5 DEF BaselineOK
<1>6. CASE next = [b EXCEPT !.pc = "raised"]
  <2>1. /\ next.pc = "raised" /\ next.step = b.step /\ next.done = b.done
        /\ next.generated = b.generated /\ next.raw = b.raw
    BY <1>3, <1>6
  <2>3. BaselineType'
    BY <1>2, <1>3, <1>4, <1>6 DEF BaselineType
  <2>4. \A c \in Cases : CaseOK(c, baseline.generated[c]) => CaseOK(c, baseline.generated[c])'
    BY <1>1, <1>2, <1>3, <2>1 DEF CaseOK
  <2>5. RawOK(baseline.raw, baseline.generated)'
    <3>1. RawOK(next.raw, next.generated)
      BY <1>1, <2>1 DEF BaselineOK
    <3> QED BY <1>2, <3>1 DEF RawOK
  <2> QED BY <1>1, <1>2, <2>1, <2>3, <2>4, <2>5 DEF BaselineOK
<1>7. CASE /\ Active # <<>> /\ b.step # MaxNewTokens /\ b.step < room
           /\ next = [b EXCEPT
                !.step = @ + 1,
                !.raw = Append(@, [active |-> Active, rows |-> Logits]),
                !.generated = [c \in Cases |-> IF c \in ToSet(Active) THEN Advance(c) ELSE @[c]],
                !.done = @ \union {c \in ToSet(Active) : Logits[Row(c)] \in Stops}]
  <2>1. PICK n \in Nat : n = b.step /\ n < Limit /\ n < MaxNewTokens
    <3>1. b.step \in Nat /\ b.step <= Limit
      BY <1>3, LimitIs DEF BaselineType
    <3>2. Limit \in Nat /\ Limit <= MaxNewTokens /\ (Limit = room \/ Limit = MaxNewTokens)
      BY LimitIs DEF BaselineType
    <3>3. b.step < Limit
      BY <1>7, <3>1, <3>2
    <3> QED BY <3>1, <3>2, <3>3, NativeConstants
  <2>2. PICK rest : rest = Cases \ b.done
    OBVIOUS
  <2>3. PICK active \in Seq(rest) : active = Active
    BY <1>1, <2>2, OfCases DEF Active
  <2>4. \A c \in rest : \E j \in 1..Len(active) : active[j] = c
    BY <1>1, <2>2, <2>3, OfCases DEF Active
  <2>5. ToSet(active) = rest
    BY <2>3, <2>4 DEF ToSet
  <2>6. PICK g \in [Cases -> Seq(Vocabulary)] : g = b.generated
    BY <1>3
  <2>7. PICK f : f = [c \in Cases |-> network.base[c]]
    OBVIOUS
  <2>8. PICK rows : rows = [i \in DOMAIN active |-> f[active[i]][g[active[i]]]]
    OBVIOUS
  <2>9. Logits = rows
    <3>1. \A i \in DOMAIN active : active[i] \in Cases
      BY <2>2, <2>3
    <3> QED BY <1>1, <2>3, <2>6, <2>7, <2>8, <3>1 DEF Logits
  <2>10. \A c \in rest : Row(c) \in DOMAIN active /\ active[Row(c)] = c
    BY <2>3, <2>4 DEF Row
  <2>11. PICK long : long = [c \in Cases |-> IF c \in rest THEN Append(g[c], f[c][g[c]]) ELSE g[c]]
    OBVIOUS
  <2>12. ASSUME NEW c \in rest PROVE Logits[Row(c)] = f[c][g[c]] /\ Advance(c) = long[c]
    <3>1. Logits[Row(c)] = f[c][g[c]]
      BY <2>8, <2>9, <2>10
    <3> QED BY <1>1, <2>2, <2>6, <2>11, <3>1 DEF Advance
  <2>13. PICK stopped : stopped = {c \in rest : f[c][g[c]] \in Stops}
    OBVIOUS
  <2>14. /\ next.pc = b.pc /\ next.step = n + 1 /\ next.done = b.done \union stopped
         /\ next.generated = long
         /\ next.raw = Append(b.raw, [active |-> active, rows |-> rows])
    <3>1. [c \in Cases |-> IF c \in ToSet(Active) THEN Advance(c) ELSE b.generated[c]] = long
      BY <2>2, <2>3, <2>5, <2>6, <2>11, <2>12
    <3>2. {c \in ToSet(Active) : Logits[Row(c)] \in Stops} = stopped
      BY <2>3, <2>5, <2>12, <2>13
    <3>3. next = [b EXCEPT !.step = n + 1,
                           !.raw = Append(b.raw, [active |-> active, rows |-> rows]),
                           !.generated = long, !.done = b.done \union stopped]
      BY <1>7, <2>1, <2>3, <2>9, <3>1, <3>2
    <3> QED BY <1>3, <3>3
  <2>15. ASSUME NEW c \in Cases
         PROVE  /\ g[c] \in Seq(Vocabulary) /\ f[c] \in Answers /\ CaseOK(c, g[c])
                /\ c \in rest => /\ Len(g[c]) = n
                                 /\ \A i \in 1..n : g[c][i] = f[c][SubSeq(g[c], 1, i - 1)] /\ g[c][i] \notin Stops
    <3>1. f[c] \in Answers /\ f[c] = network.base[c]
      BY <2>7, NetworkIs DEF BaselineType
    <3>2. CaseOK(c, g[c])
      BY <1>1, <2>6 DEF BaselineOK
    <3> QED BY <1>1, <2>1, <2>2, <3>1, <3>2 DEF CaseOK
  <2>16. ASSUME NEW c \in rest
         PROVE  /\ f[c][g[c]] \in Vocabulary /\ long[c] \in Seq(Vocabulary)
                /\ Len(long[c]) = n + 1 /\ long[c][n + 1] = f[c][g[c]]
                /\ \A i \in 1..n : long[c][i] = g[c][i]
                /\ \A i \in 1..(n + 1) : long[c][i] = f[c][SubSeq(long[c], 1, i - 1)]
    <3>1. c \in Cases /\ long[c] = Append(g[c], f[c][g[c]])
      BY <2>2, <2>11
    <3>2. Goes(g[c], f[c], n)
      BY <2>1, <2>15, <3>1 DEF Goes
    <3> QED BY <3>1, <3>2, CaseStep DEF Went
  <2>17. \A c \in Cases \ rest : long[c] = g[c]
    BY <2>11
  <2>18. long \in [Cases -> Seq(Vocabulary)] /\ rows \in Seq(Vocabulary) /\ stopped \subseteq Cases
    <3>1. \A c \in Cases : long[c] \in Seq(Vocabulary)
      BY <2>15, <2>16, <2>17
    <3>2. \A i \in DOMAIN active : rows[i] \in Vocabulary
      BY <2>3, <2>8, <2>16
    <3>3. DOMAIN rows = 1..Len(active)
      BY <2>3, <2>8
    <3> QED BY <2>2, <2>3, <2>8, <2>11, <2>13, <3>1, <3>2, <3>3
  <2>19. BaselineType'
    <3>1. next \in [pc : {"run", "reported", "raised"}, step : 0..Limit, done : SUBSET Cases,
                    generated : [Cases -> Seq(Vocabulary)],
                    raw : Seq(RawRow)]
      <4>1. active \in Seq(Cases)
        BY <2>2, <2>3
      <4>2. PICK more \in Seq(RawRow) :
              more = Append(b.raw, [active |-> active, rows |-> rows])
        <5>1. [active |-> active, rows |-> rows] \in RawRow
          BY <2>18, <4>1 DEF RawRow
        <5>2. PICK row \in RawRow : row = [active |-> active, rows |-> rows]
          BY <5>1
        <5>3. PICK old \in Seq(RawRow) : old = b.raw
          BY <1>3
        <5>4. Append(old, row) \in Seq(RawRow)
          OBVIOUS
        <5> QED BY <5>2, <5>3, <5>4
      <4>3. n + 1 \in 0..Limit
        BY <2>1, LimitIs DEF BaselineType
      <4>4. b.done \union stopped \in SUBSET Cases
        BY <1>3, <2>18
      <4>5. next = [b EXCEPT !.step = n + 1, !.raw = more, !.generated = long,
                             !.done = b.done \union stopped]
        BY <1>3, <1>7, <2>14, <4>2
      <4> QED BY <1>3, <2>18, <4>2, <4>3, <4>4, <4>5
    <3> QED BY <1>2, <1>3, <1>4, <3>1 DEF BaselineType
  <2>20. ASSUME NEW c \in Cases PROVE CaseOK(c, baseline.generated[c])'
    <3>1. CASE c \in rest
      <4>1. long[c][n + 1] \in Stops <=> c \in next.done
        BY <2>2, <2>13, <2>14, <2>16, <3>1
      <4>2. \A i \in 1..n : long[c][i] \notin Stops
        BY <2>15, <2>16, <3>1
      <4>3. Len(long[c]) = n + 1 /\ next.step = n + 1 /\ network'.base[c] = f[c]
        BY <1>3, <2>7, <2>14, <2>16, <3>1
      <4>4. \A i \in 1..(n + 1) : i = n + 1 \/ i \in 1..n
        OBVIOUS
      <4> QED BY <1>2, <2>14, <2>16, <3>1, <4>1, <4>2, <4>3, <4>4 DEF CaseOK
    <3>2. CASE c \notin rest
      <4>1. c \in b.done /\ c \in next.done /\ long[c] = g[c]
        BY <2>2, <2>14, <2>17, <3>2
      <4>2. Len(g[c]) \in Nat /\ Len(g[c]) <= n
        BY <1>1, <2>1, <2>15 DEF CaseOK
      <4> QED BY <1>1, <1>2, <1>3, <2>14, <2>15, <4>1, <4>2 DEF CaseOK
    <3> QED BY <3>1, <3>2
  <2>21. PICK more : more = next.raw
    OBVIOUS
  <2>22. /\ Len(b.raw) = n /\ Len(more) = n + 1 /\ DOMAIN more = 1..(n + 1)
         /\ more[n + 1] = [active |-> active, rows |-> rows]
         /\ \A i \in 1..n : more[i] = b.raw[i] /\ i \in DOMAIN b.raw
    BY <1>1, <1>3, <2>1, <2>14, <2>21 DEF BaselineOK
  <2>23. RawOK(more, long)
    <3> SUFFICES ASSUME NEW i \in 1..(n + 1)
                 PROVE /\ more[i].active = Of({c \in Cases : Len(long[c]) >= i})
                       /\ \A j \in DOMAIN more[i].active : more[i].rows[j] = long[more[i].active[j]][i]
      BY <2>22 DEF RawOK
    <3>1. CASE i = n + 1
      <4>1. {c \in Cases : Len(long[c]) >= i} = rest
        <5>1. ASSUME NEW c \in Cases \ rest PROVE ~(Len(long[c]) >= n + 1)
          BY <1>1, <2>1, <2>15, <2>17 DEF CaseOK
        <5> QED BY <2>2, <2>16, <3>1, <5>1
      <4>2. active = Of(rest)
        BY <1>1, <2>2, <2>3 DEF Active
      <4>3. \A j \in DOMAIN active : rows[j] = long[active[j]][n + 1]
        BY <2>3, <2>8, <2>16
      <4>4. more[i].active = active /\ more[i].rows = rows
        BY <2>22, <3>1
      <4> QED BY <3>1, <4>1, <4>2, <4>3, <4>4
    <3>2. CASE i # n + 1
      <4>1. i \in 1..n
        BY <3>2
      <4>2. {c \in Cases : Len(long[c]) >= i} = {c \in Cases : Len(g[c]) >= i}
        BY <2>15, <2>16, <2>17, <4>1
      <4>3. /\ b.raw[i].active = Of({c \in Cases : Len(g[c]) >= i})
            /\ \A j \in DOMAIN b.raw[i].active : b.raw[i].rows[j] = g[b.raw[i].active[j]][i]
        BY <1>1, <2>6, <2>22, <4>1 DEF BaselineOK, RawOK
      <4>4. ASSUME NEW j \in DOMAIN b.raw[i].active
            PROVE  g[b.raw[i].active[j]][i] = long[b.raw[i].active[j]][i]
        <5>1. b.raw[i].active \in Seq(Cases)
          <6>1. b.raw \in Seq(RawRow) /\ i \in DOMAIN b.raw
            BY <1>3, <2>22, <4>1
          <6>2. b.raw[i] \in RawRow
            BY <6>1
          <6> QED BY <6>2 DEF RawRow
        <5>2. b.raw[i].active[j] \in Cases
          BY <5>1
        <5> QED BY <2>16, <2>17, <4>1, <5>2
      <4> QED BY <2>22, <4>1, <4>2, <4>3, <4>4
    <3> QED BY <3>1, <3>2
  <2>24. \E c \in Cases : Len(long[c]) = n + 1
    <3>1. rest # {}
      BY <1>7, <2>3
    <3> QED BY <2>2, <2>16, <3>1
  <2>25. next.pc # "reported"
    BY <1>1, <2>14 DEF BaselineStep
  <2> QED BY <1>2, <2>14, <2>19, <2>20, <2>21, <2>22, <2>23, <2>24, <2>25 DEF BaselineOK
<1>8. b.step \in Nat /\ room \in Nat
  BY <1>3, LimitIs DEF BaselineType
<1> QED BY <1>1, <1>2, <1>5, <1>6, <1>7, <1>8 DEF BaselineStep
-----------------------------------------------------------------------------
(* A whole reply that f gives: ended by a stop token or by the limit.        *)
Whole(t, f) ==
  /\ t \in Seq(Vocabulary) /\ Len(t) \in 1..Limit
  /\ \A i \in 1..Len(t) :
       /\ t[i] = f[SubSeq(t, 1, i - 1)]
       /\ t[i] \in Stops => i = Len(t)
  /\ t[Len(t)] \notin Stops => Len(t) = Limit

(* There is only one.                                                        *)
LEMMA OnlyOne ==
  ASSUME room \in Rooms, NEW f, NEW s, NEW t, Whole(s, f), Whole(t, f)
  PROVE  s = t
<1>1. PICK S : S = {n \in Nat : \A i \in 1..n : i <= Len(s) /\ i <= Len(t) => s[i] = t[i]}
  OBVIOUS
<1>2. s \in Seq(Vocabulary) /\ t \in Seq(Vocabulary) /\ Len(s) \in Nat \ {0} /\ Len(t) \in Nat \ {0}
  BY LimitIs DEF Whole
<1>3. 0 \in S
  BY <1>1
<1>4. ASSUME NEW n \in Nat, n \in S PROVE n + 1 \in S
  <2>1. \A i \in 1..n : i <= Len(s) /\ i <= Len(t) => s[i] = t[i]
    BY <1>1, <1>4
  <2>2. CASE n + 1 <= Len(s) /\ n + 1 <= Len(t)
    <3>1. SubSeq(s, 1, n) = SubSeq(t, 1, n)
      BY <1>2, <2>1, <2>2
    <3>2. n + 1 \in 1..Len(s) /\ n + 1 \in 1..Len(t) /\ (n + 1) - 1 = n
      BY <1>2, <2>2
    <3>3. s[n + 1] = f[SubSeq(s, 1, n)] /\ t[n + 1] = f[SubSeq(t, 1, n)]
      BY <3>2 DEF Whole
    <3>4. \A i \in 1..(n + 1) : i = n + 1 \/ i \in 1..n
      OBVIOUS
    <3>5. s[n + 1] = t[n + 1]
      BY <3>1, <3>3
    <3>6. \A i \in 1..(n + 1) : i <= Len(s) /\ i <= Len(t) => s[i] = t[i]
      BY <2>1, <3>4, <3>5
    <3> QED BY <1>1, <3>6
  <2>3. CASE ~(n + 1 <= Len(s) /\ n + 1 <= Len(t))
    <3>1. \A i \in 1..(n + 1) : i = n + 1 \/ i \in 1..n
      OBVIOUS
    <3> QED BY <1>1, <2>1, <2>3, <3>1
  <2> QED BY <2>2, <2>3
<1>5. \A n \in Nat : n \in S
  BY <1>3, <1>4, Induction
<1>6. \A i \in Nat \ {0} : i <= Len(s) /\ i <= Len(t) => s[i] = t[i]
  BY <1>1, <1>5
<1>7. Len(s) = Len(t)
  <2>1. ASSUME NEW a, NEW b, Whole(a, f), Whole(b, f), Len(a) < Len(b), a[Len(a)] = b[Len(a)]
        PROVE  FALSE
    <3>1. Len(a) \in 1..Len(b) /\ Len(a) # Len(b) /\ Len(b) <= Limit
      BY <2>1, LimitIs DEF Whole
    <3>2. b[Len(a)] \notin Stops
      BY <2>1, <3>1 DEF Whole
    <3>3. Len(a) = Limit
      BY <2>1, <3>2 DEF Whole
    <3> QED BY <2>1, <3>1, <3>3
  <2>2. Len(s) < Len(t) => s[Len(s)] = t[Len(s)]
    BY <1>2, <1>6
  <2>3. Len(t) < Len(s) => t[Len(t)] = s[Len(t)]
    BY <1>2, <1>6
  <2>4. ~(Len(s) < Len(t)) /\ ~(Len(t) < Len(s))
    BY <2>1, <2>2, <2>3
  <2> QED BY <1>2, <2>4
<1>8. \A i \in 1..Len(s) : s[i] = t[i]
  BY <1>2, <1>6, <1>7
<1> QED BY <1>2, <1>7, <1>8

(* What the batch reports is such a reply, case by case, and passes.         *)
LEMMA BaselineWhole ==
  ASSUME BaselineType, BaselineOK, baseline.pc = "reported"
  PROVE  \A c \in Cases : Whole(baseline.generated[c], network.base[c])
<1> SUFFICES ASSUME NEW c \in Cases PROVE Whole(baseline.generated[c], network.base[c])
  OBVIOUS
<1>1. PICK t \in Seq(Vocabulary) : t = baseline.generated[c]
  BY DEF BaselineType
<1>2. CaseOK(c, t) /\ (baseline.done = Cases \/ baseline.step = MaxNewTokens)
  BY <1>1 DEF BaselineOK
<1>3. baseline.step \in Nat /\ baseline.step <= Limit /\ Limit \in Nat /\ Limit <= MaxNewTokens
  BY LimitIs DEF BaselineType
<1>4. Len(t) \in Nat /\ Len(t) <= Limit
  BY <1>2, <1>3 DEF CaseOK
<1>5. CASE c \in baseline.done
  <2>1. Len(t) >= 1 /\ t[Len(t)] \in Stops
    BY <1>2, <1>5 DEF CaseOK
  <2> QED BY <1>1, <1>2, <1>4, <2>1, <1>3 DEF Whole, CaseOK
<1>6. CASE c \notin baseline.done
  <2>1. Len(t) = MaxNewTokens /\ Len(t) = Limit /\ Len(t) >= 1
    BY <1>2, <1>3, <1>6, NativeConstants DEF CaseOK
  <2> QED BY <1>1, <1>2, <1>3, <1>4, <2>1 DEF Whole, CaseOK
<1> QED BY <1>5, <1>6

LEMMA BaselineReported ==
  ASSUME BaselineType, BaselineOK, baseline.pc = "reported"
  PROVE  /\ BaselinePasses
         /\ \A c \in Cases :
              LET base(p) == network.base[c][p] IN IsGreedy(baseline.generated[c], base)
<1>1. PICK g \in [Cases -> Seq(Vocabulary)] : g = baseline.generated
  BY DEF BaselineType
<1>2. PICK n \in Nat : n = baseline.step /\ n <= Limit /\ Len(baseline.raw) = n
  BY LimitIs DEF BaselineType, BaselineOK
<1>3. \A c \in Cases : Whole(g[c], network.base[c])
  BY <1>1, BaselineWhole
<1>4. ASSUME NEW c \in Cases
      PROVE  LET base(p) == network.base[c][p] IN IsGreedy(g[c], base)
  BY <1>3 DEF IsGreedy, Whole, Last
<1>5. ASSUME NEW c \in Cases PROVE EndsWell(g[c]) /\ Len(g[c]) <= n
  <2>1. CaseOK(c, g[c]) /\ Whole(g[c], network.base[c])
    BY <1>1, <1>3 DEF BaselineOK
  <2>2. Len(g[c]) \in 1..MaxNewTokens /\ Len(g[c]) <= n
    BY <1>1, <1>2, <2>1, LimitIs, NativeConstants DEF CaseOK, Whole, BaselineType
  <2>3. \A i \in DOMAIN g[c] : g[c][i] \in Stops => i = Len(g[c])
    BY <2>1 DEF Whole
  <2>4. g[c][Len(g[c])] \notin Stops => Len(g[c]) = MaxNewTokens
    <3>1. g[c][Len(g[c])] \notin Stops => c \notin baseline.done
      BY <2>1 DEF CaseOK
    <3>2. baseline.done = Cases \/ n = MaxNewTokens
      BY <1>2 DEF BaselineOK
    <3> QED BY <1>2, <2>1, <3>1, <3>2 DEF CaseOK
  <2> QED BY <2>2, <2>3, <2>4 DEF EndsWell, Last
<1>6. n > 0
  <2>1. Memorized \in Cases
    BY NativeConstants
  <2>2. Len(g[Memorized]) >= 1 /\ Len(g[Memorized]) <= n /\ Len(g[Memorized]) \in Nat
    BY <1>3, <1>5, <2>1 DEF Whole
  <2> QED BY <2>2
<1>7. \E c \in Cases : Len(g[c]) = n
  BY <1>1, <1>2, <1>6 DEF BaselineOK
<1>8. RawOK(baseline.raw, g)
  BY <1>1 DEF BaselineOK
<1> QED BY <1>1, <1>2, <1>4, <1>5, <1>7, <1>8 DEF BaselinePasses, RawOK
-----------------------------------------------------------------------------
(* The steps of a reply and their files, and what either end makes of them.  *)
Step == [prefix : Seq(Vocabulary), token : Vocabulary, route : 0..2]
Residuals == {<<"zero">>} \union {<<"memory", k, p>> : k \in 0..2, p \in Seq(Vocabulary)}
StepFile == [prefix : Seq(Vocabulary), residual : Residuals, at : Seq(Vocabulary), token : Vocabulary]
Reasons == {"none", "stop_token", "max_new_tokens", "context_limit"}

ReplyType ==
  /\ backend \in Backends /\ source \in BOOLEAN /\ intact \subseteq Binaries
  /\ reply \in [pc : {"none", "check", "call", "finish", "done", "raised"}, tokens : Seq(Vocabulary),
                decision : 0..3, steps : Seq(Step), reason : Reasons]
  /\ wire \in Seq(StepFile) /\ changed \in BOOLEAN
  /\ report \in [made : BOOLEAN, steps : Seq(Step), digests : Seq(StepFile),
                 tokens : Seq(Vocabulary), reason : Reasons]

(* How far a reply is, and how it ends.                                      *)
ProgressOK ==
  LET t == reply.tokens IN
  /\ Len(reply.steps) = Len(t) /\ Len(wire) = Len(t) /\ Len(t) <= Limit
  /\ \A i \in 1..Len(t) : t[i] \in Stops => i = Len(t)
  /\ reply.pc = "none" => t = <<>>
  /\ reply.pc # "none" => baseline.pc = "reported"
  /\ reply.pc \in {"none", "check", "call"} =>
       Len(t) < MaxNewTokens /\ \A i \in 1..Len(t) : t[i] \notin Stops
  /\ reply.pc = "call" => Len(t) < room
  /\ reply.pc \in {"finish", "done"} =>
       /\ Len(t) >= 1
       /\ t[Len(t)] \notin Stops => Len(t) = Limit
       /\ reply.reason = IF t[Len(t)] \in Stops THEN "stop_token"
                         ELSE IF Len(t) = MaxNewTokens THEN "max_new_tokens" ELSE "context_limit"

(* The route of a prefix, if no file was replaced.                           *)
RouteAt(p) == IF backend = "continuous" THEN network.route[p] ELSE network.route[Prompt]
StepAt(t, i) ==
  LET p == SubSeq(t, 1, i - 1) IN [prefix |-> p, token |-> t[i], route |-> RouteAt(p)]
FileAt(t, i) ==
  LET p == SubSeq(t, 1, i - 1) IN
  [prefix |-> p, residual |-> Residual(RouteAt(p), p), at |-> p, token |-> t[i]]

(* As long as no file was replaced a reply is the networks', with the route  *)
(* of its prompt; and so are its files while none was changed.               *)
HonestOK ==
  intact = Binaries =>
    LET t == reply.tokens IN
    /\ backend = "continuous" => reply.decision = Undecided
    /\ backend # "continuous" => reply.decision \in {Undecided, network.route[Prompt]}
    /\ backend # "continuous" /\ t # <<>> => reply.decision = network.route[Prompt]
    /\ \A i \in 1..Len(t) :
         /\ t[i] = ByRoute(SubSeq(t, 1, i - 1))
         /\ reply.steps[i] = StepAt(t, i)
    /\ ~changed => \A i \in 1..Len(t) : wire[i] = FileAt(t, i)

(* A report is of such a reply, and one file at most is not as it was.       *)
ReportOK ==
  /\ report.made <=> reply.pc = "done"
  /\ report.made => /\ intact = Binaries
                    /\ Len(report.steps) = Len(reply.tokens)
                    /\ report.tokens = reply.tokens \/ report.steps = reply.steps
                    /\ report.reason = reply.reason
  /\ report.made /\ ~changed =>
       report.tokens = reply.tokens /\ report.steps = reply.steps /\ report.digests = wire
  /\ ~report.made => verdict = "none"

NativeInv ==
  BaselineType /\ BaselineOK /\ ReplyType /\ ProgressOK /\ HonestOK /\ ReportOK /\ AuditVouches
-----------------------------------------------------------------------------
LEMMA NativeInitOK == NativeInit => NativeInv
<1> SUFFICES ASSUME NativeInit PROVE NativeInv
  OBVIOUS
<1>1. network \in Networks /\ room \in Rooms /\ Limit \in Nat \ {0}
  BY LimitIs DEF NativeInit
<1>2. BaselineType
  <2>1. /\ baseline = [pc |-> "run", step |-> 0, done |-> {}, generated |-> [c \in Cases |-> Prompt],
                       raw |-> << >>]
        /\ [c \in Cases |-> Prompt] \in [Cases -> Seq(Vocabulary)] /\ << >> \in Seq(RawRow)
        /\ 0 \in 0..Limit /\ {} \in SUBSET Cases
    BY <1>1 DEF NativeInit, Prompt
  <2> QED BY <1>1, <2>1 DEF BaselineType
<1>3. BaselineOK
  <2>1. /\ baseline.step = 0 /\ baseline.done = {} /\ baseline.pc = "run" /\ baseline.raw = << >>
        /\ \A c \in Cases : baseline.generated[c] = << >>
    BY DEF NativeInit, Prompt
  <2>2. \A c \in Cases : CaseOK(c, baseline.generated[c])
    BY <2>1 DEF CaseOK
  <2>3. RawOK(baseline.raw, baseline.generated)
    BY <2>1 DEF RawOK
  <2> QED BY <2>1, <2>2, <2>3 DEF BaselineOK
<1>4. /\ reply.pc = "none" /\ reply.tokens = << >> /\ reply.steps = << >> /\ reply.decision = 3
      /\ ~report.made /\ verdict = "none" /\ wire = << >>
  BY DEF NativeInit, Before, NoReport, Prompt, Undecided
<1>5. ReplyType
  <2>1. << >> \in Seq(Vocabulary) /\ << >> \in Seq(Step) /\ << >> \in Seq(StepFile) /\ 3 \in 0..3
    OBVIOUS
  <2>2. reply = [pc |-> "none", tokens |-> << >>, decision |-> 3, steps |-> << >>, reason |-> "none"]
    BY DEF NativeInit, Before, Prompt, Undecided
  <2>3. report = [made |-> FALSE, steps |-> << >>, digests |-> << >>, tokens |-> << >>,
                  reason |-> "none"]
    BY DEF NativeInit, NoReport
  <2>4. backend \in Backends /\ source \in BOOLEAN /\ intact \subseteq Binaries /\ changed \in BOOLEAN
    BY DEF NativeInit
  <2> QED BY <1>4, <2>1, <2>2, <2>3, <2>4 DEF ReplyType, Reasons
<1>6. ProgressOK
  BY <1>1, <1>4, NativeConstants DEF ProgressOK
<1>7. HonestOK
  BY <1>4 DEF HonestOK, Undecided
<1>8. ReportOK /\ AuditVouches
  BY <1>4 DEF ReportOK, AuditVouches
<1> QED BY <1>2, <1>3, <1>5, <1>6, <1>7, <1>8 DEF NativeInv

(* What is asked next is asked of a context the networks know.               *)
LEMMA PrefixIs ==
  ASSUME ReplyType, ProgressOK, reply.pc \in {"none", "check", "call"}
  PROVE  reply.tokens \in Contexts
  BY ContextsAre DEF ReplyType, ProgressOK

(* The baseline runs while there is no reply.                                *)
LEMMA BaselineStepInv == ASSUME NativeInv, BaselineStep PROVE NativeInv'
<1>1. BaselineType' /\ BaselineOK'
  BY BaselineStepOK DEF NativeInv
<1>2. UNCHANGED <<network, backend, source, room, intact, reply, wire, report, changed, verdict>>
  BY DEF BaselineStep
<1>3. reply.pc = "none" /\ ~report.made /\ verdict = "none"
  BY DEF BaselineStep, NativeInv, ProgressOK, ReportOK
<1>4. ReplyType' /\ ReportOK'
  BY <1>2 DEF NativeInv, ReplyType, ReportOK
<1>5. reply.tokens = << >> /\ Limit' = Limit
  BY <1>2, <1>3 DEF NativeInv, ProgressOK, Limit
<1>6. ProgressOK'
  BY <1>2, <1>3, <1>5 DEF NativeInv, ProgressOK
<1>7. HonestOK'
  BY <1>2, <1>5 DEF NativeInv, HonestOK
<1>8. AuditVouches'
  BY <1>2, <1>3 DEF AuditVouches
<1> QED BY <1>1, <1>4, <1>6, <1>7, <1>8 DEF NativeInv
-----------------------------------------------------------------------------
(* The batch and its networks stay as they are.                              *)
LEMMA BaselineKept ==
  ASSUME BaselineType, BaselineOK, UNCHANGED <<network, room, baseline>>
  PROVE  BaselineType' /\ BaselineOK' /\ Limit' = Limit
<1>1. network' = network /\ room' = room /\ baseline' = baseline
  OBVIOUS
<1>2. Limit' = Limit
  BY <1>1 DEF Limit
<1>3. BaselineType'
  BY <1>1, <1>2 DEF BaselineType
<1>4. ASSUME NEW c \in Cases PROVE CaseOK(c, baseline.generated[c])'
  <2>1. CaseOK(c, baseline.generated[c])
    BY DEF BaselineOK
  <2> QED BY <1>1, <2>1 DEF CaseOK
<1>5. RawOK(baseline.raw, baseline.generated)'
  <2>1. RawOK(baseline.raw, baseline.generated)
    BY DEF BaselineOK
  <2> QED BY <1>1, <2>1 DEF RawOK
<1> QED BY <1>1, <1>2, <1>3, <1>4, <1>5 DEF BaselineOK

(* Without a verdict the audit has not vouched for anything.                 *)
LEMMA Unjudged == ASSUME verdict' = "none" PROVE AuditVouches'
  BY DEF AuditVouches

(* A reply begins.                                                           *)
LEMMA BeginReplyInv == ASSUME NativeInv, BeginReply PROVE NativeInv'
<1>1. /\ BaselineType /\ BaselineOK /\ ReplyType /\ ProgressOK /\ ReportOK
      /\ UNCHANGED <<network, backend, source, room, baseline, intact, wire, report, changed, verdict>>
      /\ reply.pc = "none" /\ baseline.pc = "reported"
  BY DEF NativeInv, BeginReply
<1>2. BaselineType' /\ BaselineOK' /\ Limit' = Limit
  BY <1>1, BaselineKept
<1>3. ~report.made /\ verdict = "none" /\ reply.tokens = << >> /\ wire = << >> /\ room \in Nat \ {0}
  <2>1. reply.tokens = << >> /\ Len(wire) = 0
    BY <1>1 DEF ProgressOK
  <2> QED BY <1>1, <2>1, LimitIs DEF ReportOK, BaselineType, ReplyType
<1>4. PICK d : d = IF backend = "joint" THEN network.route[Prompt] ELSE 3
  OBVIOUS
<1>5. d \in 0..3
  BY <1>1, <1>4, ContextsAre, NetworkIs DEF BaselineType
<1>6. reply' = [pc |-> "check", tokens |-> << >>, decision |-> d, steps |-> << >>, reason |-> "none"]
  BY <1>4 DEF BeginReply, Before, Prompt, Undecided
<1>7. ReplyType'
  <2>1. << >> \in Seq(Vocabulary) /\ << >> \in Seq(Step)
    OBVIOUS
  <2>2. reply' \in [pc : {"none", "check", "call", "finish", "done", "raised"}, tokens : Seq(Vocabulary),
                    decision : 0..3, steps : Seq(Step), reason : Reasons]
    BY <1>5, <1>6, <2>1 DEF Reasons
  <2> QED BY <1>1, <2>2 DEF ReplyType
<1>8. /\ reply'.pc = "check" /\ reply'.tokens = << >> /\ reply'.steps = << >> /\ reply'.decision = d
  BY <1>6
<1>9. ProgressOK'
  BY <1>1, <1>2, <1>3, <1>8, LimitIs, NativeConstants DEF ProgressOK, BaselineType
<1>10. HonestOK'
  BY <1>1, <1>3, <1>4, <1>8 DEF HonestOK, Undecided
<1>11. ReportOK'
  BY <1>1, <1>3, <1>8 DEF ReportOK
<1> QED BY <1>1, <1>2, <1>3, <1>7, <1>9, <1>10, <1>11, Unjudged DEF NativeInv

(* A token is asked for, or the context is full.                             *)
LEMMA CheckInv == ASSUME NativeInv, Check PROVE NativeInv'
<1>1. /\ BaselineType /\ BaselineOK /\ ReplyType /\ ProgressOK /\ ReportOK /\ HonestOK
      /\ UNCHANGED <<network, backend, source, room, baseline, intact, wire, report, changed, verdict>>
      /\ reply.pc = "check"
  BY DEF NativeInv, Check
<1>2. BaselineType' /\ BaselineOK' /\ Limit' = Limit
  BY <1>1, BaselineKept
<1>3. ~report.made /\ verdict = "none"
  BY <1>1 DEF ReportOK
<1>4. PICK pc, reason :
        /\ reply' = [reply EXCEPT !.pc = pc, !.reason = reason]
        /\ \/ pc = "finish" /\ reason = "context_limit" /\ Len(reply.tokens) >= room
           \/ pc = "raised" /\ reason = reply.reason
           \/ pc = "call" /\ reason = reply.reason /\ ~(Len(reply.tokens) >= room)
  <2>1. reply \in [pc : {"none", "check", "call", "finish", "done", "raised"}, tokens : Seq(Vocabulary),
                   decision : 0..3, steps : Seq(Step), reason : Reasons]
    BY <1>1 DEF ReplyType
  <2>2. \A pc : [reply EXCEPT !.pc = pc] = [reply EXCEPT !.pc = pc, !.reason = reply.reason]
    BY <2>1
  <2> QED BY <2>2 DEF Check
<1>5. pc \in {"finish", "raised", "call"} /\ reason \in Reasons
  BY <1>1, <1>4 DEF ReplyType, Reasons
<1>6. /\ reply'.pc = pc /\ reply'.tokens = reply.tokens /\ reply'.steps = reply.steps
      /\ reply'.decision = reply.decision /\ reply'.reason = reason
  BY <1>1, <1>4 DEF ReplyType
<1>7. ReplyType'
  <2>1. reply' \in [pc : {"none", "check", "call", "finish", "done", "raised"}, tokens : Seq(Vocabulary),
                    decision : 0..3, steps : Seq(Step), reason : Reasons]
    BY <1>1, <1>4, <1>5 DEF ReplyType
  <2> QED BY <1>1, <2>1 DEF ReplyType
<1>8. PICK t \in Seq(Vocabulary) : t = reply.tokens
  BY <1>1 DEF ReplyType
<1>9. /\ Len(t) \in Nat /\ room \in Nat \ {0} /\ Len(t) <= Limit /\ Limit <= room /\ Limit \in Nat
      /\ Limit = room \/ Limit = MaxNewTokens
      /\ Len(t) < MaxNewTokens /\ \A i \in 1..Len(t) : t[i] \notin Stops
  BY <1>1, <1>8, LimitIs DEF ProgressOK, BaselineType
<1>10. ProgressOK'
  <2>1. pc = "finish" => /\ Len(t) >= 1 /\ Len(t) = Limit /\ t[Len(t)] \notin Stops
                         /\ Len(t) # MaxNewTokens /\ reason = "context_limit"
    BY <1>4, <1>8, <1>9, NativeConstants
  <2>2. pc = "call" => Len(t) < room
    BY <1>4, <1>8, <1>9
  <2>3. Len(reply'.steps) = Len(t) /\ Len(wire') = Len(t) /\ Len(t) <= Limit'
    BY <1>1, <1>2, <1>6, <1>8 DEF ProgressOK
  <2>4. baseline'.pc = "reported" /\ reply'.tokens = t /\ reply'.pc = pc /\ reply'.reason = reason
    BY <1>1, <1>6, <1>8 DEF ProgressOK
  <2>5. pc \in {"finish", "raised", "call"} /\ room' = room
    BY <1>1, <1>5
  <2> QED BY <1>2, <1>9, <2>1, <2>2, <2>3, <2>4, <2>5 DEF ProgressOK
<1>11. HonestOK'
  <2>1. /\ network' = network /\ backend' = backend /\ intact' = intact /\ wire' = wire
        /\ changed' = changed
    BY <1>1
  <2>2. HonestOK
    BY <1>1
  <2> QED BY <1>6, <2>1, <2>2 DEF HonestOK, ByRoute, Output, StepAt, FileAt, RouteAt, Residual
<1>12. ReportOK'
  BY <1>1, <1>3, <1>5, <1>6 DEF ReportOK
<1> QED BY <1>1, <1>2, <1>3, <1>7, <1>10, <1>11, <1>12, Unjudged DEF NativeInv

(* A file is replaced: from then on the reply is not vouched for.            *)
LEMMA ReplaceBinaryInv == ASSUME NativeInv, ReplaceBinary PROVE NativeInv'
<1>1. /\ BaselineType /\ BaselineOK /\ ReplyType /\ ProgressOK /\ ReportOK
      /\ UNCHANGED <<network, backend, source, room, baseline, reply, wire, report, changed, verdict>>
      /\ reply.pc \in {"check", "call", "finish"}
  BY DEF NativeInv, ReplaceBinary
<1>2. BaselineType' /\ BaselineOK' /\ Limit' = Limit
  BY <1>1, BaselineKept
<1>3. ~report.made /\ verdict = "none"
  BY <1>1 DEF ReportOK
<1>4. PICK b \in intact : intact' = intact \ {b}
  BY DEF ReplaceBinary
<1>5. intact' \subseteq Binaries /\ intact' # Binaries
  BY <1>1, <1>4 DEF ReplyType
<1>6. ReplyType' /\ HonestOK' /\ ReportOK'
  BY <1>1, <1>3, <1>5 DEF ReplyType, HonestOK, ReportOK
<1>7. ProgressOK'
  BY <1>1, <1>2 DEF ProgressOK
<1> QED BY <1>1, <1>2, <1>3, <1>6, <1>7, Unjudged DEF NativeInv

(* The report is written, if no file was replaced.                           *)
LEMMA FinishInv == ASSUME NativeInv, Finish PROVE NativeInv'
<1>1. /\ BaselineType /\ BaselineOK /\ ReplyType /\ ProgressOK /\ ReportOK /\ HonestOK
      /\ UNCHANGED <<network, backend, source, room, baseline, intact, wire, changed, verdict>>
      /\ reply.pc = "finish"
  BY DEF NativeInv, Finish
<1>2. BaselineType' /\ BaselineOK' /\ Limit' = Limit
  BY <1>1, BaselineKept
<1>3. ~report.made /\ verdict = "none"
  BY <1>1 DEF ReportOK
<1>4. PICK pc \in {"done", "raised"} :
        /\ reply' = [reply EXCEPT !.pc = pc]
        /\ pc = "done" => /\ intact = Binaries
                          /\ report' = [made |-> TRUE, steps |-> reply.steps, digests |-> wire,
                                        tokens |-> reply.tokens, reason |-> reply.reason]
        /\ pc = "raised" => report' = report
  BY DEF Finish, StillIntact
<1>5. /\ reply'.pc = pc /\ reply'.tokens = reply.tokens /\ reply'.steps = reply.steps
      /\ reply'.decision = reply.decision /\ reply'.reason = reply.reason
  BY <1>1, <1>4 DEF ReplyType
<1>6. ReplyType'
  <2>1. reply' \in [pc : {"none", "check", "call", "finish", "done", "raised"}, tokens : Seq(Vocabulary),
                    decision : 0..3, steps : Seq(Step), reason : Reasons]
    BY <1>1, <1>4 DEF ReplyType
  <2>2. report' \in [made : BOOLEAN, steps : Seq(Step), digests : Seq(StepFile),
                     tokens : Seq(Vocabulary), reason : Reasons]
    <3>1. CASE pc = "done"
      <4>1. /\ reply.steps \in Seq(Step) /\ wire \in Seq(StepFile)
            /\ reply.tokens \in Seq(Vocabulary) /\ reply.reason \in Reasons
        BY <1>1 DEF ReplyType
      <4>2. PICK steps \in Seq(Step) : steps = reply.steps
        BY <4>1
      <4>3. PICK files \in Seq(StepFile) : files = wire
        BY <4>1
      <4>4. PICK t \in Seq(Vocabulary) : t = reply.tokens
        BY <4>1
      <4>5. PICK reason \in Reasons : reason = reply.reason
        BY <4>1
      <4>6. report' = [made |-> TRUE, steps |-> steps, digests |-> files, tokens |-> t,
                       reason |-> reason]
        BY <1>4, <3>1, <4>2, <4>3, <4>4, <4>5
      <4> QED BY <4>6
    <3>2. CASE pc = "raised"
      BY <1>1, <1>4, <3>2 DEF ReplyType
    <3> QED BY <3>1, <3>2
  <2> QED BY <1>1, <2>1, <2>2 DEF ReplyType
<1>7. ProgressOK'
  BY <1>1, <1>2, <1>4, <1>5 DEF ProgressOK
<1>8. HonestOK'
  <2>1. /\ network' = network /\ backend' = backend /\ intact' = intact /\ wire' = wire
        /\ changed' = changed
    BY <1>1
  <2>2. HonestOK
    BY <1>1
  <2> QED BY <1>5, <2>1, <2>2 DEF HonestOK, ByRoute, Output, StepAt, FileAt, RouteAt, Residual
<1>9. ReportOK'
  <2>1. CASE pc = "done"
    <3>1. /\ report'.made /\ report'.steps = reply.steps /\ report'.digests = wire
          /\ report'.tokens = reply.tokens /\ report'.reason = reply.reason
      BY <1>4, <2>1
    <3>2. Len(reply.steps) = Len(reply.tokens)
      BY <1>1 DEF ProgressOK
    <3> QED BY <1>1, <1>4, <1>5, <2>1, <3>1, <3>2 DEF ReportOK
  <2>2. CASE pc = "raised"
    BY <1>1, <1>3, <1>4, <1>5, <2>2 DEF ReportOK
  <2> QED BY <2>1, <2>2
<1> QED BY <1>1, <1>2, <1>3, <1>6, <1>7, <1>8, <1>9, Unjudged DEF NativeInv
-----------------------------------------------------------------------------
(* The networks answer with a token, and choose one of the routes.           *)
LEMMA OutputIs ==
  ASSUME BaselineType, NEW p \in Contexts, NEW k
  PROVE  Output(k, p) \in Vocabulary /\ network.route[p] \in 0..2
<1>1. /\ network.content[p] \in Vocabulary /\ network.unsure[p] \in Vocabulary
      /\ network.base[Memorized][p] \in Vocabulary /\ network.route[p] \in 0..2
  BY NetworkIs, NativeConstants DEF BaselineType, Answers
<1> QED BY <1>1 DEF Output

(* A call: an answer, which is the networks' if no file was replaced.        *)
LEMMA CallIs ==
  ASSUME NativeInv, Call
  PROVE  \/ intact # Binaries /\ reply' = [reply EXCEPT !.pc = "raised"] /\ wire' = wire
         \/ \E route \in 0..2, token \in Vocabulary :
              /\ Answered(route, token)
              /\ intact = Binaries => /\ route = RouteAt(reply.tokens)
                                      /\ token = ByRoute(reply.tokens)
              /\ reply.decision # Undecided => route = reply.decision \/ backend = "continuous"
<1>1. /\ BaselineType /\ ReplyType /\ ProgressOK /\ HonestOK /\ reply.pc = "call"
  BY DEF NativeInv, Call
<1>2. PICK p \in Contexts : p = reply.tokens
  BY <1>1, PrefixIs
<1>3. CASE /\ intact = Binaries
           /\ Answered(Route(reply.decision, p), Output(Route(reply.decision, p), p))
  <2>1. PICK k : k = Route(reply.decision, p)
    OBVIOUS
  <2>2. reply.decision \in 0..3 /\ Undecided = 3
    BY <1>1 DEF ReplyType, Undecided
  <2>3. k \in 0..2
    BY <1>1, <2>1, <2>2, OutputIs DEF Route
  <2>4. Output(k, p) \in Vocabulary
    BY <1>1, OutputIs
  <2>5. k = RouteAt(p) /\ Output(k, p) = ByRoute(p)
    <3>1. CASE backend = "continuous"
      <4>1. reply.decision = Undecided
        BY <1>1, <1>3, <3>1 DEF HonestOK
      <4> QED BY <2>1, <3>1, <4>1 DEF Route, RouteAt, ByRoute, Output
    <3>2. CASE backend # "continuous"
      <4>1. k = network.route[Prompt]
        <5>1. CASE p = <<>>
          <6>1. reply.decision \in {Undecided, network.route[Prompt]}
            BY <1>1, <1>3, <3>2 DEF HonestOK
          <6> QED BY <2>1, <5>1, <6>1 DEF Route, Prompt
        <5>2. CASE p # <<>>
          <6>1. reply.decision = network.route[Prompt]
            BY <1>1, <1>2, <1>3, <3>2, <5>2 DEF HonestOK
          <6>2. network.route[Prompt] \in 0..2
            BY <1>1, OutputIs, ContextsAre
          <6> QED BY <2>1, <2>2, <6>1, <6>2 DEF Route
        <5> QED BY <5>1, <5>2
      <4> QED BY <3>2, <4>1 DEF RouteAt, ByRoute
    <3> QED BY <3>1, <3>2
  <2>6. reply.decision # Undecided => k = reply.decision
    BY <2>1 DEF Route
  <2>7. Answered(k, Output(k, p))
    BY <1>3, <2>1
  <2> QED BY <1>2, <2>3, <2>4, <2>5, <2>6, <2>7
<1>4. CASE /\ intact # Binaries
           /\ \E token \in Vocabulary, route \in 0..2 :
                (reply.decision # Undecided => route = reply.decision) /\ Answered(route, token)
  BY <1>4
<1>5. CASE intact # Binaries /\ reply' = [reply EXCEPT !.pc = "raised"] /\ UNCHANGED wire
  BY <1>5
<1>6. \/ /\ intact = Binaries
         /\ Answered(Route(reply.decision, p), Output(Route(reply.decision, p), p))
      \/ /\ intact # Binaries
         /\ \E token \in Vocabulary, route \in 0..2 :
              (reply.decision # Undecided => route = reply.decision) /\ Answered(route, token)
      \/ intact # Binaries /\ reply' = [reply EXCEPT !.pc = "raised"] /\ UNCHANGED wire
  BY <1>2 DEF Call
<1> QED BY <1>3, <1>4, <1>5, <1>6

LEMMA CallInv == ASSUME NativeInv, Call PROVE NativeInv'
<1>1. /\ BaselineType /\ BaselineOK /\ ReplyType /\ ProgressOK /\ ReportOK /\ HonestOK
      /\ UNCHANGED <<network, backend, source, room, baseline, intact, report, changed, verdict>>
      /\ reply.pc = "call"
  BY DEF NativeInv, Call
<1>2. BaselineType' /\ BaselineOK' /\ Limit' = Limit
  BY <1>1, BaselineKept
<1>3. ~report.made /\ verdict = "none"
  BY <1>1 DEF ReportOK
<1>4. reply \in [pc : {"none", "check", "call", "finish", "done", "raised"}, tokens : Seq(Vocabulary),
                 decision : 0..3, steps : Seq(Step), reason : Reasons]
  BY <1>1 DEF ReplyType
<1>5. PICK t \in Seq(Vocabulary), steps \in Seq(Step), files \in Seq(StepFile), n \in Nat :
        /\ t = reply.tokens /\ steps = reply.steps /\ files = wire
        /\ Len(t) = n /\ Len(steps) = n /\ Len(files) = n /\ n < MaxNewTokens /\ n < room /\ n < Limit
        /\ \A i \in 1..n : t[i] \notin Stops
  <2>1. reply.tokens \in Seq(Vocabulary) /\ reply.steps \in Seq(Step) /\ wire \in Seq(StepFile)
    BY <1>1 DEF ReplyType
  <2>2. /\ Len(reply.steps) = Len(reply.tokens) /\ Len(wire) = Len(reply.tokens)
        /\ Len(reply.tokens) < MaxNewTokens /\ Len(reply.tokens) < room
        /\ \A i \in 1..Len(reply.tokens) : reply.tokens[i] \notin Stops
    BY <1>1 DEF ProgressOK
  <2>3. Len(reply.tokens) < Limit
    BY <1>1, <2>2, LimitIs DEF BaselineType
  <2> QED BY <2>1, <2>2, <2>3
<1>6. CASE intact # Binaries /\ reply' = [reply EXCEPT !.pc = "raised"] /\ wire' = wire
  <2>1. /\ reply'.pc = "raised" /\ reply'.tokens = reply.tokens /\ reply'.steps = reply.steps
        /\ reply'.reason = reply.reason
    BY <1>4, <1>6
  <2>2. ReplyType'
    BY <1>1, <1>4, <1>6 DEF ReplyType
  <2>3. ProgressOK'
    BY <1>1, <1>2, <1>6, <2>1 DEF ProgressOK
  <2>4. HonestOK' /\ ReportOK'
    BY <1>1, <1>3, <1>6, <2>1 DEF HonestOK, ReportOK
  <2> QED BY <1>1, <1>2, <1>3, <2>2, <2>3, <2>4, Unjudged DEF NativeInv
<1>7. ASSUME NEW route \in 0..2, NEW token \in Vocabulary, Answered(route, token),
             intact = Binaries => route = RouteAt(reply.tokens) /\ token = ByRoute(reply.tokens)
      PROVE  NativeInv'
  <2>1. PICK d : d = IF backend = "continuous" THEN reply.decision ELSE route
    OBVIOUS
  <2>2. PICK pc : pc = IF token \in Stops \/ n + 1 = MaxNewTokens THEN "finish" ELSE "check"
    OBVIOUS
  <2>3. PICK reason : reason = IF token \in Stops THEN "stop_token" ELSE "max_new_tokens"
    OBVIOUS
  <2>4. PICK step : step = [prefix |-> t, token |-> token, route |-> route]
    OBVIOUS
  <2>5. PICK file : file = [prefix |-> t, residual |-> Residual(route, t), at |-> t, token |-> token]
    OBVIOUS
  <2>6. step \in Step /\ file \in StepFile
    <3>1. Residual(route, t) \in Residuals
      BY DEF Residual, Residuals
    <3> QED BY <2>4, <2>5, <3>1 DEF Step, StepFile
  <2>7. PICK more \in Seq(Vocabulary) : more = Append(t, token)
    <3>1. Append(t, token) \in Seq(Vocabulary)
      BY <1>5
    <3> QED BY <3>1
  <2>71. PICK done \in Seq(Step) : done = Append(steps, step)
    <3>1. Append(steps, step) \in Seq(Step)
      BY <2>6
    <3> QED BY <3>1
  <2>72. PICK made \in Seq(StepFile) : made = Append(files, file)
    <3>1. Append(files, file) \in Seq(StepFile)
      BY <2>6
    <3> QED BY <3>1
  <2>8. /\ Len(more) = n + 1 /\ Len(done) = n + 1 /\ Len(made) = n + 1
        /\ more[n + 1] = token /\ done[n + 1] = step /\ made[n + 1] = file
        /\ \A i \in 1..n : more[i] = t[i] /\ done[i] = steps[i] /\ made[i] = files[i]
    BY <1>5, <2>6, <2>7, <2>71, <2>72
  <2>9. /\ reply' = [reply EXCEPT !.decision = d, !.steps = done, !.tokens = more, !.reason = reason,
                                  !.pc = pc]
        /\ wire' = made
    BY <1>4, <1>5, <1>7, <2>1, <2>2, <2>3, <2>4, <2>5, <2>7, <2>71, <2>72 DEF Answered
  <2>10. /\ d \in 0..3 /\ pc \in {"check", "finish"} /\ reason \in Reasons
    BY <1>4, <2>1, <2>2, <2>3 DEF Reasons
  <2>11. /\ reply'.pc = pc /\ reply'.tokens = more /\ reply'.steps = done /\ reply'.decision = d
         /\ reply'.reason = reason
    BY <1>4, <2>9
  <2>12. ReplyType'
    <3>1. reply' \in [pc : {"none", "check", "call", "finish", "done", "raised"}, tokens : Seq(Vocabulary),
                      decision : 0..3, steps : Seq(Step), reason : Reasons]
      BY <1>4, <2>9, <2>10
    <3> QED BY <1>1, <2>9, <3>1 DEF ReplyType
  <2>13. \A i \in 1..(n + 1) : i = n + 1 \/ i \in 1..n
    OBVIOUS
  <2>14. ProgressOK'
    <3>1. n + 1 \in Nat /\ n + 1 <= Limit /\ n + 1 <= MaxNewTokens /\ Limit \in Nat
          /\ Limit <= MaxNewTokens
      BY <1>1, <1>5, LimitIs, NativeConstants DEF BaselineType
    <3>2. \A i \in 1..(n + 1) : more[i] \in Stops => i = n + 1
      BY <1>5, <2>8, <2>13
    <3>3. pc = "check" => n + 1 < MaxNewTokens /\ \A i \in 1..(n + 1) : more[i] \notin Stops
      <4>1. pc = "check" => token \notin Stops /\ n + 1 # MaxNewTokens
        BY <2>2
      <4>2. MaxNewTokens \in Nat
        BY NativeConstants
      <4> QED BY <1>5, <2>8, <3>1, <3>2, <4>1, <4>2
    <3>4. pc = "finish" => /\ token \notin Stops => n + 1 = Limit /\ n + 1 = MaxNewTokens
                           /\ reason = IF token \in Stops THEN "stop_token" ELSE "max_new_tokens"
      BY <2>2, <2>3, <3>1
    <3>5. baseline'.pc = "reported"
      BY <1>1 DEF ProgressOK
    <3>6. pc = "finish" => /\ n + 1 >= 1
                           /\ more[n + 1] \notin Stops => n + 1 = Limit
                           /\ reason = IF more[n + 1] \in Stops THEN "stop_token"
                                       ELSE IF n + 1 = MaxNewTokens THEN "max_new_tokens"
                                       ELSE "context_limit"
      BY <2>8, <3>4
    <3>7. pc # "none" /\ pc # "call" /\ pc # "done"
      BY <2>10
    <3> QED BY <1>2, <2>8, <2>9, <2>11, <3>1, <3>2, <3>3, <3>5, <3>6, <3>7 DEF ProgressOK
  <2>15. HonestOK'
    <3> SUFFICES ASSUME intact = Binaries PROVE HonestOK'
      BY <1>1 DEF HonestOK
    <3>1. route = RouteAt(t) /\ token = ByRoute(t)
      BY <1>5, <1>7
    <3>2. ASSUME NEW i \in 1..(n + 1)
          PROVE  SubSeq(more, 1, i - 1) = SubSeq(t, 1, i - 1) /\ (i = n + 1 => SubSeq(t, 1, i - 1) = t)
      <4>1. i - 1 \in 0..n /\ (i = n + 1 => i - 1 = n)
        OBVIOUS
      <4>2. SubSeq(t, 1, n) = t
        BY <1>5
      <4>3. SubSeq(more, 1, i - 1) = SubSeq(t, 1, i - 1)
        BY <1>5, <2>8, <4>1
      <4> QED BY <4>1, <4>2, <4>3
    <3>3. /\ backend = "continuous" => d = Undecided
          /\ backend # "continuous" => d = network.route[Prompt]
      BY <1>1, <2>1, <3>1 DEF HonestOK, RouteAt
    <3>4. ASSUME NEW i \in 1..(n + 1)
          PROVE  /\ more[i] = ByRoute(SubSeq(more, 1, i - 1))
                 /\ done[i] = StepAt(more, i)
                 /\ ~changed => made[i] = FileAt(more, i)
      <4>1. CASE i = n + 1
        <5>1. SubSeq(more, 1, i - 1) = t
          BY <3>2, <4>1
        <5>2. more[i] = token /\ done[i] = step /\ made[i] = file
          BY <2>8, <4>1
        <5> QED BY <2>4, <2>5, <3>1, <5>1, <5>2 DEF StepAt, FileAt
      <4>2. CASE i # n + 1
        <5>1. i \in 1..n
          BY <4>2
        <5>2. more[i] = t[i] /\ done[i] = steps[i] /\ made[i] = files[i]
          BY <2>8, <5>1
        <5>3. /\ t[i] = ByRoute(SubSeq(t, 1, i - 1)) /\ steps[i] = StepAt(t, i)
              /\ ~changed => files[i] = FileAt(t, i)
          BY <1>1, <1>5, <5>1 DEF HonestOK
        <5> QED BY <3>2, <5>2, <5>3 DEF StepAt, FileAt
      <4> QED BY <4>1, <4>2
    <3>5. \A i \in 1..(n + 1) :
            /\ ByRoute(SubSeq(more, 1, i - 1))' = ByRoute(SubSeq(more, 1, i - 1))
            /\ StepAt(more, i)' = StepAt(more, i) /\ FileAt(more, i)' = FileAt(more, i)
      <4>1. network' = network /\ backend' = backend
        BY <1>1
      <4> QED BY <4>1 DEF ByRoute, Output, StepAt, FileAt, RouteAt, Residual
    <3>6. /\ network' = network /\ backend' = backend /\ changed' = changed
      BY <1>1
    <3> HIDE DEF HonestOK
    <3>7. /\ backend' = "continuous" => reply'.decision = Undecided
          /\ backend' # "continuous" => reply'.decision = network'.route[Prompt]
      BY <2>11, <3>3, <3>6
    <3>8. \A i \in 1..Len(more) :
            /\ more[i] = ByRoute(SubSeq(more, 1, i - 1))' /\ done[i] = StepAt(more, i)'
            /\ ~changed' => made[i] = FileAt(more, i)'
      BY <2>8, <3>4, <3>5, <3>6
    <3>9. reply'.tokens = more /\ reply'.steps = done /\ wire' = made
      BY <2>9, <2>11
    <3> QED BY <3>7, <3>8, <3>9 DEF HonestOK
  <2>16. ReportOK'
    BY <1>1, <1>3, <2>10, <2>11 DEF ReportOK
  <2> QED BY <1>1, <1>2, <1>3, <2>12, <2>14, <2>15, <2>16, Unjudged DEF NativeInv
<1> QED BY <1>6, <1>7, CallIs
-----------------------------------------------------------------------------
(* Prefixes and replies are sequences of tokens.                             *)
LEMMA SequencesOfTokens ==
  /\ \A p \in Contexts : p \in Seq(Vocabulary)
  /\ \A r \in Replies : r \in Seq(Vocabulary)
<1>1. ASSUME NEW p \in Contexts PROVE p \in Seq(Vocabulary)
  <2>1. PICK n \in 0..(MaxNewTokens - 1) : p \in [1..n -> Vocabulary \ Stops]
    BY DEF Contexts
  <2>2. n \in Nat
    BY NativeConstants
  <2> QED BY <2>1, <2>2
<1>2. ASSUME NEW r \in Replies PROVE r \in Seq(Vocabulary)
  <2>1. PICK n \in 1..MaxNewTokens : r \in [1..n -> Vocabulary]
    BY DEF Replies
  <2>2. n \in Nat
    BY NativeConstants
  <2> QED BY <2>1, <2>2
<1> QED BY <1>1, <1>2

(* One file is changed: of the steps, or of the report.                      *)
LEMMA ChangeFileIs ==
  ASSUME ReplyType, ChangeFile
  PROVE  /\ wire' \in Seq(StepFile) /\ Len(wire') = Len(wire)
         /\ report' \in [made : BOOLEAN, steps : Seq(Step), digests : Seq(StepFile),
                         tokens : Seq(Vocabulary), reason : Reasons]
         /\ report'.made = report.made /\ report'.reason = report.reason
         /\ Len(report'.steps) = Len(report.steps)
         /\ report'.tokens = report.tokens \/ report'.steps = report.steps
<1>1. PICK files \in Seq(StepFile) : files = wire
  BY DEF ReplyType
<1>2. PICK old \in [made : BOOLEAN, steps : Seq(Step), digests : Seq(StepFile),
                    tokens : Seq(Vocabulary), reason : Reasons] : old = report
  BY DEF ReplyType
<1>3. ASSUME NEW i \in DOMAIN files, NEW file \in StepFile, wire' = [files EXCEPT ![i] = file]
      PROVE  wire' \in Seq(StepFile) /\ Len(wire') = Len(wire)
  BY <1>1, <1>3
<1>4. ASSUME NEW i \in DOMAIN wire, NEW p \in Contexts, wire' = [wire EXCEPT ![i].prefix = p]
      PROVE  wire' \in Seq(StepFile) /\ Len(wire') = Len(wire)
  <2>1. PICK file \in StepFile : file = [files[i] EXCEPT !.prefix = p]
    <3>1. files[i] \in StepFile /\ p \in Seq(Vocabulary)
      BY <1>1, <1>4, SequencesOfTokens
    <3>2. [files[i] EXCEPT !.prefix = p] \in StepFile
      BY <3>1 DEF StepFile
    <3> QED BY <3>2
  <2>2. wire' = [files EXCEPT ![i] = file]
    BY <1>1, <1>4, <2>1
  <2> QED BY <1>1, <1>3, <1>4, <2>1, <2>2
<1>5. ASSUME NEW i \in DOMAIN wire, NEW t \in Vocabulary, NEW p \in Contexts,
             wire' = [wire EXCEPT ![i].token = t, ![i].at = p]
      PROVE  wire' \in Seq(StepFile) /\ Len(wire') = Len(wire)
  <2>1. PICK file \in StepFile : file = [files[i] EXCEPT !.token = t, !.at = p]
    <3>1. files[i] \in StepFile /\ p \in Seq(Vocabulary)
      BY <1>1, <1>5, SequencesOfTokens
    <3>2. [files[i] EXCEPT !.token = t, !.at = p] \in StepFile
      BY <3>1 DEF StepFile
    <3> QED BY <3>2
  <2>2. wire' = [files EXCEPT ![i] = file]
    BY <1>1, <1>5, <2>1
  <2> QED BY <1>1, <1>3, <1>5, <2>1, <2>2
<1>6. ASSUME NEW r \in Replies, report' = [report EXCEPT !.tokens = r]
      PROVE  /\ report' \in [made : BOOLEAN, steps : Seq(Step), digests : Seq(StepFile),
                             tokens : Seq(Vocabulary), reason : Reasons]
             /\ report'.made = report.made /\ report'.reason = report.reason
             /\ report'.steps = report.steps
  BY <1>2, <1>6, SequencesOfTokens
<1>7. ASSUME NEW i \in DOMAIN report.steps, NEW t \in Vocabulary, NEW r \in 0..2, NEW p \in Contexts,
             report' = [report EXCEPT !.steps[i] = [prefix |-> p, token |-> t, route |-> r]]
      PROVE  /\ report' \in [made : BOOLEAN, steps : Seq(Step), digests : Seq(StepFile),
                             tokens : Seq(Vocabulary), reason : Reasons]
             /\ report'.made = report.made /\ report'.reason = report.reason
             /\ Len(report'.steps) = Len(report.steps) /\ report'.tokens = report.tokens
  <2>1. PICK step \in Step : step = [prefix |-> p, token |-> t, route |-> r]
    <3>1. [prefix |-> p, token |-> t, route |-> r] \in Step
      BY SequencesOfTokens DEF Step
    <3> QED BY <3>1
  <2>2. PICK steps \in Seq(Step) : steps = old.steps
    BY <1>2
  <2>3. PICK made : made = [steps EXCEPT ![i] = step]
    OBVIOUS
  <2>4. made \in Seq(Step) /\ Len(made) = Len(steps)
    BY <1>2, <1>7, <2>2, <2>3
  <2>5. report' = [old EXCEPT !.steps = made]
    BY <1>2, <1>7, <2>1, <2>2, <2>3
  <2> QED BY <1>2, <2>2, <2>4, <2>5
<1>8. UNCHANGED report \/ UNCHANGED wire
  BY DEF ChangeFile
<1>9. \/ UNCHANGED report /\ wire' \in Seq(StepFile) /\ Len(wire') = Len(wire)
      \/ /\ UNCHANGED wire
         /\ \/ \E r \in Replies : report' = [report EXCEPT !.tokens = r]
            \/ \E i \in DOMAIN report.steps, t \in Vocabulary, r \in 0..2, p \in Contexts :
                 report' = [report EXCEPT !.steps[i] = [prefix |-> p, token |-> t, route |-> r]]
  BY <1>4, <1>5 DEF ChangeFile
<1>10. CASE UNCHANGED report /\ wire' \in Seq(StepFile) /\ Len(wire') = Len(wire)
  BY <1>2, <1>10
<1>11. CASE /\ UNCHANGED wire
            /\ \/ \E r \in Replies : report' = [report EXCEPT !.tokens = r]
               \/ \E i \in DOMAIN report.steps, t \in Vocabulary, r \in 0..2, p \in Contexts :
                    report' = [report EXCEPT !.steps[i] = [prefix |-> p, token |-> t, route |-> r]]
  BY <1>1, <1>6, <1>7, <1>11
<1> QED BY <1>9, <1>10, <1>11

LEMMA ChangeFileInv == ASSUME NativeInv, ChangeFile PROVE NativeInv'
<1>1. /\ BaselineType /\ BaselineOK /\ ReplyType /\ ProgressOK /\ ReportOK /\ HonestOK
      /\ UNCHANGED <<network, backend, source, room, baseline, intact, reply, verdict>>
      /\ changed' = TRUE /\ ~changed /\ verdict = "none"
  BY DEF NativeInv, ChangeFile
<1>2. BaselineType' /\ BaselineOK' /\ Limit' = Limit
  BY <1>1, BaselineKept
<1>3. /\ wire' \in Seq(StepFile) /\ Len(wire') = Len(wire)
      /\ report' \in [made : BOOLEAN, steps : Seq(Step), digests : Seq(StepFile),
                      tokens : Seq(Vocabulary), reason : Reasons]
      /\ report'.made = report.made /\ report'.reason = report.reason
      /\ Len(report'.steps) = Len(report.steps)
      /\ report'.tokens = report.tokens \/ report'.steps = report.steps
  BY <1>1, ChangeFileIs
<1>4. ReplyType'
  BY <1>1, <1>3 DEF ReplyType
<1>5. ProgressOK'
  BY <1>1, <1>2, <1>3 DEF ProgressOK
<1>6. HonestOK'
  <2>1. network' = network /\ backend' = backend /\ intact' = intact /\ reply' = reply
    BY <1>1
  <2> QED BY <1>1, <2>1 DEF HonestOK, ByRoute, Output, StepAt, RouteAt
<1>7. ReportOK'
  BY <1>1, <1>3 DEF ReportOK
<1> QED BY <1>1, <1>2, <1>4, <1>5, <1>6, <1>7, Unjudged DEF NativeInv
-----------------------------------------------------------------------------
(* A reply that was made from its own files is the greedy one of the route of*)
(* its prompt, and the one without memory if that route is the first.        *)
LEMMA MadeIsGreedy ==
  ASSUME NativeInv, report.made
  PROVE  /\ IsGreedy(reply.tokens, ByRoute)
         /\ backend # "continuous" /\ network.route[Prompt] = 0 =>
              reply.tokens = baseline.generated[Memorized]
<1>1. /\ BaselineType /\ BaselineOK /\ ReplyType /\ ProgressOK /\ HonestOK /\ ReportOK
      /\ reply.pc = "done" /\ intact = Binaries /\ room \in Rooms
  BY DEF NativeInv, ReportOK, BaselineType
<1>2. PICK t \in Seq(Vocabulary) : t = reply.tokens
  BY <1>1 DEF ReplyType
<1>3. /\ Len(t) \in 1..Limit
      /\ \A i \in 1..Len(t) : t[i] \in Stops => i = Len(t)
      /\ t[Len(t)] \notin Stops => Len(t) = Limit
  BY <1>1, <1>2, LimitIs DEF ProgressOK
<1>4. \A i \in 1..Len(t) : t[i] = ByRoute(SubSeq(t, 1, i - 1))
  BY <1>1, <1>2 DEF HonestOK
<1>5. IsGreedy(t, ByRoute)
  BY <1>3, <1>4 DEF IsGreedy, Last
<1>6. ASSUME backend # "continuous", network.route[Prompt] = 0 PROVE t = baseline.generated[Memorized]
  <2>1. baseline.pc = "reported"
    BY <1>1 DEF ProgressOK
  <2>2. Memorized \in Cases
    BY NativeConstants
  <2>3. Whole(baseline.generated[Memorized], network.base[Memorized])
    BY <1>1, <2>1, <2>2, BaselineWhole
  <2>4. \A i \in 1..Len(t) : t[i] = network.base[Memorized][SubSeq(t, 1, i - 1)]
    BY <1>4, <1>6 DEF ByRoute, Output
  <2>5. Whole(t, network.base[Memorized])
    BY <1>3, <2>4 DEF Whole
  <2> QED BY <1>1, <2>3, <2>5, OnlyOne
<1> QED BY <1>2, <1>5, <1>6

(* What passes the audits of CG-002 and CG-003 is what was generated.        *)
LEMMA PassedIsMade ==
  ASSUME NativeInv, report.made, RolePasses
  PROVE  report.tokens = reply.tokens /\ TokensOf(wire) = report.tokens
<1>1. /\ ReplyType /\ ProgressOK /\ HonestOK /\ ReportOK /\ intact = Binaries
  BY DEF NativeInv, ReportOK
<1>2. PICK t \in Seq(Vocabulary) : t = reply.tokens
  BY <1>1 DEF ReplyType
<1>3. PICK steps \in Seq(Step) : steps = report.steps
  BY <1>1 DEF ReplyType
<1>4. PICK files \in Seq(StepFile) : files = wire
  BY <1>1 DEF ReplyType
<1>5. Len(steps) = Len(t) /\ Len(files) = Len(t)
  BY <1>1, <1>2, <1>3, <1>4 DEF ProgressOK, ReportOK
<1>6. report.tokens = TokensOf(steps) /\ \A i \in DOMAIN steps : Replayed(i)
  BY <1>3 DEF RolePasses
<1>7. TokensOf(files) = TokensOf(steps)
  <2>1. \A i \in DOMAIN steps : files[i].token = steps[i].token
    BY <1>3, <1>4, <1>6 DEF Replayed
  <2>2. DOMAIN files = DOMAIN steps
    BY <1>5
  <2> QED BY <2>1, <2>2 DEF TokensOf
<1>8. report.tokens = t
  <2>1. CASE report.steps = reply.steps
    <3>1. ASSUME NEW i \in 1..Len(t) PROVE steps[i].token = t[i]
      <4>1. steps[i] = StepAt(t, i)
        BY <1>1, <1>2, <1>3, <2>1 DEF HonestOK
      <4> QED BY <4>1 DEF StepAt
    <3>2. DOMAIN steps = 1..Len(t) /\ t = [i \in 1..Len(t) |-> t[i]]
      BY <1>5
    <3> QED BY <1>6, <3>1, <3>2 DEF TokensOf
  <2>2. CASE report.tokens = reply.tokens
    BY <1>2, <2>2
  <2> QED BY <1>1, <2>1, <2>2 DEF ReportOK
<1> QED BY <1>2, <1>4, <1>6, <1>7, <1>8
-----------------------------------------------------------------------------
(* An honest reply passes, unless it is one of CG-003 cut short.             *)
LEMMA HonestPasses ==
  ASSUME NativeInv, report.made, ~changed
  PROVE  /\ backend = "continuous" => ContinuousPasses
         /\ backend # "continuous" => RolePasses
         /\ backend = "joint" /\ report.reason # "context_limit" => JointPasses
<1>1. /\ BaselineType /\ ReplyType /\ ProgressOK /\ HonestOK /\ ReportOK /\ intact = Binaries
      /\ reply.pc = "done" /\ room \in Rooms
  BY DEF NativeInv, ReportOK, BaselineType
<1>2. PICK t \in Seq(Vocabulary) : t = reply.tokens
  BY <1>1 DEF ReplyType
<1>3. PICK steps \in Seq(Step) : steps = reply.steps
  BY <1>1 DEF ReplyType
<1>4. PICK files \in Seq(StepFile) : files = wire
  BY <1>1 DEF ReplyType
<1>5. /\ report.tokens = t /\ report.steps = steps /\ report.digests = files
      /\ report.reason = reply.reason
  BY <1>1, <1>2, <1>3, <1>4 DEF ReportOK
<1>6. PICK n \in Nat \ {0} :
        /\ n = Len(t) /\ n = Len(steps) /\ n = Len(files) /\ n <= MaxNewTokens
        /\ \A i \in 1..n : t[i] \in Stops => i = n
        /\ t[n] \notin Stops => n = Limit
        /\ reply.reason = IF t[n] \in Stops THEN "stop_token"
                          ELSE IF n = MaxNewTokens THEN "max_new_tokens" ELSE "context_limit"
  <2>1. Len(t) \in Nat \ {0} /\ Len(t) <= MaxNewTokens
    BY <1>1, <1>2, LimitIs, NativeConstants DEF ProgressOK
  <2> QED BY <1>1, <1>2, <1>3, <1>4, <2>1 DEF ProgressOK
<1>13. /\ n \in Nat /\ n >= 1 /\ n <= MaxNewTokens /\ Len(t) = n /\ Len(steps) = n /\ Len(files) = n
  BY <1>6
<1>14. DOMAIN t = 1..n /\ DOMAIN steps = 1..n /\ DOMAIN files = 1..n
  BY <1>13
<1>7. ASSUME NEW i \in 1..n
      PROVE  /\ t[i] = ByRoute(SubSeq(t, 1, i - 1))
             /\ steps[i].prefix = SubSeq(t, 1, i - 1) /\ steps[i].token = t[i]
             /\ steps[i].route = RouteAt(SubSeq(t, 1, i - 1))
             /\ files[i].prefix = SubSeq(t, 1, i - 1) /\ files[i].at = SubSeq(t, 1, i - 1)
             /\ files[i].residual = Residual(RouteAt(SubSeq(t, 1, i - 1)), SubSeq(t, 1, i - 1))
             /\ files[i].token = t[i]
  <2>1. /\ t[i] = ByRoute(SubSeq(t, 1, i - 1)) /\ steps[i] = StepAt(t, i) /\ files[i] = FileAt(t, i)
    BY <1>1, <1>2, <1>3, <1>4, <1>6 DEF HonestOK
  <2> QED BY <2>1 DEF StepAt, FileAt
<1>8. SubSeq(t, 1, 0) = Prompt
  BY DEF Prompt
<1>9. Hashed
  BY <1>4, <1>5 DEF Hashed
<1>10. Extends
  <2> SUFFICES ASSUME NEW i \in 2..n
               PROVE  steps[i].prefix = Append(steps[i - 1].prefix, steps[i - 1].token)
    BY <1>5, <1>6 DEF Extends
  <2>1. i \in 1..n /\ i - 1 \in 1..n /\ (i - 1) - 1 = i - 2
    OBVIOUS
  <2>2. steps[i].prefix = SubSeq(t, 1, i - 1)
    BY <1>7, <2>1
  <2>3. steps[i - 1].prefix = SubSeq(t, 1, i - 2) /\ steps[i - 1].token = t[i - 1]
    BY <1>7, <2>1
  <2>4. SubSeq(t, 1, i - 1) = Append(SubSeq(t, 1, i - 2), t[i - 1])
    <3>0. t \in Seq(Vocabulary) /\ SubSeq(t, 1, i - 2) \in Seq(Vocabulary)
          /\ SubSeq(t, 1, i - 1) \in Seq(Vocabulary) /\ t[i - 1] \in Vocabulary
      BY <1>13, <1>14, <2>1
    <3>1. PICK a \in Seq(Vocabulary) : a = SubSeq(t, 1, i - 2)
      BY <3>0
    <3>2. PICK x \in Vocabulary : x = t[i - 1]
      BY <3>0
    <3>3. PICK b \in Seq(Vocabulary) : b = SubSeq(t, 1, i - 1)
      BY <3>0
    <3>4. Len(a) = i - 2 /\ Len(b) = i - 1 /\ Len(Append(a, x)) = i - 1
      BY <1>6, <3>1, <3>2, <3>3
    <3>5. ASSUME NEW k \in 1..(i - 1) PROVE b[k] = Append(a, x)[k]
      <4>1. b[k] = t[k]
        BY <1>6, <3>3
      <4>2. k \in 1..(i - 2) => Append(a, x)[k] = t[k]
        BY <1>6, <3>1, <3>4
      <4>3. k = i - 1 => Append(a, x)[k] = x
        BY <3>4
      <4>4. k = i - 1 \/ k \in 1..(i - 2)
        OBVIOUS
      <4> QED BY <3>2, <4>1, <4>2, <4>3, <4>4
    <3>6. Append(a, x) \in Seq(Vocabulary)
      OBVIOUS
    <3> QED BY <3>1, <3>2, <3>3, <3>4, <3>5, <3>6
  <2> QED BY <2>2, <2>3, <2>4
<1>11. CASE backend = "continuous"
  <2>1. files[1].token = ByRoute(Prompt) /\ files[1].at = Prompt
    <3>1. 1 \in 1..n /\ 1 - 1 = 0
      BY <1>6
    <3> QED BY <1>7, <1>8, <3>1
  <2>2. ByRoute(Prompt) = Output(0, Prompt)
    BY <1>11 DEF ByRoute, Output
  <2>3. ContinuousPasses
    BY <1>4, <1>9, <1>10, <2>1, <2>2 DEF ContinuousPasses
  <2> QED BY <1>11, <2>3
<1>12. CASE backend # "continuous"
  <2>1. 1 \in 1..n /\ 1 - 1 = 0
    BY <1>6
  <2>2. files[1].at = Prompt /\ steps[1].prefix = Prompt
    BY <1>7, <1>8, <2>1
  <2>3. AuditedRoute = network.route[Prompt]
    BY <1>4, <2>2 DEF AuditedRoute
  <2>4. ASSUME NEW i \in DOMAIN report.steps PROVE Replayed(i)
    <3>1. i \in 1..n
      <4>1. DOMAIN steps = 1..Len(steps)
        BY <1>3
      <4> QED BY <1>5, <1>6, <2>4, <4>1
    <3>2. PICK p : p = SubSeq(t, 1, i - 1)
      OBVIOUS
    <3>3. RouteAt(p) = network.route[Prompt]
      BY <1>12 DEF RouteAt
    <3>4. /\ steps[i].prefix = p /\ steps[i].token = t[i] /\ steps[i].route = AuditedRoute
          /\ files[i].prefix = p /\ files[i].at = p /\ files[i].token = t[i]
          /\ files[i].residual = Residual(AuditedRoute, p)
          /\ t[i] = Output(AuditedRoute, p)
      BY <1>7, <2>3, <3>1, <3>2, <3>3 DEF ByRoute
    <3>5. report.steps[i] = steps[i] /\ wire[i] = files[i]
      BY <1>4, <1>5
    <3> QED BY <3>4, <3>5 DEF Replayed
  <2>5. report.tokens = TokensOf(report.steps)
    <3>1. \A i \in 1..n : steps[i].token = t[i]
      BY <1>7
    <3>2. DOMAIN steps = 1..n /\ t = [i \in 1..n |-> t[i]]
      BY <1>14
    <3>3. TokensOf(steps) = t
      BY <3>1, <3>2 DEF TokensOf
    <3> QED BY <1>5, <3>3
  <2>6. NormalIsBaseline
    <3>1. network.route[Prompt] = 0 => reply.tokens = baseline.generated[Memorized]
      BY <1>12, MadeIsGreedy
    <3> QED BY <1>2, <1>5, <2>3, <3>1 DEF NormalIsBaseline
  <2>7. RolePasses
    BY <1>9, <1>10, <2>4, <2>5, <2>6 DEF RolePasses
  <2>8. ASSUME report.reason # "context_limit" PROVE JointPasses
    <3>1. Last(t) = t[n]
      BY <1>6 DEF Last
    <3>2. t[n] \in Stops \/ n = MaxNewTokens
      BY <1>5, <1>6, <2>8
    <3>3. EndsWell(t)
      <4>1. Len(t) \in 1..MaxNewTokens /\ DOMAIN t = 1..Len(t)
        BY <1>13, <1>14, NativeConstants
      <4> QED BY <1>6, <3>1, <3>2, <4>1 DEF EndsWell
    <3>4. report.reason = IF t[n] \in Stops THEN "stop_token" ELSE "max_new_tokens"
      BY <1>5, <1>6, <3>2
    <3> QED BY <1>5, <2>2, <2>7, <3>1, <3>3, <3>4 DEF JointPasses
  <2> QED BY <1>12, <2>7, <2>8
<1> QED BY <1>11, <1>12

(* The audit of the reply.                                                   *)
LEMMA AuditReplyInv == ASSUME NativeInv, AuditReply PROVE NativeInv'
<1>1. /\ BaselineType /\ BaselineOK /\ ReplyType /\ ProgressOK /\ ReportOK /\ HonestOK
      /\ UNCHANGED <<network, backend, source, room, baseline, intact, reply, wire, report, changed>>
      /\ report.made /\ backend \in {"continuous", "role", "joint"}
  <2>1. Backends \subseteq {"continuous", "role", "joint"}
    BY NativeConstants
  <2> QED BY <2>1 DEF NativeInv, AuditReply, ReplyType
<1>2. BaselineType' /\ BaselineOK' /\ Limit' = Limit
  BY <1>1, BaselineKept
<1>3. /\ verdict' = "passed" => \/ backend = "continuous" /\ ContinuousPasses
                                \/ backend = "role" /\ RolePasses
                                \/ backend = "joint" /\ JointPasses
      /\ verdict' = "refused" => \/ backend = "continuous" /\ ~ContinuousPasses
                                 \/ backend = "role" /\ ~RolePasses
                                 \/ backend = "joint" /\ ~JointPasses
  <2>1. CASE backend = "continuous"
    BY <2>1 DEF AuditReply
  <2>2. CASE backend = "role"
    BY <2>2 DEF AuditReply
  <2>3. CASE backend = "joint"
    BY <2>3 DEF AuditReply
  <2> QED BY <1>1, <2>1, <2>2, <2>3
<1>4. ReplyType'
  BY <1>1 DEF ReplyType
<1>5. ProgressOK'
  BY <1>1, <1>2 DEF ProgressOK
<1>6. HonestOK'
  <2>1. /\ network' = network /\ backend' = backend /\ intact' = intact /\ reply' = reply
        /\ wire' = wire /\ changed' = changed
    BY <1>1
  <2>2. HonestOK
    BY <1>1
  <2> QED BY <2>1, <2>2 DEF HonestOK, ByRoute, Output, StepAt, FileAt, RouteAt, Residual
<1>7. ReportOK'
  BY <1>1 DEF ReportOK
<1>8. ASSUME verdict' = "refused", ~changed PROVE backend = "joint" /\ report.reason = "context_limit"
  <2>1. /\ backend = "continuous" => ContinuousPasses
        /\ backend # "continuous" => RolePasses
        /\ backend = "joint" /\ report.reason # "context_limit" => JointPasses
    BY <1>1, <1>8, HonestPasses
  <2> QED BY <1>3, <1>8, <2>1
<1>9. ASSUME verdict' = "passed", backend # "continuous"
      PROVE  /\ IsGreedy(report.tokens, ByRoute) /\ TokensOf(wire) = report.tokens
             /\ network.route[Prompt] = 0 => report.tokens = baseline.generated[Memorized]
  <2>1. RolePasses
    BY <1>3, <1>9 DEF JointPasses
  <2>2. report.tokens = reply.tokens /\ TokensOf(wire) = report.tokens
    BY <1>1, <2>1, PassedIsMade
  <2> QED BY <1>1, <1>9, <2>2, MadeIsGreedy
<1>10. AuditVouches'
  <2>1. /\ network' = network /\ backend' = backend /\ baseline' = baseline /\ room' = room
        /\ wire' = wire /\ changed' = changed /\ report' = report
    BY <1>1
  <2>2. verdict' = "passed" /\ backend # "continuous" => IsGreedy(report.tokens, ByRoute)'
    BY <1>9, <2>1 DEF IsGreedy, ByRoute, Output, Limit
  <2>3. verdict' = "passed" /\ backend # "continuous" => TokensOf(wire)' = report'.tokens
    BY <1>9, <2>1 DEF TokensOf
  <2>4. /\ verdict' = "passed" /\ backend # "continuous" /\ network'.route[Prompt] = 0 =>
             report'.tokens = baseline'.generated[Memorized]
        /\ verdict' = "refused" /\ ~changed' => backend' = "joint" /\ report'.reason = "context_limit"
    BY <1>8, <1>9, <2>1
  <2> QED BY <2>1, <2>2, <2>3, <2>4 DEF AuditVouches
<1> QED BY <1>1, <1>2, <1>4, <1>5, <1>6, <1>7, <1>10 DEF NativeInv
-----------------------------------------------------------------------------
(* Nothing happens.                                                          *)
LEMMA NativeStutters == ASSUME NativeInv, UNCHANGED nativeVars PROVE NativeInv'
<1>1. /\ network' = network /\ backend' = backend /\ source' = source /\ room' = room
      /\ baseline' = baseline /\ intact' = intact /\ reply' = reply /\ wire' = wire
      /\ report' = report /\ changed' = changed /\ verdict' = verdict
  BY DEF nativeVars
<1>2. BaselineType' /\ BaselineOK' /\ Limit' = Limit
  BY <1>1, BaselineKept DEF NativeInv
<1>3. ReplyType' /\ ReportOK'
  BY <1>1 DEF NativeInv, ReplyType, ReportOK
<1>4. ProgressOK'
  BY <1>1, <1>2 DEF NativeInv, ProgressOK
<1>5. HonestOK'
  BY <1>1 DEF NativeInv, HonestOK, ByRoute, Output, StepAt, FileAt, RouteAt, Residual
<1>6. AuditVouches'
  BY <1>1, <1>2 DEF NativeInv, AuditVouches, IsGreedy, ByRoute, Output, TokensOf
<1> QED BY <1>2, <1>3, <1>4, <1>5, <1>6 DEF NativeInv

LEMMA NativeStepInv == ASSUME NativeInv, [NativeNext]_nativeVars PROVE NativeInv'
<1>1. CASE BaselineStep
  BY <1>1, BaselineStepInv
<1>2. CASE BeginReply
  BY <1>2, BeginReplyInv
<1>3. CASE Check
  BY <1>3, CheckInv
<1>4. CASE Call
  BY <1>4, CallInv
<1>5. CASE Finish
  BY <1>5, FinishInv
<1>6. CASE ReplaceBinary
  BY <1>6, ReplaceBinaryInv
<1>7. CASE ChangeFile
  BY <1>7, ChangeFileInv
<1>8. CASE AuditReply
  BY <1>8, AuditReplyInv
<1>9. CASE UNCHANGED nativeVars
  BY <1>9, NativeStutters
<1> QED BY <1>1, <1>2, <1>3, <1>4, <1>5, <1>6, <1>7, <1>8, <1>9 DEF NativeNext

(* Through every reply of the campaigns, and the value controllers' too.     *)
LEMMA NativeAlways == RepliesSpec => []NativeInv
<1>1. RepliesInit => NativeInv
  BY NativeInitOK DEF RepliesInit
<1>2. NativeInv /\ [RepliesNext]_replyVars => NativeInv'
  <2>1. [RepliesNext]_replyVars => [NativeNext]_nativeVars
    BY DEF RepliesNext, ByValue, ByNative, replyVars
  <2> QED BY <2>1, NativeStepInv
<1> QED BY <1>1, <1>2, PTL DEF RepliesSpec

(* ReportedIsGenerated: what is reported, without memory or with it, is what *)
(* the networks give greedily (eval_joint_baseline, greedy_generate and the  *)
(* backends of CG-001 to CG-003), for every panel, vocabulary and network.   *)
THEOREM ReportedAlwaysGenerated == RepliesSpec => []ReportedIsGenerated
<1>1. NativeInv => ReportedIsGenerated
  <2> SUFFICES ASSUME NativeInv PROVE ReportedIsGenerated
    OBVIOUS
  <2>1. baseline.pc = "reported" =>
          /\ BaselinePasses
          /\ \A c \in Cases :
               LET base(p) == network.base[c][p] IN IsGreedy(baseline.generated[c], base)
    BY BaselineReported DEF NativeInv
  <2>2. ASSUME report.made, ~changed PROVE IsGreedy(report.tokens, ByRoute)
    <3>1. report.tokens = reply.tokens
      BY <2>2 DEF NativeInv, ReportOK
    <3> QED BY <2>2, <3>1, MadeIsGreedy
  <2> QED BY <2>1, <2>2 DEF ReportedIsGenerated
<1> QED BY <1>1, NativeAlways, PTL

(* AuditVouches: the audits of CG-002 and CG-003 (audit_role_generation,     *)
(* audit_joint_generation) pass no reply that the network would not have     *)
(* given, even if one file of its evidence was changed, and refuse no honest *)
(* one that the context did not cut short.                                   *)
THEOREM AuditAlwaysVouches == RepliesSpec => []AuditVouches
<1>1. NativeInv => AuditVouches
  BY DEF NativeInv
<1> QED BY <1>1, NativeAlways, PTL
-----------------------------------------------------------------------------
(* The value controllers: their state, in parts.                             *)
CoreType ==
  core \in [state : {"idle", "active", "wait_uncertainty", "done", "failed"},
            route : Routes \union {"unset"},
            cursor : [value : Values \union {<<>>}, offset : 0..MaxValueTokens],
            reads : 0..MaxReads,
            pending : {<<>>} \union {<<d>> : d \in Decisions}]
OuterType ==
  outer \in [uncertain : BOOLEAN, done : BOOLEAN, failed : BOOLEAN,
             pending : {<<>>} \union {<<d>> : d \in Decisions}]
OutputType ==
  /\ output \in Seq(Tokens) /\ Len(output) <= MaxNew /\ Used <= MaxTotal
  /\ kinds \in Seq(Kinds) /\ Len(kinds) = Len(output)
RestType ==
  /\ prompt \in Prompts /\ altered \in BOOLEAN /\ smeared \in BOOLEAN
  /\ teacher \in {Free} \union Trajectories

LEMMA TypeParts == TypeOK <=> CoreType /\ OuterType /\ OutputType /\ RestType
  BY DEF TypeOK, CoreType, OuterType, OutputType, RestType

Value == core.cursor.value
Offset == core.cursor.offset

(* A cursor is in one of the values.                                         *)
CursorOK ==
  Reading(core) => Value \in Values /\ Offset \in 0..Len(Value) /\ Len(Value) <= MaxValueTokens

(* The pending decision is the core's or, after the hand-over, the branch's; *)
(* it fits the cursor, and was made within the budgets.                      *)
DecisionFits(d) ==
  /\ d.kind # "uncertain"
  /\ d.kind = "base" => ~Reading(core)
  /\ d.kind = "start" => Reading(core) /\ Offset = 0 /\ core.reads < MaxReads
  /\ d.kind = "continue" => Reading(core) /\ Offset > 0 /\ Offset < Len(Value)
  /\ d.kind \in {"start", "continue"} => d.token = Value[Offset + 1]
  /\ d.kind = "end" => Reading(core) /\ Offset > 0 /\ Offset = Len(Value)
PendingOK ==
  outer.pending # <<>> =>
    /\ ~outer.failed /\ ~outer.done /\ WithinBudget
    /\ IF outer.uncertain THEN outer.pending[1].kind = "uncertain"
       ELSE DecisionFits(outer.pending[1])

(* The branch takes over between values, and a cursor that nothing was read  *)
(* from belongs to a start that is pending or was refused for good.          *)
BranchOK == outer.uncertain \/ outer.done => ~Reading(core)
StartOK ==
  Reading(core) /\ Offset = 0 =>
    outer.failed \/ (outer.pending # <<>> /\ outer.pending[1].kind = "start")

Room ==
  Reading(core) =>
    /\ Len(output) + (Len(Value) - Offset) + 1 <= MaxNew
    /\ Used + (Len(Value) - Offset) + 1 <= MaxTotal

(* The output, from the last start on, is what was read so far.              *)
TailOK ==
  Reading(core) /\ Offset > 0 =>
    LET first == Len(output) - Offset + 1 IN
    /\ first >= 1 /\ kinds[first] = "start"
    /\ \A k \in first + 1..Len(kinds) : kinds[k] = "continue"
    /\ \A k \in 1..Offset : output[first + k - 1] = Value[k]

(* A run of m tokens from i on that is a value, and ended; or is being read. *)
Ended(i, m) ==
  /\ i + m <= Len(kinds) /\ kinds[i + m] = "end"
  /\ \A k \in i + 1..i + m - 1 : kinds[k] = "continue"
  /\ \E v \in Values : Len(v) = m /\ \A k \in 1..m : output[i + k - 1] = v[k]
RunsOK ==
  \A i \in 1..Len(kinds) : kinds[i] = "start" =>
    \/ \E m \in Nat \ {0} : Ended(i, m)
    \/ Reading(core) /\ Offset > 0 /\ i = Len(kinds) - Offset + 1
FollowsOK ==
  \A i \in 1..Len(kinds) : kinds[i] \in {"continue", "end"} =>
    i > 1 /\ kinds[i - 1] \in {"start", "continue"}
DoneOK == outer.done => kinds # <<>> /\ kinds[Len(kinds)] \in {"base", "end", "uncertain"}

CoreInv == CursorOK /\ PendingOK /\ BranchOK /\ StartOK /\ Room
HistoryInv == TailOK /\ RunsOK /\ FollowsOK /\ DoneOK
Inv == TypeOK /\ CoreInv /\ HistoryInv
-----------------------------------------------------------------------------
USE ReplyConstants

LEMMA InitInv == Init => Inv
<1> SUFFICES ASSUME Init PROVE Inv
  OBVIOUS
<1>1. TypeOK
  <2>1. prompt \in Nat /\ prompt < MaxTotal
    BY DEF Init
  <2>2. CoreType
    BY DEF Init, CoreType, NoCursor, Routes
  <2>3. OuterType
    BY DEF Init, OuterType
  <2>4. OutputType
    BY <2>1 DEF Init, OutputType, Used
  <2>5. RestType
    BY DEF Init, RestType
  <2> QED  BY <2>2, <2>3, <2>4, <2>5, TypeParts
<1>2. ~Reading(core) /\ outer.pending = <<>> /\ Len(kinds) = 0 /\ ~outer.done
  BY DEF Init, Reading
<1>3. CoreInv
  BY <1>2 DEF CoreInv, CursorOK, PendingOK, BranchOK, StartOK, Room
<1>4. HistoryInv
  BY <1>2 DEF HistoryInv, TailOK, RunsOK, FollowsOK, DoneOK
<1> QED  BY <1>1, <1>3, <1>4 DEF Inv
-----------------------------------------------------------------------------
(* What the core makes of a frame: a refusal, a hand-over, or a decision.    *)
Refused(c) ==
  c.state = "failed" /\ c = [core EXCEPT !.state = "failed", !.pending = <<>>]
HandedOver(c, f) ==
  /\ c.state = "wait_uncertainty" /\ ~Reading(core) /\ WithinBudget
  /\ c = [core EXCEPT !.route = RouteOf(core, f), !.state = "wait_uncertainty"]
Decided(c, f, k, t) ==
  /\ c = [core EXCEPT !.route = RouteOf(core, f), !.pending = <<[kind |-> k, token |-> t]>>]
  /\ c.state \notin {"failed", "wait_uncertainty"} /\ WithinBudget
  /\ k = "base" => ~Reading(core)
  /\ k = "continue" => Reading(core) /\ Offset < Len(Value) /\ t = Value[Offset + 1]
  /\ k = "end" => Reading(core) /\ Offset = Len(Value)
Started(c, f, v) ==
  /\ c = [core EXCEPT !.route = RouteOf(core, f), !.pending = <<[kind |-> "start", token |-> v[1]]>>,
                      !.cursor = [value |-> v, offset |-> 0]]
  /\ c.state \notin {"failed", "wait_uncertainty"} /\ WithinBudget
  /\ ~Reading(core) /\ Fits(core, v)

LEMMA CoreProposal ==
  ASSUME Inv, NEW f \in Frames, NEW c, c = CoreProposed(core, f), ~outer.failed, outer.pending = <<>>
  PROVE \/ Refused(c)
        \/ HandedOver(c, f)
        \/ \E k \in {"base", "continue", "end"}, t \in Tokens : Decided(c, f, k, t)
        \/ \E v \in Values : Started(c, f, v)
<1>1. CoreType /\ CursorOK
  BY TypeParts DEF Inv, CoreInv
<1>2. CASE ~CoreAccepts(core, f)
  <2>1. c = [core EXCEPT !.state = "failed", !.pending = <<>>]
    BY <1>2 DEF CoreProposed
  <2> QED  BY <2>1, <1>1 DEF CoreType, Refused
<1>3. CASE CoreAccepts(core, f)
  <2>1. WithinBudget /\ core.state \in {"idle", "active"} /\ core.pending = <<>>
    BY <1>3 DEF CoreAccepts, Unpledged
  <2>2. CASE KindOf(core, f) = "uncertain"
    <3>1. ~Reading(core)
      BY <2>2 DEF KindOf, ReaderRuns
    <3>2. c = [core EXCEPT !.route = RouteOf(core, f), !.state = "wait_uncertainty"]
      BY <1>3, <2>2 DEF CoreProposed
    <3> QED  BY <2>1, <3>1, <3>2, <1>1 DEF CoreType, HandedOver
  <2>3. CASE KindOf(core, f) = "start"
    <3>1. ~Reading(core) /\ Fits(core, f.value) /\ f.value \in Values
      BY <1>3, <2>3 DEF KindOf, ReaderRuns, CoreAccepts, Fits, Frames
    <3>2. TokenOf(core, f) = f.value[1]
      BY <2>3 DEF TokenOf
    <3>3. c = [core EXCEPT !.route = RouteOf(core, f),
                           !.pending = <<[kind |-> "start", token |-> f.value[1]]>>,
                           !.cursor = [value |-> f.value, offset |-> 0]]
      BY <1>3, <2>3, <3>2 DEF CoreProposed
    <3>4. c.state = core.state
      BY <3>3, <1>1 DEF CoreType
    <3> QED  BY <2>1, <3>1, <3>3, <3>4 DEF Started
  <2>4. CASE KindOf(core, f) \notin {"uncertain", "start"}
    <3> DEFINE k == KindOf(core, f)
               t == TokenOf(core, f)
    <3>1. /\ k \in {"base", "continue", "end"}
          /\ k = "base" => ~Reading(core)
          /\ k = "continue" => Reading(core) /\ ~CursorDone(core.cursor)
          /\ k = "end" => Reading(core) /\ CursorDone(core.cursor)
      BY <2>4 DEF KindOf
    <3>2. k = "continue" => Offset < Len(Value) /\ t = Value[Offset + 1] /\ t \in Tokens
      <4> SUFFICES ASSUME k = "continue"
                   PROVE Offset < Len(Value) /\ t = Value[Offset + 1] /\ t \in Tokens
        OBVIOUS
      <4>1. Value \in Seq(Words) /\ Offset \in 0..Len(Value) /\ Offset # Len(Value)
        BY <1>1, <3>1 DEF CursorOK, CursorDone, Value, Offset
      <4>2. t = Value[Offset + 1]
        BY DEF TokenOf, NextOfValue, Value, Offset
      <4> QED  BY <4>1, <4>2 DEF Tokens
    <3>3. k # "continue" => t = f.base /\ t \in Tokens
      BY <2>4 DEF TokenOf, Frames
    <3>4. c = [core EXCEPT !.route = RouteOf(core, f), !.pending = <<[kind |-> k, token |-> t]>>]
      <4>1. c = [[core EXCEPT !.route = RouteOf(core, f)] EXCEPT
                    !.pending = <<[kind |-> k, token |-> t]>>,
                    !.cursor = @]
        BY <1>3, <2>4 DEF CoreProposed
      <4> QED  BY <4>1, <1>1 DEF CoreType
    <3>5. c.state = core.state
      BY <3>4, <1>1 DEF CoreType
    <3>6. k = "end" => Offset = Len(Value)
      BY <3>1 DEF CursorDone, Value, Offset
    <3> HIDE DEF k, t
    <3> QED  BY <2>1, <3>1, <3>2, <3>3, <3>4, <3>5, <3>6 DEF Decided
  <2> QED  BY <2>2, <2>3, <2>4
<1> QED  BY <1>2, <1>3

(* While nothing is emitted the history stays true if the core reads on where *)
(* it was, or begins to read.                                                *)
LEMMA HistoryKept ==
  ASSUME HistoryInv, OutputType, UNCHANGED <<output, kinds, outer.done>>,
         \/ core'.cursor = core.cursor
         \/ ~Reading(core) /\ core'.cursor.offset = 0
  PROVE  HistoryInv'
<1>1. (Reading(core) /\ Offset > 0)' => Reading(core) /\ Offset > 0 /\ core'.cursor = core.cursor
  BY DEF Reading, Offset
<1>2. Reading(core) /\ Offset > 0 => (Reading(core) /\ Offset > 0 /\ Offset = Offset)'
                                       /\ core'.cursor = core.cursor
  BY DEF Reading, Offset
<1>3. TailOK'
  BY <1>1 DEF HistoryInv, TailOK, Offset, Value
<1>4. RunsOK'
  <2>1. \A i, m : Ended(i, m)' <=> Ended(i, m)
    BY DEF Ended
  <2> QED  BY <1>2, <2>1 DEF HistoryInv, RunsOK, Offset
<1> QED  BY <1>3, <1>4 DEF HistoryInv, FollowsOK, DoneOK

(* A failure ends the reply and leaves what was read and emitted.            *)
LEMMA FailureInv ==
  ASSUME Inv, OuterFailed, CoreType', RestType', core'.cursor = core.cursor,
         UNCHANGED <<prompt, output, kinds>>
  PROVE  Inv'
<1>0. /\ OuterType /\ OutputType /\ CursorOK /\ PendingOK /\ BranchOK /\ StartOK /\ Room /\ HistoryInv
  BY TypeParts DEF Inv, CoreInv
<1>1. /\ outer'.pending = <<>> /\ outer'.failed /\ outer'.done = outer.done
      /\ outer'.uncertain = outer.uncertain /\ OuterType'
  BY <1>0 DEF OuterFailed, OuterType
<1>2. OutputType'
  BY <1>0 DEF OutputType, Used
<1>3. CoreInv'
  BY <1>0, <1>1
     DEF CoreInv, CursorOK, PendingOK, BranchOK, StartOK, Room, Reading, Value, Offset, Used
<1>4. HistoryInv'
  BY <1>0, <1>1, HistoryKept
<1> QED  BY <1>1, <1>2, <1>3, <1>4 DEF Inv, TypeOK, CoreType, OuterType, OutputType, RestType

LEMMA ProposeInv == ASSUME Inv, Propose PROVE Inv'
<1>0. /\ CoreType /\ OuterType /\ OutputType /\ RestType
      /\ CursorOK /\ PendingOK /\ BranchOK /\ StartOK /\ Room /\ HistoryInv
  BY TypeParts DEF Inv, CoreInv
<1>1. UNCHANGED <<prompt, output, altered, kinds, teacher>> /\ smeared' = FALSE
  BY DEF Propose
<1>2. OutputType' /\ RestType'
  BY <1>0, <1>1 DEF OutputType, RestType, Used
<1>3. PICK f \in Frames : ProposeRefused \/ ProposeByCore(f) \/ ProposeByBranch(f)
  BY DEF Propose
<1>4. CASE OuterFailed /\ UNCHANGED core
  <2>1. CoreType'
    BY <1>4, <1>0 DEF CoreType
  <2> QED  BY <1>1, <1>2, <1>4, <2>1, FailureInv
<1>5. CoreType' /\ OuterType' /\ CoreInv' /\ HistoryInv' => Inv'
  BY <1>2 DEF Inv, TypeOK, CoreType, OuterType, OutputType, RestType
<1>6. CASE ProposeByCore(f)
  <2> DEFINE c == core'
  <2>0. /\ ~outer.done /\ ~outer.failed /\ outer.pending = <<>> /\ ~outer.uncertain
        /\ c = CoreProposed(core, f)
    BY <1>6 DEF ProposeByCore, Open
  <2>1. CASE Refused(c)
    <3>1. OuterFailed
      BY <1>6, <2>1 DEF Refused, ProposeByCore
    <3>2. c.cursor = core.cursor /\ CoreType'
      BY <2>1, <1>0 DEF Refused, CoreType
    <3> QED  BY <1>1, <1>2, <3>1, <3>2, FailureInv
  <2>2. CASE HandedOver(c, f)
    <3>1. RouteOf(core, f) \in Routes \union {"unset"}
      BY <1>0 DEF RouteOf, CoreType, Frames
    <3>2. outer' = [outer EXCEPT !.uncertain = TRUE,
                                 !.pending = <<[kind |-> "uncertain", token |-> f.branch]>>]
      BY <1>6, <2>2 DEF HandedOver, ProposeByCore
    <3>3. [kind |-> "uncertain", token |-> f.branch] \in Decisions
      BY DEF Decisions, Kinds, Frames
    <3>4. /\ outer'.pending = <<[kind |-> "uncertain", token |-> f.branch]>> /\ outer'.uncertain
          /\ outer'.failed = outer.failed /\ outer'.done = outer.done
      BY <3>2, <1>0 DEF OuterType
    <3>5. c.cursor = core.cursor /\ CoreType' /\ OuterType'
      BY <2>2, <3>1, <3>2, <3>3, <1>0 DEF HandedOver, CoreType, OuterType
    <3>6. ~Reading(core')
      BY <2>2, <3>5 DEF HandedOver, Reading
    <3>7. WithinBudget'
      BY <2>2, <1>1 DEF HandedOver, WithinBudget, Used
    <3>8. CoreInv'
      BY <3>4, <3>6, <3>7, <2>0 DEF CoreInv, CursorOK, PendingOK, BranchOK, StartOK, Room
    <3> QED  BY <1>0, <1>1, <1>5, <3>4, <3>5, <3>8, HistoryKept
  <2>3. ASSUME NEW k \in {"base", "continue", "end"}, NEW t \in Tokens, Decided(c, f, k, t)
        PROVE  CoreType' /\ OuterType' /\ CoreInv' /\ HistoryInv'
    <3> DEFINE d == [kind |-> k, token |-> t]
    <3>1. RouteOf(core, f) \in Routes \union {"unset"}
      BY <1>0 DEF RouteOf, CoreType, Frames
    <3>2. d \in Decisions
      BY DEF Decisions, Kinds
    <3>3. /\ CoreType' /\ c.cursor = core.cursor /\ c.reads = core.reads /\ c.pending = <<d>>
      BY <2>3, <3>1, <3>2, <1>0 DEF Decided, CoreType
    <3>4. outer' = [outer EXCEPT !.pending = <<d>>]
      BY <1>6, <2>3, <3>3 DEF Decided, ProposeByCore
    <3>5. /\ OuterType' /\ outer'.pending = <<d>> /\ outer'.uncertain = outer.uncertain
          /\ outer'.failed = outer.failed /\ outer'.done = outer.done
      BY <3>4, <3>2, <1>0 DEF OuterType
    <3>6. WithinBudget'
      BY <2>3, <1>1 DEF Decided, WithinBudget, Used
    <3>7. Reading(core) => Offset > 0
      BY <1>0, <2>0 DEF StartOK, CursorOK
    <3>8. CursorOK' /\ BranchOK' /\ StartOK' /\ Room'
      BY <1>0, <1>1, <2>0, <3>3, <3>5, <3>7
         DEF CursorOK, BranchOK, StartOK, Room, Reading, Value, Offset, Used
    <3>9. DecisionFits(d)'
      BY <2>3, <3>3, <3>7 DEF Decided, DecisionFits, Reading, Value, Offset
    <3>10. PendingOK'
      BY <3>5, <3>6, <3>9, <2>0 DEF PendingOK
    <3> QED  BY <1>0, <1>1, <3>3, <3>5, <3>8, <3>10, HistoryKept DEF CoreInv
  <2>4. ASSUME NEW v \in Values, Started(c, f, v)
        PROVE  CoreType' /\ OuterType' /\ CoreInv' /\ HistoryInv'
    <3> DEFINE d == [kind |-> "start", token |-> v[1]]
    <3>1. RouteOf(core, f) \in Routes \union {"unset"}
      BY <1>0 DEF RouteOf, CoreType, Frames
    <3>2. v \in Seq(Words) /\ Len(v) \in Nat /\ Len(v) > 0 /\ v # <<>> /\ Len(v) <= MaxValueTokens
      BY <2>4 DEF Started, Fits
    <3>3. v[1] \in Tokens
      BY <3>2 DEF Tokens
    <3>4. d \in Decisions
      BY <3>3 DEF Decisions, Kinds
    <3>5. /\ CoreType' /\ c.cursor = [value |-> v, offset |-> 0] /\ c.reads = core.reads
          /\ c.pending = <<d>>
      <4>1. [value |-> v, offset |-> 0] \in [value : Values \union {<<>>}, offset : 0..MaxValueTokens]
        OBVIOUS
      <4> HIDE DEF d
      <4>2. c = [core EXCEPT !.route = RouteOf(core, f), !.pending = <<d>>,
                             !.cursor = [value |-> v, offset |-> 0]]
        BY <2>4 DEF Started, d
      <4> QED  BY <4>1, <4>2, <3>1, <3>4, <1>0 DEF CoreType
    <3>6. outer' = [outer EXCEPT !.pending = <<d>>]
      BY <1>6, <2>4, <3>5 DEF Started, ProposeByCore
    <3>7. /\ OuterType' /\ outer'.pending = <<d>> /\ outer'.uncertain = outer.uncertain
          /\ outer'.failed = outer.failed /\ outer'.done = outer.done
      BY <3>6, <3>4, <1>0 DEF OuterType
    <3>8. WithinBudget'
      BY <2>4, <1>1 DEF Started, WithinBudget, Used
    <3>9. Reading(core') /\ Value' = v /\ Offset' = 0
      BY <3>5, <3>2 DEF Reading, NoCursor, Value, Offset
    <3>10. Len(output) \in Nat /\ prompt \in Nat
      BY <1>0 DEF OutputType, RestType
    <3>11. Room'
      BY <2>4, <3>2, <3>9, <3>10, <1>1 DEF Started, Room, Fits, Remaining, Used
    <3>12. CursorOK' /\ BranchOK' /\ StartOK'
      BY <2>0, <3>2, <3>7, <3>9 DEF CursorOK, BranchOK, StartOK
    <3>13. DecisionFits(d)'
      BY <2>4, <3>5, <3>9 DEF Started, DecisionFits, Fits
    <3>14. PendingOK'
      BY <3>7, <3>8, <3>13, <2>0 DEF PendingOK
    <3>15. ~Reading(core) /\ core'.cursor.offset = 0
      BY <2>4, <3>5 DEF Started
    <3> QED  BY <1>0, <1>1, <3>5, <3>7, <3>11, <3>12, <3>14, <3>15, HistoryKept DEF CoreInv
  <2>5. \/ Refused(c) \/ HandedOver(c, f)
        \/ \E k \in {"base", "continue", "end"}, t \in Tokens : Decided(c, f, k, t)
        \/ \E v \in Values : Started(c, f, v)
    BY <2>0, CoreProposal
  <2> QED  BY <1>5, <2>1, <2>2, <2>3, <2>4, <2>5
<1>7. CASE ProposeByBranch(f) /\ ~OuterFailed
  <2>1. /\ ~outer.done /\ ~outer.failed /\ outer.uncertain /\ WithinBudget /\ UNCHANGED core
        /\ outer' = [outer EXCEPT !.pending = <<[kind |-> "uncertain", token |-> f.branch]>>]
    BY <1>7 DEF ProposeByBranch, Open
  <2>2. [kind |-> "uncertain", token |-> f.branch] \in Decisions
    BY DEF Decisions, Kinds, Frames
  <2>3. /\ OuterType' /\ outer'.pending = <<[kind |-> "uncertain", token |-> f.branch]>>
        /\ outer'.uncertain /\ outer'.failed = outer.failed /\ outer'.done = outer.done
    BY <2>1, <2>2, <1>0 DEF OuterType
  <2>4. ~Reading(core) /\ ~Reading(core') /\ WithinBudget'
    BY <2>1, <1>0, <1>1 DEF BranchOK, Reading, WithinBudget, Used
  <2>5. CoreInv'
    BY <2>1, <2>3, <2>4 DEF CoreInv, CursorOK, PendingOK, BranchOK, StartOK, Room
  <2>6. CoreType'
    BY <2>1, <1>0 DEF CoreType
  <2> QED  BY <1>0, <1>1, <1>5, <2>1, <2>3, <2>5, <2>6, HistoryKept
<1> QED  BY <1>3, <1>4, <1>6, <1>7 DEF ProposeRefused, ProposeByBranch
-----------------------------------------------------------------------------
(* What a token that is not of a value makes of the history: it ends the run *)
(* that was being read, if there was one.                                    *)
LEMMA EmitOther ==
  ASSUME HistoryInv, OutputType, CursorOK, NEW k \in {"base", "end", "uncertain"}, NEW t \in Tokens,
         output' = Append(output, t), kinds' = Append(kinds, k), ~Reading(core)',
         k = "end" => Reading(core) /\ Offset > 0 /\ Offset = Len(Value),
         k # "end" => ~Reading(core)
  PROVE  HistoryInv'
<1> DEFINE n == Len(kinds)
<1>0. TailOK /\ RunsOK /\ FollowsOK
  BY DEF HistoryInv
<1>1. /\ n \in Nat /\ Len(kinds') = n + 1 /\ kinds'[n + 1] = k /\ \A i \in 1..n : kinds'[i] = kinds[i]
      /\ Len(output) = n /\ Len(output') = n + 1 /\ \A i \in 1..n : output'[i] = output[i]
  BY DEF OutputType
<1>2. Reading(core) => Value \in Values /\ Value \in Seq(Words) /\ Offset \in Nat
  BY DEF CursorOK
<1>3. k = "end" => n >= 1 /\ kinds[n] \in {"start", "continue"}
  <2> SUFFICES ASSUME k = "end" PROVE n >= 1 /\ kinds[n] \in {"start", "continue"}
    OBVIOUS
  <2> DEFINE first == n - Offset + 1
  <2>1. first >= 1 /\ kinds[first] = "start" /\ \A i \in first + 1..n : kinds[i] = "continue"
    BY <1>0, <1>1 DEF TailOK
  <2>2. first = n \/ n \in first + 1..n
    BY <1>1, <1>2
  <2> QED  BY <1>1, <1>2, <2>1, <2>2
<1>4. ASSUME NEW i \in 1..n, NEW m \in Nat \ {0}, Ended(i, m)  PROVE Ended(i, m)'
  BY <1>1, <1>4, Z3 DEF Ended
<1>5. ASSUME NEW i \in 1..n, Reading(core), Offset > 0, i = n - Offset + 1, k = "end"
      PROVE  \E m \in Nat \ {0} : Ended(i, m)'
  <2>1. PICK m \in Nat \ {0} : m = Offset
    BY <1>2, <1>5
  <2>2. PICK v \in Values : v = Value
    BY <1>2, <1>5
  <2>3. /\ \A j \in i + 1..n : kinds'[j] = "continue"
        /\ \A j \in 1..m : output'[i + j - 1] = v[j]
    BY <1>0, <1>1, <1>5, <2>1, <2>2 DEF TailOK
  <2>4. i + m = n + 1 /\ Len(v) = m
    BY <1>1, <1>5, <2>1, <2>2
  <2>5. i + m <= Len(kinds') /\ kinds'[i + m] = "end" /\ \A j \in i + 1..i + m - 1 : kinds'[j] = "continue"
    BY <1>1, <1>5, <2>3, <2>4
  <2>6. Ended(i, m)'
    BY <2>3, <2>4, <2>5 DEF Ended
  <2> QED  BY <2>6
<1>6. RunsOK'
  <2> SUFFICES ASSUME NEW i \in 1..n + 1, kinds'[i] = "start"
               PROVE  \E m \in Nat \ {0} : Ended(i, m)'
    BY <1>1 DEF RunsOK
  <2>1. i \in 1..n /\ kinds[i] = "start"
    BY <1>1
  <2>2. CASE \E m \in Nat \ {0} : Ended(i, m)
    BY <1>4, <2>1, <2>2
  <2>3. CASE Reading(core) /\ Offset > 0 /\ i = n - Offset + 1
    BY <1>2, <1>5, <2>1, <2>3, Z3
  <2> QED  BY <1>0, <2>1, <2>2, <2>3 DEF RunsOK
<1>7. TailOK'
  BY DEF TailOK
<1>8. FollowsOK'
  BY <1>0, <1>1, <1>3 DEF FollowsOK
<1>9. DoneOK'
  BY <1>1 DEF DoneOK
<1> QED  BY <1>6, <1>7, <1>8, <1>9 DEF HistoryInv

(* A token of a value begins its run or goes on with it.                     *)
LEMMA EmitValue ==
  ASSUME HistoryInv, OutputType, CursorOK, NEW k \in {"start", "continue"}, NEW t \in Tokens,
         output' = Append(output, t), kinds' = Append(kinds, k),
         Reading(core), Offset < Len(Value), t = Value[Offset + 1],
         k = "start" => Offset = 0, k = "continue" => Offset > 0,
         Reading(core)', Value' = Value, Offset' = Offset + 1, ~outer'.done
  PROVE  HistoryInv'
<1> DEFINE n == Len(kinds)
<1>0. TailOK /\ RunsOK /\ FollowsOK
  BY DEF HistoryInv
<1>1. /\ n \in Nat /\ Len(kinds') = n + 1 /\ kinds'[n + 1] = k /\ \A i \in 1..n : kinds'[i] = kinds[i]
      /\ Len(output) = n /\ Len(output') = n + 1 /\ output'[n + 1] = t
      /\ \A i \in 1..n : output'[i] = output[i]
  BY DEF OutputType
<1>2. Value \in Values /\ Value \in Seq(Words) /\ Offset \in Nat
  BY DEF CursorOK
<1>3. PICK first \in Int : first = n - Offset + 1
  <2>1. PICK m \in Nat, o \in Nat : m = n /\ o = Offset
    BY <1>1, <1>2, Zenon
  <2>2. m - o + 1 \in Int
    OBVIOUS
  <2> QED  BY <2>1, <2>2, Zenon
<1>4. Offset > 0 => /\ first >= 1 /\ kinds[first] = "start" /\ first <= n
                    /\ \A i \in first + 1..n : kinds[i] = "continue"
                    /\ \A i \in 1..Offset : output[first + i - 1] = Value[i]
  BY <1>0, <1>1, <1>2, <1>3 DEF TailOK
<1>5. TailOK'
  <2>1. Len(output') - Offset' + 1 = first
    BY <1>1, <1>2, <1>3
  <2>2. /\ first >= 1 /\ kinds'[first] = "start"
        /\ \A i \in first + 1..n + 1 : kinds'[i] = "continue"
    <3>1. CASE Offset = 0
      BY <3>1, <1>1, <1>3
    <3>2. CASE Offset > 0
      <4>1. first \in 1..n /\ kinds'[first] = "start"
        BY <3>2, <1>1, <1>4
      <4>2. \A i \in first + 1..n : i \in 1..n /\ kinds'[i] = "continue"
        BY <3>2, <4>1, <1>1, <1>4
      <4>3. kinds'[n + 1] = "continue"
        BY <3>2, <1>1
      <4> QED  BY <4>1, <4>2, <4>3, <1>1
    <3> QED  BY <1>2, <3>1, <3>2
  <2>3. \A i \in 1..Offset + 1 : output'[first + i - 1] = Value[i]
    <3> SUFFICES ASSUME NEW i \in 1..Offset + 1 PROVE output'[first + i - 1] = Value[i]
      OBVIOUS
    <3>1. CASE i = Offset + 1
      <4>1. first + i - 1 = n + 1
        BY <3>1, <1>1, <1>2, <1>3
      <4>2. Value[i] = t
        BY <3>1
      <4> QED  BY <4>1, <4>2, <1>1
    <3>2. CASE i \in 1..Offset
      <4>1. first + i - 1 \in 1..n
        BY <3>2, <1>1, <1>2, <1>3, <1>4
      <4>2. output'[first + i - 1] = output[first + i - 1]
        BY <4>1, <1>1
      <4>3. Offset > 0 /\ output[first + i - 1] = Value[i]
        BY <3>2, <1>2, <1>4
      <4> QED  BY <4>2, <4>3
    <3>3. i = Offset + 1 \/ i \in 1..Offset
      BY <1>2
    <3> QED  BY <3>1, <3>2, <3>3
  <2> QED  BY <1>1, <2>1, <2>2, <2>3 DEF TailOK
<1>6. ASSUME NEW i \in 1..n, NEW m \in Nat \ {0}, Ended(i, m)  PROVE Ended(i, m)'
  BY <1>1, <1>6, Z3 DEF Ended
<1>7. RunsOK'
  <2>1. Reading(core)' /\ Offset' > 0
    BY <1>2
  <2>2. ASSUME NEW i \in 1..Len(kinds'), kinds'[i] = "start"
        PROVE  \/ \E m \in Nat \ {0} : Ended(i, m)'
               \/ i = Len(kinds') - Offset' + 1
    <3>1. CASE i = n + 1
      BY <3>1, <2>2, <1>1, <1>2
    <3>2. CASE i \in 1..n
      <4>1. kinds[i] = "start"
        BY <3>2, <2>2, <1>1
      <4>2. CASE \E m \in Nat \ {0} : Ended(i, m)
        BY <3>2, <4>2, <1>6
      <4>3. CASE i = n - Offset + 1
        BY <4>3, <1>1, <1>2
      <4> QED  BY <3>2, <4>1, <4>2, <4>3, <1>0 DEF RunsOK
    <3> QED  BY <1>1, <2>2, <3>1, <3>2
  <2> QED  BY <2>1, <2>2 DEF RunsOK
<1>8. k = "continue" => n >= 1 /\ kinds[n] \in {"start", "continue"}
  BY <1>1, <1>2, <1>3, <1>4
<1>9. FollowsOK'
  BY <1>0, <1>1, <1>8 DEF FollowsOK
<1>10. DoneOK'
  BY DEF DoneOK
<1> QED  BY <1>5, <1>7, <1>9, <1>10 DEF HistoryInv

(* A commit emits the pending token or ends the reply.                       *)
LEMMA CommitInv == ASSUME Inv, Commit PROVE Inv'
<1>0. /\ CoreType /\ OuterType /\ OutputType /\ RestType
      /\ CursorOK /\ PendingOK /\ BranchOK /\ StartOK /\ Room /\ HistoryInv
  BY TypeParts DEF Inv, CoreInv
<1>1. UNCHANGED <<prompt, altered, smeared, teacher>>
  BY DEF Commit
<1>2. RestType'
  BY <1>0, <1>1 DEF RestType
<1>3. PICK same \in BOOLEAN, token \in Tokens :
        CommitRefused(same, token) \/ CommitByCore(same, token) \/ CommitByBranch(same, token)
  BY DEF Commit
<1>4. CASE OuterFailed /\ UNCHANGED <<core, output, kinds>>
  <2>1. CoreType'
    BY <1>4, <1>0 DEF CoreType
  <2> QED  BY <1>1, <1>2, <1>4, <2>1, FailureInv
<1> DEFINE d == outer.pending[1]
<1>5. Acknowledged(same, token) =>
        /\ ~outer.done /\ ~outer.failed /\ outer.pending # <<>> /\ token = d.token
        /\ d \in Decisions /\ outer.pending = <<d>> /\ WithinBudget
        /\ IF outer.uncertain THEN d.kind = "uncertain" ELSE DecisionFits(d)
  BY <1>0 DEF Acknowledged, OuterType, PendingOK
<1>6. Acknowledged(same, token) /\ Emitted(token) =>
        /\ OutputType' /\ output' = Append(output, token) /\ kinds' = Append(kinds, d.kind)
        /\ Len(output') = Len(output) + 1 /\ Len(output) \in Nat
  <2> SUFFICES ASSUME Acknowledged(same, token), Emitted(token)
               PROVE  /\ OutputType' /\ output' = Append(output, token) /\ kinds' = Append(kinds, d.kind)
                      /\ Len(output') = Len(output) + 1 /\ Len(output) \in Nat
    OBVIOUS
  <2>1. output' = Append(output, token) /\ kinds' = Append(kinds, d.kind) /\ d.kind \in Kinds
    BY <1>5 DEF Emitted, Decisions
  <2>2. Len(output) < MaxNew /\ Used < MaxTotal /\ prompt \in Nat
    BY <1>5, <1>0 DEF WithinBudget, RestType
  <2>3. output' \in Seq(Tokens) /\ kinds' \in Seq(Kinds) /\ Len(output') = Len(output) + 1
        /\ Len(kinds') = Len(output')
    BY <2>1, <1>0 DEF OutputType
  <2>4. Len(output) \in Nat
    BY <1>0 DEF OutputType
  <2>5. Len(output') <= MaxNew /\ Used' <= MaxTotal
    BY <2>2, <2>3, <2>4, <1>1 DEF Used
  <2> QED  BY <2>1, <2>3, <2>4, <2>5 DEF OutputType
<1>7. CASE CommitByBranch(same, token) /\ ~(OuterFailed /\ UNCHANGED <<core, output, kinds>>)
  <2>1. /\ Acknowledged(same, token) /\ outer.uncertain /\ Emitted(token) /\ UNCHANGED core
        /\ outer' = [outer EXCEPT !.pending = <<>>, !.done = token = Eos]
    BY <1>7 DEF CommitByBranch
  <2>2. /\ OuterType' /\ outer'.pending = <<>> /\ outer'.uncertain = outer.uncertain
        /\ outer'.failed = outer.failed
    BY <2>1, <1>0 DEF OuterType
  <2>3. ~Reading(core) /\ ~Reading(core)' /\ CoreType'
    BY <2>1, <1>0 DEF BranchOK, Reading, CoreType
  <2>4. CoreInv'
    BY <2>2, <2>3 DEF CoreInv, CursorOK, PendingOK, BranchOK, StartOK, Room
  <2>5. HistoryInv'
    BY <1>0, <1>5, <1>6, <2>1, <2>3, EmitOther
  <2> QED  BY <1>2, <1>6, <2>1, <2>2, <2>3, <2>4, <2>5
           DEF Inv, TypeOK, CoreType, OuterType, OutputType, RestType
<1>8. CASE CommitByCore(same, token) /\ smeared
  <2>1. core' = [core EXCEPT !.state = "failed", !.pending = <<>>]
    BY <1>8 DEF CommitByCore, CoreCommitted
  <2>2. core'.state = "failed" /\ core'.cursor = core.cursor /\ CoreType'
    BY <2>1, <1>0 DEF CoreType
  <2>3. OuterFailed /\ UNCHANGED <<output, kinds>>
    BY <1>8, <2>2 DEF CommitByCore
  <2> QED  BY <1>1, <1>2, <2>2, <2>3, FailureInv
<1>9. CASE CommitByCore(same, token) /\ ~smeared
  <2>0. Acknowledged(same, token) /\ ~outer.uncertain /\ DecisionFits(d) /\ d \in Decisions
    BY <1>9, <1>5 DEF CommitByCore
  <2> DEFINE state == StateAfter(d.kind, d.token)
             reads == core.reads + (IF d.kind = "start" THEN 1 ELSE 0)
             cursor == IF d.kind \in {"start", "continue"} THEN Advanced(core.cursor)
                       ELSE IF d.kind = "end" THEN NoCursor ELSE core.cursor
  <2>1. core' = [core EXCEPT !.state = state, !.pending = <<>>, !.reads = reads, !.cursor = cursor]
    <3>1. core' = CoreCommitted(core, d) /\ ~smeared
      BY <1>9 DEF CommitByCore
    <3> QED  BY <3>1 DEF CoreCommitted
  <2>2. state \in {"idle", "active", "done"}
    BY DEF StateAfter
  <2> HIDE DEF state, reads, cursor
  <2>3. core'.state = state /\ core'.cursor = cursor /\ core'.state # "failed"
    BY <2>1, <2>2, <1>0 DEF CoreType
  <2>4. /\ outer' = [outer EXCEPT !.pending = <<>>, !.done = core'.state = "done"] /\ Emitted(token)
    BY <1>9, <2>3 DEF CommitByCore
  <2>5. /\ OuterType' /\ outer'.pending = <<>> /\ outer'.uncertain = outer.uncertain
        /\ outer'.failed = outer.failed /\ outer'.done = (core'.state = "done")
    BY <2>4, <1>0 DEF OuterType
  <2>6. CASE d.kind \in {"start", "continue"}
    <3>1. /\ Reading(core) /\ Offset < Len(Value) /\ token = Value[Offset + 1]
          /\ d.kind = "start" => Offset = 0 /\ core.reads < MaxReads
          /\ d.kind = "continue" => Offset > 0
      BY <1>5, <2>0, <2>6, <1>0 DEF DecisionFits, CursorOK
    <3>2. Value \in Values /\ Value \in Seq(Words) /\ Offset \in 0..Len(Value) /\ Len(Value) <= MaxValueTokens
          /\ Value # <<>>
      BY <3>1, <1>0 DEF CursorOK
    <3>4. cursor = [value |-> Value, offset |-> Offset + 1]
      BY <2>6, <1>0 DEF cursor, Advanced, CoreType, Value, Offset
    <3>5. Offset + 1 \in 0..MaxValueTokens
      BY <3>1, <3>2
    <3>6. reads \in 0..MaxReads
      BY <3>1, <1>0 DEF reads, CoreType
    <3>7. CoreType'
      <4>1. cursor \in [value : Values \union {<<>>}, offset : 0..MaxValueTokens]
        BY <3>2, <3>4, <3>5
      <4>2. state \in {"idle", "active", "wait_uncertainty", "done", "failed"}
        BY <2>2
      <4> QED  BY <2>1, <3>6, <4>1, <4>2, <1>0 DEF CoreType
    <3>8. Reading(core)' /\ Value' = Value /\ Offset' = Offset + 1
      BY <2>3, <3>2, <3>4 DEF Reading, NoCursor, Value, Offset
    <3>9. token \in Words /\ token # Eos
      BY <3>1, <3>2
    <3>10. ~outer'.done
      <4>1. state = "active"
        BY <1>5, <2>0, <2>6, <3>9 DEF state, StateAfter
      <4> QED  BY <2>3, <2>5, <4>1
    <3>11. Room'
      <4>1. /\ Len(output) + (Len(Value) - Offset) + 1 <= MaxNew
            /\ Used + (Len(Value) - Offset) + 1 <= MaxTotal
        BY <3>1, <1>0 DEF Room
      <4>2. Len(output') = Len(output) + 1 /\ Len(output) \in Nat
        BY <1>6, <2>0, <2>4
      <4>3. Used' = Used + 1 /\ Used \in Nat
        BY <4>2, <1>0, <1>1 DEF Used, RestType
      <4>4. Len(Value') - Offset' = Len(Value) - Offset - 1 /\ Len(Value) \in Nat /\ Offset \in Nat
        BY <3>2, <3>8
      <4> QED  BY <4>1, <4>2, <4>3, <4>4 DEF Room
    <3>12. CoreInv'
      BY <2>0, <2>5, <3>1, <3>2, <3>8, <3>10, <3>11 DEF CoreInv, CursorOK, PendingOK, BranchOK, StartOK
    <3>13. HistoryInv'
      BY <1>0, <1>6, <2>0, <2>4, <2>6, <3>1, <3>8, <3>10, EmitValue
    <3> QED  BY <1>2, <1>6, <2>0, <2>4, <2>5, <3>7, <3>12, <3>13
             DEF Inv, TypeOK, CoreType, OuterType, OutputType, RestType
  <2>7. CASE d.kind \in {"base", "end"}
    <3>1. /\ d.kind = "base" => ~Reading(core)
          /\ d.kind = "end" => Reading(core) /\ Offset > 0 /\ Offset = Len(Value)
      BY <2>0 DEF DecisionFits
    <3>2. cursor = NoCursor /\ reads = core.reads
      BY <2>7, <3>1, <1>0 DEF cursor, reads, CoreType, Reading
    <3>3. CoreType'
      <4>1. cursor \in [value : Values \union {<<>>}, offset : 0..MaxValueTokens]
        BY <3>2 DEF NoCursor
      <4>2. state \in {"idle", "active", "wait_uncertainty", "done", "failed"}
        BY <2>2
      <4> QED  BY <2>1, <3>2, <4>1, <4>2, <1>0 DEF CoreType
    <3>4. ~Reading(core)'
      BY <2>3, <3>2 DEF Reading
    <3>5. CoreInv'
      BY <2>5, <3>4 DEF CoreInv, CursorOK, PendingOK, BranchOK, StartOK, Room
    <3>6. HistoryInv'
      BY <1>0, <1>6, <2>0, <2>4, <2>7, <3>1, <3>4, EmitOther
    <3> QED  BY <1>2, <1>6, <2>0, <2>4, <2>5, <3>3, <3>5, <3>6
             DEF Inv, TypeOK, CoreType, OuterType, OutputType, RestType
  <2> QED  BY <2>0, <2>6, <2>7 DEF Decisions, Kinds, DecisionFits
<1> QED  BY <1>3, <1>4, <1>7, <1>8, <1>9 DEF CommitRefused

LEMMA StepInv == ASSUME Inv, [Next]_vars PROVE Inv'
<1>1. CASE Alter \/ Smear \/ UNCHANGED vars
  <2>1. UNCHANGED <<prompt, core, outer, output, kinds, teacher>> /\ altered' \in BOOLEAN /\ smeared' \in BOOLEAN
    BY <1>1 DEF Alter, Smear, vars, Inv, TypeOK
  <2>2. TypeOK'
    BY <2>1 DEF Inv, TypeOK, Used
  <2>3. CoreInv'
    BY <2>1 DEF Inv, CoreInv, CursorOK, PendingOK, DecisionFits, WithinBudget, BranchOK, StartOK, Room,
                Reading, Value, Offset, Used
  <2>4. HistoryInv'
    BY <2>1, HistoryKept, TypeParts DEF Inv
  <2> QED  BY <2>2, <2>3, <2>4 DEF Inv
<1> QED  BY <1>1, ProposeInv, CommitInv DEF Next
-----------------------------------------------------------------------------
(* A run of m tokens that nothing continues is the one RunFrom finds.        *)
LEMMA RunOf ==
  ASSUME OutputType, NEW i \in 1..Len(kinds), NEW m \in Nat \ {0}, i + m - 1 <= Len(kinds),
         \A k \in i + 1..i + m - 1 : kinds[k] = "continue",
         i + m <= Len(kinds) => kinds[i + m] # "continue"
  PROVE  /\ RunFrom(i) \in Seq(Tokens) /\ Len(RunFrom(i)) = m
         /\ \A k \in 1..m : RunFrom(i)[k] = output[i + k - 1]
<1> DEFINE longer == {j \in i..Len(kinds) : \A k \in i + 1..j : kinds[k] = "continue"}
           last == i + m - 1
<1>0. Len(kinds) \in Nat /\ Len(output) = Len(kinds) /\ output \in Seq(Tokens)
  BY DEF OutputType
<1>1. last \in longer
  BY <1>0
<1>2. \A j \in longer : j <= last
  <2> SUFFICES ASSUME NEW j \in longer, j > last PROVE FALSE
    BY <1>0
  <2>1. i + m \in i + 1..j /\ i + m <= Len(kinds)
    BY <1>0
  <2> QED  BY <2>1
<1>3. (CHOOSE j \in longer : \A k \in longer : k <= j) = last
  <2> HIDE DEF longer
  <2>0. longer \subseteq Int
    BY <1>0 DEF longer
  <2>1. \E j \in longer : \A k \in longer : k <= j
    BY <1>1, <1>2
  <2> DEFINE best == CHOOSE j \in longer : \A k \in longer : k <= j
  <2>2. best \in longer /\ \A k \in longer : k <= best
    BY <2>1
  <2> HIDE DEF best
  <2>3. best = last
    BY <1>0, <1>1, <1>2, <2>0, <2>2
  <2> QED  BY <2>3 DEF best
<1>4. RunFrom(i) = SubSeq(output, i, last)
  BY <1>3 DEF RunFrom
<1>5. i \in 1..Len(output) /\ last \in 1..Len(output) /\ i \in Int /\ last \in Int
  BY <1>0
<1> QED  BY <1>0, <1>4, <1>5

(* What is pointwise a value is the value, or a prefix of it.                *)
LEMMA PrefixOf ==
  ASSUME NEW run \in Seq(Tokens), NEW v \in Values, Len(run) <= Len(v),
         \A k \in 1..Len(run) : run[k] = v[k]
  PROVE  IsPrefix(run, v) /\ (Len(run) = Len(v) => run = v)
<1>1. v \in Seq(Words) /\ v \in Seq(Tokens)
  BY DEF Tokens
<1>2. Len(run) = Len(v) => run = v
  BY <1>1, SeqEqual
<1>3. /\ SubSeq(run, 1, Len(run)) \in Seq(Tokens) /\ SubSeq(v, 1, Len(run)) \in Seq(Tokens)
      /\ Len(SubSeq(run, 1, Len(run))) = Len(run) /\ Len(SubSeq(v, 1, Len(run))) = Len(run)
      /\ \A k \in 1..Len(run) : SubSeq(run, 1, Len(run))[k] = SubSeq(v, 1, Len(run))[k]
  BY <1>1
<1>4. SubSeq(run, 1, Len(run)) = SubSeq(v, 1, Len(run))
  BY <1>3, SeqEqual
<1> QED  BY <1>2, <1>4 DEF IsPrefix

LEMMA InvValues == Inv => ValuesWhole
<1> SUFFICES ASSUME Inv PROVE ValuesWhole
  OBVIOUS
<1>0. OutputType /\ CursorOK /\ BranchOK /\ TailOK /\ RunsOK /\ FollowsOK /\ DoneOK
  BY TypeParts DEF Inv, CoreInv, HistoryInv
<1>1. Len(kinds) \in Nat /\ Len(output) = Len(kinds)
  BY <1>0 DEF OutputType
<1>2. ASSUME NEW i \in 1..Len(kinds), kinds[i] = "start"
      PROVE  LET run == RunFrom(i) IN
             \/ /\ run \in Values
                /\ i + Len(run) <= Len(kinds) => kinds[i + Len(run)] = "end"
             \/ /\ \E v \in Values : IsPrefix(run, v)
                /\ i + Len(run) = Len(kinds) + 1
                /\ ~outer.done
  <2> DEFINE run == RunFrom(i)
  <2>1. ASSUME NEW m \in Nat \ {0}, Ended(i, m)
        PROVE  run \in Values /\ kinds[i + Len(run)] = "end"
    <3>1. PICK v \in Values : Len(v) = m /\ \A k \in 1..m : output[i + k - 1] = v[k]
      BY <2>1 DEF Ended
    <3>2. /\ i + m <= Len(kinds) /\ kinds[i + m] = "end"
          /\ \A k \in i + 1..i + m - 1 : kinds[k] = "continue"
      BY <2>1 DEF Ended
    <3>3. run \in Seq(Tokens) /\ Len(run) = m /\ \A k \in 1..m : run[k] = output[i + k - 1]
      <4>1. i + m - 1 <= Len(kinds) /\ kinds[i + m] # "continue"
        BY <1>1, <3>2
      <4> QED  BY <1>0, <3>2, <4>1, RunOf
    <3>4. run = v
      <4> HIDE DEF run
      <4> QED  BY <3>1, <3>3, PrefixOf
    <3> QED  BY <3>1, <3>2, <3>4
  <2>2. ASSUME Reading(core), Offset > 0, i = Len(kinds) - Offset + 1
        PROVE  /\ \E v \in Values : IsPrefix(run, v)
               /\ i + Len(run) = Len(kinds) + 1
               /\ ~outer.done
    <3>1. Value \in Values /\ Value \in Seq(Words) /\ Offset \in Nat \ {0} /\ Offset <= Len(Value)
      BY <1>0, <2>2 DEF CursorOK
    <3>2. /\ \A k \in i + 1..Len(kinds) : kinds[k] = "continue"
          /\ \A k \in 1..Offset : output[i + k - 1] = Value[k]
      BY <1>0, <1>1, <2>2 DEF TailOK
    <3>3. i + Offset - 1 = Len(kinds) /\ ~(i + Offset <= Len(kinds))
      BY <1>1, <2>2, <3>1
    <3>4. run \in Seq(Tokens) /\ Len(run) = Offset /\ \A k \in 1..Offset : run[k] = output[i + k - 1]
      <4>1. PICK m \in Nat \ {0} : m = Offset
        BY <3>1
      <4>2. i + m - 1 <= Len(kinds) /\ \A k \in i + 1..i + m - 1 : kinds[k] = "continue"
        BY <1>1, <3>2, <3>3, <4>1
      <4>3. i + m <= Len(kinds) => kinds[i + m] # "continue"
        BY <3>3, <4>1
      <4>4. run \in Seq(Tokens) /\ Len(run) = m /\ \A k \in 1..m : run[k] = output[i + k - 1]
        BY <1>0, <4>2, <4>3, RunOf
      <4> QED  BY <4>1, <4>4
    <3>5. IsPrefix(run, Value)
      <4> HIDE DEF run
      <4>1. Len(run) <= Len(Value) /\ \A k \in 1..Len(run) : run[k] = Value[k]
        BY <3>1, <3>2, <3>4
      <4> QED  BY <3>1, <3>4, <4>1, PrefixOf
    <3> HIDE DEF run
    <3>6. ~outer.done
      BY <1>0, <2>2 DEF BranchOK
    <3>7. i + Len(run) = Len(kinds) + 1
      BY <1>1, <3>1, <3>3, <3>4
    <3> QED  BY <3>1, <3>5, <3>6, <3>7
  <2> HIDE DEF run
  <2>3. \/ run \in Values /\ kinds[i + Len(run)] = "end"
        \/ (\E v \in Values : IsPrefix(run, v)) /\ i + Len(run) = Len(kinds) + 1 /\ ~outer.done
    BY <1>0, <1>2, <2>1, <2>2 DEF RunsOK
  <2> QED  BY <2>3 DEF run
<1>3. outer.done => kinds[Len(kinds)] \in {"base", "end", "uncertain"}
  BY <1>0 DEF DoneOK
<1> QED  BY <1>0, <1>2, <1>3 DEF FollowsOK, ValuesWhole

LEMMA InvAlways == Spec => []Inv
  BY InitInv, StepInv, PTL DEF Spec

(* All variables of a reply keep their types and budgets, whatever the       *)
(* networks answer and the caller does.                                      *)
THEOREM TypeCorrect == Spec => []TypeOK
<1>1. Inv => TypeOK
  BY DEF Inv
<1> QED  BY <1>1, InvAlways, PTL

(* While a value is copied there is room for its rest and its end, for all   *)
(* lengths of prompts and values and all budgets (_admit of the value        *)
(* controller reserves the token of the end).                                *)
THEOREM RoomAlwaysToEnd == Spec => []RoomToEnd
<1>1. Inv => RoomToEnd
  <2> SUFFICES ASSUME Inv, Reading(core)
               PROVE  LET rest == Len(core.cursor.value) - core.cursor.offset + 1 IN
                      Len(output) + rest <= MaxNew /\ Used + rest <= MaxTotal
    BY DEF RoomToEnd
  <2>1. OutputType /\ RestType /\ CursorOK /\ Room
    BY TypeParts DEF Inv, CoreInv
  <2>2. Value \in Seq(Words) /\ Offset \in Int
    BY <2>1 DEF CursorOK
  <2>3. Len(output) \in Nat /\ Used \in Nat
    BY <2>1 DEF OutputType, RestType, Used
  <2> QED  BY <2>1, <2>2, <2>3 DEF Room, Value, Offset
<1> QED  BY <1>1, InvAlways, PTL

(* A value is emitted in one piece and ended, or is the unfinished last of a *)
(* reply, for all values, whatever frames and acknowledgements the caller    *)
(* gives and whatever is written to the tensors meanwhile.                   *)
THEOREM ValuesAlwaysWhole == Spec => []ValuesWhole
  BY InvAlways, InvValues, PTL
-----------------------------------------------------------------------------
(* A trajectory whose value begins after a tokens and has m of them.         *)
Shape(t, a, m) ==
  /\ a \in Nat /\ m \in Nat /\ m = Len(t.value) /\ t.route \in Routes
  /\ t.tokens \in Seq(Tokens) /\ t.phases \in Seq(Kinds) /\ Len(t.phases) = Len(t.tokens)
  /\ a + m < Len(t.tokens)
  /\ \A i \in 1..Len(t.tokens) : t.tokens[i] = Eos <=> i = Len(t.tokens)
  /\ \A k \in 1..m : t.tokens[a + k] = t.value[k]
  /\ IF m = 0 THEN t.route # "supported" /\ t.value = <<>>
     ELSE t.route = "supported" /\ t.value \in Values
  /\ \A i \in 1..Len(t.tokens) :
       t.phases[i] = IF t.route = "insufficient" THEN "uncertain"
                     ELSE IF m = 0 \/ i <= a \/ i > a + m + 1 THEN "base"
                     ELSE IF i = a + 1 THEN "start"
                     ELSE IF i = a + m + 1 THEN "end" ELSE "continue"

LEMMA TrajectoryShape ==
  ASSUME NEW t \in Trajectories
  PROVE  \E a \in Nat : Shape(t, a, Len(t.value))
<1>1. PICK pre \in Seq(Words), post \in Seq(Words) : Teaches(t, pre, post)
  BY TrajectoryConstants DEF Teaches
<1>2. PICK route : route = t.route
  OBVIOUS
<1>3. PICK v \in Seq(Words) : v = t.value
  <2>1. <<>> \in Seq(Words)
    OBVIOUS
  <2> QED BY <1>1, <2>1, ReplyConstants DEF Teaches
<1>4. PICK a \in Nat : a = Len(pre)
  OBVIOUS
<1>5. PICK m \in Nat : m = Len(v)
  OBVIOUS
<1>6. PICK b \in Nat : b = Len(post)
  OBVIOUS
<1>7. PICK text \in Seq(Words) : text = pre \o v \o post
  <2>1. pre \o v \in Seq(Words)
    BY ConcatProperties
  <2>2. pre \o v \o post \in Seq(Words)
    BY <2>1, ConcatProperties
  <2> QED BY <2>2
<1>8. /\ Len(text) = a + m + b
      /\ \A k \in 1..m : text[a + k] = v[k]
  <2>1. PICK pv \in Seq(Words) : pv = pre \o v
    BY ConcatProperties
  <2>2. Len(pv) = a + m /\ \A k \in 1..m : pv[a + k] = v[k]
    BY <1>4, <1>5, <2>1, ConcatProperties
  <2>3. text = pv \o post
    BY <1>7, <2>1
  <2>4. Len(text) = a + m + b /\ \A i \in 1..(a + m) : text[i] = pv[i]
    <3>1. /\ Len(text) = Len(pv) + Len(post)
          /\ \A i \in 1..Len(text) : text[i] = IF i <= Len(pv) THEN pv[i] ELSE post[i - Len(pv)]
      BY <2>3, ConcatProperties
    <3> QED BY <1>6, <2>2, <3>1
  <2> QED BY <2>2, <2>4
<1>9. PICK tokens \in Seq(Tokens) : tokens = text \o <<Eos>>
  <2>1. text \in Seq(Tokens) /\ <<Eos>> \in Seq(Tokens)
    BY DEF Tokens
  <2> QED BY <2>1, ConcatProperties
<1>10. PICK l \in Nat : l = a + m + b + 1
  OBVIOUS
<1>11. /\ Len(tokens) = l /\ tokens[l] = Eos
       /\ \A i \in 1..(l - 1) : tokens[i] = text[i]
  <2>1. text \in Seq(Tokens) /\ <<Eos>> \in Seq(Tokens) /\ Len(<<Eos>>) = 1 /\ <<Eos>>[1] = Eos
    BY DEF Tokens
  <2>2. Len(tokens) = Len(text) + 1
    BY <1>9, <2>1, ConcatProperties
  <2>3. \A i \in 1..Len(tokens) :
          tokens[i] = IF i <= Len(text) THEN text[i] ELSE <<Eos>>[i - Len(text)]
    BY <1>9, <2>1, ConcatProperties
  <2> QED BY <1>8, <1>10, <2>1, <2>2, <2>3
<1>12. PICK phase :
         phase = [i \in 1..l |->
                    IF route = "insufficient" THEN "uncertain"
                    ELSE IF v = <<>> \/ i <= a \/ i > a + m + 1 THEN "base"
                    ELSE IF i = a + 1 THEN "start"
                    ELSE IF i = a + m + 1 THEN "end" ELSE "continue"]
  OBVIOUS
<1>13. t = [route |-> route, tokens |-> tokens, value |-> v, phases |-> phase]
  <2>1. t = Compile(route, pre, v, post)
    BY <1>1, <1>2, <1>3 DEF Teaches
  <2>2. tokens = pre \o v \o post \o <<Eos>>
    BY <1>7, <1>9
  <2> QED BY <1>4, <1>5, <1>11, <1>12, <2>1, <2>2 DEF Compile
<1>14. t.route = route /\ t.tokens = tokens /\ t.value = v /\ t.phases = phase
  BY <1>13
<1>15. v = <<>> <=> m = 0
  BY <1>5
<1>16. phase \in Seq(Kinds) /\ Len(phase) = l
  <2>1. \A i \in 1..l : phase[i] \in Kinds
    BY <1>12 DEF Kinds
  <2>2. DOMAIN phase = 1..l
    BY <1>12
  <2> QED BY <1>12, <2>1, <2>2
<1>17. \A i \in 1..l : tokens[i] = Eos <=> i = l
  <2>1. ASSUME NEW i \in 1..(l - 1) PROVE tokens[i] # Eos
    <3>1. text[i] \in Words
      BY <1>8, <1>10
    <3> QED BY <1>11, <3>1, ReplyConstants
  <2> QED BY <1>11, <2>1
<1>18. \A k \in 1..m : tokens[a + k] = v[k]
  <2>1. \A k \in 1..m : a + k \in 1..(l - 1)
    BY <1>10
  <2> QED BY <1>8, <1>11, <2>1
<1>19. route \in Routes /\ IF m = 0 THEN route # "supported" ELSE route = "supported" /\ v \in Values
  <2>1. \/ route = "supported" /\ v \in Values
        \/ route \in {"none", "insufficient"} /\ v = <<>>
    BY <1>1, <1>2, <1>3 DEF Teaches
  <2> QED BY <1>15, <2>1, ReplyConstants DEF Routes
<1>20. \A i \in 1..l :
         phase[i] = IF route = "insufficient" THEN "uncertain"
                    ELSE IF m = 0 \/ i <= a \/ i > a + m + 1 THEN "base"
                    ELSE IF i = a + 1 THEN "start"
                    ELSE IF i = a + m + 1 THEN "end" ELSE "continue"
  BY <1>12, <1>15
<1>21. a + m < l
  BY <1>10
<1>22. Shape(t, a, m)
  BY <1>5, <1>11, <1>14, <1>15, <1>16, <1>17, <1>18, <1>19, <1>20, <1>21 DEF Shape
<1> QED BY <1>5, <1>14, <1>22
-----------------------------------------------------------------------------
(* Where the controllers are when n tokens of a trajectory were emitted.     *)
Copying(t, a, n, d) == t.value # <<>> /\ (n \in a + 1..a + Len(t.value) \/ (n = a /\ d # <<>>))
At(t, a, n, c, o) ==
  LET d == o.pending IN
  /\ ~o.failed /\ (o.done <=> n = Len(t.tokens))
  /\ d # <<>> => /\ n < Len(t.tokens)
                 /\ d = <<[kind |-> t.phases[n + 1], token |-> t.tokens[n + 1]]>>
  /\ o.uncertain => t.route = "insufficient"
  /\ ~o.uncertain =>
       /\ c.pending = d /\ (o.done \/ c.state \in {"idle", "active"})
       /\ c.route \in {"unset", t.route} /\ (t.route = "insufficient" => d = <<>>)
       /\ n <= a => c.reads = 0
       /\ c.cursor = IF Copying(t, a, n, d) THEN [value |-> t.value, offset |-> n - a] ELSE NoCursor
Shown(t, n) ==
  n <= Len(t.tokens) /\ \A i \in 1..n : kinds[i] = t.phases[i] /\ output[i] = t.tokens[i]

Follows(a) ==
  /\ a \in Nat /\ Shape(teacher, a, Len(teacher.value)) /\ Compiles(teacher)
  /\ ~altered /\ ~smeared
  /\ Shown(teacher, Len(output)) /\ At(teacher, a, Len(output), core, outer)
TaughtInv == teacher # Free => \E a \in Nat : Follows(a)

LEMMA TaughtInit == Init => TaughtInv
<1> SUFFICES ASSUME Init, teacher # Free PROVE \E a \in Nat : Follows(a)
  BY DEF TaughtInv
<1>1. teacher \in Trajectories /\ Compiles(teacher)
  BY DEF Init
<1>2. PICK a \in Nat : Shape(teacher, a, Len(teacher.value))
  BY <1>1, TrajectoryShape
<1>3. Len(output) = 0 /\ Len(teacher.tokens) \in Nat /\ Len(teacher.tokens) > 0
  BY <1>2 DEF Init, Shape
<1>4. Shown(teacher, 0)
  BY <1>3 DEF Shown
<1>5. At(teacher, a, 0, core, outer)
  <2>1. /\ core.cursor = NoCursor /\ core.pending = <<>> /\ core.state = "idle"
        /\ core.route = "unset" /\ core.reads = 0
        /\ outer.pending = <<>> /\ ~outer.failed /\ ~outer.done /\ ~outer.uncertain
    BY DEF Init
  <2>2. ~Copying(teacher, a, 0, <<>>)
    BY DEF Copying
  <2> QED BY <1>3, <2>1, <2>2 DEF At
<1> QED BY <1>1, <1>2, <1>3, <1>4, <1>5 DEF Follows, Init

(* The core decides as the trajectory does, and never refuses.               *)
LEMMA TaughtDecision ==
  ASSUME TypeOK, NEW a, Follows(a), Open, ~outer.uncertain, NEW f \in Frames, Taught(f), teacher # Free
  PROVE  LET n == Len(output)  c == CoreProposed(core, f)  i == n + 1
             d == [kind |-> teacher.phases[i], token |-> teacher.tokens[i]]
         IN /\ n < Len(teacher.tokens)
            /\ IF teacher.route = "insufficient"
               THEN c = [core EXCEPT !.route = "insufficient", !.state = "wait_uncertainty"]
               ELSE /\ c.pending = <<d>> /\ c.state = core.state /\ c.reads = core.reads
                    /\ c.route \in {"unset", teacher.route}
                    /\ c.cursor = IF Copying(teacher, a, n, <<d>>)
                                  THEN [value |-> teacher.value, offset |-> n - a] ELSE NoCursor
<1>1. PICK t : t = teacher
  OBVIOUS
<1>2. PICK n \in Nat : n = Len(output)
  BY DEF TypeOK
<1>3. PICK c : c = core
  OBVIOUS
<1>4. PICK m : m = Len(t.value)
  OBVIOUS
<1>5. PICK l : l = Len(t.tokens)
  OBVIOUS
<1>6. /\ a \in Nat /\ m \in Nat /\ l \in Nat /\ t.route \in Routes /\ a + m < l
      /\ Shape(t, a, m) /\ Compiles(t) /\ ~altered /\ n <= l /\ At(t, a, n, c, outer)
  BY <1>1, <1>2, <1>3, <1>4, <1>5 DEF Follows, Shape, Shown
<1>7. /\ ~outer.done /\ ~outer.failed /\ outer.pending = <<>> /\ n < l
  BY <1>5, <1>6 DEF Open, At
<1>8. /\ c.pending = <<>> /\ c.state \in {"idle", "active"} /\ c.route \in {"unset", t.route}
      /\ n <= a => c.reads = 0
      /\ c.cursor = IF Copying(t, a, n, <<>>) THEN [value |-> t.value, offset |-> n - a] ELSE NoCursor
  BY <1>6, <1>7 DEF At
<1>9. PICK i \in 1..l : i = n + 1
  BY <1>7, <1>6
<1>10. /\ f.fresh /\ f.route = t.route
       /\ t.route # "insufficient" => /\ t.phases[i] \in {"base", "end"} => f.base = t.tokens[i]
                                      /\ t.phases[i] = "start" <=> f.mode = "start"
       /\ t.value # <<>> => f.value = t.value
  BY <1>1, <1>2, <1>9 DEF Taught
<1>11. WithinBudget
  <2>1. prompt + l <= MaxTotal /\ l <= MaxNew /\ prompt \in Nat /\ MaxTotal \in Nat /\ MaxNew \in Nat
    BY <1>5, <1>6, ReplyConstants DEF Compiles, TypeOK
  <2> QED BY <1>2, <1>6, <1>7, <2>1 DEF WithinBudget, Used
<1>12. Unpledged(c) /\ ~altered /\ f.fresh
  BY <1>6, <1>8, <1>10 DEF Unpledged
<1>13. /\ m = 0 <=> t.value = <<>>
       /\ m = 0 => t.route # "supported"
       /\ m # 0 => t.route = "supported" /\ t.value \in Values
       /\ t.route # "insufficient" =>
            t.phases[i] = IF m = 0 \/ i <= a \/ i > a + m + 1 THEN "base"
                          ELSE IF i = a + 1 THEN "start"
                          ELSE IF i = a + m + 1 THEN "end" ELSE "continue"
  BY <1>4, <1>5, <1>6 DEF Shape
<1>14. core \in [state : {"idle", "active", "wait_uncertainty", "done", "failed"},
                 route : Routes \union {"unset"},
                 cursor : [value : Values \union {<<>>}, offset : 0..MaxValueTokens],
                 reads : 0..MaxReads,
                 pending : {<<>>} \union {<<d>> : d \in Decisions}]
  BY DEF TypeOK
<1>15. CASE t.route = "insufficient"
  <2>1. m = 0 /\ t.value = <<>> /\ c.cursor = NoCursor
    BY <1>8, <1>13, <1>15 DEF Copying
  <2>2. ~Reading(c) /\ ReaderRuns(c) /\ RouteOf(c, f) = "insufficient"
    BY <1>8, <1>10, <1>15, <2>1 DEF Reading, ReaderRuns, RouteOf
  <2>3. KindOf(c, f) = "uncertain"
    BY <1>10, <1>15, <2>2 DEF KindOf
  <2>4. CoreAccepts(c, f)
    BY <1>8, <1>11, <1>12, <1>15, <2>2, <2>3 DEF CoreAccepts, RouteKept
  <2>5. CoreProposed(c, f) = [c EXCEPT !.route = "insufficient", !.state = "wait_uncertainty"]
    BY <1>3, <1>14, <2>2, <2>3, <2>4 DEF CoreProposed
  <2> QED BY <1>1, <1>2, <1>3, <1>5, <1>7, <1>15, <2>5
<1>16. ASSUME NEW kind, NEW token, NEW cursor, NEW route, t.route # "insufficient",
              KindOf(c, f) = kind, TokenOf(c, f) = token, RouteOf(c, f) = route,
              kind = t.phases[i], token = t.tokens[i], kind # "uncertain",
              c.route = "unset" \/ route = c.route, route \in {"unset", t.route},
              kind = "start" => Fits(c, f.value) /\ cursor = [value |-> f.value, offset |-> 0],
              kind # "start" => cursor = c.cursor,
              cursor = IF Copying(t, a, n, <<[kind |-> kind, token |-> token]>>)
                       THEN [value |-> t.value, offset |-> n - a] ELSE NoCursor
       PROVE  LET s == CoreProposed(core, f)
                  d == [kind |-> t.phases[i], token |-> t.tokens[i]]
              IN /\ s.pending = <<d>> /\ s.state = core.state /\ s.reads = core.reads
                 /\ s.route \in {"unset", t.route}
                 /\ s.cursor = IF Copying(t, a, n, <<d>>)
                               THEN [value |-> t.value, offset |-> n - a] ELSE NoCursor
  <2>1. CoreAccepts(c, f)
    BY <1>11, <1>12, <1>16 DEF CoreAccepts, RouteKept
  <2>2. CoreProposed(c, f) = [[c EXCEPT !.route = route] EXCEPT
                                !.pending = <<[kind |-> kind, token |-> token]>>, !.cursor = cursor]
    <3>1. CASE kind = "start"
      BY <1>3, <1>14, <1>16, <2>1, <3>1 DEF CoreProposed
    <3>2. CASE kind # "start"
      BY <1>3, <1>14, <1>16, <2>1, <3>2 DEF CoreProposed
    <3> QED BY <3>1, <3>2
  <2>3. PICK s : s = CoreProposed(c, f)
    OBVIOUS
  <2>4. /\ s.pending = <<[kind |-> kind, token |-> token]>> /\ s.state = c.state
        /\ s.reads = c.reads /\ s.route = route /\ s.cursor = cursor
    BY <1>3, <1>14, <2>2, <2>3
  <2> QED BY <1>3, <1>16, <2>3, <2>4
<1>17. CASE t.route # "insufficient" /\ m # 0 /\ n \in a + 1..a + m
  <2>1. c.cursor = [value |-> t.value, offset |-> n - a] /\ Copying(t, a, n, <<>>)
    BY <1>4, <1>8, <1>13, <1>17 DEF Copying
  <2>2. Reading(c) /\ ~ReaderRuns(c) /\ RouteOf(c, f) = c.route
    BY <1>13, <1>17, <2>1 DEF Reading, NoCursor, ReaderRuns, RouteOf
  <2>3. CursorDone(c.cursor) <=> n = a + m
    BY <1>4, <1>6, <1>17, <2>1 DEF CursorDone
  <2>4. \A d : Copying(t, a, n, d)
    BY <1>4, <1>13, <1>17 DEF Copying
  <2>5. CASE n = a + m
    <3>1. KindOf(c, f) = "end"
      BY <2>2, <2>3, <2>5 DEF KindOf
    <3>2. t.phases[i] = "end"
      BY <1>6, <1>9, <1>13, <1>17, <2>5
    <3>3. TokenOf(c, f) = t.tokens[i]
      BY <1>10, <1>17, <3>1, <3>2 DEF TokenOf
    <3> QED BY <1>1, <1>2, <1>5, <1>7, <1>8, <1>9, <1>16, <1>17, <2>1, <2>2, <2>4, <3>1, <3>2, <3>3
  <2>6. CASE n # a + m
    <3>1. KindOf(c, f) = "continue"
      BY <2>2, <2>3, <2>6 DEF KindOf
    <3>2. t.phases[i] = "continue"
      BY <1>6, <1>9, <1>13, <1>17, <2>6
    <3>3. TokenOf(c, f) = t.tokens[i]
      <4>1. TokenOf(c, f) = t.value[n - a + 1]
        BY <2>1, <3>1 DEF TokenOf, NextOfValue
      <4>2. n - a + 1 \in 1..m /\ a + (n - a + 1) = i
        BY <1>6, <1>9, <1>17, <2>6
      <4>3. t.tokens[a + (n - a + 1)] = t.value[n - a + 1]
        BY <1>6, <4>2 DEF Shape
      <4> QED BY <4>1, <4>2, <4>3
    <3> QED BY <1>1, <1>2, <1>5, <1>7, <1>8, <1>9, <1>16, <1>17, <2>1, <2>2, <2>4, <3>1, <3>2, <3>3
  <2> QED BY <2>5, <2>6
<1>18. CASE t.route # "insufficient" /\ m # 0 /\ n = a
  <2>1. c.cursor = NoCursor
    BY <1>8, <1>18 DEF Copying
  <2>2. ~Reading(c) /\ ReaderRuns(c) /\ RouteOf(c, f) = t.route /\ t.route = "supported"
    BY <1>8, <1>10, <1>13, <1>18, <2>1 DEF Reading, ReaderRuns, RouteOf
  <2>3. t.phases[i] = "start"
    BY <1>6, <1>9, <1>13, <1>18
  <2>4. KindOf(c, f) = "start"
    BY <1>10, <1>18, <2>2, <2>3 DEF KindOf
  <2>5. TokenOf(c, f) = t.tokens[i]
    <3>1. 1 \in 1..m /\ t.tokens[a + 1] = t.value[1]
      BY <1>6, <1>18 DEF Shape
    <3> QED BY <1>9, <1>10, <1>13, <1>18, <2>4, <3>1 DEF TokenOf
  <2>6. Fits(c, f.value)
    <3>1. /\ prompt + l <= MaxTotal /\ l <= MaxNew /\ m <= MaxValueTokens
          /\ prompt \in Nat /\ MaxTotal \in Nat /\ MaxNew \in Nat /\ MaxValueTokens \in Nat
      BY <1>4, <1>5, <1>6, ReplyConstants DEF Compiles, TypeOK
    <3>2. c.reads = 0 /\ MaxReads \in Nat \ {0}
      BY <1>6, <1>8, <1>18, ReplyConstants
    <3>3. f.value = t.value /\ f.value # Unusable /\ Len(f.value) = m
      BY <1>4, <1>10, <1>13, <1>18, ReplyConstants
    <3> QED BY <1>2, <1>6, <1>18, <3>1, <3>2, <3>3 DEF Fits, Remaining, Used
  <2>7. /\ \A d : d # <<>> => Copying(t, a, n, d)
        /\ n - a = 0 /\ f.value = t.value
        /\ <<[kind |-> t.phases[i], token |-> t.tokens[i]]>> # <<>>
    BY <1>6, <1>10, <1>13, <1>18 DEF Copying
  <2> QED BY <1>1, <1>2, <1>5, <1>7, <1>8, <1>9, <1>16, <1>18, <2>2, <2>3, <2>4, <2>5, <2>6, <2>7
<1>19. CASE t.route # "insufficient" /\ (m = 0 \/ ~(n \in a..a + m))
  <2>1. c.cursor = NoCursor /\ \A d : ~Copying(t, a, n, d)
    BY <1>4, <1>6, <1>8, <1>13, <1>19 DEF Copying
  <2>2. ~Reading(c) /\ RouteOf(c, f) = t.route
    BY <1>8, <1>10, <2>1 DEF Reading, ReaderRuns, RouteOf
  <2>3. t.phases[i] = "base" /\ f.mode # "start"
    BY <1>6, <1>9, <1>10, <1>13, <1>19
  <2>4. KindOf(c, f) = "base"
    BY <1>10, <1>19, <2>2, <2>3 DEF KindOf
  <2>5. TokenOf(c, f) = t.tokens[i]
    BY <1>10, <1>19, <2>3, <2>4 DEF TokenOf
  <2> QED BY <1>1, <1>2, <1>5, <1>7, <1>8, <1>9, <1>16, <1>19, <2>1, <2>2, <2>3, <2>4, <2>5
<1>20. n \in a + 1..a + m \/ n = a \/ ~(n \in a..a + m)
  BY <1>6
<1> QED BY <1>15, <1>17, <1>18, <1>19, <1>20
-----------------------------------------------------------------------------
(* A frame of the trajectory is shown.                                       *)
LEMMA TaughtPropose ==
  ASSUME TypeOK, NEW a, Follows(a), Open, Propose, teacher # Free
  PROVE  Follows(a)'
<1>1. PICK f \in Frames : Taught(f) /\ (ProposeRefused \/ ProposeByCore(f) \/ ProposeByBranch(f))
  BY DEF Propose
<1>2. UNCHANGED <<prompt, output, altered, kinds, teacher>> /\ smeared' = FALSE
  BY DEF Propose
<1>3. PICK t : t = teacher
  OBVIOUS
<1>4. PICK n \in Nat : n = Len(output)
  BY DEF TypeOK
<1>5. PICK i : i = n + 1
  OBVIOUS
<1>6. PICK d : d = [kind |-> t.phases[i], token |-> t.tokens[i]]
  OBVIOUS
<1>7. /\ a \in Nat /\ Shape(t, a, Len(t.value)) /\ Compiles(t) /\ ~altered /\ ~smeared
      /\ Shown(t, n) /\ At(t, a, n, core, outer) /\ n <= Len(t.tokens)
  BY <1>3, <1>4 DEF Follows, Shown
<1>8. /\ ~outer.done /\ ~outer.failed /\ outer.pending = <<>> /\ n < Len(t.tokens)
      /\ Len(t.tokens) \in Nat /\ i \in 1..Len(t.tokens) /\ <<d>> # <<>>
  <2>1. ~outer.done /\ ~outer.failed /\ outer.pending = <<>> /\ n # Len(t.tokens)
    BY <1>7 DEF Open, At
  <2>2. Len(t.tokens) \in Nat
    BY <1>7 DEF Shape
  <2> QED BY <1>5, <1>7, <2>1, <2>2
<1>9. ~ProposeRefused
  BY <1>7 DEF ProposeRefused, Open
<1>10. outer \in [uncertain : BOOLEAN, done : BOOLEAN, failed : BOOLEAN,
                  pending : {<<>>} \union {<<e>> : e \in Decisions}]
  BY DEF TypeOK
<1>11. At(t, a, n, core', outer') => Follows(a)'
  <2>1. Shown(t, n)'
    BY <1>2, <1>7 DEF Shown
  <2>2. Compiles(t)'
    BY <1>2, <1>7 DEF Compiles
  <2> QED BY <1>2, <1>3, <1>4, <1>7, <2>1, <2>2 DEF Follows
<1>12. CASE ProposeByBranch(f)
  <2>1. outer.uncertain /\ t.route = "insufficient"
    BY <1>7, <1>12 DEF ProposeByBranch, At
  <2>2. f.fresh /\ f.branch = t.tokens[i]
    BY <1>1, <1>3, <1>4, <1>5, <2>1 DEF Taught
  <2>3. WithinBudget
    <3>1. /\ prompt + Len(t.tokens) <= MaxTotal /\ Len(t.tokens) <= MaxNew
          /\ prompt \in Nat /\ MaxTotal \in Nat /\ MaxNew \in Nat
      BY <1>7, ReplyConstants DEF Compiles, TypeOK
    <3> QED BY <1>4, <1>8, <3>1 DEF WithinBudget, Used
  <2>4. t.phases[i] = "uncertain"
    BY <1>7, <1>8, <2>1 DEF Shape
  <2>5. outer' = [outer EXCEPT !.pending = <<d>>] /\ core' = core
    BY <1>6, <1>12, <2>2, <2>3, <2>4 DEF ProposeByBranch
  <2>6. /\ outer'.pending = <<d>> /\ outer'.uncertain /\ ~outer'.failed /\ ~outer'.done
    BY <1>8, <1>10, <2>1, <2>5
  <2>7. At(t, a, n, core', outer')
    BY <1>5, <1>6, <1>8, <2>1, <2>6 DEF At
  <2> QED BY <1>11, <2>7
<1>13. CASE ProposeByCore(f)
  <2>1. PICK c : c = core'
    OBVIOUS
  <2>2. ~outer.uncertain /\ c = CoreProposed(core, f)
    BY <1>13, <2>1 DEF ProposeByCore
  <2>3. IF t.route = "insufficient"
        THEN c = [core EXCEPT !.route = "insufficient", !.state = "wait_uncertainty"]
        ELSE /\ c.pending = <<d>> /\ c.state = core.state /\ c.reads = core.reads
             /\ c.route \in {"unset", t.route}
             /\ c.cursor = IF Copying(t, a, n, <<d>>)
                           THEN [value |-> t.value, offset |-> n - a] ELSE NoCursor
    BY <1>1, <1>3, <1>4, <1>5, <1>6, <2>2, TaughtDecision
  <2>4. CASE t.route = "insufficient"
    <3>1. c.state = "wait_uncertainty"
      BY <2>3, <2>4 DEF TypeOK
    <3>2. f.branch = t.tokens[i]
      BY <1>1, <1>3, <1>4, <1>5, <2>4 DEF Taught
    <3>3. t.phases[i] = "uncertain"
      BY <1>7, <1>8, <2>4 DEF Shape
    <3>4. outer' = [outer EXCEPT !.uncertain = TRUE, !.pending = <<d>>]
      BY <1>6, <1>13, <2>1, <3>1, <3>2, <3>3 DEF ProposeByCore
    <3>5. /\ outer'.pending = <<d>> /\ outer'.uncertain /\ ~outer'.failed /\ ~outer'.done
      BY <1>8, <1>10, <3>4
    <3>6. At(t, a, n, core', outer')
      BY <1>5, <1>6, <1>8, <2>4, <3>5 DEF At
    <3> QED BY <1>11, <3>6
  <2>5. CASE t.route # "insufficient"
    <3>1. core.state \in {"idle", "active"} /\ (n <= a => core.reads = 0)
      BY <1>7, <1>8, <2>2 DEF At
    <3>2. outer' = [outer EXCEPT !.pending = <<d>>]
      BY <1>13, <2>1, <2>3, <2>5, <3>1 DEF ProposeByCore
    <3>3. /\ outer'.pending = <<d>> /\ ~outer'.uncertain /\ ~outer'.failed /\ ~outer'.done
      BY <1>8, <1>10, <2>2, <3>2
    <3>4. At(t, a, n, core', outer')
      BY <1>5, <1>6, <1>8, <2>1, <2>3, <2>5, <3>1, <3>3 DEF At
    <3> QED BY <1>11, <3>4
  <2> QED BY <2>4, <2>5
<1> QED BY <1>1, <1>9, <1>12, <1>13

(* Its token is emitted.                                                     *)
LEMMA TaughtCommit ==
  ASSUME TypeOK, NEW a, Follows(a), Commit, teacher # Free
  PROVE  Follows(a)'
<1>1. PICK same \in BOOLEAN, token \in Tokens :
        /\ Acknowledged(same, token)
        /\ CommitRefused(same, token) \/ CommitByCore(same, token) \/ CommitByBranch(same, token)
  BY DEF Commit
<1>2. UNCHANGED <<prompt, altered, smeared, teacher>>
  BY DEF Commit
<1>3. PICK t : t = teacher
  OBVIOUS
<1>4. PICK n \in Nat : n = Len(output)
  BY DEF TypeOK
<1>5. PICK i : i = n + 1
  OBVIOUS
<1>6. PICK d : d = [kind |-> t.phases[i], token |-> t.tokens[i]]
  OBVIOUS
<1>7. /\ a \in Nat /\ Shape(t, a, Len(t.value)) /\ Compiles(t) /\ ~altered /\ ~smeared
      /\ Shown(t, n) /\ At(t, a, n, core, outer) /\ n <= Len(t.tokens)
  BY <1>3, <1>4 DEF Follows, Shown
<1>8. /\ ~outer.done /\ ~outer.failed /\ outer.pending = <<d>> /\ n < Len(t.tokens)
      /\ token = t.tokens[i] /\ outer.pending[1] = d /\ d.kind = t.phases[i] /\ d.token = token
  <2>1. ~outer.done /\ ~outer.failed /\ outer.pending # <<>> /\ token = outer.pending[1].token
    BY <1>1 DEF Acknowledged
  <2>2. outer.pending = <<d>> /\ n < Len(t.tokens)
    BY <1>5, <1>6, <1>7, <2>1 DEF At
  <2> QED BY <1>6, <2>1, <2>2
<1>9. Len(t.tokens) \in Nat /\ i \in 1..Len(t.tokens) /\ (token = Eos <=> i = Len(t.tokens))
  <2>1. Len(t.tokens) \in Nat
    BY <1>7 DEF Shape
  <2>2. i \in 1..Len(t.tokens)
    BY <1>5, <1>8, <2>1
  <2> QED BY <1>7, <1>8, <2>1, <2>2 DEF Shape
<1>10. ~CommitRefused(same, token)
  BY <1>1, <1>7 DEF CommitRefused, Acknowledged
<1>11. outer \in [uncertain : BOOLEAN, done : BOOLEAN, failed : BOOLEAN,
                  pending : {<<>>} \union {<<e>> : e \in Decisions}]
  BY DEF TypeOK
<1>12. ASSUME Emitted(token), At(t, a, i, core', outer') PROVE Follows(a)'
  <2>1. output' = Append(output, token) /\ kinds' = Append(kinds, t.phases[i])
    BY <1>8, <1>12 DEF Emitted
  <2>2. output \in Seq(Tokens) /\ kinds \in Seq(Kinds) /\ Len(kinds) = n
    BY <1>4 DEF TypeOK
  <2>3. t.phases[i] \in Kinds
    BY <1>7, <1>9 DEF Shape
  <2>4. Len(output') = i /\ output'[i] = t.tokens[i] /\ kinds'[i] = t.phases[i]
    BY <1>4, <1>5, <1>8, <2>1, <2>2, <2>3
  <2>5. \A j \in 1..n : output'[j] = output[j] /\ kinds'[j] = kinds[j]
    BY <1>4, <2>1, <2>2, <2>3
  <2>6. \A j \in 1..i : j = i \/ j \in 1..n
    BY <1>5
  <2>7. Shown(t, i)'
    <3>1. ASSUME NEW j \in 1..i PROVE kinds'[j] = t.phases[j] /\ output'[j] = t.tokens[j]
      <4>1. CASE j = i
        BY <2>4, <4>1
      <4>2. CASE j \in 1..n
        <5>1. kinds[j] = t.phases[j] /\ output[j] = t.tokens[j]
          BY <1>7, <4>2 DEF Shown
        <5> QED BY <2>5, <4>2, <5>1
      <4> QED BY <2>6, <4>1, <4>2
    <3>2. i <= Len(t.tokens)
      BY <1>9
    <3> QED BY <3>1, <3>2 DEF Shown
  <2>8. Compiles(t)'
    BY <1>2, <1>7 DEF Compiles
  <2> QED BY <1>2, <1>3, <1>7, <1>12, <2>4, <2>7, <2>8 DEF Follows
<1>13. CASE CommitByBranch(same, token)
  <2>1. /\ outer' = [outer EXCEPT !.pending = <<>>, !.done = token = Eos] /\ Emitted(token)
        /\ outer.uncertain
    BY <1>7, <1>13 DEF CommitByBranch
  <2>2. /\ outer'.pending = <<>> /\ outer'.uncertain /\ ~outer'.failed /\ (outer'.done <=> token = Eos)
    BY <1>8, <1>11, <2>1
  <2>3. t.route = "insufficient"
    BY <1>7, <2>1 DEF At
  <2>4. At(t, a, i, core', outer')
    BY <1>9, <2>2, <2>3 DEF At
  <2> QED BY <1>12, <2>1, <2>4
<1>14. CASE CommitByCore(same, token)
  <2>1. PICK c : c = core
    OBVIOUS
  <2>2. PICK m \in Nat : m = Len(t.value)
    BY <1>7 DEF Shape
  <2>3. /\ ~outer.uncertain /\ t.route # "insufficient" /\ c.route \in {"unset", t.route}
        /\ n <= a => c.reads = 0
        /\ c.cursor = IF Copying(t, a, n, <<d>>) THEN [value |-> t.value, offset |-> n - a]
                      ELSE NoCursor
    BY <1>7, <1>8, <1>14, <2>1 DEF CommitByCore, At
  <2>4. d.kind = IF m = 0 \/ i <= a \/ i > a + m + 1 THEN "base"
                 ELSE IF i = a + 1 THEN "start"
                 ELSE IF i = a + m + 1 THEN "end" ELSE "continue"
    BY <1>7, <1>8, <1>9, <2>2, <2>3 DEF Shape
  <2>5. t.value = <<>> <=> m = 0
    BY <1>7, <2>2 DEF Shape
  <2>6. core' = CoreCommitted(c, d)
    BY <1>8, <1>14, <2>1 DEF CommitByCore
  <2>7. PICK state : state = StateAfter(d.kind, d.token)
    OBVIOUS
  <2>8. PICK reads : reads = c.reads + (IF d.kind = "start" THEN 1 ELSE 0)
    OBVIOUS
  <2>9. PICK cursor : cursor = IF d.kind \in {"start", "continue"} THEN Advanced(c.cursor)
                               ELSE IF d.kind = "end" THEN NoCursor ELSE c.cursor
    OBVIOUS
  <2>10. core' = [c EXCEPT !.state = state, !.pending = <<>>, !.reads = reads, !.cursor = cursor]
    BY <1>7, <2>1, <2>6, <2>7, <2>8, <2>9 DEF CoreCommitted, TypeOK
  <2>11. /\ core'.state = state /\ core'.pending = <<>> /\ core'.reads = reads /\ core'.cursor = cursor
         /\ core'.route = c.route
    BY <2>1, <2>10 DEF TypeOK
  <2>12. state \in {"idle", "active", "done"} /\ (state = "done" <=> i = Len(t.tokens))
    BY <1>8, <1>9, <2>7 DEF StateAfter
  <2>13. Emitted(token) /\ outer' = [outer EXCEPT !.pending = <<>>, !.done = state = "done"]
    BY <1>14, <2>11, <2>12 DEF CommitByCore
  <2>14. /\ outer'.pending = <<>> /\ ~outer'.uncertain /\ ~outer'.failed
         /\ outer'.done <=> i = Len(t.tokens)
    BY <1>8, <1>11, <2>3, <2>12, <2>13
  <2>15. i <= a => reads = 0
    <3>1. ASSUME i <= a PROVE d.kind = "base" /\ c.reads = 0
      BY <1>5, <1>7, <2>3, <2>4, <3>1
    <3> QED BY <2>8, <3>1
  <2>16. cursor = IF Copying(t, a, i, <<>>) THEN [value |-> t.value, offset |-> i - a] ELSE NoCursor
    <3>1. CASE d.kind \in {"start", "continue"}
      <4>1. m # 0 /\ n \in a..(a + m - 1)
        BY <1>5, <1>7, <2>4, <3>1
      <4>2. Copying(t, a, n, <<d>>) /\ Copying(t, a, i, <<>>)
        BY <1>5, <1>7, <2>2, <2>5, <4>1 DEF Copying
      <4>3. cursor = Advanced([value |-> t.value, offset |-> n - a])
        BY <2>3, <2>9, <3>1, <4>2
      <4>4. cursor = [value |-> t.value, offset |-> (n - a) + 1] /\ (n - a) + 1 = i - a
        BY <1>5, <1>7, <4>3 DEF Advanced
      <4> QED BY <4>2, <4>4
    <3>2. CASE d.kind = "end"
      <4>1. i = a + m + 1
        BY <1>7, <2>4, <3>2
      <4>2. ~Copying(t, a, i, <<>>)
        BY <1>5, <1>7, <2>2, <4>1 DEF Copying
      <4> QED BY <2>9, <3>2, <4>2
    <3>3. CASE d.kind = "base"
      <4>1. m = 0 \/ i <= a \/ i > a + m + 1
        BY <2>4, <3>3
      <4>2. ~Copying(t, a, n, <<d>>) /\ ~Copying(t, a, i, <<>>)
        BY <1>5, <1>7, <2>2, <2>5, <4>1 DEF Copying
      <4> QED BY <2>3, <2>9, <3>3, <4>2
    <3> QED BY <2>4, <3>1, <3>2, <3>3
  <2>17. At(t, a, i, core', outer')
    BY <2>3, <2>11, <2>12, <2>14, <2>15, <2>16 DEF At
  <2> QED BY <1>12, <2>13, <2>17
<1> QED BY <1>1, <1>10, <1>13, <1>14

LEMMA TaughtStep == ASSUME TypeOK, TaughtInv, [Next]_vars PROVE TaughtInv'
<1> SUFFICES ASSUME teacher' # Free PROVE \E a \in Nat : Follows(a)'
  BY DEF TaughtInv
<1>1. teacher' = teacher
  BY DEF Next, vars, Propose, Commit, Alter, Smear
<1>2. PICK a \in Nat : Follows(a)
  BY <1>1 DEF TaughtInv
<1>3. CASE Open /\ Propose
  BY <1>1, <1>2, <1>3, TaughtPropose
<1>4. CASE Commit
  BY <1>1, <1>2, <1>4, TaughtCommit
<1>5. CASE UNCHANGED vars
  <2>1. /\ prompt' = prompt /\ core' = core /\ outer' = outer /\ output' = output
        /\ altered' = altered /\ smeared' = smeared /\ kinds' = kinds
    BY <1>5 DEF vars
  <2>2. Compiles(teacher)' /\ Shown(teacher, Len(output))'
    BY <1>1, <1>2, <2>1 DEF Follows, Compiles, Shown
  <2>3. Shape(teacher, a, Len(teacher.value))' /\ At(teacher, a, Len(output), core, outer)'
    BY <1>1, <1>2, <2>1 DEF Follows
  <2> QED BY <1>2, <2>1, <2>2, <2>3 DEF Follows
<1> QED BY <1>1, <1>3, <1>4, <1>5 DEF Next, Alter, Smear

(* TeacherReplayed: a controller that is shown what a trajectory teaches     *)
(* (compile_teacher) takes its phases and tokens to the last, and never      *)
(* fails (AutonomousValueController, ResearchUncertaintyController), for     *)
(* every trajectory that its budgets hold.                                   *)
THEOREM TeacherAlwaysReplayed == Spec => []TeacherReplayed
<1>1. TypeOK /\ TaughtInv => TeacherReplayed
  <2> SUFFICES ASSUME TypeOK, TaughtInv, teacher # Free
               PROVE  /\ ~outer.failed /\ kinds = SubSeq(teacher.phases, 1, Len(kinds))
                      /\ output = SubSeq(teacher.tokens, 1, Len(output))
                      /\ outer.done <=> Len(output) = Len(teacher.tokens)
    BY DEF TeacherReplayed
  <2>1. PICK a \in Nat : Follows(a)
    BY DEF TaughtInv
  <2>2. PICK n \in Nat : n = Len(output)
    BY DEF TypeOK
  <2>3. /\ output \in Seq(Tokens) /\ kinds \in Seq(Kinds) /\ Len(kinds) = n
        /\ teacher.tokens \in Seq(Tokens) /\ teacher.phases \in Seq(Kinds)
        /\ Len(teacher.phases) = Len(teacher.tokens) /\ n <= Len(teacher.tokens)
        /\ \A i \in 1..n : kinds[i] = teacher.phases[i] /\ output[i] = teacher.tokens[i]
    BY <2>1, <2>2 DEF TypeOK, Follows, Shape, Shown
  <2>4. kinds = SubSeq(teacher.phases, 1, n)
    BY <2>2, <2>3
  <2>5. output = SubSeq(teacher.tokens, 1, n)
    BY <2>2, <2>3
  <2>6. ~outer.failed /\ (outer.done <=> Len(output) = Len(teacher.tokens))
    BY <2>1 DEF Follows, At
  <2> QED BY <2>2, <2>3, <2>4, <2>5, <2>6
<1>2. TypeOK /\ TaughtInv /\ [Next]_vars => TaughtInv'
  BY TaughtStep
<1> QED BY <1>1, <1>2, TaughtInit, TypeCorrect, PTL DEF Spec

(* The replies of the run are replies of the value controllers, as far as    *)
(* these go.                                                                 *)
LEMMA RepliesAreReplies == RepliesSpec => Spec
<1>1. RepliesInit => Init
  BY DEF RepliesInit
<1>2. [RepliesNext]_replyVars => [Next]_vars
  BY DEF RepliesNext, ByValue, ByNative, replyVars
<1> QED BY <1>1, <1>2, PTL DEF RepliesSpec, Spec
=============================================================================
