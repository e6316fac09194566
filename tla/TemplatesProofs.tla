--------------------------- MODULE TemplatesProofs ---------------------------
(***************************************************************************)
(* Proofs about Templates, for any templates, white space and calls.  What *)
(* sanitizing does to a text is followed line by line: each of the         *)
(* functions on sequences is described by its value on <<>> and on a       *)
(* sequence with one more element (Append), and InductionOnSequences does  *)
(* the rest.  At the end, about MergePatch: what an update makes of its    *)
(* template, by induction on the depth of values and along paths.          *)
(***************************************************************************)
EXTENDS Templates, MergePatch, SequenceTheorems, FiniteSetTheorems, WellFoundedInduction, TLAPS

-----------------------------------------------------------------------------
(* Induction, for a set of numbers and a set of sequences. *)
LEMMA LeastNumber ==
  ASSUME NEW S \in SUBSET Nat, S # {}
  PROVE  \E x \in S : \A y \in S : x <= y
<1>1. \E x \in S : \A y \in S : ~(<<y, x>> \in OpToRel(<, Nat))
  BY NatLessThanWellFounded, WFMin
<1>2. \A x, y \in Nat : <<y, x>> \in OpToRel(<, Nat) <=> y < x
  BY DEF OpToRel
<1>3. PICK x \in S : \A y \in S : ~(<<y, x>> \in OpToRel(<, Nat))
  BY <1>1
<1>4. \A y \in S : x \in Nat /\ y \in Nat /\ ~(y < x)
  BY <1>2, <1>3
<1> QED
  BY <1>4

LEMMA UpTo ==
  ASSUME NEW S, NEW m \in Nat, 0 \in S, \A n \in 1..m : n - 1 \in S => n \in S
  PROVE  \A n \in 0..m : n \in S
<1> DEFINE Bad == {n \in 0..m : n \notin S}
<1>1. SUFFICES ASSUME Bad # {} PROVE FALSE
  OBVIOUS
<1>2. PICK x \in Bad : \A y \in Bad : x <= y
  <2>1. Bad \in SUBSET Nat
    OBVIOUS
  <2> HIDE DEF Bad
  <2> QED
    BY <1>1, <2>1, LeastNumber
<1>3. x \in 1..m /\ x - 1 \in 0..m /\ x - 1 \notin Bad
  BY <1>2
<1> QED
  BY <1>2, <1>3

LEMMA InductionOnSequences ==
  ASSUME NEW T, NEW P, <<>> \in P,
         \A s \in Seq(T) : \A e \in T : s \in P => Append(s, e) \in P
  PROVE  \A s \in Seq(T) : s \in P
<1> SUFFICES ASSUME NEW s \in Seq(T) PROVE s \in P
  OBVIOUS
<1> DEFINE N == {n \in Nat : \A t \in Seq(T) : Len(t) = n => t \in P}
<1>1. 0 \in N /\ Len(s) \in Nat
  OBVIOUS
<1>2. ASSUME NEW n \in 1..Len(s), n - 1 \in N
      PROVE  n \in N
  <2> SUFFICES ASSUME NEW t \in Seq(T), Len(t) = n PROVE t \in P
    OBVIOUS
  <2>1. t # <<>>
    OBVIOUS
  <2>2. PICK u \in Seq(T), e \in T : t = Append(u, e)
    BY <2>1, SequenceEmptyOrAppend, Zenon
  <2>3. Len(u) = n - 1
    BY <2>2
  <2> QED
    BY <1>2, <2>2, <2>3
<1>3. \A n \in 0..Len(s) : n \in N
  <2> HIDE DEF N
  <2> QED
    BY <1>1, <1>2, UpTo, Zenon
<1> QED
  BY <1>1, <1>3

(* A function on 0..m is defined by its first value and a step. *)
Unfolds(f, base, m, step) ==
    f[0] = base /\ \A n \in 1..m : f[n] = step[<<f[n - 1], n>>]

LEMMA Recursion ==
  ASSUME NEW D, NEW base \in D, NEW m \in Nat, NEW step \in [D \X (1..m) -> D]
  PROVE  \E f \in [0..m -> D] : Unfolds(f, base, m, step)
<1> DEFINE S == {i \in 0..m : \E f \in [0..i -> D] : Unfolds(f, base, i, step)}
<1>1. 0 \in S
  <2> DEFINE f == [n \in 0..0 |-> base]
  <2>1. f \in [0..0 -> D] /\ Unfolds(f, base, 0, step)
    BY DEF Unfolds
  <2> HIDE DEF f
  <2> QED
    BY <2>1
<1>2. ASSUME NEW x \in 1..m, x - 1 \in S
      PROVE  x \in S
  <2>1. PICK f \in [0..(x - 1) -> D] : Unfolds(f, base, x - 1, step)
    BY <1>2
  <2>2. f[x - 1] \in D /\ <<f[x - 1], x>> \in D \X (1..m)
    OBVIOUS
  <2> DEFINE g == [n \in 0..x |-> IF n = x THEN step[<<f[x - 1], x>>] ELSE f[n]]
  <2>3. g \in [0..x -> D]
    BY <2>2
  <2>4. ASSUME NEW n \in 1..x
        PROVE  g[n] = step[<<g[n - 1], n>>]
    <3>1. CASE n = x
      <4>1. x \in 0..x /\ x - 1 \in 0..x /\ x - 1 # x
        OBVIOUS
      <4> QED
        BY <3>1, <4>1
    <3>2. CASE n # x
      <4>1. n \in 1..(x - 1) /\ n \in 0..x /\ n - 1 \in 0..x /\ n - 1 # x
        BY <3>2
      <4> QED
        BY <2>1, <3>2, <4>1 DEF Unfolds
    <3> QED
      BY <3>1, <3>2
  <2>5. g[0] = base
    BY <2>1 DEF Unfolds
  <2> HIDE DEF g
  <2>6. Unfolds(g, base, x, step) /\ x \in 0..m
    BY <2>4, <2>5 DEF Unfolds
  <2> QED
    BY <2>3, <2>6
<1>3. m \in S
  <2> HIDE DEF S
  <2> QED
    BY <1>1, <1>2, UpTo
<1> QED
  BY <1>3

LEMMA StepsAgree ==
  ASSUME NEW m \in Nat, NEW f, NEW g, f[0] = g[0],
         \A n \in 1..m : f[n - 1] = g[n - 1] => f[n] = g[n]
  PROVE  f[m] = g[m]
<1> DEFINE S == {n \in 0..m : f[n] = g[n]}
<1>1. 0 \in S
  OBVIOUS
<1>2. \A n \in 1..m : n - 1 \in S => n \in S
  OBVIOUS
<1>3. m \in S
  <2> HIDE DEF S
  <2> QED
    BY <1>1, <1>2, UpTo
<1> QED
  BY <1>3

-----------------------------------------------------------------------------
(* Only, element by element. *)
OnlyAfter(f, s, S) ==
    /\ Only(s, S) = f[Len(s)]
    /\ f[0] = <<>>
    /\ \A n \in 1..Len(s) :
          f[n] = IF s[n] \in S THEN Append(f[n - 1], s[n]) ELSE f[n - 1]

LEMMA OnlyRounds ==
  ASSUME NEW T, NEW S, NEW s \in Seq(T)
  PROVE  \E f \in [0..Len(s) -> Seq(T \cap S)] : OnlyAfter(f, s, S)
<1> DEFINE D == Seq(T \cap S)
           m == Len(s)
           Next1(q, n) == IF s[n] \in S THEN Append(q, s[n]) ELSE q
           Rounds(f) == f = [n \in 0..m |-> IF n = 0 THEN <<>> ELSE Next1(f[n - 1], n)]
           step == [p \in D \X (1..m) |-> Next1(p[1], p[2])]
<1>1. m \in Nat /\ <<>> \in D
  OBVIOUS
<1>2. \A q \in D, n \in 1..m : Next1(q, n) \in D
  <2> SUFFICES ASSUME NEW q \in D, NEW n \in 1..m, s[n] \in S PROVE Append(q, s[n]) \in D
    OBVIOUS
  <2>1. s[n] \in T \cap S
    OBVIOUS
  <2> QED
    BY <2>1
<1>3. /\ step \in [D \X (1..m) -> D]
      /\ \A q \in D, n \in 1..m : step[<<q, n>>] = Next1(q, n)
  <2> HIDE DEF D, Next1
  <2> QED
    BY <1>2
<1>4. PICK f \in [0..m -> D] : Unfolds(f, <<>>, m, step)
  <2> HIDE DEF D, step, m, Next1
  <2> QED
    BY <1>1, <1>3, Recursion, Zenon
<1>5. \A n \in 1..m : f[n - 1] \in D /\ f[n] = Next1(f[n - 1], n)
  <2> HIDE DEF D, step, Next1
  <2>1. \A n \in 1..m : n - 1 \in 0..m
    BY <1>1
  <2> QED
    BY <1>3, <1>4, <2>1 DEF Unfolds
<1>6. Rounds(f)
  <2> HIDE DEF D, Next1
  <2> QED
    BY <1>4, <1>5 DEF Unfolds
<1> DEFINE after == CHOOSE g : Rounds(g)
<1>7. Rounds(after)
  <2> HIDE DEF Rounds
  <2> QED
    BY <1>6
<1>8. Only(s, S) = after[m]
  BY DEF Only
<1> HIDE DEF after
<1>9. f[m] = after[m]
  <2>1. f[0] = after[0]
    BY <1>1, <1>4, <1>7 DEF Unfolds
  <2>2. \A n \in 1..m : after[n] = Next1(after[n - 1], n)
    <3> HIDE DEF Next1
    <3> QED
      BY <1>1, <1>7
  <2>3. \A n \in 1..m : f[n - 1] = after[n - 1] => f[n] = after[n]
    <3> HIDE DEF Next1
    <3> QED
      BY <1>5, <2>2
  <2> HIDE DEF m
  <2> QED
    BY <1>1, <2>1, <2>3, StepsAgree
<1> QED
  BY <1>4, <1>5, <1>8, <1>9 DEF OnlyAfter, Unfolds

LEMMA OnlyEmpty == \A S : Only(<<>>, S) = <<>>
<1> SUFFICES ASSUME NEW S PROVE Only(<<>>, S) = <<>>
  OBVIOUS
<1>1. <<>> \in Seq({}) /\ Len(<<>>) = 0
  OBVIOUS
<1>2. PICK f : OnlyAfter(f, <<>>, S)
  BY <1>1, OnlyRounds, Zenon
<1> QED
  BY <1>1, <1>2 DEF OnlyAfter

LEMMA OnlyTyped ==
  ASSUME NEW T, NEW S, NEW s \in Seq(T)
  PROVE  Only(s, S) \in Seq(T \cap S) /\ Only(s, S) \in Seq(T)
<1>1. PICK f \in [0..Len(s) -> Seq(T \cap S)] : OnlyAfter(f, s, S)
  BY OnlyRounds, Zenon
<1>2. Only(s, S) \in Seq(T \cap S)
  BY <1>1 DEF OnlyAfter
<1> QED
  BY <1>2

LEMMA OnlyAppend ==
  ASSUME NEW T, NEW S, NEW s \in Seq(T), NEW e \in T
  PROVE  Only(Append(s, e), S) = IF e \in S THEN Append(Only(s, S), e) ELSE Only(s, S)
<1> DEFINE m == Len(s)
<1>1. PICK t : t = Append(s, e)
  OBVIOUS
<1>2. /\ t \in Seq(T) /\ Len(t) = m + 1 /\ m \in Nat /\ t[m + 1] = e
      /\ \A n \in 1..m : t[n] = s[n]
  BY <1>1
<1>3. PICK f : OnlyAfter(f, s, S)
  BY OnlyRounds, Zenon
<1>4. PICK g : OnlyAfter(g, t, S)
  BY <1>2, OnlyRounds, Zenon
<1> HIDE DEF m
<1>5. f[m] = g[m]
  <2>1. \A n \in 1..m : f[n - 1] = g[n - 1] => f[n] = g[n]
    BY <1>2, <1>3, <1>4 DEF OnlyAfter, m
  <2> QED
    BY <1>2, <1>3, <1>4, <2>1, StepsAgree DEF OnlyAfter
<1>6. m + 1 \in 1..(m + 1) /\ (m + 1) - 1 = m
  BY <1>2
<1> QED
  BY <1>1, <1>2, <1>3, <1>4, <1>5, <1>6 DEF OnlyAfter, m

-----------------------------------------------------------------------------
(* Documents and FlattenSeq, likewise. *)
DocumentsAfter(f, s) ==
    /\ Documents(s) = f[Len(s)]
    /\ f[0] = << <<>> >>
    /\ \A n \in 1..Len(s) : f[n] = AddLine(f[n - 1], s[n])

(* At least one document, of lines in T. *)
Docs(T) == {docs \in Seq(Seq(T)) : docs # <<>>}

LEMMA AddLineTyped ==
  ASSUME NEW T, NEW docs \in Docs(T), NEW l \in T
  PROVE  AddLine(docs, l) \in Docs(T)
<1>1. /\ docs \in Seq(Seq(T)) /\ docs # <<>> /\ Len(docs) \in Nat /\ Len(docs) \in 1..Len(docs)
      /\ docs[Len(docs)] \in Seq(T) /\ <<>> \in Seq(T)
  BY DEF Docs
<1>2. Append(docs[Len(docs)], l) \in Seq(T)
  BY <1>1
<1>3. Append(docs, <<>>) \in Docs(T)
  BY <1>1 DEF Docs
<1>4. PICK d : d = Append(docs[Len(docs)], l)
  OBVIOUS
<1>5. [docs EXCEPT ![Len(docs)] = d] \in Docs(T)
  <2>1. [docs EXCEPT ![Len(docs)] = d] \in Seq(Seq(T))
    BY <1>1, <1>2, <1>4, ExceptSeq
  <2>2. Len([docs EXCEPT ![Len(docs)] = d]) = Len(docs)
    BY <1>1, <1>2, <1>4, ExceptSeq
  <2> QED
    BY <1>1, <2>1, <2>2 DEF Docs
<1> QED
  BY <1>3, <1>4, <1>5 DEF AddLine

LEMMA DocumentsRounds ==
  ASSUME NEW T, NEW s \in Seq(T)
  PROVE  \E f \in [0..Len(s) -> Docs(T)] : DocumentsAfter(f, s)
<1> DEFINE D == Docs(T)
           m == Len(s)
           Rounds(f) == f = [n \in 0..m |-> IF n = 0 THEN << <<>> >> ELSE AddLine(f[n - 1], s[n])]
           step == [p \in D \X (1..m) |-> AddLine(p[1], s[p[2]])]
<1>1. m \in Nat /\ << <<>> >> \in D
  BY DEF Docs
<1>2. \A q \in D, n \in 1..m : AddLine(q, s[n]) \in D
  BY AddLineTyped
<1>3. /\ step \in [D \X (1..m) -> D]
      /\ \A q \in D, n \in 1..m : step[<<q, n>>] = AddLine(q, s[n])
  <2> HIDE DEF D
  <2> QED
    BY <1>2
<1>4. PICK f \in [0..m -> D] : Unfolds(f, << <<>> >>, m, step)
  <2> HIDE DEF D, step, m
  <2> QED
    BY <1>1, <1>3, Recursion, Zenon
<1>5. \A n \in 1..m : f[n - 1] \in D /\ f[n] = AddLine(f[n - 1], s[n])
  <2> HIDE DEF D, step, m
  <2>1. \A n \in 1..m : n - 1 \in 0..m
    BY <1>1
  <2>2. \A n \in 1..m : f[n - 1] \in D
    BY <1>4, <2>1
  <2>3. \A n \in 1..m : f[n] = step[<<f[n - 1], n>>]
    BY <1>4 DEF Unfolds
  <2> QED
    BY <1>3, <2>2, <2>3
<1>6. Rounds(f)
  <2> HIDE DEF D, step, m
  <2>1. f = [n \in 0..m |-> f[n]] /\ f[0] = << <<>> >>
    BY <1>4 DEF Unfolds
  <2>2. \A n \in 0..m : n # 0 => n \in 1..m
    BY <1>1
  <2>3. \A n \in 0..m : f[n] = IF n = 0 THEN << <<>> >> ELSE AddLine(f[n - 1], s[n])
    BY <1>5, <2>1, <2>2, Zenon
  <2> QED
    BY <2>1, <2>3, Zenon
<1> DEFINE after == CHOOSE g : Rounds(g)
<1>7. Rounds(after)
  <2> HIDE DEF Rounds
  <2> QED
    BY <1>6
<1>8. Documents(s) = after[m]
  BY DEF Documents
<1> HIDE DEF after
<1>9. f[m] = after[m]
  <2>1. f[0] = after[0]
    BY <1>1, <1>4, <1>7 DEF Unfolds
  <2>2. \A n \in 1..m : after[n] = AddLine(after[n - 1], s[n])
    <3> HIDE DEF m, D, step
    <3>1. after = [n \in 0..m |-> IF n = 0 THEN << <<>> >> ELSE AddLine(after[n - 1], s[n])]
      BY <1>7
    <3>2. \A n \in 1..m : n \in 0..m /\ n # 0
      BY <1>1
    <3> QED
      BY <3>1, <3>2
  <2>3. \A n \in 1..m : f[n - 1] = after[n - 1] => f[n] = after[n]
    BY <1>5, <2>2
  <2> HIDE DEF m
  <2> QED
    BY <1>1, <2>1, <2>3, StepsAgree
<1> QED
  BY <1>4, <1>5, <1>8, <1>9 DEF DocumentsAfter, Unfolds

LEMMA DocumentsEmpty == Documents(<<>>) = << <<>> >>
<1>1. <<>> \in Seq({}) /\ Len(<<>>) = 0
  OBVIOUS
<1>2. PICK f : DocumentsAfter(f, <<>>)
  BY <1>1, DocumentsRounds, Zenon
<1> QED
  BY <1>1, <1>2 DEF DocumentsAfter

LEMMA DocumentsTyped ==
  ASSUME NEW T, NEW s \in Seq(T)
  PROVE  Documents(s) \in Docs(T)
<1>1. PICK f \in [0..Len(s) -> Docs(T)] : DocumentsAfter(f, s)
  BY DocumentsRounds, Zenon
<1> QED
  BY <1>1 DEF DocumentsAfter

LEMMA DocumentsAppend ==
  ASSUME NEW T, NEW s \in Seq(T), NEW l \in T
  PROVE  Documents(Append(s, l)) = AddLine(Documents(s), l)
<1> DEFINE m == Len(s)
<1>1. PICK t : t = Append(s, l)
  OBVIOUS
<1>2. /\ t \in Seq(T) /\ Len(t) = m + 1 /\ m \in Nat /\ t[m + 1] = l
      /\ \A n \in 1..m : t[n] = s[n]
  BY <1>1
<1>3. PICK f : DocumentsAfter(f, s)
  BY DocumentsRounds, Zenon
<1>4. PICK g : DocumentsAfter(g, t)
  BY <1>2, DocumentsRounds, Zenon
<1> HIDE DEF m
<1>5. f[m] = g[m]
  <2>1. \A n \in 1..m : f[n - 1] = g[n - 1] => f[n] = g[n]
    BY <1>2, <1>3, <1>4 DEF DocumentsAfter, m
  <2>2. f[0] = g[0]
    BY <1>3, <1>4 DEF DocumentsAfter
  <2> QED
    BY <1>2, <2>1, <2>2, StepsAgree, Zenon
<1>6. m + 1 \in 1..(m + 1) /\ (m + 1) - 1 = m
  BY <1>2
<1> QED
  BY <1>1, <1>2, <1>3, <1>4, <1>5, <1>6 DEF DocumentsAfter, m

FlattenAfter(f, ss) ==
    /\ FlattenSeq(ss) = f[Len(ss)]
    /\ f[1] = ss[1]
    /\ \A n \in 2..Len(ss) : f[n] = f[n - 1] \o ss[n]

LEMMA FlattenRounds ==
  ASSUME NEW T, NEW ss \in Seq(Seq(T)), ss # <<>>
  PROVE  \E f : FlattenAfter(f, ss) /\ \A n \in 1..Len(ss) : f[n] \in Seq(T)
<1> DEFINE D == Seq(T)
           m == Len(ss)
           Rounds(f) == f = [n \in 1..m |-> IF n = 1 THEN ss[n] ELSE f[n - 1] \o ss[n]]
           step == [p \in D \X (1..(m - 1)) |-> p[1] \o ss[p[2] + 1]]
<1>1. m \in Nat /\ m - 1 \in Nat /\ ss[1] \in D /\ m # 0 /\ 1 \in 1..m
  OBVIOUS
<1>2. \A q \in D, n \in 1..m : q \o ss[n] \in D
  OBVIOUS
<1>3. /\ step \in [D \X (1..(m - 1)) -> D]
      /\ \A q \in D, n \in 1..(m - 1) : step[<<q, n>>] = q \o ss[n + 1]
  <2>1. \A n \in 1..(m - 1) : n + 1 \in 1..m
    BY <1>1
  <2> HIDE DEF D
  <2> QED
    BY <1>2, <2>1
<1>4. PICK h \in [0..(m - 1) -> D] : Unfolds(h, ss[1], m - 1, step)
  <2> HIDE DEF D, step, m
  <2> QED
    BY <1>1, <1>3, Recursion, Zenon
<1> DEFINE f == [n \in 1..m |-> h[n - 1]]
<1>5. \A n \in 1..m : n - 1 \in 0..(m - 1) /\ f[n] \in D
  <2> HIDE DEF D, m
  <2> QED
    BY <1>1, <1>4
<1>6. f[1] = ss[1] /\ \A n \in 2..m : f[n] = f[n - 1] \o ss[n]
  <2>1. f[1] = ss[1]
    BY <1>1, <1>4 DEF Unfolds
  <2>2. ASSUME NEW n \in 2..m PROVE f[n] = f[n - 1] \o ss[n]
    <3>1. /\ n - 1 \in 1..(m - 1) /\ n \in 1..m /\ n - 1 \in 1..m /\ (n - 1) + 1 = n
          /\ (n - 1) - 1 \in 0..(m - 1)
      BY <1>1
    <3>2. h[n - 1] = step[<<h[(n - 1) - 1], n - 1>>]
      BY <1>4, <3>1 DEF Unfolds
    <3>3. h[n - 1] = h[(n - 1) - 1] \o ss[n]
      <4>1. h[(n - 1) - 1] \in D
        BY <1>4, <3>1
      <4> HIDE DEF step, D
      <4> QED
        BY <1>3, <3>1, <3>2, <4>1
    <3> QED
      BY <3>1, <3>3
  <2> QED
    BY <2>1, <2>2
<1>7. Rounds(f)
  <2>1. ASSUME NEW n \in 1..m
        PROVE  f[n] = IF n = 1 THEN ss[n] ELSE f[n - 1] \o ss[n]
    <3>1. n # 1 => n \in 2..m
      BY <1>1
    <3> HIDE DEF f
    <3> QED
      BY <1>6, <3>1
  <2>2. f = [n \in 1..m |-> f[n]]
    OBVIOUS
  <2> HIDE DEF f
  <2> QED
    BY <2>1, <2>2
<1> DEFINE after == CHOOSE g : Rounds(g)
<1>8. Rounds(after)
  <2> HIDE DEF Rounds
  <2> QED
    BY <1>7
<1>9. FlattenSeq(ss) = after[m]
  BY <1>1 DEF FlattenSeq
<1> HIDE DEF after, f
<1>10. after[1] = ss[1] /\ \A n \in 2..m : after[n] = after[n - 1] \o ss[n]
  <2>1. \A n \in 1..m : after[n] = IF n = 1 THEN ss[n] ELSE after[n - 1] \o ss[n]
    <3> HIDE DEF m
    <3> QED
      BY <1>8
  <2>2. \A n \in 2..m : n \in 1..m /\ n # 1
    BY <1>1
  <2> HIDE DEF m
  <2> QED
    BY <1>1, <2>1, <2>2
<1> DEFINE S == {n \in 1..m : after[n] \in D}
<1>11. \A n \in 0..(m - 1) : n + 1 \in S
  <2> DEFINE Z == {n \in 0..(m - 1) : n + 1 \in S}
  <2>1. 0 \in Z
    BY <1>1, <1>10
  <2>2. ASSUME NEW n \in 1..(m - 1), n - 1 \in Z
        PROVE  n \in Z
    <3>1. n + 1 \in 2..m /\ (n + 1) - 1 = n /\ (n - 1) + 1 = n /\ n + 1 \in 1..m /\ n \in 1..m
      BY <1>1
    <3>2. after[n] \in D
      BY <2>2, <3>1
    <3>3. after[n + 1] = after[n] \o ss[n + 1]
      BY <1>10, <3>1
    <3>4. after[n + 1] \in D
      BY <1>2, <3>1, <3>2, <3>3
    <3> HIDE DEF D
    <3> QED
      BY <3>1, <3>4
  <2> HIDE DEF Z
  <2>3. \A n \in 0..(m - 1) : n \in Z
    <3> HIDE DEF m
    <3> QED
      BY <1>1, <2>1, <2>2, UpTo, Zenon
  <2> QED
    BY <2>3 DEF Z
<1>12. \A n \in 1..m : after[n] \in D
  <2>1. \A n \in 1..m : n - 1 \in 0..(m - 1) /\ (n - 1) + 1 = n
    BY <1>1
  <2> HIDE DEF D
  <2> QED
    BY <1>11, <2>1
<1>13. FlattenAfter(after, ss)
  BY <1>9, <1>10 DEF FlattenAfter
<1> QED
  BY <1>12, <1>13

LEMMA FlattenEmpty == FlattenSeq(<<>>) = <<>>
<1>1. Len(<<>>) = 0
  OBVIOUS
<1> QED
  BY <1>1 DEF FlattenSeq

LEMMA FlattenTyped ==
  ASSUME NEW T, NEW ss \in Seq(Seq(T))
  PROVE  FlattenSeq(ss) \in Seq(T)
<1>1. CASE ss = <<>>
  <2>1. FlattenSeq(ss) = <<>>
    BY <1>1, FlattenEmpty
  <2> QED
    BY <2>1
<1>2. CASE ss # <<>>
  <2>1. PICK f : FlattenAfter(f, ss) /\ \A n \in 1..Len(ss) : f[n] \in Seq(T)
    BY <1>2, FlattenRounds, Zenon
  <2>2. Len(ss) \in 1..Len(ss)
    BY <1>2
  <2> QED
    BY <2>1, <2>2 DEF FlattenAfter
<1> QED
  BY <1>1, <1>2

LEMMA FlattenAppend ==
  ASSUME NEW T, NEW ss \in Seq(Seq(T)), NEW s \in Seq(T)
  PROVE  FlattenSeq(Append(ss, s)) = FlattenSeq(ss) \o s
<1> DEFINE m == Len(ss)
<1>1. PICK t : t = Append(ss, s)
  OBVIOUS
<1>2. /\ t \in Seq(Seq(T)) /\ Len(t) = m + 1 /\ m \in Nat /\ t[m + 1] = s
      /\ \A n \in 1..m : t[n] = ss[n]
      /\ t # <<>>
  BY <1>1
<1>3. PICK g : FlattenAfter(g, t) /\ \A n \in 1..Len(t) : g[n] \in Seq(T)
  BY <1>2, FlattenRounds, Zenon
<1>4. CASE ss = <<>>
  <2>1. m = 0 /\ <<>> \o s = s
    BY <1>4
  <2>2. FlattenSeq(t) = s
    BY <1>2, <1>3, <2>1 DEF FlattenAfter
  <2> QED
    BY <1>1, <1>4, <2>1, <2>2, FlattenEmpty
<1>5. CASE ss # <<>>
  <2>1. PICK f : FlattenAfter(f, ss) /\ \A n \in 1..Len(ss) : f[n] \in Seq(T)
    BY <1>5, FlattenRounds, Zenon
  <2>2. m # 0
    BY <1>5
  <2> HIDE DEF m
  <2>3. \A n \in 1..m : g[n] = f[n]
    <3> DEFINE Z == {n \in 0..(m - 1) : g[n + 1] = f[n + 1]}
    <3>1. 0 \in Z /\ m - 1 \in Nat
      BY <1>2, <1>3, <2>1, <2>2 DEF FlattenAfter
    <3>2. ASSUME NEW n \in 1..(m - 1), n - 1 \in Z
          PROVE  n \in Z
      <4>1. n + 1 \in 2..m /\ n + 1 \in 2..(m + 1) /\ (n + 1) - 1 = n /\ (n - 1) + 1 = n
            /\ n + 1 \in 1..m /\ n \in 0..(m - 1)
        BY <1>2
      <4>2. g[n] = f[n]
        BY <3>2, <4>1
      <4>3. g[n + 1] = g[n] \o t[n + 1] /\ f[n + 1] = f[n] \o ss[n + 1]
        BY <1>2, <1>3, <2>1, <4>1 DEF FlattenAfter, m
      <4> QED
        BY <1>2, <4>1, <4>2, <4>3
    <3>3. \A n \in 0..(m - 1) : n \in Z
      <4> HIDE DEF Z
      <4> QED
        BY <3>1, <3>2, UpTo, Zenon
    <3>4. \A n \in 1..m : n - 1 \in 0..(m - 1) /\ (n - 1) + 1 = n
      BY <1>2
    <3> QED
      BY <3>3, <3>4
  <2>4. m \in 1..m /\ m + 1 \in 2..(m + 1) /\ (m + 1) - 1 = m
    BY <1>2, <2>2
  <2>5. g[m + 1] = g[m] \o s
    BY <1>2, <1>3, <2>4 DEF FlattenAfter
  <2>6. FlattenSeq(t) = g[m + 1] /\ FlattenSeq(ss) = f[m]
    BY <1>2, <1>3, <2>1 DEF FlattenAfter, m
  <2> QED
    BY <1>1, <2>3, <2>4, <2>5, <2>6
<1> QED
  BY <1>4, <1>5

-----------------------------------------------------------------------------
(* A sequence with one more element. *)
LEMMA Appended ==
  ASSUME NEW T, NEW f \in Seq(T), NEW g \in Seq(T), Len(f) = Len(g) + 1,
         \A i \in 1..Len(g) : f[i] = g[i]
  PROVE  f = Append(g, f[Len(f)])
<1>1. f[Len(f)] \in T /\ Len(g) \in Nat
  OBVIOUS
<1>2. PICK h : h = Append(g, f[Len(f)])
  OBVIOUS
<1>3. /\ h \in Seq(T) /\ Len(h) = Len(g) + 1 /\ h[Len(g) + 1] = f[Len(f)]
      /\ \A i \in 1..Len(g) : h[i] = g[i]
  BY <1>1, <1>2, AppendProperties
<1>4. \A i \in 1..Len(f) : f[i] = h[i]
  BY <1>1, <1>3
<1>5. f = h
  BY <1>3, <1>4, SeqEqual
<1> QED
  BY <1>2, <1>5

WithLast(t, x) == [t EXCEPT ![Len(t)] = x]
LastGrown(t, l) == [t EXCEPT ![Len(t)] = Append(@, l)]

LEMMA LastReplaced ==
  ASSUME NEW T, NEW s \in Seq(T), NEW e \in T, NEW x \in T,
         NEW t, t = Append(s, e)
  PROVE  WithLast(t, x) = Append(s, x)
<1>1. /\ t \in Seq(T) /\ Len(t) = Len(s) + 1 /\ Len(s) \in Nat
      /\ \A i \in 1..Len(s) : t[i] = s[i]
  BY AppendProperties
<1>2. PICK u : u = [t EXCEPT ![Len(t)] = x]
  OBVIOUS
<1>3. /\ u \in Seq(T) /\ Len(u) = Len(t)
      /\ \A i \in 1..Len(t) : u[i] = IF i = Len(t) THEN x ELSE t[i]
  <2>1. Len(t) \in 1..Len(t) /\ t \in Seq(T)
    BY <1>1
  <2>2. u \in Seq(T) /\ Len(u) = Len(t)
    BY <1>2, <2>1, ExceptSeq
  <2>3. u = [i \in DOMAIN t |-> IF i = Len(t) THEN x ELSE t[i]]
    BY <1>2
  <2> QED
    BY <2>1, <2>2, <2>3
<1>4. u = Append(s, u[Len(u)])
  BY <1>1, <1>3, Appended
<1> QED
  BY <1>1, <1>2, <1>3, <1>4 DEF WithLast

(* The images of the elements. *)
Image(g, s) == [i \in DOMAIN s |-> g[s[i]]]

LEMMA ImageTyped ==
  ASSUME NEW T, NEW U, NEW g \in [T -> U], NEW s \in Seq(T)
  PROVE  Image(g, s) \in Seq(U) /\ Len(Image(g, s)) = Len(s)
  BY DEF Image

Maps(T, U, g, s) == Image(g, s) \in Seq(U) /\ Len(Image(g, s)) = Len(s)

LEMMA ImageMaps ==
  ASSUME NEW T, NEW U, NEW g \in [T -> U], NEW s \in Seq(T)
  PROVE  Maps(T, U, g, s)
  BY DEF Image, Maps

LEMMA ImageAppend ==
  ASSUME NEW T, NEW U, NEW g \in [T -> U], NEW s \in Seq(T), NEW e \in T
  PROVE  Image(g, Append(s, e)) = Append(Image(g, s), g[e])
<1>1. PICK t : t = Append(s, e)
  OBVIOUS
<1>2. /\ t \in Seq(T) /\ Len(t) = Len(s) + 1 /\ Len(s) \in Nat /\ t[Len(s) + 1] = e
      /\ \A i \in 1..Len(s) : t[i] = s[i]
  BY <1>1, AppendProperties
<1>3. PICK f, h : f = Image(g, t) /\ h = Image(g, s)
  OBVIOUS
<1>4. /\ f \in Seq(U) /\ Len(f) = Len(s) + 1 /\ \A i \in 1..(Len(s) + 1) : f[i] = g[t[i]]
  BY <1>2, <1>3 DEF Image
<1>5. /\ h \in Seq(U) /\ Len(h) = Len(s) /\ \A i \in 1..Len(s) : h[i] = g[s[i]]
  BY <1>3 DEF Image
<1>6. \A i \in 1..Len(h) : f[i] = h[i]
  BY <1>2, <1>4, <1>5
<1>7. f = Append(h, f[Len(f)])
  BY <1>2, <1>4, <1>5, <1>6, Appended
<1>8. f[Len(f)] = g[e]
  BY <1>2, <1>4
<1>9. f = Append(h, g[e])
  BY <1>7, <1>8
<1> QED
  BY <1>1, <1>3, <1>9, Zenon

MapsOn(T, U, g, s, e) == Image(g, Append(s, e)) = Append(Image(g, s), g[e])

LEMMA ImageMapsOn ==
  ASSUME NEW T, NEW U, NEW g \in [T -> U], NEW s \in Seq(T), NEW e \in T
  PROVE  MapsOn(T, U, g, s, e)
  BY ImageAppend, Zenon DEF MapsOn

(* Elements can be chosen before or after they are mapped. *)
Chooses(T, U, g, S, R) == \A s \in Seq(T) : Only(Image(g, s), R) = Image(g, Only(s, S))

LEMMA OnlyImage ==
  ASSUME NEW T, NEW U, NEW g \in [T -> U], NEW S, NEW R,
         \A e \in T : g[e] \in R <=> e \in S
  PROVE  Chooses(T, U, g, S, R)
<1> DEFINE P == {s \in Seq(T) : Only(Image(g, s), R) = Image(g, Only(s, S))}
<1>1. <<>> \in P
  <2>1. Image(g, <<>>) = <<>>
    BY DEF Image
  <2> QED
    BY <2>1, OnlyEmpty
<1>2. ASSUME NEW s \in Seq(T), NEW e \in T, s \in P
      PROVE  Append(s, e) \in P
  <2>1. PICK a, b : a = Image(g, s) /\ b = Only(s, S)
    OBVIOUS
  <2>2. a \in Seq(U) /\ b \in Seq(T) /\ g[e] \in U /\ Append(s, e) \in Seq(T)
    <3>1. a \in Seq(U) /\ b \in Seq(T)
      BY <2>1, ImageTyped, OnlyTyped, Zenon
    <3> QED
      BY <3>1
  <2>3. Only(a, R) = Image(g, b)
    BY <1>2, <2>1
  <2>4. Image(g, Append(s, e)) = Append(a, g[e])
    <3>1. MapsOn(T, U, g, s, e)
      BY ImageMapsOn
    <3> QED
      BY <2>1, <3>1 DEF MapsOn
  <2>5. Only(Append(a, g[e]), R) = IF g[e] \in R THEN Append(Only(a, R), g[e]) ELSE Only(a, R)
    BY <2>2, OnlyAppend
  <2>6. Only(Append(s, e), S) = IF e \in S THEN Append(b, e) ELSE b
    BY <2>1, OnlyAppend
  <2>7. Image(g, Append(b, e)) = Append(Image(g, b), g[e])
    <3>1. MapsOn(T, U, g, b, e)
      BY <2>2, ImageMapsOn
    <3> QED
      BY <3>1 DEF MapsOn
  <2>8. Only(Image(g, Append(s, e)), R) = Image(g, Only(Append(s, e), S))
    BY <2>3, <2>4, <2>5, <2>6, <2>7
  <2> QED
    BY <2>2, <2>8
<1>3. \A s \in Seq(T) : s \in P
  <2> HIDE DEF P
  <2> QED
    BY <1>1, <1>2, InductionOnSequences, Zenon
<1> QED
  BY <1>3 DEF Chooses

(* A choice after a wider one. *)
Narrows(T, S, R) == \A s \in Seq(T) : Only(Only(s, S), R) = Only(s, R)

LEMMA OnlyOfOnly ==
  ASSUME NEW T, NEW S, NEW R, \A e \in T : e \in R => e \in S
  PROVE  Narrows(T, S, R)
<1> DEFINE P == {s \in Seq(T) : Only(Only(s, S), R) = Only(s, R)}
<1>1. <<>> \in P
  BY OnlyEmpty
<1>2. ASSUME NEW s \in Seq(T), NEW e \in T, s \in P
      PROVE  Append(s, e) \in P
  <2>1. PICK b : b = Only(s, S)
    OBVIOUS
  <2>2. b \in Seq(T) /\ Append(s, e) \in Seq(T) /\ Only(b, R) = Only(s, R)
    <3>1. b \in Seq(T)
      BY <2>1, OnlyTyped, Zenon
    <3> QED
      BY <1>2, <2>1, <3>1
  <2>3. /\ Only(Append(s, e), S) = IF e \in S THEN Append(b, e) ELSE b
        /\ Only(Append(s, e), R) = IF e \in R THEN Append(Only(s, R), e) ELSE Only(s, R)
        /\ Only(Append(b, e), R) = IF e \in R THEN Append(Only(b, R), e) ELSE Only(b, R)
    BY <2>1, <2>2, OnlyAppend
  <2>4. Only(Only(Append(s, e), S), R) = Only(Append(s, e), R)
    BY <2>2, <2>3
  <2> QED
    BY <2>2, <2>4
<1>3. \A s \in Seq(T) : s \in P
  <2> HIDE DEF P
  <2> QED
    BY <1>1, <1>2, InductionOnSequences, Zenon
<1> QED
  BY <1>3 DEF Narrows

(* A choice of everything. *)
LEMMA OnlyAll ==
  ASSUME NEW T, NEW S, T \subseteq S
  PROVE  \A s \in Seq(T) : Only(s, S) = s
<1> DEFINE P == {s \in Seq(T) : Only(s, S) = s}
<1>1. <<>> \in P
  BY OnlyEmpty
<1>2. ASSUME NEW s \in Seq(T), NEW e \in T, s \in P
      PROVE  Append(s, e) \in P
  <2>1. Only(Append(s, e), S) = Append(s, e)
    BY <1>2, OnlyAppend
  <2> QED
    BY <2>1
<1>3. \A s \in Seq(T) : s \in P
  <2> HIDE DEF P
  <2> QED
    BY <1>1, <1>2, InductionOnSequences, Zenon
<1> QED
  BY <1>3

(* What is chosen was there, and what was there is chosen. *)
Elements(s) == {s[i] : i \in 1..Len(s)}

LEMMA ElementsAppend ==
  ASSUME NEW T, NEW s \in Seq(T), NEW e \in T
  PROVE  Elements(Append(s, e)) = Elements(s) \cup {e}
<1>1. PICK t : t = Append(s, e)
  OBVIOUS
<1>2. /\ Len(t) = Len(s) + 1 /\ Len(s) \in Nat /\ t[Len(s) + 1] = e
      /\ \A i \in 1..Len(s) : t[i] = s[i]
  BY <1>1, AppendProperties
<1>3. 1..Len(t) = 1..Len(s) \cup {Len(s) + 1}
  BY <1>2
<1> QED
  BY <1>1, <1>2, <1>3 DEF Elements

LEMMA OnlyElements ==
  ASSUME NEW T, NEW S
  PROVE  \A s \in Seq(T) : Elements(Only(s, S)) = Elements(s) \cap S
<1> DEFINE P == {s \in Seq(T) : Elements(Only(s, S)) = Elements(s) \cap S}
<1>1. <<>> \in P
  <2>1. Elements(<<>>) = {}
    BY DEF Elements
  <2> QED
    BY <2>1, OnlyEmpty
<1>2. ASSUME NEW s \in Seq(T), NEW e \in T, s \in P
      PROVE  Append(s, e) \in P
  <2>1. PICK b : b = Only(s, S)
    OBVIOUS
  <2>2. b \in Seq(T) /\ Append(s, e) \in Seq(T) /\ Elements(b) = Elements(s) \cap S
    <3>1. b \in Seq(T)
      BY <2>1, OnlyTyped, Zenon
    <3> QED
      BY <1>2, <2>1, <3>1
  <2>3. Only(Append(s, e), S) = IF e \in S THEN Append(b, e) ELSE b
    BY <2>1, OnlyAppend
  <2>4. /\ Elements(Append(s, e)) = Elements(s) \cup {e}
        /\ Elements(Append(b, e)) = Elements(b) \cup {e}
    BY <2>2, ElementsAppend
  <2>5. Elements(Only(Append(s, e), S)) = Elements(Append(s, e)) \cap S
    BY <2>2, <2>3, <2>4
  <2> QED
    BY <2>2, <2>5
<1>3. \A s \in Seq(T) : s \in P
  <2> HIDE DEF P
  <2> QED
    BY <1>1, <1>2, InductionOnSequences, Zenon
<1> QED
  BY <1>3

-----------------------------------------------------------------------------
(* The contents of the documents, line by line. *)
FullLine == LinesOf({"#", "---", "field", "($x)", "value"})
ContentLine == LinesOf({"---", "field", "($x)", "value"})
FieldLine == LinesOf({"field", "($x)"})

LEMMA LineSets ==
  /\ ContentLine \subseteq Line /\ FullLine \subseteq Line
  /\ \A l \in Line : l.pad \in Seq(White)
  /\ \A l \in Line : l \in FullLine <=> ~Blank(l)
  /\ \A l \in Line : l \in ContentLine <=> ~Blank(l) /\ l.text # "#"
  /\ \A l \in Line : l \in FieldLine <=> l.text \in {"field", "($x)"}
  /\ Line \cap ContentLine = ContentLine /\ Line \cap FullLine = FullLine
BY DEF Line, LinesOf, FullLine, ContentLine, FieldLine, Blank

GrowsLast(T, ss, s, l) == LastGrown(Append(ss, s), l) = Append(ss, Append(s, l))

LEMMA LastAppended ==
  ASSUME NEW T, NEW ss \in Seq(Seq(T)), NEW s \in Seq(T), NEW l \in T
  PROVE  GrowsLast(T, ss, s, l)
<1> SUFFICES ASSUME NEW t, t = Append(ss, s)
             PROVE  LastGrown(t, l) = Append(ss, Append(s, l))
  BY DEF GrowsLast
<1>1. Len(t) = Len(ss) + 1 /\ t[Len(t)] = s
  BY AppendProperties
<1>2. PICK x : x = Append(s, l)
  OBVIOUS
<1>3. x \in Seq(T)
  BY <1>2, AppendProperties
<1>4. WithLast(t, x) = Append(ss, x)
  BY <1>3, LastReplaced, Zenon
<1>5. LastGrown(t, l) = WithLast(t, x)
  BY <1>1, <1>2 DEF LastGrown, WithLast
<1> QED
  BY <1>2, <1>4, <1>5

LEMMA DocsSplit ==
  ASSUME NEW T, NEW docs \in Docs(T)
  PROVE  \E ss \in Seq(Seq(T)), s \in Seq(T) : docs = Append(ss, s)
<1>1. docs \in Seq(Seq(T)) /\ docs # <<>>
  BY DEF Docs
<1> QED
  BY <1>1, SequenceEmptyOrAppend, Zenon

ContentOf == [d \in Seq(Line) |-> Content(d)]
Contents(s) == Image(ContentOf, Documents(s))

AddContent(cs, l) ==
    IF Separates(l) THEN Append(cs, <<>>)
    ELSE IF l \in ContentLine THEN LastGrown(cs, l)
    ELSE cs

LEMMA ContentTyped ==
  /\ ContentOf \in [Seq(Line) -> Seq(ContentLine)]
  /\ \A d \in Seq(Line) : Content(d) \in Seq(ContentLine) /\ Content(d) \in Seq(Line)
  /\ Content(<<>>) = <<>>
<1>1. ASSUME NEW d \in Seq(Line)
      PROVE  Content(d) \in Seq(ContentLine) /\ Content(d) \in Seq(Line)
  <2>1. PICK S : S = ContentLine
    OBVIOUS
  <2>2. Content(d) = Only(d, S)
    BY <2>1 DEF Content, ContentLine
  <2>3. Only(d, S) \in Seq(Line \cap S) /\ Only(d, S) \in Seq(Line)
    BY OnlyTyped, Zenon
  <2> QED
    BY <2>1, <2>2, <2>3, LineSets
<1>2. Content(<<>>) = <<>>
  BY OnlyEmpty DEF Content
<1> QED
  BY <1>1, <1>2 DEF ContentOf

LEMMA ContentAppend ==
  ASSUME NEW d \in Seq(Line), NEW l \in Line
  PROVE  Content(Append(d, l)) = IF l \in ContentLine THEN Append(Content(d), l) ELSE Content(d)
  BY OnlyAppend DEF Content, ContentLine

LEMMA ContentsEmpty == Contents(<<>>) = << <<>> >>
<1>1. Documents(<<>>) = << <<>> >>
  BY DocumentsEmpty
<1>2. <<>> \in Seq(Line) /\ ContentOf[<<>>] = <<>>
  BY ContentTyped DEF ContentOf
<1>3. Image(ContentOf, << <<>> >>) = << <<>> >>
  BY <1>2 DEF Image
<1> QED
  BY <1>1, <1>3 DEF Contents

LEMMA ContentsTyped ==
  ASSUME NEW s \in Seq(Line)
  PROVE  Contents(s) \in Docs(ContentLine)
<1>1. PICK docs : docs = Documents(s)
  OBVIOUS
<1>2. docs \in Docs(Line)
  BY <1>1, DocumentsTyped, Zenon
<1>3. docs \in Seq(Seq(Line)) /\ Len(docs) # 0
  BY <1>2 DEF Docs
<1>4. Image(ContentOf, docs) \in Seq(Seq(ContentLine)) /\ Len(Image(ContentOf, docs)) = Len(docs)
  <2>1. docs \in Seq(Seq(Line))
    BY <1>3
  <2>2. ContentOf \in [Seq(Line) -> Seq(ContentLine)]
    BY ContentTyped
  <2>3. Maps(Seq(Line), Seq(ContentLine), ContentOf, docs)
    BY <2>1, <2>2, ImageMaps
  <2> QED
    BY <2>3 DEF Maps
<1> QED
  BY <1>1, <1>3, <1>4 DEF Contents, Docs

ContentsGrow(s, l) == Contents(Append(s, l)) = AddContent(Contents(s), l)

LEMMA ContentsAppend ==
  ASSUME NEW s \in Seq(Line), NEW l \in Line
  PROVE  ContentsGrow(s, l)
<1> SUFFICES Contents(Append(s, l)) = AddContent(Contents(s), l)
  BY DEF ContentsGrow
<1>1. PICK docs, cs : docs = Documents(s) /\ cs = Contents(s)
  OBVIOUS
<1>2. docs \in Docs(Line)
  BY <1>1, DocumentsTyped, Zenon
<1>3. PICK ss \in Seq(Seq(Line)), d \in Seq(Line) : docs = Append(ss, d)
  BY <1>2, DocsSplit, Zenon
<1>4. PICK f, c : f = Image(ContentOf, ss) /\ c = Content(d)
  OBVIOUS
<1>5. c \in Seq(ContentLine) /\ c = ContentOf[d] /\ ContentOf \in [Seq(Line) -> Seq(ContentLine)]
  BY <1>4, ContentTyped DEF ContentOf
<1>6. f \in Seq(Seq(ContentLine))
  <2>1. ContentOf \in [Seq(Line) -> Seq(ContentLine)]
    BY <1>5
  <2>2. Maps(Seq(Line), Seq(ContentLine), ContentOf, ss)
    BY <2>1, ImageMaps
  <2> QED
    BY <1>4, <2>2 DEF Maps
<1>7. cs = Append(f, c)
  <2>1. MapsOn(Seq(Line), Seq(ContentLine), ContentOf, ss, d)
    BY <1>5, ImageMapsOn
  <2>2. Image(ContentOf, docs) = Append(f, c)
    BY <1>3, <1>4, <1>5, <2>1 DEF MapsOn
  <2> QED
    BY <1>1, <2>2 DEF Contents
<1>8. Documents(Append(s, l)) = AddLine(docs, l)
  BY <1>1, DocumentsAppend
<1>9. CASE Separates(l)
  <2>1. AddLine(docs, l) = Append(docs, <<>>) /\ AddContent(cs, l) = Append(cs, <<>>)
    BY <1>9 DEF AddLine, AddContent
  <2>2. docs \in Seq(Seq(Line)) /\ <<>> \in Seq(Line) /\ ContentOf[<<>>] = <<>>
    BY <1>2, ContentTyped DEF ContentOf, Docs
  <2>3. Image(ContentOf, Append(docs, <<>>)) = Append(Image(ContentOf, docs), ContentOf[<<>>])
    BY <1>5, <2>2, ImageAppend, Zenon
  <2> QED
    BY <1>1, <1>8, <2>1, <2>2, <2>3 DEF Contents
<1>10. CASE ~Separates(l)
  <2>1. AddLine(docs, l) = Append(ss, Append(d, l))
    <3>1. AddLine(docs, l) = LastGrown(docs, l)
      BY <1>10 DEF AddLine, LastGrown
    <3>2. LastGrown(Append(ss, d), l) = Append(ss, Append(d, l))
      <4>1. GrowsLast(Line, ss, d, l)
        BY LastAppended
      <4> QED
        BY <4>1 DEF GrowsLast
    <3> QED
      BY <1>3, <3>1, <3>2
  <2>2. PICK e : e = Append(d, l)
    OBVIOUS
  <2>3. e \in Seq(Line) /\ ContentOf[e] = Content(e)
    BY <2>2, AppendProperties DEF ContentOf
  <2>4. Image(ContentOf, Append(ss, e)) = Append(f, Content(e))
    <3>0. MapsOn(Seq(Line), Seq(ContentLine), ContentOf, ss, e)
      BY <1>5, <2>3, ImageMapsOn
    <3>1. Image(ContentOf, Append(ss, e)) = Append(Image(ContentOf, ss), ContentOf[e])
      BY <3>0 DEF MapsOn
    <3> QED
      BY <1>4, <2>3, <3>1
  <2>5. Content(e) = IF l \in ContentLine THEN Append(c, l) ELSE c
    BY <1>4, <2>2, ContentAppend
  <2>6. l \in ContentLine => LastGrown(cs, l) = Append(f, Append(c, l))
    <3> SUFFICES ASSUME l \in ContentLine
                 PROVE  LastGrown(Append(f, c), l) = Append(f, Append(c, l))
      BY <1>7
    <3>1. GrowsLast(ContentLine, f, c, l)
      BY <1>5, <1>6, LastAppended
    <3> QED
      BY <3>1 DEF GrowsLast
  <2> QED
    BY <1>1, <1>7, <1>8, <1>10, <2>1, <2>2, <2>4, <2>5, <2>6 DEF Contents, AddContent
<1> QED
  BY <1>9, <1>10

(* Blank lines have no part in it. *)
LEMMA BlanksLeaveNoTrace == \A s \in Seq(Line) : Contents(NonBlank(s)) = Contents(s)
<1> DEFINE P == {s \in Seq(Line) : Contents(NonBlank(s)) = Contents(s)}
<1>1. <<>> \in P
  BY OnlyEmpty DEF NonBlank
<1>2. ASSUME NEW s \in Seq(Line), NEW l \in Line, s \in P
      PROVE  Append(s, l) \in P
  <2>1. PICK b : b = NonBlank(s)
    OBVIOUS
  <2>2. b \in Seq(Line) /\ Append(s, l) \in Seq(Line) /\ Contents(b) = Contents(s)
    <3>1. b \in Seq(Line)
      BY <2>1, OnlyTyped DEF NonBlank
    <3> QED
      BY <1>2, <2>1, <3>1
  <2>3. NonBlank(Append(s, l)) = IF l \in FullLine THEN Append(b, l) ELSE b
    BY <2>1, OnlyAppend DEF NonBlank, FullLine
  <2>4. /\ Contents(Append(s, l)) = AddContent(Contents(s), l)
        /\ Contents(Append(b, l)) = AddContent(Contents(b), l)
    <3>1. ContentsGrow(s, l) /\ ContentsGrow(b, l)
      BY <2>2, ContentsAppend
    <3> QED
      BY <3>1 DEF ContentsGrow
  <2>5. l \notin FullLine => AddContent(Contents(s), l) = Contents(s)
    BY LineSets DEF AddContent, Separates, Blank
  <2>6. Contents(NonBlank(Append(s, l))) = Contents(Append(s, l))
    BY <2>2, <2>3, <2>4, <2>5
  <2> QED
    BY <2>2, <2>6
<1>3. \A s \in Seq(Line) : s \in P
  <2> HIDE DEF P
  <2> QED
    BY <1>1, <1>2, InductionOnSequences, Zenon
<1> QED
  BY <1>3

(* What YAML and SplitYAML make of a text depends on its contents. *)
Kept(s) == Only(Contents(s), Seq(Line) \ {<<>>})
Trees1(kept) == [i \in DOMAIN kept |-> Tree(kept[i])]
SpacesOnly(s) == \A l \in Elements(s) : ~Blank(l) => l.pad \in Seq({"space"})

LEMMA ByContents ==
  ASSUME NEW s \in Seq(Line)
  PROVE  /\ SplitYAML(s) = Trees1(Kept(s))
         /\ Parses(s) <=> SpacesOnly(s)
                          /\ \A i \in DOMAIN Contents(s) : WellFormed(Contents(s)[i])
<1>1. PICK docs : docs = Documents(s)
  OBVIOUS
<1>2. docs \in Seq(Seq(Line))
  BY <1>1, DocumentsTyped DEF Docs
<1>3. /\ Contents(s) = [i \in DOMAIN docs |-> Content(docs[i])]
      /\ DOMAIN Contents(s) = DOMAIN docs
      /\ \A i \in DOMAIN docs : Contents(s)[i] = Content(docs[i])
  BY <1>1, <1>2 DEF Contents, Image, ContentOf
<1>4. SplitYAML(s) = Trees1(Kept(s))
  BY <1>1, <1>3 DEF SplitYAML, Trees1, Kept
<1>5. SpacesOnly(s) <=> \A i \in DOMAIN s : ~Blank(s[i]) => s[i].pad \in Seq({"space"})
  BY DEF SpacesOnly, Elements
<1>6. Parses(s) <=> /\ SpacesOnly(s)
                    /\ \A i \in DOMAIN docs : WellFormed(Content(docs[i]))
  BY <1>1, <1>5 DEF Parses
<1> QED
  BY <1>3, <1>4, <1>6

LEMMA BlanksIrrelevant ==
  ASSUME NEW s \in Seq(Line)
  PROVE  /\ NonBlank(s) \in Seq(Line)
         /\ Parses(NonBlank(s)) <=> Parses(s)
         /\ SplitYAML(NonBlank(s)) = SplitYAML(s)
<1>1. PICK b : b = NonBlank(s)
  OBVIOUS
<1>2. b \in Seq(Line)
  BY <1>1, OnlyTyped DEF NonBlank
<1>3. Contents(b) = Contents(s)
  BY <1>1, BlanksLeaveNoTrace
<1>4. SpacesOnly(b) <=> SpacesOnly(s)
  <2>1. Elements(b) = Elements(s) \cap FullLine
    BY <1>1, OnlyElements DEF NonBlank, FullLine
  <2>2. \A l \in Elements(s) : l \in Line
    BY DEF Elements
  <2> QED
    BY <2>1, <2>2, LineSets DEF SpacesOnly
<1>5. Kept(b) = Kept(s)
  BY <1>3 DEF Kept
<1> QED
  BY <1>1, <1>2, <1>3, <1>4, <1>5, ByContents

-----------------------------------------------------------------------------
(* White space put before every line is what the lines have in common.     *)
LEMMA PrefixOfConcat ==
  ASSUME NEW T, NEW w \in Seq(T), NEW p \in Seq(T)
  PROVE  /\ w \o p \in Seq(T)
         /\ IsPrefix(w, w \o p)
         /\ SubSeq(w \o p, Len(w) + 1, Len(w \o p)) = p
<1>1. PICK v : v = w \o p
  OBVIOUS
<1>2. /\ v \in Seq(T) /\ Len(v) = Len(w) + Len(p) /\ Len(w) \in Nat /\ Len(p) \in Nat
      /\ \A i \in 1..Len(w) : v[i] = w[i]
      /\ \A i \in 1..Len(p) : v[Len(w) + i] = p[i]
  BY <1>1, ConcatProperties
<1>3. SubSeq(w, 1, Len(w)) = SubSeq(v, 1, Len(w))
  <2>1. PICK a, b : a = SubSeq(w, 1, Len(w)) /\ b = SubSeq(v, 1, Len(w))
    OBVIOUS
  <2>2. /\ a \in Seq(T) /\ b \in Seq(T) /\ Len(a) = Len(w) /\ Len(b) = Len(w)
        /\ \A i \in 1..Len(w) : a[i] = w[i] /\ b[i] = v[i]
    BY <1>2, <2>1
  <2>3. a = b
    BY <1>2, <2>2, SeqEqual
  <2> QED
    BY <2>1, <2>3
<1>4. SubSeq(v, Len(w) + 1, Len(v)) = p
  <2>1. PICK a : a = SubSeq(v, Len(w) + 1, Len(v))
    OBVIOUS
  <2>2. /\ a \in Seq(T) /\ Len(a) = Len(p)
        /\ \A i \in 1..Len(p) : a[i] = v[Len(w) + i]
    BY <1>2, <2>1
  <2>3. a = p
    BY <1>2, <2>2, SeqEqual
  <2> QED
    BY <2>1, <2>3
<1> QED
  BY <1>1, <1>2, <1>3, <1>4 DEF IsPrefix

LEMMA LongestIs ==
  ASSUME NEW T, NEW S \in SUBSET Seq(T), NEW w \in S, \A t \in S : IsPrefix(w, t)
  PROVE  LongestCommonPrefix(S) = w
<1> DEFINE C == CommonPrefixes(S)
           Longest(l) == \A o \in C : Len(o) <= Len(l)
<1>1. w \in Seq(T) /\ SubSeq(w, 1, Len(w)) = w /\ Len(w) \in Nat
  BY SubSeqFull
<1>2. w \in C
  <2>1. w \in Prefixes(w)
    <3>1. Prefixes(w) = {SubSeq(w, 1, n) : n \in 0..Len(w)}
      BY DEF Prefixes
    <3>2. Len(w) \in 0..Len(w)
      BY <1>1
    <3>3. SubSeq(w, 1, Len(w)) \in Prefixes(w)
      BY <3>1, <3>2, Zenon
    <3> QED
      BY <1>1, <3>3
  <2> QED
    BY <2>1 DEF CommonPrefixes
<1>3. \A o \in C : o \in Seq(T) /\ IsPrefix(o, w)
  <2> SUFFICES ASSUME NEW o \in C PROVE o \in Seq(T) /\ IsPrefix(o, w)
    OBVIOUS
  <2>1. PICK t \in S : o \in Prefixes(t)
    BY DEF CommonPrefixes
  <2>2. PICK n \in 0..Len(t) : o = SubSeq(t, 1, n)
    BY <2>1 DEF Prefixes
  <2>3. o \in Seq(T)
    BY <2>2
  <2> QED
    BY <2>3 DEF CommonPrefixes
<1>4. Longest(w)
  BY <1>3 DEF IsPrefix
<1>5. PICK l \in C : Longest(l) /\ LongestCommonPrefix(S) = l
  <2>1. LongestCommonPrefix(S) = CHOOSE l \in C : Longest(l)
    BY DEF LongestCommonPrefix
  <2> HIDE DEF C, Longest
  <2> QED
    BY <1>2, <1>4, <2>1
<1>6. l \in Seq(T) /\ IsPrefix(l, w) /\ Len(w) <= Len(l)
  BY <1>2, <1>3, <1>5
<1>7. Len(l) = Len(w) /\ SubSeq(l, 1, Len(l)) = SubSeq(w, 1, Len(l))
  BY <1>1, <1>6 DEF IsPrefix
<1>8. SubSeq(l, 1, Len(l)) = l
  BY <1>6, SubSeqFull
<1> QED
  BY <1>1, <1>5, <1>7, <1>8

IndentOf(w) == [l \in Line |-> [l EXCEPT !.pad = w \o @]]
Indented(b, w) == Image(IndentOf(w), b)

LEMMA IndentOfTyped ==
  ASSUME NEW w \in Seq(White)
  PROVE  /\ IndentOf(w) \in [Line -> Line]
         /\ \A l \in Line : /\ IndentOf(w)[l].text = l.text
                            /\ IndentOf(w)[l].pad = w \o l.pad
                            /\ TrimPrefix(IndentOf(w)[l], w) = l
<1>1. ASSUME NEW l \in Line
      PROVE  /\ IndentOf(w)[l] \in Line
             /\ IndentOf(w)[l].text = l.text
             /\ IndentOf(w)[l].pad = w \o l.pad
             /\ TrimPrefix(IndentOf(w)[l], w) = l
  <2> PICK A : Line = LinesOf(A)
    BY DEF Line
  <2>1. l.pad \in Seq(White) /\ l.text \in A /\ l = [pad |-> l.pad, text |-> l.text]
    BY DEF LinesOf
  <2>2. /\ w \o l.pad \in Seq(White) /\ IsPrefix(w, w \o l.pad)
        /\ SubSeq(w \o l.pad, Len(w) + 1, Len(w \o l.pad)) = l.pad
    BY <2>1, PrefixOfConcat, Zenon
  <2>3. IndentOf(w)[l] = [pad |-> w \o l.pad, text |-> l.text]
    BY <2>1 DEF IndentOf
  <2>4. IndentOf(w)[l] \in Line
    BY <2>1, <2>2, <2>3 DEF LinesOf
  <2>5. TrimPrefix([pad |-> w \o l.pad, text |-> l.text], w) = [pad |-> l.pad, text |-> l.text]
    BY <2>2 DEF TrimPrefix
  <2> QED
    BY <2>1, <2>3, <2>4, <2>5
<1> QED
  BY <1>1 DEF IndentOf

LEMMA TextIndented ==
  ASSUME body \in Seq(Line)
  PROVE  Text = Indented(body, indent)
<1>1. \A i \in DOMAIN body : body[i] \in Line
  OBVIOUS
<1> QED
  BY <1>1 DEF Text, Indented, Image, IndentOf

(* A template with a line that is not indented is read as without the      *)
(* white space before all of it.                                           *)
LEMMA Deindented ==
  ASSUME NEW b \in Seq(Line), NEW w \in Seq(White),
         \E i \in DOMAIN b : ~Blank(b[i]) /\ b[i].pad = <<>>
  PROVE  DeindentYAML(Indented(b, w)) = NonBlank(b)
<1>1. PICK g, kept, all : g = IndentOf(w) /\ kept = NonBlank(b) /\ all = Image(g, kept)
  OBVIOUS
<1>2. /\ g \in [Line -> Line]
      /\ \A l \in Line : g[l].text = l.text /\ g[l].pad = w \o l.pad /\ TrimPrefix(g[l], w) = l
  BY <1>1, IndentOfTyped
<1>3. kept \in Seq(Line) /\ all \in Seq(Line) /\ Len(all) = Len(kept)
  <2>1. kept \in Seq(Line)
    BY <1>1, OnlyTyped DEF NonBlank
  <2>2. Maps(Line, Line, g, kept)
    BY <1>2, <2>1, ImageMaps
  <2> QED
    BY <1>1, <2>1, <2>2 DEF Maps
<1>4. NonBlank(Indented(b, w)) = all
  <2>1. \A l \in Line : g[l] \in FullLine <=> l \in FullLine
    <3>1. \A l \in Line : g[l] \in Line
      BY <1>2
    <3>2. \A l \in Line : Blank(g[l]) <=> Blank(l)
      BY <1>2, Zenon DEF Blank
    <3> QED
      BY <3>1, <3>2, LineSets
  <2>2. Chooses(Line, Line, g, FullLine, FullLine)
    BY <1>2, <2>1, OnlyImage
  <2>3. Only(Image(g, b), FullLine) = Image(g, Only(b, FullLine))
    BY <2>2 DEF Chooses
  <2> QED
    BY <1>1, <2>3 DEF NonBlank, FullLine, Indented
<1>5. \A i \in 1..Len(kept) : kept[i] \in Line /\ all[i] = g[kept[i]]
  BY <1>1, <1>3 DEF Image
<1>6. PICK i \in 1..Len(kept) : kept[i].pad = <<>>
  <2>1. PICK j \in DOMAIN b : ~Blank(b[j]) /\ b[j].pad = <<>>
    OBVIOUS
  <2>2. b[j] \in Line /\ b[j] \in Elements(b)
    BY <2>1 DEF Elements
  <2>4. b[j] \in FullLine
    BY <2>1, <2>2, LineSets
  <2>3. Elements(kept) = Elements(b) \cap FullLine
    BY <1>1, OnlyElements DEF NonBlank, FullLine
  <2> QED
    BY <2>1, <2>2, <2>3, <2>4 DEF Elements
<1>7. CommonPrefix(Indented(b, w)) = w
  <2> DEFINE S == {all[j].pad : j \in DOMAIN all}
  <2>1. CommonPrefix(Indented(b, w)) = LongestCommonPrefix(S)
    <3>1. all # <<>>
      BY <1>3, <1>6
    <3> QED
      BY <1>4, <3>1 DEF CommonPrefix
  <2>2. \A j \in DOMAIN all : /\ all[j].pad = w \o kept[j].pad
                              /\ all[j].pad \in Seq(White)
                              /\ IsPrefix(w, all[j].pad)
    <3> SUFFICES ASSUME NEW j \in DOMAIN all
                 PROVE  /\ all[j].pad = w \o kept[j].pad
                        /\ all[j].pad \in Seq(White)
                        /\ IsPrefix(w, all[j].pad)
      OBVIOUS
    <3>0. j \in 1..Len(kept)
      BY <1>3
    <3>1. all[j].pad = w \o kept[j].pad /\ kept[j].pad \in Seq(White)
      <4>1. kept[j] \in Line /\ all[j] = g[kept[j]]
        BY <1>5, <3>0
      <4> QED
        BY <1>2, <4>1, LineSets
    <3>2. w \o kept[j].pad \in Seq(White) /\ IsPrefix(w, w \o kept[j].pad)
      BY <3>1, PrefixOfConcat, Zenon
    <3> QED
      BY <3>1, <3>2
  <2>3. S \in SUBSET Seq(White) /\ \A t \in S : IsPrefix(w, t)
    BY <2>2
  <2>4. w \in S
    <3>1. i \in DOMAIN all /\ all[i].pad = w \o <<>>
      <4>1. i \in DOMAIN all
        BY <1>3
      <4>2. all[i].pad = w \o kept[i].pad
        BY <2>2, <4>1
      <4> QED
        BY <1>6, <4>1, <4>2
    <3>2. w \o <<>> = w
      BY ConcatEmptySeq
    <3> QED
      BY <3>1, <3>2
  <2> HIDE DEF S
  <2> QED
    BY <2>1, <2>3, <2>4, LongestIs, Zenon
<1>8. DeindentYAML(Indented(b, w)) = [j \in DOMAIN all |-> TrimPrefix(all[j], w)]
  BY <1>4, <1>7 DEF DeindentYAML
<1>9. \A j \in DOMAIN all : TrimPrefix(all[j], w) = kept[j]
  BY <1>2, <1>3, <1>5
<1>10. kept = [j \in DOMAIN all |-> TrimPrefix(all[j], w)]
  <2>1. kept = [j \in DOMAIN all |-> kept[j]]
    BY <1>3
  <2> QED
    BY <1>9, <2>1, Zenon
<1> QED
  BY <1>1, <1>8, <1>10

-----------------------------------------------------------------------------
(* What SplitYAML returns: documents that are not empty. *)
LEMMA TreeTyped ==
  ASSUME NEW d \in Seq(ContentLine)
  PROVE  /\ Tree(d) \in Trees /\ Len(Tree(d)) = Len(d)
         /\ \A i \in 1..Len(d) : /\ Tree(d)[i].depth = Cardinality(Under(d, i))
                                 /\ Tree(d)[i].text = d[i].text
                                 /\ Cardinality(Under(d, i)) \in Nat
<1>1. ASSUME NEW i \in 1..Len(d)
      PROVE  Cardinality(Under(d, i)) \in Nat
  <2>1. IsFiniteSet(1..(i - 1)) /\ Under(d, i) \subseteq 1..(i - 1)
    BY FS_Interval DEF Under
  <2> QED
    BY <2>1, FS_Subset, FS_CardinalityType
<1>2. \A i \in 1..Len(d) : d[i].text \in {"---", "field", "($x)", "value"}
  <2>1. \A i \in 1..Len(d) : d[i] \in ContentLine
    OBVIOUS
  <2> QED
    BY <2>1 DEF ContentLine, LinesOf
<1>3. Tree(d) = [i \in 1..Len(d) |-> [depth |-> Cardinality(Under(d, i)), text |-> d[i].text]]
  BY DEF Tree
<1> QED
  BY <1>1, <1>2, <1>3 DEF Trees

KeptDocs == Seq(ContentLine) \ {<<>>}

LEMMA KeptTyped ==
  ASSUME NEW s \in Seq(Line)
  PROVE  Kept(s) \in Seq(KeptDocs)
<1>1. Contents(s) \in Seq(Seq(ContentLine))
  BY ContentsTyped DEF Docs
<1>2. PICK T, S, c : T = Seq(ContentLine) /\ S = Seq(Line) \ {<<>>} /\ c = Contents(s)
  OBVIOUS
<1>3. c \in Seq(T)
  BY <1>1, <1>2
<1>4. Only(c, S) \in Seq(T \cap S)
  BY <1>3, OnlyTyped, Zenon
<1>5. T \cap S \subseteq KeptDocs
  BY <1>2 DEF KeptDocs
<1>6. Only(c, S) \in Seq(KeptDocs)
  BY <1>4, <1>5
<1> QED
  BY <1>2, <1>6 DEF Kept

LEMMA SplitTyped ==
  ASSUME NEW s \in Seq(Line)
  PROVE  /\ SplitYAML(s) \in Seq(Trees) /\ Len(SplitYAML(s)) = Len(Kept(s))
         /\ \A i \in DOMAIN SplitYAML(s) : SplitYAML(s)[i] # <<>>
<1>1. PICK kept : kept = Kept(s)
  OBVIOUS
<1>2. kept \in Seq(KeptDocs) /\ SplitYAML(s) = [i \in DOMAIN kept |-> Tree(kept[i])]
  BY <1>1, KeptTyped, ByContents DEF Trees1
<1>3. \A i \in 1..Len(kept) : kept[i] \in Seq(ContentLine) /\ kept[i] # <<>>
  BY <1>2 DEF KeptDocs
<1>4. \A i \in 1..Len(kept) : Tree(kept[i]) \in Trees /\ Tree(kept[i]) # <<>>
  BY <1>3, TreeTyped
<1>5. Len(kept) \in Nat /\ SplitYAML(s) = [i \in 1..Len(kept) |-> Tree(kept[i])]
  BY <1>2
<1> QED
  BY <1>1, <1>4, <1>5

-----------------------------------------------------------------------------
(* The inductive invariant: the template is what sanitizing made of the    *)
(* text, the objects rendered are the template's, and the caller's objects *)
(* and the output are theirs once the call succeeds.                       *)
Processed ==
    LET clean == DeindentYAML(Text)
    IN  IF Parses(clean) /\ SplitYAML(clean) # <<>>
        THEN outcome # "args" /\ template = SplitYAML(clean)
        ELSE outcome = "args" /\ template = <<>>

AllRendered == [i \in DOMAIN template |-> RenderTree(template[i])]

Blanks == [i \in 1..call.slots |-> Untouched]

Saved ==
    IF call.slots = 0 THEN rendered
    ELSE [i \in 1..call.slots |->
             IF i <= Len(rendered) /\ (call.badSlot = 0 \/ i < call.badSlot)
             THEN rendered[i] ELSE Untouched]

Chunk(i) ==
    (IF i > 1 THEN <<Bar>> ELSE <<>>) \o Printed(rendered[i]) \o <<EmptyLine>>
Written == FlattenSeq([i \in DOMAIN rendered |-> Chunk(i)])

TInv ==
    /\ body \in Bodies /\ indent \in Indents /\ call \in Calls
    /\ pc \in {"process", "render", "save", "done"}
    /\ outcome \in {"none", "ok", "args", "bindings", "template", "length", "save"}
    /\ pc # "done" => outcome = "none"
    /\ pc = "process" => template = <<>>
    /\ pc # "process" => Processed
    /\ pc \in {"process", "render"} => rendered = <<>>
    /\ rendered \in {<<>>, AllRendered}
    /\ pc = "save" \/ outcome \in {"ok", "save"} =>
          rendered = AllRendered /\ Renders /\ call.slots \in {0, Len(template)}
    /\ IF outcome \in {"ok", "save"} /\ call.kind # "string"
       THEN objects = Saved /\ outcome = (IF call.badSlot = 0 THEN "ok" ELSE "save")
       ELSE objects = Blanks
    /\ output = IF outcome = "ok" /\ call.kind = "string" THEN Written ELSE <<>>

-----------------------------------------------------------------------------
LEMMA TInitInv == Init => TInv
<1> SUFFICES ASSUME Init PROVE TInv
  OBVIOUS
<1>1. objects = Blanks
  BY DEF Init, Blanks
<1>2. rendered \in {<<>>, AllRendered}
  BY DEF Init
<1> QED
  BY <1>1, <1>2 DEF Init, TInv

LEMMA TNextInv == TInv /\ [Next]_vars => TInv'
<1> SUFFICES ASSUME TInv, [Next]_vars PROVE TInv'
  OBVIOUS
<1> USE DEF TInv
<1>1. CASE ProcessTemplate
  <2>1. /\ body' = body /\ indent' = indent /\ call' = call /\ rendered' = rendered
        /\ objects' = objects /\ output' = output /\ pc = "process"
    BY <1>1 DEF ProcessTemplate
  <2>2. Text' = Text /\ Blanks' = Blanks
    BY <2>1 DEF Text, Blanks
  <2>3. PICK clean : clean = DeindentYAML(Text)
    OBVIOUS
  <2>4. IF Parses(clean) /\ SplitYAML(clean) # <<>>
        THEN pc' = "render" /\ template' = SplitYAML(clean) /\ outcome' = outcome
        ELSE pc' = "done" /\ outcome' = "args" /\ template' = template
    BY <1>1, <2>3 DEF ProcessTemplate, Finish
  <2>5. Processed'
    BY <2>1, <2>2, <2>3, <2>4 DEF Processed
  <2>6. rendered' = <<>> /\ output' = <<>> /\ objects' = Blanks' /\ pc' # "process"
        /\ pc' \in {"render", "done"}
    BY <2>1, <2>2, <2>4
  <2> QED
    BY <2>1, <2>4, <2>5, <2>6
<1>2. CASE Render
  <2>1. /\ body' = body /\ indent' = indent /\ call' = call /\ template' = template
        /\ objects' = objects /\ output' = output /\ pc = "render" /\ rendered = <<>>
        /\ outcome = "none"
    BY <1>2 DEF Render
  <2>2. /\ Text' = Text /\ Blanks' = Blanks /\ AllRendered' = AllRendered
        /\ (Renders' <=> Renders)
    BY <2>1 DEF Text, Blanks, AllRendered, Renders
  <2>3. \/ /\ pc' = "done" /\ outcome' \in {"bindings", "template"} /\ rendered' = <<>>
        \/ /\ pc' = "done" /\ outcome' = "length" /\ rendered' = AllRendered
        \/ /\ pc' = "save" /\ outcome' = "none" /\ rendered' = AllRendered
           /\ Renders /\ call.slots \in {0, Len(template)}
    <3>1. CASE call.binding = "bad" \/ ~Renders
      BY <1>2, <2>1, <3>1 DEF Render, Finish
    <3>2. CASE call.binding # "bad" /\ Renders
      BY <1>2, <2>1, <3>2 DEF Render, Finish, AllRendered
    <3> QED
      BY <3>1, <3>2
  <2>4. Processed'
    BY <2>1, <2>2, <2>3 DEF Processed
  <2>5. objects' = Blanks' /\ output' = <<>>
    BY <2>1, <2>2
  <2> QED
    BY <2>1, <2>2, <2>3, <2>4, <2>5
<1>3. CASE Save \/ RenderToString
  <2>1. /\ body' = body /\ indent' = indent /\ call' = call /\ template' = template
        /\ rendered' = rendered /\ pc = "save" /\ pc' = "done" /\ outcome = "none"
        /\ rendered = AllRendered /\ Renders /\ call.slots \in {0, Len(template)}
        /\ objects = Blanks /\ output = <<>>
    BY <1>3 DEF Save, RenderToString, Finish
  <2>2. /\ Text' = Text /\ Blanks' = Blanks /\ AllRendered' = AllRendered
        /\ (Renders' <=> Renders) /\ Saved' = Saved /\ Written' = Written
    BY <2>1 DEF Text, Blanks, AllRendered, Renders, Saved, Written, Chunk
  <2>3. \/ /\ call.kind # "string" /\ objects' = Saved /\ output' = <<>>
           /\ outcome' = (IF call.badSlot = 0 THEN "ok" ELSE "save")
        \/ /\ call.kind = "string" /\ objects' = Blanks /\ output' = Written
           /\ outcome' = "ok"
    <3>1. CASE Save
      <4>1. DOMAIN objects = 1..call.slots
        BY <2>1 DEF Blanks
      <4>2. objects' = Saved
        BY <3>1, <4>1 DEF Save, Saved
      <4> QED
        BY <2>1, <3>1, <4>2 DEF Save, Finish
    <3>2. CASE RenderToString
      BY <2>1, <3>2 DEF RenderToString, Finish, Written, Chunk
    <3> QED
      BY <1>3, <3>1, <3>2
  <2>4. Processed'
    BY <2>1, <2>2, <2>3 DEF Processed
  <2> QED
    BY <2>1, <2>2, <2>3, <2>4
<1>4. CASE UNCHANGED vars
  <2>1. /\ Text' = Text /\ Blanks' = Blanks /\ AllRendered' = AllRendered
        /\ (Renders' <=> Renders) /\ Saved' = Saved /\ Written' = Written
    BY <1>4 DEF vars, Text, Blanks, AllRendered, Renders, Saved, Written, Chunk
  <2>2. Processed' <=> Processed
    BY <1>4, <2>1 DEF vars, Processed
  <2> QED
    BY <1>4, <2>1, <2>2 DEF vars
<1> QED
  BY <1>1, <1>2, <1>3, <1>4 DEF Next

LEMMA TemplatesInductive == Spec => []TInv
BY TInitInv, TNextInv, PTL DEF Spec

-----------------------------------------------------------------------------
(* What the invariant says of the state. *)
LEMMA Bodies1 ==
  ASSUME TInv
  PROVE  body \in Seq(Line) /\ indent \in Seq(White) /\ Text \in Seq(Line)
<1>1. body \in Seq(Line) /\ indent \in Seq(White)
  BY TemplatesAssumption DEF TInv
<1>2. Text = Image(IndentOf(indent), body)
  BY <1>1, TextIndented DEF Indented
<1>3. Maps(Line, Line, IndentOf(indent), body)
  BY <1>1, IndentOfTyped, ImageMaps
<1> QED
  BY <1>1, <1>2, <1>3 DEF Maps

LEMMA DeindentTyped ==
  ASSUME NEW s \in Seq(Line)
  PROVE  DeindentYAML(s) \in Seq(Line)
<1>1. PICK kept, prefix : kept = NonBlank(s) /\ prefix = CommonPrefix(s)
  OBVIOUS
<1>2. kept \in Seq(Line)
  BY <1>1, OnlyTyped DEF NonBlank
<1>3. ASSUME NEW l \in Line PROVE TrimPrefix(l, prefix) \in Line
  <2> PICK A : Line = LinesOf(A)
    BY DEF Line
  <2>1. l.pad \in Seq(White) /\ l.text \in A /\ l = [pad |-> l.pad, text |-> l.text]
    BY DEF LinesOf
  <2>2. CASE ~IsPrefix(prefix, l.pad)
    BY <2>2 DEF TrimPrefix
  <2>3. CASE IsPrefix(prefix, l.pad)
    <3>1. PICK p : p = SubSeq(l.pad, Len(prefix) + 1, Len(l.pad))
      OBVIOUS
    <3>2. TrimPrefix(l, prefix) = [pad |-> p, text |-> l.text]
      BY <2>1, <2>3, <3>1 DEF TrimPrefix
    <3>3. p \in Seq(White)
      BY <2>1, <2>3, <3>1 DEF IsPrefix
    <3> QED
      BY <2>1, <3>2, <3>3 DEF LinesOf
  <2> QED
    BY <2>2, <2>3
<1>4. DeindentYAML(s) = [i \in DOMAIN kept |-> TrimPrefix(kept[i], prefix)]
  BY <1>1 DEF DeindentYAML
<1> QED
  BY <1>2, <1>3, <1>4

-----------------------------------------------------------------------------
LEMMA TemplateTyped ==
  ASSUME TInv
  PROVE  template \in Seq(Trees) /\ \A i \in DOMAIN template : template[i] # <<>>
<1>1. CASE template = <<>>
  BY <1>1 DEF Trees
<1>2. CASE template # <<>>
  <2>1. PICK clean : clean = DeindentYAML(Text)
    OBVIOUS
  <2>2. clean \in Seq(Line)
    BY <2>1, Bodies1, DeindentTyped
  <2>3. template = SplitYAML(clean)
    BY <1>2, <2>1 DEF TInv, Processed
  <2> QED
    BY <2>2, <2>3, SplitTyped
<1> QED
  BY <1>1, <1>2

LEMMA NodeTyped ==
  ASSUME NEW t \in Trees, NEW i \in 1..Len(t)
  PROVE  /\ t[i].depth \in Nat /\ t[i].text \in {"---", "field", "($x)", "value"}
         /\ t[i] = [depth |-> t[i].depth, text |-> t[i].text]
<1>1. PICK N : N = [depth : Nat, text : {"---", "field", "($x)", "value"}]
  OBVIOUS
<1>2. t \in Seq(N)
  BY <1>1 DEF Trees
<1>3. t[i] \in N
  BY <1>2
<1> QED
  BY <1>1, <1>3

LEMMA RenderTreeTyped ==
  ASSUME NEW t \in Trees
  PROVE  /\ RenderTree(t) \in Trees /\ Len(RenderTree(t)) = Len(t)
         /\ \A i \in 1..Len(t) : RenderTree(t)[i].depth = t[i].depth
<1>1. \A i \in 1..Len(t) :
          t[i].depth \in Nat /\ t[i].text \in {"---", "field", "($x)", "value"}
          /\ t[i] = [depth |-> t[i].depth, text |-> t[i].text]
  BY NodeTyped
<1>2. \A i \in 1..Len(t) :
          [t[i] EXCEPT !.text = IF @ = "($x)" THEN "value" ELSE @]
          = [depth |-> t[i].depth,
             text |-> IF t[i].text = "($x)" THEN "value" ELSE t[i].text]
  <2> SUFFICES ASSUME NEW i \in 1..Len(t)
               PROVE  [t[i] EXCEPT !.text = IF @ = "($x)" THEN "value" ELSE @]
                      = [depth |-> t[i].depth,
                         text |-> IF t[i].text = "($x)" THEN "value" ELSE t[i].text]
    OBVIOUS
  <2>1. PICK d, x : t[i] = [depth |-> d, text |-> x]
    BY <1>1
  <2> QED
    BY <2>1
<1>3. Len(t) \in Nat /\ DOMAIN t = 1..Len(t)
  BY DEF Trees
<1>4. RenderTree(t) = [i \in 1..Len(t) |->
                         [depth |-> t[i].depth,
                          text |-> IF t[i].text = "($x)" THEN "value" ELSE t[i].text]]
  BY <1>2, <1>3 DEF RenderTree
<1> QED
  BY <1>1, <1>3, <1>4 DEF Trees

LEMMA RenderedTyped ==
  ASSUME TInv
  PROVE  /\ rendered \in Seq(Trees) /\ \A i \in DOMAIN rendered : rendered[i] # <<>>
         /\ AllRendered \in Seq(Trees) /\ Len(AllRendered) = Len(template)
         /\ \A i \in DOMAIN template : /\ AllRendered[i] = RenderTree(template[i])
                                       /\ AllRendered[i] # <<>>
<1>1. template \in Seq(Trees) /\ \A i \in DOMAIN template : template[i] # <<>>
  BY TemplateTyped
<1>2. \A i \in DOMAIN template : RenderTree(template[i]) \in Trees /\ RenderTree(template[i]) # <<>>
  <2> SUFFICES ASSUME NEW i \in DOMAIN template
               PROVE  RenderTree(template[i]) \in Trees /\ RenderTree(template[i]) # <<>>
    OBVIOUS
  <2>1. PICK t \in Trees : t = template[i] /\ t # <<>>
    BY <1>1
  <2>2. RenderTree(t) \in Trees /\ Len(RenderTree(t)) = Len(t)
    BY RenderTreeTyped
  <2>3. Len(t) # 0
    BY <2>1 DEF Trees
  <2> QED
    BY <2>1, <2>2, <2>3 DEF Trees
<1>3. AllRendered \in Seq(Trees) /\ Len(AllRendered) = Len(template)
  BY <1>1, <1>2 DEF AllRendered
<1>4. \A i \in DOMAIN template : AllRendered[i] = RenderTree(template[i]) /\ AllRendered[i] # <<>>
  BY <1>2 DEF AllRendered
<1>5. rendered \in {<<>>, AllRendered}
  BY DEF TInv
<1>6. \A i \in DOMAIN AllRendered : AllRendered[i] # <<>>
  BY <1>1, <1>3, <1>4
<1>7. rendered \in Seq(Trees) /\ \A i \in DOMAIN rendered : rendered[i] # <<>>
  <2>1. CASE rendered = <<>>
    BY <2>1
  <2>2. CASE rendered = AllRendered
    BY <1>3, <1>6, <2>2
  <2> QED
    BY <1>5, <2>1, <2>2
<1> QED
  BY <1>3, <1>4, <1>7

(* A rendered object as lines. *)

LEMMA PrintedTyped ==
  ASSUME NEW t \in Trees
  PROVE  /\ Printed(t) \in Seq(ContentLine) /\ Len(Printed(t)) = Len(t)
         /\ \A i \in 1..Len(t) :
               /\ Printed(t)[i].text = t[i].text
               /\ Printed(t)[i].pad \in Seq({"space"})
               /\ Len(Printed(t)[i].pad) = t[i].depth
<1>1. \A i \in 1..Len(t) : t[i].depth \in Nat /\ t[i].text \in {"---", "field", "($x)", "value"}
  BY NodeTyped
<1>2. Len(t) \in Nat /\ DOMAIN t = 1..Len(t)
  BY DEF Trees
<1>3. Printed(t) = [i \in 1..Len(t) |-> [pad |-> [d \in 1..t[i].depth |-> "space"],
                                        text |-> t[i].text]]
  BY <1>2 DEF Printed
<1>4. \A n \in Nat : /\ [d \in 1..n |-> "space"] \in Seq({"space"})
                     /\ [d \in 1..n |-> "space"] \in Seq(White)
                     /\ Len([d \in 1..n |-> "space"]) = n
  BY DEF White
<1>5. \A i \in 1..Len(t) : Printed(t)[i] \in ContentLine
  <2> SUFFICES ASSUME NEW i \in 1..Len(t) PROVE Printed(t)[i] \in ContentLine
    OBVIOUS
  <2>1. PICK w : w = [d \in 1..t[i].depth |-> "space"]
    OBVIOUS
  <2>2. w \in Seq(White)
    BY <1>1, <1>4, <2>1
  <2>3. Printed(t)[i] = [pad |-> w, text |-> t[i].text]
    BY <1>3, <2>1
  <2> QED
    BY <1>1, <2>2, <2>3 DEF ContentLine, LinesOf
<1> QED
  BY <1>1, <1>2, <1>3, <1>4, <1>5

LEMMA Separators == Bar \in Line /\ EmptyLine \in Line /\ Bar \in ContentLine /\ Separates(Bar)
<1>1. PICK A, e : Line = LinesOf(A) /\ e \in A /\ EmptyLine = [pad |-> <<>>, text |-> e]
  <2>1. "" \in {"", "#", "---", "field", "($x)", "value"}
    BY Zenon
  <2> QED
    BY <2>1, Zenon DEF Line, EmptyLine
<1>2. EmptyLine \in Line
  BY <1>1 DEF LinesOf
<1>3. Bar \in ContentLine /\ Separates(Bar)
  BY DEF Bar, Separates, ContentLine, LinesOf
<1> QED
  BY <1>2, <1>3, LineSets

LEMMA ChunkTyped ==
  ASSUME TInv, NEW i \in DOMAIN rendered
  PROVE  Chunk(i) \in Seq(Line)
<1>1. rendered[i] \in Trees
  BY RenderedTyped
<1>2. Printed(rendered[i]) \in Seq(Line)
  BY <1>1, PrintedTyped, LineSets
<1>3. <<Bar>> \in Seq(Line) /\ <<>> \in Seq(Line) /\ <<EmptyLine>> \in Seq(Line)
  BY Separators
<1> QED
  BY <1>2, <1>3, ConcatProperties DEF Chunk

-----------------------------------------------------------------------------
(* The type invariant. *)
THEOREM TemplatesTypeCorrect == Spec => []TemplatesTypeOK
<1>1. ASSUME TInv PROVE TemplatesTypeOK
  <2>1. template \in Seq(Trees) /\ \A i \in DOMAIN template : template[i] # <<>>
    BY <1>1, TemplateTyped
  <2>2. rendered \in Seq(Trees) /\ \A i \in DOMAIN rendered : rendered[i] # <<>>
    BY <1>1, RenderedTyped
  <2>3. objects \in Seq(Trees)
    <3>1. call.slots \in Nat /\ Untouched \in Trees
      BY <1>1, TemplatesAssumption DEF TInv, Call, Untouched, Trees
    <3>2. Blanks \in Seq(Trees)
      BY <3>1 DEF Blanks
    <3>3. Saved \in Seq(Trees)
      <4>1. CASE call.slots = 0
        BY <2>2, <4>1 DEF Saved
      <4>2. CASE call.slots # 0
        <5>1. \A i \in 1..call.slots :
                 (IF i <= Len(rendered) /\ (call.badSlot = 0 \/ i < call.badSlot)
                  THEN rendered[i] ELSE Untouched) \in Trees
          BY <2>2, <3>1
        <5>2. Saved = [i \in 1..call.slots |->
                         IF i <= Len(rendered) /\ (call.badSlot = 0 \/ i < call.badSlot)
                         THEN rendered[i] ELSE Untouched]
          BY <4>2 DEF Saved
        <5> QED
          BY <3>1, <5>1, <5>2
      <4> QED
        BY <4>1, <4>2
    <3> QED
      BY <1>1, <3>2, <3>3 DEF TInv
  <2>4. output \in Seq(Line)
    <3>1. \A i \in DOMAIN rendered : Chunk(i) \in Seq(Line)
      BY <1>1, ChunkTyped
    <3>2. PICK cs : cs = [i \in DOMAIN rendered |-> Chunk(i)]
      OBVIOUS
    <3>3. cs \in Seq(Seq(Line))
      BY <2>2, <3>1, <3>2
    <3>4. FlattenSeq(cs) \in Seq(Line)
      BY <3>3, FlattenTyped
    <3>5. Written \in Seq(Line)
      BY <3>2, <3>4 DEF Written
    <3> QED
      BY <1>1, <3>5 DEF TInv
  <2> QED
    BY <1>1, <2>1, <2>2, <2>3, <2>4 DEF TInv, TemplatesTypeOK
<1> QED
  BY <1>1, TemplatesInductive, PTL

-----------------------------------------------------------------------------
(* Indenting a whole template, with spaces or tabs, changes nothing: it is *)
(* read as it would be without (DeindentYAML, util.go:329).                *)
THEOREM IndentationDoesNotMatter == Spec => []IndentIrrelevant
<1>1. ASSUME TInv PROVE IndentIrrelevant
  <2> SUFFICES ASSUME pc # "process",
                      \E i \in DOMAIN body : ~Blank(body[i]) /\ body[i].pad = <<>>
               PROVE  IF Parses(body) /\ SplitYAML(body) # <<>>
                      THEN outcome # "args" /\ template = SplitYAML(body)
                      ELSE outcome = "args"
    BY DEF IndentIrrelevant
  <2>1. body \in Seq(Line) /\ indent \in Seq(White) /\ Text = Indented(body, indent)
    BY <1>1, Bodies1, TextIndented
  <2>2. PICK b, clean : b = body /\ clean = DeindentYAML(Text)
    OBVIOUS
  <2>3. clean = NonBlank(b)
    <3>1. DeindentYAML(Indented(b, indent)) = NonBlank(b)
      BY <2>1, <2>2, Deindented
    <3> QED
      BY <2>1, <2>2, <3>1
  <2>4. (Parses(clean) <=> Parses(b)) /\ SplitYAML(clean) = SplitYAML(b)
    BY <2>1, <2>2, <2>3, BlanksIrrelevant
  <2>5. IF Parses(clean) /\ SplitYAML(clean) # <<>>
        THEN outcome # "args" /\ template = SplitYAML(clean)
        ELSE outcome = "args"
    BY <1>1, <2>2 DEF TInv, Processed
  <2> QED
    BY <2>2, <2>4, <2>5
<1> QED
  BY <1>1, TemplatesInductive, PTL

(* No object is touched before every document is rendered and the objects  *)
(* are counted; then they are filled in order (render.go:207 to 231).      *)
THEOREM AllObjectsOrNone == Spec => []ObjectsComeWhole
<1>1. ASSUME TInv PROVE ObjectsComeWhole
  <2>1. /\ template \in Seq(Trees) /\ AllRendered \in Seq(Trees)
        /\ Len(AllRendered) = Len(template) /\ Len(template) \in Nat
        /\ \A i \in 1..Len(template) : /\ AllRendered[i] = RenderTree(template[i])
                                       /\ AllRendered[i] # Untouched
    BY <1>1, TemplateTyped, RenderedTyped DEF Untouched
  <2>2. /\ call.slots \in Nat /\ call.badSlot \in Nat /\ call.badSlot <= call.slots
    BY <1>1, TemplatesAssumption DEF TInv, Call
  <2>3. \A i \in DOMAIN Blanks : Blanks[i] = Untouched
    BY DEF Blanks
  <2>4. CASE ~(outcome \in {"ok", "save"} /\ call.kind # "string")
    <3>1. objects = Blanks
      BY <1>1, <2>4 DEF TInv
    <3>2. outcome = "ok" /\ call.kind # "string" => FALSE
      BY <2>4
    <3> QED
      BY <2>3, <3>1, <3>2 DEF ObjectsComeWhole
  <2>5. CASE outcome \in {"ok", "save"} /\ call.kind # "string"
    <3>1. /\ objects = Saved /\ rendered = AllRendered /\ call.slots \in {0, Len(template)}
          /\ outcome = (IF call.badSlot = 0 THEN "ok" ELSE "save")
      BY <1>1, <2>5 DEF TInv
    <3>2. Len(objects) = Len(template) /\ DOMAIN objects = 1..Len(template)
      BY <2>1, <2>2, <3>1 DEF Saved
    <3>3. \A i \in 1..Len(template) :
             objects[i] = IF call.slots = 0 \/ call.badSlot = 0 \/ i < call.badSlot
                          THEN AllRendered[i] ELSE Untouched
      BY <2>1, <2>2, <3>1 DEF Saved
    <3>4. ASSUME NEW i \in DOMAIN objects, objects[i] # Untouched
          PROVE  \A j \in 1..i : objects[j] = RenderTree(template[j])
      <4> SUFFICES ASSUME NEW j \in 1..i PROVE objects[j] = RenderTree(template[j])
        OBVIOUS
      <4>1. i \in 1..Len(template) /\ j \in 1..Len(template) /\ j <= i
        BY <2>1, <3>2
      <4>2. call.slots = 0 \/ call.badSlot = 0 \/ j < call.badSlot
        BY <2>2, <3>3, <3>4, <4>1
      <4> QED
        BY <2>1, <3>3, <4>1, <4>2
    <3>5. ASSUME outcome = "ok", NEW i \in DOMAIN objects
          PROVE  objects[i] # Untouched
      <4>1. i \in 1..Len(template) /\ call.badSlot = 0
        BY <3>1, <3>2, <3>5
      <4> QED
        BY <2>1, <3>3, <4>1
    <3> QED
      BY <2>5, <3>2, <3>4, <3>5 DEF ObjectsComeWhole
  <2> QED
    BY <2>4, <2>5
<1> QED
  BY <1>1, TemplatesInductive, PTL

-----------------------------------------------------------------------------
(* Fields, and the texts of lines and of documents. *)
FieldText == {"field", "($x)"}
LineText == [l \in Line |-> l.text]
Node == [depth : Nat, text : {"---", "field", "($x)", "value"}]
NodeText == [n \in Node |-> n.text]
TreeOf == [d \in Seq(ContentLine) |-> Tree(d)]

LEMMA Texts ==
  /\ LineText \in [Line -> {l.text : l \in Line}]
  /\ NodeText \in [Node -> {n.text : n \in Node}]
  /\ TreeOf \in [Seq(ContentLine) -> Seq(Node)]
  /\ \A l \in Line : LineText[l] = l.text /\ (LineText[l] \in FieldText <=> l \in FieldLine)
  /\ \A n \in Node : NodeText[n] = n.text
<1>1. LineText \in [Line -> {l.text : l \in Line}] /\ NodeText \in [Node -> {n.text : n \in Node}]
  BY DEF LineText, NodeText
<1>2. \A d \in Seq(ContentLine) : Tree(d) \in Seq(Node)
  BY TreeTyped DEF Trees, Node
<1>3. \A l \in Line : l \in FieldLine <=> l.text \in FieldText
  BY LineSets DEF FieldText
<1> QED
  BY <1>1, <1>2, <1>3 DEF LineText, NodeText, TreeOf

Alike(T, U, f, g, s, t) == Image(f, s) = Image(g, t)

LEMMA SameImage ==
  ASSUME NEW T, NEW U, NEW s \in Seq(T), NEW t \in Seq(U), NEW f, NEW g,
         Len(s) = Len(t), \A i \in 1..Len(s) : f[s[i]] = g[t[i]]
  PROVE  Alike(T, U, f, g, s, t)
<1>1. DOMAIN s = 1..Len(s) /\ DOMAIN t = 1..Len(s)
  OBVIOUS
<1>2. Image(f, s) = [i \in 1..Len(s) |-> f[s[i]]] /\ Image(g, t) = [i \in 1..Len(s) |-> g[t[i]]]
  BY <1>1 DEF Image
<1> QED
  BY <1>2 DEF Alike

Concat(T, s, t, v) ==
    /\ v \in Seq(T) /\ Len(v) = Len(s) + Len(t)
    /\ \A i \in 1..Len(s) : v[i] = s[i]
    /\ \A i \in 1..Len(t) : v[Len(s) + i] = t[i]

LEMMA ConcatIs ==
  ASSUME NEW T, NEW s \in Seq(T), NEW t \in Seq(T)
  PROVE  Concat(T, s, t, s \o t)
<1>1. PICK v : v = s \o t
  OBVIOUS
<1>2. /\ v \in Seq(T) /\ Len(v) = Len(s) + Len(t) /\ Len(s) \in Nat /\ Len(t) \in Nat
      /\ \A i \in 1..Len(s) : v[i] = s[i]
      /\ \A i \in 1..Len(t) : v[Len(s) + i] = t[i]
  BY <1>1, ConcatProperties
<1> QED
  BY <1>1, <1>2 DEF Concat

LEMMA SameConcat ==
  ASSUME NEW T, NEW s \in Seq(T), NEW t \in Seq(T), NEW v, NEW w,
         Concat(T, s, t, v), Concat(T, s, t, w)
  PROVE  v = w
<1>1. /\ v \in Seq(T) /\ w \in Seq(T) /\ Len(v) = Len(s) + Len(t) /\ Len(w) = Len(s) + Len(t)
      /\ Len(s) \in Nat /\ Len(t) \in Nat
  BY DEF Concat
<1>2. ASSUME NEW i \in 1..Len(v) PROVE v[i] = w[i]
  <2>1. CASE i <= Len(s)
    BY <1>1, <2>1 DEF Concat
  <2>2. CASE ~(i <= Len(s))
    <3>1. PICK j : j = i - Len(s)
      OBVIOUS
    <3>2. j \in 1..Len(t) /\ i = Len(s) + j
      BY <1>1, <2>2, <3>1
    <3> QED
      BY <3>2 DEF Concat
  <2> QED
    BY <2>1, <2>2
<1> QED
  BY <1>1, <1>2, SeqEqual

MapsConcat(T, U, g, s, t) == Image(g, s \o t) = Image(g, s) \o Image(g, t)

LEMMA ImageConcat ==
  ASSUME NEW T, NEW U, NEW g \in [T -> U], NEW s \in Seq(T), NEW t \in Seq(T)
  PROVE  MapsConcat(T, U, g, s, t)
<1>1. PICK v, a, b, c : /\ v = s \o t
                        /\ a = Image(g, s) /\ b = Image(g, t) /\ c = Image(g, v)
  OBVIOUS
<1>2. Concat(T, s, t, v) /\ v \in Seq(T)
  BY <1>1, ConcatIs DEF Concat
<1>3. /\ a \in Seq(U) /\ Len(a) = Len(s) /\ b \in Seq(U) /\ Len(b) = Len(t)
      /\ c \in Seq(U) /\ Len(c) = Len(v)
  <2>1. Maps(T, U, g, s) /\ Maps(T, U, g, t) /\ Maps(T, U, g, v)
    BY <1>2, ImageMaps
  <2> QED
    BY <1>1, <2>1 DEF Maps
<1>4. /\ \A i \in 1..Len(s) : a[i] = g[s[i]]
      /\ \A i \in 1..Len(t) : b[i] = g[t[i]]
      /\ \A i \in 1..Len(v) : c[i] = g[v[i]]
  <2>1. DOMAIN s = 1..Len(s) /\ DOMAIN t = 1..Len(t) /\ DOMAIN v = 1..Len(v)
    BY <1>2
  <2> QED
    BY <1>1, <2>1 DEF Image
<1>5. Concat(U, a, b, c)
  <2>1. Len(s) \in Nat /\ Len(t) \in Nat /\ Len(v) = Len(s) + Len(t)
    BY <1>2 DEF Concat
  <2>2. ASSUME NEW i \in 1..Len(s) PROVE c[i] = a[i]
    <3>1. i \in 1..Len(v) /\ v[i] = s[i]
      BY <1>2, <2>1 DEF Concat
    <3> QED
      BY <1>4, <3>1
  <2>3. ASSUME NEW i \in 1..Len(t) PROVE c[Len(s) + i] = b[i]
    <3>1. Len(s) + i \in 1..Len(v) /\ v[Len(s) + i] = t[i]
      BY <1>2, <2>1 DEF Concat
    <3> QED
      BY <1>4, <3>1
  <2> QED
    BY <1>3, <2>1, <2>2, <2>3 DEF Concat
<1>6. Concat(U, a, b, a \o b)
  BY <1>3, ConcatIs
<1>7. c = a \o b
  BY <1>3, <1>5, <1>6, SameConcat
<1> QED
  BY <1>1, <1>7 DEF MapsConcat

FlattensAppend(T, ss, s) == FlattenSeq(Append(ss, s)) = FlattenSeq(ss) \o s

LEMMA FlattenedAppend ==
  ASSUME NEW T, NEW ss \in Seq(Seq(T)), NEW s \in Seq(T)
  PROVE  FlattensAppend(T, ss, s)
<1>1. FlattenSeq(Append(ss, s)) = FlattenSeq(ss) \o s
  BY FlattenAppend, Zenon
<1> QED
  BY <1>1, Zenon DEF FlattensAppend

ConcatAppends(T, a, c, l) == a \o Append(c, l) = Append(a \o c, l)

LEMMA ConcatAppend ==
  ASSUME NEW T, NEW a \in Seq(T), NEW c \in Seq(T), NEW l \in T
  PROVE  ConcatAppends(T, a, c, l)
<1>1. PICK x, u, d, w : /\ x = Append(c, l) /\ u = a \o x
                        /\ d = a \o c /\ w = Append(d, l)
  OBVIOUS
<1>2. x \in Seq(T) /\ Len(x) = Len(c) + 1 /\ x[Len(c) + 1] = l /\ \A i \in 1..Len(c) : x[i] = c[i]
  BY <1>1, AppendProperties
<1>3. Concat(T, a, x, u) /\ Concat(T, a, c, d)
  BY <1>1, <1>2, ConcatIs
<1>4. d \in Seq(T) /\ Len(d) = Len(a) + Len(c) /\ Len(a) \in Nat /\ Len(c) \in Nat
  BY <1>3 DEF Concat
<1>5. w \in Seq(T) /\ Len(w) = Len(d) + 1 /\ w[Len(d) + 1] = l /\ \A i \in 1..Len(d) : w[i] = d[i]
  BY <1>1, <1>4, AppendProperties
<1>6. Concat(T, a, x, w)
  <2>1. \A i \in 1..Len(a) : w[i] = a[i]
    BY <1>3, <1>4, <1>5 DEF Concat
  <2>2. ASSUME NEW i \in 1..Len(x) PROVE w[Len(a) + i] = x[i]
    <3>1. CASE i = Len(c) + 1
      BY <1>2, <1>4, <1>5, <3>1
    <3>2. CASE i # Len(c) + 1
      <4>1. i \in 1..Len(c) /\ Len(a) + i \in 1..Len(d)
        BY <1>2, <1>4, <3>2
      <4> QED
        BY <1>2, <1>3, <1>5, <4>1 DEF Concat
    <3> QED
      BY <3>1, <3>2
  <2> QED
    BY <1>2, <1>4, <1>5, <2>1, <2>2 DEF Concat
<1>7. u = w
  BY <1>2, <1>3, <1>6, SameConcat
<1> QED
  BY <1>1, <1>7 DEF ConcatAppends

-----------------------------------------------------------------------------
(* One line more: the fields of the contents are those of the text. *)
LEMMA ContentsSplit ==
  ASSUME NEW s \in Seq(Line)
  PROVE  \E ss \in Seq(Seq(ContentLine)), c \in Seq(ContentLine) : Contents(s) = Append(ss, c)
<1>1. Contents(s) \in Docs(ContentLine)
  BY ContentsTyped
<1>2. PICK cs, T : cs = Contents(s) /\ T = ContentLine
  OBVIOUS
<1>3. cs \in Docs(T)
  BY <1>1, <1>2
<1>4. \E ss \in Seq(Seq(T)), c \in Seq(T) : cs = Append(ss, c)
  BY <1>3, DocsSplit, Zenon
<1> QED
  BY <1>2, <1>4

LEMMA FieldsOfContents ==
  \A s \in Seq(Line) : Only(FlattenSeq(Contents(s)), FieldLine) = Only(s, FieldLine)
<1> DEFINE P == {s \in Seq(Line) : Only(FlattenSeq(Contents(s)), FieldLine) = Only(s, FieldLine)}
<1>1. <<>> \in P
  <2>1. <<>> \in Seq(Seq({})) /\ <<>> \in Seq({}) /\ Append(<<>>, <<>>) = << <<>> >>
    OBVIOUS
  <2>2. FlattensAppend({}, <<>>, <<>>)
    BY <2>1, FlattenedAppend
  <2>3. FlattenSeq(<< <<>> >>) = <<>>
    BY <2>1, <2>2, FlattenEmpty DEF FlattensAppend
  <2> QED
    BY <2>3, ContentsEmpty
<1>2. ASSUME NEW s \in Seq(Line), NEW l \in Line, s \in P
      PROVE  Append(s, l) \in P
  <2>0. PICK cs : cs = Contents(s)
    OBVIOUS
  <2>1. PICK ss \in Seq(Seq(ContentLine)), c \in Seq(ContentLine) : cs = Append(ss, c)
    BY <2>0, ContentsSplit
  <2>2. PICK f, g : cs = Append(ss, c) /\ f = FlattenSeq(ss) /\ g = FlattenSeq(cs)
    BY <2>1
  <2>3. /\ f \in Seq(ContentLine) /\ cs \in Seq(Seq(ContentLine)) /\ g \in Seq(ContentLine)
        /\ <<>> \in Seq(ContentLine)
    <3>1. f \in Seq(ContentLine)
      BY <2>2, FlattenTyped, Zenon
    <3>2. cs \in Seq(Seq(ContentLine))
      BY <2>2, AppendProperties
    <3>3. FlattenSeq(cs) \in Seq(ContentLine)
      BY <3>2, FlattenTyped, Zenon
    <3> QED
      BY <2>2, <3>1, <3>2, <3>3
  <2>4. g = f \o c
    <3>1. FlattensAppend(ContentLine, ss, c)
      BY FlattenedAppend
    <3> QED
      BY <2>2, <3>1 DEF FlattensAppend
  <2>5. PICK h : h = FlattenSeq(Contents(Append(s, l)))
    OBVIOUS
  <2>6. h = IF l \in ContentLine /\ ~Separates(l) THEN Append(g, l) ELSE g
    <3>1. Contents(Append(s, l)) = AddContent(cs, l)
      <4>1. ContentsGrow(s, l)
        BY ContentsAppend
      <4> QED
        BY <2>0, <4>1 DEF ContentsGrow
    <3>2. CASE Separates(l)
      <4>1. h = FlattenSeq(Append(cs, <<>>))
        BY <2>5, <3>1, <3>2 DEF AddContent
      <4>2. FlattensAppend(ContentLine, cs, <<>>)
        BY <2>3, FlattenedAppend
      <4>3. g \o <<>> = g
        BY <2>3
      <4> QED
        BY <2>2, <3>2, <4>1, <4>2, <4>3 DEF FlattensAppend
    <3>3. CASE ~Separates(l) /\ l \in ContentLine
      <4>1. PICK d : d = Append(c, l)
        OBVIOUS
      <4>2. d \in Seq(ContentLine)
        BY <3>3, <4>1, AppendProperties
      <4>3. GrowsLast(ContentLine, ss, c, l)
        BY <3>3, LastAppended
      <4>4. LastGrown(cs, l) = Append(ss, d)
        BY <2>2, <4>1, <4>3 DEF GrowsLast
      <4>5. h = FlattenSeq(Append(ss, d))
        BY <2>5, <3>1, <3>3, <4>4 DEF AddContent
      <4>6. FlattensAppend(ContentLine, ss, d)
        BY <4>2, FlattenedAppend
      <4>7. ConcatAppends(ContentLine, f, c, l)
        BY <2>3, <3>3, ConcatAppend
      <4>8. h = f \o d
        BY <2>2, <4>5, <4>6 DEF FlattensAppend
      <4>9. f \o d = Append(g, l)
        BY <2>4, <4>1, <4>7 DEF ConcatAppends
      <4> QED
        BY <3>3, <4>8, <4>9
    <3>4. CASE ~Separates(l) /\ l \notin ContentLine
      BY <2>2, <2>5, <3>1, <3>4 DEF AddContent
    <3> QED
      BY <3>2, <3>3, <3>4
  <2>7. l \in FieldLine => l \in ContentLine /\ ~Separates(l)
    BY LineSets DEF Separates, FieldLine, ContentLine, LinesOf
  <2>8. Only(g, FieldLine) = Only(s, FieldLine)
    BY <1>2, <2>0, <2>2
  <2>9. l \in ContentLine =>
          Only(Append(g, l), FieldLine)
          = IF l \in FieldLine THEN Append(Only(g, FieldLine), l) ELSE Only(g, FieldLine)
    BY <2>3, OnlyAppend
  <2>10. Only(Append(s, l), FieldLine)
         = IF l \in FieldLine THEN Append(Only(s, FieldLine), l) ELSE Only(s, FieldLine)
    BY OnlyAppend
  <2>11. Only(h, FieldLine) = Only(Append(s, l), FieldLine)
    BY <2>6, <2>7, <2>8, <2>9, <2>10
  <2>12. Append(s, l) \in Seq(Line)
    OBVIOUS
  <2> QED
    BY <2>5, <2>11, <2>12
<1>3. \A s \in Seq(Line) : s \in P
  <2> HIDE DEF P
  <2> QED
    BY <1>1, <1>2, InductionOnSequences, Zenon
<1> QED
  BY <1>3

(* Nothing is lost with the empty documents. *)
LEMMA FlattenNonEmpty ==
  ASSUME NEW T, NEW S, \A c \in Seq(T) : c \in S <=> c # <<>>
  PROVE  \A cs \in Seq(Seq(T)) : FlattenSeq(Only(cs, S)) = FlattenSeq(cs)
<1> DEFINE P == {cs \in Seq(Seq(T)) : FlattenSeq(Only(cs, S)) = FlattenSeq(cs)}
<1>1. <<>> \in P
  BY OnlyEmpty
<1>2. ASSUME NEW cs \in Seq(Seq(T)), NEW c \in Seq(T), cs \in P
      PROVE  Append(cs, c) \in P
  <2>1. PICK b : b = Only(cs, S)
    OBVIOUS
  <2>2. b \in Seq(Seq(T)) /\ Append(cs, c) \in Seq(Seq(T)) /\ FlattenSeq(b) = FlattenSeq(cs)
    <3>1. PICK D : D = Seq(T)
      OBVIOUS
    <3>2. Only(cs, S) \in Seq(D)
      BY <3>1, OnlyTyped
    <3> QED
      BY <1>2, <2>1, <3>1, <3>2
  <2>3. Only(Append(cs, c), S) = IF c \in S THEN Append(b, c) ELSE b
    <3>1. PICK D : D = Seq(T)
      OBVIOUS
    <3> QED
      BY <2>1, <3>1, OnlyAppend
  <2>4. FlattenSeq(Append(cs, c)) = FlattenSeq(cs) \o c /\ FlattenSeq(Append(b, c)) = FlattenSeq(b) \o c
    <3>1. FlattensAppend(T, cs, c) /\ FlattensAppend(T, b, c)
      BY <2>2, FlattenedAppend
    <3> QED
      BY <3>1 DEF FlattensAppend
  <2>5. c \notin S => FlattenSeq(cs) \o c = FlattenSeq(cs)
    <3>1. FlattenSeq(cs) \in Seq(T)
      BY FlattenTyped
    <3> QED
      BY <3>1
  <2>6. FlattenSeq(Only(Append(cs, c), S)) = FlattenSeq(Append(cs, c))
    BY <2>2, <2>3, <2>4, <2>5
  <2> QED
    BY <2>2, <2>6
<1>3. \A cs \in Seq(Seq(T)) : cs \in P
  <2> HIDE DEF P
  <2> QED
    BY <1>1, <1>2, InductionOnSequences, Zenon
<1> QED
  BY <1>3

-----------------------------------------------------------------------------
(* The documents without their layout have the texts of their lines. *)
LEMMA TextsOfTrees ==
  \A ks \in Seq(Seq(ContentLine)) :
      Image(NodeText, FlattenSeq(Image(TreeOf, ks))) = Image(LineText, FlattenSeq(ks))
<1> DEFINE P == {ks \in Seq(Seq(ContentLine)) :
                   Image(NodeText, FlattenSeq(Image(TreeOf, ks))) = Image(LineText, FlattenSeq(ks))}
<1>1. <<>> \in P
  <2>1. Image(TreeOf, <<>>) = <<>> /\ Image(NodeText, <<>>) = <<>> /\ Image(LineText, <<>>) = <<>>
    BY DEF Image
  <2> QED
    BY <2>1, FlattenEmpty
<1>2. ASSUME NEW ks \in Seq(Seq(ContentLine)), NEW d \in Seq(ContentLine), ks \in P
      PROVE  Append(ks, d) \in P
  <2>1. PICK ts, t : ts = Image(TreeOf, ks) /\ t = Tree(d)
    OBVIOUS
  <2>2. ts \in Seq(Seq(Node)) /\ t \in Seq(Node) /\ TreeOf[d] = t
    <3>1. Maps(Seq(ContentLine), Seq(Node), TreeOf, ks)
      BY Texts, ImageMaps
    <3>2. t \in Seq(Node)
      BY <2>1, TreeTyped DEF Trees, Node
    <3> QED
      BY <2>1, <3>1, <3>2 DEF Maps, TreeOf
  <2>3. Image(TreeOf, Append(ks, d)) = Append(ts, t)
    <3>1. MapsOn(Seq(ContentLine), Seq(Node), TreeOf, ks, d)
      BY Texts, ImageMapsOn
    <3> QED
      BY <2>1, <2>2, <3>1 DEF MapsOn
  <2>4. PICK fs, fk : fs = FlattenSeq(ts) /\ fk = FlattenSeq(ks)
    OBVIOUS
  <2>5. fs \in Seq(Node) /\ fk \in Seq(Line) /\ d \in Seq(Line)
    <3>1. FlattenSeq(ts) \in Seq(Node)
      BY <2>2, FlattenTyped, Zenon
    <3>2. FlattenSeq(ks) \in Seq(ContentLine)
      BY FlattenTyped, Zenon
    <3> QED
      BY <2>4, <3>1, <3>2, LineSets
  <2>6. Image(NodeText, fs) = Image(LineText, fk)
    BY <1>2, <2>1, <2>4
  <2>7. Image(NodeText, t) = Image(LineText, d)
    <3>1. /\ Len(t) = Len(d)
          /\ \A i \in 1..Len(d) : t[i].text = d[i].text /\ t[i] \in Node /\ d[i] \in Line
      <4>1. Len(t) = Len(d) /\ \A i \in 1..Len(d) : t[i].text = d[i].text
        BY <2>1, TreeTyped
      <4>2. \A i \in 1..Len(t) : t[i] \in Node
        BY <2>2
      <4>3. \A i \in 1..Len(d) : d[i] \in Line
        BY <2>5
      <4> QED
        BY <4>1, <4>2, <4>3
    <3>2. ASSUME NEW i \in 1..Len(t) PROVE NodeText[t[i]] = LineText[d[i]]
      <4>1. t[i].text = d[i].text /\ t[i] \in Node /\ d[i] \in Line
        BY <3>1
      <4>2. NodeText[t[i]] = t[i].text /\ LineText[d[i]] = d[i].text
        BY <4>1, Texts
      <4> QED
        BY <4>1, <4>2
    <3>3. Alike(Node, Line, NodeText, LineText, t, d)
      BY <2>2, <2>5, <3>1, <3>2, SameImage
    <3> QED
      BY <3>3 DEF Alike
  <2>8. FlattenSeq(Append(ts, t)) = fs \o t /\ FlattenSeq(Append(ks, d)) = fk \o d
    <3>1. FlattensAppend(Node, ts, t) /\ FlattensAppend(ContentLine, ks, d)
      BY <2>2, FlattenedAppend
    <3> QED
      BY <2>4, <3>1 DEF FlattensAppend
  <2>9. /\ Image(NodeText, fs \o t) = Image(NodeText, fs) \o Image(NodeText, t)
        /\ Image(LineText, fk \o d) = Image(LineText, fk) \o Image(LineText, d)
    <3>1. MapsConcat(Node, {n.text : n \in Node}, NodeText, fs, t)
      BY <2>2, <2>5, Texts, ImageConcat
    <3>2. MapsConcat(Line, {x.text : x \in Line}, LineText, fk, d)
      BY <2>5, Texts, ImageConcat
    <3> QED
      BY <3>1, <3>2 DEF MapsConcat
  <2>10. Image(NodeText, FlattenSeq(Append(ts, t))) = Image(LineText, FlattenSeq(Append(ks, d)))
    BY <2>6, <2>7, <2>8, <2>9, Zenon
  <2>11. Append(ks, d) \in Seq(Seq(ContentLine))
    OBVIOUS
  <2> QED
    BY <2>3, <2>10, <2>11
<1>3. \A ks \in Seq(Seq(ContentLine)) : ks \in P
  <2> HIDE DEF P
  <2> QED
    BY <1>1, <1>2, InductionOnSequences, Zenon
<1> QED
  BY <1>3

LEMMA TextsOfFields ==
  ASSUME NEW s \in Seq(Line)
  PROVE  Only(Image(LineText, s), FieldText) = Image(LineText, Only(s, FieldLine))
<1>1. Chooses(Line, {l.text : l \in Line}, LineText, FieldLine, FieldText)
  BY Texts, OnlyImage
<1> QED
  BY <1>1 DEF Chooses

FieldNode == [depth : Nat, text : FieldText]

LEMMA TextsOfFieldNodes ==
  ASSUME NEW s \in Seq(Node)
  PROVE  Only(Image(NodeText, s), FieldText) = Image(NodeText, Only(s, FieldNode))
<1>1. \A n \in Node : NodeText[n] \in FieldText <=> n \in FieldNode
  <2>1. \A n \in Node : n = [depth |-> n.depth, text |-> n.text] /\ n.depth \in Nat
    BY DEF Node
  <2> QED
    BY <2>1, Texts DEF FieldNode
<1>2. Chooses(Node, {n.text : n \in Node}, NodeText, FieldNode, FieldText)
  BY <1>1, Texts, OnlyImage
<1> QED
  BY <1>2 DEF Chooses

(* Splitting keeps the texts of the fields. *)
LEMMA SplitKeepsFields ==
  ASSUME NEW s \in Seq(Line)
  PROVE  Image(NodeText, Only(FlattenSeq(SplitYAML(s)), FieldNode))
         = Image(LineText, Only(s, FieldLine))
<1>1. PICK kept, trees : kept = Kept(s) /\ trees = SplitYAML(s)
  OBVIOUS
<1>2. kept \in Seq(KeptDocs) /\ kept \in Seq(Seq(ContentLine))
  <2>1. kept \in Seq(KeptDocs)
    BY <1>1, KeptTyped
  <2> QED
    BY <2>1 DEF KeptDocs
<1>3. trees = Image(TreeOf, kept) /\ trees \in Seq(Seq(Node))
  <2>1. \A i \in DOMAIN kept : TreeOf[kept[i]] = Tree(kept[i])
    BY <1>2 DEF TreeOf
  <2>2. trees = Image(TreeOf, kept)
    BY <1>1, <2>1, ByContents DEF Image, Trees1
  <2>3. Maps(Seq(ContentLine), Seq(Node), TreeOf, kept)
    BY <1>2, Texts, ImageMaps
  <2> QED
    BY <2>2, <2>3 DEF Maps
<1>4. Image(NodeText, FlattenSeq(trees)) = Image(LineText, FlattenSeq(kept))
  BY <1>2, <1>3, TextsOfTrees
<1>5. FlattenSeq(kept) = FlattenSeq(Contents(s))
  <2>1. PICK cs, S : cs = Contents(s) /\ S = Seq(Line) \ {<<>>}
    OBVIOUS
  <2>2. cs \in Seq(Seq(ContentLine))
    BY <2>1, ContentsTyped DEF Docs
  <2>3. \A c \in Seq(ContentLine) : c \in S <=> c # <<>>
    BY <2>1, LineSets
  <2>4. FlattenSeq(Only(cs, S)) = FlattenSeq(cs)
    BY <2>2, <2>3, FlattenNonEmpty, Zenon
  <2> QED
    BY <1>1, <2>1, <2>4 DEF Kept
<1>6. PICK f, g : f = FlattenSeq(trees) /\ g = FlattenSeq(Contents(s))
  OBVIOUS
<1>7. f \in Seq(Node) /\ g \in Seq(Line)
  <2>1. FlattenSeq(trees) \in Seq(Node)
    BY <1>3, FlattenTyped, Zenon
  <2>2. Contents(s) \in Seq(Seq(ContentLine))
    BY ContentsTyped DEF Docs
  <2>3. FlattenSeq(Contents(s)) \in Seq(ContentLine)
    BY <2>2, FlattenTyped, Zenon
  <2> QED
    BY <1>6, <2>1, <2>3, LineSets
<1>8. Only(Image(NodeText, f), FieldText) = Image(NodeText, Only(f, FieldNode))
  BY <1>7, TextsOfFieldNodes
<1>9. Only(Image(LineText, g), FieldText) = Image(LineText, Only(g, FieldLine))
  BY <1>7, TextsOfFields
<1>10. Only(g, FieldLine) = Only(s, FieldLine)
  BY <1>6, FieldsOfContents
<1>11. Image(NodeText, f) = Image(LineText, g)
  BY <1>4, <1>5, <1>6
<1> QED
  BY <1>1, <1>6, <1>8, <1>9, <1>10, <1>11

-----------------------------------------------------------------------------
(* Neither does white space matter for them, nor do blank lines. *)
LEMMA CleanKeepsFields ==
  ASSUME NEW b \in Seq(Line), NEW w \in Seq(White)
  PROVE  Image(LineText, Only(DeindentYAML(Indented(b, w)), FieldLine))
         = Image(LineText, Only(b, FieldLine))
<1>1. PICK all, kept, clean : /\ all = Indented(b, w) /\ kept = NonBlank(all)
                             /\ clean = DeindentYAML(all)
  OBVIOUS
<1>2. all \in Seq(Line) /\ Len(all) = Len(b) /\ all = Image(IndentOf(w), b)
  <2>1. Maps(Line, Line, IndentOf(w), b)
    BY IndentOfTyped, ImageMaps
  <2> QED
    BY <1>1, <2>1 DEF Maps, Indented
<1>3. kept \in Seq(Line) /\ clean \in Seq(Line)
  <2>1. kept \in Seq(Line)
    BY <1>1, <1>2, OnlyTyped DEF NonBlank
  <2> QED
    BY <1>1, <1>2, <2>1, DeindentTyped
<1>4. Image(LineText, all) = Image(LineText, b)
  <2>1. ASSUME NEW i \in 1..Len(all) PROVE LineText[all[i]] = LineText[b[i]]
    <3>1. b[i] \in Line /\ all[i] \in Line /\ all[i] = IndentOf(w)[b[i]]
      BY <1>2 DEF Image
    <3>2. all[i].text = b[i].text
      BY <3>1, IndentOfTyped
    <3> QED
      BY <3>1, <3>2, Texts
  <2>2. Alike(Line, Line, LineText, LineText, all, b)
    BY <1>2, <2>1, SameImage
  <2> QED
    BY <2>2 DEF Alike
<1>5. Image(LineText, clean) = Image(LineText, kept)
  <2>1. PICK p : clean = [i \in DOMAIN kept |-> TrimPrefix(kept[i], p)]
    BY <1>1 DEF DeindentYAML
  <2>2. DOMAIN kept = 1..Len(kept) /\ DOMAIN clean = 1..Len(clean) /\ Len(clean) = Len(kept)
    BY <1>3, <2>1
  <2>3. ASSUME NEW i \in 1..Len(clean) PROVE LineText[clean[i]] = LineText[kept[i]]
    <3>1. clean[i] = TrimPrefix(kept[i], p) /\ clean[i] \in Line /\ kept[i] \in Line
      <4>1. i \in DOMAIN kept
        BY <2>2
      <4>2. clean[i] = TrimPrefix(kept[i], p)
        BY <2>1, <4>1, Zenon
      <4>3. clean[i] \in Line
        BY <1>3
      <4>4. kept[i] \in Line
        BY <1>3, <4>1
      <4> QED
        BY <4>2, <4>3, <4>4
    <3>2. kept[i] = [pad |-> kept[i].pad, text |-> kept[i].text]
      BY <3>1 DEF Line, LinesOf
    <3>3. TrimPrefix(kept[i], p).text = kept[i].text
      BY <3>2 DEF TrimPrefix
    <3> QED
      BY <3>1, <3>3, Texts
  <2>4. Alike(Line, Line, LineText, LineText, clean, kept)
    BY <1>3, <2>2, <2>3, SameImage
  <2> QED
    BY <2>4 DEF Alike
<1>6. Only(kept, FieldLine) = Only(all, FieldLine)
  <2>1. \A l \in Line : l \in FieldLine => l \in FullLine
    BY DEF LinesOf, FieldLine, FullLine
  <2>2. Narrows(Line, FullLine, FieldLine)
    BY <2>1, OnlyOfOnly
  <2>3. Only(Only(all, FullLine), FieldLine) = Only(all, FieldLine)
    BY <1>2, <2>2 DEF Narrows
  <2> QED
    BY <1>1, <2>3 DEF NonBlank, FullLine
<1>7. /\ Only(Image(LineText, clean), FieldText) = Image(LineText, Only(clean, FieldLine))
      /\ Only(Image(LineText, kept), FieldText) = Image(LineText, Only(kept, FieldLine))
      /\ Only(Image(LineText, all), FieldText) = Image(LineText, Only(all, FieldLine))
      /\ Only(Image(LineText, b), FieldText) = Image(LineText, Only(b, FieldLine))
  BY <1>2, <1>3, TextsOfFields
<1> QED
  BY <1>1, <1>4, <1>5, <1>6, <1>7

(* Sanitizing loses no field and moves none, whatever comments, empty      *)
(* documents and separators stand around it (PruneYAML, util.go:424).      *)
THEOREM NoFieldIsLost == Spec => []FieldsKept
<1>1. ASSUME TInv PROVE FieldsKept
  <2> SUFFICES ASSUME pc # "process", outcome # "args" PROVE FieldsKept
    BY DEF FieldsKept
  <2>1. body \in Seq(Line) /\ indent \in Seq(White) /\ Text = Indented(body, indent) /\ Text \in Seq(Line)
    BY <1>1, Bodies1, TextIndented
  <2>2. PICK clean, read, given : /\ clean = DeindentYAML(Text)
                                  /\ read = Only(FlattenSeq(template), FieldNode)
                                  /\ given = Only(body, FieldLine)
    OBVIOUS
  <2>3. clean \in Seq(Line) /\ template = SplitYAML(clean)
    BY <1>1, <2>1, <2>2, DeindentTyped DEF TInv, Processed
  <2>4. Image(NodeText, read) = Image(LineText, given)
    <3>1. Image(NodeText, read) = Image(LineText, Only(clean, FieldLine))
      BY <2>2, <2>3, SplitKeepsFields
    <3>2. Image(LineText, Only(clean, FieldLine)) = Image(LineText, given)
      BY <2>1, <2>2, CleanKeepsFields
    <3> QED
      BY <3>1, <3>2
  <2>5. read \in Seq(Node) /\ given \in Seq(Line)
    <3>1. FlattenSeq(template) \in Seq(Node)
      <4>1. template \in Seq(Seq(Node))
        BY <1>1, TemplateTyped DEF Trees, Node
      <4> QED
        BY <4>1, FlattenTyped, Zenon
    <3>2. Only(FlattenSeq(template), FieldNode) \in Seq(Node)
      BY <3>1, OnlyTyped, Zenon
    <3>3. Only(body, FieldLine) \in Seq(Line)
      BY <2>1, OnlyTyped, Zenon
    <3> QED
      BY <2>2, <3>2, <3>3
  <2>6. [i \in DOMAIN read |-> read[i].text] = Image(NodeText, read)
    <3>1. \A i \in DOMAIN read : NodeText[read[i]] = read[i].text
      BY <2>5, Texts
    <3> QED
      BY <3>1 DEF Image
  <2>7. [i \in DOMAIN given |-> given[i].text] = Image(LineText, given)
    <3>1. \A i \in DOMAIN given : LineText[given[i]] = given[i].text
      BY <2>5, Texts
    <3> QED
      BY <3>1 DEF Image
  <2>8. /\ read = Only(FlattenSeq(template), [depth : Nat, text : {"field", "($x)"}])
        /\ given = Only(body, LinesOf({"field", "($x)"}))
    BY <2>2 DEF FieldNode, FieldText, FieldLine
  <2> QED
    BY <2>4, <2>6, <2>7, <2>8 DEF FieldsKept
<1> QED
  BY <1>1, TemplatesInductive, PTL

-----------------------------------------------------------------------------
(* How deep the lines of a document are: those above line i, of which it   *)
(* is a child, a child's child and so on.                                  *)
Above(f, i) == {j \in 1..(i - 1) : \A k \in (j + 1)..i : f[k] > f[j]}
Depths(f, n) == [i \in 1..n |-> Cardinality(Above(f, i))]

LEMMA AboveFinite ==
  ASSUME NEW f, NEW i \in Nat
  PROVE  IsFiniteSet(Above(f, i)) /\ Cardinality(Above(f, i)) \in Nat
<1>1. IsFiniteSet(1..(i - 1)) /\ Above(f, i) \subseteq 1..(i - 1)
  BY FS_Interval DEF Above
<1>2. IsFiniteSet(Above(f, i))
  BY <1>1, FS_Subset
<1> QED
  BY <1>2, FS_CardinalityType

LEMMA AboveSmaller ==
  ASSUME NEW f, NEW i \in Nat, NEW j \in Nat, Above(f, j) \subseteq Above(f, i)
  PROVE  Cardinality(Above(f, j)) <= Cardinality(Above(f, i))
<1>1. IsFiniteSet(Above(f, i))
  BY AboveFinite
<1> QED
  BY <1>1, FS_Subset

LEMMA AboveNested ==
  ASSUME NEW n \in Nat, NEW f \in [1..n -> Nat], NEW i \in 1..n, NEW j \in Above(f, i)
  PROVE  /\ \A k \in (j + 1)..i : j \in Above(f, k)
         /\ Cardinality(Above(f, j)) < Cardinality(Above(f, i))
<1>1. j \in 1..(i - 1) /\ \A k \in (j + 1)..i : f[k] > f[j]
  BY DEF Above
<1>2. \A k \in (j + 1)..i : j \in Above(f, k)
  BY <1>1 DEF Above
<1>3. ASSUME NEW m \in Above(f, j) PROVE m \in Above(f, i)
  <2>1. m \in 1..(j - 1) /\ \A k \in (m + 1)..j : f[k] > f[m]
    BY <1>3 DEF Above
  <2>2. f[j] > f[m] /\ f[j] \in Nat /\ f[m] \in Nat
    BY <1>1, <2>1
  <2>3. ASSUME NEW k \in (m + 1)..i PROVE f[k] > f[m]
    <3>1. CASE k <= j
      BY <1>1, <2>1, <3>1
    <3>2. CASE ~(k <= j)
      <4>1. k \in (j + 1)..i /\ f[k] \in Nat
        BY <1>1, <2>1, <3>2
      <4>2. f[k] > f[j]
        BY <1>1, <4>1
      <4> QED
        BY <2>2, <4>1, <4>2
    <3> QED
      BY <3>1, <3>2
  <2> QED
    BY <1>1, <2>1, <2>3 DEF Above
<1>4. j \notin Above(f, j)
  BY <1>1 DEF Above
<1>5. PICK A, B : A = Above(f, j) /\ B = Above(f, i)
  OBVIOUS
<1>6. IsFiniteSet(A) /\ IsFiniteSet(B) /\ Cardinality(A) \in Nat /\ Cardinality(B) \in Nat
  BY <1>1, <1>5, AboveFinite
<1>7. A \cup {j} \subseteq B
  BY <1>3, <1>5
<1>8. Cardinality(A \cup {j}) = Cardinality(A) + 1 /\ Cardinality(A \cup {j}) <= Cardinality(B)
  BY <1>4, <1>5, <1>6, <1>7, FS_AddElement, FS_Subset
<1> QED
  BY <1>2, <1>5, <1>6, <1>8

(* Printing a document by its depths leaves every line under the same      *)
(* lines.                                                                  *)
LEMMA SameAbove ==
  ASSUME NEW n \in Nat, NEW f \in [1..n -> Nat], NEW i \in 1..n
  PROVE  Above(Depths(f, n), i) = Above(f, i)
<1> DEFINE g == Depths(f, n)
<1>1. \A k \in 1..n : g[k] = Cardinality(Above(f, k)) /\ g[k] \in Nat
  BY AboveFinite DEF Depths
<1> HIDE DEF g
<1>2. ASSUME NEW j \in Above(f, i) PROVE j \in Above(g, i)
  <2>1. j \in 1..(i - 1)
    BY DEF Above
  <2>2. ASSUME NEW k \in (j + 1)..i PROVE g[k] > g[j]
    <3>1. j \in Above(f, k) /\ k \in 1..n /\ j \in 1..n
      BY <2>1, AboveNested
    <3>2. Cardinality(Above(f, j)) < Cardinality(Above(f, k))
      BY <3>1, AboveNested
    <3> QED
      BY <1>1, <3>1, <3>2
  <2> QED
    BY <2>1, <2>2 DEF Above
<1>3. ASSUME NEW j \in Above(g, i), j \notin Above(f, i) PROVE FALSE
  <2>1. j \in 1..(i - 1) /\ j \in 1..n /\ \A k \in (j + 1)..i : g[k] > g[j]
    BY DEF Above
  <2> DEFINE K == {k \in (j + 1)..i : f[k] <= f[j]}
  <2>2. K # {} /\ K \in SUBSET Nat
    <3>1. PICK k \in (j + 1)..i : ~(f[k] > f[j])
      BY <1>3, <2>1 DEF Above
    <3>2. k \in 1..n /\ k \in Nat
      BY <2>1
    <3>3. f[k] \in Nat /\ f[j] \in Nat
      BY <2>1, <3>2
    <3>4. f[k] <= f[j]
      BY <3>1, <3>3
    <3>5. k \in K
      BY <3>4, Zenon
    <3>6. (j + 1)..i \in SUBSET Nat
      BY <2>1
    <3>7. K \in SUBSET Nat
      BY <3>6, Zenon
    <3> QED
      BY <3>5, <3>7, Zenon
  <2>3. PICK k \in K : \A m \in K : k <= m
    <3> HIDE DEF K
    <3> QED
      BY <2>2, LeastNumber
  <2>4. /\ k \in (j + 1)..i /\ k \in 1..n /\ f[k] <= f[j] /\ f[k] \in Nat /\ f[j] \in Nat
        /\ \A m \in j..(k - 1) : f[k] <= f[m]
    <3>1. k \in (j + 1)..i /\ k \in 1..n /\ f[k] <= f[j] /\ f[k] \in Nat /\ f[j] \in Nat
      BY <2>1
    <3>2. ASSUME NEW m \in j..(k - 1) PROVE f[k] <= f[m]
      <4>1. CASE m = j
        BY <3>1, <4>1
      <4>2. CASE m # j
        <5>1. m \in (j + 1)..i /\ m \in 1..n /\ m < k /\ f[m] \in Nat
          BY <2>1, <3>1, <4>2
        <5>2. m \notin K
          BY <2>3, <3>1, <5>1
        <5> QED
          BY <3>1, <5>1, <5>2
      <4> QED
        BY <4>1, <4>2
    <3> QED
      BY <3>1, <3>2
  <2>5. ASSUME NEW m \in Above(f, k) PROVE m \in Above(f, j)
    <3>1. m \in 1..(k - 1) /\ \A l \in (m + 1)..k : f[l] > f[m]
      BY DEF Above
    <3>2. f[k] > f[m] /\ f[m] \in Nat
      BY <2>4, <3>1
    <3>3. m < j
      BY <2>1, <2>4, <3>1, <3>2
    <3>4. \A l \in (m + 1)..j : l \in (m + 1)..k
      BY <2>1, <2>4, <3>1
    <3> QED
      BY <2>1, <3>1, <3>3, <3>4 DEF Above
  <2>6. Cardinality(Above(f, k)) <= Cardinality(Above(f, j))
    <3>1. k \in Nat /\ j \in Nat
      BY <2>1, <2>4
    <3>2. Above(f, k) \subseteq Above(f, j)
      BY <2>5, Zenon
    <3> QED
      BY <3>1, <3>2, AboveSmaller
  <2>7. /\ g[k] > g[j] /\ g[k] = Cardinality(Above(f, k)) /\ g[j] = Cardinality(Above(f, j))
        /\ g[k] \in Nat /\ g[j] \in Nat
    BY <1>1, <2>1, <2>4
  <2> QED
    BY <2>6, <2>7
<1> QED
  BY <1>2, <1>3 DEF g

-----------------------------------------------------------------------------
LevelsOf(d) == [i \in 1..Len(d) |-> Level(d, i)]

LEMMA LevelsTyped ==
  ASSUME NEW d \in Seq(ContentLine)
  PROVE  /\ LevelsOf(d) \in [1..Len(d) -> Nat] /\ Len(d) \in Nat /\ DOMAIN d = 1..Len(d)
         /\ \A i \in 1..Len(d) : LevelsOf(d)[i] = Level(d, i)
         /\ \A i \in 1..Len(d) : d[i] \in Line /\ d[i] \in ContentLine
<1>1. Len(d) \in Nat /\ DOMAIN d = 1..Len(d) /\ \A i \in 1..Len(d) : d[i] \in ContentLine
  OBVIOUS
<1>2. \A i \in 1..Len(d) : d[i] \in Line
  BY <1>1, LineSets
<1>3. \A i \in 1..Len(d) : d[i].pad \in Seq(White)
  BY <1>2, LineSets
<1>4. \A i \in 1..Len(d) : Level(d, i) \in Nat
  BY <1>3 DEF Level
<1> QED
  BY <1>1, <1>2, <1>4 DEF LevelsOf

LEMMA UnderIsAbove ==
  ASSUME NEW d \in Seq(ContentLine), NEW i \in 1..Len(d)
  PROVE  Under(d, i) = Above(LevelsOf(d), i)
<1>1. /\ Len(d) \in Nat
      /\ \A k \in 1..Len(d) : LevelsOf(d)[k] = Level(d, k)
  BY LevelsTyped
<1>2. ASSUME NEW j \in 1..(i - 1)
      PROVE  (\A k \in (j + 1)..i : Level(d, k) > Level(d, j))
             <=> (\A k \in (j + 1)..i : LevelsOf(d)[k] > LevelsOf(d)[j])
  <2>1. j \in 1..Len(d) /\ \A k \in (j + 1)..i : k \in 1..Len(d)
    BY <1>1
  <2>2. LevelsOf(d)[j] = Level(d, j) /\ \A k \in (j + 1)..i : LevelsOf(d)[k] = Level(d, k)
    BY <1>1, <2>1
  <2> QED
    BY <2>2
<1> QED
  BY <1>2 DEF Under, Above

(* r is d without its layout, rendered or not. *)
Shapes(d, r) ==
    /\ r \in Trees /\ Len(r) = Len(d)
    /\ \A i \in 1..Len(d) : /\ r[i].depth = Cardinality(Under(d, i))
                            /\ r[i].text = "---" <=> d[i].text = "---"

LEMMA PrintedUnder ==
  ASSUME NEW d \in Seq(ContentLine), NEW r, Shapes(d, r), NEW i \in 1..Len(d)
  PROVE  Under(Printed(r), i) = Under(d, i)
<1>1. PICK p, n, f : p = Printed(r) /\ n = Len(d) /\ f = LevelsOf(d)
  OBVIOUS
<1>2. p \in Seq(ContentLine) /\ Len(p) = n /\ \A k \in 1..n : Level(p, k) = r[k].depth
  BY <1>1, PrintedTyped DEF Shapes, Level
<1>3. f \in [1..n -> Nat] /\ n \in Nat /\ i \in 1..n
  BY <1>1, LevelsTyped
<1>4. \A k \in 1..n : r[k].depth = Cardinality(Above(f, k))
  BY <1>1, UnderIsAbove DEF Shapes
<1>5. LevelsOf(p) = Depths(f, n)
  BY <1>2, <1>4 DEF LevelsOf, Depths
<1>6. Under(p, i) = Above(Depths(f, n), i)
  BY <1>2, <1>3, <1>5, UnderIsAbove
<1>7. Above(Depths(f, n), i) = Above(f, i)
  BY <1>3, SameAbove
<1>8. Under(d, i) = Above(f, i)
  BY <1>1, UnderIsAbove
<1> QED
  BY <1>1, <1>6, <1>7, <1>8

LEMMA PrintedTree ==
  ASSUME NEW d \in Seq(ContentLine), NEW r, Shapes(d, r)
  PROVE  Tree(Printed(r)) = r
<1>1. PICK p, n : p = Printed(r) /\ n = Len(d)
  OBVIOUS
<1>2. /\ p \in Seq(ContentLine) /\ Len(p) = n /\ n \in Nat /\ DOMAIN p = 1..n
      /\ r \in Trees /\ Len(r) = n /\ DOMAIN r = 1..n
      /\ \A i \in 1..n : p[i].text = r[i].text
  BY <1>1, PrintedTyped DEF Shapes, Trees
<1>3. ASSUME NEW i \in 1..n
      PROVE  [depth |-> Cardinality(Under(p, i)), text |-> p[i].text] = r[i]
  <2>1. Cardinality(Under(p, i)) = r[i].depth
    BY <1>1, PrintedUnder DEF Shapes
  <2>2. r[i] = [depth |-> r[i].depth, text |-> r[i].text]
    BY <1>2, NodeTyped
  <2> QED
    BY <1>2, <2>1, <2>2
<1>4. Tree(p) = [i \in 1..n |-> [depth |-> Cardinality(Under(p, i)), text |-> p[i].text]]
  BY <1>2 DEF Tree
<1>5. r = [i \in 1..n |-> r[i]]
  BY <1>2 DEF Trees
<1> QED
  BY <1>1, <1>3, <1>4, <1>5

(* Lines that line up by their white space line up by their depth.         *)
LEMMA AlignedByDepth ==
  ASSUME NEW d \in Seq(ContentLine), NEW i \in 1..Len(d), NEW j \in 1..(i - 1),
         Level(d, j) = Level(d, i), \A k \in j..i : Level(d, k) >= Level(d, i)
  PROVE  /\ Cardinality(Under(d, j)) = Cardinality(Under(d, i))
         /\ \A k \in j..i : Cardinality(Under(d, k)) >= Cardinality(Under(d, i))
<1>1. PICK f, n : f = LevelsOf(d) /\ n = Len(d)
  OBVIOUS
<1>2. /\ f \in [1..n -> Nat] /\ n \in Nat /\ i \in 1..n /\ j \in 1..n
      /\ \A k \in 1..n : f[k] = Level(d, k) /\ Under(d, k) = Above(f, k) /\ f[k] \in Nat
  <2>1. f \in [1..n -> Nat] /\ n \in Nat /\ \A k \in 1..n : f[k] = Level(d, k)
    BY <1>1, LevelsTyped
  <2>2. \A k \in 1..n : Under(d, k) = Above(f, k)
    BY <1>1, UnderIsAbove
  <2>3. i \in 1..n /\ j \in 1..n
    BY <1>1, <2>1
  <2> QED
    BY <2>1, <2>2, <2>3
<1>3. f[j] = f[i] /\ \A k \in j..i : k \in 1..n /\ f[i] <= f[k]
  BY <1>2
<1>4. ASSUME NEW k \in j..i, NEW m \in Above(f, i) PROVE m \in Above(f, k)
  <2>1. m \in 1..(i - 1) /\ \A l \in (m + 1)..i : f[l] > f[m]
    BY <1>4 DEF Above
  <2>2. f[i] > f[m] /\ m \in 1..n /\ f[m] \in Nat
    BY <1>2, <2>1
  <2>3. m < j
    BY <1>2, <1>3, <2>1, <2>2
  <2>4. m \in 1..(k - 1) /\ \A l \in (m + 1)..k : l \in (m + 1)..i
    BY <1>2, <2>1, <2>3
  <2> QED
    BY <2>1, <2>4 DEF Above
<1>5. ASSUME NEW m \in Above(f, j) PROVE m \in Above(f, i)
  <2>1. m \in 1..(j - 1) /\ \A l \in (m + 1)..j : f[l] > f[m]
    BY <1>5 DEF Above
  <2>2. f[j] > f[m] /\ m \in 1..n /\ f[m] \in Nat
    BY <1>2, <2>1
  <2>3. ASSUME NEW l \in (m + 1)..i PROVE f[l] > f[m]
    <3>1. CASE l <= j
      BY <1>2, <2>1, <3>1
    <3>2. CASE ~(l <= j)
      <4>1. l \in j..i /\ l \in 1..n /\ f[l] \in Nat
        BY <1>2, <2>1, <3>2
      <4>2. f[i] <= f[l]
        BY <1>3, <4>1
      <4> QED
        BY <1>2, <1>3, <2>2, <4>1, <4>2
    <3> QED
      BY <3>1, <3>2
  <2> QED
    BY <1>2, <2>1, <2>3 DEF Above
<1>6. ASSUME NEW k \in j..i PROVE Cardinality(Above(f, i)) <= Cardinality(Above(f, k))
  <2>1. Above(f, i) \subseteq Above(f, k)
    BY <1>4, <1>6, Zenon
  <2>2. i \in Nat /\ k \in Nat
    BY <1>2, <1>6
  <2> QED
    BY <2>1, <2>2, AboveSmaller
<1>7. Above(f, j) = Above(f, i)
  <2>1. j \in j..i
    BY <1>2
  <2>2. Above(f, i) \subseteq Above(f, j)
    BY <1>4, <2>1, Zenon
  <2>3. Above(f, j) \subseteq Above(f, i)
    BY <1>5, Zenon
  <2> QED
    BY <2>2, <2>3
<1>8. \A k \in j..i : Cardinality(Above(f, k)) \in Nat /\ Under(d, k) = Above(f, k)
  BY <1>2, <1>3, AboveFinite
<1>9. Cardinality(Above(f, i)) \in Nat /\ Under(d, i) = Above(f, i) /\ Under(d, j) = Above(f, j)
  BY <1>2, AboveFinite
<1> QED
  BY <1>6, <1>7, <1>8, <1>9

-----------------------------------------------------------------------------
(* A document stays well formed without its layout.                        *)
LEMMA PrintedLines ==
  ASSUME NEW d \in Seq(ContentLine), NEW r, Shapes(d, r)
  PROVE  /\ Printed(r) \in Seq(ContentLine) /\ Len(Printed(r)) = Len(d)
         /\ DOMAIN Printed(r) = 1..Len(d) /\ DOMAIN d = 1..Len(d) /\ Len(d) \in Nat
         /\ \A i \in 1..Len(d) : /\ IsField(Printed(r), i) <=> IsField(d, i)
                                 /\ Level(Printed(r), i) = Cardinality(Under(d, i))
                                 /\ Level(Printed(r), i) \in Nat
                                 /\ Printed(r)[i].pad \in Seq({"space"})
<1>1. PICK p, n : p = Printed(r) /\ n = Len(d)
  OBVIOUS
<1>2. /\ p \in Seq(ContentLine) /\ Len(p) = n /\ n \in Nat /\ DOMAIN p = 1..n /\ DOMAIN d = 1..n
      /\ \A i \in 1..n : /\ p[i].text = r[i].text /\ Len(p[i].pad) = r[i].depth
                         /\ p[i].pad \in Seq({"space"})
  BY <1>1, PrintedTyped DEF Shapes
<1>3. \A i \in 1..n : /\ r[i].depth = Cardinality(Under(d, i))
                      /\ r[i].text = "---" <=> d[i].text = "---"
  BY <1>1 DEF Shapes
<1>4. \A i \in 1..n : Level(p, i) = Cardinality(Under(d, i)) /\ Level(p, i) \in Nat
  BY <1>2, <1>3 DEF Level
<1>5. \A i \in 1..n : IsField(p, i) <=> IsField(d, i)
  BY <1>2, <1>3 DEF IsField
<1> QED
  BY <1>1, <1>2, <1>4, <1>5

LEMMA PrintedFieldFits ==
  ASSUME NEW d \in Seq(ContentLine), NEW r, Shapes(d, r), NEW i \in 1..Len(d), FieldFits(d, i)
  PROVE  FieldFits(Printed(r), i)
<1>1. PICK p, n : p = Printed(r) /\ n = Len(d)
  OBVIOUS
<1>2. n \in Nat /\ \A k \in 1..n : /\ IsField(p, k) <=> IsField(d, k)
                                   /\ Level(p, k) = Cardinality(Under(d, k))
  BY <1>1, PrintedLines
<1>3. Under(p, i) = Under(d, i)
  BY <1>1, PrintedUnder
<1>4. CASE i = 1
  BY <1>1, <1>4 DEF FieldFits
<1>5. CASE i - 1 \in Under(d, i) /\ IsField(d, i - 1)
  <2>1. i - 1 \in 1..n
    BY <1>1, <1>2, <1>5 DEF Under
  <2> QED
    BY <1>1, <1>2, <1>3, <1>5, <2>1 DEF FieldFits
<1>6. ASSUME NEW j \in 1..(i - 1), IsField(d, j), Level(d, j) = Level(d, i),
             \A k \in j..i : Level(d, k) >= Level(d, i)
      PROVE  FieldFits(p, i)
  <2>1. /\ Cardinality(Under(d, j)) = Cardinality(Under(d, i))
        /\ \A k \in j..i : Cardinality(Under(d, k)) >= Cardinality(Under(d, i))
    BY <1>6, AlignedByDepth
  <2>2. j \in 1..n /\ i \in 1..n /\ \A k \in j..i : k \in 1..n
    BY <1>1, <1>2
  <2>3. Level(p, j) = Level(p, i) /\ \A k \in j..i : Level(p, k) >= Level(p, i)
    BY <1>2, <2>1, <2>2
  <2> QED
    BY <1>2, <1>6, <2>2, <2>3 DEF FieldFits
<1> QED
  BY <1>1, <1>4, <1>5, <1>6 DEF FieldFits

LEMMA PrintedValueFits ==
  ASSUME NEW d \in Seq(ContentLine), NEW r, Shapes(d, r), NEW i \in 1..Len(d), WellFormed(d)
  PROVE  ValueFits(Printed(r), i)
<1>1. PICK p, n, f : p = Printed(r) /\ n = Len(d) /\ f = LevelsOf(d)
  OBVIOUS
<1>2. n \in Nat /\ DOMAIN d = 1..n
      /\ \A k \in 1..n : /\ IsField(p, k) <=> IsField(d, k)
                         /\ Level(p, k) = Cardinality(Under(d, k))
  BY <1>1, PrintedLines
<1>3. f \in [1..n -> Nat] /\ n \in Nat /\ i \in 1..n
      /\ \A k \in 1..n : f[k] = Level(d, k)
  BY <1>1, LevelsTyped
<1>5. \A k \in 1..n : Under(d, k) = Above(f, k)
  BY <1>1, UnderIsAbove
<1>4. ASSUME NEW j \in 1..(i - 1), IsField(p, j), \A k \in (j + 1)..i : ~IsField(p, k)
      PROVE  Level(p, j) < Level(p, i)
  <2>1. j \in 1..n /\ i \in 1..n /\ \A k \in (j + 1)..i : k \in 1..n
    <3>1. n \in Nat /\ i \in 1..n
      BY <1>3
    <3> QED
      BY <3>1
  <2>2. IsField(d, j) /\ \A k \in (j + 1)..i : ~IsField(d, k)
    <3>1. \A k \in 1..n : IsField(p, k) <=> IsField(d, k)
      BY <1>2
    <3> QED
      BY <1>4, <2>1, <3>1
  <2>3. ASSUME NEW k \in (j + 1)..i PROVE f[k] > f[j]
    <3>1. k \in 1..n /\ j \in 1..(k - 1) /\ \A m \in (j + 1)..k : m \in (j + 1)..i
      BY <2>1
    <3>2. ValueFits(d, k)
      BY <1>2, <2>2, <3>1 DEF WellFormed
    <3>3. Level(d, j) < Level(d, k)
      BY <2>2, <3>1, <3>2 DEF ValueFits
    <3> QED
      BY <1>3, <2>1, <3>1, <3>3
  <2>4. j \in Above(f, i)
    BY <2>3 DEF Above
  <2>5. Cardinality(Above(f, j)) < Cardinality(Above(f, i))
    BY <1>3, <2>4, AboveNested
  <2>6. Level(p, j) = Cardinality(Above(f, j)) /\ Level(p, i) = Cardinality(Above(f, i))
    BY <1>2, <1>5, <2>1
  <2> QED
    BY <2>5, <2>6
<1> QED
  BY <1>1, <1>4 DEF ValueFits

LEMMA PrintedWellFormed ==
  ASSUME NEW d \in Seq(ContentLine), NEW r, Shapes(d, r), WellFormed(d)
  PROVE  WellFormed(Printed(r))
<1>1. DOMAIN Printed(r) = 1..Len(d) /\ DOMAIN d = 1..Len(d)
      /\ \A i \in 1..Len(d) : IsField(Printed(r), i) <=> IsField(d, i)
  BY PrintedLines
<1>2. ASSUME NEW i \in 1..Len(d), IsField(d, i)
      PROVE  FieldFits(Printed(r), i)
  <2>1. FieldFits(d, i)
    BY <1>1, <1>2 DEF WellFormed
  <2> QED
    BY <2>1, PrintedFieldFits
<1>3. ASSUME NEW i \in 1..Len(d)
      PROVE  ValueFits(Printed(r), i)
  BY PrintedValueFits
<1> QED
  BY <1>1, <1>2, <1>3 DEF WellFormed

(* It begins with its first field, and has no separator: a value is deeper *)
(* than the field it belongs to.                                           *)
LEMMA PrintedNoBar ==
  ASSUME NEW d \in Seq(ContentLine), NEW r, Shapes(d, r), WellFormed(d), d # <<>>,
         d[1].text # "---"
  PROVE  /\ \A i \in 1..Len(d) : ~Separates(Printed(r)[i])
         /\ 1 \in 1..Len(d) /\ Printed(r)[1].pad = <<>>
<1>1. PICK p, n : p = Printed(r) /\ n = Len(d)
  OBVIOUS
<1>2. n \in Nat /\ DOMAIN p = 1..n
      /\ \A k \in 1..n : /\ IsField(p, k) <=> IsField(d, k)
                         /\ Level(p, k) = Cardinality(Under(d, k))
                         /\ Level(p, k) \in Nat
                         /\ p[k].pad \in Seq({"space"})
  BY <1>1, PrintedLines
<1>3. 1 \in 1..n /\ IsField(p, 1)
  BY <1>1, <1>2 DEF IsField
<1>4. p[1].pad = <<>>
  <2>1. Under(d, 1) = {}
    BY DEF Under
  <2>2. Level(p, 1) = 0
    BY <1>2, <1>3, <2>1, FS_EmptySet
  <2> QED
    BY <1>2, <1>3, <2>2 DEF Level
<1>5. ASSUME NEW i \in 1..n, Separates(p[i]) PROVE FALSE
  <2>1. ~IsField(p, i) /\ p[i].pad = <<>> /\ Level(p, i) = 0 /\ i # 1
    BY <1>3, <1>5 DEF Separates, IsField, Level
  <2> DEFINE S == {m \in 1..(i - 1) : IsField(p, i - m)}
  <2>2. S \in SUBSET Nat /\ i - 1 \in S
    BY <1>2, <1>3, <2>1
  <2>3. PICK m \in S : \A l \in S : m <= l
    <3> HIDE DEF S
    <3> QED
      BY <2>2, LeastNumber
  <2>4. PICK j : j = i - m
    OBVIOUS
  <2>5. j \in 1..(i - 1) /\ j \in 1..n /\ IsField(p, j)
    <3>1. m \in 1..(i - 1) /\ IsField(p, i - m)
      BY Zenon
    <3> HIDE DEF S
    <3>2. n \in Nat
      BY <1>2
    <3>3. j \in 1..(i - 1) /\ j \in 1..n
      BY <2>4, <3>1, <3>2
    <3> QED
      BY <2>4, <3>1, <3>3
  <2>6. ASSUME NEW k \in (j + 1)..i PROVE ~IsField(p, k)
    <3>1. CASE k = i
      BY <2>1, <3>1
    <3>2. CASE k # i
      <4>1. i - k \in 1..(i - 1) /\ i - k < m /\ i - (i - k) = k
        BY <2>4, <2>5, <3>2
      <4>2. ~(m <= i - k)
        BY <2>4, <2>5, <4>1
      <4>3. i - k \notin S
        <5> HIDE DEF S
        <5> QED
          BY <2>3, <4>2
      <4>4. i - k \in 1..(i - 1) /\ ~IsField(p, i - (i - k))
        BY <4>1, <4>3
      <4>5. i - (i - k) = k
        BY <4>1
      <4> QED
        BY <4>4, <4>5, Zenon
    <3> QED
      BY <3>1, <3>2
  <2>7. ValueFits(p, i)
    BY <1>1, PrintedValueFits
  <2>8. Level(p, j) < Level(p, i)
    BY <2>5, <2>6, <2>7 DEF ValueFits
  <2>9. Level(p, j) \in Nat
    <3> HIDE DEF S
    <3> QED
      BY <1>2, <2>5
  <2> QED
    BY <2>1, <2>8, <2>9
<1> QED
  BY <1>1, <1>3, <1>4, <1>5

-----------------------------------------------------------------------------
(* The objects are such documents.                                         *)
Good == {t \in Trees : /\ t # <<>> /\ Tree(Printed(t)) = t /\ WellFormed(Printed(t))
                       /\ Printed(t)[1].pad = <<>>
                       /\ \A i \in 1..Len(t) : ~Separates(Printed(t)[i])}

LEMMA RenderedShapes ==
  ASSUME NEW d \in Seq(ContentLine)
  PROVE  Shapes(d, RenderTree(Tree(d)))
<1>1. PICK t, r : t = Tree(d) /\ r = RenderTree(t)
  OBVIOUS
<1>2. /\ t \in Trees /\ Len(t) = Len(d)
      /\ \A i \in 1..Len(d) : t[i].depth = Cardinality(Under(d, i)) /\ t[i].text = d[i].text
  BY <1>1, TreeTyped
<1>3. r \in Trees /\ Len(r) = Len(t) /\ \A i \in 1..Len(t) : r[i].depth = t[i].depth
  BY <1>1, <1>2, RenderTreeTyped
<1>4. ASSUME NEW i \in 1..Len(t)
      PROVE  r[i].text = "---" <=> t[i].text = "---"
  <2>1. i \in DOMAIN t
    BY <1>2 DEF Trees
  <2>2. t[i] = [depth |-> t[i].depth, text |-> t[i].text]
    BY <1>2, NodeTyped
  <2>3. r[i] = [t[i] EXCEPT !.text = IF @ = "($x)" THEN "value" ELSE @]
    BY <1>1, <2>1 DEF RenderTree
  <2>4. PICK d1, x : t[i] = [depth |-> d1, text |-> x]
    BY <2>2
  <2>5. r[i].text = IF x = "($x)" THEN "value" ELSE x
    BY <2>3, <2>4
  <2>6. t[i].text = x
    BY <2>4
  <2> QED
    BY <2>5, <2>6
<1> QED
  BY <1>1, <1>2, <1>3, <1>4 DEF Shapes

LEMMA ObjectsAreGood ==
  ASSUME NEW d \in Seq(ContentLine), d # <<>>, WellFormed(d), IsObject(Tree(d))
  PROVE  RenderTree(Tree(d)) \in Good
<1>1. PICK r : r = RenderTree(Tree(d))
  OBVIOUS
<1>2. Shapes(d, r)
  BY <1>1, RenderedShapes
<1>3. r \in Trees /\ Len(r) = Len(d)
  BY <1>2 DEF Shapes
<1>4. Tree(Printed(r)) = r
  BY <1>2, PrintedTree
<1>5. WellFormed(Printed(r))
  BY <1>2, PrintedWellFormed
<1>6. d[1].text # "---"
  <2>1. 1 \in 1..Len(d)
    OBVIOUS
  <2>2. Tree(d)[1].text = d[1].text
    BY <2>1, TreeTyped
  <2> QED
    BY <2>2 DEF IsObject
<1>7. /\ \A i \in 1..Len(d) : ~Separates(Printed(r)[i])
      /\ 1 \in 1..Len(d) /\ Printed(r)[1].pad = <<>>
  BY <1>2, <1>6, PrintedNoBar
<1>8. r # <<>>
  BY <1>3, <1>7
<1> QED
  BY <1>1, <1>3, <1>4, <1>5, <1>7, <1>8 DEF Good

LEMMA RenderedGood ==
  ASSUME TInv, Renders, rendered = AllRendered, pc # "process", outcome # "args"
  PROVE  rendered \in Seq(Good) /\ rendered # <<>>
<1>1. PICK clean, kept : clean = DeindentYAML(Text) /\ kept = Kept(clean)
  OBVIOUS
<1>2. clean \in Seq(Line)
  BY <1>1, Bodies1, DeindentTyped
<1>3. Parses(clean) /\ SplitYAML(clean) # <<>> /\ template = SplitYAML(clean)
  BY <1>1 DEF TInv, Processed
<1>4. kept \in Seq(KeptDocs) /\ template = [i \in DOMAIN kept |-> Tree(kept[i])]
  BY <1>1, <1>2, <1>3, KeptTyped, ByContents DEF Trees1
<1>5. DOMAIN template = 1..Len(kept) /\ Len(kept) \in Nat /\ DOMAIN kept = 1..Len(kept)
  BY <1>4
<1>6. ASSUME NEW i \in 1..Len(kept) PROVE WellFormed(kept[i])
  <2>1. PICK cs, T, S : cs = Contents(clean) /\ T = Seq(ContentLine) /\ S = Seq(Line) \ {<<>>}
    OBVIOUS
  <2>2. cs \in Seq(T) /\ kept = Only(cs, S)
    BY <1>1, <1>2, <2>1, ContentsTyped DEF Docs, Kept
  <2>3. Elements(kept) = Elements(cs) \cap S
    BY <2>2, OnlyElements
  <2>4. kept[i] \in Elements(cs)
    BY <2>3 DEF Elements
  <2>5. PICK k \in 1..Len(cs) : kept[i] = cs[k]
    BY <2>4 DEF Elements
  <2>6. k \in DOMAIN cs
    BY <2>2, <2>5
  <2> QED
    BY <1>2, <1>3, <2>1, <2>5, <2>6, ByContents
<1>7. ASSUME NEW i \in 1..Len(kept) PROVE AllRendered[i] \in Good
  <2>1. PICK d : d = kept[i]
    OBVIOUS
  <2>2. d \in Seq(ContentLine) /\ d # <<>>
    BY <1>4, <2>1 DEF KeptDocs
  <2>3. template[i] = Tree(d) /\ i \in DOMAIN template
    BY <1>4, <1>5, <2>1
  <2>4. IsObject(Tree(d))
    BY <2>3 DEF Renders
  <2>5. RenderTree(Tree(d)) \in Good
    BY <1>6, <2>1, <2>2, <2>4, ObjectsAreGood
  <2> QED
    BY <2>3, <2>5 DEF AllRendered
<1>8. AllRendered = [i \in 1..Len(kept) |-> AllRendered[i]]
  BY <1>5 DEF AllRendered
<1>9. Len(kept) # 0
  BY <1>3, <1>4, <1>5
<1>10. rendered = [i \in 1..Len(kept) |-> AllRendered[i]]
  BY <1>8, Zenon
<1> QED
  BY <1>5, <1>7, <1>9, <1>10

-----------------------------------------------------------------------------
(* Lines without a separator go on with the last document. *)
NoBar(t) == \A l \in Elements(t) : ~Separates(l)

GoesOn(s, ss, c, t) == Contents(s \o t) = Append(ss, c \o Content(t))

LEMMA ContentsGoOn ==
  ASSUME NEW s \in Seq(Line), NEW ss \in Seq(Seq(ContentLine)), NEW c \in Seq(ContentLine),
         Contents(s) = Append(ss, c)
  PROVE  \A t \in Seq(Line) : NoBar(t) => GoesOn(s, ss, c, t)
<1> DEFINE P == {t \in Seq(Line) : NoBar(t) => GoesOn(s, ss, c, t)}
<1>1. <<>> \in P
  <2>1. s \o <<>> = s /\ c \o <<>> = c /\ Content(<<>>) = <<>>
    BY ContentTyped, ConcatEmptySeq
  <2> QED
    BY <2>1 DEF GoesOn
<1>2. ASSUME NEW t \in Seq(Line), NEW l \in Line, t \in P
      PROVE  Append(t, l) \in P
  <2>1. PICK a : a = Append(t, l)
    OBVIOUS
  <2>2. a \in Seq(Line) /\ Elements(a) = Elements(t) \cup {l}
    BY <2>1, AppendProperties, ElementsAppend
  <2>3. SUFFICES ASSUME NoBar(a) PROVE GoesOn(s, ss, c, a)
    BY <2>1, <2>2
  <2>4. ~Separates(l) /\ NoBar(t)
    BY <2>2, <2>3 DEF NoBar
  <2>5. PICK st, x, ct : st = s \o t /\ ct = Content(t) /\ x = c \o ct
    OBVIOUS
  <2>6. st \in Seq(Line) /\ ct \in Seq(ContentLine)
    BY <2>5, ContentTyped, ConcatProperties
  <2>7. x \in Seq(ContentLine)
    BY <2>5, <2>6, ConcatProperties
  <2>8. Contents(st) = Append(ss, x)
    <3>1. GoesOn(s, ss, c, t)
      BY <1>2, <2>4
    <3> QED
      BY <2>5, <3>1 DEF GoesOn
  <2>9. s \o a = Append(st, l)
    <3>1. ConcatAppends(Line, s, t, l)
      BY ConcatAppend
    <3> QED
      BY <2>1, <2>5, <3>1 DEF ConcatAppends
  <2>10. Contents(s \o a) = AddContent(Append(ss, x), l)
    <3>1. ContentsGrow(st, l)
      BY <2>6, ContentsAppend
    <3>2. Contents(Append(st, l)) = AddContent(Contents(st), l)
      BY <3>1 DEF ContentsGrow
    <3> QED
      BY <2>8, <2>9, <3>2
  <2>11. Content(a) = IF l \in ContentLine THEN Append(ct, l) ELSE ct
    BY <2>1, <2>5, ContentAppend
  <2>12. CASE l \in ContentLine
    <3>1. LastGrown(Append(ss, x), l) = Append(ss, Append(x, l))
      <4>1. GrowsLast(ContentLine, ss, x, l)
        BY <2>7, <2>12, LastAppended
      <4> QED
        BY <4>1 DEF GrowsLast
    <3>2. c \o Append(ct, l) = Append(x, l)
      <4>1. ConcatAppends(ContentLine, c, ct, l)
        BY <2>6, <2>12, ConcatAppend
      <4> QED
        BY <2>5, <4>1 DEF ConcatAppends
    <3>3. AddContent(Append(ss, x), l) = LastGrown(Append(ss, x), l)
      BY <2>4, <2>12 DEF AddContent
    <3>4. Content(a) = Append(ct, l)
      BY <2>11, <2>12
    <3> QED
      BY <2>10, <3>1, <3>2, <3>3, <3>4, Zenon DEF GoesOn
  <2>13. CASE l \notin ContentLine
    <3>1. AddContent(Append(ss, x), l) = Append(ss, x)
      BY <2>4, <2>13 DEF AddContent
    <3>2. Content(a) = ct
      BY <2>11, <2>13
    <3> QED
      BY <2>5, <2>10, <3>1, <3>2, Zenon DEF GoesOn
  <2> QED
    BY <2>12, <2>13
<1>3. \A t \in Seq(Line) : t \in P
  <2> HIDE DEF P
  <2> QED
    BY <1>1, <1>2, InductionOnSequences, Zenon
<1> QED
  BY <1>3

LEMMA ElementsConcat ==
  ASSUME NEW T, NEW s \in Seq(T), NEW t \in Seq(T)
  PROVE  Elements(s \o t) = Elements(s) \cup Elements(t)
<1>1. PICK v : v = s \o t
  OBVIOUS
<1>2. Concat(T, s, t, v)
  BY <1>1, ConcatIs
<1>3. Len(s) \in Nat /\ Len(t) \in Nat /\ Len(v) = Len(s) + Len(t)
  BY <1>2 DEF Concat
<1>4. ASSUME NEW i \in 1..Len(v) PROVE v[i] \in Elements(s) \cup Elements(t)
  <2>1. CASE i <= Len(s)
    <3>1. i \in 1..Len(s) /\ v[i] = s[i]
      BY <1>2, <1>3, <2>1 DEF Concat
    <3> QED
      BY <3>1 DEF Elements
  <2>2. CASE ~(i <= Len(s))
    <3>1. PICK j : j = i - Len(s)
      OBVIOUS
    <3>2. j \in 1..Len(t) /\ i = Len(s) + j
      BY <1>3, <2>2, <3>1
    <3>3. v[i] = t[j]
      BY <1>2, <3>2 DEF Concat
    <3> QED
      BY <3>2, <3>3 DEF Elements
  <2> QED
    BY <2>1, <2>2
<1>5. ASSUME NEW i \in 1..Len(s) PROVE s[i] \in Elements(v)
  <2>1. i \in 1..Len(v) /\ s[i] = v[i]
    BY <1>2, <1>3 DEF Concat
  <2> QED
    BY <2>1 DEF Elements
<1>6. ASSUME NEW i \in 1..Len(t) PROVE t[i] \in Elements(v)
  <2>1. Len(s) + i \in 1..Len(v) /\ t[i] = v[Len(s) + i]
    BY <1>2, <1>3 DEF Concat
  <2> QED
    BY <2>1 DEF Elements
<1>7. ASSUME NEW e \in Elements(v) PROVE e \in Elements(s) \cup Elements(t)
  BY <1>4, <1>7 DEF Elements
<1>8. ASSUME NEW e \in Elements(s) \cup Elements(t) PROVE e \in Elements(v)
  <2>1. e \in Elements(s) => e \in Elements(v)
    BY <1>5 DEF Elements
  <2>2. e \in Elements(t) => e \in Elements(v)
    BY <1>6 DEF Elements
  <2> QED
    BY <1>8, <2>1, <2>2
<1> QED
  BY <1>1, <1>7, <1>8, Zenon

-----------------------------------------------------------------------------
(* What RenderToString writes, object by object. *)
Body(r) == Printed(r) \o <<EmptyLine>>
ChunkOf(i, r) == (IF i > 1 THEN <<Bar>> ELSE <<>>) \o Printed(r) \o <<EmptyLine>>
Chunks(rs) == [i \in DOMAIN rs |-> ChunkOf(i, rs[i])]
OutputOf(rs) == FlattenSeq(Chunks(rs))
Unindented(s) == \E l \in Elements(s) : ~Blank(l) /\ l.pad = <<>>

LEMMA EmptyLineBlank ==
  EmptyLine \in Line /\ Blank(EmptyLine) /\ EmptyLine \notin ContentLine /\ ~Separates(EmptyLine)
<1>1. EmptyLine \in Line
  BY Separators
<1>2. Blank(EmptyLine)
  BY Zenon DEF EmptyLine, Blank
<1>3. EmptyLine \notin ContentLine
  BY <1>1, <1>2, LineSets
<1>4. \A l \in Line : Separates(l) => l \in ContentLine
  BY DEF Line, LinesOf, Separates, ContentLine
<1> QED
  BY <1>1, <1>2, <1>3, <1>4

LEMMA BodyLines ==
  ASSUME NEW r \in Good
  PROVE  /\ Body(r) \in Seq(Line) /\ Content(Body(r)) = Printed(r)
         /\ NoBar(Body(r)) /\ SpacesOnly(Body(r)) /\ Unindented(Body(r))
<1>1. PICK p : p = Printed(r)
  OBVIOUS
<1>2. p \in Seq(ContentLine) /\ p \in Seq(Line) /\ Len(p) = Len(r) /\ r \in Trees /\ r # <<>>
  BY <1>1, PrintedTyped, LineSets DEF Good
<1>3. Body(r) = Append(p, EmptyLine)
  BY <1>1, <1>2, EmptyLineBlank, AppendIsConcat DEF Body
<1>4. Body(r) \in Seq(Line) /\ Elements(Body(r)) = Elements(p) \cup {EmptyLine}
  BY <1>2, <1>3, EmptyLineBlank, AppendProperties, ElementsAppend
<1>5. Content(Body(r)) = p
  <2>1. Content(p) = p
    <3>1. \A s \in Seq(ContentLine) : Only(s, ContentLine) = s
      BY OnlyAll
    <3> QED
      BY <1>2, <3>1 DEF Content, ContentLine
  <2> QED
    BY <1>2, <1>3, <2>1, EmptyLineBlank, ContentAppend
<1>6. \A i \in 1..Len(p) : /\ ~Separates(p[i]) /\ p[i].pad \in Seq({"space"})
                           /\ p[i] \in ContentLine
  <2>1. \A i \in 1..Len(p) : ~Separates(p[i])
    BY <1>1, <1>2 DEF Good
  <2>2. \A i \in 1..Len(p) : p[i].pad \in Seq({"space"})
    BY <1>1, <1>2, PrintedTyped
  <2> QED
    BY <1>2, <2>1, <2>2
<1>7. \A l \in Elements(p) : ~Separates(l) /\ l.pad \in Seq({"space"}) /\ l \in ContentLine
  BY <1>6 DEF Elements
<1>8. NoBar(Body(r))
  BY <1>4, <1>7, EmptyLineBlank DEF NoBar
<1>9. SpacesOnly(Body(r))
  BY <1>4, <1>7, EmptyLineBlank DEF SpacesOnly
<1>10. Unindented(Body(r))
  <2>1. 1 \in 1..Len(p)
    BY <1>2 DEF Trees
  <2>2. p[1].pad = <<>> /\ p[1] \in ContentLine /\ p[1] \in Elements(p)
    BY <1>1, <1>6, <2>1 DEF Good, Elements
  <2>3. ~Blank(p[1])
    BY <2>2, LineSets
  <2> QED
    BY <1>4, <2>2, <2>3 DEF Unindented
<1> QED
  BY <1>1, <1>4, <1>5, <1>8, <1>9, <1>10

Regroups(T, a, b, c) == (a \o b) \o c = a \o (b \o c)

LEMMA Regrouped ==
  ASSUME NEW T, NEW a \in Seq(T), NEW b \in Seq(T), NEW c \in Seq(T)
  PROVE  Regroups(T, a, b, c)
<1>1. (a \o b) \o c = a \o (b \o c)
  BY ConcatAssociative
<1> QED
  BY <1>1, Zenon DEF Regroups

LEMMA ChunkIs ==
  ASSUME NEW i \in Nat, NEW r \in Good
  PROVE  /\ ChunkOf(i, r) \in Seq(Line)
         /\ i > 1 => ChunkOf(i, r) = <<Bar>> \o Body(r)
         /\ ~(i > 1) => ChunkOf(i, r) = Body(r)
<1>1. PICK p, e, b : p = Printed(r) /\ e = <<EmptyLine>> /\ b = <<Bar>>
  OBVIOUS
<1>2. p \in Seq(Line) /\ e \in Seq(Line) /\ b \in Seq(Line)
  <2>1. p \in Seq(Line)
    BY <1>1, PrintedTyped, LineSets DEF Good
  <2> QED
    BY <1>1, <2>1, Separators
<1>3. i > 1 => ChunkOf(i, r) = b \o Body(r)
  <2> SUFFICES ASSUME i > 1 PROVE (b \o p) \o e = b \o (p \o e)
    BY <1>1 DEF ChunkOf, Body
  <2>1. Regroups(Line, b, p, e)
    BY <1>2, Regrouped
  <2> QED
    BY <2>1 DEF Regroups
<1>4. ~(i > 1) => ChunkOf(i, r) = Body(r)
  <2> SUFFICES ASSUME ~(i > 1) PROVE (<<>> \o p) \o e = p \o e
    BY <1>1 DEF ChunkOf, Body
  <2> QED
    BY <1>2, ConcatEmptySeq
<1>5. Body(r) \in Seq(Line)
  BY BodyLines
<1>6. b \o Body(r) \in Seq(Line)
  BY <1>2, <1>5, ConcatProperties
<1> QED
  BY <1>1, <1>3, <1>4, <1>5, <1>6

LEMMA ChunksTyped ==
  ASSUME NEW rs \in Seq(Good)
  PROVE  Chunks(rs) \in Seq(Seq(Line)) /\ Len(Chunks(rs)) = Len(rs) /\ OutputOf(rs) \in Seq(Line)
<1>1. \A i \in 1..Len(rs) : ChunkOf(i, rs[i]) \in Seq(Line)
  <2> SUFFICES ASSUME NEW i \in 1..Len(rs) PROVE ChunkOf(i, rs[i]) \in Seq(Line)
    OBVIOUS
  <2>1. i \in Nat /\ rs[i] \in Good
    OBVIOUS
  <2> QED
    BY <2>1, ChunkIs
<1>2. Chunks(rs) = [i \in 1..Len(rs) |-> ChunkOf(i, rs[i])] /\ Len(rs) \in Nat
  BY DEF Chunks
<1>3. Chunks(rs) \in Seq(Seq(Line)) /\ Len(Chunks(rs)) = Len(rs)
  BY <1>1, <1>2
<1>4. FlattenSeq(Chunks(rs)) \in Seq(Line)
  BY <1>3, FlattenTyped, Zenon
<1> QED
  BY <1>3, <1>4 DEF OutputOf

LEMMA ChunksAppend ==
  ASSUME NEW rs \in Seq(Good), NEW r \in Good
  PROVE  OutputOf(Append(rs, r)) = OutputOf(rs) \o ChunkOf(Len(rs) + 1, r)
<1>1. PICK t, c, n : t = Append(rs, r) /\ n = Len(rs) /\ c = ChunkOf(n + 1, r)
  OBVIOUS
<1>2. /\ t \in Seq(Good) /\ n \in Nat /\ Len(t) = n + 1 /\ t[n + 1] = r
      /\ \A i \in 1..n : t[i] = rs[i]
  BY <1>1, AppendProperties
<1>3. PICK f, g : f = Chunks(t) /\ g = Chunks(rs)
  OBVIOUS
<1>4. f \in Seq(Seq(Line)) /\ Len(f) = n + 1 /\ g \in Seq(Seq(Line)) /\ Len(g) = n
  BY <1>1, <1>2, <1>3, ChunksTyped
<1>5. \A i \in 1..n : f[i] = g[i]
  <2>1. ASSUME NEW i \in 1..n PROVE f[i] = g[i]
    <3>1. i \in DOMAIN t /\ i \in DOMAIN rs
      BY <1>1, <1>2
    <3> QED
      BY <1>2, <1>3, <3>1 DEF Chunks
  <2> QED
    BY <2>1
<1>6. f[n + 1] = c
  <2>1. n + 1 \in DOMAIN t
    BY <1>2
  <2> QED
    BY <1>1, <1>2, <1>3, <2>1 DEF Chunks
<1>7. f = Append(g, c)
  <2>1. f = Append(g, f[Len(f)])
    BY <1>4, <1>5, Appended
  <2> QED
    BY <1>4, <1>6, <2>1
<1>8. FlattenSeq(f) = FlattenSeq(g) \o c
  <2>1. c \in Seq(Line)
    BY <1>1, <1>2, ChunkIs
  <2>2. FlattensAppend(Line, g, c)
    BY <1>4, <2>1, FlattenedAppend
  <2> QED
    BY <1>7, <2>2 DEF FlattensAppend
<1> QED
  BY <1>1, <1>3, <1>8 DEF OutputOf

-----------------------------------------------------------------------------
(* The documents of the text are the objects as lines. *)
PrintedOf == [t \in Good |-> Printed(t)]

LEMMA PrintedOfTyped ==
  /\ PrintedOf \in [Good -> KeptDocs] /\ PrintedOf \in [Good -> Seq(ContentLine)]
  /\ \A t \in Good : PrintedOf[t] = Printed(t)
<1>1. ASSUME NEW t \in Good PROVE Printed(t) \in KeptDocs /\ Printed(t) \in Seq(ContentLine)
  <2>1. t \in Trees /\ t # <<>>
    BY DEF Good
  <2>2. Printed(t) \in Seq(ContentLine) /\ Len(Printed(t)) = Len(t)
    BY <2>1, PrintedTyped
  <2>3. Len(t) # 0
    BY <2>1 DEF Trees
  <2> QED
    BY <2>2, <2>3 DEF KeptDocs
<1> QED
  BY <1>1 DEF PrintedOf

Reads(o, rs) ==
    /\ Contents(o) = IF rs = <<>> THEN << <<>> >> ELSE Image(PrintedOf, rs)
    /\ SpacesOnly(o)
    /\ rs # <<>> => Unindented(o)

LEMMA FirstObject ==
  ASSUME NEW r \in Good
  PROVE  Reads(OutputOf(Append(<<>>, r)), Append(<<>>, r))
<1>1. PICK b : b = Body(r)
  OBVIOUS
<1>2. /\ b \in Seq(Line) /\ Content(b) = Printed(r)
      /\ NoBar(b) /\ SpacesOnly(b) /\ Unindented(b)
  BY <1>1, BodyLines
<1>3. OutputOf(Append(<<>>, r)) = b
  <2>1. <<>> \in Seq(Good) /\ Len(<<>>) + 1 = 1 /\ ~(1 > 1) /\ 1 \in Nat
    OBVIOUS
  <2>2. OutputOf(Append(<<>>, r)) = OutputOf(<<>>) \o ChunkOf(1, r)
    BY <2>1, ChunksAppend
  <2>3. OutputOf(<<>>) = <<>>
    <3>1. Chunks(<<>>) = <<>>
      BY DEF Chunks
    <3> QED
      BY <3>1, FlattenEmpty DEF OutputOf
  <2>4. ChunkOf(1, r) = b
    BY <1>1, <2>1, ChunkIs
  <2> QED
    BY <1>2, <2>2, <2>3, <2>4, ConcatEmptySeq
<1>4. Contents(b) = Append(<<>>, Printed(r))
  <2>1. PICK s, ss, c : s = <<>> /\ ss = <<>> /\ c = <<>>
    OBVIOUS
  <2>2. s \in Seq(Line) /\ ss \in Seq(Seq(ContentLine)) /\ c \in Seq(ContentLine)
    BY <2>1
  <2>3. Contents(s) = Append(ss, c)
    <3>1. Append(ss, c) = << <<>> >>
      BY <2>1
    <3> QED
      BY <2>1, <3>1, ContentsEmpty
  <2>4. GoesOn(s, ss, c, b)
    BY <1>2, <2>2, <2>3, ContentsGoOn
  <2>5. Contents(s \o b) = Append(ss, c \o Content(b))
    BY <2>4 DEF GoesOn
  <2>6. s \o b = b /\ c \o Content(b) = Printed(r)
    BY <1>2, <2>1, ConcatEmptySeq, ContentTyped
  <2> QED
    BY <2>1, <2>5, <2>6
<1>5. Image(PrintedOf, Append(<<>>, r)) = Append(<<>>, Printed(r))
  <2>1. PICK e, g : e = <<>> /\ g = PrintedOf
    OBVIOUS
  <2>2. e \in Seq(Good) /\ g \in [Good -> KeptDocs] /\ g[r] = Printed(r)
    BY <2>1, PrintedOfTyped
  <2>3. MapsOn(Good, KeptDocs, g, e, r)
    BY <2>2, ImageMapsOn
  <2>4. Image(g, e) = <<>>
    BY <2>1 DEF Image
  <2>5. Image(g, Append(e, r)) = Append(Image(g, e), g[r])
    BY <2>3 DEF MapsOn
  <2> QED
    BY <2>1, <2>2, <2>4, <2>5
<1>6. Append(<<>>, r) # <<>>
  OBVIOUS
<1> QED
  BY <1>2, <1>3, <1>4, <1>5, <1>6 DEF Reads

Gathers(T, s, t) == Elements(s \o t) = Elements(s) \cup Elements(t)

LEMMA GathersConcat ==
  ASSUME NEW T, NEW s \in Seq(T), NEW t \in Seq(T)
  PROVE  Gathers(T, s, t)
<1>1. Elements(s \o t) = Elements(s) \cup Elements(t)
  BY ElementsConcat
<1> QED
  BY <1>1, Zenon DEF Gathers

LEMMA NextObject ==
  ASSUME NEW rs \in Seq(Good), NEW r \in Good, rs # <<>>, Reads(OutputOf(rs), rs)
  PROVE  Reads(OutputOf(Append(rs, r)), Append(rs, r))
<1>1. PICK o, b, q, a, cs : /\ o = OutputOf(rs) /\ b = Body(r) /\ q = Append(o, Bar)
                            /\ a = OutputOf(Append(rs, r)) /\ cs = Image(PrintedOf, rs)
  OBVIOUS
<1>2. /\ b \in Seq(Line) /\ Content(b) = Printed(r) /\ Printed(r) \in Seq(ContentLine)
      /\ NoBar(b) /\ SpacesOnly(b) /\ Unindented(b)
  BY <1>1, BodyLines, ContentTyped
<1>3. o \in Seq(Line) /\ q \in Seq(Line) /\ q = o \o <<Bar>> /\ Elements(q) = Elements(o) \cup {Bar}
  <2>1. o \in Seq(Line)
    BY <1>1, ChunksTyped
  <2> QED
    BY <1>1, <2>1, Separators, AppendProperties, AppendIsConcat, ElementsAppend
<1>4. a = q \o b
  <2>1. Len(rs) \in Nat /\ Len(rs) + 1 > 1 /\ Len(rs) + 1 \in Nat
    BY EmptySeq
  <2>2. a = o \o ChunkOf(Len(rs) + 1, r)
    BY <1>1, ChunksAppend
  <2>3. ChunkOf(Len(rs) + 1, r) = <<Bar>> \o b
    BY <1>1, <2>1, ChunkIs
  <2>4. Regroups(Line, o, <<Bar>>, b)
    <3>1. <<Bar>> \in Seq(Line)
      BY Separators
    <3> QED
      BY <1>2, <1>3, <3>1, Regrouped
  <2> QED
    BY <1>3, <2>2, <2>3, <2>4 DEF Regroups
<1>5. Contents(o) = cs /\ SpacesOnly(o) /\ Unindented(o) /\ cs \in Seq(Seq(ContentLine))
  <2>1. Maps(Good, Seq(ContentLine), PrintedOf, rs)
    BY PrintedOfTyped, ImageMaps
  <2> QED
    BY <1>1, <2>1 DEF Reads, Maps
<1>6. Contents(a) = Append(cs, Printed(r))
  <2>1. Contents(q) = Append(cs, <<>>)
    <3>1. ContentsGrow(o, Bar)
      BY <1>3, Separators, ContentsAppend
    <3>2. Contents(q) = AddContent(cs, Bar)
      BY <1>1, <1>5, <3>1 DEF ContentsGrow
    <3> QED
      BY <3>2, Separators DEF AddContent
  <2>2. PICK c : c = <<>>
    OBVIOUS
  <2>3. GoesOn(q, cs, c, b)
    <3>1. c \in Seq(ContentLine) /\ Contents(q) = Append(cs, c)
      BY <2>1, <2>2
    <3> QED
      BY <1>2, <1>3, <1>5, <3>1, ContentsGoOn
  <2>4. Contents(q \o b) = Append(cs, c \o Content(b))
    BY <2>3 DEF GoesOn
  <2>5. c \o Content(b) = Printed(r)
    BY <1>2, <2>2, ConcatEmptySeq
  <2> QED
    BY <1>4, <2>4, <2>5
<1>7. Image(PrintedOf, Append(rs, r)) = Append(cs, Printed(r))
  <2>1. MapsOn(Good, KeptDocs, PrintedOf, rs, r)
    BY PrintedOfTyped, ImageMapsOn
  <2>2. Image(PrintedOf, Append(rs, r)) = Append(Image(PrintedOf, rs), PrintedOf[r])
    BY <2>1 DEF MapsOn
  <2>3. PrintedOf[r] = Printed(r)
    BY PrintedOfTyped
  <2> QED
    BY <1>1, <2>2, <2>3
<1>8. Elements(a) = Elements(o) \cup {Bar} \cup Elements(b)
  <2>1. Gathers(Line, q, b)
    BY <1>2, <1>3, GathersConcat
  <2> QED
    BY <1>3, <1>4, <2>1 DEF Gathers
<1>9. SpacesOnly(a)
  <2>1. Bar.pad \in Seq({"space"})
    BY DEF Bar
  <2> QED
    BY <1>2, <1>5, <1>8, <2>1 DEF SpacesOnly
<1>10. Unindented(a)
  BY <1>5, <1>8 DEF Unindented
<1>11. Append(rs, r) # <<>>
  BY AppendProperties
<1> QED
  BY <1>1, <1>6, <1>7, <1>9, <1>10, <1>11 DEF Reads

LEMMA OutputReads == \A rs \in Seq(Good) : Reads(OutputOf(rs), rs)
<1> DEFINE P == {rs \in Seq(Good) : Reads(OutputOf(rs), rs)}
<1>1. <<>> \in P
  <2>1. OutputOf(<<>>) = <<>>
    <3>1. Chunks(<<>>) = <<>>
      BY DEF Chunks
    <3> QED
      BY <3>1, FlattenEmpty DEF OutputOf
  <2>2. SpacesOnly(<<>>)
    BY DEF SpacesOnly, Elements
  <2> QED
    BY <2>1, <2>2, ContentsEmpty DEF Reads
<1>2. ASSUME NEW rs \in Seq(Good), NEW r \in Good, rs \in P
      PROVE  Append(rs, r) \in P
  <2>1. Append(rs, r) \in Seq(Good)
    BY AppendProperties
  <2>2. Reads(OutputOf(Append(rs, r)), Append(rs, r))
    <3>1. CASE rs = <<>>
      BY <3>1, FirstObject
    <3>2. CASE rs # <<>>
      BY <1>2, <3>2, NextObject
    <3> QED
      BY <3>1, <3>2
  <2> QED
    BY <2>1, <2>2
<1>3. \A rs \in Seq(Good) : rs \in P
  <2> HIDE DEF P
  <2> QED
    BY <1>1, <1>2, InductionOnSequences, Zenon
<1> QED
  BY <1>3

-----------------------------------------------------------------------------
(* Nothing is taken off the lines of an output: some are not indented. *)
LEMMA NotIndented ==
  ASSUME NEW s \in Seq(Line)
  PROVE  Indented(s, <<>>) = s
<1>1. PICK w : w = <<>>
  OBVIOUS
<1>2. w \in Seq(White)
  BY <1>1
<1>3. ASSUME NEW l \in Line PROVE IndentOf(w)[l] = l
  <2>1. l.pad \in Seq(White) /\ w \o l.pad = l.pad
    BY <1>1, LineSets, ConcatEmptySeq
  <2>2. IndentOf(w)[l] = [l EXCEPT !.pad = w \o @]
    BY DEF IndentOf
  <2>3. l = [pad |-> l.pad, text |-> l.text]
    BY DEF Line, LinesOf
  <2>4. PICK p, x : l = [pad |-> p, text |-> x] /\ w \o p = p
    BY <2>1, <2>3
  <2>5. [l EXCEPT !.pad = w \o @] = [pad |-> w \o p, text |-> x]
    BY <2>4
  <2> QED
    BY <2>2, <2>4, <2>5
<1>4. Len(s) \in Nat /\ s = [i \in 1..Len(s) |-> s[i]] /\ DOMAIN s = 1..Len(s)
  OBVIOUS
<1>5. \A i \in 1..Len(s) : IndentOf(w)[s[i]] = s[i]
  BY <1>3
<1>6. Indented(s, w) = [i \in 1..Len(s) |-> IndentOf(w)[s[i]]]
  BY <1>4 DEF Indented, Image
<1>7. [i \in 1..Len(s) |-> IndentOf(w)[s[i]]] = [i \in 1..Len(s) |-> s[i]]
  BY <1>5, Zenon
<1> QED
  BY <1>1, <1>4, <1>6, <1>7, Zenon

LEMMA OutputIsManifest ==
  ASSUME NEW rs \in Seq(Good), rs # <<>>
  PROVE  Parses(DeindentYAML(OutputOf(rs))) /\ SplitYAML(DeindentYAML(OutputOf(rs))) = rs
<1>1. PICK o, cs : o = OutputOf(rs) /\ cs = Image(PrintedOf, rs)
  OBVIOUS
<1>2. o \in Seq(Line) /\ Contents(o) = cs /\ SpacesOnly(o) /\ Unindented(o)
  BY <1>1, ChunksTyped, OutputReads DEF Reads
<1>3. DeindentYAML(o) = NonBlank(o)
  <2>1. PICK w : w = <<>>
    OBVIOUS
  <2>2. w \in Seq(White) /\ Indented(o, w) = o
    BY <1>2, <2>1, NotIndented
  <2>3. \E i \in DOMAIN o : ~Blank(o[i]) /\ o[i].pad = <<>>
    BY <1>2 DEF Unindented, Elements
  <2>4. DeindentYAML(Indented(o, w)) = NonBlank(o)
    BY <1>2, <2>2, <2>3, Deindented
  <2> QED
    BY <2>2, <2>4
<1>4. /\ cs \in Seq(KeptDocs) /\ Len(cs) = Len(rs) /\ Len(rs) \in Nat
      /\ DOMAIN cs = 1..Len(rs) /\ DOMAIN rs = 1..Len(rs)
  <2>1. Maps(Good, KeptDocs, PrintedOf, rs)
    BY PrintedOfTyped, ImageMaps
  <2>2. cs \in Seq(KeptDocs) /\ Len(cs) = Len(rs)
    BY <1>1, <2>1 DEF Maps
  <2> QED
    BY <2>2
<1>5. \A i \in 1..Len(rs) : /\ cs[i] = Printed(rs[i]) /\ WellFormed(cs[i])
                            /\ Tree(cs[i]) = rs[i]
  <2>1. ASSUME NEW i \in 1..Len(rs)
        PROVE  cs[i] = Printed(rs[i]) /\ WellFormed(cs[i]) /\ Tree(cs[i]) = rs[i]
    <3>1. PICK r \in Good : r = rs[i]
      OBVIOUS
    <3>2. cs[i] = Printed(r)
      BY <1>1, <1>4, <3>1, PrintedOfTyped DEF Image
    <3>3. WellFormed(Printed(r)) /\ Tree(Printed(r)) = r
      BY DEF Good
    <3> QED
      BY <3>1, <3>2, <3>3
  <2> QED
    BY <2>1
<1>6. Parses(o)
  BY <1>2, <1>4, <1>5, ByContents
<1>7. Kept(o) = cs
  <2>1. PICK S : S = Seq(Line) \ {<<>>}
    OBVIOUS
  <2>2. KeptDocs \subseteq S
    <3>1. \A d \in Seq(ContentLine) : d \in Seq(Line)
      BY LineSets
    <3> QED
      BY <2>1, <3>1 DEF KeptDocs
  <2>3. Only(cs, S) = cs
    BY <1>4, <2>2, OnlyAll
  <2> QED
    BY <1>2, <2>1, <2>3 DEF Kept
<1>8. SplitYAML(o) = rs
  <2>1. SplitYAML(o) = [i \in 1..Len(rs) |-> Tree(cs[i])]
    BY <1>2, <1>4, <1>7, ByContents DEF Trees1
  <2>2. rs = [i \in 1..Len(rs) |-> rs[i]]
    BY <1>4
  <2> QED
    BY <1>5, <2>1, <2>2
<1> QED
  BY <1>1, <1>2, <1>3, <1>6, <1>8, BlanksIrrelevant

(* Text that was rendered is a manifest of the same documents (README:     *)
(* RenderToString and RenderToFile), wherever "---" occurs in them.        *)
THEOREM OutputIsReadBack == Spec => []OutputReadsBack
<1>1. ASSUME TInv PROVE OutputReadsBack
  <2> SUFFICES ASSUME outcome = "ok", call.kind = "string"
               PROVE  /\ Parses(DeindentYAML(output))
                      /\ SplitYAML(DeindentYAML(output)) = rendered
    BY DEF OutputReadsBack
  <2>1. pc # "process" /\ outcome # "args" /\ rendered = AllRendered /\ Renders /\ output = Written
    BY <1>1 DEF TInv
  <2>2. rendered \in Seq(Good) /\ rendered # <<>>
    BY <1>1, <2>1, RenderedGood
  <2>3. \A i \in DOMAIN rendered : Chunk(i) = ChunkOf(i, rendered[i])
    BY DEF Chunk, ChunkOf
  <2>4. Written = OutputOf(rendered)
    BY <2>3 DEF Written, OutputOf, Chunks
  <2> QED
    BY <2>1, <2>2, <2>4, OutputIsManifest
<1> QED
  BY <1>1, TemplatesInductive, PTL

-----------------------------------------------------------------------------
(* The merge of scalars, and how a scalar is read. *)
Replace == [o \in Values |-> [p \in Values |-> p]]
ReadScalars == [j \in Values |-> [j EXCEPT !.int = Float64(@)]]

(* The recursive functions of MergePatch, by their first value and a step: *)
(* a function that is so defined exists.                                   *)
JsonTo(m, f) ==
    f = [n \in 0..m |-> IF n = 0 THEN Scalars ELSE Scalars \cup MapsTo(f[n - 1])]

LEMMA JsonExist ==
  ASSUME NEW m \in Nat
  PROVE  \E f : JsonTo(m, f)
<1> DEFINE S == {x \in Nat : \E f : JsonTo(x, f)}
<1>1. 0 \in S
  <2> DEFINE f == [n \in 0..0 |-> Scalars]
  <2>1. f = [n \in 0..0 |-> IF n = 0 THEN Scalars ELSE Scalars \cup MapsTo(f[n - 1])]
    OBVIOUS
  <2> QED
    BY <2>1 DEF JsonTo
<1>2. ASSUME NEW x \in 1..m, x - 1 \in S
      PROVE  x \in S
  <2>1. PICK f : JsonTo(x - 1, f)
    BY <1>2
  <2> DEFINE g == [n \in 0..x |-> IF n = x THEN Scalars \cup MapsTo(f[x - 1]) ELSE f[n]]
  <2>2. ASSUME NEW n \in 0..x
        PROVE  g[n] = IF n = 0 THEN Scalars ELSE Scalars \cup MapsTo(g[n - 1])
    <3>1. CASE n = x
      <4>1. x \in 0..x /\ x - 1 \in 0..x /\ x - 1 # x /\ x # 0
        OBVIOUS
      <4> QED
        BY <3>1, <4>1
    <3>2. CASE n # x
      <4>1. n \in 0..(x - 1) /\ (n # 0 => n - 1 \in 0..x /\ n - 1 # x)
        BY <3>2
      <4>2. f[n] = IF n = 0 THEN Scalars ELSE Scalars \cup MapsTo(f[n - 1])
        BY <2>1, <4>1 DEF JsonTo
      <4> QED
        BY <3>2, <4>1, <4>2
    <3> QED
      BY <3>1, <3>2
  <2>3. g = [n \in 0..x |-> IF n = 0 THEN Scalars ELSE Scalars \cup MapsTo(g[n - 1])]
    BY <2>2
  <2> HIDE DEF g
  <2>4. JsonTo(x, g)
    BY <2>3 DEF JsonTo
  <2>5. x \in Nat
    OBVIOUS
  <2> QED
    BY <2>4, <2>5
<1> HIDE DEF S
<1>3. m \in S
  BY <1>1, <1>2, UpTo
<1> QED
  BY <1>3 DEF S

LEMMA JsonUnfold ==
  /\ Json[0] = Scalars
  /\ \A d \in 1..Depth : Json[d] = Scalars \cup MapsTo(Json[d - 1])
<1>1. Depth \in Nat
  BY MergeAssumption
<1>2. \E f : JsonTo(Depth, f)
  BY <1>1, JsonExist
<1> DEFINE f == CHOOSE f : f = [d \in 0..Depth |-> IF d = 0 THEN Scalars ELSE Scalars \cup MapsTo(f[d - 1])]
<1>3. f = [d \in 0..Depth |-> IF d = 0 THEN Scalars ELSE Scalars \cup MapsTo(f[d - 1])]
  BY <1>2 DEF JsonTo
<1>4. Json = f
  BY DEF Json
<1> HIDE DEF f
<1>5. \A d \in 0..Depth : f[d] = IF d = 0 THEN Scalars ELSE Scalars \cup MapsTo(f[d - 1])
  BY <1>3
<1>6. 0 \in 0..Depth /\ \A d \in 1..Depth : d \in 0..Depth /\ d # 0
  BY <1>1
<1> QED
  BY <1>4, <1>5, <1>6

UnmarshalsTo(m, f) ==
    f = [n \in 0..m |-> IF n = 0 THEN ReadScalars ELSE ReadMaps(f[n - 1])]

LEMMA UnmarshalsExist ==
  ASSUME NEW m \in Nat
  PROVE  \E f : UnmarshalsTo(m, f)
<1> DEFINE S == {x \in Nat : \E f : UnmarshalsTo(x, f)}
<1>1. 0 \in S
  <2> DEFINE f == [n \in 0..0 |-> ReadScalars]
  <2>1. f = [n \in 0..0 |-> IF n = 0 THEN ReadScalars ELSE ReadMaps(f[n - 1])]
    OBVIOUS
  <2> QED
    BY <2>1 DEF UnmarshalsTo
<1>2. ASSUME NEW x \in 1..m, x - 1 \in S
      PROVE  x \in S
  <2>1. PICK f : UnmarshalsTo(x - 1, f)
    BY <1>2
  <2> DEFINE g == [n \in 0..x |-> IF n = x THEN ReadMaps(f[x - 1]) ELSE f[n]]
  <2>2. ASSUME NEW n \in 0..x
        PROVE  g[n] = IF n = 0 THEN ReadScalars ELSE ReadMaps(g[n - 1])
    <3>1. CASE n = x
      <4>1. x \in 0..x /\ x - 1 \in 0..x /\ x - 1 # x /\ x # 0
        OBVIOUS
      <4> QED
        BY <3>1, <4>1
    <3>2. CASE n # x
      <4>1. n \in 0..(x - 1) /\ (n # 0 => n - 1 \in 0..x /\ n - 1 # x)
        BY <3>2
      <4>2. f[n] = IF n = 0 THEN ReadScalars ELSE ReadMaps(f[n - 1])
        BY <2>1, <4>1 DEF UnmarshalsTo
      <4> QED
        BY <3>2, <4>1, <4>2
    <3> QED
      BY <3>1, <3>2
  <2>3. g = [n \in 0..x |-> IF n = 0 THEN ReadScalars ELSE ReadMaps(g[n - 1])]
    BY <2>2
  <2> HIDE DEF g
  <2>4. UnmarshalsTo(x, g)
    BY <2>3 DEF UnmarshalsTo
  <2>5. x \in Nat
    OBVIOUS
  <2> QED
    BY <2>4, <2>5
<1> HIDE DEF S
<1>3. m \in S
  BY <1>1, <1>2, UpTo
<1> QED
  BY <1>3 DEF S

LEMMA UnmarshalsUnfold ==
  /\ Unmarshals[0] = ReadScalars
  /\ \A d \in 1..Depth : Unmarshals[d] = ReadMaps(Unmarshals[d - 1])
<1>1. Depth \in Nat
  BY MergeAssumption
<1>2. \E f : UnmarshalsTo(Depth, f)
  BY <1>1, UnmarshalsExist
<1> DEFINE f == CHOOSE f : f = [d \in 0..Depth |-> IF d = 0 THEN ReadScalars ELSE ReadMaps(f[d - 1])]
<1>3. f = [d \in 0..Depth |-> IF d = 0 THEN ReadScalars ELSE ReadMaps(f[d - 1])]
  BY <1>2 DEF UnmarshalsTo
<1>4. Unmarshals = f
  BY DEF Unmarshals, ReadScalars
<1> HIDE DEF f
<1>5. \A d \in 0..Depth : f[d] = IF d = 0 THEN ReadScalars ELSE ReadMaps(f[d - 1])
  BY <1>3
<1>6. 0 \in 0..Depth /\ \A d \in 1..Depth : d \in 0..Depth /\ d # 0
  BY <1>1
<1> QED
  BY <1>4, <1>5, <1>6

MergesTo(m, f) ==
    f = [n \in 0..m |-> IF n = 0 THEN Replace ELSE MergeMaps(f[n - 1])]

LEMMA MergesExist ==
  ASSUME NEW m \in Nat
  PROVE  \E f : MergesTo(m, f)
<1> DEFINE S == {x \in Nat : \E f : MergesTo(x, f)}
<1>1. 0 \in S
  <2> DEFINE f == [n \in 0..0 |-> Replace]
  <2>1. f = [n \in 0..0 |-> IF n = 0 THEN Replace ELSE MergeMaps(f[n - 1])]
    OBVIOUS
  <2> QED
    BY <2>1 DEF MergesTo
<1>2. ASSUME NEW x \in 1..m, x - 1 \in S
      PROVE  x \in S
  <2>1. PICK f : MergesTo(x - 1, f)
    BY <1>2
  <2> DEFINE g == [n \in 0..x |-> IF n = x THEN MergeMaps(f[x - 1]) ELSE f[n]]
  <2>2. ASSUME NEW n \in 0..x
        PROVE  g[n] = IF n = 0 THEN Replace ELSE MergeMaps(g[n - 1])
    <3>1. CASE n = x
      <4>1. x \in 0..x /\ x - 1 \in 0..x /\ x - 1 # x /\ x # 0
        OBVIOUS
      <4> QED
        BY <3>1, <4>1
    <3>2. CASE n # x
      <4>1. n \in 0..(x - 1) /\ (n # 0 => n - 1 \in 0..x /\ n - 1 # x)
        BY <3>2
      <4>2. f[n] = IF n = 0 THEN Replace ELSE MergeMaps(f[n - 1])
        BY <2>1, <4>1 DEF MergesTo
      <4> QED
        BY <3>2, <4>1, <4>2
    <3> QED
      BY <3>1, <3>2
  <2>3. g = [n \in 0..x |-> IF n = 0 THEN Replace ELSE MergeMaps(g[n - 1])]
    BY <2>2
  <2> HIDE DEF g
  <2>4. MergesTo(x, g)
    BY <2>3 DEF MergesTo
  <2>5. x \in Nat
    OBVIOUS
  <2> QED
    BY <2>4, <2>5
<1> HIDE DEF S
<1>3. m \in S
  BY <1>1, <1>2, UpTo
<1> QED
  BY <1>3 DEF S

LEMMA MergesUnfold ==
  /\ Merges[0] = Replace
  /\ \A d \in 1..Depth : Merges[d] = MergeMaps(Merges[d - 1])
<1>1. Depth \in Nat
  BY MergeAssumption
<1>2. \E f : MergesTo(Depth, f)
  BY <1>1, MergesExist
<1> DEFINE f == CHOOSE f : f = [d \in 0..Depth |-> IF d = 0 THEN Replace ELSE MergeMaps(f[d - 1])]
<1>3. f = [d \in 0..Depth |-> IF d = 0 THEN Replace ELSE MergeMaps(f[d - 1])]
  BY <1>2 DEF MergesTo
<1>4. Merges = f
  BY DEF Merges, Replace
<1> HIDE DEF f
<1>5. \A d \in 0..Depth : f[d] = IF d = 0 THEN Replace ELSE MergeMaps(f[d - 1])
  BY <1>3
<1>6. 0 \in 0..Depth /\ \A d \in 1..Depth : d \in 0..Depth /\ d # 0
  BY <1>1
<1> QED
  BY <1>4, <1>5, <1>6

AlongTo(j, q, m, f) ==
    f = [n \in 0..m |-> IF n = 0 THEN j ELSE Field(f[n - 1], q[n])]

LEMMA AlongExist ==
  ASSUME NEW j, NEW q, NEW m \in Nat
  PROVE  \E f : AlongTo(j, q, m, f)
<1> DEFINE S == {x \in Nat : \E f : AlongTo(j, q, x, f)}
<1>1. 0 \in S
  <2> DEFINE f == [n \in 0..0 |-> j]
  <2>1. f = [n \in 0..0 |-> IF n = 0 THEN j ELSE Field(f[n - 1], q[n])]
    OBVIOUS
  <2> QED
    BY <2>1 DEF AlongTo
<1>2. ASSUME NEW x \in 1..m, x - 1 \in S
      PROVE  x \in S
  <2>1. PICK f : AlongTo(j, q, x - 1, f)
    BY <1>2
  <2> DEFINE g == [n \in 0..x |-> IF n = x THEN Field(f[x - 1], q[x]) ELSE f[n]]
  <2>2. ASSUME NEW n \in 0..x
        PROVE  g[n] = IF n = 0 THEN j ELSE Field(g[n - 1], q[n])
    <3>1. CASE n = x
      <4>1. x \in 0..x /\ x - 1 \in 0..x /\ x - 1 # x /\ x # 0
        OBVIOUS
      <4> QED
        BY <3>1, <4>1
    <3>2. CASE n # x
      <4>1. n \in 0..(x - 1) /\ (n # 0 => n - 1 \in 0..x /\ n - 1 # x)
        BY <3>2
      <4>2. f[n] = IF n = 0 THEN j ELSE Field(f[n - 1], q[n])
        BY <2>1, <4>1 DEF AlongTo
      <4> QED
        BY <3>2, <4>1, <4>2
    <3> QED
      BY <3>1, <3>2
  <2>3. g = [n \in 0..x |-> IF n = 0 THEN j ELSE Field(g[n - 1], q[n])]
    BY <2>2
  <2> HIDE DEF g
  <2>4. AlongTo(j, q, x, g)
    BY <2>3 DEF AlongTo
  <2>5. x \in Nat
    OBVIOUS
  <2> QED
    BY <2>4, <2>5
<1> HIDE DEF S
<1>3. m \in S
  BY <1>1, <1>2, UpTo
<1> QED
  BY <1>3 DEF S

LEMMA AlongUnfold ==
  ASSUME NEW j, NEW q, Len(q) \in Nat
  PROVE  /\ Along(j, q)[0] = j
         /\ \A i \in 1..Len(q) : Along(j, q)[i] = Field(Along(j, q)[i - 1], q[i])
<1>1. \E f : AlongTo(j, q, Len(q), f)
  BY AlongExist
<1> DEFINE f == CHOOSE f : f = [i \in 0..Len(q) |-> IF i = 0 THEN j ELSE Field(f[i - 1], q[i])]
<1>2. f = [i \in 0..Len(q) |-> IF i = 0 THEN j ELSE Field(f[i - 1], q[i])]
  BY <1>1 DEF AlongTo
<1>3. Along(j, q) = f
  BY DEF Along
<1> HIDE DEF f
<1>4. \A i \in 0..Len(q) : f[i] = IF i = 0 THEN j ELSE Field(f[i - 1], q[i])
  BY <1>2
<1>5. 0 \in 0..Len(q) /\ \A i \in 1..Len(q) : i \in 0..Len(q) /\ i # 0
  OBVIOUS
<1> QED
  BY <1>3, <1>4, <1>5

-----------------------------------------------------------------------------
(* The values of each depth. *)
LEMMA MapsIn ==
  ASSUME NEW S, NEW D \in SUBSET Names, NEW m \in [D -> S]
  PROVE  Map(m) \in MapsTo(S)
<1>1. m \in UNION {[E -> S] : E \in SUBSET Names}
  OBVIOUS
<1> QED
  BY <1>1, Zenon DEF MapsTo

LEMMA MapHolds ==
  ASSUME NEW m
  PROVE  Map(m).map = m
  BY DEF Map

LEMMA MapsAre ==
  ASSUME NEW S, NEW j \in MapsTo(S)
  PROVE  /\ j = Map(j.map) /\ j.tag = "map" /\ j.int = 0
         /\ DOMAIN j.map \in SUBSET Names /\ j.map \in [DOMAIN j.map -> S]
<1>1. PICK m \in UNION {[D -> S] : D \in SUBSET Names} : j = Map(m)
  BY Zenon DEF MapsTo
<1>2. PICK D \in SUBSET Names : m \in [D -> S]
  BY Zenon
<1>3. j.map = m /\ j.tag = "map" /\ j.int = 0
  BY <1>1 DEF Map
<1>4. DOMAIN m = D
  BY <1>2
<1> QED
  BY <1>1, <1>2, <1>3, <1>4, Zenon

LEMMA ScalarsAre ==
  ASSUME NEW j \in Scalars
  PROVE  /\ j.tag \in {"int", "null"} /\ j.int \in Nat
         /\ j.map = NoFields /\ DOMAIN j.map = {}
         /\ j.tag = "null" => j = Null
         /\ j = [tag |-> j.tag, int |-> j.int, map |-> j.map]
<1>1. DOMAIN NoFields = {}
  BY DEF NoFields
<1>2. CASE j = Null
  BY <1>1, <1>2 DEF Null
<1>3. CASE j # Null
  <2>1. PICK n \in Numbers : j = Num(n)
    BY <1>3 DEF Scalars
  <2>2. n \in Nat
    BY MergeAssumption
  <2> QED
    BY <1>1, <2>1, <2>2 DEF Num
<1> QED
  BY <1>2, <1>3

LEMMA ScalarsIn ==
  ASSUME NEW d \in 0..Depth
  PROVE  Scalars \subseteq Json[d] /\ Null \in Json[d]
<1>1. Null \in Scalars
  BY DEF Scalars
<1>2. CASE d = 0
  BY <1>1, <1>2, JsonUnfold
<1>3. CASE d # 0
  <2>1. d \in 1..Depth
    BY <1>3, MergeAssumption
  <2> QED
    BY <1>1, <2>1, JsonUnfold
<1> QED
  BY <1>2, <1>3

LEMMA JsonShape ==
  ASSUME NEW d \in 0..Depth, NEW j \in Json[d]
  PROVE  /\ j.tag \in {"int", "null", "map"} /\ j.int \in Nat
         /\ j = [tag |-> j.tag, int |-> j.int, map |-> j.map]
         /\ j.tag # "map" => j \in Scalars /\ j.map = NoFields /\ DOMAIN j.map = {}
         /\ j.tag = "null" => j = Null
         /\ j.tag = "map" => /\ d # 0 /\ j = Map(j.map)
                             /\ DOMAIN j.map \in SUBSET Names
                             /\ j.map \in [DOMAIN j.map -> Json[d - 1]]
<1>1. CASE j \in Scalars
  BY <1>1, ScalarsAre
<1>2. CASE j \notin Scalars
  <2>1. d # 0
    BY <1>2, JsonUnfold
  <2>2. d \in 1..Depth
    BY <2>1, MergeAssumption
  <2>3. j \in MapsTo(Json[d - 1])
    BY <1>2, <2>2, JsonUnfold
  <2>4. /\ j = Map(j.map) /\ j.tag = "map" /\ j.int = 0
        /\ DOMAIN j.map \in SUBSET Names /\ j.map \in [DOMAIN j.map -> Json[d - 1]]
    BY <2>3, MapsAre
  <2>5. j = [tag |-> j.tag, int |-> j.int, map |-> j.map]
    BY <2>4 DEF Map
  <2> QED
    BY <2>1, <2>4, <2>5
<1> QED
  BY <1>1, <1>2

(* Field by field, one level less deep. *)
LEMMA FieldIn ==
  ASSUME NEW d \in 1..Depth, NEW j \in Json[d], NEW f
  PROVE  Field(j, f) \in Json[d - 1]
<1>1. d \in 0..Depth /\ d - 1 \in 0..Depth
  BY MergeAssumption
<1>2. Null \in Json[d - 1]
  BY <1>1, ScalarsIn
<1>3. f \in DOMAIN j.map => j.map[f] \in Json[d - 1]
  BY <1>1, JsonShape
<1> QED
  BY <1>2, <1>3 DEF Field

LEMMA FieldOfScalar ==
  ASSUME NEW d \in 0..Depth, NEW j \in Json[d], j.tag # "map", NEW f
  PROVE  f \notin DOMAIN j.map /\ Field(j, f) = Null
<1>1. DOMAIN j.map = {}
  BY JsonShape
<1> QED
  BY <1>1 DEF Field

LEMMA FieldOfNull ==
  \A f : Field(Null, f) = Null
<1>1. DOMAIN NoFields = {}
  BY DEF NoFields
<1>2. Null.map = NoFields
  BY DEF Null
<1> QED
  BY <1>1, <1>2 DEF Field

LEMMA NoMapsAtZero ==
  ASSUME NEW j \in Json[0]
  PROVE  j.tag # "map"
  BY JsonUnfold, ScalarsAre

LEMMA JsonGrows ==
  ASSUME NEW d \in 1..Depth
  PROVE  Json[d - 1] \subseteq Json[d]
<1> DEFINE S == {i \in Nat : i = 0 \/ Json[i - 1] \subseteq Json[i]}
<1>1. 0 \in S /\ Depth \in Nat
  BY MergeAssumption
<1>2. ASSUME NEW n \in 1..Depth, n - 1 \in S
      PROVE  n \in S
  <2> SUFFICES Json[n - 1] \subseteq Json[n]
    OBVIOUS
  <2>1. SUFFICES ASSUME NEW j \in Json[n - 1] PROVE j \in Json[n]
    OBVIOUS
  <2>2. n - 1 \in 0..Depth /\ n \in 0..Depth
    BY <1>1
  <2>3. CASE j.tag # "map"
    BY <2>2, <2>3, JsonShape, ScalarsIn
  <2>4. CASE j.tag = "map"
    <3>1. /\ n - 1 # 0 /\ j = Map(j.map) /\ DOMAIN j.map \in SUBSET Names
          /\ j.map \in [DOMAIN j.map -> Json[n - 1 - 1]]
      BY <2>2, <2>4, JsonShape
    <3>2. Json[n - 1 - 1] \subseteq Json[n - 1]
      BY <1>2, <3>1
    <3>3. j.map \in [DOMAIN j.map -> Json[n - 1]]
      BY <3>1, <3>2
    <3>4. Map(j.map) \in MapsTo(Json[n - 1])
      BY <3>1, <3>3, MapsIn
    <3> QED
      BY <3>1, <3>4, JsonUnfold
  <2> QED
    BY <2>3, <2>4
<1>3. d \in S
  <2> HIDE DEF S
  <2>1. \A i \in 0..Depth : i \in S
    BY <1>1, <1>2, UpTo
  <2> QED
    BY <1>1, <2>1
<1> QED
  BY <1>3

LEMMA JsonValues ==
  ASSUME NEW d \in 0..Depth
  PROVE  Json[d] \subseteq Values
<1> DEFINE S == {k \in 0..Depth : Json[Depth - k] \subseteq Values}
<1>1. 0 \in S /\ Depth \in Nat
  BY MergeAssumption DEF Values
<1>2. ASSUME NEW n \in 1..Depth, n - 1 \in S
      PROVE  n \in S
  <2>1. Depth - (n - 1) \in 1..Depth /\ Depth - (n - 1) - 1 = Depth - n
    BY <1>1
  <2>2. Json[Depth - n] \subseteq Json[Depth - (n - 1)]
    BY <2>1, JsonGrows
  <2> QED
    BY <1>2, <2>2
<1>3. Depth - d \in S /\ Depth - (Depth - d) = d
  <2> HIDE DEF S
  <2>1. \A i \in 0..Depth : i \in S
    BY <1>1, <1>2, UpTo
  <2> QED
    BY <1>1, <2>1
<1> QED
  BY <1>3

-----------------------------------------------------------------------------
(* One level of a merge. *)
LEMMA MergesScalar ==
  ASSUME NEW d \in 0..Depth, NEW o \in Values, NEW p \in Values, p.tag # "map"
  PROVE  Merges[d][o][p] = p
<1>1. CASE d = 0
  BY <1>1, MergesUnfold DEF Replace
<1>2. CASE d # 0
  <2>1. d \in 1..Depth
    BY <1>2, MergeAssumption
  <2>2. Merges[d] = MergeMaps(Merges[d - 1])
    BY <2>1, MergesUnfold
  <2> QED
    BY <2>2 DEF MergeMaps
<1> QED
  BY <1>1, <1>2

LEMMA MergesMap ==
  ASSUME NEW d \in 1..Depth, NEW o \in Values, NEW p \in Values, p.tag = "map"
  PROVE  LET M == Merges[d][o][p]
             gone == {f \in DOMAIN p.map : p.map[f].tag = "null"}
         IN  /\ M.tag = "map" /\ M = Map(M.map)
             /\ DOMAIN M.map = (DOMAIN o.map \cup DOMAIN p.map) \ gone
             /\ \A f \in DOMAIN M.map :
                  M.map[f] = IF f \in DOMAIN p.map THEN Merges[d - 1][Field(o, f)][p.map[f]]
                             ELSE o.map[f]
<1> DEFINE gone == {f \in DOMAIN p.map : p.map[f].tag = "null"}
           D == (DOMAIN o.map \cup DOMAIN p.map) \ gone
           inner == Merges[d - 1]
           m == [f \in D |-> IF f \in DOMAIN p.map THEN inner[Field(o, f)][p.map[f]]
                             ELSE o.map[f]]
<1>1. Merges[d] = MergeMaps(inner)
  BY MergesUnfold
<1>2. MergeMaps(inner)[o][p] = Map(m)
  BY DEF MergeMaps
<1>3. Merges[d][o][p] = Map(m)
  BY <1>1, <1>2
<1>4. DOMAIN m = D /\ \A f \in D : m[f] = IF f \in DOMAIN p.map
                                          THEN inner[Field(o, f)][p.map[f]] ELSE o.map[f]
  OBVIOUS
<1> HIDE DEF m, D
<1>5. Map(m).tag = "map" /\ Map(m).map = m
  BY DEF Map
<1> QED
  BY <1>3, <1>4, <1>5 DEF D

LEMMA MergesFields ==
  ASSUME NEW d \in 1..Depth, NEW o \in Values, NEW p \in Values, p.tag = "map"
  PROVE  LET M == Merges[d][o][p] IN M.map = [f \in DOMAIN M.map |-> M.map[f]]
<1> DEFINE gone == {f \in DOMAIN p.map : p.map[f].tag = "null"}
           inner == Merges[d - 1]
           m == [f \in (DOMAIN o.map \cup DOMAIN p.map) \ gone |->
                   IF f \in DOMAIN p.map THEN inner[Field(o, f)][p.map[f]] ELSE o.map[f]]
<1>1. Merges[d] = MergeMaps(inner)
  BY MergesUnfold
<1>2. MergeMaps(inner)[o][p] = Map(m)
  BY DEF MergeMaps
<1>3. m = [f \in DOMAIN m |-> m[f]]
  OBVIOUS
<1> HIDE DEF m
<1>4. Map(m).map = m
  BY MapHolds
<1> QED
  BY <1>1, <1>2, <1>3, <1>4

LEMMA MergesTyped ==
  ASSUME NEW d \in 0..Depth, NEW o \in Json[d], NEW p \in Json[d]
  PROVE  Merges[d][o][p] \in Json[d]
<1> DEFINE S == {i \in 0..Depth : \A a, b \in Json[i] : Merges[i][a][b] \in Json[i]}
<1>1. Depth \in Nat /\ 0 \in 0..Depth
  BY MergeAssumption
<1>2. 0 \in S
  <2> SUFFICES ASSUME NEW a \in Json[0], NEW b \in Json[0] PROVE Merges[0][a][b] \in Json[0]
    BY <1>1
  <2>1. a \in Values /\ b \in Values /\ b.tag # "map"
    BY <1>1, JsonValues, NoMapsAtZero
  <2> QED
    BY <1>1, <2>1, MergesScalar
<1>3. ASSUME NEW n \in 1..Depth, n - 1 \in S
      PROVE  n \in S
  <2>1. n \in 0..Depth /\ n - 1 \in 0..Depth /\ n # 0
    BY <1>1
  <2> SUFFICES ASSUME NEW a \in Json[n], NEW b \in Json[n] PROVE Merges[n][a][b] \in Json[n]
    BY <2>1
  <2>2. a \in Values /\ b \in Values
    BY <2>1, JsonValues
  <2>3. CASE b.tag # "map"
    BY <2>1, <2>2, <2>3, MergesScalar
  <2>4. CASE b.tag = "map"
    <3> DEFINE M == Merges[n][a][b]
    <3>1. /\ M = Map(M.map)
          /\ DOMAIN M.map \subseteq DOMAIN a.map \cup DOMAIN b.map
          /\ \A f \in DOMAIN M.map :
               M.map[f] = IF f \in DOMAIN b.map THEN Merges[n - 1][Field(a, f)][b.map[f]]
                          ELSE a.map[f]
      BY <2>2, <2>4, MergesMap
    <3>2. DOMAIN a.map \in SUBSET Names /\ DOMAIN b.map \in SUBSET Names
      BY <2>1, JsonShape
    <3>3. M.map = [f \in DOMAIN M.map |-> M.map[f]]
      BY <2>2, <2>4, MergesFields
    <3>4. ASSUME NEW f \in DOMAIN M.map
          PROVE  M.map[f] \in Json[n - 1]
      <4>1. Field(a, f) \in Json[n - 1]
        BY FieldIn
      <4>2. CASE f \in DOMAIN b.map
        <5>1. b.map[f] \in Json[n - 1]
          <6>1. b.map[f] = Field(b, f)
            BY <4>2 DEF Field
          <6> QED
            BY <6>1, FieldIn
        <5>2. Merges[n - 1][Field(a, f)][b.map[f]] \in Json[n - 1]
          BY <1>3, <4>1, <5>1
        <5> QED
          BY <3>1, <4>2, <5>2
      <4>3. CASE f \notin DOMAIN b.map
        <5>1. f \in DOMAIN a.map
          BY <3>1, <4>3
        <5>2. a.map[f] = Field(a, f)
          BY <5>1 DEF Field
        <5> QED
          BY <3>1, <4>1, <4>3, <5>2
      <4> QED
        BY <4>2, <4>3
    <3> HIDE DEF M
    <3>5. DOMAIN M.map \in SUBSET Names
      BY <3>1, <3>2
    <3>6. M.map \in [DOMAIN M.map -> Json[n - 1]]
      BY <3>3, <3>4
    <3>7. Map(M.map) \in MapsTo(Json[n - 1])
      BY <3>5, <3>6, MapsIn
    <3>8. MapsTo(Json[n - 1]) \subseteq Json[n]
      BY JsonUnfold
    <3>9. M \in Json[n]
      BY <3>1, <3>7, <3>8
    <3> QED
      BY <3>9 DEF M
  <2> QED
    BY <2>3, <2>4
<1>4. \A i \in 0..Depth : i \in S
  <2> HIDE DEF S
  <2> QED
    BY <1>1, <1>2, <1>3, UpTo
<1> QED
  BY <1>4

(* What a merge with a map leaves in each field. *)
LEMMA FieldMerged ==
  ASSUME NEW d \in 1..Depth, NEW o \in Json[d], NEW p \in Json[d], p.tag = "map", NEW f
  PROVE  LET M == Merges[d][o][p]
         IN  /\ Field(M, f) = IF f \in DOMAIN p.map THEN Merges[d - 1][Field(o, f)][Field(p, f)]
                              ELSE Field(o, f)
             /\ f \in DOMAIN M.map <=>
                  IF f \in DOMAIN p.map THEN Field(p, f).tag # "null" ELSE f \in DOMAIN o.map
<1> DEFINE M == Merges[d][o][p]
           gone == {g \in DOMAIN p.map : p.map[g].tag = "null"}
<1>1. d \in 0..Depth /\ d - 1 \in 0..Depth
  BY MergeAssumption
<1>2. o \in Values /\ p \in Values
  BY <1>1, JsonValues
<1>3. /\ DOMAIN M.map = (DOMAIN o.map \cup DOMAIN p.map) \ gone
      /\ \A g \in DOMAIN M.map :
           M.map[g] = IF g \in DOMAIN p.map THEN Merges[d - 1][Field(o, g)][p.map[g]]
                      ELSE o.map[g]
  BY <1>2, MergesMap
<1>4. Field(o, f) \in Json[d - 1] /\ Field(p, f) \in Json[d - 1]
  BY FieldIn
<1> HIDE DEF M
<1>5. CASE f \in DOMAIN p.map
  <2>1. Field(p, f) = p.map[f]
    BY <1>5 DEF Field
  <2>2. f \in DOMAIN M.map <=> Field(p, f).tag # "null"
    BY <1>3, <1>5, <2>1
  <2>3. CASE Field(p, f).tag = "null"
    <3>1. Field(p, f) \in Values /\ Field(o, f) \in Values
      BY <1>1, <1>4, JsonValues
    <3>2. Merges[d - 1][Field(o, f)][Field(p, f)] = Field(p, f)
      BY <1>1, <2>3, <3>1, MergesScalar
    <3>3. Field(p, f) = Null
      BY <1>1, <1>4, <2>3, JsonShape
    <3>4. Field(M, f) = Null
      BY <2>2, <2>3 DEF Field
    <3> QED
      BY <1>5, <2>2, <3>2, <3>3, <3>4 DEF M
  <2>4. CASE Field(p, f).tag # "null"
    <3>1. Field(M, f) = M.map[f]
      BY <2>2, <2>4 DEF Field
    <3>2. M.map[f] = Merges[d - 1][Field(o, f)][Field(p, f)]
      BY <1>3, <1>5, <2>1, <2>2, <2>4
    <3> QED
      BY <1>5, <2>2, <3>1, <3>2 DEF M
  <2> QED
    BY <2>3, <2>4
<1>6. CASE f \notin DOMAIN p.map
  <2>1. f \in DOMAIN M.map <=> f \in DOMAIN o.map
    BY <1>3, <1>6
  <2>2. f \in DOMAIN M.map => M.map[f] = o.map[f]
    BY <1>3, <1>6
  <2>3. Field(M, f) = Field(o, f)
    BY <2>1, <2>2 DEF Field
  <2> QED
    BY <1>6, <2>1, <2>3 DEF M
<1> QED
  BY <1>5, <1>6

-----------------------------------------------------------------------------
(* How the result is read, one level. *)
LEMMA ReadAtZero ==
  ASSUME NEW j \in Values
  PROVE  Unmarshals[0][j] = [j EXCEPT !.int = Float64(j.int)]
  BY UnmarshalsUnfold DEF ReadScalars

LEMMA ReadAt ==
  ASSUME NEW d \in 1..Depth, NEW j \in Values
  PROVE  Unmarshals[d][j] =
           [j EXCEPT !.int = Float64(j.int),
                     !.map = [f \in DOMAIN j.map |-> Unmarshals[d - 1][j.map[f]]]]
<1>1. Unmarshals[d] = ReadMaps(Unmarshals[d - 1])
  BY UnmarshalsUnfold
<1> QED
  BY <1>1 DEF ReadMaps

LEMMA NoFieldsRead ==
  ASSUME NEW inner
  PROVE  [f \in DOMAIN NoFields |-> inner[NoFields[f]]] = NoFields
  BY DEF NoFields

(* A value is read alike at every level that is deep enough. *)
LEMMA ReadLevels ==
  ASSUME NEW d \in 1..Depth, NEW j \in Json[d - 1]
  PROVE  Unmarshals[d][j] = Unmarshals[d - 1][j]
<1> DEFINE S == {i \in Nat : i = 0 \/ \A a \in Json[i - 1] : Unmarshals[i][a] = Unmarshals[i - 1][a]}
<1>1. 0 \in S /\ Depth \in Nat
  BY MergeAssumption
<1>2. ASSUME NEW n \in 1..Depth, n - 1 \in S
      PROVE  n \in S
  <2>1. n \in Nat /\ n \in 0..Depth /\ n - 1 \in 0..Depth
    BY <1>1
  <2> SUFFICES ASSUME NEW a \in Json[n - 1] PROVE Unmarshals[n][a] = Unmarshals[n - 1][a]
    BY <2>1
  <2>2. a \in Values
    BY <2>1, JsonValues
  <2>3. Unmarshals[n][a] =
          [a EXCEPT !.int = Float64(a.int),
                    !.map = [f \in DOMAIN a.map |-> Unmarshals[n - 1][a.map[f]]]]
    BY <2>2, ReadAt
  <2>4. a = [tag |-> a.tag, int |-> a.int, map |-> a.map]
    BY <2>1, JsonShape
  <2>5. CASE n - 1 = 0
    <3>1. a.map = NoFields
      BY <2>1, <2>5, JsonShape
    <3>2. [f \in DOMAIN a.map |-> Unmarshals[n - 1][a.map[f]]] = a.map
      BY <3>1, NoFieldsRead
    <3>3. Unmarshals[n - 1][a] = [a EXCEPT !.int = Float64(a.int)]
      BY <2>2, <2>5, ReadAtZero
    <3> QED
      BY <2>3, <2>4, <3>2, <3>3
  <2>6. CASE n - 1 # 0
    <3>1. n - 1 \in 1..Depth
      BY <1>1, <2>6
    <3>2. Unmarshals[n - 1][a] =
            [a EXCEPT !.int = Float64(a.int),
                      !.map = [f \in DOMAIN a.map |-> Unmarshals[n - 1 - 1][a.map[f]]]]
      BY <2>2, <3>1, ReadAt
    <3>3. ASSUME NEW f \in DOMAIN a.map
          PROVE  Unmarshals[n - 1][a.map[f]] = Unmarshals[n - 1 - 1][a.map[f]]
      <4>1. a.map[f] = Field(a, f)
        BY DEF Field
      <4>2. a.map[f] \in Json[n - 1 - 1]
        BY <3>1, <4>1, FieldIn
      <4> QED
        BY <1>2, <2>6, <4>2
    <3>4. [f \in DOMAIN a.map |-> Unmarshals[n - 1][a.map[f]]]
            = [f \in DOMAIN a.map |-> Unmarshals[n - 1 - 1][a.map[f]]]
      BY <3>3
    <3> QED
      BY <2>3, <3>2, <3>4
  <2> QED
    BY <2>5, <2>6
<1>3. d \in S
  <2> HIDE DEF S
  <2>1. \A i \in 0..Depth : i \in S
    BY <1>1, <1>2, UpTo
  <2> QED
    BY <1>1, <2>1
<1> QED
  BY <1>3

LEMMA ReadIn ==
  ASSUME NEW d \in 0..Depth, NEW j \in Json[d]
  PROVE  Unmarshals[d][j] = Unmarshal(j)
<1> DEFINE S == {k \in 0..Depth : \A a \in Json[Depth - k] : Unmarshals[Depth - k][a] = Unmarshal(a)}
<1>1. 0 \in S /\ Depth \in Nat
  BY MergeAssumption DEF Unmarshal
<1>2. ASSUME NEW n \in 1..Depth, n - 1 \in S
      PROVE  n \in S
  <2>1. Depth - (n - 1) \in 1..Depth /\ Depth - (n - 1) - 1 = Depth - n /\ n \in 0..Depth
    BY <1>1
  <2> SUFFICES ASSUME NEW a \in Json[Depth - n]
               PROVE  Unmarshals[Depth - n][a] = Unmarshal(a)
    BY <2>1
  <2>2. a \in Json[Depth - (n - 1)]
    BY <2>1, JsonGrows
  <2>3. Unmarshals[Depth - (n - 1)][a] = Unmarshals[Depth - n][a]
    BY <2>1, ReadLevels
  <2>4. Unmarshals[Depth - (n - 1)][a] = Unmarshal(a)
    BY <1>2, <2>2
  <2> QED
    BY <2>3, <2>4
<1>3. Depth - d \in S /\ Depth - (Depth - d) = d
  <2> HIDE DEF S
  <2>1. \A i \in 0..Depth : i \in S
    BY <1>1, <1>2, UpTo
  <2> QED
    BY <1>1, <2>1
<1> QED
  BY <1>3

LEMMA ReadNull ==
  Null \in Values /\ Unmarshal(Null) = Null
<1>1. 0 \in 0..Depth /\ Null \in Json[0] /\ Null \in Values
  <2>1. 0 \in 0..Depth /\ Depth \in 0..Depth
    BY MergeAssumption
  <2> QED
    BY <2>1, ScalarsIn DEF Values
<1>2. Unmarshal(Null) = [Null EXCEPT !.int = Float64(Null.int)]
  BY <1>1, ReadIn, ReadAtZero
<1>3. Float64(0) = 0
  BY MergeAssumption DEF Float64
<1> QED
  BY <1>1, <1>2, <1>3 DEF Null

(* Reading changes neither what kind of value it is nor its fields, and    *)
(* what a field holds is read the same way.                                *)
LEMMA FieldRead ==
  ASSUME NEW j \in Values
  PROVE  /\ Unmarshal(j).tag = j.tag
         /\ DOMAIN Unmarshal(j).map = DOMAIN j.map
         /\ \A f : Field(j, f) \in Values /\ Field(Unmarshal(j), f) = Unmarshal(Field(j, f))
<1>1. Depth \in Nat /\ Depth \in 0..Depth /\ 0 \in 0..Depth /\ j \in Json[Depth]
  BY MergeAssumption DEF Values
<1>2. j = [tag |-> j.tag, int |-> j.int, map |-> j.map]
  BY <1>1, JsonShape
<1>3. CASE Depth = 0
  <2>1. j.tag # "map"
    BY <1>1, <1>3, NoMapsAtZero
  <2>2. Unmarshal(j) = [j EXCEPT !.int = Float64(j.int)]
    BY <1>3, ReadAtZero DEF Unmarshal
  <2>3. DOMAIN j.map = {}
    BY <1>1, <2>1, JsonShape
  <2>4. Unmarshal(j).tag = j.tag /\ Unmarshal(j).map = j.map
    BY <1>2, <2>2
  <2>5. \A f : Field(j, f) = Null /\ Field(Unmarshal(j), f) = Null
    BY <2>3, <2>4 DEF Field
  <2> QED
    BY <2>4, <2>5, ReadNull
<1>4. CASE Depth # 0
  <2>1. Depth \in 1..Depth /\ Depth - 1 \in 0..Depth
    BY <1>1, <1>4
  <2> DEFINE m == [f \in DOMAIN j.map |-> Unmarshals[Depth - 1][j.map[f]]]
  <2>2. Unmarshal(j) = [j EXCEPT !.int = Float64(j.int), !.map = m]
    BY <2>1, ReadAt DEF Unmarshal
  <2>3. DOMAIN m = DOMAIN j.map /\ \A f \in DOMAIN j.map : m[f] = Unmarshals[Depth - 1][j.map[f]]
    OBVIOUS
  <2> HIDE DEF m
  <2>4. Unmarshal(j).tag = j.tag /\ Unmarshal(j).map = m
    BY <1>2, <2>2
  <2>5. ASSUME NEW f
        PROVE  Field(j, f) \in Values /\ Field(Unmarshal(j), f) = Unmarshal(Field(j, f))
    <3>1. Field(j, f) \in Json[Depth - 1]
      BY <1>1, <2>1, FieldIn
    <3>2. Field(j, f) \in Values
      BY <2>1, <3>1, JsonValues
    <3>3. CASE f \in DOMAIN j.map
      <4>1. Field(j, f) = j.map[f] /\ Field(Unmarshal(j), f) = m[f]
        BY <2>3, <2>4, <3>3 DEF Field
      <4>2. Unmarshals[Depth - 1][Field(j, f)] = Unmarshal(Field(j, f))
        BY <2>1, <3>1, ReadIn
      <4>3. m[f] = Unmarshals[Depth - 1][j.map[f]]
        BY <2>3, <3>3
      <4> QED
        BY <3>2, <4>1, <4>2, <4>3
    <3>4. CASE f \notin DOMAIN j.map
      <4>1. Field(j, f) = Null /\ Field(Unmarshal(j), f) = Null
        BY <2>3, <2>4, <3>4 DEF Field
      <4> QED
        BY <4>1, ReadNull
    <3> QED
      BY <3>3, <3>4
  <2> QED
    BY <2>3, <2>4, <2>5
<1> QED
  BY <1>3, <1>4

-----------------------------------------------------------------------------
(* Along a path. *)
LEMMA AlongTyped ==
  ASSUME NEW j \in Values, NEW q, Len(q) \in 0..Depth
  PROVE  \A i \in 0..Len(q) : Along(j, q)[i] \in Json[Depth - i]
<1> DEFINE S == {i \in 0..Len(q) : Along(j, q)[i] \in Json[Depth - i]}
<1>1. Depth \in Nat /\ Len(q) \in Nat /\ Depth - 0 = Depth
  BY MergeAssumption
<1>2. 0 \in S
  BY <1>1, AlongUnfold DEF Values
<1>3. ASSUME NEW n \in 1..Len(q), n - 1 \in S
      PROVE  n \in S
  <2>1. Depth - (n - 1) \in 1..Depth /\ Depth - (n - 1) - 1 = Depth - n /\ n \in 0..Len(q)
    BY <1>1
  <2>2. Along(j, q)[n] = Field(Along(j, q)[n - 1], q[n])
    BY <1>1, AlongUnfold
  <2>3. Along(j, q)[n - 1] \in Json[Depth - (n - 1)]
    BY <1>3
  <2>4. Field(Along(j, q)[n - 1], q[n]) \in Json[Depth - (n - 1) - 1]
    BY <2>1, <2>3, FieldIn
  <2> QED
    BY <2>1, <2>2, <2>4
<1>4. \A i \in 0..Len(q) : i \in S
  <2> HIDE DEF S
  <2> QED
    BY <1>1, <1>2, <1>3, UpTo
<1> QED
  BY <1>4

LEMMA AlongRead ==
  ASSUME NEW j \in Values, NEW q, Len(q) \in Nat
  PROVE  \A i \in 0..Len(q) : /\ Along(j, q)[i] \in Values
                              /\ Along(Unmarshal(j), q)[i] = Unmarshal(Along(j, q)[i])
<1> DEFINE S == {i \in 0..Len(q) : /\ Along(j, q)[i] \in Values
                                  /\ Along(Unmarshal(j), q)[i] = Unmarshal(Along(j, q)[i])}
<1>1. 0 \in S
  BY AlongUnfold
<1>2. ASSUME NEW n \in 1..Len(q), n - 1 \in S
      PROVE  n \in S
  <2> DEFINE a == Along(j, q)[n - 1]
  <2>1. Along(j, q)[n] = Field(a, q[n])
    BY AlongUnfold
  <2>2. Along(Unmarshal(j), q)[n] = Field(Along(Unmarshal(j), q)[n - 1], q[n])
    BY AlongUnfold
  <2>3. a \in Values /\ Along(Unmarshal(j), q)[n - 1] = Unmarshal(a)
    BY <1>2
  <2>4. n \in 0..Len(q)
    OBVIOUS
  <2> HIDE DEF a
  <2>5. Field(a, q[n]) \in Values /\ Field(Unmarshal(a), q[n]) = Unmarshal(Field(a, q[n]))
    BY <2>3, FieldRead
  <2> QED
    BY <2>1, <2>2, <2>3, <2>4, <2>5
<1>3. \A i \in 0..Len(q) : i \in S
  <2> HIDE DEF S
  <2> QED
    BY <1>1, <1>2, UpTo
<1> QED
  BY <1>3

(* A template that does not mention a field has nothing there: what stands *)
(* after it on the path is null.                                           *)
LEMMA NothingAfter ==
  ASSUME NEW p \in Values, NEW q, Len(q) \in 0..Depth,
         NEW k \in 1..Len(q), ~Has(Along(p, q), q, k)
  PROVE  \A i \in k..Len(q) : Along(p, q)[i] = Null
<1> DEFINE n == Len(q)
           S == {i \in Nat : i \in k..n => Along(p, q)[i] = Null}
<1>1. n \in Nat /\ Depth \in Nat
  BY MergeAssumption
<1>2. \A i \in 1..n : Along(p, q)[i] = Field(Along(p, q)[i - 1], q[i])
  BY <1>1, AlongUnfold
<1>3. \A f : Field(Null, f) = Null
  BY FieldOfNull
<1>4. 0 \in S
  OBVIOUS
<1>5. ASSUME NEW i \in 1..n, i - 1 \in S
      PROVE  i \in S
  <2> SUFFICES ASSUME i \in k..n PROVE Along(p, q)[i] = Null
    OBVIOUS
  <2>1. CASE i = k
    BY <1>2, <2>1 DEF Has, Field
  <2>2. CASE i # k
    <3>1. i - 1 \in k..n
      BY <2>2
    <3>2. Along(p, q)[i - 1] = Null
      BY <1>5, <3>1
    <3> QED
      BY <1>2, <1>3, <3>2
  <2> QED
    BY <2>1, <2>2
<1>6. \A i \in 0..n : i \in S
  <2> HIDE DEF S
  <2> QED
    BY <1>1, <1>4, <1>5, UpTo
<1> QED
  BY <1>1, <1>6

(* A merge along a path q, up to where the template stops mentioning.      *)
LEMMA MergedWhereMentioned ==
  ASSUME NEW o \in Values, NEW p \in Values, NEW q, Len(q) \in 0..Depth,
         NEW k \in 0..Len(q), \A i \in 1..k : Has(Along(p, q), q, i)
  PROVE  Along(Merge(o, p), q)[k] = Merges[Depth - k][Along(o, q)[k]][Along(p, q)[k]]
<1> DEFINE W == Along(Merge(o, p), q)
           O == Along(o, q)
           P == Along(p, q)
           S == {i \in 0..k : W[i] = Merges[Depth - i][O[i]][P[i]]}
<1>1. Len(q) \in Nat /\ Depth \in Nat /\ k \in Nat /\ Depth - 0 = Depth
  BY MergeAssumption
<1>2. /\ W[0] = Merge(o, p) /\ O[0] = o /\ P[0] = p
      /\ \A i \in 1..Len(q) : /\ W[i] = Field(W[i - 1], q[i])
                              /\ O[i] = Field(O[i - 1], q[i])
                              /\ P[i] = Field(P[i - 1], q[i])
  BY <1>1, AlongUnfold
<1>3. \A i \in 0..Len(q) : O[i] \in Json[Depth - i] /\ P[i] \in Json[Depth - i]
  BY AlongTyped
<1>4. \A i \in 1..k : q[i] \in DOMAIN P[i - 1].map
  BY DEF Has
<1> HIDE DEF W, O, P
<1>5. 0 \in S
  BY <1>1, <1>2 DEF Merge
<1>6. ASSUME NEW i \in 1..k, i - 1 \in S
      PROVE  i \in S
  <2>1. /\ Depth - (i - 1) \in 1..Depth /\ Depth - (i - 1) - 1 = Depth - i
        /\ Depth - (i - 1) \in 0..Depth
        /\ i \in 1..Len(q) /\ i - 1 \in 0..Len(q) /\ i \in 0..k
    BY <1>1
  <2> DEFINE d == Depth - (i - 1)
             a == O[i - 1]
             b == P[i - 1]
  <2>2. a \in Json[d] /\ b \in Json[d]
    BY <1>3, <2>1
  <2>3. q[i] \in DOMAIN b.map
    BY <1>4
  <2>4. d \in 1..Depth /\ d \in 0..Depth /\ d - 1 = Depth - i
    BY <2>1
  <2>5. W[i - 1] = Merges[d][a][b]
    BY <1>6
  <2>6. W[i] = Field(W[i - 1], q[i]) /\ O[i] = Field(a, q[i]) /\ P[i] = Field(b, q[i])
    BY <1>2, <2>1
  <2> HIDE DEF d, a, b
  <2>7. b.tag = "map"
    BY <2>2, <2>3, <2>4, FieldOfScalar
  <2>8. Field(Merges[d][a][b], q[i]) = Merges[d - 1][Field(a, q[i])][Field(b, q[i])]
    BY <2>2, <2>3, <2>4, <2>7, FieldMerged
  <2>9. W[i] = Merges[Depth - i][O[i]][P[i]]
    BY <2>4, <2>5, <2>6, <2>8
  <2> QED
    BY <2>1, <2>9
<1>7. \A i \in 0..k : i \in S
  <2> HIDE DEF S
  <2> QED
    BY <1>1, <1>5, <1>6, UpTo
<1>8. W[k] = Merges[Depth - k][O[k]][P[k]]
  BY <1>1, <1>7
<1> QED
  BY <1>8 DEF W, O, P

(* ... and after it: as in the original where it stops under a map, and    *)
(* nothing where the template has something else.                          *)
LEMMA KeptAfter ==
  ASSUME NEW o \in Values, NEW p \in Values, NEW q, Len(q) \in 0..Depth,
         NEW k \in 1..Len(q), ~Has(Along(p, q), q, k),
         \A i \in 1..(k - 1) : Has(Along(p, q), q, i)
  PROVE  \A i \in k..Len(q) :
           Along(Merge(o, p), q)[i] =
             IF Along(p, q)[k - 1].tag = "map" THEN Along(o, q)[i] ELSE Null
<1> DEFINE W == Along(Merge(o, p), q)
           O == Along(o, q)
           P == Along(p, q)
           d == Depth - (k - 1)
           kept == P[k - 1].tag = "map"
           S == {i \in Nat : i \in k..Len(q) => W[i] = IF kept THEN O[i] ELSE Null}
<1>1. /\ Len(q) \in Nat /\ Depth \in Nat /\ k - 1 \in 0..Len(q) /\ k \in 1..Len(q)
      /\ d \in 1..Depth /\ d \in 0..Depth
  BY MergeAssumption
<1>2. \A i \in 1..Len(q) : W[i] = Field(W[i - 1], q[i]) /\ O[i] = Field(O[i - 1], q[i])
  BY <1>1, AlongUnfold
<1>3. O[k - 1] \in Json[d] /\ P[k - 1] \in Json[d]
  BY <1>1, AlongTyped
<1>4. W[k - 1] = Merges[d][O[k - 1]][P[k - 1]]
  BY <1>1, MergedWhereMentioned
<1>5. q[k] \notin DOMAIN P[k - 1].map
  BY DEF Has
<1> HIDE DEF W, O, P, d
<1>6. W[k] = IF kept THEN O[k] ELSE Null
  <2>1. CASE kept
    <3>1. Field(Merges[d][O[k - 1]][P[k - 1]], q[k]) = Field(O[k - 1], q[k])
      BY <1>1, <1>3, <1>5, <2>1, FieldMerged
    <3> QED
      BY <1>1, <1>2, <1>4, <2>1, <3>1
  <2>2. CASE ~kept
    <3>1. O[k - 1] \in Values /\ P[k - 1] \in Values
      BY <1>1, <1>3, JsonValues
    <3>2. W[k - 1] = P[k - 1]
      BY <1>1, <1>4, <2>2, <3>1, MergesScalar
    <3>3. Field(P[k - 1], q[k]) = Null
      BY <1>5 DEF Field
    <3> QED
      BY <1>1, <1>2, <2>2, <3>2, <3>3
  <2> QED
    BY <2>1, <2>2
<1>7. \A f : Field(Null, f) = Null
  BY FieldOfNull
<1>8. 0 \in S
  BY <1>1
<1>9. ASSUME NEW i \in 1..Len(q), i - 1 \in S
      PROVE  i \in S
  <2> SUFFICES ASSUME i \in k..Len(q) PROVE W[i] = IF kept THEN O[i] ELSE Null
    OBVIOUS
  <2>1. CASE i = k
    BY <1>6, <2>1
  <2>2. CASE i # k
    <3>1. i - 1 \in k..Len(q)
      BY <1>1, <2>2
    <3>2. W[i - 1] = IF kept THEN O[i - 1] ELSE Null
      BY <1>9, <3>1
    <3> HIDE DEF kept
    <3> QED
      BY <1>2, <1>7, <3>2
  <2> QED
    BY <2>1, <2>2
<1>10. \A i \in 0..Len(q) : i \in S
  <2> HIDE DEF S, kept
  <2> QED
    BY <1>1, <1>8, <1>9, UpTo
<1>11. \A i \in k..Len(q) : W[i] = IF kept THEN O[i] ELSE Null
  BY <1>1, <1>10
<1> QED
  BY <1>11 DEF W, O, P

(* What MergesByPath says of the merged text, before its numbers are read. *)
LEMMA MergedByPath ==
  ASSUME NEW o \in Values, NEW p \in Values, NEW q, Len(q) \in 0..Depth
  PROVE  LET W == Along(Merge(o, p), q)
             O == Along(o, q)
             P == Along(p, q)
             n == Len(q)
             mentioned == \A i \in 1..n : Has(P, q, i)
             kept == \E i \in 1..n : P[i - 1].tag = "map" /\ ~Has(P, q, i)
         IN  /\ mentioned => IF P[n].tag = "map" THEN W[n].tag = "map" ELSE W[n] = P[n]
             /\ kept => W[n] = O[n]
             /\ n # 0 => (Has(W, q, n) <=> \/ mentioned /\ P[n].tag # "null"
                                           \/ kept /\ Has(O, q, n))
<1> DEFINE W == Along(Merge(o, p), q)
           O == Along(o, q)
           P == Along(p, q)
           n == Len(q)
           mentioned == \A i \in 1..n : Has(P, q, i)
           kept == \E i \in 1..n : P[i - 1].tag = "map" /\ ~Has(P, q, i)
<1>1. n \in Nat /\ Depth \in Nat /\ n \in 0..Depth /\ n \in 0..n
  BY MergeAssumption
<1>2. \A i \in 0..n : /\ O[i] \in Json[Depth - i] /\ P[i] \in Json[Depth - i]
                       /\ Depth - i \in 0..Depth
                       /\ O[i] \in Values /\ P[i] \in Values
  <2>1. \A i \in 0..n : O[i] \in Json[Depth - i] /\ P[i] \in Json[Depth - i]
    BY AlongTyped
  <2>2. \A i \in 0..n : Depth - i \in 0..Depth
    BY <1>1
  <2> HIDE DEF O, P, n
  <2> QED
    BY <2>1, <2>2, JsonValues
<1>3. \A i \in 1..n : P[i] = Field(P[i - 1], q[i])
  BY <1>1, AlongUnfold
<1>4. \A k \in 0..n : (\A i \in 1..k : Has(P, q, i)) => W[k] = Merges[Depth - k][O[k]][P[k]]
  BY MergedWhereMentioned
<1>5. \A k \in 1..n : ~Has(P, q, k) /\ (\A i \in 1..(k - 1) : Has(P, q, i))
        => \A i \in k..n : W[i] = IF P[k - 1].tag = "map" THEN O[i] ELSE Null
  BY KeptAfter
<1>6. \A k \in 1..n : ~Has(P, q, k) => \A i \in k..n : P[i] = Null
  BY NothingAfter
<1>7. Null.tag = "null" /\ \A f : f \notin DOMAIN Null.map
  <2>1. Null.map = NoFields /\ Null.tag = "null"
    BY DEF Null
  <2>2. DOMAIN NoFields = {}
    BY DEF NoFields
  <2> QED
    BY <2>1, <2>2
<1> HIDE DEF W, O, P, n
<1>8. CASE mentioned
  <2>1. ~kept
    BY <1>8
  <2>2. W[n] = Merges[Depth - n][O[n]][P[n]]
    BY <1>1, <1>4, <1>8
  <2>3. O[n] \in Json[Depth - n] /\ P[n] \in Json[Depth - n] /\ Depth - n \in 0..Depth
        /\ O[n] \in Values /\ P[n] \in Values
    BY <1>1, <1>2
  <2>4. P[n].tag = "map" => W[n].tag = "map"
    <3>1. SUFFICES ASSUME P[n].tag = "map" PROVE W[n].tag = "map"
      OBVIOUS
    <3>2. Depth - n # 0
      BY <2>3, <3>1, NoMapsAtZero
    <3>3. Depth - n \in 1..Depth
      BY <2>3, <3>2
    <3> QED
      BY <2>2, <2>3, <3>1, <3>3, MergesMap
  <2>5. P[n].tag # "map" => W[n] = P[n]
    BY <2>2, <2>3, MergesScalar
  <2>6. n # 0 => (Has(W, q, n) <=> P[n].tag # "null")
    <3>1. SUFFICES ASSUME n # 0 PROVE Has(W, q, n) <=> P[n].tag # "null"
      OBVIOUS
    <3> DEFINE d == Depth - (n - 1)
               a == O[n - 1]
               b == P[n - 1]
    <3>2. n \in 1..n /\ n - 1 \in 0..n /\ d \in 1..Depth
      BY <1>1, <3>1
    <3>3. W[n - 1] = Merges[d][a][b]
      <4>1. \A i \in 1..(n - 1) : Has(P, q, i)
        BY <1>1, <1>8
      <4> QED
        BY <1>4, <3>2, <4>1
    <3>4. a \in Json[d] /\ b \in Json[d] /\ d \in 0..Depth
      BY <1>2, <3>2
    <3>5. q[n] \in DOMAIN b.map
      BY <1>8, <3>2 DEF Has
    <3>6. P[n] = Field(b, q[n])
      BY <1>3, <3>2
    <3>7. Has(W, q, n) <=> q[n] \in DOMAIN W[n - 1].map
      BY DEF Has
    <3> HIDE DEF a, b, d
    <3>8. b.tag = "map"
      BY <3>4, <3>5, FieldOfScalar
    <3>9. q[n] \in DOMAIN Merges[d][a][b].map <=> Field(b, q[n]).tag # "null"
      BY <3>2, <3>4, <3>5, <3>8, FieldMerged
    <3> QED
      BY <3>3, <3>6, <3>7, <3>9
  <2> QED
    BY <1>8, <2>1, <2>4, <2>5, <2>6 DEF W, O, P, n
<1>9. CASE ~mentioned
  <2>1. PICK k \in 1..n : ~Has(P, q, k) /\ \A i \in 1..(k - 1) : Has(P, q, i)
    <3> DEFINE B == {i \in 1..n : ~Has(P, q, i)}
    <3>1. B \in SUBSET Nat /\ B # {}
      BY <1>1, <1>9
    <3>2. PICK k \in B : \A i \in B : k <= i
      <4> HIDE DEF B
      <4> QED
        BY <3>1, LeastNumber
    <3> QED
      BY <1>1, <3>2
  <2>2. k \in Nat /\ n \in k..n /\ n # 0 /\ k - 1 \in 0..n
    BY <1>1
  <2>3. \A i \in k..n : P[i] = Null
    BY <1>6, <2>1
  <2>4. \A i \in k..n : W[i] = IF P[k - 1].tag = "map" THEN O[i] ELSE Null
    BY <1>5, <2>1
  <2>5. kept <=> P[k - 1].tag = "map"
    <3>1. P[k - 1].tag = "map" => kept
      BY <2>1
    <3>2. ASSUME NEW i \in 1..n, P[i - 1].tag = "map", ~Has(P, q, i)
          PROVE  i = k
      <4>1. ~(i < k)
        BY <2>1, <2>2, <3>2
      <4>2. ~(i > k)
        <5>1. SUFFICES ASSUME i > k PROVE FALSE
          OBVIOUS
        <5>2. i - 1 \in k..n
          BY <2>2, <5>1
        <5> QED
          BY <1>7, <2>3, <3>2, <5>2
      <4> QED
        BY <2>2, <4>1, <4>2
    <3> QED
      BY <3>1, <3>2
  <2>6. kept => W[n] = O[n]
    BY <2>2, <2>4, <2>5
  <2>7. Has(W, q, n) <=> kept /\ Has(O, q, n)
    <3>1. CASE k = n
      <4> DEFINE d == Depth - (n - 1)
                 a == O[n - 1]
                 b == P[n - 1]
      <4>1. n - 1 \in 0..n /\ d \in 1..Depth
        BY <1>1, <2>2
      <4>2. W[n - 1] = Merges[d][a][b]
        BY <1>4, <2>1, <3>1, <4>1
      <4>3. a \in Json[d] /\ b \in Json[d] /\ d \in 0..Depth /\ a \in Values /\ b \in Values
        BY <1>2, <4>1
      <4>4. q[n] \notin DOMAIN b.map
        BY <2>1, <3>1 DEF Has
      <4>5. kept <=> b.tag = "map"
        BY <2>5, <3>1
      <4>6. (Has(W, q, n) <=> q[n] \in DOMAIN W[n - 1].map) /\ (Has(O, q, n) <=> q[n] \in DOMAIN a.map)
        BY DEF Has
      <4> HIDE DEF a, b, d, kept
      <4>7. CASE b.tag = "map"
        <5>1. q[n] \in DOMAIN Merges[d][a][b].map <=> q[n] \in DOMAIN a.map
          BY <4>1, <4>3, <4>4, <4>7, FieldMerged
        <5> QED
          BY <4>2, <4>5, <4>6, <4>7, <5>1
      <4>8. CASE b.tag # "map"
        <5>1. Merges[d][a][b] = b
          BY <4>3, <4>8, MergesScalar
        <5> QED
          BY <4>2, <4>4, <4>5, <4>6, <4>8, <5>1
      <4> QED
        BY <4>7, <4>8
    <3>2. CASE k # n
      <4>1. n - 1 \in k..n
        BY <2>2, <3>2
      <4>2. W[n - 1] = IF kept THEN O[n - 1] ELSE Null
        BY <2>4, <2>5, <4>1
      <4> HIDE DEF kept
      <4> QED
        BY <1>7, <4>2 DEF Has
    <3> QED
      BY <3>1, <3>2
  <2> QED
    BY <1>9, <2>6, <2>7 DEF W, O, P, n
<1> QED
  BY <1>8, <1>9

(* An update does to every field, at every depth, what the template says   *)
(* of it, whatever the two are.                                            *)
THEOREM UpdateMergesByPath ==
  ASSUME original \in Values, patch \in Values
  PROVE  MergesByPath
<1> DEFINE M == Merge(original, patch)
<1>1. M \in Values /\ Depth \in Nat
  <2>1. Depth \in 0..Depth /\ Depth \in Nat
    BY MergeAssumption
  <2> QED
    BY <2>1, MergesTyped DEF Merge, Values
<1> SUFFICES ASSUME NEW q \in Paths
             PROVE  LET m == Along(Unmarshal(M), q)
                        o == Along(original, q)
                        p == Along(patch, q)
                        n == Len(q)
                        mentioned == \A i \in 1..n : Has(p, q, i)
                        kept == \E i \in 1..n : p[i - 1].tag = "map" /\ ~Has(p, q, i)
                    IN  /\ mentioned =>
                             IF p[n].tag = "map" THEN m[n].tag = "map"
                             ELSE m[n] = Unmarshal(p[n])
                        /\ kept => m[n] = Unmarshal(o[n])
                        /\ n # 0 => (Has(m, q, n) <=> \/ mentioned /\ p[n].tag # "null"
                                                      \/ kept /\ Has(o, q, n))
  BY Zenon DEF MergesByPath, MergePatch
<1>2. Len(q) \in 0..Depth
  <2>1. PICK n \in 0..Depth : q \in [1..n -> Names]
    BY DEF Paths
  <2>2. n \in Nat /\ q \in Seq(Names) /\ Len(q) = n
    BY <1>1, <2>1
  <2> QED
    BY <2>1, <2>2
<1> DEFINE n == Len(q)
           m == Along(Unmarshal(M), q)
           W == Along(M, q)
           o == Along(original, q)
           p == Along(patch, q)
           mentioned == \A i \in 1..n : Has(p, q, i)
           kept == \E i \in 1..n : p[i - 1].tag = "map" /\ ~Has(p, q, i)
<1>3. \A i \in 0..n : W[i] \in Values /\ m[i] = Unmarshal(W[i])
  <2>1. Len(q) \in Nat
    BY <1>2
  <2> HIDE DEF M
  <2> QED
    BY <1>1, <2>1, AlongRead
<1>4. /\ mentioned => IF p[n].tag = "map" THEN W[n].tag = "map" ELSE W[n] = p[n]
      /\ kept => W[n] = o[n]
      /\ n # 0 => (Has(W, q, n) <=> \/ mentioned /\ p[n].tag # "null"
                                    \/ kept /\ Has(o, q, n))
  BY <1>2, MergedByPath
<1>5. n \in Nat /\ n \in 0..n
  BY <1>2
<1> HIDE DEF m, W, o, p, n, mentioned, kept
<1>6. W[n] \in Values /\ m[n] = Unmarshal(W[n]) /\ m[n].tag = W[n].tag
  BY <1>3, <1>5, FieldRead
<1>7. n # 0 => (Has(m, q, n) <=> Has(W, q, n))
  <2>1. SUFFICES ASSUME n # 0 PROVE Has(m, q, n) <=> Has(W, q, n)
    OBVIOUS
  <2>2. n - 1 \in 0..n
    BY <1>5, <2>1
  <2>3. DOMAIN m[n - 1].map = DOMAIN W[n - 1].map
    BY <1>3, <2>2, FieldRead
  <2> QED
    BY <2>3 DEF Has
<1>8. /\ mentioned => IF p[n].tag = "map" THEN m[n].tag = "map" ELSE m[n] = Unmarshal(p[n])
      /\ kept => m[n] = Unmarshal(o[n])
      /\ n # 0 => (Has(m, q, n) <=> \/ mentioned /\ p[n].tag # "null"
                                    \/ kept /\ Has(o, q, n))
  BY <1>4, <1>6, <1>7
<1> QED
  BY <1>8 DEF m, o, p, n, mentioned, kept

-----------------------------------------------------------------------------
(* Two maps with the same in every field are the same. *)
LEMMA SameMaps ==
  ASSUME NEW d \in 0..Depth, NEW a \in Json[d], NEW b \in Json[d],
         a.tag = "map", b.tag = "map",
         \A f : f \in DOMAIN a.map <=> f \in DOMAIN b.map,
         \A f : Field(a, f) = Field(b, f)
  PROVE  a = b
<1>1. a = Map(a.map) /\ a.map \in [DOMAIN a.map -> Json[d - 1]]
  BY JsonShape
<1>2. b = Map(b.map) /\ b.map \in [DOMAIN b.map -> Json[d - 1]]
  BY JsonShape
<1>3. DOMAIN a.map = DOMAIN b.map
  OBVIOUS
<1>4. \A f \in DOMAIN a.map : a.map[f] = b.map[f]
  BY <1>3 DEF Field
<1>5. a.map = b.map
  BY <1>1, <1>2, <1>3, <1>4
<1> QED
  BY <1>1, <1>2, <1>5

LEMMA FloatTwice ==
  ASSUME NEW n \in Nat
  PROVE  Float64(n) \in Nat /\ Float64(Float64(n)) = Float64(n)
<1>1. CASE n <= Exact \/ n % 2 = 0
  BY <1>1 DEF Float64
<1>2. CASE ~(n <= Exact \/ n % 2 = 0)
  <2>1. n \in Nat /\ n % 2 = 1
    BY <1>2
  <2>2. (n + 1) % 2 = 0 /\ (n - 1) % 2 = 0 /\ n - 1 \in Nat
    BY <2>1
  <2>3. Float64(n) = n + 1 \/ Float64(n) = n - 1
    BY <1>2 DEF Float64
  <2>4. Float64(n + 1) = n + 1 /\ Float64(n - 1) = n - 1
    BY <2>2 DEF Float64
  <2> QED
    BY <2>2, <2>3, <2>4
<1> QED
  BY <1>1, <1>2

(* Reading a scalar, and reading in general: the result is a value of the  *)
(* same depth, which is read as itself.                                    *)
LEMMA ReadScalar ==
  ASSUME NEW j \in Scalars
  PROVE  /\ Unmarshal(j) \in Scalars
         /\ Unmarshal(j) = [j EXCEPT !.int = Float64(j.int)]
<1>1. 0 \in 0..Depth /\ j \in Json[0]
  BY MergeAssumption, JsonUnfold
<1>2. Unmarshal(j) = [j EXCEPT !.int = Float64(j.int)]
  BY <1>1, JsonValues, ReadIn, ReadAtZero
<1>3. CASE j = Null
  BY <1>2, <1>3, ReadNull
<1>4. CASE j # Null
  <2>1. PICK n \in Numbers : j = Num(n)
    BY <1>4 DEF Scalars
  <2>2. Float64(n) \in Numbers
    BY MergeAssumption
  <2>3. Unmarshal(j) = Num(Float64(n))
    BY <1>2, <2>1 DEF Num
  <2> QED
    BY <1>2, <2>2, <2>3 DEF Scalars
<1> QED
  BY <1>3, <1>4

LEMMA ReadTyped ==
  ASSUME NEW d \in 0..Depth, NEW j \in Json[d]
  PROVE  Unmarshal(j) \in Json[d]
<1> DEFINE S == {i \in 0..Depth : \A a \in Json[i] : Unmarshal(a) \in Json[i]}
<1>1. Depth \in Nat /\ 0 \in 0..Depth
  BY MergeAssumption
<1>2. 0 \in S
  BY <1>1, JsonUnfold, ReadScalar
<1>3. ASSUME NEW n \in 1..Depth, n - 1 \in S
      PROVE  n \in S
  <2>1. n \in 0..Depth /\ n - 1 \in 0..Depth
    BY <1>1
  <2> SUFFICES ASSUME NEW a \in Json[n] PROVE Unmarshal(a) \in Json[n]
    BY <2>1
  <2>2. CASE a.tag # "map"
    BY <2>1, <2>2, JsonShape, ReadScalar, ScalarsIn
  <2>3. CASE a.tag = "map"
    <3> DEFINE m == [f \in DOMAIN a.map |-> Unmarshals[n - 1][a.map[f]]]
    <3>1. a = Map(a.map) /\ a.int = 0 /\ DOMAIN a.map \in SUBSET Names
      <4>1. a = Map(a.map) /\ DOMAIN a.map \in SUBSET Names
        BY <2>1, <2>3, JsonShape
      <4>2. Map(a.map).int = 0
        BY DEF Map
      <4> QED
        BY <4>1, <4>2
    <3>2. Unmarshal(a) = [a EXCEPT !.int = Float64(a.int), !.map = m]
      <4>1. a \in Values /\ Unmarshal(a) = Unmarshals[n][a]
        BY <2>1, JsonValues, ReadIn
      <4> QED
        BY <4>1, ReadAt
    <3>3. m \in [DOMAIN a.map -> Json[n - 1]]
      <4>1. ASSUME NEW f \in DOMAIN a.map
            PROVE  Unmarshals[n - 1][a.map[f]] \in Json[n - 1]
        <5>1. a.map[f] = Field(a, f)
          BY DEF Field
        <5>2. a.map[f] \in Json[n - 1]
          BY <5>1, FieldIn
        <5> QED
          BY <1>3, <2>1, <5>2, ReadIn
      <4> QED
        BY <4>1
    <3> HIDE DEF m
    <3>4. Float64(0) = 0
      BY <1>1, MergeAssumption DEF Float64
    <3>5. Unmarshal(a) = Map(m)
      <4> DEFINE x == a.map
      <4>1. a = Map(x) /\ Float64(a.int) = 0
        BY <3>1, <3>4
      <4> HIDE DEF x
      <4>2. [Map(x) EXCEPT !.int = 0] = Map(x)
        BY DEF Map
      <4>3. [Map(x) EXCEPT !.map = m] = Map(m)
        BY DEF Map
      <4> QED
        BY <3>2, <4>1, <4>2, <4>3
    <3>6. Map(m) \in MapsTo(Json[n - 1])
      BY <3>1, <3>3, MapsIn
    <3> QED
      BY <3>5, <3>6, JsonUnfold
  <2> QED
    BY <2>2, <2>3
<1>4. \A i \in 0..Depth : i \in S
  <2> HIDE DEF S
  <2> QED
    BY <1>1, <1>2, <1>3, UpTo
<1> QED
  BY <1>4

LEMMA ReadTwice ==
  ASSUME NEW d \in 0..Depth, NEW j \in Json[d]
  PROVE  Unmarshal(Unmarshal(j)) = Unmarshal(j)
<1> DEFINE S == {i \in 0..Depth : \A a \in Json[i] : Unmarshal(Unmarshal(a)) = Unmarshal(a)}
<1>1. Depth \in Nat /\ 0 \in 0..Depth
  BY MergeAssumption
<1>2. ASSUME NEW a \in Scalars PROVE Unmarshal(Unmarshal(a)) = Unmarshal(a)
  <2> DEFINE u == Unmarshal(a)
  <2>1. u \in Scalars /\ u = [a EXCEPT !.int = Float64(a.int)]
    BY ReadScalar
  <2>2. a.int \in Nat /\ a = [tag |-> a.tag, int |-> a.int, map |-> a.map]
    BY ScalarsAre
  <2>3. u.int = Float64(a.int)
    BY <2>1, <2>2
  <2>4. Float64(u.int) = u.int
    BY <2>2, <2>3, FloatTwice
  <2>5. u = [tag |-> u.tag, int |-> u.int, map |-> u.map]
    BY <2>1, ScalarsAre
  <2>6. Unmarshal(u) = [u EXCEPT !.int = Float64(u.int)]
    BY <2>1, ReadScalar
  <2> HIDE DEF u
  <2>7. Unmarshal(u) = u
    BY <2>4, <2>5, <2>6
  <2> QED
    BY <2>7 DEF u
<1>3. 0 \in S
  BY <1>1, <1>2, JsonUnfold
<1>4. ASSUME NEW n \in 1..Depth, n - 1 \in S
      PROVE  n \in S
  <2>1. n \in 0..Depth /\ n - 1 \in 0..Depth
    BY <1>1
  <2> SUFFICES ASSUME NEW a \in Json[n] PROVE Unmarshal(Unmarshal(a)) = Unmarshal(a)
    BY <2>1
  <2>2. CASE a.tag # "map"
    <3>1. a \in Scalars
      BY <2>1, <2>2, JsonShape
    <3> QED
      BY <1>2, <3>1
  <2>3. CASE a.tag = "map"
    <3> DEFINE u == Unmarshal(a)
               v == Unmarshal(u)
    <3>1. u \in Json[n] /\ v \in Json[n] /\ a \in Values /\ u \in Values
      BY <2>1, JsonValues, ReadTyped
    <3>2. /\ u.tag = a.tag /\ DOMAIN u.map = DOMAIN a.map
          /\ \A f : Field(u, f) = Unmarshal(Field(a, f))
      BY <3>1, FieldRead
    <3>3. /\ v.tag = u.tag /\ DOMAIN v.map = DOMAIN u.map
          /\ \A f : Field(v, f) = Unmarshal(Field(u, f))
      BY <3>1, FieldRead
    <3>4. \A f : Unmarshal(Unmarshal(Field(a, f))) = Unmarshal(Field(a, f))
      BY <1>4, FieldIn
    <3> HIDE DEF u, v
    <3>5. \A f : Field(v, f) = Field(u, f)
      BY <3>2, <3>3, <3>4
    <3>6. v = u
      BY <2>1, <2>3, <3>1, <3>2, <3>3, <3>5, SameMaps
    <3> QED
      BY <3>6 DEF u, v
  <2> QED
    BY <2>2, <2>3
<1>5. \A i \in 0..Depth : i \in S
  <2> HIDE DEF S
  <2> QED
    BY <1>1, <1>3, <1>4, UpTo
<1> QED
  BY <1>5

(* Reading and merging can change places. *)
LEMMA ReadMerged ==
  ASSUME NEW d \in 0..Depth, NEW o \in Json[d], NEW p \in Json[d]
  PROVE  Unmarshal(Merges[d][o][p]) = Merges[d][Unmarshal(o)][Unmarshal(p)]
<1> DEFINE S == {i \in 0..Depth : \A a, b \in Json[i] :
                   Unmarshal(Merges[i][a][b]) = Merges[i][Unmarshal(a)][Unmarshal(b)]}
<1>1. Depth \in Nat /\ 0 \in 0..Depth
  BY MergeAssumption
<1>2. ASSUME NEW i \in 0..Depth, NEW a \in Json[i], NEW b \in Json[i], b.tag # "map"
      PROVE  Unmarshal(Merges[i][a][b]) = Merges[i][Unmarshal(a)][Unmarshal(b)]
  <2>1. a \in Values /\ b \in Values /\ Unmarshal(a) \in Values /\ Unmarshal(b) \in Values
    BY JsonValues, ReadTyped
  <2>2. Unmarshal(b).tag # "map"
    BY <1>2, <2>1, FieldRead
  <2>3. Merges[i][a][b] = b
    BY <1>2, <2>1, MergesScalar
  <2>4. Merges[i][Unmarshal(a)][Unmarshal(b)] = Unmarshal(b)
    BY <2>1, <2>2, MergesScalar
  <2> QED
    BY <2>3, <2>4
<1>3. 0 \in S
  BY <1>1, <1>2, NoMapsAtZero
<1>4. ASSUME NEW n \in 1..Depth, n - 1 \in S
      PROVE  n \in S
  <2>1. n \in 0..Depth /\ n - 1 \in 0..Depth
    BY <1>1
  <2> SUFFICES ASSUME NEW a \in Json[n], NEW b \in Json[n]
               PROVE  Unmarshal(Merges[n][a][b]) = Merges[n][Unmarshal(a)][Unmarshal(b)]
    BY <2>1
  <2>2. CASE b.tag # "map"
    BY <1>2, <2>1, <2>2
  <2>3. CASE b.tag = "map"
    <3> DEFINE ua == Unmarshal(a)
               ub == Unmarshal(b)
               M == Merges[n][a][b]
               N == Merges[n][ua][ub]
               uM == Unmarshal(M)
    <3>1. a \in Values /\ b \in Values /\ ua \in Json[n] /\ ub \in Json[n] /\ ua \in Values /\ ub \in Values
      BY <2>1, JsonValues, ReadTyped
    <3>2. M \in Json[n] /\ N \in Json[n] /\ M \in Values
      BY <2>1, <3>1, JsonValues, MergesTyped
    <3>3. /\ DOMAIN ua.map = DOMAIN a.map
          /\ \A f : Field(ua, f) = Unmarshal(Field(a, f))
      BY <3>1, FieldRead
    <3>4. /\ ub.tag = "map" /\ DOMAIN ub.map = DOMAIN b.map
          /\ \A f : /\ Field(ub, f) = Unmarshal(Field(b, f))
                    /\ Field(ub, f).tag = Field(b, f).tag
      BY <2>3, <3>1, FieldRead
    <3>5. /\ uM \in Json[n] /\ uM.tag = M.tag /\ DOMAIN uM.map = DOMAIN M.map
          /\ \A f : Field(uM, f) = Unmarshal(Field(M, f))
      BY <2>1, <3>2, FieldRead, ReadTyped
    <3>6. M.tag = "map"
      BY <2>3, <3>1, MergesMap
    <3>7. N.tag = "map"
      BY <3>1, <3>4, MergesMap
    <3>8. ASSUME NEW f
          PROVE  (f \in DOMAIN uM.map <=> f \in DOMAIN N.map) /\ Field(uM, f) = Field(N, f)
      <4>1. /\ Field(M, f) = IF f \in DOMAIN b.map THEN Merges[n - 1][Field(a, f)][Field(b, f)]
                             ELSE Field(a, f)
            /\ f \in DOMAIN M.map <=>
                 IF f \in DOMAIN b.map THEN Field(b, f).tag # "null" ELSE f \in DOMAIN a.map
        BY <2>3, FieldMerged
      <4>2. /\ Field(N, f) = IF f \in DOMAIN ub.map THEN Merges[n - 1][Field(ua, f)][Field(ub, f)]
                             ELSE Field(ua, f)
            /\ f \in DOMAIN N.map <=>
                 IF f \in DOMAIN ub.map THEN Field(ub, f).tag # "null" ELSE f \in DOMAIN ua.map
        BY <3>1, <3>4, FieldMerged
      <4>3. Unmarshal(Merges[n - 1][Field(a, f)][Field(b, f)])
              = Merges[n - 1][Unmarshal(Field(a, f))][Unmarshal(Field(b, f))]
        BY <1>4, FieldIn
      <4> HIDE DEF ua, ub, M, N, uM
      <4> QED
        BY <3>3, <3>4, <3>5, <4>1, <4>2, <4>3
    <3> HIDE DEF ua, ub, M, N, uM
    <3>9. uM = N
      BY <2>1, <3>2, <3>5, <3>6, <3>7, <3>8, SameMaps
    <3> QED
      BY <3>9 DEF ua, ub, M, N, uM
  <2> QED
    BY <2>2, <2>3
<1>5. \A i \in 0..Depth : i \in S
  <2> HIDE DEF S
  <2> QED
    BY <1>1, <1>3, <1>4, UpTo
<1> QED
  BY <1>5

(* A merge that is repeated changes nothing. *)
LEMMA MergedTwice ==
  ASSUME NEW d \in 0..Depth, NEW o \in Json[d], NEW p \in Json[d]
  PROVE  Merges[d][Merges[d][o][p]][p] = Merges[d][o][p]
<1> DEFINE S == {i \in 0..Depth : \A a, b \in Json[i] :
                   Merges[i][Merges[i][a][b]][b] = Merges[i][a][b]}
<1>1. Depth \in Nat /\ 0 \in 0..Depth
  BY MergeAssumption
<1>2. ASSUME NEW i \in 0..Depth, NEW a \in Json[i], NEW b \in Json[i], b.tag # "map"
      PROVE  Merges[i][Merges[i][a][b]][b] = Merges[i][a][b]
  BY <1>2, JsonValues, MergesScalar
<1>3. 0 \in S
  BY <1>1, <1>2, NoMapsAtZero
<1>4. ASSUME NEW n \in 1..Depth, n - 1 \in S
      PROVE  n \in S
  <2>1. n \in 0..Depth /\ n - 1 \in 0..Depth
    BY <1>1
  <2> SUFFICES ASSUME NEW a \in Json[n], NEW b \in Json[n]
               PROVE  Merges[n][Merges[n][a][b]][b] = Merges[n][a][b]
    BY <2>1
  <2>2. CASE b.tag # "map"
    BY <1>2, <2>1, <2>2
  <2>3. CASE b.tag = "map"
    <3> DEFINE M == Merges[n][a][b]
               N == Merges[n][M][b]
    <3>1. M \in Json[n] /\ a \in Values /\ b \in Values
      BY <2>1, JsonValues, MergesTyped
    <3>2. N \in Json[n] /\ M \in Values
      BY <2>1, <3>1, JsonValues, MergesTyped
    <3>3. M.tag = "map"
      BY <2>3, <3>1, MergesMap
    <3>4. N.tag = "map"
      BY <2>3, <3>1, <3>2, MergesMap
    <3>5. ASSUME NEW f
          PROVE  (f \in DOMAIN N.map <=> f \in DOMAIN M.map) /\ Field(N, f) = Field(M, f)
      <4>1. /\ Field(M, f) = IF f \in DOMAIN b.map THEN Merges[n - 1][Field(a, f)][Field(b, f)]
                             ELSE Field(a, f)
            /\ f \in DOMAIN M.map <=>
                 IF f \in DOMAIN b.map THEN Field(b, f).tag # "null" ELSE f \in DOMAIN a.map
        BY <2>3, FieldMerged
      <4> HIDE DEF M
      <4>2. /\ Field(N, f) = IF f \in DOMAIN b.map THEN Merges[n - 1][Field(M, f)][Field(b, f)]
                             ELSE Field(M, f)
            /\ f \in DOMAIN N.map <=>
                 IF f \in DOMAIN b.map THEN Field(b, f).tag # "null" ELSE f \in DOMAIN M.map
        BY <2>3, <3>1, FieldMerged
      <4>3. Merges[n - 1][Merges[n - 1][Field(a, f)][Field(b, f)]][Field(b, f)]
              = Merges[n - 1][Field(a, f)][Field(b, f)]
        BY <1>4, FieldIn
      <4> HIDE DEF N
      <4> QED
        BY <4>1, <4>2, <4>3
    <3> HIDE DEF M, N
    <3>6. N = M
      BY <2>1, <3>1, <3>2, <3>3, <3>4, <3>5, SameMaps
    <3> QED
      BY <3>6 DEF M, N
  <2> QED
    BY <2>2, <2>3
<1>5. \A i \in 0..Depth : i \in S
  <2> HIDE DEF S
  <2> QED
    BY <1>1, <1>3, <1>4, UpTo
<1> QED
  BY <1>5

(* An update to what a resource has asks for nothing new: neither merge nor *)
(* the rounding of integers goes any further the second time.              *)
THEOREM UpdateAgainChangesNothing ==
  ASSUME original \in Values, patch \in Values
  PROVE  MergesOnce
<1> DEFINE M == Merges[Depth][original][patch]
           u == Unmarshal(M)
           up == Unmarshal(patch)
<1>1. Depth \in 0..Depth /\ original \in Json[Depth] /\ patch \in Json[Depth]
  BY MergeAssumption DEF Values
<1>2. M \in Json[Depth] /\ u \in Json[Depth] /\ up \in Json[Depth]
  BY <1>1, MergesTyped, ReadTyped
<1>3. Unmarshal(Merges[Depth][u][patch]) = Merges[Depth][Unmarshal(u)][up]
  BY <1>1, <1>2, ReadMerged
<1>4. Unmarshal(u) = u
  BY <1>1, <1>2, ReadTwice
<1>5. u = Merges[Depth][Unmarshal(original)][up]
  BY <1>1, ReadMerged
<1>6. Unmarshal(original) \in Json[Depth]
  BY <1>1, ReadTyped
<1>7. Merges[Depth][u][up] = u
  BY <1>1, <1>2, <1>5, <1>6, MergedTwice
<1>8. MergePatch(u, patch) = u
  BY <1>3, <1>4, <1>7 DEF MergePatch, Merge
<1>9. MergePatch(original, patch) = u
  BY DEF MergePatch, Merge
<1> QED
  BY <1>8, <1>9 DEF MergesOnce

(* Where no integer is too large, reading changes nothing, so that the     *)
(* fields a template does not mention are preserved, as update.go:53 says. *)
LEMMA ReadExactly ==
  ASSUME \A n \in Numbers : n <= Exact, NEW d \in 0..Depth, NEW j \in Json[d]
  PROVE  Unmarshal(j) = j
<1> DEFINE S == {i \in 0..Depth : \A a \in Json[i] : Unmarshal(a) = a}
<1>1. Depth \in Nat /\ 0 \in 0..Depth
  BY MergeAssumption
<1>2. ASSUME NEW a \in Scalars PROVE Unmarshal(a) = a
  <2>1. CASE a = Null
    BY <2>1, ReadNull
  <2>2. CASE a # Null
    <3>1. PICK n \in Numbers : a = Num(n)
      BY <2>2 DEF Scalars
    <3>2. Float64(n) = n
      BY DEF Float64
    <3>3. Unmarshal(a) = [a EXCEPT !.int = Float64(a.int)]
      BY ReadScalar
    <3> QED
      BY <3>1, <3>2, <3>3 DEF Num
  <2> QED
    BY <2>1, <2>2
<1>3. 0 \in S
  BY <1>1, <1>2, JsonUnfold
<1>4. ASSUME NEW n \in 1..Depth, n - 1 \in S
      PROVE  n \in S
  <2>1. n \in 0..Depth /\ n - 1 \in 0..Depth
    BY <1>1
  <2> SUFFICES ASSUME NEW a \in Json[n] PROVE Unmarshal(a) = a
    BY <2>1
  <2>2. CASE a.tag # "map"
    BY <1>2, <2>1, <2>2, JsonShape
  <2>3. CASE a.tag = "map"
    <3> DEFINE u == Unmarshal(a)
    <3>1. u \in Json[n] /\ a \in Values
      BY <2>1, JsonValues, ReadTyped
    <3>2. /\ u.tag = a.tag /\ DOMAIN u.map = DOMAIN a.map
          /\ \A f : Field(u, f) = Unmarshal(Field(a, f))
      BY <3>1, FieldRead
    <3>3. \A f : Unmarshal(Field(a, f)) = Field(a, f)
      BY <1>4, FieldIn
    <3> HIDE DEF u
    <3>4. u = a
      BY <2>1, <2>3, <3>1, <3>2, <3>3, SameMaps
    <3> QED
      BY <3>4 DEF u
  <2> QED
    BY <2>2, <2>3
<1>5. \A i \in 0..Depth : i \in S
  <2> HIDE DEF S
  <2> QED
    BY <1>1, <1>3, <1>4, UpTo
<1> QED
  BY <1>5

THEOREM SmallIntegersPreserved ==
  ASSUME original \in Values, patch \in Values, \A n \in Numbers : n <= Exact
  PROVE  MergePatch(original, patch) = Merge(original, patch)
<1>1. Depth \in 0..Depth /\ original \in Json[Depth] /\ patch \in Json[Depth]
  BY MergeAssumption DEF Values
<1>2. Merge(original, patch) \in Json[Depth]
  BY <1>1, MergesTyped DEF Merge
<1> QED
  BY <1>1, <1>2, ReadExactly DEF MergePatch
=============================================================================
