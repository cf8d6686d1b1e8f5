------------------------- MODULE StreamClientProofs -------------------------
(***************************************************************************)
(* Proofs about StreamClient, for any number of videos, any lengths and    *)
(* any number of frames, sessions and commands.                            *)
(***************************************************************************)
EXTENDS StreamClient, SequenceTheorems, WellFoundedInduction, TLAPS

\* Induction over the naturals, about a set: it follows from the smallest
\* number that is not in it.
LEMMA NatInSet ==
  ASSUME NEW S, 0 \in S, \A n \in Nat : n \in S => n + 1 \in S
  PROVE  Nat \subseteq S
<1> DEFINE T == Nat \ S
<1>1. SUFFICES ASSUME T # {} PROVE FALSE
  OBVIOUS
<1>2. PICK x \in T : \A y \in T : ~ (<< y, x >> \in OpToRel(<, Nat))
  <2>1. IsWellFoundedOn(OpToRel(<, Nat), Nat)
    BY NatLessThanWellFounded
  <2>2. T \subseteq Nat
    OBVIOUS
  <2> HIDE DEF T
  <2> QED BY <2>1, <2>2, <1>1, WFMin
<1>3. x # 0 /\ x - 1 \in Nat /\ x - 1 < x
  OBVIOUS
<1>4. << x - 1, x >> \in OpToRel(<, Nat)
  BY <1>3 DEF OpToRel
<1>5. x - 1 \in S
  BY <1>2, <1>3, <1>4
<1>6. (x - 1) + 1 \in S
  BY <1>3, <1>5
<1> QED BY <1>3, <1>6

(***************************************************************************)
(* FlattenSeq, from the recursive function it is defined by.               *)
(***************************************************************************)
\* f solves the recursion of FlattenSeq for the first n sequences of s.
Flattens(f, s, n) == f = [i \in 1 .. n |-> IF i = 1 THEN s[i] ELSE f[i - 1] \o s[i]]

\* One step of the recursion.
LEMMA FlattensAt ==
  ASSUME NEW s, NEW f, NEW n, Flattens(f, s, n), NEW i \in 1 .. n
  PROVE  f[i] = IF i = 1 THEN s[i] ELSE f[i - 1] \o s[i]
BY DEF Flattens

\* The recursion of FlattenSeq has a solution of every length,
LEMMA FlattenExists == ASSUME NEW s PROVE \A n \in Nat : \E f : Flattens(f, s, n)
<1> DEFINE S == {n \in Nat : \E f : Flattens(f, s, n)}
<1>1. 0 \in S
  <2>1. Flattens([i \in 1 .. 0 |-> 0], s, 0)
    BY DEF Flattens
  <2> QED BY <2>1
<1>2. ASSUME NEW n \in Nat, n \in S PROVE n + 1 \in S
  <2>1. PICK f : Flattens(f, s, n)
    BY <1>2
  <2> DEFINE g == [i \in 1 .. n + 1 |-> IF i = n + 1 THEN IF i = 1 THEN s[i] ELSE f[i - 1] \o s[i] ELSE f[i]]
  <2>2. ASSUME NEW i \in 1 .. n + 1
        PROVE  g[i] = IF i = 1 THEN s[i] ELSE g[i - 1] \o s[i]
    <3>1. CASE i = n + 1
      BY <3>1
    <3>2. CASE i \in 1 .. n
      <4>1. f[i] = IF i = 1 THEN s[i] ELSE f[i - 1] \o s[i]
        BY <2>1, <3>2, FlattensAt
      <4> QED BY <3>2, <4>1
    <3> QED BY <3>1, <3>2
  <2>3. Flattens(g, s, n + 1)
    BY <2>2 DEF Flattens
  <2> HIDE DEF g
  <2> QED BY <2>3
<1> HIDE DEF S
<1>3. Nat \subseteq S
  BY <1>1, <1>2, NatInSet
<1> QED BY <1>3 DEF S

\* and only one: solutions for sequences that agree are the same.
LEMMA FlattenUnique ==
  ASSUME NEW s, NEW t, NEW f, NEW g, NEW n \in Nat, NEW m \in Nat, n <= m,
         Flattens(f, s, n), Flattens(g, t, m), \A i \in 1 .. n : s[i] = t[i]
  PROVE  \A i \in 1 .. n : f[i] = g[i]
<1> DEFINE S == {i \in Nat : i \in 1 .. n => f[i] = g[i]}
<1>1. 0 \in S
  OBVIOUS
<1>2. ASSUME NEW i \in Nat, i \in S PROVE i + 1 \in S
  <2>1. CASE i + 1 \in 1 .. n
    <3>1. /\ f[i + 1] = IF i + 1 = 1 THEN s[i + 1] ELSE f[i + 1 - 1] \o s[i + 1]
          /\ g[i + 1] = IF i + 1 = 1 THEN t[i + 1] ELSE g[i + 1 - 1] \o t[i + 1]
      BY <2>1, FlattensAt
    <3>2. i # 0 => f[i + 1 - 1] = g[i + 1 - 1]
      BY <1>2, <2>1
    <3> QED BY <2>1, <3>1, <3>2
  <2>2. CASE i + 1 \notin 1 .. n
    BY <2>2
  <2> QED BY <2>1, <2>2
<1> HIDE DEF S
<1>3. Nat \subseteq S
  BY <1>1, <1>2, NatInSet
<1> QED BY <1>3 DEF S

\* What solves the recursion is what FlattenSeq yields.
LEMMA FlattenIs ==
  ASSUME NEW s, NEW f, Len(s) \in Nat \ {0}, Flattens(f, s, Len(s))
  PROVE  FlattenSeq(s) = f[Len(s)]
<1> DEFINE g == CHOOSE g : Flattens(g, s, Len(s))
<1>1. FlattenSeq(s) = g[Len(s)]
  BY DEF FlattenSeq, Flattens
<1>2. Flattens(g, s, Len(s))
  OBVIOUS
<1> HIDE DEF g
<1>3. f[Len(s)] = g[Len(s)]
  BY <1>2, FlattenUnique
<1> QED BY <1>1, <1>3

\* FlattenSeq from the end: what is appended comes last.
LEMMA FlattenAppend ==
  ASSUME NEW U, NEW s \in Seq(Seq(U)), NEW x \in Seq(U)
  PROVE  FlattenSeq(<< >>) = << >> /\ FlattenSeq(Append(s, x)) = FlattenSeq(s) \o x
<1>1. FlattenSeq(<< >>) = << >>
  BY DEF FlattenSeq
<1> DEFINE t == Append(s, x)
           n == Len(s)
<1>2. /\ n \in Nat /\ Len(t) = n + 1 /\ t[n + 1] = x
      /\ \A i \in 1 .. n : t[i] = s[i]
  BY AppendProperties
<1> HIDE DEF t
<1>3. PICK f : Flattens(f, t, n + 1)
  <2>1. n + 1 \in Nat
    BY <1>2
  <2> HIDE DEF n
  <2> QED BY <2>1, FlattenExists
<1>4. FlattenSeq(t) = f[n + 1]
  BY <1>2, <1>3, FlattenIs
<1>5. f[n + 1] = IF n + 1 = 1 THEN t[n + 1] ELSE f[n + 1 - 1] \o t[n + 1]
  <2> DEFINE m == n + 1
  <2>1. m \in 1 .. m
    BY <1>2
  <2>2. Flattens(f, t, m)
    BY <1>3
  <2> HIDE DEF n, m
  <2>3. f[m] = IF m = 1 THEN t[m] ELSE f[m - 1] \o t[m]
    BY <2>1, <2>2, FlattensAt
  <2> QED BY <2>3 DEF m, n
<1>6. CASE n = 0
  <2>1. s = << >>
    BY <1>6, EmptySeq
  <2>2. << >> \o x = x
    BY ConcatEmptySeq
  <2> QED BY <1>1, <1>2, <1>4, <1>5, <1>6, <2>1, <2>2 DEF t
<1>7. CASE n # 0
  <2>1. PICK g : Flattens(g, s, n)
    BY <1>2, FlattenExists
  <2>2. FlattenSeq(s) = g[n]
    BY <1>2, <1>7, <2>1, FlattenIs
  <2>3. g[n] = f[n]
    <3>1. \A i \in 1 .. n : g[i] = f[i]
      <4>1. n + 1 \in Nat /\ n <= n + 1 /\ \A i \in 1 .. n : s[i] = t[i]
        BY <1>2
      <4> HIDE DEF n
      <4> QED BY <1>2, <1>3, <2>1, <4>1, FlattenUnique
    <3> QED BY <1>2, <1>7, <3>1
  <2> QED BY <1>1, <1>2, <1>4, <1>5, <1>7, <2>2, <2>3 DEF t
<1> QED BY <1>6, <1>7

\* FlattenSeq of sequences over U is a sequence over U.
LEMMA FlattenType ==
  ASSUME NEW U, NEW s \in Seq(Seq(U))
  PROVE  FlattenSeq(s) \in Seq(U)
<1> DEFINE S == {n \in Nat : \A t \in Seq(Seq(U)) : Len(t) = n => FlattenSeq(t) \in Seq(U)}
<1>1. 0 \in S
  <2>1. ASSUME NEW t \in Seq(Seq(U)), Len(t) = 0 PROVE FlattenSeq(t) \in Seq(U)
    <3>1. t = << >>
      BY <2>1, EmptySeq
    <3> QED BY <3>1 DEF FlattenSeq
  <2> QED BY <2>1
<1>2. ASSUME NEW n \in Nat, n \in S PROVE n + 1 \in S
  <2>1. ASSUME NEW t \in Seq(Seq(U)), Len(t) = n + 1 PROVE FlattenSeq(t) \in Seq(U)
    <3>1. t # << >>
      BY <2>1
    <3>2. PICK r \in Seq(Seq(U)), x \in Seq(U) : t = Append(r, x)
      BY <3>1, SequenceEmptyOrAppend
    <3>3. Len(r) = n
      BY <2>1, <3>2, AppendProperties
    <3>4. FlattenSeq(r) \in Seq(U)
      BY <1>2, <3>3
    <3> QED BY <3>2, <3>4, FlattenAppend, ConcatProperties
  <2> QED BY <2>1
<1> HIDE DEF S
<1>3. Nat \subseteq S
  BY <1>1, <1>2, NatInSet
<1> QED BY <1>3 DEF S

\* Concatenation of sequences over U.
Associative(U) == \A a, b, c \in Seq(U) : (a \o b) \o c = a \o (b \o c)
Cancels(U) == \A a, b, c, d \in Seq(U) : a \o b = c \o d /\ Len(a) = Len(c) => a = c /\ b = d

\* Concatenation is associative,
LEMMA Assoc == ASSUME NEW U PROVE Associative(U)
<1> SUFFICES ASSUME NEW a \in Seq(U), NEW b \in Seq(U), NEW c \in Seq(U)
             PROVE  (a \o b) \o c = a \o (b \o c)
  BY DEF Associative
<1> QED BY SeqEqual, ConcatProperties

\* FlattenSeq from the front.
LEMMA FlattenCons ==
  ASSUME NEW U, NEW x \in Seq(U), NEW s \in Seq(Seq(U))
  PROVE  FlattenSeq(<< x >> \o s) = x \o FlattenSeq(s)
<1>a. Associative(U)
  BY Assoc
<1> DEFINE S == {n \in Nat : \A t \in Seq(Seq(U)) : Len(t) = n => FlattenSeq(<< x >> \o t) = x \o FlattenSeq(t)}
<1>1. 0 \in S
  <2>1. ASSUME NEW t \in Seq(Seq(U)), Len(t) = 0 PROVE FlattenSeq(<< x >> \o t) = x \o FlattenSeq(t)
    <3>1. t = << >>
      BY <2>1, EmptySeq
    <3>2. << x >> \o << >> = Append(<< >>, x) /\ << >> \in Seq(Seq(U))
      OBVIOUS
    <3>3. FlattenSeq(Append(<< >>, x)) = << >> \o x /\ FlattenSeq(<< >>) = << >>
      BY <3>2, FlattenAppend
    <3>4. << >> \o x = x /\ x \o << >> = x
      BY ConcatEmptySeq
    <3> QED BY <3>1, <3>2, <3>3, <3>4
  <2> QED BY <2>1
<1>2. ASSUME NEW n \in Nat, n \in S PROVE n + 1 \in S
  <2>1. ASSUME NEW t \in Seq(Seq(U)), Len(t) = n + 1
        PROVE  FlattenSeq(<< x >> \o t) = x \o FlattenSeq(t)
    <3>1. t # << >>
      BY <2>1
    <3>2. PICK r \in Seq(Seq(U)), y \in Seq(U) : t = Append(r, y)
      BY <3>1, SequenceEmptyOrAppend
    <3>3. Len(r) = n
      BY <2>1, <3>2, AppendProperties
    <3>4. FlattenSeq(<< x >> \o r) = x \o FlattenSeq(r)
      BY <1>2, <3>3
    <3>5. << x >> \o Append(r, y) = Append(<< x >> \o r, y) /\ << x >> \o r \in Seq(Seq(U))
      <4>1. << x >> \in Seq(Seq(U)) /\ << y >> \in Seq(Seq(U))
        OBVIOUS
      <4>2. << x >> \o r \in Seq(Seq(U))
        BY <4>1, ConcatProperties
      <4>3. << x >> \o (r \o << y >>) = (<< x >> \o r) \o << y >>
        BY <4>1, ConcatAssociative
      <4> QED BY <4>2, <4>3, AppendIsConcat
    <3>6. FlattenSeq(<< x >> \o t) = (x \o FlattenSeq(r)) \o y
      BY <3>2, <3>4, <3>5, FlattenAppend
    <3>7. FlattenSeq(t) = FlattenSeq(r) \o y /\ FlattenSeq(r) \in Seq(U)
      BY <3>2, FlattenAppend, FlattenType
    <3>8. (x \o FlattenSeq(r)) \o y = x \o (FlattenSeq(r) \o y)
      BY <1>a, <3>7 DEF Associative
    <3> QED BY <3>6, <3>7, <3>8
  <2>2. n + 1 \in Nat
    OBVIOUS
  <2> QED BY <2>1, <2>2, Zenon
<1> HIDE DEF S
<1>3. Nat \subseteq S
  BY <1>1, <1>2, NatInSet
<1>4. Len(s) \in Nat
  OBVIOUS
<1> QED BY <1>3, <1>4 DEF S

\* A function on 1 .. n is a sequence.
LEMMA FunctionIsSeq ==
  ASSUME NEW U, NEW n \in Nat, NEW h, h = [i \in 1 .. n |-> h[i]], \A i \in 1 .. n : h[i] \in U
  PROVE  h \in Seq(U) /\ Len(h) = n
OBVIOUS

\* The elements of a concatenation.
LEMMA ConcatAt ==
  ASSUME NEW U, NEW s \in Seq(U), NEW t \in Seq(U)
  PROVE  /\ Len(s \o t) = Len(s) + Len(t) /\ Len(s) \in Nat /\ Len(t) \in Nat
         /\ \A i \in 1 .. Len(s) : (s \o t)[i] = s[i]
         /\ \A i \in 1 .. Len(t) : (s \o t)[Len(s) + i] = t[i]
BY ConcatProperties

\* and equal concatenations whose first parts are equally long have equal parts.
LEMMA Cancellation == ASSUME NEW U PROVE Cancels(U)
<1> SUFFICES \A a, b, c, d \in Seq(U) : a \o b = c \o d /\ Len(a) = Len(c) => a = c /\ b = d
  BY DEF Cancels
<1> TAKE a, b, c, d \in Seq(U)
<1>1. /\ Len(a \o b) = Len(a) + Len(b) /\ Len(c \o d) = Len(c) + Len(d)
      /\ Len(a) \in Nat /\ Len(b) \in Nat /\ Len(d) \in Nat
      /\ \A i \in 1 .. Len(a) : (a \o b)[i] = a[i]
      /\ \A i \in 1 .. Len(c) : (c \o d)[i] = c[i]
      /\ \A i \in 1 .. Len(b) : (a \o b)[Len(a) + i] = b[i]
      /\ \A i \in 1 .. Len(d) : (c \o d)[Len(c) + i] = d[i]
  BY ConcatAt
<1> HAVE a \o b = c \o d /\ Len(a) = Len(c)
<1>2. (\A i \in 1 .. Len(a) : a[i] = c[i]) /\ Len(b) = Len(d)
  BY <1>1
<1>3. \A i \in 1 .. Len(b) : b[i] = d[i]
  BY <1>1, <1>2
<1> QED BY <1>2, <1>3, SeqEqual

\* A sequence is what comes before a place and what comes after it.
LEMMA Cut ==
  ASSUME NEW U, NEW s \in Seq(U), NEW k \in 0 .. Len(s)
  PROVE  /\ SubSeq(s, 1, k) \in Seq(U) /\ Len(SubSeq(s, 1, k)) = k
         /\ SubSeq(s, k + 1, Len(s)) \in Seq(U) /\ Len(SubSeq(s, k + 1, Len(s))) = Len(s) - k
         /\ SubSeq(s, 1, k) \o SubSeq(s, k + 1, Len(s)) = s
<1>1. Len(s) \in Nat
  OBVIOUS
<1>2. SubSeq(s, 1, k) \in Seq(U) /\ Len(SubSeq(s, 1, k)) = k
  BY <1>1, SubSeqProperties, ElementOfSeq
<1>3. SubSeq(s, k + 1, Len(s)) \in Seq(U) /\ Len(SubSeq(s, k + 1, Len(s))) = Len(s) - k
  BY <1>1, SubSeqProperties, ElementOfSeq
<1>4. SubSeq(s, 1, k) \o SubSeq(s, k + 1, Len(s)) = SubSeq(s, 1, Len(s))
  <2>1. 1 \in 1 .. Len(s) + 1 /\ k \in 1 - 1 .. Len(s) /\ Len(s) \in k .. Len(s)
    BY <1>1
  <2> QED BY <2>1, ConcatAdjacentSubSeq
<1> QED BY <1>2, <1>3, <1>4, SubSeqFull

\* The middle of three.
LEMMA Middle ==
  ASSUME NEW U, NEW a \in Seq(U), NEW b \in Seq(U), NEW c \in Seq(U)
  PROVE  SubSeq((a \o b) \o c, Len(a) + 1, Len(a) + Len(b)) = b
<1> DEFINE s == (a \o b) \o c
           m == SubSeq(s, Len(a) + 1, Len(a) + Len(b))
<1>1. /\ Len(a) \in Nat /\ Len(b) \in Nat /\ Len(c) \in Nat
      /\ a \o b \in Seq(U) /\ Len(a \o b) = Len(a) + Len(b)
      /\ s \in Seq(U) /\ Len(s) = Len(a) + Len(b) + Len(c)
  BY ConcatProperties
<1>2. ASSUME NEW i \in 1 .. Len(b) PROVE s[Len(a) + i] = b[i]
  <2>1. /\ Len(a) + i \in 1 .. Len(a) + Len(b) /\ Len(a) + i \in 1 .. Len(a \o b) + Len(c)
        /\ Len(a) + i <= Len(a \o b) /\ ~(Len(a) + i <= Len(a)) /\ (Len(a) + i) - Len(a) = i
    BY <1>1
  <2>2. s[Len(a) + i] = (a \o b)[Len(a) + i]
    BY <1>1, <2>1, ConcatProperties
  <2> QED BY <2>1, <2>2, ConcatProperties
<1> HIDE DEF s
<1>3. /\ m \in Seq(U) /\ Len(m) = Len(b)
      /\ \A i \in 1 .. Len(b) : m[i] = s[Len(a) + i]
  <2>1. \A i \in Len(a) + 1 .. Len(a) + Len(b) : s[i] \in U
    BY <1>1, ElementOfSeq
  <2>2. Len(a) + 1 \in Int /\ Len(a) + Len(b) \in Int
    BY <1>1
  <2>3. /\ m \in Seq(U)
        /\ Len(m) = IF Len(a) + 1 <= Len(a) + Len(b) THEN Len(a) + Len(b) - (Len(a) + 1) + 1 ELSE 0
        /\ \A i \in 1 .. Len(a) + Len(b) - (Len(a) + 1) + 1 : m[i] = s[Len(a) + 1 + i - 1]
    BY <2>1, <2>2, SubSeqProperties
  <2>4. Len(m) = Len(b)
    BY <1>1, <2>3
  <2>5. ASSUME NEW i \in 1 .. Len(b) PROVE m[i] = s[Len(a) + i]
    <3>1. i \in 1 .. Len(a) + Len(b) - (Len(a) + 1) + 1 /\ Len(a) + 1 + i - 1 = Len(a) + i
      BY <1>1
    <3> HIDE DEF m
    <3>2. m[i] = s[Len(a) + 1 + i - 1]
      BY <2>3, <3>1
    <3> QED BY <3>1, <3>2
  <2> QED BY <2>3, <2>4, <2>5
<1> HIDE DEF m
<1>4. m = b
  BY <1>2, <1>3, SeqEqual
<1> QED BY <1>4 DEF m, s

\* What follows the first k sequences, one sequence further,
LEMMA FlattenFrom ==
  ASSUME NEW U, NEW s \in Seq(Seq(U)), NEW k \in 0 .. Len(s) - 1
  PROVE  FlattenSeq(SubSeq(s, k + 1, Len(s))) = s[k + 1] \o FlattenSeq(SubSeq(s, k + 2, Len(s)))
<1>1. k + 1 \in 1 .. Len(s) /\ Len(s) \in k + 1 .. Len(s) /\ k + 1 \in 0 .. Len(s) /\ k + 1 + 1 = k + 2
  OBVIOUS
<1>2. s[k + 1] \in Seq(U) /\ SubSeq(s, k + 2, Len(s)) \in Seq(Seq(U))
  BY <1>1, Cut, ElementOfSeq
<1>3. SubSeq(s, k + 1, Len(s)) = << s[k + 1] >> \o SubSeq(s, k + 2, Len(s))
  BY <1>1, SubSeqRecursiveFirst
<1> QED BY <1>2, <1>3, FlattenCons

\* what the first k sequences hold, one sequence further,
LEMMA FlattenTo ==
  ASSUME NEW U, NEW s \in Seq(Seq(U)), NEW k \in 1 .. Len(s)
  PROVE  FlattenSeq(SubSeq(s, 1, k)) = FlattenSeq(SubSeq(s, 1, k - 1)) \o s[k]
<1>1. 1 \in 1 .. Len(s) /\ k \in 1 .. Len(s) /\ k - 1 \in 0 .. Len(s)
  OBVIOUS
<1>2. s[k] \in Seq(U) /\ SubSeq(s, 1, k - 1) \in Seq(Seq(U))
  BY <1>1, Cut, ElementOfSeq
<1>3. SubSeq(s, 1, k) = SubSeq(s, 1, k - 1) \o << s[k] >>
  BY <1>1, SubSeqRecursiveSecond
<1>4. SubSeq(s, 1, k) = Append(SubSeq(s, 1, k - 1), s[k])
  BY <1>2, <1>3, AppendIsConcat
<1> QED BY <1>2, <1>4, FlattenAppend

\* and both together.
LEMMA FlattenSplit ==
  ASSUME NEW U, NEW s \in Seq(Seq(U)), NEW k \in 0 .. Len(s)
  PROVE  FlattenSeq(s) = FlattenSeq(SubSeq(s, 1, k)) \o FlattenSeq(SubSeq(s, k + 1, Len(s)))
<1>a. Associative(U)
  BY Assoc
<1> DEFINE S == {n \in Nat : n <= Len(s) =>
                   FlattenSeq(s) = FlattenSeq(SubSeq(s, 1, n)) \o FlattenSeq(SubSeq(s, n + 1, Len(s)))}
<1>1. 0 \in S
  <2>1. SubSeq(s, 1, 0) = << >> /\ SubSeq(s, 1, Len(s)) = s
    BY SubSeqEmpty, SubSeqFull
  <2>2. FlattenSeq(<< >>) = << >> /\ FlattenSeq(s) \in Seq(U)
    BY FlattenType DEF FlattenSeq
  <2>3. << >> \o FlattenSeq(s) = FlattenSeq(s)
    BY <2>2, ConcatEmptySeq
  <2>4. FlattenSeq(s) = FlattenSeq(SubSeq(s, 1, 0)) \o FlattenSeq(SubSeq(s, 0 + 1, Len(s)))
    <3>1. 0 + 1 = 1
      OBVIOUS
    <3> QED BY ONLY <2>1, <2>2, <2>3, <3>1
  <2> QED BY <2>4
<1>2. ASSUME NEW n \in Nat, n \in S PROVE n + 1 \in S
  <2>1. CASE n + 1 <= Len(s)
    <3>1. /\ n \in 0 .. Len(s) - 1 /\ n + 1 \in 1 .. Len(s) /\ (n + 1) - 1 = n /\ n + 1 + 1 = n + 2
          /\ n \in 0 .. Len(s) /\ n + 1 \in 0 .. Len(s)
      BY <2>1
    <3>2. FlattenSeq(SubSeq(s, n + 1, Len(s))) = s[n + 1] \o FlattenSeq(SubSeq(s, n + 2, Len(s)))
      BY <3>1, FlattenFrom
    <3>3. FlattenSeq(SubSeq(s, 1, n + 1)) = FlattenSeq(SubSeq(s, 1, n)) \o s[n + 1]
      BY <3>1, FlattenTo
    <3>4. /\ s[n + 1] \in Seq(U) /\ FlattenSeq(SubSeq(s, 1, n)) \in Seq(U)
          /\ FlattenSeq(SubSeq(s, n + 2, Len(s))) \in Seq(U)
      BY <3>1, Cut, FlattenType, ElementOfSeq
    <3>5. FlattenSeq(s) = FlattenSeq(SubSeq(s, 1, n)) \o FlattenSeq(SubSeq(s, n + 1, Len(s)))
      BY <1>2, <2>1
    <3>6. FlattenSeq(s) = FlattenSeq(SubSeq(s, 1, n + 1)) \o FlattenSeq(SubSeq(s, n + 1 + 1, Len(s)))
      <4> DEFINE a == FlattenSeq(SubSeq(s, 1, n))
                 b == s[n + 1]
                 c == FlattenSeq(SubSeq(s, n + 2, Len(s)))
      <4>1. a \o (b \o c) = (a \o b) \o c
        <5> HIDE DEF a, b, c
        <5> QED BY <1>a, <3>4 DEF a, b, c, Associative
      <4> QED BY <3>1, <3>2, <3>3, <3>5, <4>1
    <3> QED BY <3>6
  <2>2. CASE ~(n + 1 <= Len(s))
    BY <2>2
  <2> QED BY <2>1, <2>2
<1> HIDE DEF S
<1>3. Nat \subseteq S
  BY <1>1, <1>2, NatInSet
<1>4. k \in S
  BY <1>3
<1> QED BY <1>4 DEF S

\* What comes first is a prefix,
LEMMA PrefixFirst ==
  ASSUME NEW U, NEW a \in Seq(U), NEW b \in Seq(U)
  PROVE  IsPrefix(a, a \o b)
<1> DEFINE s == a \o b
           k == Len(a)
<1>1. s \in Seq(U) /\ Len(s) = k + Len(b) /\ k \in Nat /\ Len(b) \in Nat
  BY ConcatProperties
<1>2. k \in 0 .. Len(s)
  BY <1>1
<1>3. /\ SubSeq(s, 1, k) \in Seq(U) /\ Len(SubSeq(s, 1, k)) = k
      /\ SubSeq(s, k + 1, Len(s)) \in Seq(U)
      /\ SubSeq(s, 1, k) \o SubSeq(s, k + 1, Len(s)) = s
  <2> HIDE DEF s, k
  <2> QED BY <1>1, <1>2, Cut
<1>4. SubSeq(s, 1, k) = a
  <2>1. Cancels(U)
    BY Cancellation
  <2> DEFINE c == SubSeq(s, 1, k)
             d == SubSeq(s, k + 1, Len(s))
  <2>2. c \in Seq(U) /\ d \in Seq(U) /\ c \o d = a \o b /\ Len(c) = Len(a)
    BY <1>3
  <2> HIDE DEF c, d
  <2>3. c = a
    BY <2>1, <2>2 DEF Cancels
  <2> QED BY <2>3 DEF c
<1>5. SubSeq(a, 1, k) = a
  BY SubSeqFull
<1> QED BY <1>1, <1>4, <1>5 DEF IsPrefix

\* and so is a sequence of itself, the empty one of any, and what SubSeq leaves.
LEMMA PrefixOf ==
  ASSUME NEW U, NEW a \in Seq(U)
  PROVE  /\ IsPrefix(a, a) /\ IsPrefix(<< >>, a)
         /\ \A k \in 0 .. Len(a) : IsPrefix(SubSeq(a, 1, k), a)
<1>1. ASSUME NEW k \in 0 .. Len(a) PROVE IsPrefix(SubSeq(a, 1, k), a)
  <2>1. /\ SubSeq(a, 1, k) \in Seq(U) /\ SubSeq(a, k + 1, Len(a)) \in Seq(U)
        /\ SubSeq(a, 1, k) \o SubSeq(a, k + 1, Len(a)) = a
    BY Cut
  <2> DEFINE c == SubSeq(a, 1, k)
             d == SubSeq(a, k + 1, Len(a))
  <2>2. c \in Seq(U) /\ d \in Seq(U) /\ c \o d = a
    BY <2>1
  <2> HIDE DEF c, d
  <2>3. IsPrefix(c, a)
    BY <2>2, PrefixFirst
  <2> QED BY <2>3 DEF c
<1>2. SubSeq(a, 1, Len(a)) = a /\ SubSeq(a, 1, 0) = << >> /\ Len(a) \in 0 .. Len(a) /\ 0 \in 0 .. Len(a)
  BY SubSeqFull, SubSeqEmpty
<1> QED BY <1>1, <1>2

\* A unit: frame or command, video or image, and place.
Unit == Nat \X Nat \X Nat
\* A frame: its header, and its body, the parts of the videos.
Header(f, lens) == [v \in Videos |-> << f, 0, lens[v] >>]
Parts(f, lens) == [v \in Videos |-> Units(f, v, lens[v])]
Body(f, lens) == FlattenSeq(Parts(f, lens))

\* What is still to come after the first n of the frames q.
Frames(q) == [f \in 1 .. Len(q) |-> FrameUnits(f, q[f])]
Rest(q, n) == FlattenSeq(SubSeq(Frames(q), n + 1, Len(q)))

\* Video, for any sequence of frames.
VideoOf(q, v, n) == FlattenSeq([f \in 1 .. n |-> Units(f, v, q[f][v])])

\* What is still to come after the first j images of a photo.
Images(c) == [i \in Videos |-> Image(c, i)]
ImagesAfter(c, j) == FlattenSeq(SubSeq(Images(c), j + 1, N))

\* The types, of either thread.
Main ==
  /\ mpc \in {"none", "create", "wait", "command", "ack", "head", "image", "cancel", "join", "exited"}
  /\ count \in Nat /\ ctl \in Seq(Unit) /\ image \in Seq(Unit) /\ len \in Int /\ photo \in Seq(Seq(Unit))
  /\ short \in BOOLEAN /\ sem \in Nat /\ dead \in {"no", "closed", "reset"}
Data ==
  /\ program \in {"command", "select", "single", "file"} /\ {file_flag, linked} \subseteq BOOLEAN
  /\ dpc \in {"none", "open", "connect", "post", "header", "body", "write", "ended"}
  /\ buf \in Seq(Unit) /\ net_enc \in [Videos -> Nat] /\ slice \in Nat /\ frame \in Nat
  /\ file \in [Videos -> Seq(Unit)] /\ sent \in Seq(Lens) /\ line \in Seq(Unit)

\* The semaphore counts the post of this session, until the main thread has taken it.
Session ==
  /\ program # "command" => mpc \in {"none", "exited"}
  /\ mpc = "create" => sem = 0 /\ dpc \in {"none", "ended"}
  /\ mpc = "wait" =>
       \/ sem = 0 /\ dpc \in {"open", "connect", "ended"}
       \/ sem = 0 /\ dpc = "post" /\ linked
       \/ sem = 1 /\ dpc \in {"header", "body", "write", "ended"} /\ linked
  /\ mpc \in {"command", "ack", "head", "image", "cancel", "join"} =>
       sem = 0 /\ linked /\ dpc \in {"header", "body", "write", "ended"}

\* There is a stream only when there is a connection.
Link ==
  /\ dpc \in {"none", "open", "connect"} => ~linked
  /\ dpc \in {"post", "header", "body", "write"} => linked
  /\ ~linked => sent = << >> /\ line = << >> /\ buf = << >> /\ frame = 0

\* What is between the socket and the files, for the programs that cut frames.
Stream ==
  program # "file" =>
    /\ frame <= Len(sent)
    /\ dpc \in {"post", "header"} => buf \o line = Rest(sent, frame) /\ Len(buf) < N
    /\ dpc \in {"body", "write"} => frame > 0 /\ net_enc = sent[frame]
    /\ dpc = "body" =>
         buf \o line = Body(frame, net_enc) \o Rest(sent, frame) /\ Len(buf) < Sum(net_enc) /\ slice = 1
    /\ dpc = "write" =>
         /\ buf = Body(frame, net_enc) /\ line = Rest(sent, frame)
         /\ slice \in Videos /\ (program = "single" => slice = 1)

\* Which files a program writes.
Kept(v) == IF Recorder THEN file_flag ELSE v = 1
\* The frames in each file.
Files ==
  program # "file" =>
    /\ dpc = "connect" => \A v \in Videos : file[v] = << >>
    /\ linked => \A v \in Videos :
         /\ ~Kept(v) => file[v] = << >>
         /\ Kept(v) =>
              /\ dpc \in {"post", "header"} => file[v] = VideoOf(sent, v, frame)
              /\ dpc = "body" => file[v] = VideoOf(sent, v, frame - 1)
              /\ dpc = "write" => file[v] = VideoOf(sent, v, IF v < slice THEN frame ELSE frame - 1)
              /\ \/ file[v] = VideoOf(sent, v, frame)
                 \/ frame > 0 /\ file[v] = VideoOf(sent, v, frame - 1)
                 \/ /\ dpc = "ended" /\ frame > 0 /\ v = slice
                    /\ \E k \in 0 .. sent[frame][v] :
                         file[v] = VideoOf(sent, v, frame - 1) \o Units(frame, v, k)

\* The file clients read one header and then the contents.
FileOf(q) == SubSeq(Rest(q, 0), N + 1, Len(Rest(q, 0)))
Contents ==
  program = "file" =>
    /\ Len(sent) <= 1 /\ buf = << >> /\ dpc \notin {"post", "write"}
    /\ dpc = "header" => line = Rest(sent, 0)
    /\ dpc = "body" => Len(sent) = 1
    /\ dpc \in {"none", "open", "connect", "header"} => file[1] = << >>
    /\ dpc = "body" /\ ~short => file[1] \o line = FileOf(sent)
    /\ dpc = "ended" /\ ~short => IsPrefix(file[1], FileOf(sent))

\* What is on the way from the camera to the main thread.
Photo ==
  ~short =>
    /\ Len(photo) <= N
    /\ \A i \in 1 .. Len(photo) :
         IsPrefix(photo[i], Image(count, i)) /\ (i \notin cut => photo[i] = Image(count, i))
    /\ mpc \in {"create", "wait", "command", "cancel", "join"} => ctl = << >>
    /\ mpc = "ack" => ctl \in {Units(count, 0, AckSize), << >>}
    /\ mpc = "head" =>
         /\ photo = << >> /\ image = << >> /\ len = 0
         /\ ctl \in {Units(count, 0, AckSize) \o ImagesAfter(count, 0), << >>}
    /\ mpc = "image" =>
         /\ Len(photo) < N
         /\ \/ len = Len(image) /\ len <= ImageSize /\ image \o ctl = ImagesAfter(count, Len(photo))
            \/ dead = "closed" /\ ctl = << >> /\ len < ImageSize

\* Min of two numbers.
LEMMA Smaller == ASSUME NEW a \in Int, NEW b \in Int PROVE Min({a, b}) \in Int /\ Min({a, b}) <= a /\ Min({a, b}) <= b
<1>1. \E m \in {a, b} : \A n \in {a, b} : m <= n
  <2>1. CASE a <= b
    BY <2>1
  <2>2. CASE ~(a <= b)
    BY <2>2
  <2> QED BY <2>1, <2>2
<1> QED BY <1>1 DEF Min

\* What follows a prefix.
LEMMA Suffix ==
  ASSUME NEW U, NEW a \in Seq(U), NEW b \in Seq(U)
  PROVE  SubSeq(a \o b, Len(a) + 1, Len(a \o b)) = b
<1>1. << >> \in Seq(U) /\ a \o b \in Seq(U) /\ Len(a \o b) = Len(a) + Len(b)
  BY ConcatProperties
<1>2. (a \o b) \o << >> = a \o b
  BY <1>1, ConcatEmptySeq
<1>3. SubSeq((a \o b) \o << >>, Len(a) + 1, Len(a) + Len(b)) = b
  BY <1>1, Middle
<1> QED BY <1>1, <1>2, <1>3

\* What a recv takes, and what it leaves.
LEMMA Taken ==
  ASSUME NEW s \in Seq(Unit), NEW want \in Int, NEW k \in 1 .. Min({want, Len(s)})
  PROVE  /\ k \in Nat \ {0} /\ k <= want /\ k <= Len(s)
         /\ SubSeq(s, 1, k) \in Seq(Unit) /\ Len(SubSeq(s, 1, k)) = k
         /\ SubSeq(s, k + 1, Len(s)) \in Seq(Unit) /\ Len(SubSeq(s, k + 1, Len(s))) = Len(s) - k
         /\ SubSeq(s, 1, k) \o SubSeq(s, k + 1, Len(s)) = s
<1> DEFINE l == Len(s)
<1>1. l \in Nat
  OBVIOUS
<1>2. Min({want, l}) \in Int /\ Min({want, l}) <= want /\ Min({want, l}) <= l
  <2>1. l \in Int
    BY <1>1
  <2> HIDE DEF l
  <2> QED BY <2>1, Smaller
<1>3. k \in Nat \ {0} /\ k <= want /\ k \in 0 .. l
  BY <1>1, <1>2
<1> QED BY <1>3, Cut

\* The same for the connection of the data.
LEMMA Received ==
  ASSUME line \in Seq(Unit), NEW want \in Int, NEW got \in Part(want)
  PROVE  /\ got \in Seq(Unit) /\ Len(got) \in Nat \ {0} /\ Len(got) <= want /\ Len(got) <= Len(line)
         /\ SubSeq(line, Len(got) + 1, Len(line)) \in Seq(Unit)
         /\ got \o SubSeq(line, Len(got) + 1, Len(line)) = line
<1>1. PICK k \in 1 .. Min({want, Len(line)}) : got = SubSeq(line, 1, k)
  BY DEF Part
<1> QED BY <1>1, Taken

(***************************************************************************)
(* The frames.                                                             *)
(***************************************************************************)
\* e solves the recursion of Ends up to video n.
EndsBelow(lens, n, e) == e = [v \in 0 .. n |-> IF v = 0 THEN 0 ELSE e[v - 1] + lens[v]]

\* The recursion of Ends has a solution up to every video,
LEMMA EndsExist ==
  ASSUME NEW lens \in [Videos -> Nat]
  PROVE  \A n \in Nat : n <= N => \E e \in [0 .. n -> Nat] : EndsBelow(lens, n, e)
<1> DEFINE S == {n \in Nat : n <= N => \E e \in [0 .. n -> Nat] : EndsBelow(lens, n, e)}
<1>1. 0 \in S
  <2> DEFINE e == [v \in 0 .. 0 |-> 0]
  <2>1. e \in [0 .. 0 -> Nat] /\ EndsBelow(lens, 0, e)
    BY DEF EndsBelow
  <2> HIDE DEF e
  <2> QED BY <2>1
<1>2. ASSUME NEW n \in Nat, n \in S PROVE n + 1 \in S
  <2>1. CASE n + 1 <= N
    <3>1. PICK e \in [0 .. n -> Nat] : EndsBelow(lens, n, e)
      BY <1>2, <2>1, StreamAssumption
    <3>2. n + 1 \in Videos
      BY <2>1, StreamAssumption DEF Videos
    <3> DEFINE g == [v \in 0 .. n + 1 |-> IF v = n + 1 THEN e[n] + lens[n + 1] ELSE e[v]]
    <3>3. g \in [0 .. n + 1 -> Nat]
      BY <3>2
    <3>4. ASSUME NEW v \in 0 .. n + 1
          PROVE  g[v] = IF v = 0 THEN 0 ELSE g[v - 1] + lens[v]
      <4>1. CASE v = n + 1
        BY <4>1
      <4>2. CASE v \in 0 .. n
        <5>1. e[v] = IF v = 0 THEN 0 ELSE e[v - 1] + lens[v]
          BY <3>1, <4>2 DEF EndsBelow
        <5> QED BY <4>2, <5>1
      <4> QED BY <4>1, <4>2
    <3>5. EndsBelow(lens, n + 1, g)
      BY <3>4 DEF EndsBelow
    <3> HIDE DEF g
    <3> QED BY <3>3, <3>5
  <2>2. CASE ~(n + 1 <= N)
    BY <2>2
  <2> QED BY <2>1, <2>2
<1> HIDE DEF S
<1>3. Nat \subseteq S
  BY <1>1, <1>2, NatInSet
<1> QED BY <1>3 DEF S

\* and only one,
LEMMA EndsUnique ==
  ASSUME NEW lens, NEW n \in Nat, NEW e, NEW g, EndsBelow(lens, n, e), EndsBelow(lens, n, g)
  PROVE  e = g
<1> DEFINE S == {v \in Nat : v <= n => e[v] = g[v]}
<1>1. 0 \in S
  BY DEF EndsBelow
<1>2. ASSUME NEW v \in Nat, v \in S PROVE v + 1 \in S
  <2>1. CASE v + 1 <= n
    <3>1. e[v + 1] = e[v + 1 - 1] + lens[v + 1] /\ g[v + 1] = g[v + 1 - 1] + lens[v + 1]
      <4>1. v + 1 \in 0 .. n /\ v + 1 # 0
        BY <2>1
      <4> QED BY <4>1 DEF EndsBelow
    <3>2. e[v] = g[v] /\ v + 1 - 1 = v
      BY <1>2, <2>1
    <3> QED BY <3>1, <3>2
  <2>2. CASE ~(v + 1 <= n)
    BY <2>2
  <2> QED BY <2>1, <2>2
<1> HIDE DEF S
<1>3. Nat \subseteq S
  BY <1>1, <1>2, NatInSet
<1>4. \A v \in 0 .. n : e[v] = g[v]
  BY <1>3 DEF S
<1>5. DOMAIN e = 0 .. n /\ DOMAIN g = 0 .. n
  BY DEF EndsBelow
<1> QED BY <1>4, <1>5 DEF EndsBelow

\* so that Ends sums up the lengths of the videos.
LEMMA EndsAre ==
  ASSUME NEW lens \in [Videos -> Nat]
  PROVE  /\ Ends(lens) \in [0 .. N -> Nat] /\ Ends(lens)[0] = 0
         /\ \A v \in Videos : Ends(lens)[v] = Ends(lens)[v - 1] + lens[v]
<1>1. N \in Nat
  BY StreamAssumption
<1>2. PICK e \in [0 .. N -> Nat] : EndsBelow(lens, N, e)
  <2>1. N <= N
    BY <1>1
  <2> QED BY <1>1, <2>1, EndsExist
<1>3. Ends(lens) = CHOOSE g : EndsBelow(lens, N, g)
  BY DEF Ends, EndsBelow
<1>4. EndsBelow(lens, N, Ends(lens))
  BY <1>2, <1>3
<1>5. Ends(lens) = e
  BY <1>1, <1>2, <1>4, EndsUnique
<1>6. /\ e[0] = 0
      /\ \A v \in Videos : e[v] = e[v - 1] + lens[v]
  BY <1>1, <1>2 DEF EndsBelow, Videos
<1> QED BY <1>2, <1>5, <1>6

\* A run of units has the length it is given.
LEMMA UnitsAre ==
  ASSUME NEW f \in Nat, NEW v \in Nat, NEW n \in Nat
  PROVE  Units(f, v, n) \in Seq(Unit) /\ Len(Units(f, v, n)) = n
<1>1. \A k \in 1 .. n : << f, v, k >> \in Unit
  BY DEF Unit
<1> QED BY <1>1 DEF Units

\* The header of a frame is N units long, its body has N parts.
LEMMA PartsAre ==
  ASSUME NEW f \in Nat, NEW lens \in [Videos -> Nat]
  PROVE  /\ Parts(f, lens) \in Seq(Seq(Unit)) /\ Len(Parts(f, lens)) = N
         /\ \A v \in Videos : Parts(f, lens)[v] = Units(f, v, lens[v])
         /\ Header(f, lens) \in Seq(Unit) /\ Len(Header(f, lens)) = N
<1>1. N \in Nat /\ Videos = 1 .. N
  BY StreamAssumption DEF Videos
<1>2. ASSUME NEW v \in Videos
      PROVE  Units(f, v, lens[v]) \in Seq(Unit) /\ << f, 0, lens[v] >> \in Unit
  <2>1. v \in Nat /\ lens[v] \in Nat
    BY <1>1
  <2>2. Units(f, v, lens[v]) \in Seq(Unit)
    BY <2>1, UnitsAre
  <2> QED BY <2>1, <2>2 DEF Unit
<1>3. /\ Parts(f, lens) \in Seq(Seq(Unit)) /\ Len(Parts(f, lens)) = N
      /\ \A v \in Videos : Parts(f, lens)[v] = Units(f, v, lens[v])
  <2>1. Parts(f, lens) = [v \in 1 .. N |-> Units(f, v, lens[v])]
    BY <1>1 DEF Parts
  <2>2. \A v \in 1 .. N : Units(f, v, lens[v]) \in Seq(Unit)
    BY <1>1, <1>2
  <2> QED BY <1>1, <2>1, <2>2
<1>4. Header(f, lens) \in Seq(Unit) /\ Len(Header(f, lens)) = N
  BY <1>1, <1>2 DEF Header
<1> QED BY <1>3, <1>4

\* The body up to the end of video v.
LEMMA BodyUpTo ==
  ASSUME NEW f \in Nat, NEW lens \in [Videos -> Nat], NEW v \in 0 .. N
  PROVE  /\ FlattenSeq(SubSeq(Parts(f, lens), 1, v)) \in Seq(Unit)
         /\ Len(FlattenSeq(SubSeq(Parts(f, lens), 1, v))) = Ends(lens)[v]
<1> DEFINE s == Parts(f, lens)
           T == {n \in Nat : n <= N => Len(FlattenSeq(SubSeq(s, 1, n))) = Ends(lens)[n]}
<1>1. N \in Nat /\ Videos = 1 .. N /\ s \in Seq(Seq(Unit)) /\ Len(s) = N
  BY StreamAssumption, PartsAre DEF Videos
<1> HIDE DEF s
<1>2. ASSUME NEW n \in 0 .. N PROVE FlattenSeq(SubSeq(s, 1, n)) \in Seq(Unit)
  BY <1>1, Cut, FlattenType
<1>3. 0 \in T
  <2>1. SubSeq(s, 1, 0) = << >>
    BY SubSeqEmpty
  <2>2. Len(FlattenSeq(SubSeq(s, 1, 0))) = Ends(lens)[0]
    BY <2>1, EndsAre, FlattenAppend DEF FlattenSeq
  <2> QED BY <2>2
<1>4. ASSUME NEW n \in Nat, n \in T PROVE n + 1 \in T
  <2>1. ASSUME n + 1 <= N
        PROVE  Len(FlattenSeq(SubSeq(s, 1, n + 1))) = Ends(lens)[n + 1]
    <3>1. n + 1 \in 1 .. Len(s) /\ n + 1 \in Videos /\ (n + 1) - 1 = n /\ n \in 0 .. N
      BY <1>1, <2>1
    <3>2. FlattenSeq(SubSeq(s, 1, n + 1)) = FlattenSeq(SubSeq(s, 1, n)) \o s[n + 1]
      BY <1>1, <3>1, FlattenTo
    <3>3. s[n + 1] \in Seq(Unit) /\ Len(s[n + 1]) = lens[n + 1]
      <4>1. s[n + 1] = Units(f, n + 1, lens[n + 1])
        BY <3>1, PartsAre DEF s
      <4>2. f \in Nat /\ n + 1 \in Nat /\ lens[n + 1] \in Nat
        BY <3>1
      <4>3. Units(f, n + 1, lens[n + 1]) \in Seq(Unit) /\ Len(Units(f, n + 1, lens[n + 1])) = lens[n + 1]
        BY ONLY <4>2, UnitsAre
      <4> QED BY <4>1, <4>3
    <3>4. Len(FlattenSeq(SubSeq(s, 1, n + 1))) = Len(FlattenSeq(SubSeq(s, 1, n))) + Len(s[n + 1])
      <4>1. ASSUME NEW a \in Seq(Unit), NEW b \in Seq(Unit) PROVE Len(a \o b) = Len(a) + Len(b)
        BY ConcatAt
      <4> QED BY <1>2, <3>1, <3>2, <3>3, <4>1
    <3>5. Len(FlattenSeq(SubSeq(s, 1, n))) = Ends(lens)[n]
      BY <1>1, <1>4, <2>1
    <3>6. Ends(lens)[n + 1] = Ends(lens)[n] + lens[n + 1]
      BY <3>1, EndsAre
    <3> QED BY <3>3, <3>4, <3>5, <3>6
  <2> QED BY <2>1
<1> HIDE DEF T
<1>5. Nat \subseteq T
  BY <1>3, <1>4, NatInSet
<1>6. Len(FlattenSeq(SubSeq(s, 1, v))) = Ends(lens)[v]
  BY <1>1, <1>5 DEF T
<1> QED BY <1>2, <1>6 DEF s

\* What fwrite is given for a video, and the size of the body.
LEMMA SlicesOfBody ==
  ASSUME NEW f \in Nat, NEW lens \in [Videos -> Nat]
  PROVE  /\ Body(f, lens) \in Seq(Unit) /\ Len(Body(f, lens)) = Sum(lens) /\ Sum(lens) \in Nat
         /\ \A v \in Videos : SubSeq(Body(f, lens), Ends(lens)[v - 1] + 1, Ends(lens)[v]) = Units(f, v, lens[v])
<1> DEFINE s == Parts(f, lens)
           To(n) == FlattenSeq(SubSeq(s, 1, n))
           From(n) == FlattenSeq(SubSeq(s, n + 1, N))
<1>1. N \in Nat /\ Videos = 1 .. N /\ s \in Seq(Seq(Unit)) /\ Len(s) = N
  BY StreamAssumption, PartsAre DEF Videos
<1>2. SubSeq(s, 1, N) = s
  BY <1>1, SubSeqFull
<1>3. Body(f, lens) = To(N)
  BY <1>2 DEF Body
<1>4. ASSUME NEW n \in 0 .. N
      PROVE  To(n) \in Seq(Unit) /\ Len(To(n)) = Ends(lens)[n] /\ From(n) \in Seq(Unit)
  <2>1. From(n) \in Seq(Unit)
    BY <1>1, Cut, FlattenType
  <2> QED BY <2>1, BodyUpTo
<1>5. ASSUME NEW v \in Videos
      PROVE  SubSeq(Body(f, lens), Ends(lens)[v - 1] + 1, Ends(lens)[v]) = Units(f, v, lens[v])
  <2>1. v \in 1 .. Len(s) /\ v - 1 \in 0 .. N /\ v \in 0 .. N /\ v \in 0 .. Len(s)
    BY <1>1
  <2>2. s[v] = Units(f, v, lens[v]) /\ s[v] \in Seq(Unit) /\ Len(s[v]) = lens[v]
    <3>1. s[v] = Units(f, v, lens[v])
      BY PartsAre
    <3>2. v \in Nat /\ lens[v] \in Nat
      BY <2>1
    <3>3. Units(f, v, lens[v]) \in Seq(Unit) /\ Len(Units(f, v, lens[v])) = lens[v]
      BY <3>2, UnitsAre
    <3> HIDE DEF s
    <3> QED BY <3>1, <3>3
  <2> HIDE DEF s
  <2>3. To(v) = To(v - 1) \o s[v]
    BY <1>1, <2>1, FlattenTo
  <2>4. FlattenSeq(s) = To(v) \o From(v)
    BY <1>1, <2>1, FlattenSplit
  <2>5. Body(f, lens) = (To(v - 1) \o s[v]) \o From(v)
    BY <2>3, <2>4 DEF Body, s
  <2>6. /\ To(v - 1) \in Seq(Unit) /\ Len(To(v - 1)) = Ends(lens)[v - 1] /\ From(v) \in Seq(Unit)
        /\ Ends(lens)[v] = Ends(lens)[v - 1] + Len(s[v])
    BY <1>4, <2>1, <2>2, EndsAre
  <2> HIDE DEF To, From
  <2>7. SubSeq((To(v - 1) \o s[v]) \o From(v), Len(To(v - 1)) + 1, Len(To(v - 1)) + Len(s[v])) = s[v]
    BY <2>2, <2>6, Middle
  <2> QED BY <2>2, <2>5, <2>6, <2>7
<1>6. Sum(lens) \in Nat
  BY <1>1, EndsAre DEF Sum
<1>7. N \in 0 .. N
  BY <1>1
<1> HIDE DEF To, From, s
<1> QED BY <1>3, <1>4, <1>5, <1>6, <1>7 DEF Sum

\* A frame is its header and its body.
LEMMA FrameUnitsAre ==
  ASSUME NEW f \in Nat, NEW lens \in [Videos -> Nat]
  PROVE  FrameUnits(f, lens) = Header(f, lens) \o Body(f, lens) /\ FrameUnits(f, lens) \in Seq(Unit)
<1>1. /\ Header(f, lens) \in Seq(Unit) /\ Parts(f, lens) \in Seq(Seq(Unit))
      /\ Body(f, lens) \in Seq(Unit)
  BY PartsAre, SlicesOfBody
<1>2. FrameUnits(f, lens) = FlattenSeq(<< Header(f, lens) >> \o Parts(f, lens))
  BY DEF FrameUnits, Header, Parts
<1>3. FlattenSeq(<< Header(f, lens) >> \o Parts(f, lens)) = Header(f, lens) \o FlattenSeq(Parts(f, lens))
  <2>1. ASSUME NEW x \in Seq(Unit), NEW s \in Seq(Seq(Unit))
        PROVE  FlattenSeq(<< x >> \o s) = x \o FlattenSeq(s)
    BY FlattenCons
  <2> QED BY <1>1, <2>1
<1>4. FrameUnits(f, lens) = Header(f, lens) \o Body(f, lens)
  BY <1>2, <1>3 DEF Body
<1>5. ASSUME NEW a \in Seq(Unit), NEW b \in Seq(Unit) PROVE a \o b \in Seq(Unit)
  BY ConcatProperties
<1> QED BY <1>1, <1>4, <1>5

\* The frames of the camera.
LEMMA FramesAre ==
  ASSUME NEW q \in Seq(Lens)
  PROVE  /\ Frames(q) \in Seq(Seq(Unit)) /\ Len(Frames(q)) = Len(q)
         /\ \A f \in 1 .. Len(q) : Frames(q)[f] = FrameUnits(f, q[f]) /\ q[f] \in [Videos -> Nat]
<1>1. ASSUME NEW f \in 1 .. Len(q)
      PROVE  FrameUnits(f, q[f]) \in Seq(Unit) /\ q[f] \in [Videos -> Nat] /\ f \in Nat
  <2>1. f \in Nat /\ q[f] \in Lens /\ Lens \subseteq [Videos -> Nat]
    BY StreamAssumption DEF Videos
  <2> QED BY <2>1, FrameUnitsAre
<1>2. Len(q) \in Nat
  OBVIOUS
<1> QED BY <1>1, <1>2 DEF Frames

\* What is left after n frames starts with the header and the body of the next.
LEMMA RestAre ==
  ASSUME NEW q \in Seq(Lens), NEW n \in 0 .. Len(q)
  PROVE  /\ Rest(q, n) \in Seq(Unit)
         /\ n = Len(q) => Rest(q, n) = << >>
         /\ n < Len(q) =>
              Rest(q, n) = Header(n + 1, q[n + 1]) \o (Body(n + 1, q[n + 1]) \o Rest(q, n + 1))
<1>1. /\ Len(q) \in Nat /\ Frames(q) \in Seq(Seq(Unit)) /\ Len(Frames(q)) = Len(q)
      /\ \A f \in 1 .. Len(q) : Frames(q)[f] = FrameUnits(f, q[f]) /\ q[f] \in [Videos -> Nat]
  BY FramesAre
<1>2. ASSUME NEW k \in 0 .. Len(q) PROVE Rest(q, k) \in Seq(Unit)
  BY <1>1, Cut, FlattenType DEF Rest
<1>3. ASSUME n = Len(q) PROVE Rest(q, n) = << >>
  <2>1. SubSeq(Frames(q), n + 1, Len(q)) = << >>
    BY <1>1, <1>3, SubSeqEmpty
  <2> QED BY <2>1 DEF Rest, FlattenSeq
<1>4. ASSUME n < Len(q)
      PROVE  Rest(q, n) = Header(n + 1, q[n + 1]) \o (Body(n + 1, q[n + 1]) \o Rest(q, n + 1))
  <2>1. n \in 0 .. Len(Frames(q)) - 1 /\ n + 1 \in 1 .. Len(q) /\ n + 1 \in 0 .. Len(q) /\ n + 1 \in Nat
        /\ n + 2 = (n + 1) + 1
    BY <1>1, <1>4
  <2>2. Rest(q, n) = Frames(q)[n + 1] \o Rest(q, n + 1)
    BY <1>1, <2>1, FlattenFrom DEF Rest
  <2> DEFINE lens == q[n + 1]
             a == Header(n + 1, lens)
             b == Body(n + 1, lens)
             c == Rest(q, n + 1)
  <2>3. lens \in [Videos -> Nat] /\ Frames(q)[n + 1] = FrameUnits(n + 1, lens)
    BY <1>1, <2>1
  <2>4. Frames(q)[n + 1] = a \o b /\ a \in Seq(Unit) /\ b \in Seq(Unit) /\ c \in Seq(Unit)
    <3> HIDE DEF lens
    <3>1. FrameUnits(n + 1, lens) = a \o b /\ a \in Seq(Unit) /\ b \in Seq(Unit)
      BY <2>1, <2>3, FrameUnitsAre, PartsAre, SlicesOfBody
    <3> QED BY <1>2, <2>1, <2>3, <3>1
  <2> HIDE DEF a, b, c
  <2>5. Associative(Unit)
    BY Assoc
  <2>6. Rest(q, n) = (a \o b) \o c
    BY <2>2, <2>4 DEF c
  <2>7. Rest(q, n) = a \o (b \o c)
    BY <2>4, <2>5, <2>6 DEF Associative
  <2> QED BY <2>7 DEF a, b, c
<1> QED BY <1>2, <1>3, <1>4

\* A frame that the camera sends comes after the rest.
LEMMA RestGrows ==
  ASSUME NEW q \in Seq(Lens), NEW lens \in Lens, NEW n \in 0 .. Len(q)
  PROVE  /\ Append(q, lens) \in Seq(Lens) /\ Len(Append(q, lens)) = Len(q) + 1
         /\ Rest(Append(q, lens), n) = Rest(q, n) \o FrameUnits(Len(q) + 1, lens)
<1> DEFINE r == Append(q, lens)
           m == Len(q)
           unit == FrameUnits(m + 1, lens)
           s == SubSeq(Frames(q), n + 1, m)
           t == SubSeq(Frames(r), n + 1, m)
<1>1. /\ m \in Nat /\ Frames(q) \in Seq(Seq(Unit)) /\ Len(Frames(q)) = m
      /\ \A f \in 1 .. m : Frames(q)[f] = FrameUnits(f, q[f])
  BY FramesAre
<1>2. /\ r \in Seq(Lens) /\ Len(r) = m + 1 /\ r[m + 1] = lens
      /\ \A f \in 1 .. m : r[f] = q[f]
  BY AppendProperties
<1>3. unit \in Seq(Unit)
  <2>1. lens \in [Videos -> Nat] /\ m + 1 \in Nat
    BY <1>1, StreamAssumption DEF Videos
  <2> QED BY <2>1, FrameUnitsAre
<1>4. \A f \in 1 .. m + 1 : Frames(r)[f] = FrameUnits(f, r[f])
  BY <1>2 DEF Frames
<1>5. Frames(r) \in Seq(Seq(Unit)) /\ Len(Frames(r)) = m + 1
  <2> DEFINE k == m + 1
  <2>1. ASSUME NEW f \in 1 .. k PROVE FrameUnits(f, r[f]) \in Seq(Unit)
    <3>1. r[f] \in [Videos -> Nat] /\ f \in Nat
      BY <1>2, StreamAssumption DEF Videos
    <3> QED BY <3>1, FrameUnitsAre
  <2> DEFINE g == [f \in 1 .. k |-> FrameUnits(f, r[f])]
  <2>2. Frames(r) = g
    BY <1>2 DEF Frames
  <2>3. k \in Nat
    BY <1>1
  <2> HIDE DEF k
  <2>4. g \in Seq(Seq(Unit)) /\ Len(g) = k
    <3>1. g = [i \in 1 .. k |-> g[i]] /\ \A i \in 1 .. k : g[i] \in Seq(Unit)
      BY <2>1
    <3> HIDE DEF g
    <3> QED BY <2>3, <3>1, FunctionIsSeq
  <2> HIDE DEF g
  <2> QED BY <2>2, <2>4 DEF k
<1>6. s \in Seq(Seq(Unit)) /\ s = t
  <2>1. s \in Seq(Seq(Unit))
    BY <1>1, Cut
  <2>2. ASSUME NEW i \in n + 1 .. m PROVE Frames(r)[i] = Frames(q)[i] /\ Frames(q)[i] \in Seq(Unit)
    <3>1. i \in 1 .. m /\ i \in 1 .. m + 1
      BY <1>1
    <3>2. Frames(r)[i] = FrameUnits(i, r[i]) /\ Frames(q)[i] = FrameUnits(i, q[i]) /\ r[i] = q[i]
      BY <1>1, <1>2, <1>4, <3>1
    <3>3. Frames(q)[i] \in Seq(Unit)
      BY <1>1, <3>1, ElementOfSeq
    <3> QED BY <3>2, <3>3
  <2>3. n + 1 \in Int /\ m \in Int
    BY <1>1
  <2>4. /\ s \in Seq(Seq(Unit)) /\ Len(s) = IF n + 1 <= m THEN m - (n + 1) + 1 ELSE 0
        /\ \A i \in 1 .. m - (n + 1) + 1 : s[i] = Frames(q)[n + 1 + i - 1]
    BY <2>2, <2>3, SubSeqProperties
  <2>5. /\ t \in Seq(Seq(Unit)) /\ Len(t) = IF n + 1 <= m THEN m - (n + 1) + 1 ELSE 0
        /\ \A i \in 1 .. m - (n + 1) + 1 : t[i] = Frames(r)[n + 1 + i - 1]
    BY <2>2, <2>3, SubSeqProperties
  <2> HIDE DEF s, t
  <2>6. \A i \in 1 .. Len(s) : s[i] = t[i]
    <3> SUFFICES ASSUME NEW i \in 1 .. Len(s) PROVE s[i] = t[i]
      OBVIOUS
    <3>1. i \in 1 .. m - (n + 1) + 1 /\ n + 1 + i - 1 \in n + 1 .. m
      BY <2>3, <2>4
    <3> QED BY <2>2, <2>4, <2>5, <3>1
  <2> QED BY <2>4, <2>5, <2>6, SeqEqual
<1>7. SubSeq(Frames(r), n + 1, m + 1) = Append(s, unit)
  <2>1. n + 1 \in 1 .. Len(Frames(r)) /\ m + 1 \in n + 1 .. Len(Frames(r)) /\ (m + 1) - 1 = m /\ m + 1 \in 1 .. m + 1
    BY <1>1, <1>5
  <2>2. SubSeq(Frames(r), n + 1, m + 1) = SubSeq(Frames(r), n + 1, m) \o << Frames(r)[m + 1] >>
    BY <1>5, <2>1, SubSeqRecursiveSecond
  <2>3. Frames(r)[m + 1] = unit
    BY <1>2, <1>4, <2>1
  <2> HIDE DEF unit, s, t
  <2>4. s \o << unit >> = Append(s, unit)
    BY <1>3, <1>6, AppendIsConcat
  <2> QED BY <1>6, <2>2, <2>3, <2>4 DEF t
<1> HIDE DEF unit, s
<1>8. FlattenSeq(Append(s, unit)) = FlattenSeq(s) \o unit
  BY <1>3, <1>6, FlattenAppend
<1> QED BY <1>2, <1>7, <1>8 DEF Rest, s, unit

\* The units of a video, frame by frame.
LEMMA VideoAre ==
  ASSUME NEW q \in Seq(Lens), NEW v \in Videos, NEW n \in 0 .. Len(q)
  PROVE  /\ VideoOf(q, v, n) \in Seq(Unit) /\ VideoOf(q, v, 0) = << >>
         /\ n > 0 => VideoOf(q, v, n) = VideoOf(q, v, n - 1) \o Units(n, v, q[n][v])
<1> DEFINE s(k) == [f \in 1 .. k |-> Units(f, v, q[f][v])]
<1>1. ASSUME NEW f \in 1 .. Len(q) PROVE Units(f, v, q[f][v]) \in Seq(Unit)
  <2>1. q[f] \in [Videos -> Nat] /\ f \in Nat /\ v \in Nat
    BY StreamAssumption DEF Videos
  <2>2. q[f][v] \in Nat
    BY <2>1
  <2> QED BY <2>1, <2>2, UnitsAre
<1>2. ASSUME NEW k \in 0 .. Len(q) PROVE s(k) \in Seq(Seq(Unit)) /\ Len(s(k)) = k
  BY <1>1
<1>3. VideoOf(q, v, n) \in Seq(Unit)
  BY <1>2, FlattenType DEF VideoOf
<1>4. VideoOf(q, v, 0) = << >>
  <2>1. s(0) = << >>
    OBVIOUS
  <2> QED BY <2>1 DEF VideoOf, FlattenSeq
<1>5. ASSUME n > 0 PROVE VideoOf(q, v, n) = VideoOf(q, v, n - 1) \o Units(n, v, q[n][v])
  <2> DEFINE x == Units(n, v, q[n][v])
             t == s(n - 1)
             u == s(n)
  <2>1. /\ n \in 1 .. Len(q) /\ n - 1 \in 0 .. Len(q) /\ n \in 1 .. n /\ (n - 1) + 1 = n
        /\ \A i \in 1 .. n : i \in 1 .. n - 1 \/ i = n
    BY <1>5
  <2>2. x \in Seq(Unit) /\ t \in Seq(Seq(Unit)) /\ Len(t) = n - 1 /\ u \in Seq(Seq(Unit)) /\ Len(u) = n
    BY <1>1, <1>2, <2>1
  <2>3. u[n] = x /\ \A i \in 1 .. n - 1 : u[i] = t[i]
    BY <2>1
  <2>4. VideoOf(q, v, n) = FlattenSeq(u) /\ VideoOf(q, v, n - 1) = FlattenSeq(t)
    BY DEF VideoOf
  <2> HIDE DEF x, t, u
  <2>5. /\ Append(t, x) \in Seq(Seq(Unit)) /\ Len(Append(t, x)) = n
        /\ Append(t, x)[n] = x /\ \A i \in 1 .. n - 1 : Append(t, x)[i] = t[i]
    BY <2>1, <2>2, AppendProperties
  <2>6. u = Append(t, x)
    BY <2>1, <2>2, <2>3, <2>5, SeqEqual
  <2>7. FlattenSeq(Append(t, x)) = FlattenSeq(t) \o x
    BY <2>2, FlattenAppend
  <2> QED BY <2>4, <2>6, <2>7 DEF x
<1> QED BY <1>3, <1>4, <1>5

\* A new frame changes nothing in what came before it.
LEMMA VideoSame ==
  ASSUME NEW q \in Seq(Lens), NEW lens \in Lens, NEW v, NEW n \in 0 .. Len(q)
  PROVE  VideoOf(Append(q, lens), v, n) = VideoOf(q, v, n)
<1>1. \A f \in 1 .. n : Append(q, lens)[f] = q[f]
  BY AppendProperties
<1>2. [f \in 1 .. n |-> Units(f, v, Append(q, lens)[f][v])] = [f \in 1 .. n |-> Units(f, v, q[f][v])]
  BY <1>1
<1> QED BY <1>2 DEF VideoOf

(***************************************************************************)
(* The images of a photo.                                                  *)
(***************************************************************************)
\* The images of a photo, one by one.
LEMMA ImagesAre ==
  ASSUME NEW c \in Nat, NEW j \in 0 .. N
  PROVE  /\ ImagesAfter(c, j) \in Seq(Unit)
         /\ j = N => ImagesAfter(c, j) = << >>
         /\ j < N => ImagesAfter(c, j) = Image(c, j + 1) \o ImagesAfter(c, j + 1)
<1>1. N \in Nat /\ Videos = 1 .. N /\ ImageSize \in Nat
  BY StreamAssumption DEF Videos
<1>2. \A i \in 1 .. N : Image(c, i) \in Seq(Unit)
  <2> SUFFICES ASSUME NEW i \in 1 .. N PROVE Image(c, i) \in Seq(Unit)
    OBVIOUS
  <2>1. i \in Nat
    BY <1>1
  <2> QED BY <1>1, <2>1, UnitsAre DEF Image
<1>3. Images(c) = [i \in 1 .. N |-> Image(c, i)]
  BY <1>1 DEF Images
<1>4. Images(c) \in Seq(Seq(Unit)) /\ Len(Images(c)) = N /\ \A i \in 1 .. N : Images(c)[i] = Image(c, i)
  BY <1>1, <1>2, <1>3
<1>5. ImagesAfter(c, j) \in Seq(Unit)
  BY <1>4, Cut, FlattenType DEF ImagesAfter
<1>6. ASSUME j = N PROVE ImagesAfter(c, j) = << >>
  <2>1. SubSeq(Images(c), j + 1, N) = << >>
    BY <1>1, <1>6, SubSeqEmpty
  <2> QED BY <2>1 DEF ImagesAfter, FlattenSeq
<1>7. ASSUME j < N PROVE ImagesAfter(c, j) = Image(c, j + 1) \o ImagesAfter(c, j + 1)
  <2>1. j \in 0 .. Len(Images(c)) - 1 /\ j + 1 \in 1 .. N /\ j + 2 = (j + 1) + 1
    BY <1>1, <1>4, <1>7
  <2>2. FlattenSeq(SubSeq(Images(c), j + 1, N)) = Images(c)[j + 1] \o FlattenSeq(SubSeq(Images(c), (j + 1) + 1, N))
    BY <1>4, <2>1, FlattenFrom
  <2> QED BY <1>4, <2>1, <2>2 DEF ImagesAfter
<1> QED BY <1>5, <1>6, <1>7

\* The reply to the photo command is an ack and the images.
LEMMA ReplyIs ==
  ASSUME NEW c \in Nat
  PROVE  /\ Reply(c, 8) = Units(c, 0, AckSize) \o ImagesAfter(c, 0) /\ Reply(c, 8) \in Seq(Unit)
         /\ Units(c, 0, AckSize) \in Seq(Unit) /\ Len(Units(c, 0, AckSize)) = AckSize
<1>1. N \in Nat /\ Videos = 1 .. N /\ ImageSize \in Nat /\ AckSize \in Nat
  BY StreamAssumption DEF Videos
<1>2. Units(c, 0, AckSize) \in Seq(Unit) /\ Len(Units(c, 0, AckSize)) = AckSize
  BY <1>1, UnitsAre
<1>3. Images(c) \in Seq(Seq(Unit)) /\ Len(Images(c)) = N
  <2>1. Images(c) = [i \in 1 .. N |-> Image(c, i)]
    BY <1>1 DEF Images
  <2>2. ASSUME NEW i \in 1 .. N PROVE Image(c, i) \in Seq(Unit)
    <3>1. i \in Nat
      BY <1>1
    <3> QED BY <1>1, <3>1, UnitsAre DEF Image
  <2> QED BY <1>1, <2>1, <2>2
<1>4. Reply(c, 8) = FlattenSeq(<< Units(c, 0, AckSize) >> \o Images(c))
  BY DEF Reply, Images
<1>5. SubSeq(Images(c), 1, N) = Images(c)
  BY <1>3, SubSeqFull
<1> DEFINE a == Units(c, 0, AckSize)
           s == Images(c)
<1> HIDE DEF a, s
<1>6. FlattenSeq(<< a >> \o s) = a \o FlattenSeq(s) /\ FlattenSeq(s) \in Seq(Unit)
  BY <1>2, <1>3, FlattenCons, FlattenType DEF a, s
<1>7. a \o FlattenSeq(s) \in Seq(Unit)
  BY <1>2, <1>6, ConcatProperties DEF a
<1>8. FlattenSeq(s) = ImagesAfter(c, 0)
  BY <1>5, 0 + 1 = 1 DEF s, ImagesAfter
<1> QED BY <1>2, <1>4, <1>6, <1>7, <1>8 DEF a, s

\* The empty run of units,
LEMMA Nothing == << >> \in Seq(Unit) /\ Len(<< >>) = 0
OBVIOUS

\* and two runs together.
LEMMA Concat == \A a, b \in Seq(Unit) : a \o b \in Seq(Unit) /\ Len(a \o b) = Len(a) + Len(b)
BY ConcatProperties

(***************************************************************************)
(* The steps.  What most of them leave alone, for one side and the other.  *)
(***************************************************************************)
\* The steps that leave the data thread alone, and those that move no data.
Elsewhere ==
  \/ SemWait \/ Command \/ BrokenPipe \/ RecvAck \/ RecvImage \/ RecvImageFails \/ SaveImage
  \/ SavePart \/ SaveFails \/ Cancel \/ Join \/ ConnectFails \/ CameraDies \/ UNCHANGED vars

\* The steps of the main thread, and of the network, that leave the data thread
\* alone.
LEMMA DataStill ==
  ASSUME Main, Elsewhere
  PROVE  UNCHANGED << program, file_flag, dataVars, sent, line >> /\ (~short' => ~short)
<1> USE DEF dataVars, setup, mainVars, syncVars, Main
<1>1. CASE SemWait \/ BrokenPipe \/ SaveImage \/ SavePart \/ SaveFails \/ Cancel \/ Join
  BY <1>1 DEF SemWait, BrokenPipe, SaveImage, SavePart, SaveFails, Cancel, Join
<1>2. CASE Command \/ RecvImage \/ RecvImageFails \/ ConnectFails \/ CameraDies
  BY <1>2 DEF Command, RecvImage, RecvImageFails, ConnectFails, CameraDies
<1>3. CASE RecvAck
  BY <1>3 DEF RecvAck
<1>4. CASE UNCHANGED vars
  BY <1>4 DEF vars
<1> QED BY <1>1, <1>2, <1>3, <1>4 DEF Elsewhere

\* The steps of the data thread and of the camera leave the main thread alone.
LEMMA MainStill ==
  ASSUME Main, DataThread \/ CameraSends \/ CameraDies \/ UNCHANGED vars
  PROVE  /\ UNCHANGED << count, ctl, image, len, photo, cut >> /\ mpc' \in {mpc, "exited"}
         /\ (~short' => ~short) /\ (dead' = dead \/ dead = "no")
         /\ short' \in BOOLEAN /\ dead' \in {"no", "closed", "reset"}
<1> USE DEF dataVars, setup, mainVars, syncVars, Main
<1>1. CASE OpenFiles \/ Connect \/ ConnectFails \/ SemPost \/ RecvBody \/ RecvFile
  BY <1>1 DEF OpenFiles, Connect, ConnectFails, SemPost, RecvBody, RecvFile
<1>2. CASE RecvHeader
  BY <1>2 DEF RecvHeader
<1>3. CASE RecvFails \/ WriteSlice \/ WriteFails \/ WriteFileFails \/ NothingToWrite \/ Cancelled
  BY <1>3 DEF RecvFails, WriteSlice, WriteFails, WriteFileFails, NothingToWrite, Cancelled
<1>4. CASE CameraSends \/ CameraDies \/ UNCHANGED vars
  BY <1>4 DEF CameraSends, CameraDies, vars
<1> QED BY <1>1, <1>2, <1>3, <1>4 DEF DataThread

\* The type of the main thread's variables.
LEMMA MainKept == ASSUME Main, [Next]_vars PROVE Main'
<1>1. CASE DataThread \/ CameraSends \/ CameraDies \/ UNCHANGED vars
  <2>1. sem' \in Nat
    BY <1>1 DEF Main, DataThread, OpenFiles, Connect, ConnectFails, SemPost, RecvHeader, RecvBody, RecvFile,
                RecvFails, WriteSlice, WriteFails, WriteFileFails, NothingToWrite, Cancelled, CameraSends,
                CameraDies, vars, syncVars
  <2> QED BY <1>1, <2>1, MainStill DEF Main
<1>2. CASE SemWait \/ BrokenPipe \/ SaveFails \/ Cancel \/ Join \/ Create
  BY <1>2 DEF Main, MGoto, SemWait, BrokenPipe, SaveFails, Cancel, Join, Create, mainVars, syncVars
<1>3. CASE Command
  <2>1. PICK type \in {1, 3, 4, 8, 9, AutoCommand} :
          /\ ctl' = IF dead = "no" THEN ctl \o Reply(count', type) ELSE ctl
          /\ mpc' = CASE type \in {1, 9} -> "ack" [] type = 8 -> "head"
                      [] type = 4 -> "cancel" [] OTHER -> "command"
    BY <1>3 DEF Command
  <2>2. /\ count' \in Nat /\ image' = << >> /\ len' = 0 /\ photo' = << >> /\ UNCHANGED << short, sem, dead >>
    BY <1>3 DEF Command, Main, syncVars
  <2>3. Reply(count', type) \in Seq(Unit)
    <3>1. /\ Units(count', 0, AckSize) \in Seq(Unit) /\ Reply(count', 8) \in Seq(Unit)
      BY <2>2, ReplyIs
    <3> QED BY <3>1 DEF Reply
  <2>4. ctl' \in Seq(Unit)
    <3>1. ASSUME NEW a \in Seq(Unit), NEW b \in Seq(Unit) PROVE a \o b \in Seq(Unit)
      BY ConcatProperties
    <3> QED BY <2>1, <2>3, <3>1 DEF Main
  <2>5. mpc' \in {"ack", "head", "cancel", "command"}
    BY <2>1
  <2> QED BY <2>2, <2>4, <2>5 DEF Main
<1>4. CASE RecvAck
  <2>1. ctl' \in Seq(Unit)
    <3>1. ASSUME NEW k \in 1 .. Min({AckSize, Len(ctl)}) PROVE SubSeq(ctl, k + 1, Len(ctl)) \in Seq(Unit)
      BY Taken, StreamAssumption DEF Main
    <3>2. CASE ctl' = << >>
      BY <3>2
    <3>3. CASE \E k \in 1 .. Min({AckSize, Len(ctl)}) : ctl' = SubSeq(ctl, k + 1, Len(ctl))
      BY <3>1, <3>3
    <3> QED BY <1>4, <3>2, <3>3 DEF RecvAck
  <2> QED BY <1>4, <2>1 DEF RecvAck, Main, syncVars
<1>5. CASE RecvImage
  <2>1. ASSUME NEW k \in 1 .. Min({ImageSize - len, Len(ctl)})
        PROVE  SubSeq(ctl, k + 1, Len(ctl)) \in Seq(Unit) /\ image \o SubSeq(ctl, 1, k) \in Seq(Unit) /\ k \in Int
    <3>1. ctl \in Seq(Unit) /\ ImageSize - len \in Int
      BY StreamAssumption DEF Main
    <3>2. SubSeq(ctl, k + 1, Len(ctl)) \in Seq(Unit) /\ SubSeq(ctl, 1, k) \in Seq(Unit) /\ k \in Int
      BY <3>1, Taken
    <3>3. ASSUME NEW a \in Seq(Unit), NEW b \in Seq(Unit) PROVE a \o b \in Seq(Unit)
      BY ConcatProperties
    <3> QED BY <3>2, <3>3 DEF Main
  <2>2. PICK k \in 1 .. Min({ImageSize - len, Len(ctl)}) :
          /\ image' = image \o SubSeq(ctl, 1, k) /\ len' = len + k /\ ctl' = SubSeq(ctl, k + 1, Len(ctl))
    BY <1>5 DEF RecvImage
  <2>3. UNCHANGED << mpc, count, photo, short, sem, dead >>
    BY <1>5 DEF RecvImage, syncVars
  <2>4. ctl' \in Seq(Unit) /\ image' \in Seq(Unit)
    BY <2>1, <2>2
  <2>5. len' \in Int
    BY <2>1, <2>2 DEF Main
  <2> QED BY <2>3, <2>4, <2>5 DEF Main
<1>6. CASE RecvImageFails
  BY <1>6 DEF RecvImageFails, Main, syncVars
<1>7. CASE SaveImage
  BY <1>7 DEF SaveImage, Main, syncVars
<1>8. CASE SavePart
  <2>1. PICK k \in 0 .. Len(image) - 1 : photo' = Append(photo, SubSeq(image, 1, k))
    BY <1>8 DEF SavePart
  <2>2. image \in Seq(Unit) /\ k \in 0 .. Len(image)
    BY DEF Main
  <2>3. SubSeq(image, 1, k) \in Seq(Unit)
    BY <2>2, Cut
  <2>4. photo' \in Seq(Seq(Unit)) /\ image' \in Seq(Unit)
    BY <1>8, <2>1, <2>3, AppendProperties, Nothing DEF Main, SavePart
  <2> QED BY <1>8, <2>4 DEF SavePart, Main, syncVars
<1> QED BY <1>1, <1>2, <1>3, <1>4, <1>5, <1>6, <1>7, <1>8 DEF Next, MainThread

Quiet == Connect \/ SemPost \/ RecvFails \/ NothingToWrite \/ Cancelled

\* The steps, sorted by what they do to the stream.
LEMMA Steps ==
  ASSUME [Next]_vars
  PROVE  \/ Elsewhere \/ Quiet \/ Create \/ CameraSends
         \/ OpenFiles \/ RecvHeader \/ RecvBody \/ RecvFile \/ WriteFileFails \/ WriteSlice \/ WriteFails
BY DEF Next, DataThread, MainThread, Elsewhere, Quiet

\* The program and its options do not change.
LEMMA SetupStays == ASSUME [Next]_vars PROVE UNCHANGED << program, file_flag >>
BY DEF Next, DataThread, MainThread, OpenFiles, Connect, ConnectFails, SemPost, RecvHeader, RecvBody, RecvFile,
       WriteFileFails, RecvFails, WriteSlice, WriteFails, NothingToWrite, Cancelled, Create, SemWait, Command, BrokenPipe, RecvAck, RecvImage,
       RecvImageFails, SaveImage, SavePart, SaveFails, Cancel, Join, CameraSends, CameraDies, vars, setup

\* What the steps that move no data leave alone.
LEMMA QuietKeeps ==
  ASSUME Quiet
  PROVE  /\ UNCHANGED << program, file_flag, net_enc, slice, frame, file, sent, line, short, dead, mpc >>
         /\ buf' \in {buf, << >>} /\ linked' \in {linked, TRUE}
BY DEF Quiet, Connect, SemPost, RecvFails, NothingToWrite, Cancelled, DGoto, setup, mainVars, syncVars

\* What one recv does, by what it returns.
Got(got) ==
  /\ got \in Seq(Unit) /\ Len(got) > 0 /\ Len(got) <= Len(line)
  /\ line' \in Seq(Unit) /\ got \o line' = line
HeaderWhole(got) ==
  /\ Len(buf \o got) = N /\ program # "file"
  /\ net_enc' = [v \in Videos |-> (buf \o got)[v][3]]
  /\ dpc' = IF Sum(net_enc') = 0 THEN "write" ELSE "body"
  /\ buf' = << >> /\ frame' = frame + 1 /\ slice' = 1 /\ UNCHANGED << short, file >>
HeaderPart(got) ==
  /\ Recorder /\ Len(buf \o got) < N
  /\ dpc' = "header" /\ buf' = buf \o got /\ UNCHANGED << short, file, net_enc, frame, slice >>
HeaderLost ==
  /\ program = "single" /\ dpc' = "ended" /\ buf' = << >> /\ UNCHANGED << short, file, net_enc, frame, slice >>
HeaderOfFile(got) ==
  /\ program = "file" /\ dpc' \in {"body", "ended"} /\ buf' = << >>
  /\ Len(got) <= N /\ short' = (short \/ Len(got) < N)
  /\ file' = [file EXCEPT ![1] = << >>] /\ UNCHANGED << net_enc, frame, slice >>

\* The recv of a header: whole, a part of one (a recorder goes on, the single
\* client gives up), or the header of a file.
LEMMA HeaderReads ==
  ASSUME Main, Data, RecvHeader, program = "file" => buf = << >>
  PROVE  /\ \E got : Got(got) /\ (HeaderWhole(got) \/ HeaderPart(got) \/ HeaderLost \/ HeaderOfFile(got))
         /\ dpc = "header" /\ UNCHANGED << program, file_flag, linked, sent, dead, mpc, sem, session >>
<1> DEFINE want == HeaderSize - Len(buf)
<1>1. want \in Int /\ Len(buf) \in Nat /\ N \in Nat
  BY StreamAssumption DEF Data, HeaderSize
<1>2. PICK got \in Part(want) :
       /\ LeaveRest(got)
       /\ IF Len(buf \o got) = HeaderSize /\ program # "file"
          THEN /\ net_enc' = [v \in Videos |-> (buf \o got)[v][3]]
               /\ dpc' = IF Sum(net_enc') = 0 THEN "write" ELSE "body"
               /\ buf' = << >> /\ frame' = frame + 1 /\ slice' = 1
               /\ UNCHANGED << short, fds, file >>
          ELSE /\ dpc' = CASE Recorder -> "header" [] program = "single" -> "ended"
                            [] program = "file" -> IF fds < limit THEN "body" ELSE "ended"
               /\ buf' = IF Recorder THEN buf \o got ELSE << >>
               /\ short' = (short \/ (program = "file" /\ Len(got) < HeaderSize))
               /\ fds' = IF program = "file" /\ fds < limit THEN fds + 1 ELSE fds
               /\ file' = IF program = "file" THEN [file EXCEPT ![1] = << >>] ELSE file
               /\ UNCHANGED << net_enc, frame, slice >>
  BY DEF RecvHeader
<1> HIDE DEF want
<1>3. /\ got \in Seq(Unit) /\ Len(got) \in Nat \ {0} /\ Len(got) <= want /\ Len(got) <= Len(line)
      /\ SubSeq(line, Len(got) + 1, Len(line)) \in Seq(Unit)
      /\ got \o SubSeq(line, Len(got) + 1, Len(line)) = line
  BY <1>1, Received DEF Data
<1>4. Got(got)
  <2>1. line' = SubSeq(line, Len(got) + 1, Len(line))
    BY <1>2 DEF LeaveRest
  <2> QED BY <1>3, <2>1 DEF Got
<1>5. Len(buf \o got) = Len(buf) + Len(got) /\ Len(buf \o got) <= N
  BY <1>1, <1>3, Concat DEF Data, want, HeaderSize
<1>6. HeaderWhole(got) \/ HeaderPart(got) \/ HeaderLost \/ HeaderOfFile(got)
  <2>1. CASE Len(buf \o got) = N /\ program # "file"
    BY <1>2, <2>1 DEF HeaderWhole, HeaderSize
  <2>2. CASE Len(buf \o got) # N /\ Recorder
    <3>1. program # "file"
      BY <2>2 DEF Recorder
    <3>2. Len(buf \o got) < N
      <4>1. Len(buf \o got) \in Nat
        BY <1>1, <1>3, <1>5
      <4> QED BY <1>1, <1>5, <2>2, <4>1
    <3>3. /\ dpc' = "header" /\ buf' = buf \o got /\ UNCHANGED << file, net_enc, frame, slice >>
          /\ short' = (short \/ (program = "file" /\ Len(got) < HeaderSize))
      <4>1. program # "single"
        BY <2>2 DEF Recorder
      <4>2. ~(Len(buf \o got) = HeaderSize /\ program # "file")
        BY <2>2 DEF HeaderSize
      <4>3. dpc' = "header"
        BY <1>2, <2>2, <3>1, <4>1, <4>2
      <4>4. buf' = buf \o got /\ UNCHANGED << net_enc, frame, slice >>
        BY <1>2, <2>2, <3>1, <4>1, <4>2
      <4>5. UNCHANGED file
        BY <1>2, <2>2, <3>1, <4>1, <4>2
      <4> QED BY <1>2, <4>2, <4>3, <4>4, <4>5
    <3>4. short' = short
      BY <3>1, <3>3 DEF Main
    <3> QED BY <2>2, <3>2, <3>3, <3>4 DEF HeaderPart
  <2>3. CASE Len(buf \o got) # N /\ program = "single"
    <3>1. ~Recorder
      BY <2>3 DEF Recorder
    <3> QED BY <1>2, <2>3, <3>1 DEF HeaderLost, HeaderSize, Main
  <2>4. CASE program = "file"
    <3>1. ~Recorder
      BY <2>4 DEF Recorder
    <3>2. Len(got) <= N
      BY <1>1, <1>3, <2>4 DEF want, HeaderSize
    <3>3. short' = (short \/ Len(got) < N)
      BY <1>2, <2>4 DEF HeaderSize
    <3> QED BY <1>2, <2>4, <3>1, <3>2, <3>3 DEF HeaderOfFile, HeaderSize
  <2> QED BY <2>1, <2>2, <2>3, <2>4 DEF Data, Recorder
<1>7. dpc = "header" /\ UNCHANGED << program, file_flag, linked, sent, dead, mpc, sem, session >>
  BY DEF RecvHeader, setup, syncVars
<1> QED BY <1>4, <1>6, <1>7

\* The recv of a body never takes more than the body.
LEMMA BodyReads ==
  ASSUME Data, RecvBody
  PROVE  /\ \E got : /\ Got(got) /\ buf' = buf \o got /\ Len(buf') <= Sum(net_enc)
                     /\ dpc' = IF Len(buf') < Sum(net_enc) THEN "body" ELSE "write"
         /\ dpc = "body" /\ program # "file"
         /\ UNCHANGED << program, file_flag, linked, sent, dead, mpc, sem, session, short, net_enc, slice, frame, file >>
<1>1. Sum(net_enc) \in Nat /\ Len(buf) \in Nat /\ BodyLeft \in Int
  <2>1. net_enc \in [Videos -> Nat] /\ 0 \in Nat
    BY DEF Data
  <2>2. Sum(net_enc) \in Nat
    BY <2>1, SlicesOfBody
  <2> QED BY <2>2 DEF Data, BodyLeft
<1>2. PICK got \in Part(BodyLeft) :
       /\ LeaveRest(got) /\ buf' = buf \o got
       /\ dpc' = IF Len(buf') < Sum(net_enc) THEN "body" ELSE "write"
  BY DEF RecvBody
<1>3. /\ got \in Seq(Unit) /\ Len(got) \in Nat \ {0} /\ Len(got) <= BodyLeft /\ Len(got) <= Len(line)
      /\ SubSeq(line, Len(got) + 1, Len(line)) \in Seq(Unit)
      /\ got \o SubSeq(line, Len(got) + 1, Len(line)) = line
  BY <1>1, Received DEF Data
<1>4. Got(got)
  <2>1. line' = SubSeq(line, Len(got) + 1, Len(line))
    BY <1>2 DEF LeaveRest
  <2> QED BY <1>3, <2>1 DEF Got
<1>5. Len(buf') <= Sum(net_enc)
  BY <1>1, <1>2, <1>3, Concat DEF Data, BodyLeft
<1>6. /\ dpc = "body" /\ program # "file"
      /\ UNCHANGED << program, file_flag, linked, sent, dead, mpc, sem, session, short, net_enc, slice, frame, file >>
  BY DEF RecvBody, setup, syncVars, mainVars
<1> QED BY <1>2, <1>4, <1>5, <1>6

\* The recv of a file.
LEMMA FileReads ==
  ASSUME Data, RecvFile
  PROVE  /\ \E got : Got(got) /\ file' = [file EXCEPT ![1] = @ \o got]
         /\ dpc = "body" /\ program = "file"
         /\ UNCHANGED << program, file_flag, linked, sent, dead, mpc, dpc, sem, session, short, buf, net_enc, slice, frame >>
<1>1. Len(line) \in Int
  BY DEF Data
<1>2. PICK got \in Part(Len(line)) : LeaveRest(got) /\ file' = [file EXCEPT ![1] = @ \o got]
  BY DEF RecvFile
<1>3. /\ got \in Seq(Unit) /\ Len(got) \in Nat \ {0} /\ Len(got) <= Len(line)
      /\ SubSeq(line, Len(got) + 1, Len(line)) \in Seq(Unit)
      /\ got \o SubSeq(line, Len(got) + 1, Len(line)) = line
  BY <1>1, Received DEF Data
<1>4. Got(got)
  <2>1. line' = SubSeq(line, Len(got) + 1, Len(line))
    BY <1>2 DEF LeaveRest
  <2> QED BY <1>3, <2>1 DEF Got
<1>5. /\ dpc = "body" /\ program = "file"
      /\ UNCHANGED << program, file_flag, linked, sent, dead, mpc, dpc, sem, session, short, buf, net_enc, slice, frame >>
  BY DEF RecvFile, setup, syncVars, mainVars
<1> QED BY <1>2, <1>4, <1>5

\* The recv of a file of which fwrite takes a part.
LEMMA FileLoses ==
  ASSUME Data, WriteFileFails
  PROVE  /\ \E got : /\ Got(got)
                     /\ \E k \in 0 .. Len(got) : file' = [file EXCEPT ![1] = @ \o SubSeq(got, 1, k)]
         /\ dpc = "body" /\ dpc' = "ended" /\ program = "file"
         /\ UNCHANGED << program, file_flag, linked, sent, dead, mpc, sem, session, short, buf, net_enc, slice, frame >>
<1>1. Len(line) \in Int
  BY DEF Data
<1>2. PICK got \in Part(Len(line)) :
        \E k \in 0 .. Len(got) - 1 : LeaveRest(got) /\ file' = [file EXCEPT ![1] = @ \o SubSeq(got, 1, k)]
  BY DEF WriteFileFails
<1>3. /\ got \in Seq(Unit) /\ Len(got) \in Nat \ {0} /\ Len(got) <= Len(line)
      /\ SubSeq(line, Len(got) + 1, Len(line)) \in Seq(Unit)
      /\ got \o SubSeq(line, Len(got) + 1, Len(line)) = line
  BY <1>1, Received DEF Data
<1>4. Got(got)
  <2>1. line' = SubSeq(line, Len(got) + 1, Len(line))
    BY <1>2 DEF LeaveRest
  <2> QED BY <1>3, <2>1 DEF Got
<1>5. PICK k \in 0 .. Len(got) - 1 : file' = [file EXCEPT ![1] = @ \o SubSeq(got, 1, k)]
  BY <1>2
<1>6. k \in 0 .. Len(got)
  BY <1>3
<1>7. /\ dpc = "body" /\ dpc' = "ended" /\ program = "file"
      /\ UNCHANGED << program, file_flag, linked, sent, dead, mpc, sem, session, short, buf, net_enc, slice, frame >>
  BY DEF WriteFileFails, setup, syncVars, mainVars
<1> QED BY <1>4, <1>5, <1>6, <1>7

\* The first units of a run.
LEMMA UnitsFirst ==
  ASSUME NEW f \in Nat, NEW v \in Nat, NEW n \in Nat, NEW k \in 0 .. n
  PROVE  SubSeq(Units(f, v, n), 1, k) = Units(f, v, k) /\ Units(f, v, k) \in Seq(Unit)
<1>1. k \in Nat /\ Len(Units(f, v, n)) = n /\ Units(f, v, n) \in Seq(Unit)
  BY UnitsAre
<1>2. Units(f, v, k) \in Seq(Unit) /\ Len(Units(f, v, k)) = k
  BY <1>1, UnitsAre
<1>3. SubSeq(Units(f, v, n), 1, k) \in Seq(Unit) /\ Len(SubSeq(Units(f, v, n), 1, k)) = k
  BY <1>1, Cut
<1>4. ASSUME NEW i \in 1 .. k PROVE SubSeq(Units(f, v, n), 1, k)[i] = Units(f, v, k)[i]
  <2>1. i \in 1 .. n
    OBVIOUS
  <2>2. SubSeq(Units(f, v, n), 1, k)[i] = Units(f, v, n)[i]
    BY <1>1, <2>1
  <2> QED BY <2>1, <2>2 DEF Units
<1> QED BY <1>2, <1>3, <1>4, SeqEqual

\* What is written for a video is what the camera sent for it.
LEMMA SliceIs ==
  ASSUME Data, Stream, Contents, dpc = "write"
  PROVE  /\ slice \in Videos /\ Slice(slice) = Units(frame, slice, net_enc[slice])
         /\ Units(frame, slice, net_enc[slice]) \in Seq(Unit) /\ net_enc[slice] \in Nat
         /\ net_enc[slice] = 0 => Units(frame, slice, net_enc[slice]) = << >>
<1>1. /\ slice \in Videos /\ buf = Body(frame, net_enc)
  BY DEF Stream, Contents
<1>2. net_enc \in [Videos -> Nat] /\ frame \in Nat
  BY DEF Data
<1>3. slice \in Nat /\ net_enc[slice] \in Nat
  BY <1>1, <1>2 DEF Videos
<1>4. Units(frame, slice, net_enc[slice]) \in Seq(Unit) /\ Len(Units(frame, slice, net_enc[slice])) = net_enc[slice]
  BY <1>2, <1>3, UnitsAre
<1>5. SubSeq(Body(frame, net_enc), Ends(net_enc)[slice - 1] + 1, Ends(net_enc)[slice]) = Units(frame, slice, net_enc[slice])
  BY <1>1, <1>2, SlicesOfBody
<1>6. Slice(slice) = Units(frame, slice, net_enc[slice])
  BY <1>1, <1>5 DEF Slice
<1>7. net_enc[slice] = 0 => Units(frame, slice, net_enc[slice]) = << >>
  BY <1>4, EmptySeq
<1> QED BY <1>1, <1>3, <1>4, <1>6, <1>7

\* A part of it is the first units.
LEMMA WrittenPart ==
  ASSUME Data, Stream, Contents, dpc = "write", NEW k \in 0 .. net_enc[slice] - 1
  PROVE  /\ slice \in Videos /\ k \in 0 .. net_enc[slice]
         /\ SubSeq(Slice(slice), 1, k) = Units(frame, slice, k)
         /\ SubSeq(Slice(slice), 1, k) \in Seq(Unit)
<1>1. /\ slice \in Videos /\ Slice(slice) = Units(frame, slice, net_enc[slice])
      /\ net_enc[slice] \in Nat /\ frame \in Nat /\ slice \in Nat
  BY SliceIs DEF Data
<1>2. k \in 0 .. net_enc[slice]
  BY <1>1
<1>3. /\ SubSeq(Units(frame, slice, net_enc[slice]), 1, k) = Units(frame, slice, k)
      /\ Units(frame, slice, k) \in Seq(Unit)
  BY <1>1, <1>2, UnitsFirst
<1> QED BY <1>1, <1>2, <1>3

(***************************************************************************)
(* The invariants of the data thread.                                      *)
(***************************************************************************)
\* The type of the data thread's variables.
LEMMA DataKept == ASSUME Main, Data, Stream, Contents, [Next]_vars PROVE Data'
<1>1. CASE Elsewhere
  BY <1>1, DataStill DEF Data, dataVars
<1>2. CASE Quiet
  <2>1. dpc' \in {"post", "header", "ended"}
    BY <1>2 DEF Quiet, Connect, SemPost, RecvFails, NothingToWrite, Cancelled, DGoto, AfterConnect
  <2>2. buf' \in Seq(Unit)
    BY <1>2, QuietKeeps, Nothing DEF Data
  <2> QED BY <1>2, <2>1, <2>2, QuietKeeps DEF Data
<1>3. CASE Create
  <2>1. sent' \in Seq(Lens) /\ line' \in Seq(Unit) /\ buf' \in Seq(Unit)
    BY <1>3, Nothing DEF Create
  <2> QED BY <1>3, <2>1 DEF Create, Data, setup
<1>4. CASE CameraSends
  <2>1. PICK lens \in Lens : sent' = Append(sent, lens) /\ line' = line \o FrameUnits(Len(sent) + 1, lens)
    BY <1>4 DEF CameraSends
  <2>2. Len(sent) + 1 \in Nat /\ lens \in [Videos -> Nat] /\ sent' \in Seq(Lens)
    BY <2>1, StreamAssumption DEF Data, Videos
  <2>3. line' \in Seq(Unit)
    BY <2>1, <2>2, FrameUnitsAre, Concat DEF Data
  <2>4. UNCHANGED << setup, dataVars >>
    BY <1>4 DEF CameraSends
  <2> QED BY <2>2, <2>3, <2>4 DEF Data, setup, dataVars
<1>5. CASE OpenFiles
  <2>1. file' \in [Videos -> Seq(Unit)]
    BY <1>5 DEF OpenFiles, Data
  <2>2. dpc' \in {"connect", "ended"} /\ UNCHANGED << setup, linked, buf, net_enc, ret, slice, frame, sent, line >>
    BY <1>5 DEF OpenFiles, DGoto
  <2> QED BY <2>1, <2>2 DEF Data, setup
<1>6. CASE RecvHeader
  <2>1. PICK got : Got(got) /\ (HeaderWhole(got) \/ HeaderPart(got) \/ HeaderLost \/ HeaderOfFile(got))
    BY <1>6, HeaderReads DEF Contents
  <2>2. UNCHANGED << program, file_flag, linked, sent >>
    BY <1>6, HeaderReads DEF Contents
  <2>3. buf \o got \in Seq(Unit) /\ Len(buf \o got) = Len(buf) + Len(got) /\ line' \in Seq(Unit)
    BY <2>1, Concat DEF Got, Data
  <2>4. net_enc' \in [Videos -> Nat]
    <3>1. CASE Len(buf \o got) = N
      <4>1. ASSUME NEW v \in Videos PROVE (buf \o got)[v][3] \in Nat
        <5>1. (buf \o got)[v] \in Unit
          BY <2>3, <3>1 DEF Videos
        <5> QED BY <5>1 DEF Unit
      <4> QED BY <2>1, <4>1 DEF HeaderWhole, HeaderPart, HeaderLost, HeaderOfFile, Data
    <3>2. CASE Len(buf \o got) # N
      BY <2>1, <3>2 DEF HeaderWhole, HeaderPart, HeaderLost, HeaderOfFile, Data
    <3> QED BY <3>1, <3>2
  <2>5. buf' \in Seq(Unit)
    BY <2>1, <2>3, Nothing DEF HeaderWhole, HeaderPart, HeaderLost, HeaderOfFile
  <2>6. file' \in [Videos -> Seq(Unit)]
    BY <2>1, Nothing DEF HeaderWhole, HeaderPart, HeaderLost, HeaderOfFile, Data
  <2>7. dpc' \in {"header", "body", "write", "ended"} /\ frame' \in Nat /\ slice' \in Nat
    BY <2>1 DEF HeaderWhole, HeaderPart, HeaderLost, HeaderOfFile, Data
  <2> QED BY <2>2, <2>3, <2>4, <2>5, <2>6, <2>7 DEF Data
<1>7. CASE RecvBody
  <2>1. PICK got : /\ Got(got) /\ buf' = buf \o got
                   /\ dpc' = IF Len(buf') < Sum(net_enc) THEN "body" ELSE "write"
    BY <1>7, BodyReads
  <2>2. UNCHANGED << program, file_flag, linked, sent, net_enc, slice, frame, file >>
    BY <1>7, BodyReads
  <2>3. buf' \in Seq(Unit) /\ line' \in Seq(Unit)
    BY <2>1, Concat DEF Got, Data
  <2> QED BY <2>1, <2>2, <2>3 DEF Data
<1>8. CASE RecvFile
  <2>1. PICK got : Got(got) /\ file' = [file EXCEPT ![1] = @ \o got]
    BY <1>8, FileReads
  <2>2. UNCHANGED << program, file_flag, linked, sent, dpc, buf, net_enc, slice, frame >>
    BY <1>8, FileReads
  <2>3. 1 \in Videos /\ file[1] \o got \in Seq(Unit)
    BY <2>1, Concat, StreamAssumption DEF Got, Data, Videos
  <2>4. file' \in [Videos -> Seq(Unit)] /\ line' \in Seq(Unit)
    BY <2>1, <2>3 DEF Data, Got
  <2> QED BY <2>2, <2>4 DEF Data
<1>9. CASE WriteSlice
  <2>1. UNCHANGED << program, file_flag, linked, net_enc, frame, sent, line >>
    BY <1>9 DEF WriteSlice, setup
  <2>2. dpc' \in {"header", "write", "ended"} /\ slice' \in Nat /\ buf' \in {buf, << >>}
    BY <1>9 DEF WriteSlice, AfterSlice, Data
  <2>3. file' \in [Videos -> Seq(Unit)]
    <3>1. dpc = "write"
      BY <1>9 DEF WriteSlice
    <3>2. slice \in Videos /\ Slice(slice) \in Seq(Unit)
      BY <3>1, SliceIs
    <3>3. file[slice] \o Slice(slice) \in Seq(Unit)
      BY <3>2, Concat DEF Data
    <3> QED BY <1>9, <3>2, <3>3 DEF WriteSlice, Data
  <2>4. buf' \in Seq(Unit)
    BY <2>2, Nothing DEF Data
  <2> QED BY <2>1, <2>2, <2>3, <2>4 DEF Data
<1>10. CASE WriteFileFails
  <2>1. PICK got : /\ Got(got)
                   /\ \E k \in 0 .. Len(got) : file' = [file EXCEPT ![1] = @ \o SubSeq(got, 1, k)]
    BY <1>10, FileLoses
  <2>2. PICK k \in 0 .. Len(got) : file' = [file EXCEPT ![1] = @ \o SubSeq(got, 1, k)]
    BY <2>1
  <2>3. SubSeq(got, 1, k) \in Seq(Unit)
    BY <2>1, Cut DEF Got
  <2>4. 1 \in Videos /\ file[1] \o SubSeq(got, 1, k) \in Seq(Unit)
    BY <2>3, Concat, StreamAssumption DEF Data, Videos
  <2>5. file' \in [Videos -> Seq(Unit)] /\ line' \in Seq(Unit)
    BY <2>1, <2>2, <2>4 DEF Data, Got
  <2> QED BY <1>10, <2>5, FileLoses DEF Data
<1>11. CASE WriteFails
  <2>1. dpc = "write" /\ dpc' = "ended" /\ UNCHANGED << program, file_flag, linked, buf, net_enc, slice, frame, sent, line >>
    BY <1>11 DEF WriteFails, setup
  <2>2. PICK k \in 0 .. net_enc[slice] - 1 : file' = [file EXCEPT ![slice] = @ \o SubSeq(Slice(slice), 1, k)]
    BY <1>11 DEF WriteFails
  <2>3. slice \in Videos /\ SubSeq(Slice(slice), 1, k) \in Seq(Unit)
    BY <2>1, WrittenPart
  <2>4. file[slice] \o SubSeq(Slice(slice), 1, k) \in Seq(Unit)
    BY <2>3, Concat DEF Data
  <2>5. file' \in [Videos -> Seq(Unit)]
    BY <2>2, <2>3, <2>4 DEF Data
  <2> QED BY <2>1, <2>5 DEF Data
<1> QED BY <1>1, <1>2, <1>3, <1>4, <1>5, <1>6, <1>7, <1>8, <1>9, <1>10, <1>11, Steps

\* A post of sem_stream belongs to the session at hand.
LEMMA SessionKept == ASSUME Main, Data, Session, Contents, [Next]_vars PROVE Session'
<1> USE DEF Session, setup, mainVars, syncVars, dataVars
<1>1. CASE SemWait \/ BrokenPipe \/ SaveFails \/ Cancel \/ Join \/ Create
  BY <1>1 DEF MGoto, SemWait, BrokenPipe, SaveFails, Cancel, Join, Create
<1>2. CASE Command
  <2>1. mpc = "command" /\ mpc' \in {"command", "ack", "head", "cancel"} /\ UNCHANGED << program, sem, dpc, linked >>
    BY <1>2 DEF Command
  <2> QED BY <2>1
<1>3. CASE RecvAck
  <2>1. mpc \in {"ack", "head"} /\ mpc' \in {"command", "image"} /\ UNCHANGED << program, sem, dpc, linked >>
    BY <1>3 DEF RecvAck
  <2> QED BY <2>1
<1>4. CASE RecvImage \/ RecvImageFails \/ SaveImage \/ SavePart
  <2>1. mpc = "image" /\ mpc' \in {"command", "image"} /\ UNCHANGED << program, sem, dpc, linked >>
    BY <1>4 DEF RecvImage, RecvImageFails, SaveImage, SavePart
  <2> QED BY <2>1
<1>5. CASE ConnectFails \/ CameraSends \/ CameraDies \/ UNCHANGED vars
  BY <1>5 DEF ConnectFails, CameraSends, CameraDies, vars
<1>6. CASE OpenFiles \/ Connect \/ SemPost
  BY <1>6 DEF OpenFiles, Connect, SemPost, DGoto, AfterConnect, Main
<1>7. CASE \/ RecvHeader \/ RecvBody \/ RecvFile \/ WriteFileFails \/ RecvFails \/ WriteSlice
           \/ WriteFails \/ NothingToWrite \/ Cancelled
  <2>1. CASE RecvFails \/ NothingToWrite \/ Cancelled
    BY <2>1 DEF RecvFails, NothingToWrite, Cancelled, DGoto
  <2>6. CASE WriteFileFails
    BY <2>6, FileLoses
  <2>7. CASE WriteFails
    <3>1. dpc = "write" /\ dpc' = "ended" /\ UNCHANGED << program, mpc, sem, linked >>
      BY <2>7 DEF WriteFails
    <3> QED BY <3>1
  <2>2. CASE RecvHeader
    <3>1. dpc' \in {"header", "body", "write", "ended"}
      BY <2>2, HeaderReads DEF Contents, HeaderWhole, HeaderPart, HeaderLost, HeaderOfFile
    <3> QED BY <2>2, <3>1, HeaderReads DEF Contents
  <2>3. CASE RecvBody
    BY <2>3, BodyReads
  <2>4. CASE RecvFile
    BY <2>4, FileReads
  <2>5. CASE WriteSlice
    BY <2>5 DEF WriteSlice, AfterSlice
  <2> QED BY <1>7, <2>1, <2>2, <2>3, <2>4, <2>5, <2>6, <2>7
<1> QED BY <1>1, <1>2, <1>3, <1>4, <1>5, <1>6, <1>7 DEF Next, DataThread, MainThread

\* Nothing is sent or read before the connection stands.
LEMMA LinkKept == ASSUME Main, Data, Link, Contents, [Next]_vars PROVE Link'
<1>1. CASE Elsewhere
  BY <1>1, DataStill DEF Link, dataVars
<1>2. CASE Create \/ CameraSends
  BY <1>2 DEF Create, CameraSends, Link, Data, dataVars
<1>3. CASE OpenFiles
  BY <1>3 DEF OpenFiles, DGoto, Link, Data
<1>4. CASE Quiet
  BY <1>4 DEF Quiet, Connect, SemPost, RecvFails, NothingToWrite, Cancelled, DGoto, AfterConnect, Link, Data
<1>5. CASE RecvHeader \/ RecvBody \/ RecvFile \/ WriteFileFails \/ WriteSlice \/ WriteFails
  <2>1. linked /\ linked' = linked
    BY <1>5 DEF RecvHeader, RecvBody, RecvFile, WriteFileFails, WriteSlice, WriteFails, Link
  <2>2. dpc' \in {"header", "body", "write", "ended"}
    <3>1. CASE RecvHeader
      BY <3>1, HeaderReads DEF Contents, HeaderWhole, HeaderPart, HeaderLost, HeaderOfFile
    <3>2. CASE RecvBody
      BY <3>2, BodyReads
    <3>3. CASE RecvFile
      BY <3>3, FileReads
    <3>4. CASE WriteFileFails \/ WriteSlice \/ WriteFails
      BY <3>4 DEF WriteFileFails, WriteSlice, WriteFails, AfterSlice
    <3> QED BY <1>5, <3>1, <3>2, <3>3, <3>4
  <2> QED BY <2>1, <2>2 DEF Link
<1> QED BY <1>1, <1>2, <1>3, <1>4, <1>5, Steps

\* The contents of a file that has not been sent, and their beginnings.
LEMMA NothingSent ==
  ASSUME NEW q \in Seq(Lens), Len(q) = 0, NEW s \in Seq(Unit), IsPrefix(s, FileOf(q))
  PROVE  s = << >>
<1>1. Rest(q, 0) = << >>
  <2>1. 0 \in 0 .. Len(q) /\ 0 = Len(q)
    OBVIOUS
  <2> QED BY <2>1, RestAre
<1>2. Len(FileOf(q)) = 0
  BY <1>1, StreamAssumption DEF FileOf
<1>3. Len(s) <= Len(FileOf(q)) /\ Len(s) \in Nat
  BY DEF IsPrefix
<1> QED BY <1>2, <1>3, EmptySeq

LEMMA FileOfIs ==
  ASSUME NEW q \in Seq(Lens)
  PROVE  FileOf(q) \in Seq(Unit) /\ IsPrefix(<< >>, FileOf(q))
<1>1. Rest(q, 0) \in Seq(Unit) /\ N \in Nat
  BY RestAre, StreamAssumption
<1>2. FileOf(q) \in Seq(Unit)
  BY <1>1 DEF FileOf
<1> QED BY <1>2, PrefixOf

\* The file clients: what is written and what is on the way are the contents.
LEMMA ContentsKept == ASSUME Main, Data, Session, Link, Contents, [Next]_vars PROVE Contents'
<1> SUFFICES ASSUME program' = "file" PROVE Contents'
  BY DEF Contents
<1>0. program = "file" /\ ~Recorder /\ 1 \in Videos /\ file[1] \in Seq(Unit)
  <2>1. program' = program
    BY SetupStays
  <2> QED BY <2>1, StreamAssumption DEF Recorder, Videos, Data
<1>a. ASSUME NEW q \in Seq(Lens) PROVE IsPrefix(<< >>, FileOf(q))
  BY <1>a, FileOfIs
<1>1. CASE Elsewhere
  BY <1>1, DataStill DEF Contents, dataVars
<1>2. CASE Create
  BY <1>0, <1>2 DEF Create, MGoto, Session
<1>3. CASE CameraSends
  <2>1. PICK lens \in Lens : sent' = Append(sent, lens) /\ line' = line \o FrameUnits(Len(sent) + 1, lens)
    BY <1>3 DEF CameraSends
  <2>2. sent = << >> /\ linked /\ UNCHANGED << dpc, buf, short, file >>
    <3>1. Len(sent) < 1 /\ linked /\ UNCHANGED << dpc, buf, short, file >>
      BY <1>0, <1>3 DEF CameraSends, dataVars, mainVars
    <3> QED BY <3>1, EmptySeq DEF Data
  <2>3. Len(sent) = 0 /\ 0 \in 0 .. Len(sent)
    BY <2>2
  <2>4. Len(sent') = 1 /\ Rest(sent', 0) = Rest(sent, 0) \o FrameUnits(Len(sent) + 1, lens)
    <3>1. sent \in Seq(Lens)
      BY DEF Data
    <3>2. Len(sent') = Len(sent) + 1 /\ Rest(sent', 0) = Rest(sent, 0) \o FrameUnits(Len(sent) + 1, lens)
      BY <2>1, <2>3, <3>1, RestGrows
    <3> QED BY <2>3, <3>2
  <2>5. dpc = "header" => line' = Rest(sent', 0)
    BY <1>0, <2>1, <2>4 DEF Contents
  <2>6. dpc # "body"
    BY <1>0, <2>3 DEF Contents
  <2>7. dpc = "ended" /\ ~short => IsPrefix(file[1], FileOf(sent'))
    <3>1. sent \in Seq(Lens) /\ sent' \in Seq(Lens)
      BY <2>1 DEF Data
    <3>2. dpc = "ended" /\ ~short => file[1] = << >>
      BY <1>0, <2>3, <3>1, NothingSent DEF Contents
    <3> QED BY <1>a, <3>1, <3>2
  <2> QED BY <1>0, <2>2, <2>4, <2>5, <2>6, <2>7 DEF Contents
<1>4. CASE OpenFiles
  <2>1. dpc = "open" /\ dpc' = "connect" /\ UNCHANGED << sent, buf >>
    BY <1>0, <1>4 DEF OpenFiles, DGoto
  <2>2. file[1] = << >>
    BY <1>0, <2>1 DEF Contents
  <2>3. file'[1] = << >>
    BY <1>0, <1>4, <2>2 DEF OpenFiles
  <2> QED BY <1>0, <2>1, <2>3 DEF Contents
<1>5. CASE Quiet
  <2>1. dpc' # "body" /\ dpc' # "write"
    BY <1>0, <1>5 DEF Quiet, Connect, SemPost, RecvFails, NothingToWrite, Cancelled, DGoto, AfterConnect
  <2>2. UNCHANGED << sent, line >> /\ buf' = << >>
    BY <1>0, <1>5, QuietKeeps DEF Contents
  <2>3. dpc' # "post" /\ (dpc' = "header" => line = << >> /\ sent = << >>)
    BY <1>0, <1>5 DEF Quiet, Connect, SemPost, RecvFails, NothingToWrite, Cancelled, DGoto, AfterConnect, Link, Contents
  <2>4. dpc' = "header" => line' = Rest(sent', 0)
    <3>1. sent = << >> => 0 \in 0 .. Len(sent) /\ 0 = Len(sent)
      OBVIOUS
    <3> QED BY <2>2, <2>3, <3>1, RestAre DEF Data
  <2>5. /\ dpc \in {"none", "open", "connect", "header", "body"} /\ UNCHANGED << file, short >>
        /\ dpc' \in {"none", "open", "connect", "header"} => dpc # "body"
    BY <1>0, <1>5, QuietKeeps DEF Quiet, Connect, SemPost, RecvFails, NothingToWrite, Cancelled, DGoto, Contents
  <2>6. ~short => IsPrefix(file[1], FileOf(sent))
    <3>1. CASE dpc = "body"
      BY <1>0, <3>1, PrefixFirst DEF Contents, Data
    <3>2. CASE dpc # "body"
      <4>1. file[1] = << >>
        BY <1>0, <2>5, <3>2 DEF Contents
      <4> QED BY <1>a, <4>1 DEF Data
    <3> QED BY <3>1, <3>2
  <2> QED BY <1>0, <2>1, <2>2, <2>3, <2>4, <2>5, <2>6 DEF Contents
<1>6. CASE RecvHeader
  <2>1. PICK got : Got(got) /\ HeaderOfFile(got)
    BY <1>0, <1>6, HeaderReads DEF Contents, HeaderWhole, HeaderPart, HeaderLost
  <2>2. line = Rest(sent, 0) /\ dpc = "header" /\ UNCHANGED sent /\ Len(sent) <= 1
    BY <1>0, <1>6, HeaderReads DEF Contents
  <2>3. Len(sent) = 1
    <3>1. CASE Len(sent) = 0
      <4>1. 0 \in 0 .. Len(sent) /\ 0 = Len(sent)
        BY <3>1
      <4>2. line = << >>
        BY <2>2, <4>1, RestAre DEF Data
      <4> QED BY <2>1, <4>2 DEF Got
    <3>2. Len(sent) \in Nat /\ Len(sent) <= 1
      BY <2>2 DEF Data
    <3>3. CASE Len(sent) # 0
      BY <3>2, <3>3
    <3> QED BY <3>1, <3>3
  <2>4. CASE Len(got) = N
    <3>1. got \in Seq(Unit) /\ line' \in Seq(Unit) /\ got \o line' = line
      BY <2>1 DEF Got
    <3>2. line' = SubSeq(line, N + 1, Len(line))
      BY <2>4, <3>1, Suffix
    <3>3. file'[1] = << >> /\ << >> \o line' = line'
      BY <2>1, <3>1, StreamAssumption, ConcatEmptySeq DEF HeaderOfFile, Data, Videos
    <3>4. file'[1] \o line' = SubSeq(Rest(sent', 0), N + 1, Len(Rest(sent', 0)))
      BY <2>2, <3>2, <3>3
    <3>5. file'[1] \o line' = FileOf(sent') /\ IsPrefix(file'[1], FileOf(sent'))
      BY <1>a, <2>2, <3>3, <3>4 DEF FileOf, Data
    <3> QED BY <2>1, <2>2, <2>3, <3>5 DEF Contents, HeaderOfFile
  <2>5. CASE Len(got) # N
    <3>1. short'
      <4>1. Len(got) \in Nat /\ N \in Nat /\ Len(got) <= N /\ short' = (short \/ Len(got) < N)
        BY <2>1, StreamAssumption DEF HeaderOfFile, Got
      <4>2. Len(got) < N
        BY <2>5, <4>1
      <4> QED BY <4>1, <4>2
    <3> QED BY <2>1, <2>2, <2>3, <3>1 DEF Contents, HeaderOfFile
  <2> QED BY <2>4, <2>5
<1>7. CASE RecvFile
  <2>1. PICK got : Got(got) /\ file' = [file EXCEPT ![1] = @ \o got]
    BY <1>7, FileReads
  <2>2. dpc = "body" /\ UNCHANGED << sent, dpc, short, buf >>
    BY <1>7, FileReads
  <2>3. got \in Seq(Unit) /\ line' \in Seq(Unit) /\ got \o line' = line
    BY <2>1 DEF Got
  <2>4. file[1] \in Seq(Unit) /\ file'[1] = file[1] \o got
    BY <2>1, StreamAssumption DEF Data, Videos
  <2>5. Associative(Unit)
    BY Assoc
  <2>6. file'[1] \o line' = file[1] \o line
    <3>1. (file[1] \o got) \o line' = file[1] \o (got \o line')
      BY <2>3, <2>4, <2>5 DEF Associative
    <3> QED BY <2>3, <2>4, <3>1
  <2> QED BY <1>0, <2>2, <2>6 DEF Contents
<1>8. CASE RecvBody \/ WriteSlice \/ WriteFails
  BY <1>0, <1>8 DEF RecvBody, WriteSlice, WriteFails, Contents
<1>9. CASE WriteFileFails
  <2>1. PICK got : /\ Got(got)
                   /\ \E k \in 0 .. Len(got) : file' = [file EXCEPT ![1] = @ \o SubSeq(got, 1, k)]
    BY <1>9, FileLoses
  <2>2. PICK k \in 0 .. Len(got) : file' = [file EXCEPT ![1] = @ \o SubSeq(got, 1, k)]
    BY <2>1
  <2>3. dpc = "body" /\ dpc' = "ended" /\ UNCHANGED << sent, short, buf >>
    BY <1>9, FileLoses
  <2> DEFINE a == SubSeq(got, 1, k)
             b == SubSeq(got, k + 1, Len(got))
             c == file[1]
  <2>4. /\ a \in Seq(Unit) /\ b \in Seq(Unit) /\ a \o b = got
        /\ line' \in Seq(Unit) /\ got \o line' = line
    BY <2>1, Cut DEF Got
  <2>5. c \in Seq(Unit) /\ file'[1] = c \o a
    <3> HIDE DEF a
    <3>1. file' = [file EXCEPT ![1] = @ \o a]
      BY <2>2 DEF a
    <3> QED BY <1>0, <3>1 DEF Data
  <2>6. ~short => c \o line = FileOf(sent)
    BY <1>0, <2>3 DEF Contents
  <2>7. IsPrefix(c \o a, c \o line)
    <3>1. Associative(Unit)
      BY Assoc
    <3> HIDE DEF a, b, c
    <3>2. c \o line = (c \o a) \o (b \o line') /\ c \o a \in Seq(Unit) /\ b \o line' \in Seq(Unit)
      <4>1. b \o line' \in Seq(Unit) /\ c \o a \in Seq(Unit)
        BY <2>4, <2>5, Concat
      <4>2. line = a \o (b \o line')
        BY <2>4, <3>1 DEF Associative
      <4>3. c \o (a \o (b \o line')) = (c \o a) \o (b \o line')
        BY <2>4, <2>5, <3>1, <4>1 DEF Associative
      <4> QED BY <4>1, <4>2, <4>3
    <3> QED BY <3>2, PrefixFirst
  <2> QED BY <1>0, <2>3, <2>5, <2>6, <2>7 DEF Contents
<1> QED BY <1>1, <1>2, <1>3, <1>4, <1>5, <1>6, <1>7, <1>8, <1>9, Steps

\* A whole header is the header of the next frame, and what follows it is its
\* body.
LEMMA NextHeader ==
  ASSUME NEW q \in Seq(Lens), NEW n \in 0 .. Len(q), NEW h \in Seq(Unit), NEW l \in Seq(Unit),
         Len(h) = N, h \o l = Rest(q, n)
  PROVE  /\ n + 1 \in 1 .. Len(q) /\ q[n + 1] \in [Videos -> Nat]
         /\ [v \in Videos |-> h[v][3]] = q[n + 1]
         /\ l = Body(n + 1, q[n + 1]) \o Rest(q, n + 1)
<1>1. n < Len(q)
  <2>1. CASE n = Len(q)
    <3>1. h \o l = << >>
      BY <2>1, RestAre
    <3>2. Len(h \o l) = Len(h) + Len(l) /\ Len(l) \in Nat
      BY Concat
    <3>3. N \in Nat \ {0}
      BY StreamAssumption
    <3> QED BY <3>1, <3>2, <3>3
  <2> QED BY <2>1
<1>2. n + 1 \in 1 .. Len(q) /\ n + 1 \in 0 .. Len(q) /\ n + 1 \in Nat
  BY <1>1
<1>3. q[n + 1] \in [Videos -> Nat]
  BY <1>2, FramesAre
<1> DEFINE lens == q[n + 1]
<1>4. /\ Header(n + 1, lens) \in Seq(Unit) /\ Len(Header(n + 1, lens)) = N
      /\ Body(n + 1, lens) \in Seq(Unit) /\ Rest(q, n + 1) \in Seq(Unit)
  BY <1>2, <1>3, PartsAre, SlicesOfBody, RestAre
<1>5. Body(n + 1, lens) \o Rest(q, n + 1) \in Seq(Unit)
  BY <1>4, Concat
<1>6. h \o l = Header(n + 1, lens) \o (Body(n + 1, lens) \o Rest(q, n + 1))
  BY <1>1, RestAre
<1> DEFINE head == Header(n + 1, lens)
           more == Body(n + 1, lens) \o Rest(q, n + 1)
<1>7. /\ head \in Seq(Unit) /\ more \in Seq(Unit) /\ h \o l = head \o more /\ Len(h) = Len(head)
      /\ Cancels(Unit)
  BY <1>4, <1>5, <1>6, Cancellation
<1>b. h = head /\ l = more
  <2> HIDE DEF head, more
  <2> QED BY <1>7 DEF Cancels
<1>8. h = Header(n + 1, lens) /\ l = Body(n + 1, lens) \o Rest(q, n + 1)
  BY <1>b
<1>9. [v \in Videos |-> h[v][3]] = lens
  <2>1. ASSUME NEW v \in Videos PROVE h[v][3] = lens[v]
    BY <1>8 DEF Header
  <2> QED BY <1>3, <2>1
<1> QED BY <1>2, <1>3, <1>8, <1>9

\* A frame of length zero has no body.
LEMMA BodyEmpty ==
  ASSUME NEW f \in Nat, NEW lens \in [Videos -> Nat], Sum(lens) = 0
  PROVE  Body(f, lens) = << >>
BY SlicesOfBody, EmptySeq

\* Nothing in front of a run.
LEMMA EmptyFirst == \A a \in Seq(Unit) : << >> \o a = a
BY ConcatEmptySeq

\* The buffer and the line always split the stream at a frame: the step that
\* completes a header, or a body, does so wherever recv cut it before.
LEMMA StreamKept ==
  ASSUME Main, Data, Link, Stream, Contents, [Next]_vars, Data'
  PROVE  Stream'
<1> SUFFICES ASSUME program' # "file" PROVE Stream'
  BY DEF Stream
<1>0. program' = program /\ program # "file"
  <2>1. program' = program
    BY SetupStays
  <2> QED BY <2>1
<1>a. /\ sent \in Seq(Lens) /\ frame \in 0 .. Len(sent) /\ Len(sent) \in Nat /\ net_enc \in [Videos -> Nat]
      /\ buf \in Seq(Unit) /\ line \in Seq(Unit) /\ Rest(sent, frame) \in Seq(Unit) /\ Associative(Unit)
  <2>1. sent \in Seq(Lens) /\ frame \in 0 .. Len(sent) /\ Len(sent) \in Nat
    BY <1>0 DEF Data, Stream
  <2>2. Rest(sent, frame) \in Seq(Unit)
    BY <2>1, RestAre
  <2> QED BY <2>1, <2>2, Assoc DEF Data
<1>1. CASE Elsewhere
  <2>1. UNCHANGED << dataVars, sent, line >>
    BY <1>1, DataStill
  <2> QED BY <1>0, <2>1 DEF Stream, dataVars
<1>2. CASE Create
  BY <1>2 DEF Create, Stream
<1>3. CASE CameraSends
  <2>1. PICK lens \in Lens : sent' = Append(sent, lens) /\ line' = line \o FrameUnits(Len(sent) + 1, lens)
    BY <1>3 DEF CameraSends
  <2> DEFINE more == FrameUnits(Len(sent) + 1, lens)
  <2>2. UNCHANGED << dpc, buf, net_enc, slice, frame >>
    BY <1>3 DEF CameraSends, dataVars
  <2>3. Len(sent') = Len(sent) + 1 /\ Rest(sent', frame) = Rest(sent, frame) \o more
    BY <1>a, <2>1, RestGrows
  <2>4. more \in Seq(Unit)
    <3>1. lens \in [Videos -> Nat] /\ Len(sent) + 1 \in Nat
      BY <1>a, StreamAssumption DEF Videos
    <3> QED BY <3>1, FrameUnitsAre
  <2>5. frame > 0 => sent'[frame] = sent[frame]
    BY <1>a, <2>1, AppendProperties
  <2>6. line' = line \o more /\ (buf \o line) \o more = buf \o line'
    <3>1. line' = line \o more
      BY <2>1
    <3> HIDE DEF more
    <3> QED BY <1>a, <2>4, <3>1 DEF Associative
  <2> HIDE DEF more
  <2>7. dpc \in {"post", "header"} => buf \o line' = Rest(sent', frame)
    BY <1>0, <2>3, <2>6 DEF Stream
  <2>8. dpc = "body" => buf \o line' = Body(frame, net_enc) \o Rest(sent', frame)
    <3>1. Body(frame, net_enc) \in Seq(Unit)
      BY <1>a, SlicesOfBody
    <3>2. (Body(frame, net_enc) \o Rest(sent, frame)) \o more = Body(frame, net_enc) \o (Rest(sent, frame) \o more)
      <4> DEFINE b == Body(frame, net_enc)
                 r == Rest(sent, frame)
      <4>1. b \in Seq(Unit) /\ r \in Seq(Unit) /\ more \in Seq(Unit) /\ Associative(Unit)
        BY <1>a, <2>4, <3>1
      <4>2. (b \o r) \o more = b \o (r \o more)
        <5> HIDE DEF b, r
        <5> QED BY ONLY <4>1 DEF Associative
      <4> QED BY <4>2
    <3> QED BY <1>0, <2>3, <2>6, <3>2 DEF Stream
  <2>9. dpc = "write" => line' = Rest(sent', frame)
    BY <1>0, <2>3, <2>6 DEF Stream
  <2>10. frame <= Len(sent')
    BY <1>a, <2>3
  <2> QED BY <1>0, <2>2, <2>5, <2>7, <2>8, <2>9, <2>10 DEF Stream
<1>4. CASE OpenFiles
  BY <1>0, <1>4 DEF OpenFiles, DGoto, Stream
<1>5. CASE Quiet
  <2>1. UNCHANGED << sent, line, frame, net_enc, slice >>
    BY <1>5, QuietKeeps
  <2>2. CASE Connect
    <3>1. /\ dpc' \in {"post", "header"} /\ buf' = << >> /\ line' = << >> /\ sent' = << >> /\ frame' = 0
      BY <2>1, <2>2 DEF Connect, DGoto, AfterConnect, Link
    <3>2. Rest(sent', frame') = << >>
      BY <1>a, <2>1, <3>1, RestAre
    <3>3. buf' \o line' = << >>
      BY <3>1, EmptyFirst, Nothing
    <3>4. Len(buf') < N /\ frame' <= Len(sent')
      BY <3>1, StreamAssumption
    <3>5. dpc' # "body" /\ dpc' # "write"
      BY <3>1
    <3> QED BY <3>2, <3>3, <3>4, <3>5 DEF Stream
  <2>3. CASE SemPost
    BY <1>0, <2>1, <2>3 DEF SemPost, DGoto, Stream
  <2>4. CASE RecvFails \/ Cancelled
    BY <1>0, <2>1, <2>4 DEF RecvFails, Cancelled, Stream
  <2>5. CASE NothingToWrite
    <3>1. dpc = "write" /\ dpc' = "header" /\ buf' = << >>
      BY <2>5 DEF NothingToWrite, DGoto
    <3>2. buf' \o line' = Rest(sent', frame')
      BY <1>0, <1>a, <2>1, <3>1, EmptyFirst DEF Stream
    <3>3. Len(buf') < N
      BY <3>1, StreamAssumption
    <3> QED BY <1>0, <2>1, <3>1, <3>2, <3>3 DEF Stream
  <2> QED BY <1>5, <2>2, <2>3, <2>4, <2>5 DEF Quiet
<1>6. CASE RecvHeader
  <2>1. PICK got : Got(got) /\ (HeaderWhole(got) \/ HeaderPart(got) \/ HeaderLost \/ HeaderOfFile(got))
    BY <1>0, <1>6, HeaderReads
  <2>2. dpc = "header" /\ UNCHANGED sent
    BY <1>0, <1>6, HeaderReads
  <2>3. /\ got \in Seq(Unit) /\ line' \in Seq(Unit) /\ got \o line' = line
    BY <2>1 DEF Got
  <2>4. buf \o got \in Seq(Unit) /\ (buf \o got) \o line' = Rest(sent, frame)
    <3>1. (buf \o got) \o line' = buf \o line
      <4>1. buf \in Seq(Unit) /\ got \in Seq(Unit) /\ line' \in Seq(Unit) /\ got \o line' = line /\ Associative(Unit)
        BY <1>a, <2>3
      <4> QED BY ONLY <4>1 DEF Associative
    <3>2. buf \o line = Rest(sent, frame)
      BY <1>0, <2>2 DEF Stream
    <3>3. buf \o got \in Seq(Unit)
      BY <1>a, <2>3, Concat
    <3> QED BY <3>1, <3>2, <3>3
  <2>5. CASE HeaderWhole(got)
    <3> DEFINE lens == sent[frame + 1]
    <3>1. Len(buf \o got) = N
      BY <2>5 DEF HeaderWhole
    <3>2. /\ frame + 1 \in 1 .. Len(sent) /\ lens \in [Videos -> Nat]
          /\ [v \in Videos |-> (buf \o got)[v][3]] = lens
          /\ line' = Body(frame + 1, lens) \o Rest(sent, frame + 1)
      BY <1>a, <2>3, <2>4, <3>1, NextHeader
    <3>3. net_enc' = lens /\ frame' = frame + 1 /\ buf' = << >> /\ slice' = 1
      BY <2>5, <3>2 DEF HeaderWhole
    <3>4. dpc' = IF Sum(lens) = 0 THEN "write" ELSE "body"
      BY <2>5, <3>3 DEF HeaderWhole
    <3>5. /\ Body(frame + 1, lens) \in Seq(Unit) /\ Sum(lens) \in Nat /\ Rest(sent, frame + 1) \in Seq(Unit)
          /\ (Sum(lens) = 0 => Body(frame + 1, lens) = << >>)
      <4>1. frame + 1 \in Nat /\ frame + 1 \in 0 .. Len(sent)
        BY <1>a, <3>2
      <4> QED BY <1>a, <3>2, <4>1, SlicesOfBody, RestAre, BodyEmpty
    <3>6. slice' \in Videos /\ frame' <= Len(sent') /\ frame' > 0 /\ net_enc' = sent'[frame']
      BY <1>a, <2>2, <3>2, <3>3, StreamAssumption DEF Videos
    <3> HIDE DEF lens
    <3>7. CASE Sum(lens) = 0
      <4>1. dpc' = "write" /\ line' = Rest(sent, frame + 1) /\ buf' = Body(frame + 1, lens)
        BY <3>2, <3>3, <3>4, <3>5, <3>7, EmptyFirst
      <4> QED BY <2>2, <3>3, <3>6, <4>1 DEF Stream
    <3>8. CASE Sum(lens) # 0
      <4>1. dpc' = "body" /\ Len(buf') = 0
        BY <3>3, <3>4, <3>8
      <4>2. Len(buf') < Sum(net_enc')
        BY <3>3, <3>5, <3>8, <4>1
      <4>3. buf' \o line' = Body(frame', net_enc') \o Rest(sent', frame')
        BY <2>2, <2>3, <3>2, <3>3, EmptyFirst
      <4> QED BY <3>3, <3>6, <4>1, <4>2, <4>3 DEF Stream
    <3> QED BY <3>7, <3>8
  <2>6. CASE HeaderPart(got)
    BY <1>0, <2>2, <2>4, <2>6 DEF HeaderPart, Stream
  <2>7. CASE HeaderLost
    BY <1>0, <2>2, <2>7 DEF HeaderLost, Stream
  <2> QED BY <1>0, <2>1, <2>5, <2>6, <2>7 DEF HeaderOfFile
<1>7. CASE RecvBody
  <2>1. PICK got : /\ Got(got) /\ buf' = buf \o got /\ Len(buf') <= Sum(net_enc)
                   /\ dpc' = IF Len(buf') < Sum(net_enc) THEN "body" ELSE "write"
    BY <1>7, BodyReads
  <2>2. dpc = "body" /\ UNCHANGED << sent, net_enc, slice, frame >>
    BY <1>7, BodyReads
  <2>3. got \in Seq(Unit) /\ line' \in Seq(Unit) /\ got \o line' = line
    BY <2>1 DEF Got
  <2> DEFINE body == Body(frame, net_enc)
  <2>4. body \in Seq(Unit) /\ Len(body) = Sum(net_enc) /\ Sum(net_enc) \in Nat
    BY <1>a, SlicesOfBody
  <2>5. buf' \in Seq(Unit) /\ buf' \o line' = body \o Rest(sent, frame)
    <3>1. (buf \o got) \o line' = buf \o (got \o line')
      <4>1. buf \in Seq(Unit) /\ got \in Seq(Unit) /\ line' \in Seq(Unit) /\ Associative(Unit)
        BY <1>a, <2>3
      <4> QED BY ONLY <4>1 DEF Associative
    <3>2. buf \o line = body \o Rest(sent, frame)
      BY <1>0, <2>2 DEF Stream
    <3> QED BY <1>a, <2>1, <2>3, <3>1, <3>2, Concat
  <2>6. frame > 0 /\ net_enc = sent[frame] /\ slice = 1
    BY <1>0, <2>2 DEF Stream
  <2> HIDE DEF body
  <2>7. CASE Len(buf') < Sum(net_enc)
    BY <1>a, <2>1, <2>2, <2>5, <2>6, <2>7 DEF Stream, body
  <2>8. CASE ~(Len(buf') < Sum(net_enc))
    <3>1. dpc' = "write" /\ Len(buf') = Len(body)
      <4>1. Len(buf') \in Nat
        BY <2>5
      <4>2. dpc' = "write"
        BY <2>1, <2>8
      <4>3. Len(buf') <= Sum(net_enc)
        BY <2>1
      <4>4. Len(buf') = Sum(net_enc)
        BY <2>4, <2>8, <4>1, <4>3
      <4> QED BY <2>4, <4>2, <4>4
    <3>2. Cancels(Unit)
      BY Cancellation
    <3>3. buf' = body /\ line' = Rest(sent, frame)
      BY <1>a, <2>3, <2>4, <2>5, <3>1, <3>2 DEF Cancels
    <3>4. slice \in Videos
      BY <1>0, <2>2, StreamAssumption DEF Stream, Videos
    <3> QED BY <1>0, <1>a, <2>2, <2>6, <3>1, <3>3, <3>4 DEF Stream, body
  <2> QED BY <2>7, <2>8
<1>8. CASE RecvFile
  BY <1>0, <1>8 DEF RecvFile
<1>9. CASE WriteSlice
  <2>1. dpc = "write" /\ UNCHANGED << sent, line, frame, net_enc >> /\ slice' = slice + 1
    BY <1>9 DEF WriteSlice
  <2>2. buf' = IF dpc' = "header" THEN << >> ELSE buf
    BY <1>9 DEF WriteSlice
  <2>3. dpc' \in {"header", "ended"} \/ (dpc' = "write" /\ slice # N /\ program # "single")
    BY <1>9 DEF WriteSlice, AfterSlice
  <2>4. line = Rest(sent, frame) /\ buf = Body(frame, net_enc) /\ slice \in Videos /\ frame > 0 /\ net_enc = sent[frame]
    BY <1>0, <2>1 DEF Stream
  <2>5. CASE dpc' = "header"
    <3>1. buf' \o line' = Rest(sent', frame') /\ Len(buf') < N
      BY <1>a, <2>1, <2>2, <2>4, <2>5, EmptyFirst, StreamAssumption
    <3> QED BY <1>a, <2>1, <2>5, <3>1 DEF Stream
  <2>6. CASE dpc' = "ended"
    BY <1>a, <2>1, <2>6 DEF Stream
  <2>7. CASE dpc' = "write" /\ slice # N /\ program # "single"
    <3>1. slice' \in Videos
      BY <2>1, <2>4, <2>7, StreamAssumption DEF Videos
    <3> QED BY <1>0, <1>a, <2>1, <2>2, <2>4, <2>7, <3>1 DEF Stream
  <2> QED BY <2>3, <2>5, <2>6, <2>7
<1>10. CASE WriteFails \/ WriteFileFails
  <2>1. dpc' = "ended" /\ UNCHANGED << frame, sent >>
    BY <1>10 DEF WriteFails, WriteFileFails
  <2> QED BY <1>a, <2>1 DEF Stream
<1> QED BY <1>1, <1>2, <1>3, <1>4, <1>5, <1>6, <1>7, <1>8, <1>9, <1>10, Steps

\* The files hold the frames that were written, up to the slice at hand.
LEMMA FilesKept ==
  ASSUME Main, Data, Link, Stream, Files, Contents, [Next]_vars
  PROVE  Files'
<1> SUFFICES ASSUME program' # "file" PROVE Files'
  BY DEF Files
<1>0. UNCHANGED << program, file_flag >> /\ program # "file"
  <2>1. UNCHANGED << program, file_flag >>
    BY SetupStays
  <2> QED BY <2>1
<1>a. \A v : Kept(v)' <=> Kept(v)
  BY <1>0 DEF Kept, Recorder
<1>b. sent \in Seq(Lens) /\ frame \in 0 .. Len(sent) /\ Len(sent) \in Nat
  BY <1>0 DEF Data, Stream
<1>1. CASE Elsewhere
  <2>1. UNCHANGED << dataVars, sent, line >>
    BY <1>1, DataStill
  <2> QED BY <1>0, <1>a, <2>1 DEF Files, dataVars
<1>2. CASE Create
  BY <1>2 DEF Create, Files
<1>3. CASE CameraSends
  <2>1. PICK lens \in Lens : sent' = Append(sent, lens)
    BY <1>3 DEF CameraSends
  <2>2. UNCHANGED << dpc, slice, frame, file, linked >>
    BY <1>3 DEF CameraSends, dataVars
  <2>3. ASSUME NEW v PROVE VideoOf(sent', v, frame) = VideoOf(sent, v, frame)
    BY <1>b, <2>1, VideoSame
  <2>4. ASSUME NEW v, frame > 0 PROVE VideoOf(sent', v, frame - 1) = VideoOf(sent, v, frame - 1)
    <3>1. frame - 1 \in 0 .. Len(sent)
      BY <1>b, <2>4
    <3> QED BY <1>b, <2>1, <3>1, VideoSame
  <2>5. dpc \in {"body", "write"} => frame > 0
    BY <1>0 DEF Stream
  <2>6. frame > 0 => sent'[frame] = sent[frame]
    BY <1>b, <2>1
  <2>7. linked' => \A v \in Videos :
          \/ ~Kept(v) /\ file[v] = << >>
          \/ file[v] = VideoOf(sent', v, frame)
          \/ frame > 0 /\ file[v] = VideoOf(sent', v, frame - 1)
          \/ /\ dpc = "ended" /\ frame > 0 /\ v = slice
             /\ \E k \in 0 .. sent'[frame][v] :
                  file[v] = VideoOf(sent', v, frame - 1) \o Units(frame, v, k)
    BY <1>0, <2>2, <2>3, <2>4, <2>6 DEF Files
  <2> QED BY <1>0, <1>a, <2>2, <2>3, <2>4, <2>5, <2>7 DEF Files
<1>4. CASE OpenFiles
  <2>1. ~linked' /\ dpc' \in {"connect", "ended"}
    BY <1>4 DEF OpenFiles, DGoto, Link
  <2>2. ASSUME dpc' = "connect", NEW v \in Videos PROVE file'[v] = << >>
    <3>1. Min({N, limit - fds}) = N
      BY <1>0, <1>4, <2>2 DEF OpenFiles, DGoto
    <3>2. v <= N
      BY StreamAssumption DEF Videos
    <3> QED BY <1>0, <1>4, <3>1, <3>2 DEF OpenFiles
  <2> QED BY <2>1, <2>2 DEF Files
<1>5. CASE Quiet
  <2>1. UNCHANGED << sent, frame, slice, file >>
    BY <1>5, QuietKeeps
  <2>2. CASE Connect
    <3>1. dpc = "connect" /\ dpc' \in {"post", "header"} /\ frame = 0
      BY <2>2 DEF Connect, DGoto, AfterConnect, Link
    <3>2. \A v \in Videos : file[v] = << >>
      BY <1>0, <3>1 DEF Files
    <3>3. \A v \in Videos : VideoOf(sent, v, frame) = << >>
      BY <1>b, <3>1, VideoAre
    <3> QED BY <2>1, <3>1, <3>2, <3>3 DEF Files
  <2>3. CASE SemPost
    <3>1. dpc = "post" /\ dpc' = "header" /\ linked' = linked
      BY <2>3 DEF SemPost, DGoto
    <3> QED BY <1>0, <1>a, <2>1, <3>1 DEF Files
  <2>4. CASE RecvFails \/ Cancelled
    <3>1. dpc' = "ended" /\ linked' = linked
      BY <2>4 DEF RecvFails, Cancelled
    <3> QED BY <1>0, <1>a, <2>1, <3>1 DEF Files
  <2>5. CASE NothingToWrite
    <3>1. dpc' = "header" /\ linked' = linked /\ \A v : ~Kept(v)
      BY <2>5 DEF NothingToWrite, DGoto, Kept
    <3> QED BY <1>0, <1>a, <2>1, <3>1 DEF Files
  <2> QED BY <1>5, <2>2, <2>3, <2>4, <2>5 DEF Quiet
<1>6. CASE RecvHeader
  <2>1. PICK got : HeaderWhole(got) \/ HeaderPart(got) \/ HeaderLost \/ HeaderOfFile(got)
    BY <1>0, <1>6, HeaderReads
  <2>2. dpc = "header" /\ UNCHANGED << sent, linked >>
    BY <1>0, <1>6, HeaderReads
  <2>3. file' = file /\ dpc' \notin {"connect", "post"}
    BY <1>0, <2>1 DEF HeaderWhole, HeaderPart, HeaderLost, HeaderOfFile
  <2>4. CASE HeaderWhole(got)
    <3>1. frame' = frame + 1 /\ frame' - 1 = frame /\ frame' > 0 /\ slice' = 1 /\ dpc' \in {"body", "write"}
      BY <1>b, <2>4 DEF HeaderWhole
    <3>2. \A v \in Videos : ~(v < slice')
      BY <3>1, StreamAssumption DEF Videos
    <3> QED BY <1>0, <1>a, <2>2, <2>3, <3>1, <3>2 DEF Files
  <2>5. CASE HeaderPart(got) \/ HeaderLost
    <3>1. frame' = frame /\ dpc' \in {"header", "ended"}
      BY <2>5 DEF HeaderPart, HeaderLost
    <3> QED BY <1>0, <1>a, <2>2, <2>3, <3>1 DEF Files
  <2> QED BY <1>0, <2>1, <2>4, <2>5 DEF HeaderOfFile
<1>7. CASE RecvBody
  <2>1. dpc = "body" /\ dpc' \in {"body", "write"} /\ UNCHANGED << sent, linked, slice, frame, file >>
    BY <1>7, BodyReads
  <2>2. \A v \in Videos : ~(v < slice)
    BY <1>0, <2>1, StreamAssumption DEF Stream, Videos
  <2> QED BY <1>0, <1>a, <2>1, <2>2 DEF Files
<1>8. CASE RecvFile
  BY <1>0, <1>8 DEF RecvFile
<1>9. CASE WriteSlice
  <2>1. dpc = "write" /\ UNCHANGED << sent, frame, linked >> /\ slice' = slice + 1 /\ (Recorder => file_flag)
    BY <1>9 DEF WriteSlice
  <2>2. /\ slice \in Videos /\ frame > 0 /\ net_enc = sent[frame] /\ linked
        /\ program = "single" => slice = 1
    BY <1>0, <2>1 DEF Stream, Link
  <2>3. /\ Slice(slice) = Units(frame, slice, net_enc[slice])
        /\ net_enc[slice] = 0 => Units(frame, slice, net_enc[slice]) = << >>
    BY <2>1, SliceIs
  <2>4. Kept(slice)
    BY <1>0, <2>1, <2>2 DEF Kept, Recorder, Data
  <2>5. /\ VideoOf(sent, slice, frame) = VideoOf(sent, slice, frame - 1) \o Units(frame, slice, net_enc[slice])
        /\ VideoOf(sent, slice, frame - 1) \in Seq(Unit)
    <3>1. frame - 1 \in 0 .. Len(sent)
      BY <1>b, <2>2
    <3> QED BY <1>b, <2>2, <3>1, VideoAre
  <2>6. file[slice] = VideoOf(sent, slice, frame - 1)
    <3>1. ~(slice < slice)
      BY <2>2, StreamAssumption DEF Videos
    <3> QED BY <1>0, <2>1, <2>2, <2>4, <3>1 DEF Files
  <2>7. file'[slice] = VideoOf(sent, slice, frame)
    <3>1. CASE net_enc[slice] = 0
      <4>1. file' = file
        BY <1>9, <3>1 DEF WriteSlice
      <4>2. VideoOf(sent, slice, frame - 1) \o << >> = VideoOf(sent, slice, frame - 1)
        BY <2>5, ConcatEmptySeq
      <4> QED BY <2>3, <2>5, <2>6, <3>1, <4>1, <4>2
    <3>2. CASE net_enc[slice] # 0
      <4>1. file' = [file EXCEPT ![slice] = @ \o Slice(slice)]
        BY <1>9, <3>2 DEF WriteSlice
      <4> QED BY <2>2, <2>3, <2>5, <2>6, <4>1 DEF Data
    <3> QED BY <3>1, <3>2
  <2>8. \A v \in Videos : v # slice => file'[v] = file[v]
    BY <1>9 DEF WriteSlice, Data
  <2>9. dpc' \in {"header", "ended", "write"} /\ (dpc' = "header" => slice = N \/ program = "single")
    BY <1>9 DEF WriteSlice, AfterSlice
  <2>10. ASSUME NEW v \in Videos
         PROVE  /\ ~Kept(v) => file'[v] = << >>
                /\ Kept(v) =>
                     /\ dpc' = "header" => file'[v] = VideoOf(sent, v, frame)
                     /\ dpc' = "write" => file'[v] = VideoOf(sent, v, IF v < slice' THEN frame ELSE frame - 1)
                     /\ file'[v] = VideoOf(sent, v, frame) \/ file'[v] = VideoOf(sent, v, frame - 1)
    <3>0. v \in Nat /\ slice \in Nat /\ N \in Nat /\ v <= N
      BY <2>2, StreamAssumption DEF Videos
    <3>1. CASE v = slice
      <4>1. v < slice'
        BY <2>1, <3>0, <3>1
      <4> QED BY <2>4, <2>7, <3>1, <4>1
    <3>2. CASE v # slice
      <4>1. /\ ~Kept(v) => file[v] = << >>
            /\ Kept(v) => file[v] = VideoOf(sent, v, IF v < slice THEN frame ELSE frame - 1)
        BY <1>0, <2>1, <2>2 DEF Files
      <4>2. (v < slice') <=> (v < slice)
        BY <2>1, <3>0, <3>2
      <4>3. dpc' = "header" /\ Kept(v) => v < slice
        <5>1. program = "single" => ~Recorder
          BY DEF Recorder
        <5> QED BY <2>2, <2>9, <3>0, <3>2, <5>1 DEF Kept
      <4> QED BY <2>8, <3>2, <4>1, <4>2, <4>3
    <3> QED BY <3>1, <3>2
  <2> QED BY <1>a, <2>1, <2>2, <2>9, <2>10 DEF Files
<1>10. CASE WriteFileFails
  BY <1>0, <1>10 DEF WriteFileFails
<1>11. CASE WriteFails
  <2>1. /\ dpc = "write" /\ dpc' = "ended" /\ (Recorder => file_flag)
        /\ UNCHANGED << sent, frame, linked, slice >>
    BY <1>11 DEF WriteFails
  <2>2. PICK k \in 0 .. net_enc[slice] - 1 : file' = [file EXCEPT ![slice] = @ \o SubSeq(Slice(slice), 1, k)]
    BY <1>11 DEF WriteFails
  <2>3. /\ slice \in Videos /\ frame > 0 /\ net_enc = sent[frame] /\ linked
        /\ program = "single" => slice = 1
    BY <1>0, <2>1 DEF Stream, Link
  <2>4. k \in 0 .. sent[frame][slice] /\ SubSeq(Slice(slice), 1, k) = Units(frame, slice, k)
    BY <2>1, <2>3, WrittenPart
  <2>5. Kept(slice)
    BY <1>0, <2>1, <2>3 DEF Kept, Recorder, Data
  <2>6. \A v \in Videos :
          /\ ~Kept(v) => file[v] = << >>
          /\ Kept(v) => file[v] = VideoOf(sent, v, IF v < slice THEN frame ELSE frame - 1)
    BY <1>0, <2>1, <2>3 DEF Files
  <2>7. file[slice] = VideoOf(sent, slice, frame - 1)
    <3>1. ~(slice < slice)
      BY <2>3, StreamAssumption DEF Videos
    <3> QED BY <2>3, <2>5, <2>6, <3>1
  <2>8. file'[slice] = VideoOf(sent, slice, frame - 1) \o Units(frame, slice, k)
    BY <2>2, <2>3, <2>4, <2>7 DEF Data
  <2>9. \A v \in Videos : v # slice => file'[v] = file[v]
    BY <2>2 DEF Data
  <2> QED BY <1>a, <2>1, <2>3, <2>4, <2>5, <2>6, <2>8, <2>9 DEF Files
<1> QED BY <1>1, <1>2, <1>3, <1>4, <1>5, <1>6, <1>7, <1>8, <1>9, <1>10, <1>11, Steps

(***************************************************************************)
(* The photos.                                                             *)
(***************************************************************************)
\* Two runs that are cut at the same place.
LEMMA Cancelling ==
  ASSUME NEW a \in Seq(Unit), NEW b \in Seq(Unit), NEW c \in Seq(Unit), NEW d \in Seq(Unit),
         a \o b = c \o d, Len(a) = Len(c)
  PROVE  a = c /\ b = d
<1>1. Cancels(Unit)
  BY Cancellation
<1> QED BY <1>1 DEF Cancels

\* What is on the way to the main thread is the rest of the reply to its last
\* command, unless a recv of an ack or a head was short.
LEMMA PhotoKept ==
  ASSUME Main, Session, Photo, [Next]_vars
  PROVE  Photo'
<1> SUFFICES ASSUME ~short' PROVE Photo'
  BY DEF Photo
<1>a. /\ count \in Nat /\ ctl \in Seq(Unit) /\ image \in Seq(Unit) /\ len \in Int /\ photo \in Seq(Seq(Unit))
      /\ ImageSize \in Nat \ {0} /\ AckSize \in Nat \ {0} /\ N \in Nat \ {0}
  BY StreamAssumption DEF Main
<1>b. Len(photo) \in Nat
  BY <1>a
<1>1. CASE DataThread \/ CameraSends \/ CameraDies \/ UNCHANGED vars
  <2>1. /\ UNCHANGED << count, ctl, image, len, photo, cut >> /\ mpc' \in {mpc, "exited"}
        /\ ~short /\ (dead' = dead \/ dead = "no")
    BY <1>1, MainStill
  <2> QED BY <2>1 DEF Photo
<1>2. CASE SemWait \/ Cancel \/ Join \/ Create \/ BrokenPipe \/ SaveFails
  <2>1. UNCHANGED << count, ctl, image, len, photo, short, cut, dead >>
    BY <1>2 DEF SemWait, Cancel, Join, Create, BrokenPipe, SaveFails
  <2>2. \/ mpc' = "exited"
        \/ /\ mpc \in {"create", "wait", "command", "cancel", "join"}
           /\ mpc' \in {"create", "wait", "command", "cancel", "join"}
    BY <1>2 DEF SemWait, Cancel, Join, Create, BrokenPipe, SaveFails, MGoto
  <2> QED BY <2>1, <2>2 DEF Photo
<1>3. CASE Command
  <2>1. PICK type \in {1, 3, 4, 8, 9, AutoCommand} :
          /\ ctl' = IF dead = "no" THEN ctl \o Reply(count', type) ELSE ctl
          /\ mpc' = CASE type \in {1, 9} -> "ack" [] type = 8 -> "head"
                      [] type = 4 -> "cancel" [] OTHER -> "command"
    BY <1>3 DEF Command
  <2>2. count' \in Nat /\ image' = << >> /\ len' = 0 /\ photo' = << >> /\ mpc = "command" /\ short' = short
    BY <1>3 DEF Command, Main
  <2>3. ctl = << >>
    BY <2>2 DEF Photo
  <2>4. ctl' \in {Reply(count', type), << >>}
    <3>1. Reply(count', type) \in Seq(Unit)
      BY <2>2, ReplyIs, Nothing DEF Reply
    <3>2. << >> \o Reply(count', type) = Reply(count', type)
      BY <3>1, EmptyFirst
    <3> QED BY <2>1, <2>3, <3>2
  <2>5. Len(photo') = 0
    BY <2>2
  <2>6. CASE type \in {1, 9}
    <3>1. mpc' = "ack" /\ ctl' \in {Units(count', 0, AckSize), << >>}
      BY <2>1, <2>4, <2>6 DEF Reply
    <3> QED BY <1>a, <2>5, <3>1 DEF Photo
  <2>7. CASE type = 8
    <3>1. mpc' = "head" /\ ctl' \in {Units(count', 0, AckSize) \o ImagesAfter(count', 0), << >>}
      <4>1. mpc' = "head"
        BY <2>1, <2>7
      <4>2. Reply(count', type) = Units(count', 0, AckSize) \o ImagesAfter(count', 0)
        BY <2>2, <2>7, ReplyIs
      <4> QED BY <2>4, <4>1, <4>2
    <3> QED BY <1>a, <2>2, <2>5, <3>1 DEF Photo
  <2>8. CASE type \notin {1, 8, 9}
    <3>1. mpc' \in {"cancel", "command"} /\ ctl' = << >>
      BY <2>1, <2>4, <2>8 DEF Reply
    <3> QED BY <1>a, <2>5, <3>1 DEF Photo
  <2> QED BY <2>6, <2>7, <2>8
<1>4. CASE RecvAck
  <2>1. PICK k \in 1 .. Min({AckSize, Len(ctl)}) :
          ctl' = SubSeq(ctl, k + 1, Len(ctl)) /\ short' = (short \/ k < AckSize)
    BY <1>4 DEF RecvAck
  <2>2. /\ mpc \in {"ack", "head"} /\ mpc' = (IF mpc = "ack" THEN "command" ELSE "image")
        /\ UNCHANGED << count, image, len, photo, cut >>
    BY <1>4 DEF RecvAck
  <2>3. /\ k \in Nat \ {0} /\ k <= AckSize /\ k <= Len(ctl)
        /\ SubSeq(ctl, 1, k) \in Seq(Unit) /\ Len(SubSeq(ctl, 1, k)) = k
        /\ ctl' \in Seq(Unit) /\ SubSeq(ctl, 1, k) \o ctl' = ctl
    <3>1. ctl \in Seq(Unit) /\ AckSize \in Int /\ ctl' = SubSeq(ctl, k + 1, Len(ctl))
      BY <1>a, <2>1
    <3> QED BY <3>1, Taken
  <2>4. ~short /\ k = AckSize
    <3>1. ~short /\ ~(k < AckSize)
      BY <2>1
    <3> QED BY <1>a, <2>3, <3>1
  <2>5. ctl # << >>
    BY <2>3
  <2>6. /\ Units(count, 0, AckSize) \in Seq(Unit) /\ Len(Units(count, 0, AckSize)) = AckSize
        /\ ImagesAfter(count, 0) \in Seq(Unit)
    <3>1. 0 \in 0 .. N
      BY <1>a
    <3> QED BY <1>a, <3>1, ReplyIs, ImagesAre
  <2>7. ASSUME NEW r \in Seq(Unit), ctl = Units(count, 0, AckSize) \o r PROVE ctl' = r
    <3>1. Len(SubSeq(ctl, 1, k)) = Len(Units(count, 0, AckSize)) /\ SubSeq(ctl, 1, k) \o ctl' = Units(count, 0, AckSize) \o r
      BY <2>3, <2>4, <2>6, <2>7
    <3> DEFINE a == SubSeq(ctl, 1, k)
               c == Units(count, 0, AckSize)
    <3>2. a \in Seq(Unit) /\ c \in Seq(Unit) /\ ctl' \in Seq(Unit) /\ Len(a) = Len(c) /\ a \o ctl' = c \o r
      BY <2>3, <2>6, <3>1
    <3> HIDE DEF a, c
    <3> QED BY <3>2, Cancelling
  <2>8. CASE mpc = "ack"
    <3>1. ctl = Units(count, 0, AckSize) /\ Units(count, 0, AckSize) \o << >> = Units(count, 0, AckSize)
      BY <2>4, <2>5, <2>6, <2>8, ConcatEmptySeq DEF Photo
    <3>2. ctl' = << >>
      BY <2>7, <3>1, Nothing
    <3> QED BY <2>2, <2>4, <2>8, <3>2 DEF Photo
  <2>9. CASE mpc = "head"
    <3>1. photo = << >> /\ image = << >> /\ len = 0 /\ ctl = Units(count, 0, AckSize) \o ImagesAfter(count, 0)
      BY <2>4, <2>5, <2>9 DEF Photo
    <3>2. ctl' = ImagesAfter(count, 0)
      BY <2>6, <2>7, <3>1
    <3>3. image' \o ctl' = ImagesAfter(count', Len(photo')) /\ Len(photo') = 0 /\ len' = Len(image') /\ len' <= ImageSize
      BY <1>a, <2>2, <2>6, <3>1, <3>2, EmptyFirst
    <3> QED BY <1>a, <2>2, <2>9, <3>3 DEF Photo
  <2> QED BY <2>2, <2>8, <2>9
<1>5. CASE RecvImage
  <2>1. PICK k \in 1 .. Min({ImageSize - len, Len(ctl)}) :
          image' = image \o SubSeq(ctl, 1, k) /\ len' = len + k /\ ctl' = SubSeq(ctl, k + 1, Len(ctl))
    BY <1>5 DEF RecvImage
  <2>2. mpc = "image" /\ UNCHANGED << mpc, count, photo, short, cut, dead >>
    BY <1>5 DEF RecvImage
  <2>3. /\ k \in Nat \ {0} /\ k <= ImageSize - len /\ k <= Len(ctl)
        /\ SubSeq(ctl, 1, k) \in Seq(Unit) /\ Len(SubSeq(ctl, 1, k)) = k
        /\ ctl' \in Seq(Unit) /\ SubSeq(ctl, 1, k) \o ctl' = ctl
    <3>1. ImageSize - len \in Int
      BY <1>a
    <3> QED BY <1>a, <2>1, <3>1, Taken
  <2>4. Len(photo) < N /\ len = Len(image) /\ image \o ctl = ImagesAfter(count, Len(photo))
    <3>1. ctl # << >>
      BY <2>3
    <3> QED BY <2>2, <3>1 DEF Photo
  <2>5. len' = Len(image') /\ len' <= ImageSize
    <3>1. Len(image') = Len(image) + k
      BY <1>a, <2>1, <2>3, Concat
    <3> QED BY <1>a, <2>1, <2>3, <2>4, <3>1
  <2>6. image' \o ctl' = image \o ctl
    <3> DEFINE a == SubSeq(ctl, 1, k)
    <3>1. image \in Seq(Unit) /\ a \in Seq(Unit) /\ ctl' \in Seq(Unit) /\ a \o ctl' = ctl /\ image' = image \o a
          /\ Associative(Unit)
      BY <1>a, <2>1, <2>3, Assoc
    <3> HIDE DEF a
    <3> QED BY <3>1 DEF Associative
  <2> QED BY <2>2, <2>4, <2>5, <2>6 DEF Photo
<1>6. CASE RecvImageFails
  <2>1. /\ mpc = "image" /\ dead' = "closed" /\ len' = len - 1 /\ ctl' = << >>
        /\ UNCHANGED << mpc, count, image, photo, short, cut >>
    BY <1>6 DEF RecvImageFails
  <2>2. len' < ImageSize
    BY <1>a, <2>1 DEF Photo
  <2> QED BY <2>1, <2>2 DEF Photo
<1>7. CASE SaveImage \/ SavePart
  <2>1. /\ mpc = "image" /\ len = ImageSize /\ image' = << >> /\ len' = 0
        /\ mpc' = (IF Len(photo') = N THEN "command" ELSE "image") /\ UNCHANGED << count, ctl, short >>
    BY <1>7 DEF SaveImage, SavePart
  <2>2. PICK k \in 0 .. Len(image) :
          /\ photo' = Append(photo, SubSeq(image, 1, k))
          /\ \/ k = Len(image) /\ cut' = cut
             \/ cut' = cut \cup {Len(photo')}
    <3>1. Len(image) \in Nat /\ SubSeq(image, 1, Len(image)) = image
      BY <1>a, SubSeqFull
    <3>2. CASE SaveImage
      <4>1. photo' = Append(photo, SubSeq(image, 1, Len(image))) /\ cut' = cut
        BY <3>1, <3>2 DEF SaveImage
      <4>2. Len(image) \in 0 .. Len(image)
        BY <3>1
      <4> QED BY <4>1, <4>2
    <3>3. CASE SavePart
      BY <3>1, <3>3 DEF SavePart
    <3> QED BY <1>7, <3>2, <3>3
  <2> DEFINE j == Len(photo)
             part == SubSeq(image, 1, k)
  <2>3. /\ j < N /\ len = Len(image) /\ image \o ctl = ImagesAfter(count, j)
        /\ \A i \in 1 .. j : IsPrefix(photo[i], Image(count, i)) /\ (i \notin cut => photo[i] = Image(count, i))
    BY <1>a, <2>1 DEF Photo
  <2>4. j \in 0 .. N /\ j + 1 \in 0 .. N /\ j + 1 \in Nat
    BY <1>a, <1>b, <2>3
  <2>5. /\ ImagesAfter(count, j) = Image(count, j + 1) \o ImagesAfter(count, j + 1)
        /\ ImagesAfter(count, j + 1) \in Seq(Unit) /\ (j + 1 = N => ImagesAfter(count, j + 1) = << >>)
    BY <1>a, <2>3, <2>4, ImagesAre
  <2>6. Image(count, j + 1) \in Seq(Unit) /\ Len(Image(count, j + 1)) = ImageSize
    BY <1>a, <2>4, UnitsAre DEF Image
  <2>7. image = Image(count, j + 1) /\ ctl = ImagesAfter(count, j + 1)
    <3> DEFINE c == Image(count, j + 1)
               d == ImagesAfter(count, j + 1)
    <3>1. /\ c \in Seq(Unit) /\ d \in Seq(Unit) /\ image \o ctl = c \o d /\ Len(image) = Len(c)
      BY <2>1, <2>3, <2>5, <2>6
    <3>2. image = c /\ ctl = d
      <4> HIDE DEF c, d
      <4> QED BY <1>a, <3>1, Cancelling
    <3> QED BY <3>2
  <2>8. /\ part \in Seq(Unit) /\ IsPrefix(part, Image(count, j + 1))
        /\ k = Len(image) => part = Image(count, j + 1)
    BY <1>a, <2>7, Cut, PrefixOf, SubSeqFull
  <2>9. /\ Len(photo') = j + 1
        /\ \A i \in 1 .. j + 1 :
             IsPrefix(photo'[i], Image(count, i)) /\ (i \notin cut' => photo'[i] = Image(count, i))
    <3> HIDE DEF part
    <3>1. /\ photo' = Append(photo, part)
          /\ Len(photo') = j + 1 /\ photo'[j + 1] = part /\ \A i \in 1 .. j : photo'[i] = photo[i]
      <4>1. photo' = Append(photo, part)
        BY <2>2 DEF part
      <4> QED BY <1>a, <2>8, <4>1, AppendProperties
    <3>2. j + 1 \notin cut' => part = Image(count, j + 1)
      BY <2>2, <2>8, <3>1
    <3>3. cut \subseteq cut'
      BY <2>2
    <3>4. \A i \in 1 .. j + 1 : i = j + 1 \/ i \in 1 .. j
      BY <1>b
    <3> QED BY <2>3, <2>8, <3>1, <3>2, <3>3, <3>4
  <2>10. CASE j + 1 = N
    BY <2>1, <2>4, <2>5, <2>7, <2>9, <2>10 DEF Photo
  <2>11. CASE j + 1 # N
    <3>1. Len(photo') < N /\ mpc' = "image"
      BY <1>a, <1>b, <2>1, <2>3, <2>9, <2>11
    <3>2. image' \o ctl' = ImagesAfter(count', Len(photo')) /\ len' = Len(image') /\ len' <= ImageSize
      BY <1>a, <2>1, <2>5, <2>7, <2>9, EmptyFirst
    <3>3. /\ Len(photo') <= N
          /\ \A i \in 1 .. Len(photo') :
               IsPrefix(photo'[i], Image(count', i)) /\ (i \notin cut' => photo'[i] = Image(count', i))
      BY <1>a, <2>1, <2>4, <2>9
    <3> QED BY <3>1, <3>2, <3>3 DEF Photo
  <2> QED BY <2>10, <2>11
<1> QED BY <1>1, <1>2, <1>3, <1>4, <1>5, <1>6, <1>7 DEF Next, MainThread

(***************************************************************************)
(* The invariant, and what it shows.                                       *)
(***************************************************************************)
IInv == Main /\ Data /\ Session /\ Link /\ Stream /\ Files /\ Contents /\ Photo

\* The invariant holds at first,
LEMMA IInvInit == Init => IInv
<1> SUFFICES ASSUME Init PROVE IInv
  OBVIOUS
<1>0. N \in Nat \ {0} /\ Programs \subseteq {"command", "select", "single", "file"}
  BY StreamAssumption
<1>1. /\ program \in {"command", "select", "single", "file"} /\ mpc \in {"create", "none"} /\ dpc \in {"none", "open"}
      /\ ctl = << >> /\ image = << >> /\ photo = << >> /\ buf = << >> /\ sent = << >> /\ line = << >> /\ dead = "no"
      /\ count = 0 /\ len = 0 /\ short = FALSE /\ sem = 0 /\ linked = FALSE /\ slice = 1 /\ frame = 0
      /\ net_enc = [v \in Videos |-> 0] /\ file = [v \in Videos |-> << >>] /\ file_flag \in BOOLEAN
      /\ program # "command" => mpc = "none"
      /\ dpc = IF program = "command" THEN "none" ELSE "open"
  BY <1>0 DEF Init
<1>2. << >> \in Seq(Unit) /\ << >> \in Seq(Lens) /\ << >> \in Seq(Seq(Unit)) /\ Len(<< >>) = 0
  OBVIOUS
<1>3. Main /\ Data
  <2>1. net_enc \in [Videos -> Nat] /\ file \in [Videos -> Seq(Unit)]
    BY <1>1, <1>2
  <2>2. Main
    <3>1. ctl \in Seq(Unit) /\ image \in Seq(Unit) /\ photo \in Seq(Seq(Unit))
      BY <1>1, <1>2
    <3>2. count \in Nat /\ len \in Int /\ sem \in Nat
      BY <1>1
    <3>3. /\ mpc \in {"none", "create", "wait", "command", "ack", "head", "image", "cancel", "join", "exited"}
          /\ short \in BOOLEAN /\ dead \in {"no", "closed", "reset"}
      BY <1>1
    <3> QED BY <3>1, <3>2, <3>3 DEF Main
  <2>3. buf \in Seq(Unit) /\ sent \in Seq(Lens) /\ line \in Seq(Unit)
    BY <1>1, <1>2
  <2>4. {file_flag, linked} \subseteq BOOLEAN /\ slice \in Nat /\ frame \in Nat
    BY <1>1
  <2> QED BY <1>1, <2>1, <2>2, <2>3, <2>4 DEF Data
<1>4. Session /\ Link
  BY <1>1 DEF Session, Link
<1>5. Stream /\ Files
  BY <1>1, <1>2 DEF Stream, Files
<1>7. Contents
  <2>1. 1 \in Videos /\ file[1] = << >>
    BY <1>0, <1>1 DEF Videos
  <2>2. program = "file" => dpc = "open"
    BY <1>1
  <2> QED BY <1>1, <2>1, <2>2 DEF Contents
<1>6. Photo
  BY <1>0, <1>1 DEF Photo
<1> QED BY <1>3, <1>4, <1>5, <1>6, <1>7 DEF IInv

\* each step keeps it,
LEMMA IInvKept == IInv /\ [Next]_vars => IInv'
<1> SUFFICES ASSUME Main, Data, Session, Link, Stream, Files, Contents, Photo, [Next]_vars PROVE IInv'
  BY DEF IInv
<1>1. Main'
  BY MainKept
<1>2. Data'
  BY DataKept
<1>3. Session'
  BY SessionKept
<1>4. Link'
  BY LinkKept
<1>5. Stream'
  BY <1>2, StreamKept
<1>6. Files'
  BY FilesKept
<1>7. Contents'
  BY ContentsKept
<1>8. Photo'
  BY PhotoKept
<1> QED BY <1>1, <1>2, <1>3, <1>4, <1>5, <1>6, <1>7, <1>8 DEF IInv

\* and so it always holds.
LEMMA IInvAlways == Spec => []IInv
BY IInvInit, IInvKept, PTL DEF Spec

\* No command is sent before the data connection of its session stands: the
\* post of data_pthread that sem_wait takes is one of this session, for any
\* number of sessions and commands.
THEOREM CommandsConnected == Spec => []CommandsAfterConnect
<1>1. IInv => CommandsAfterConnect
  BY DEF IInv, Session, CommandsAfterConnect
<1> QED BY <1>1, IInvAlways, PTL

\* However recv cuts the stream, the file of each video holds the units of that
\* video, in order, of the whole frames written so far, and the files of one
\* recording end within a frame of each other: for any number of videos, any
\* lengths and any number of frames.  Where a write failed, the part it stored is
\* the end of its file.
THEOREM FilesOfRecording == Spec => []FilesHoldStream
<1>1. ASSUME IInv PROVE FilesHoldStream
  <2> SUFFICES ASSUME linked, program # "file", NEW v \in Videos
               PROVE  \/ Recorder /\ ~file_flag /\ file[v] = << >>
                      \/ program = "single" /\ v > 1 /\ file[v] = << >>
                      \/ file[v] = Video(v, frame)
                      \/ file[v] = Video(v, frame - 1) /\ dpc # "header"
                      \/ /\ dpc = "ended" /\ v = slice
                         /\ \E k \in 0 .. sent[frame][v] : file[v] = Video(v, frame - 1) \o Units(frame, v, k)
    BY DEF FilesHoldStream
  <2>1. Data /\ Files
    BY <1>1 DEF IInv
  <2>2. CASE ~Kept(v)
    <3>1. file[v] = << >>
      BY <2>1, <2>2 DEF Files
    <3>2. Recorder \/ program = "single"
      BY <2>1 DEF Recorder, Data
    <3>3. v # 1 => v > 1
      BY StreamAssumption DEF Videos
    <3> QED BY <2>2, <3>1, <3>2, <3>3 DEF Kept
  <2>3. CASE Kept(v)
    <3>1. \A n : Video(v, n) = VideoOf(sent, v, n)
      BY DEF Video, VideoOf
    <3> QED BY <2>1, <2>3, <3>1 DEF Files
  <2> QED BY <2>2, <2>3
<1> QED BY <1>1, IInvAlways, PTL

\* A file client that got the header in one recv writes what the server sent
\* after it, in order, and leaves the beginning of it when something fails.
THEOREM FileOfServer == Spec => []FileHoldsContents
<1>1. ASSUME IInv PROVE FileHoldsContents
  <2>1. Whole = Rest(sent, 0)
    <3>1. Frames(sent) \in Seq(Seq(Unit)) /\ Len(Frames(sent)) = Len(sent)
      BY <1>1, FramesAre DEF IInv, Data
    <3>2. SubSeq(Frames(sent), 0 + 1, Len(sent)) = Frames(sent)
      BY <3>1, SubSeqFull
    <3> QED BY <3>2 DEF Whole, Rest, Frames
  <2>2. FileSent = FileOf(sent)
    BY <2>1 DEF FileSent, FileOf, HeaderSize
  <2> QED BY <1>1, <2>2 DEF IInv, Contents, FileHoldsContents
<1> QED BY <1>1, IInvAlways, PTL

\* The images stored for a photo are those sent for this command, whole and in
\* order, unless a recv of an ack or a head was short; a failed write cuts off the
\* end of its own image.
THEOREM PhotosOfCommand == Spec => []PhotosHoldImages
<1>1. IInv => PhotosHoldImages
  BY DEF IInv, Photo, PhotosHoldImages
<1> QED BY <1>1, IInvAlways, PTL
=============================================================================
