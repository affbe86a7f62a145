----------------------------- MODULE RadixProofs -----------------------------
(***************************************************************************)
(* Theorems of Radix.  The tree is sound at every step of the walk and of  *)
(* insert (TreeIsSpelled), one lemma for each way insert goes, and loses   *)
(* no route (TreeIsSound); the map of the static patterns holds the last   *)
(* file of each (LastAnswers); and what Lookup finds has the letters of    *)
(* the path (EveryPathIsSpelled), by induction on how deep the calls of    *)
(* search are nested: every call answers for the text of its node and what *)
(* is left of the path.  There is one such search and it ends              *)
(* (SearchEnds), by a measure of the work a call has before it.  The       *)
(* same induction shows where in the path the values come from, and so     *)
(* that a path is matched segment by segment (LookupIsSound).              *)
(* The first sections hold the facts about sequences, texts and patterns   *)
(* that the rest cites.                                                    *)
(***************************************************************************)
EXTENDS Radix, WellFoundedInduction, TLAPS

-----------------------------------------------------------------------------
(* Induction and recursion.  The theorems of the library that take an      *)
(* operator are out of the provers' reach; these take sets and functions.  *)

\* A set of natural numbers that is not empty has a least element.
LEMMA Least ==
  ASSUME NEW T \in SUBSET Nat, T # {}
  PROVE  \E x \in T : \A y \in T : x <= y
<1> DEFINE R == OpToRel(<, Nat)
<1>1. IsWellFoundedOn(R, Nat)
  BY ONLY NatLessThanWellFounded
<1>2. PICK x \in T : \A y \in T : ~(<<y, x>> \in R)
  <2> HIDE DEF R
  <2> QED BY <1>1, WFMin
<1>3. \A y \in T : ~(y < x)
  BY <1>2 DEF OpToRel
<1>4. \A y \in T : x <= y
  BY ONLY <1>3, T \in SUBSET Nat, x \in T
<1> QED BY <1>4

\* A set of natural numbers that has 0 and with n also n + 1 has them all.
LEMMA Induction ==
  ASSUME NEW T \in SUBSET Nat, 0 \in T, \A n \in Nat : n \in T => n + 1 \in T
  PROVE  T = Nat
<1> SUFFICES ASSUME Nat \ T # {} PROVE FALSE
  OBVIOUS
<1>1. PICK x \in Nat \ T : \A y \in Nat \ T : x <= y
  BY Least
<1>2. x # 0 /\ x - 1 \in Nat /\ x - 1 \in T
  BY <1>1
<1> QED BY <1>1, <1>2

\* A function on 0 .. m that begins with t and goes on as step says.
Iterated(T, t, m, step) ==
  \E f \in [0 .. m -> T] : f[0] = t /\ \A i \in 1 .. m : f[i] = step[<<i, f[i - 1]>>]

\* Such a function exists, when a step leads from T to T.
LEMMA Recursion ==
  ASSUME NEW T, NEW t \in T, NEW m \in Nat, NEW step \in [(1 .. m) \X T -> T]
  PROVE  Iterated(T, t, m, step)
<1> DEFINE Good(n) == n <= m => \E f \in [0 .. n -> T] : /\ f[0] = t
                                  /\ \A i \in 1 .. n : f[i] = step[<<i, f[i - 1]>>]
           S == {n \in Nat : Good(n)}
<1>1. Good(0)
  <2> DEFINE f == [i \in 0 .. 0 |-> t]
  <2>1. f \in [0 .. 0 -> T] /\ f[0] = t /\ \A i \in 1 .. 0 : f[i] = step[<<i, f[i - 1]>>]
    OBVIOUS
  <2> QED BY <2>1
<1>2. ASSUME NEW n \in Nat, Good(n) PROVE Good(n + 1)
  <2> SUFFICES ASSUME n + 1 <= m PROVE \E f \in [0 .. n + 1 -> T] : /\ f[0] = t
                                  /\ \A i \in 1 .. n + 1 : f[i] = step[<<i, f[i - 1]>>]
    OBVIOUS
  <2>1. PICK f \in [0 .. n -> T] : /\ f[0] = t
                                  /\ \A i \in 1 .. n : f[i] = step[<<i, f[i - 1]>>]
    BY <1>2
  <2> DEFINE g == [i \in 0 .. n + 1 |-> IF i = n + 1 THEN step[<<n + 1, f[n]>>] ELSE f[i]]
  <2>2. g \in [0 .. n + 1 -> T]
    OBVIOUS
  <2>3. g[0] = t
    BY <2>1
  <2>4. ASSUME NEW i \in 1 .. n + 1 PROVE g[i] = step[<<i, g[i - 1]>>]
    <3>1. CASE i = n + 1
      <4>1. i - 1 = n /\ i - 1 # n + 1
        BY <3>1
      <4>2. g[n + 1] = step[<<n + 1, f[n]>>] /\ g[n] = f[n]
        OBVIOUS
      <4> HIDE DEF g
      <4> QED BY <3>1, <4>1, <4>2
    <3>2. CASE i # n + 1
      <4>1. i \in 1 .. n /\ i - 1 \in 0 .. n /\ i - 1 # n + 1
        BY <3>2
      <4>2. g[i] = f[i] /\ g[i - 1] = f[i - 1]
        BY <4>1, <3>2
      <4> HIDE DEF g
      <4> QED BY <2>1, <4>1, <4>2
    <3> QED BY <3>1, <3>2
  <2> HIDE DEF g
  <2> QED BY <2>2, <2>3, <2>4
<1> HIDE DEF Good
<1>3. S \in SUBSET Nat /\ 0 \in S /\ \A n \in Nat : n \in S => n + 1 \in S
  BY <1>1, <1>2
<1>4. Good(m)
  <2> HIDE DEF S
  <2>1. S = Nat
    BY <1>3, Induction
  <2>2. m \in S
    BY <2>1
  <2> USE DEF S
  <2> QED BY <2>2
<1> QED BY <1>4 DEF Good, Iterated

-----------------------------------------------------------------------------
(* Sequences                                                               *)

\* The elements of a sequence.
LEMMA ConcatAssoc ==
  ASSUME NEW E, NEW s \in Seq(E), NEW t \in Seq(E), NEW u \in Seq(E)
  PROVE  s \o (t \o u) = (s \o t) \o u
OBVIOUS

LEMMA ItemOf == ASSUME NEW S, NEW s \in Seq(S), NEW i \in 1 .. Len(s) PROVE s[i] \in S
OBVIOUS

\* A sequence with nothing behind its head is its head alone.
LEMMA Alone ==
  ASSUME NEW E, NEW s \in Seq(E), s # <<>>, Tail(s) = <<>>
  PROVE  s = << Head(s) >>
<1>1. s = << Head(s) >> \o Tail(s) /\ << Head(s) >> \in Seq(E)
  OBVIOUS
<1>2. << Head(s) >> \o <<>> = << Head(s) >>
  BY <1>1
<1> QED BY <1>1, <1>2

\* What FlattenSeq computes: any accumulation of the parts ends in it.
LEMMA Flat ==
  ASSUME NEW E, NEW s \in Seq(Seq(E))
  PROVE  /\ \E f \in [0 .. Len(s) -> Seq(E)] :
              f[0] = <<>> /\ \A i \in 1 .. Len(s) : f[i] = f[i - 1] \o s[i]
         /\ \A f \in [0 .. Len(s) -> Seq(E)] :
              f[0] = <<>> /\ (\A i \in 1 .. Len(s) : f[i] = f[i - 1] \o s[i])
              => FlattenSeq(s) = f[Len(s)]
<1> DEFINE m == Len(s)
<1>0. m \in Nat /\ \A i \in 1 .. m : s[i] \in Seq(E)
  OBVIOUS
<1>1. \E f \in [0 .. m -> Seq(E)] :
         f[0] = <<>> /\ \A i \in 1 .. m : f[i] = f[i - 1] \o s[i]
  <2> DEFINE step == [x \in (1 .. m) \X Seq(E) |-> x[2] \o s[x[1]]]
  <2>1. step \in [(1 .. m) \X Seq(E) -> Seq(E)]
    BY <1>0
  <2>2. <<>> \in Seq(E)
    OBVIOUS
  <2>3. \A i \in 1 .. m, t \in Seq(E) : step[<<i, t>>] = t \o s[i]
    OBVIOUS
  <2>4. PICK f \in [0 .. m -> Seq(E)] :
          f[0] = <<>> /\ \A i \in 1 .. m : f[i] = step[<<i, f[i - 1]>>]
    <3> DEFINE T == Seq(E)
               t == <<>>
    <3>1. step \in [(1 .. m) \X T -> T] /\ t \in T /\ m \in Nat
      BY <2>1, <2>2, <1>0
    <3>2. \E f \in [0 .. m -> T] : f[0] = t /\ \A i \in 1 .. m : f[i] = step[<<i, f[i - 1]>>]
      <4> HIDE DEF T, t, step, m
      <4>1. Iterated(T, t, m, step)
        BY <3>1, Recursion
      <4> QED BY <4>1 DEF Iterated
    <3> QED BY <3>2
  <2> HIDE DEF step, m
  <2>5. \A i \in 1 .. m : f[i - 1] \in Seq(E)
    BY <1>0
  <2>6. \A i \in 1 .. m : f[i] = f[i - 1] \o s[i]
    BY <2>3, <2>4, <2>5
  <2> QED BY <2>4, <2>6
<1>2. ASSUME NEW f \in [0 .. m -> Seq(E)], f[0] = <<>>,
             \A i \in 1 .. m : f[i] = f[i - 1] \o s[i]
      PROVE  FlattenSeq(s) = f[m]
  <2>1. CASE m = 0
    <3>1. s = <<>>
      BY <2>1
    <3> QED BY <3>1, <2>1, <1>2 DEF FlattenSeq
  <2>2. CASE m # 0
    <3> DEFINE Flattens(g) == g = [i \in 1 .. m |-> IF i = 1 THEN s[i] ELSE g[i - 1] \o s[i]]
               h == [i \in 1 .. m |-> f[i]]
               c == CHOOSE g : Flattens(g)
    <3>1. Flattens(h)
      <4>1. ASSUME NEW i \in 1 .. m PROVE f[i] = IF i = 1 THEN s[i] ELSE h[i - 1] \o s[i]
        <5>1. CASE i = 1
          <6>1. 1 \in 1 .. m /\ 1 - 1 = 0
            BY <5>1, <1>0
          <6>3. f[1] = f[0] \o s[1]
            BY <6>1, <1>2
          <6>2. s[1] \in Seq(E) /\ f[0] = <<>>
            BY <5>1, <1>0, <1>2
          <6> QED BY <5>1, <6>3, <6>2
        <5>2. CASE i # 1
          <6>1. i - 1 \in 1 .. m
            BY <1>0, <5>2
          <6> QED BY <6>1, <5>2, <1>2
        <5> QED BY <5>1, <5>2
      <4> HIDE DEF m
      <4> QED BY <4>1
    <3>2. Flattens(c)
      <4> HIDE DEF h, Flattens
      <4> QED BY <3>1
    <3>3. \A i \in 1 .. m : c[i] = IF i = 1 THEN s[i] ELSE c[i - 1] \o s[i]
      <4> HIDE DEF c
      <4> QED BY <3>2
    <3> DEFINE T == {n \in Nat : n + 1 <= m => c[n + 1] = f[n + 1]}
    <3>4. T = Nat
      <4> HIDE DEF c
      <4>1. 0 \in T
        <5> HIDE DEF m
        <5>1. 1 \in 1 .. m /\ 1 - 1 = 0
          BY <2>2, <1>0
        <5>2. c[1] = s[1]
          BY <3>3, <5>1
        <5>3. f[1] = f[0] \o s[1] /\ s[1] \in Seq(E)
          BY <5>1, <1>2, <1>0
        <5>4. c[1] = f[1]
          BY <5>2, <5>3, <1>2
        <5> QED BY <5>4
      <4>2. ASSUME NEW n \in Nat, n \in T PROVE n + 1 \in T
        <5> SUFFICES ASSUME n + 2 <= m PROVE c[n + 2] = f[n + 2]
          BY <1>0
        <5>1. n + 2 \in 1 .. m /\ n + 2 # 1 /\ n + 2 - 1 = n + 1 /\ n + 1 <= m
          BY <1>0
        <5>2. c[n + 1] = f[n + 1]
          BY <4>2, <5>1
        <5> DEFINE k == n + 2
        <5>3. k \in 1 .. m /\ k # 1 /\ k - 1 = n + 1
          BY <5>1
        <5>4. c[k] = c[n + 1] \o s[k]
          <6> HIDE DEF k, m
          <6> QED BY <3>3, <5>3
        <5>5. f[k] = f[n + 1] \o s[k]
          <6> HIDE DEF k, m
          <6> QED BY <1>2, <5>3
        <5> QED BY <5>2, <5>4, <5>5
      <4>3. T \in SUBSET Nat
        OBVIOUS
      <4> HIDE DEF T
      <4> QED BY <4>1, <4>2, <4>3, Induction
    <3>5. m - 1 \in T /\ m - 1 + 1 = m
      <4> HIDE DEF T
      <4> QED BY <3>4, <2>2, <1>0
    <3>6. c[m] = f[m]
      BY <3>5, <1>0
    <3>7. FlattenSeq(s) = c[m]
      BY <2>2 DEF FlattenSeq
    <3> QED BY <3>6, <3>7
  <2> QED BY <2>1, <2>2
<1> QED BY <1>1, <1>2

\* FlattenSeq of sequences over E is one over E.
LEMMA FlatType ==
  ASSUME NEW E, NEW s \in Seq(Seq(E))
  PROVE  FlattenSeq(s) \in Seq(E)
<1>1. PICK f \in [0 .. Len(s) -> Seq(E)] :
         f[0] = <<>> /\ \A i \in 1 .. Len(s) : f[i] = f[i - 1] \o s[i]
  BY Flat
<1>2. FlattenSeq(s) = f[Len(s)]
  BY Flat, <1>1
<1>3. Len(s) \in 0 .. Len(s)
  OBVIOUS
<1> QED BY <1>2, <1>3

\* FlattenSeq takes a concatenation to a concatenation.
LEMMA FlatConcat ==
  ASSUME NEW E, NEW s \in Seq(Seq(E)), NEW t \in Seq(Seq(E))
  PROVE  FlattenSeq(s \o t) = FlattenSeq(s) \o FlattenSeq(t)
<1> DEFINE m == Len(s)
           n == Len(t)
           u == s \o t
<1>0. m \in Nat /\ n \in Nat /\ u \in Seq(Seq(E)) /\ Len(u) = m + n
      /\ (\A i \in 1 .. m : u[i] = s[i] /\ s[i] \in Seq(E))
      /\ (\A i \in 1 .. n : u[m + i] = t[i] /\ t[i] \in Seq(E))
  OBVIOUS
<1>1. PICK f \in [0 .. m -> Seq(E)] :
         f[0] = <<>> /\ \A i \in 1 .. m : f[i] = f[i - 1] \o s[i]
  BY Flat
<1>2. PICK g \in [0 .. n -> Seq(E)] :
         g[0] = <<>> /\ \A i \in 1 .. n : g[i] = g[i - 1] \o t[i]
  BY Flat
<1>3. FlattenSeq(s) = f[m] /\ FlattenSeq(t) = g[n]
  BY Flat, <1>1, <1>2
<1> HIDE DEF m, n, u
<1> DEFINE h == [i \in 0 .. m + n |-> IF i <= m THEN f[i] ELSE f[m] \o g[i - m]]
<1>8. \A i \in 0 .. m + n : h[i] = IF i <= m THEN f[i] ELSE f[m] \o g[i - m]
  OBVIOUS
<1>4. h \in [0 .. m + n -> Seq(E)] /\ h[0] = <<>>
  <2>1. \A i \in 0 .. m + n : i <= m => f[i] \in Seq(E)
    BY <1>0
  <2>2. \A i \in 0 .. m + n : ~(i <= m) => i - m \in 0 .. n
    BY <1>0
  <2>3. f[m] \in Seq(E)
    BY <1>0
  <2>4. \A i \in 0 .. m + n : ~(i <= m) => f[m] \o g[i - m] \in Seq(E)
    BY <2>2, <2>3
  <2> QED BY <2>1, <2>4, <1>1, <1>0
<1>5. ASSUME NEW i \in 1 .. m + n PROVE h[i] = h[i - 1] \o u[i]
  <2>1. CASE i <= m
    <3>1. i \in 1 .. m /\ i - 1 \in 0 .. m + n /\ i - 1 <= m
      BY <2>1, <1>0
    <3>2. h[i] = f[i] /\ h[i - 1] = f[i - 1]
      BY <3>1
    <3> HIDE DEF h
    <3> QED BY <3>1, <3>2, <1>1, <1>0
  <2>2. CASE i = m + 1
    <3>1. 1 \in 1 .. n /\ ~(i <= m) /\ i - m = 1 /\ i - 1 = m /\ m \in 0 .. m + n /\ m <= m
      BY <2>2, <1>0
    <3> HIDE DEF h
    <3>0. i \in 0 .. m + n
      BY <1>0
    <3>2. h[i] = f[m] \o g[i - m]
      BY <3>0, <3>1, <1>8
    <3>7. h[m] = f[m]
      BY <3>1, <1>8
    <3>5. 1 - 1 = 0
      OBVIOUS
    <3>6. g[1] = g[0] \o t[1]
      BY <3>1, <3>5, <1>2
    <3>3. g[1] = g[0] \o t[1] /\ t[1] \in Seq(E) /\ g[0] = <<>> /\ u[m + 1] = t[1]
      BY <3>1, <3>6, <1>2, <1>0
    <3>4. g[1] = t[1]
      BY <3>3
    <3> HIDE DEF h
    <3> QED BY <3>1, <3>2, <3>7, <3>4, <3>3, <2>2
  <2>3. CASE i > m + 1
    <3> DEFINE j == i - m
    <3>1. j \in 1 .. n /\ j - 1 \in 0 .. n /\ ~(i <= m) /\ ~(i - 1 <= m)
          /\ i - 1 - m = j - 1 /\ i - 1 \in 0 .. m + n /\ m + j = i
      BY <2>3, <1>0
    <3> HIDE DEF h
    <3>0. i \in 0 .. m + n
      BY <1>0
    <3>2. h[i] = f[m] \o g[i - m] /\ h[i - 1] = f[m] \o g[i - 1 - m]
      BY <3>0, <3>1, <1>8
    <3>7. h[i] = f[m] \o g[j] /\ h[i - 1] = f[m] \o g[j - 1]
      BY <3>1, <3>2
    <3> HIDE DEF j
    <3>5. g[j] = g[j - 1] \o t[j]
      BY <3>1, <1>2
    <3>9. t[j] \in Seq(E) /\ m \in 0 .. m
      BY <3>1, <1>0
    <3>6. t[j] \in Seq(E) /\ g[j - 1] \in Seq(E) /\ f[m] \in Seq(E)
      BY ONLY <3>1, <3>9, g \in [0 .. n -> Seq(E)], f \in [0 .. m -> Seq(E)]
    <3>8. u[m + j] = t[j]
      BY <3>1, <1>0
    <3>3. g[j] = g[j - 1] \o t[j] /\ t[j] \in Seq(E) /\ g[j - 1] \in Seq(E)
          /\ f[m] \in Seq(E) /\ u[i] = t[j]
      BY <3>1, <3>5, <3>6, <3>8
    <3>4. f[m] \o (g[j - 1] \o t[j]) = (f[m] \o g[j - 1]) \o t[j]
      <4> DEFINE a == f[m]
                 b == g[j - 1]
                 c == t[j]
      <4>1. a \in Seq(E) /\ b \in Seq(E) /\ c \in Seq(E)
        BY <3>6
      <4> HIDE DEF a, b, c
      <4>2. a \o (b \o c) = (a \o b) \o c
        BY <4>1, ConcatAssoc
      <4> QED BY <4>2 DEF a, b, c
    <3> DEFINE a == f[m]
               b == g[j - 1]
               c == t[j]
    <3>10. h[i] = a \o (b \o c) /\ h[i - 1] = a \o b /\ u[i] = c
      BY <3>7, <3>3
    <3>11. a \o (b \o c) = (a \o b) \o c
      BY <3>4
    <3> HIDE DEF a, b, c
    <3> QED BY <3>10, <3>11
  <2>4. i <= m \/ i = m + 1 \/ i > m + 1
    BY <1>0
  <2> HIDE DEF h
  <2> QED BY <2>1, <2>2, <2>3, <2>4
<1>6. h[m + n] = f[m] \o g[n]
  <2>1. CASE n = 0
    <3>1. h[m + n] = f[m] /\ g[n] = <<>> /\ f[m] \in Seq(E)
      BY <2>1, <1>0, <1>2
    <3> HIDE DEF h
    <3> QED BY <3>1
  <2>2. CASE n # 0
    <3>1. m + n \in 0 .. m + n /\ ~(m + n <= m) /\ m + n - m = n
      BY <2>2, <1>0
    <3> HIDE DEF h
    <3> DEFINE k == m + n
    <3>3. k \in 0 .. m + n /\ ~(k <= m) /\ k - m = n
      BY <2>2, <1>0
    <3>2. h[k] = f[m] \o g[k - m]
      <4> HIDE DEF k
      <4> QED BY <3>3, <1>8
    <3> QED BY <3>3, <3>2
  <2> QED BY <2>1, <2>2
<1>7. FlattenSeq(u) = h[m + n]
  <2> HIDE DEF h
  <2>1. h \in [0 .. Len(u) -> Seq(E)] /\ \A i \in 1 .. Len(u) : h[i] = h[i - 1] \o u[i]
    BY <1>0, <1>4, <1>5
  <2>2. FlattenSeq(u) = h[Len(u)]
    BY <2>1, <1>4, <1>0, Flat
  <2> QED BY <2>2, <1>0
<1> QED BY <1>3, <1>6, <1>7 DEF u

\* FlattenSeq undoes the cut into single elements.
LEMMA FlatSingles ==
  ASSUME NEW E, NEW s \in Seq(E)
  PROVE  FlattenSeq([i \in DOMAIN s |-> << s[i] >>]) = s
<1> DEFINE t == [i \in DOMAIN s |-> << s[i] >>]
           f == [i \in 0 .. Len(s) |-> SubSeq(s, 1, i)]
<1>0. DOMAIN s = 1 .. Len(s) /\ Len(s) \in Nat
  OBVIOUS
<1>1. t \in Seq(Seq(E)) /\ Len(t) = Len(s) /\ \A i \in 1 .. Len(s) : t[i] = << s[i] >>
  <2>1. \A i \in 1 .. Len(s) : << s[i] >> \in Seq(E)
    OBVIOUS
  <2>2. t \in [1 .. Len(s) -> Seq(E)]
    BY <2>1, <1>0
  <2>3. t \in Seq(Seq(E)) /\ DOMAIN t = 1 .. Len(s)
    <3> HIDE DEF t
    <3> QED BY <2>2, <1>0
  <2>4. Len(t) = Len(s)
    <3> HIDE DEF t
    <3> QED BY <2>3, <1>0
  <2> QED BY <2>3, <2>4, <1>0
<1>2. f \in [0 .. Len(t) -> Seq(E)] /\ f[0] = <<>> /\ f[Len(s)] = s
  BY <1>1
<1>3. ASSUME NEW i \in 1 .. Len(t) PROVE f[i] = f[i - 1] \o t[i]
  <2>1. i \in 1 .. Len(s) /\ i - 1 \in 0 .. Len(s) /\ i \in 0 .. Len(s)
    BY <1>1
  <2>2. SubSeq(s, 1, i) = SubSeq(s, 1, i - 1) \o << s[i] >>
    BY <2>1
  <2> QED BY <1>1, <2>1, <2>2
<1> HIDE DEF t, f
<1>4. FlattenSeq(t) = f[Len(t)]
  BY <1>1, <1>2, <1>3, Flat
<1> QED BY <1>4, <1>2, <1>1 DEF t
-----------------------------------------------------------------------------
(* Texts put together sign by sign: Letters and Spelled                    *)

\* Two sequences with the same elements are the same.
LEMMA SameItems ==
  ASSUME NEW E, NEW s \in Seq(E), NEW t \in Seq(E), Len(s) = Len(t),
         \A i \in 1 .. Len(s) : s[i] = t[i]
  PROVE  s = t
OBVIOUS

\* A function on 1 .. n with values in E is a sequence over E.
LEMMA SeqOfItems ==
  ASSUME NEW E, NEW n \in Nat, NEW s, s = [i \in 1 .. n |-> s[i]], \A i \in 1 .. n : s[i] \in E
  PROVE  s \in Seq(E) /\ Len(s) = n /\ DOMAIN s = 1 .. n
<1>1. s \in [1 .. n -> E]
  OBVIOUS
<1>2. s \in Seq(E) /\ DOMAIN s = 1 .. n
  BY <1>1
<1> QED BY <1>2

\* u is s followed by t.
Joins(E, u, s, t) ==
  /\ u \in Seq(E)
  /\ Len(u) = Len(s) + Len(t)
  /\ \A i \in 1 .. Len(s) : u[i] = s[i]
  /\ \A i \in 1 .. Len(t) : u[Len(s) + i] = t[i]

LEMMA ConcatItems ==
  ASSUME NEW E, NEW s \in Seq(E), NEW t \in Seq(E)
  PROVE  Joins(E, s \o t, s, t)
BY DEF Joins

\* What becomes of the elements of a sequence under a function.
Image(P, s) == [i \in DOMAIN s |-> P[s[i]]]

IsImage(G, t, P, s) ==
  /\ t \in Seq(G)
  /\ Len(t) = Len(s)
  /\ \A i \in 1 .. Len(s) : t[i] = P[s[i]]

LEMMA ImageType ==
  ASSUME NEW E, NEW G, NEW P \in [E -> G], NEW s \in Seq(E)
  PROVE  IsImage(G, Image(P, s), P, s)
<1> DEFINE t == Image(P, s)
           n == Len(s)
<1>1. n \in Nat /\ DOMAIN s = 1 .. n
  OBVIOUS
<1>2. t = [i \in 1 .. n |-> P[s[i]]]
  BY <1>1 DEF Image
<1> HIDE DEF t
<1>3. \A i \in 1 .. n : t[i] = P[s[i]] /\ t[i] \in G
  BY <1>2
<1>5. t = [i \in 1 .. n |-> t[i]]
  BY <1>2
<1> HIDE DEF n
<1>6. t \in Seq(G) /\ Len(t) = n
  BY <1>1, <1>3, <1>5, SeqOfItems
<1> QED BY <1>3, <1>6 DEF t, n, IsImage

ImageJoins(P, s, t) == Image(P, s \o t) = Image(P, s) \o Image(P, t)

LEMMA ImageConcat ==
  ASSUME NEW E, NEW G, NEW P \in [E -> G], NEW s \in Seq(E), NEW t \in Seq(E)
  PROVE  ImageJoins(P, s, t)
<1> DEFINE u == s \o t
           a == Image(P, s)
           b == Image(P, t)
           c == Image(P, u)
           d == a \o b
<1>0. Len(s) \in Nat /\ Len(t) \in Nat
  OBVIOUS
<1>1. Joins(E, u, s, t)
  BY ConcatItems
<1>2. IsImage(G, a, P, s) /\ IsImage(G, b, P, t)
  BY ImageType
<1>3. u \in Seq(E)
  BY <1>1 DEF Joins
<1> HIDE DEF u
<1>4. IsImage(G, c, P, u)
  BY <1>3, ImageType
<1> HIDE DEF a, b, c
<1>5. Joins(G, d, a, b)
  BY <1>2, ConcatItems DEF IsImage
<1> HIDE DEF d
<1> USE DEF Joins, IsImage
<1>6. ASSUME NEW i \in 1 .. Len(c) PROVE c[i] = d[i]
  <2>1. i \in 1 .. Len(u) /\ (i <= Len(s) \/ i > Len(s)) /\ Len(u) = Len(s) + Len(t)
    BY <1>4, <1>1, <1>0
  <2>2. CASE i <= Len(s)
    <3>1. i \in 1 .. Len(s)
      BY <2>1, <2>2, <1>0
    <3> QED BY <3>1, <1>5, <1>1, <1>2, <1>4, <2>1
  <2>3. CASE i > Len(s)
    <3> DEFINE j == i - Len(s)
    <3>1. j \in 1 .. Len(t) /\ i = Len(s) + j
      BY <2>1, <2>3, <1>0
    <3> HIDE DEF j
    <3>2. u[i] = t[j] /\ d[i] = b[j]
      BY <3>1, <1>5, <1>1, <1>2
    <3> QED BY <3>1, <3>2, <1>2, <1>4, <2>1
  <2> QED BY <2>1, <2>2, <2>3
<1>7. c = d
  BY <1>1, <1>2, <1>4, <1>5, <1>6, SameItems
<1> QED BY <1>7 DEF c, d, a, b, u, ImageJoins

\* The concatenation of the images, and that it is a homomorphism.
Flattened(P, s) == FlattenSeq(Image(P, s))
Homomorphic(P, s, t) == Flattened(P, s \o t) = Flattened(P, s) \o Flattened(P, t)

LEMMA ImageFlat ==
  ASSUME NEW E, NEW F, NEW P \in [E -> Seq(F)], NEW s \in Seq(E), NEW t \in Seq(E)
  PROVE  Flattened(P, s) \in Seq(F) /\ Homomorphic(P, s, t)
<1> DEFINE G == Seq(F)
           a == Image(P, s)
           b == Image(P, t)
<1>0. P \in [E -> G]
  OBVIOUS
<1> HIDE DEF G
<1>1. IsImage(G, a, P, s) /\ IsImage(G, b, P, t)
  BY <1>0, ImageType
<1>2. Image(P, s \o t) = a \o b
  <2>1. ImageJoins(P, s, t)
    BY <1>0, ImageConcat
  <2> QED BY <2>1 DEF ImageJoins
<1> HIDE DEF a, b
<1>3. a \in Seq(Seq(F)) /\ b \in Seq(Seq(F))
  BY <1>1 DEF G, IsImage
<1>4. FlattenSeq(a) \in Seq(F)
  BY <1>3, FlatType
<1>5. FlattenSeq(a \o b) = FlattenSeq(a) \o FlattenSeq(b)
  BY <1>3, FlatConcat
<1> QED BY <1>2, <1>4, <1>5 DEF a, b, Flattened, Homomorphic

\* FlattenSeq of one part is that part.
LEMMA FlatOne == ASSUME NEW E, NEW s \in Seq(E) PROVE FlattenSeq(<< s >>) = s
<1> DEFINE f == [i \in 0 .. 1 |-> IF i = 0 THEN <<>> ELSE s]
           q == << s >>
<1>1. q \in Seq(Seq(E)) /\ Len(q) = 1 /\ q[1] = s
  OBVIOUS
<1>2. f \in [0 .. 1 -> Seq(E)] /\ f[0] = <<>> /\ f[1] = s
  OBVIOUS
<1>3. \A i \in 1 .. 1 : f[i] = f[i - 1] \o q[i]
  <2> SUFFICES f[1] = f[0] \o q[1]
    OBVIOUS
  <2> QED BY <1>1, <1>2
<1> HIDE DEF f, q
<1>4. FlattenSeq(q) = f[1]
  <2>1. f \in [0 .. Len(q) -> Seq(E)] /\ \A i \in 1 .. Len(q) : f[i] = f[i - 1] \o q[i]
    BY <1>1, <1>2, <1>3
  <2>2. FlattenSeq(q) = f[Len(q)]
    BY <2>1, <1>1, <1>2, Flat
  <2> QED BY <2>2, <1>1
<1> QED BY <1>4, <1>2 DEF q

\* Letters as the image of a function on the signs.
LetterOf(E) == [x \in E |-> IF x = Slash THEN <<>> ELSE << x >>]

LEMMA LettersImage ==
  ASSUME NEW E, NEW s \in Seq(E)
  PROVE  LetterOf(E) \in [E -> Seq(E \ {Slash})] /\ Letters(s) = Flattened(LetterOf(E), s)
<1>1. ASSUME NEW x \in E PROVE (IF x = Slash THEN <<>> ELSE << x >>) \in Seq(E \ {Slash})
  <2>1. CASE x = Slash
    BY <2>1
  <2>2. CASE x # Slash
    BY <2>2
  <2> QED BY <2>1, <2>2
<1>2. LetterOf(E) \in [E -> Seq(E \ {Slash})]
  BY <1>1 DEF LetterOf
<1>3. \A i \in DOMAIN s : LetterOf(E)[s[i]] = IF s[i] = Slash THEN <<>> ELSE << s[i] >>
  BY DEF LetterOf
<1>4. Image(LetterOf(E), s) = [i \in DOMAIN s |-> IF s[i] = Slash THEN <<>> ELSE << s[i] >>]
  BY <1>3 DEF Image
<1> QED BY <1>2, <1>4 DEF Letters, Flattened

\* The letters of a text have no slash.
LEMMA LettersType ==
  ASSUME NEW E, NEW s \in Seq(E)
  PROVE  Letters(s) \in Seq(E \ {Slash})
<1> DEFINE F == E \ {Slash}
           P == LetterOf(E)
<1>1. P \in [E -> Seq(F)] /\ Letters(s) = Flattened(P, s)
  BY LettersImage
<1> HIDE DEF F, P
<1>2. Letters(s) \in Seq(F)
  BY <1>1, ImageFlat
<1> QED BY <1>2 DEF F

\* The letters of a concatenation are those of its parts.
LEMMA LettersConcat ==
  ASSUME NEW E, NEW s \in Seq(E), NEW t \in Seq(E)
  PROVE  Letters(s \o t) = Letters(s) \o Letters(t)
<1> DEFINE F == E \ {Slash}
           P == LetterOf(E)
           u == s \o t
<1>0. u \in Seq(E)
  OBVIOUS
<1>1. P \in [E -> Seq(F)] /\ Letters(s) = Flattened(P, s)
      /\ Letters(t) = Flattened(P, t)
  BY LettersImage
<1>2. Letters(u) = Flattened(P, u)
  <2> HIDE DEF u
  <2> QED BY <1>0, LettersImage
<1> HIDE DEF F, P
<1>3. Homomorphic(P, s, t)
  BY <1>1, ImageFlat
<1> QED BY <1>1, <1>2, <1>3 DEF u, Homomorphic

\* Slashes are what Letters leaves out.
LEMMA LettersFew ==
  /\ Letters(<<>>) = <<>>
  /\ Letters(<< Slash >>) = <<>>
  /\ \A x : x # Slash => Letters(<< x >>) = << x >>
<1>1. Letters(<<>>) = <<>>
  BY DEF Letters, FlattenSeq
<1>2. ASSUME NEW x PROVE Letters(<< x >>) = IF x = Slash THEN <<>> ELSE << x >>
  <2> DEFINE s == << x >>
             p == IF x = Slash THEN <<>> ELSE << x >>
  <2>1. [i \in DOMAIN s |-> IF s[i] = Slash THEN <<>> ELSE << s[i] >>] = << p >>
    OBVIOUS
  <2>2. p \in Seq({x})
    <3>1. <<>> \in Seq({x}) /\ << x >> \in Seq({x})
      OBVIOUS
    <3> QED BY <3>1
  <2> HIDE DEF p
  <2>3. FlattenSeq(<< p >>) = p
    BY <2>2, FlatOne
  <2> QED BY <2>1, <2>3 DEF Letters, p
<1> QED BY <1>1, <1>2

\* What has no slashes is its own letters.
LEMMA LettersSame ==
  ASSUME NEW E, NEW s \in Seq(E), Slash \notin E
  PROVE  Letters(s) = s
<1>1. \A i \in DOMAIN s : s[i] # Slash
  OBVIOUS
<1>2. [i \in DOMAIN s |-> IF s[i] = Slash THEN <<>> ELSE << s[i] >>] = [i \in DOMAIN s |-> << s[i] >>]
  BY <1>1
<1> QED BY <1>2, FlatSingles DEF Letters

\* trimPrefixSlash leaves the letters alone.
LEMMA TrimLetters ==
  ASSUME NEW E, NEW s \in Seq(E)
  PROVE  Trim(s) \in Seq(E) /\ Letters(Trim(s)) = Letters(s)
<1>1. CASE s = <<>> \/ Head(s) # Slash
  BY <1>1 DEF Trim
<1>2. CASE s # <<>> /\ Head(s) = Slash
  <2>1. Trim(s) = Tail(s) /\ Tail(s) \in Seq(E) /\ Head(s) \in E /\ s = << Head(s) >> \o Tail(s)
    BY <1>2 DEF Trim
  <2>2. << Head(s) >> \in Seq(E)
    BY <2>1
  <2>3. Letters(s) = Letters(<< Head(s) >>) \o Letters(Tail(s))
    <3> DEFINE a == << Head(s) >>
               b == Tail(s)
    <3>1. a \in Seq(E) /\ b \in Seq(E) /\ s = a \o b
      BY <2>1, <2>2
    <3> HIDE DEF a, b
    <3>2. Letters(a \o b) = Letters(a) \o Letters(b)
      BY <3>1, LettersConcat
    <3> QED BY <3>1, <3>2 DEF a, b
  <2>4. Letters(<< Head(s) >>) = <<>> /\ Letters(Tail(s)) \in Seq(E \ {Slash})
    BY <1>2, <2>1, LettersFew, LettersType
  <2> QED BY <2>1, <2>3, <2>4
<1> QED BY <1>1, <1>2

\* The letters of placeholders and characters, and of characters alone.
Alphabet == Signs \ {Slash}
Letter   == Characters \ {Slash}

LEMMA SlashIsNoHole == Slash \in Characters /\ Holes \cap Characters = {} /\ Slash \notin Holes
BY SignsAssumption

LEMMA Letterwise == Letter \subseteq Alphabet /\ Holes \subseteq Alphabet /\ Alphabet = Letter \cup Holes
BY SignsAssumption DEF Letter, Alphabet, Signs

LEMMA ParamType == ASSUME NEW p \in Params, NEW h \in Holes PROVE p[Param[h]] \in Seq(Characters)
BY DEF Params

\* Spelled as the image of a function on the signs.
SpellingOf(p) == [x \in Alphabet |-> IF x \in Holes THEN Letters(p[Param[x]]) ELSE << x >>]

LEMMA SpelledImage ==
  ASSUME NEW p \in Params, NEW s \in Seq(Alphabet)
  PROVE  SpellingOf(p) \in [Alphabet -> Seq(Letter)] /\ Spelled(s, p) = Flattened(SpellingOf(p), s)
<1>1. ASSUME NEW x \in Alphabet
      PROVE  (IF x \in Holes THEN Letters(p[Param[x]]) ELSE << x >>) \in Seq(Letter)
  <2>1. CASE x \in Holes
    <3>1. p[Param[x]] \in Seq(Characters)
      BY <2>1, ParamType
    <3> DEFINE v == p[Param[x]]
    <3>2. Letters(v) \in Seq(Characters \ {Slash})
      <4> HIDE DEF v
      <4> QED BY <3>1, LettersType DEF v
    <3> QED BY <2>1, <3>2 DEF Letter
  <2>2. CASE x \notin Holes
    <3>1. x \in Letter
      BY <2>2 DEF Alphabet, Signs, Letter
    <3>2. << x >> \in Seq(Letter)
      BY <3>1
    <3> QED BY <2>2, <3>2
  <2> QED BY <2>1, <2>2
<1>2. SpellingOf(p) \in [Alphabet -> Seq(Letter)]
  BY <1>1 DEF SpellingOf
<1>3. \A i \in DOMAIN s : SpellingOf(p)[s[i]] = IF s[i] \in Holes THEN Letters(p[Param[s[i]]]) ELSE << s[i] >>
  BY DEF SpellingOf
<1>4. Image(SpellingOf(p), s)
        = [i \in DOMAIN s |-> IF s[i] \in Holes THEN Letters(p[Param[s[i]]]) ELSE << s[i] >>]
  BY <1>3 DEF Image
<1> QED BY <1>2, <1>4 DEF Spelled, Flattened

\* What is spelled has neither slashes nor placeholders.
LEMMA SpelledType ==
  ASSUME NEW p \in Params, NEW s \in Seq(Alphabet)
  PROVE  Spelled(s, p) \in Seq(Letter)
<1> DEFINE P == SpellingOf(p)
<1>1. P \in [Alphabet -> Seq(Letter)] /\ Spelled(s, p) = Flattened(P, s)
  BY SpelledImage
<1> HIDE DEF P
<1> QED BY <1>1, ImageFlat

\* The spelling of a concatenation is that of its parts.
LEMMA SpelledConcat ==
  ASSUME NEW p \in Params, NEW s \in Seq(Alphabet), NEW t \in Seq(Alphabet)
  PROVE  Spelled(s \o t, p) = Spelled(s, p) \o Spelled(t, p)
<1> DEFINE P == SpellingOf(p)
           u == s \o t
<1>0. u \in Seq(Alphabet)
  OBVIOUS
<1>1. P \in [Alphabet -> Seq(Letter)] /\ Spelled(s, p) = Flattened(P, s) /\ Spelled(t, p) = Flattened(P, t)
  BY SpelledImage
<1>2. Spelled(u, p) = Flattened(P, u)
  <2> HIDE DEF u
  <2> QED BY <1>0, SpelledImage
<1> HIDE DEF P
<1>3. Homomorphic(P, s, t)
  BY <1>1, ImageFlat
<1> QED BY <1>1, <1>2, <1>3 DEF u, Homomorphic

\* A text without placeholders spells itself.
LEMMA SpelledPlain ==
  ASSUME NEW p, NEW s \in Seq(Letter)
  PROVE  Spelled(s, p) = s
<1>1. \A i \in DOMAIN s : s[i] \notin Holes
  BY SignsAssumption DEF Letter
<1>2. [i \in DOMAIN s |-> IF s[i] \in Holes THEN Letters(p[Param[s[i]]]) ELSE << s[i] >>]
        = [i \in DOMAIN s |-> << s[i] >>]
  BY <1>1
<1> QED BY <1>2, FlatSingles DEF Spelled

\* A placeholder spells the letters of its parameter's value.
LEMMA SpelledHole ==
  ASSUME NEW p \in Params, NEW h \in Holes
  PROVE  Spelled(<< h >>, p) = Letters(p[Param[h]])
<1> DEFINE s == << h >>
           v == Letters(p[Param[h]])
<1>1. [i \in DOMAIN s |-> IF s[i] \in Holes THEN Letters(p[Param[s[i]]]) ELSE << s[i] >>] = << v >>
  <2>1. \A i \in DOMAIN s : s[i] = h
    OBVIOUS
  <2>2. \A i \in DOMAIN s : (IF s[i] \in Holes THEN Letters(p[Param[s[i]]]) ELSE << s[i] >>) = v
    BY <2>1
  <2>3. [i \in DOMAIN s |-> v] = << v >>
    <3> HIDE DEF v
    <3> QED OBVIOUS
  <2> HIDE DEF v, s
  <2> QED BY <2>2, <2>3
<1>2. v \in Seq(Characters \ {Slash})
  <2>1. p[Param[h]] \in Seq(Characters)
    BY ParamType
  <2> DEFINE w == p[Param[h]]
  <2>2. Letters(w) \in Seq(Characters \ {Slash})
    <3> HIDE DEF w
    <3> QED BY <2>1, LettersType DEF w
  <2> QED BY <2>2
<1> HIDE DEF v
<1>3. FlattenSeq(<< v >>) = v
  BY <1>2, FlatOne
<1> QED BY <1>1, <1>3 DEF Spelled, v

\* Only the parameters of its placeholders matter to what a text spells.
LEMMA SpelledSame ==
  ASSUME NEW p, NEW q, NEW s,
         \A i \in DOMAIN s : s[i] \in Holes => p[Param[s[i]]] = q[Param[s[i]]]
  PROVE  Spelled(s, p) = Spelled(s, q)
<1>1. \A i \in DOMAIN s :
        (IF s[i] \in Holes THEN Letters(p[Param[s[i]]]) ELSE << s[i] >>)
          = IF s[i] \in Holes THEN Letters(q[Param[s[i]]]) ELSE << s[i] >>
  OBVIOUS
<1> QED BY <1>1 DEF Spelled

-----------------------------------------------------------------------------
(* First and what is cut with it                                           *)

\* A position that First may choose, T being the positions in 1 .. n where P holds.
IsFirst(i, n, T) == (i <= n => i \in T) /\ \A j \in 1 .. i - 1 : j \notin T

\* There is such a position.
LEMMA FirstExists ==
  ASSUME NEW n \in Nat, NEW T
  PROVE  \E i \in 1 .. n + 1 : IsFirst(i, n, T)
<1> DEFINE S == {i \in 1 .. n + 1 : i <= n => i \in T}
<1>1. S \in SUBSET Nat /\ n + 1 \in S
  OBVIOUS
<1>2. PICK i \in S : \A y \in S : i <= y
  <2> HIDE DEF S
  <2> QED BY <1>1, Least
<1>3. ASSUME NEW j \in 1 .. i - 1 PROVE j \notin T
  <2>1. ~(i <= j) /\ j \in 1 .. n + 1
    BY <1>2
  <2>2. j \notin S
    BY <1>2, <2>1
  <2> QED BY <2>1, <2>2
<1> QED BY <1>2, <1>3 DEF IsFirst

\* A sequence is what comes before and after any place in it.
IsCut(E, s, n, a, b) ==
  /\ a \in Seq(E) /\ Len(a) = n
  /\ b \in Seq(E) /\ Len(b) = Len(s) - n
  /\ s = a \o b

\* SubSeq and Drop cut a sequence in two.
LEMMA Cut ==
  ASSUME NEW E, NEW s \in Seq(E), NEW n \in 0 .. Len(s)
  PROVE  IsCut(E, s, n, SubSeq(s, 1, n), Drop(s, n))
<1> DEFINE a == SubSeq(s, 1, n)
           b == Drop(s, n)
<1>1. a \in Seq(E) /\ Len(a) = n /\ \A i \in 1 .. n : a[i] = s[i]
  OBVIOUS
<1>2. b \in Seq(E) /\ Len(b) = Len(s) - n /\ \A i \in 1 .. Len(s) - n : b[i] = s[n + i]
  BY DEF Drop
<1> HIDE DEF a, b
<1>3. s = a \o b
  <2>1. Len(s) = Len(a \o b) /\ a \o b \in Seq(E)
    BY <1>1, <1>2
  <2>2. ASSUME NEW i \in 1 .. Len(s) PROVE s[i] = (a \o b)[i]
    <3>1. CASE i <= n
      BY <3>1, <1>1, <1>2
    <3>2. CASE i > n
      <4> DEFINE j == i - n
      <4>1. j \in 1 .. Len(s) - n /\ i = n + j
        BY <3>2
      <4>2. (a \o b)[i] = b[i - n]
        BY <3>2, <1>1, <1>2
      <4>3. (a \o b)[i] = b[j]
        BY <4>2
      <4> HIDE DEF j
      <4> QED BY <4>1, <4>3, <1>2
    <3>3. i <= n \/ i > n
      OBVIOUS
    <3> QED BY <3>1, <3>2, <3>3
  <2> QED BY <2>1, <2>2, SameItems
<1> QED BY <1>1, <1>2, <1>3 DEF a, b, IsCut

\* longestCommonPrefix stays inside both texts, which agree up to it.
LEMMA CommonFacts ==
  ASSUME NEW E, NEW s \in Seq(E), NEW t \in Seq(E)
  PROVE  /\ Common(s, t) \in 0 .. Len(s)
         /\ Common(s, t) \in 0 .. Len(t)
         /\ SubSeq(s, 1, Common(s, t)) = SubSeq(t, 1, Common(s, t))
<1> DEFINE Is(i) == /\ i <= Len(s) => i > Len(t) \/ s[i] # t[i]
                    /\ \A j \in 1 .. i - 1 : ~(j > Len(t) \/ s[j] # t[j])
           n == Common(s, t)
<1>1. \E i \in 1 .. Len(s) + 1 : Is(i)
  <2> DEFINE T == {i \in 1 .. Len(s) : i > Len(t) \/ s[i] # t[i]}
             m == Len(s)
  <2>0. m \in Nat
    OBVIOUS
  <2>1. PICK i \in 1 .. Len(s) + 1 : (i <= Len(s) => i \in T) /\ \A j \in 1 .. i - 1 : j \notin T
    <3> HIDE DEF T, m
    <3>1. \E i \in 1 .. m + 1 : IsFirst(i, m, T)
      BY <2>0, FirstExists
    <3> QED BY <3>1 DEF m, IsFirst
  <2>2. \A j \in 1 .. i - 1 : j \in 1 .. Len(s)
    OBVIOUS
  <2> QED BY <2>1, <2>2
<1>2. n = (CHOOSE i \in 1 .. Len(s) + 1 : Is(i)) - 1
  BY DEF Common, First
<1>3. PICK i \in 1 .. Len(s) + 1 : Is(i) /\ n = i - 1
  <2> HIDE DEF Is, n
  <2> QED BY <1>1, <1>2
<1> HIDE DEF n
<1>4. n \in 0 .. Len(s)
  BY <1>3
<1>5. \A j \in 1 .. n : j <= Len(t) /\ s[j] = t[j]
  BY <1>3
<1>6. n \in 0 .. Len(t)
  <2>1. CASE n = 0
    BY <2>1
  <2>2. CASE n # 0
    <3>1. n \in 1 .. n
      BY <2>2, <1>4
    <3> QED BY <3>1, <1>4, <1>5
  <2> QED BY <2>1, <2>2
<1>7. SubSeq(s, 1, n) = SubSeq(t, 1, n)
  BY <1>4, <1>5, <1>6
<1> QED BY <1>4, <1>6, <1>7 DEF n

\* Fixed stops in front of the first placeholder.
LEMMA FixedFacts ==
  ASSUME NEW s \in Seq(Signs)
  PROVE  /\ Fixed(s) \in Seq(Characters)
         /\ Drop(s, Len(Fixed(s))) \in Seq(Signs)
         /\ s = Fixed(s) \o Drop(s, Len(Fixed(s)))
         /\ Drop(s, Len(Fixed(s))) # <<>> => Head(Drop(s, Len(Fixed(s)))) \in Holes
<1> DEFINE Is(i) == /\ i <= Len(s) => s[i] \in Holes
                    /\ \A j \in 1 .. i - 1 : ~(s[j] \in Holes)
           f == Fixed(s)
           m == Len(s)
<1>0. m \in Nat /\ m = Len(s)
  OBVIOUS
<1>1. \E i \in 1 .. m + 1 : Is(i)
  <2> DEFINE T == {i \in 1 .. m : s[i] \in Holes}
  <2>1. PICK i \in 1 .. m + 1 : (i <= m => i \in T) /\ \A j \in 1 .. i - 1 : j \notin T
    <3> HIDE DEF T, m
    <3>1. \E i \in 1 .. m + 1 : IsFirst(i, m, T)
      BY <1>0, FirstExists
    <3> QED BY <3>1 DEF IsFirst
  <2>2. \A j \in 1 .. i - 1 : j \in 1 .. m
    OBVIOUS
  <2> QED BY <2>1, <2>2
<1>2. f = SubSeq(s, 1, (CHOOSE i \in 1 .. m + 1 : Is(i)) - 1)
  BY DEF Fixed, First
<1>3. PICK i \in 1 .. m + 1 : Is(i) /\ f = SubSeq(s, 1, i - 1)
  <2> HIDE DEF Is, f, m
  <2> QED BY <1>1, <1>2
<1> DEFINE n == i - 1
<1>4. n \in 0 .. Len(s) /\ n = i - 1
  BY <1>3
<1> HIDE DEF f, n
<1>5. f = SubSeq(s, 1, n)
  BY <1>3, <1>4
<1>6. /\ f \in Seq(Signs) /\ Len(f) = n /\ Drop(s, n) \in Seq(Signs)
      /\ s = f \o Drop(s, n) /\ Len(Drop(s, n)) = Len(s) - n
  <2>1. IsCut(Signs, s, n, f, Drop(s, n))
    BY <1>4, <1>5, Cut
  <2> QED BY <2>1 DEF IsCut
<1>7. \A j \in 1 .. n : f[j] = s[j] /\ s[j] \in Characters
  <2> SUFFICES ASSUME NEW j \in 1 .. n PROVE f[j] = s[j] /\ s[j] \in Characters
    OBVIOUS
  <2>1. j \in 1 .. Len(s) /\ j \in 1 .. i - 1
    BY <1>4
  <2>2. s[j] \in Signs /\ s[j] \notin Holes
    BY <1>3, <2>1
  <2> QED BY <2>1, <2>2, <1>4, <1>5 DEF Signs
<1>8. f \in Seq(Characters)
  BY <1>6, <1>7
<1>9. Drop(s, n) # <<>> => Head(Drop(s, n)) \in Holes
  <2> SUFFICES ASSUME Drop(s, n) # <<>> PROVE Head(Drop(s, n)) \in Holes
    OBVIOUS
  <2>1. n + 1 <= Len(s) /\ n + 1 = i
    BY <1>4, <1>6
  <2>2. Head(Drop(s, n)) = s[n + 1]
    BY <2>1, <1>4 DEF Drop
  <2> QED BY <2>1, <2>2, <1>3
<1> QED BY <1>6, <1>8, <1>9 DEF f

\* Segment and the slash behind it are what search takes from a path.
LEMMA SegmentFacts ==
  ASSUME NEW s \in Seq(Characters)
  PROVE  /\ Segment(s) \in Seq(Letter)
         /\ Drop(s, Len(Segment(s)) + 1) \in Seq(Characters)
         /\ Letters(s) = Segment(s) \o Letters(Drop(s, Len(Segment(s)) + 1))
<1> DEFINE Is(i) == /\ i <= Len(s) => s[i] = Slash
                    /\ \A j \in 1 .. i - 1 : ~(s[j] = Slash)
           f == Segment(s)
           m == Len(s)
<1>0. m \in Nat /\ m = Len(s)
  OBVIOUS
<1>1. \E i \in 1 .. m + 1 : Is(i)
  <2> DEFINE T == {i \in 1 .. m : s[i] = Slash}
  <2>1. PICK i \in 1 .. m + 1 : (i <= m => i \in T) /\ \A j \in 1 .. i - 1 : j \notin T
    <3> HIDE DEF T, m
    <3>1. \E i \in 1 .. m + 1 : IsFirst(i, m, T)
      BY <1>0, FirstExists
    <3> QED BY <3>1 DEF IsFirst
  <2>2. \A j \in 1 .. i - 1 : j \in 1 .. m
    OBVIOUS
  <2> QED BY <2>1, <2>2
<1>2. f = SubSeq(s, 1, (CHOOSE i \in 1 .. m + 1 : Is(i)) - 1)
  BY DEF Segment, First
<1>3. PICK i \in 1 .. m + 1 : Is(i) /\ f = SubSeq(s, 1, i - 1)
  <2> HIDE DEF Is, f, m
  <2> QED BY <1>1, <1>2
<1> DEFINE n == i - 1
<1>4. n \in 0 .. Len(s) /\ n = i - 1
  BY <1>3
<1> HIDE DEF f, n
<1>5. f = SubSeq(s, 1, n)
  BY <1>3, <1>4
<1>6. /\ f \in Seq(Characters) /\ Len(f) = n /\ Drop(s, n) \in Seq(Characters)
      /\ s = f \o Drop(s, n) /\ Len(Drop(s, n)) = Len(s) - n
  <2>1. IsCut(Characters, s, n, f, Drop(s, n))
    BY <1>4, <1>5, Cut
  <2> QED BY <2>1 DEF IsCut
<1>7. \A j \in 1 .. n : f[j] = s[j] /\ s[j] \in Letter
  <2> SUFFICES ASSUME NEW j \in 1 .. n PROVE f[j] = s[j] /\ s[j] \in Letter
    OBVIOUS
  <2>1. j \in 1 .. Len(s) /\ j \in 1 .. i - 1
    BY <1>4
  <2>2. s[j] \in Characters /\ s[j] # Slash
    BY <1>3, <2>1
  <2> QED BY <2>1, <2>2, <1>4, <1>5 DEF Letter
<1>8. f \in Seq(Letter)
  BY <1>6, <1>7
<1> DEFINE d == Drop(s, n)
           e == Drop(s, n + 1)
<1>9. e \in Seq(Characters) /\ Letters(d) = Letters(e)
  <2>1. CASE n = Len(s)
    <3>1. d = <<>> /\ e = <<>>
      BY <2>1 DEF Drop
    <3>2. <<>> \in Seq(Characters)
      OBVIOUS
    <3> HIDE DEF d, e
    <3> QED BY <3>1, <3>2
  <2>2. CASE n # Len(s)
    <3>1. n + 1 \in 0 .. Len(s) /\ n + 1 = i /\ s[n + 1] = Slash
      BY <2>2, <1>3, <1>4
    <3>4. d \in Seq(Characters) /\ Len(d) = Len(s) - n /\ \A j \in 1 .. Len(d) : d[j] = s[n + j]
      BY <1>4 DEF Drop
    <3>5. e \in Seq(Characters) /\ Len(e) = Len(s) - (n + 1)
          /\ \A j \in 1 .. Len(e) : e[j] = s[n + 1 + j]
      BY <3>1, <1>4 DEF Drop
    <3>6. d # <<>> /\ Head(d) = Slash /\ Tail(d) = e
      <4> HIDE DEF d, e
      <4>1. 1 \in 1 .. Len(d)
        BY <3>1, <3>4, <1>4
      <4>2. d # <<>> /\ Head(d) = d[1] /\ Tail(d) \in Seq(Characters) /\ Len(Tail(d)) = Len(d) - 1
            /\ \A j \in 1 .. Len(d) - 1 : Tail(d)[j] = d[j + 1]
        BY <3>4, <4>1
      <4>3. Len(d) - 1 = Len(e)
        BY <3>4, <3>5, <1>4
      <4>4. ASSUME NEW j \in 1 .. Len(e) PROVE Tail(d)[j] = e[j]
        <5>1. j + 1 \in 1 .. Len(d) /\ n + (j + 1) = n + 1 + j
          BY <3>4, <4>3, <1>4
        <5>2. d[j + 1] = s[n + (j + 1)]
          BY <5>1, <3>4
        <5> QED BY <5>1, <5>2, <4>2, <4>3, <3>5
      <4>5. Tail(d) = e
        BY <4>2, <4>3, <4>4, <3>5, SameItems
      <4> QED BY <4>1, <4>2, <4>5, <3>1, <3>4
    <3>2. d \in Seq(Characters) /\ d # <<>> /\ Head(d) = Slash /\ Tail(d) = e /\ e \in Seq(Characters)
      BY <3>4, <3>5, <3>6
    <3>3. Trim(d) = e
      BY <3>2 DEF Trim
    <3> HIDE DEF d, e
    <3> QED BY <3>2, <3>3, TrimLetters
  <2> QED BY <2>1, <2>2
<1>10. Letters(s) = Letters(f) \o Letters(d)
  <2> HIDE DEF d
  <2>1. d \in Seq(Characters) /\ s = f \o d
    BY <1>6 DEF d
  <2>2. Letters(f \o d) = Letters(f) \o Letters(d)
    BY <1>6, <2>1, LettersConcat
  <2> QED BY <2>1, <2>2
<1>11. Letters(f) = f
  BY <1>8, LettersSame DEF Letter
<1> QED BY <1>6, <1>8, <1>9, <1>10, <1>11 DEF f

\* A sequence is its prefix and what Drop leaves.
LEMMA PrefixFacts ==
  ASSUME NEW E, NEW s \in Seq(E), NEW t \in Seq(E), IsPrefix(s, t)
  PROVE  t = s \o Drop(t, Len(s)) /\ Drop(t, Len(s)) \in Seq(E)
<1>1. Len(s) \in 0 .. Len(t) /\ SubSeq(s, 1, Len(s)) = s /\ SubSeq(s, 1, Len(s)) = SubSeq(t, 1, Len(s))
  BY DEF IsPrefix
<1>2. t = SubSeq(t, 1, Len(s)) \o Drop(t, Len(s)) /\ Drop(t, Len(s)) \in Seq(E)
  <2> DEFINE n == Len(s)
  <2>1. n \in 0 .. Len(t)
    BY <1>1
  <2> HIDE DEF n
  <2>2. IsCut(E, t, n, SubSeq(t, 1, n), Drop(t, n))
    BY <2>1, Cut
  <2> QED BY <2>2 DEF n, IsCut
<1> QED BY <1>1, <1>2

-----------------------------------------------------------------------------
(* Patterns                                                                *)

\* The pattern of a file is made of characters and placeholders.
LEMMA PatternType == ASSUME NEW file \in ToSet(Files) PROVE Pattern(file) \in Seq(Signs)
<1> DEFINE dirs == file.dirs
           t == [i \in DOMAIN dirs |-> <<Slash>> \o Normalize(dirs[i])]
           F == Seq(Signs)
<1>1. dirs \in Seq(ToSet(dirs)) /\ Slash \in Signs
  BY FilesAssumption, SignsAssumption DEF Signs
<1>2. ASSUME NEW i \in DOMAIN dirs PROVE <<Slash>> \o Normalize(dirs[i]) \in F
  <2>1. dirs[i] \in ToSet(dirs)
    BY DEF ToSet
  <2>2. IF IsHole(dirs[i]) THEN dirs[i].name \in DOMAIN Braced
                           ELSE dirs[i].name \in Seq(Characters \ {Slash})
    BY <2>1, FilesAssumption
  <2>3. Normalize(dirs[i]) \in Seq(Signs)
    <3>1. CASE IsHole(dirs[i])
      <4>1. Braced[dirs[i].name] \in Holes
        BY <2>2, <3>1, SignsAssumption
      <4>2. Braced[dirs[i].name] \in Signs
        BY <4>1 DEF Signs
      <4> QED BY <3>1, <4>2 DEF Normalize
    <3>2. CASE ~IsHole(dirs[i])
      <4>1. dirs[i].name \in Seq(Signs)
        BY <2>2, <3>2 DEF Signs
      <4> QED BY <4>1, <3>2 DEF Normalize
    <3> QED BY <3>1, <3>2
  <2> DEFINE d == Normalize(dirs[i])
  <2> HIDE DEF d
  <2>4. <<Slash>> \o d \in Seq(Signs)
    BY <1>1, <2>3 DEF d
  <2> QED BY <2>4 DEF d
<1>3. CASE dirs = <<>>
  <2>1. <<Slash>> \in Seq(Signs) /\ Api \in Seq(Signs)
    BY <1>1, SignsAssumption DEF Api, Signs, ToSet
  <2>2. <<Slash>> \o Api \in Seq(Signs)
    BY <2>1
  <2> QED BY <1>3, <2>1, <2>2 DEF Pattern
<1>4. CASE dirs # <<>>
  <2> HIDE DEF F
  <2>1. DOMAIN dirs = 1 .. Len(dirs) /\ Len(dirs) \in Nat
    BY <1>1
  <2>2. t \in Seq(F)
    BY <1>2, <2>1
  <2> HIDE DEF t
  <2>3. FlattenSeq(t) \in Seq(Signs)
    BY <2>2, FlatType DEF F
  <2> QED BY <1>4, <2>3 DEF Pattern, t
<1> QED BY <1>3, <1>4

\* A path is made of characters.
LEMMA PathType == ASSUME NEW segs \in Requested PROVE Path(segs) \in Seq(Characters)
<1> DEFINE t == [i \in DOMAIN segs |-> <<Slash>> \o segs[i]]
           F == Seq(Characters)
<1>1. Slash \in Characters /\ Words \subseteq Seq(Characters)
  BY SignsAssumption
<1>2. segs \in Seq(Words)
  <2>1. PICK m \in 0 .. MaxDepth : segs \in [1 .. m -> Words]
    BY DEF Requested, BoundedSeq, SeqOf
  <2>2. m \in Nat
    BY SignsAssumption
  <2> QED BY <2>1, <2>2
<1>3. ASSUME NEW i \in DOMAIN segs PROVE <<Slash>> \o segs[i] \in F
  <2>1. segs[i] \in Seq(Characters)
    BY <1>1, <1>2
  <2> QED BY <1>1, <2>1
<1>4. t \in Seq(F)
  <2>1. DOMAIN segs = 1 .. Len(segs) /\ Len(segs) \in Nat
    BY <1>2
  <2> HIDE DEF F
  <2> QED BY <1>3, <2>1
<1>5. FlattenSeq(t) \in Seq(Characters)
  <2> HIDE DEF t
  <2> QED BY <1>4, FlatType
<1>6. <<Slash>> \in Seq(Characters)
  BY <1>1
<1> QED BY <1>5, <1>6 DEF Path

-----------------------------------------------------------------------------
(* What a call of insert works on                                          *)

\* Own and After are the pattern without its first slash; a pattern that begins
\* with a placeholder is that and what insert goes on with.
LEMMA RestFacts ==
  ASSUME rest \in Seq(Signs)
  PROVE  /\ Own \in Seq(Characters) /\ After \in Seq(Signs)
         /\ Letters(rest) = Letters(Own) \o Letters(After)
         /\ Own = <<>> /\ rest \notin {<<>>, <<Slash>>} =>
              /\ Head(After) \in Holes /\ Tail(After) \in Seq(Signs)
              /\ Letters(rest) = << Head(After) >> \o Letters(Trim(Tail(After)))
<1> DEFINE p == Trim(rest)
           own == Own
           after == After
<1>1. p \in Seq(Signs) /\ Letters(p) = Letters(rest)
  BY TrimLetters
<1>2. /\ own \in Seq(Characters) /\ after \in Seq(Signs) /\ p = own \o after
      /\ after # <<>> => Head(after) \in Holes
  <2> HIDE DEF p
  <2> QED BY <1>1, FixedFacts DEF Own, After, p
<1>3. own \in Seq(Signs)
  BY <1>2 DEF Signs
<1> HIDE DEF own, after
<1>4. Letters(rest) = Letters(own) \o Letters(after)
  <2>1. Letters(own \o after) = Letters(own) \o Letters(after)
    BY <1>2, <1>3, LettersConcat
  <2> QED BY <1>1, <1>2, <2>1
<1>5. ASSUME own = <<>>, rest \notin {<<>>, <<Slash>>}
      PROVE  /\ Head(after) \in Holes /\ Tail(after) \in Seq(Signs)
             /\ Letters(rest) = << Head(after) >> \o Letters(Trim(Tail(after)))
  <2>1. p # <<>>
    <3>1. CASE Head(rest) = Slash
      <4>1. Tail(rest) # <<>>
        <5> SUFFICES ASSUME Tail(rest) = <<>> PROVE FALSE
          OBVIOUS
        <5>1. rest = << Head(rest) >>
          BY <1>5, Alone
        <5> QED BY <5>1, <3>1, <1>5
      <4> QED BY <4>1, <1>5 DEF Trim
    <3>2. CASE Head(rest) # Slash
      BY <3>2, <1>5 DEF Trim
    <3> QED BY <3>1, <3>2
  <2>2. after = p /\ after # <<>>
    <3> HIDE DEF p
    <3> QED BY <1>2, <1>5, <2>1
  <2> HIDE DEF p
  <2> DEFINE a == << Head(after) >>
             b == Tail(after)
  <2>3. a \in Seq(Signs) /\ b \in Seq(Signs) /\ after = a \o b /\ Head(after) \in Holes
    BY <1>2, <2>2
  <2>4. Letters(after) = Letters(a) \o Letters(b)
    <3> HIDE DEF a, b
    <3>1. Letters(a \o b) = Letters(a) \o Letters(b)
      BY <2>3, LettersConcat
    <3> QED BY <2>3, <3>1
  <2>5. Letters(a) = a
    BY <2>3, LettersFew, SlashIsNoHole
  <2>6. Letters(Trim(b)) = Letters(b)
    <3> HIDE DEF b
    <3> QED BY <2>3, TrimLetters
  <2> QED BY <1>1, <2>2, <2>3, <2>4, <2>5, <2>6
<1> QED BY <1>2, <1>4, <1>5 DEF own, after

\* A child is another node and not the root.
LEMMA KidIsNode ==
  ASSUME TypeOK, IsTree, NEW n \in Ids, NEW kid \in Kids(n)
  PROVE  kid \in Ids /\ kid # 1 /\ kid # n /\ nodes[kid] \in NodeType /\ nodes[n] \in NodeType
BY DEF TypeOK, IsTree, Ids

\* The child that insert goes on with shares a prefix of Own.
LEMMA ChildFacts ==
  ASSUME TypeOK, IsTree, at \in Ids, Shares
  PROVE  /\ Child \in Kids(at) /\ Shared > 0
         /\ Shared \in 0 .. Len(Own)
         /\ Shared \in 0 .. Len(nodes[Child].path)
         /\ SubSeq(Own, 1, Shared) = SubSeq(nodes[Child].path, 1, Shared)
<1> DEFINE kids == nodes[at].kids
           m == Len(kids)
           Is(i) == /\ i <= m => Common(Own, nodes[kids[i]].path) > 0
                    /\ \A j \in 1 .. i - 1 : ~(Common(Own, nodes[kids[j]].path) > 0)
<1>1. kids \in Seq(Nat) /\ m \in Nat
  <2>1. nodes[at] \in NodeType
    BY DEF TypeOK, Ids
  <2>2. kids \in Seq(Nat)
    BY <2>1 DEF NodeType
  <2> HIDE DEF kids
  <2> QED BY <2>2
<1>2. \E i \in 1 .. m + 1 : Is(i)
  <2> DEFINE T == {i \in 1 .. m : Common(Own, nodes[kids[i]].path) > 0}
  <2> HIDE DEF kids, m
  <2>1. PICK i \in 1 .. m + 1 : (i <= m => i \in T) /\ \A j \in 1 .. i - 1 : j \notin T
    <3> HIDE DEF T
    <3>1. \E i \in 1 .. m + 1 : IsFirst(i, m, T)
      BY <1>1, FirstExists
    <3> QED BY <3>1 DEF IsFirst
  <2>2. \A j \in 1 .. i - 1 : j \in 1 .. m
    BY <1>1
  <2> QED BY <2>1, <2>2
<1>3. Position = CHOOSE i \in 1 .. m + 1 : Is(i)
  BY DEF Position, First
<1>4. Position \in 1 .. m + 1 /\ Is(Position)
  <2> DEFINE N == 1 .. m + 1
             c == CHOOSE i \in N : Is(i)
  <2>1. c \in N /\ Is(c)
    <3> HIDE DEF Is, N
    <3> QED BY <1>2 DEF N
  <2> QED BY <2>1, <1>3
<1>5. Child \in Kids(at)
  BY <1>1, <1>4 DEF Shares, Child, Kids, ToSet
<1>6. Own \in Seq(Characters) /\ nodes[Child].path \in Seq(Characters)
  BY <1>5, KidIsNode, RestFacts DEF TypeOK, NodeType
<1>7. Shared > 0
  BY <1>4 DEF Shares, Child, Shared
<1> QED BY <1>5, <1>6, <1>7, CommonFacts DEF Shared
-----------------------------------------------------------------------------
(* The tree, action by action                                              *)

\* TreeSound without the routes, which are in a section of their own.
TreeSpelled == TypeOK /\ AfterWalk /\ IsTree /\ (Orderly => TextsSpelled)

\* t is s with a at i and b behind the end.
Grown(E, t, s, i, a, b) ==
  /\ t \in Seq(E) /\ Len(t) = Len(s) + 1
  /\ t[i] = a /\ t[Len(s) + 1] = b
  /\ \A k \in 1 .. Len(s) : k # i => t[k] = s[k]

LEMMA AppendExcept ==
  ASSUME NEW E, NEW s \in Seq(E), NEW i \in 1 .. Len(s), NEW a \in E, NEW b \in E
  PROVE  Grown(E, Append([s EXCEPT ![i] = a], b), s, i, a, b)
<1> DEFINE t == [s EXCEPT ![i] = a]
<1>1. t \in Seq(E) /\ Len(t) = Len(s) /\ t[i] = a /\ \A k \in 1 .. Len(s) : k # i => t[k] = s[k]
  OBVIOUS
<1> HIDE DEF t
<1>2. /\ Append(t, b) \in Seq(E) /\ Len(Append(t, b)) = Len(t) + 1 /\ Append(t, b)[Len(t) + 1] = b
      /\ \A k \in 1 .. Len(t) : Append(t, b)[k] = t[k]
  BY <1>1
<1> QED BY <1>1, <1>2 DEF Grown, t

Longer(E, t, s, b) ==
  /\ t \in Seq(E) /\ Len(t) = Len(s) + 1
  /\ t[Len(s) + 1] = b
  /\ \A k \in 1 .. Len(s) : t[k] = s[k]

LEMMA AppendItems ==
  ASSUME NEW E, NEW s \in Seq(E), NEW b \in E
  PROVE  Longer(E, Append(s, b), s, b)
BY DEF Longer

LEMMA AppendSet ==
  ASSUME NEW E, NEW s \in Seq(E), NEW b \in E
  PROVE  ToSet(Append(s, b)) = ToSet(s) \cup {b}
<1> DEFINE t == Append(s, b)
           m == Len(s)
<1>1. m \in Nat /\ DOMAIN s = 1 .. m /\ DOMAIN t = 1 .. m + 1
      /\ t[m + 1] = b /\ \A k \in 1 .. m : t[k] = s[k]
  OBVIOUS
<1> HIDE DEF t, m
<1>2. ASSUME NEW x PROVE x \in ToSet(t) <=> x \in ToSet(s) \cup {b}
  <2>1. ASSUME x \in ToSet(t) PROVE x \in ToSet(s) \cup {b}
    <3>1. PICK k \in 1 .. m + 1 : x = t[k]
      BY <2>1, <1>1 DEF ToSet
    <3>2. k \in 1 .. m \/ k = m + 1
      BY <1>1
    <3> QED BY <1>1, <3>1, <3>2 DEF ToSet
  <2>2. ASSUME x \in ToSet(s) \cup {b} PROVE x \in ToSet(t)
    <3>1. CASE x = b
      <4>1. m + 1 \in DOMAIN t
        BY <1>1
      <4> QED BY <4>1, <3>1, <1>1 DEF ToSet
    <3>2. CASE x \in ToSet(s)
      <4>1. PICK k \in 1 .. m : x = s[k]
        BY <3>2, <1>1 DEF ToSet
      <4>2. k \in DOMAIN t /\ x = t[k]
        BY <4>1, <1>1
      <4> QED BY <4>2 DEF ToSet
    <3> QED BY <2>2, <3>1, <3>2
  <2> QED BY <2>1, <2>2
<1> QED BY <1>2 DEF t

\* Building the tree leaves the routes, and so their order, alone.
LEMMA OrderlyStays == ASSUME routes' = routes PROVE Orderly' <=> Orderly
BY DEF Orderly

LEMMA PrefixOf == ASSUME NEW E, NEW s \in Seq(E), NEW t \in Seq(E) PROVE IsPrefix(s, s \o t)
<1>1. Len(s) <= Len(s \o t) /\ SubSeq(s \o t, 1, Len(s)) = SubSeq(s, 1, Len(s))
  OBVIOUS
<1> QED BY <1>1 DEF IsPrefix

\* The pattern of a route and its letters are texts.
LEMMA RouteLetters ==
  ASSUME TypeOK, NEW i \in DOMAIN routes
  PROVE  Pattern(routes[i]) \in Seq(Signs) /\ Letters(Pattern(routes[i])) \in Seq(Alphabet)
<1>1. routes[i] \in ToSet(Files)
  BY DEF TypeOK
<1>2. Pattern(routes[i]) \in Seq(Signs)
  BY <1>1, PatternType
<1> DEFINE p == Pattern(routes[i])
<1> HIDE DEF p
<1>3. Letters(p) \in Seq(Alphabet)
  BY <1>2, LettersType DEF Alphabet, p
<1> QED BY <1>2, <1>3 DEF p

\* What Add does to the tree, node by node.
Added(parent, path) ==
  LET new == Len(nodes) + 1
  IN  /\ new \notin Ids /\ Ids' = Ids \cup {new} /\ new \in Nat /\ new > 1
      /\ nodes' \in Seq(NodeType) /\ Len(nodes') = new
      /\ nodes'[new].path = path /\ ToSet(nodes'[new].kids) = {}
      /\ nodes'[new].wild = 0 /\ nodes'[new].handler = 0
      /\ \A n \in Ids : /\ nodes'[n].path = nodes[n].path /\ nodes'[n].hole = nodes[n].hole
                        /\ nodes'[n].wild = nodes[n].wild /\ nodes'[n].handler = nodes[n].handler
                        /\ ToSet(nodes'[n].kids) = IF n = parent THEN Kids(n) \cup {new} ELSE Kids(n)

\* Add makes a leaf below the parent and touches nothing else.
LEMMA AddNodes ==
  ASSUME TypeOK, IsTree, NEW parent \in Ids, NEW path \in Seq(Characters), Add(parent, path)
  PROVE  Added(parent, path)
<1> DEFINE new == Len(nodes) + 1
           leaf == Node(path, "")
           up == [nodes[parent] EXCEPT !.kids = Append(@, new)]
<1>1. nodes \in Seq(NodeType) /\ parent \in 1 .. Len(nodes) /\ new \in Nat /\ Ids = 1 .. Len(nodes)
      /\ Len(nodes) \in Nat
  BY DEF TypeOK, Ids
<1>2. nodes[parent] \in NodeType
  BY <1>1
<1>3. leaf \in NodeType
  BY DEF Node, NodeType
<1>4. up \in NodeType
  <2> DEFINE more == Append(nodes[parent].kids, new)
  <2>1. more \in Seq(Nat) /\ up = [nodes[parent] EXCEPT !.kids = more]
    <3>1. nodes[parent].kids \in Seq(Nat)
      BY <1>2 DEF NodeType
    <3> DEFINE old == nodes[parent].kids
    <3>2. Append(old, new) \in Seq(Nat)
      <4> HIDE DEF new, old
      <4> QED BY <1>1, <3>1 DEF old
    <3> QED BY <3>2
  <2> HIDE DEF more, up
  <2> QED BY <2>1, <1>2 DEF NodeType
<1>5. nodes' = Append([nodes EXCEPT ![parent] = up], leaf)
  BY DEF Add
<1>6. ToSet(up.kids) = Kids(parent) \cup {new}
  <2> DEFINE old == nodes[parent].kids
  <2>1. old \in Seq(Nat) /\ up.kids = Append(old, new)
    BY <1>2 DEF NodeType
  <2> HIDE DEF new, up, old
  <2>2. ToSet(Append(old, new)) = ToSet(old) \cup {new}
    BY <2>1, <1>1, AppendSet
  <2> QED BY <2>1, <2>2 DEF Kids, old
<1>7. /\ up.path = nodes[parent].path /\ up.hole = nodes[parent].hole
      /\ up.wild = nodes[parent].wild /\ up.handler = nodes[parent].handler
  BY <1>2 DEF NodeType
<1>8. leaf.path = path /\ ToSet(leaf.kids) = {} /\ leaf.wild = 0 /\ leaf.handler = 0
  BY DEF Node, ToSet
<1> HIDE DEF new, leaf, up
<1>9. Grown(NodeType, nodes', nodes, parent, up, leaf)
  BY <1>1, <1>3, <1>4, <1>5, AppendExcept
<1>10. nodes' \in Seq(NodeType) /\ Len(nodes') = new /\ nodes'[parent] = up /\ nodes'[new] = leaf
       /\ \A k \in 1 .. Len(nodes) : k # parent => nodes'[k] = nodes[k]
  BY <1>9 DEF Grown, new
<1>11. new \notin Ids /\ Ids' = Ids \cup {new} /\ new > 1
  <2>1. Ids' = 1 .. new
    BY <1>10 DEF Ids
  <2> QED BY <2>1, <1>1 DEF new
<1>12. \A n \in Ids : /\ nodes'[n].path = nodes[n].path /\ nodes'[n].hole = nodes[n].hole
                      /\ nodes'[n].wild = nodes[n].wild /\ nodes'[n].handler = nodes[n].handler
                      /\ ToSet(nodes'[n].kids) = IF n = parent THEN Kids(n) \cup {new} ELSE Kids(n)
  BY <1>1, <1>6, <1>7, <1>10 DEF Kids
<1> QED BY <1>1, <1>8, <1>10, <1>11, <1>12 DEF Added, new

\* A new leaf keeps the shape of the tree ...
LEMMA AddIsTree ==
  ASSUME TypeOK, IsTree, begun' = begun, NEW parent \in Ids, NEW path, Added(parent, path)
  PROVE  IsTree'
<1> DEFINE new == Len(nodes) + 1
           kids(n) == ToSet(nodes'[n].kids)
<1> USE DEF Added
<1>1. /\ new \notin Ids /\ Ids' = Ids \cup {new} /\ new > 1 /\ new \in Nat
      /\ nodes'[new].wild = 0 /\ nodes'[new].handler = 0 /\ kids(new) = {}
      /\ \A n \in Ids : /\ nodes'[n].hole = nodes[n].hole /\ nodes'[n].wild = nodes[n].wild
                        /\ nodes'[n].handler = nodes[n].handler
                        /\ kids(n) = IF n = parent THEN Kids(n) \cup {new} ELSE Kids(n)
  OBVIOUS
<1>2. 1 \in Ids /\ 0 \notin Ids' /\ 0 \in 0 .. begun
  BY <1>1 DEF IsTree, TypeOK, Ids
<1>3. \A n \in Ids' : Kids(n)' = kids(n)
  BY DEF Kids
<1> HIDE DEF new, kids, Added
<1>4. ASSUME NEW n \in Ids'
      PROVE  /\ kids(n) \subseteq Ids' \ {1, n}
             /\ nodes'[n].wild \in {0} \cup Ids
             /\ nodes'[n].wild # 0 => nodes'[nodes'[n].wild].hole \in Holes
             /\ nodes'[n].handler \in 0 .. begun
  <2>1. CASE n = new
    BY <2>1, <1>1, <1>2
  <2>2. CASE n \in Ids
    <3>1. Kids(n) \subseteq Ids \ {1, n} /\ nodes[n].wild \in {0} \cup Ids
          /\ (nodes[n].wild # 0 => nodes[nodes[n].wild].hole \in Holes) /\ nodes[n].handler \in 0 .. begun
      BY <2>2 DEF IsTree
    <3> QED BY <2>2, <3>1, <1>1, <1>2
  <2> QED BY <2>1, <2>2, <1>1
<1>5. ASSUME NEW n \in Ids', NEW m \in Ids'
      PROVE  nodes'[m].wild \notin kids(n) /\ (n # m => kids(n) \cap kids(m) = {})
  <2>1. CASE n = new \/ m = new
    BY <2>1, <1>1, <1>2, <1>4
  <2>2. CASE n \in Ids /\ m \in Ids
    <3>1. nodes[m].wild \notin Kids(n) /\ (n # m => Kids(n) \cap Kids(m) = {})
          /\ nodes[m].wild \in {0} \cup Ids /\ Kids(n) \subseteq Ids /\ Kids(m) \subseteq Ids
      BY <2>2 DEF IsTree
    <3> QED BY <2>2, <3>1, <1>1, <1>2
  <2> QED BY <2>1, <2>2, <1>1
<1> QED BY <1>2, <1>1, <1>3, <1>4, <1>5 DEF IsTree

\* ... and the texts.
LEMMA AddSpells ==
  ASSUME TypeOK, IsTree, TextsSpelled, UNCHANGED <<routes, begun>>, begun \in DOMAIN routes, 
         NEW parent \in Ids, NEW path \in Seq(Characters), Added(parent, path),
         Add(parent, path), After \in Seq(Signs),
         (text[parent] \o Letters(path)) \o Letters(After) = Letters(Pattern(routes[begun]))
  PROVE  TextsSpelled'
<1> DEFINE new == Len(nodes) + 1
           word == text[parent] \o Letters(path)
           goal(i) == Letters(Pattern(routes[i]))
           kids(n) == ToSet(nodes'[n].kids)
<1>1. /\ new \notin Ids /\ Ids' = Ids \cup {new} /\ new > 1
      /\ nodes'[new].path = path /\ kids(new) = {} /\ nodes'[new].wild = 0 /\ nodes'[new].handler = 0
      /\ \A n \in Ids : /\ nodes'[n].path = nodes[n].path /\ nodes'[n].hole = nodes[n].hole
                        /\ nodes'[n].wild = nodes[n].wild /\ nodes'[n].handler = nodes[n].handler
                        /\ kids(n) = IF n = parent THEN Kids(n) \cup {new} ELSE Kids(n)
  BY DEF Added
<1>2. 1 \in Ids /\ Ids = 1 .. Len(text) /\ new = Len(text) + 1 /\ new # 0 /\ Len(text) \in Nat
  BY DEF IsTree, TypeOK, Ids
<1>3. Letters(path) \in Seq(Alphabet) /\ Letters(After) \in Seq(Alphabet) /\ text \in Seq(Seq(Alphabet))
      /\ text[parent] \in Seq(Alphabet)
  <2>1. path \in Seq(Signs)
    BY DEF Signs
  <2>2. Letters(path) \in Seq(Alphabet)
    BY <2>1, LettersType DEF Alphabet
  <2>3. Letters(After) \in Seq(Alphabet)
    <3> DEFINE a == After
    <3> HIDE DEF a
    <3>1. Letters(a) \in Seq(Alphabet)
      BY LettersType DEF Alphabet, a
    <3> QED BY <3>1 DEF a
  <2>4. text \in Seq(Seq(Alphabet))
    BY DEF TypeOK, Alphabet
  <2> QED BY <2>2, <2>3, <2>4, <1>2
<1>4. word \in Seq(Alphabet)
  BY <1>3
<1>5. text' = Append(text, word) /\ at' = new /\ rest' = After
  BY DEF Add, Call
<1> HIDE DEF word
<1>6. /\ text'[new] = word /\ \A n \in Ids : text'[n] = text[n]
  BY <1>2, <1>3, <1>4, <1>5
<1>7. IsPrefix(word, goal(begun)) /\ word \o Letters(After) = goal(begun)
  <2>1. word \o Letters(After) = goal(begun)
    BY DEF word
  <2>2. IsPrefix(word, word \o Letters(After))
    <3> DEFINE a == Letters(After)
    <3> HIDE DEF a
    <3> QED BY <1>3, <1>4, PrefixOf DEF a
  <2> QED BY <2>1, <2>2
<1>8. begun \in 1 .. begun /\ begun \in Nat
  BY DEF TypeOK
<1> HIDE DEF goal, kids, new
<1>9. ASSUME NEW n \in Ids'
      PROVE  /\ \A kid \in kids(n) : text'[kid] = text'[n] \o Letters(nodes'[kid].path)
             /\ nodes'[n].wild # 0 => text'[nodes'[n].wild] = Append(text'[n], nodes'[nodes'[n].wild].hole)
             /\ nodes'[n].handler # 0 => text'[n] = goal(nodes'[n].handler)
             /\ n # 1 => \E i \in 1 .. begun : IsPrefix(text'[n], goal(i))
  <2>1. CASE n = new
    BY <2>1, <1>1, <1>6, <1>7, <1>8
  <2>2. CASE n \in Ids
    <3>1. /\ \A kid \in Kids(n) : kid \in Ids /\ text[kid] = text[n] \o Letters(nodes[kid].path)
          /\ nodes[n].wild # 0 => /\ nodes[n].wild \in Ids
                                  /\ text[nodes[n].wild] = Append(text[n], nodes[nodes[n].wild].hole)
          /\ nodes[n].handler # 0 => text[n] = goal(nodes[n].handler)
          /\ n # 1 => \E i \in 1 .. begun : IsPrefix(text[n], goal(i))
      BY <2>2 DEF TextsSpelled, IsTree, goal
    <3>2. ASSUME NEW kid \in kids(n) PROVE text'[kid] = text'[n] \o Letters(nodes'[kid].path)
      <4>1. CASE kid \in Kids(n)
        BY <4>1, <3>1, <2>2, <1>1, <1>6
      <4>2. CASE kid = new /\ n = parent
        BY <4>2, <1>1, <1>6 DEF word
      <4> QED BY <4>1, <4>2, <2>2, <1>1
    <3> QED BY <3>1, <3>2, <2>2, <1>1, <1>6
  <2> QED BY <2>1, <2>2, <1>1
<1>10. text'[1] = <<>>
  BY <1>2, <1>6 DEF TextsSpelled
<1>11. at' # 0 /\ text'[at'] \o Letters(rest') = goal(begun)
  BY <1>2, <1>5, <1>6, <1>7
<1>12. \A n \in Ids' : Kids(n)' = kids(n)
  BY DEF Kids, kids
<1> QED BY <1>9, <1>10, <1>11, <1>12 DEF TextsSpelled, goal

\* What holds while a call of insert is at hand.
LEMMA Busy ==
  ASSUME TypeOK, AfterWalk, at # 0
  PROVE  /\ at \in Ids /\ begun # 0 /\ begun \in DOMAIN routes /\ walked = Len(Files)
         /\ text[at] \in Seq(Alphabet) /\ rest \in Seq(Signs)
<1>1. at \in Ids /\ begun # 0 /\ walked = Len(Files) /\ begun \in 0 .. Len(routes) /\ rest \in Seq(Signs)
  BY DEF TypeOK, AfterWalk
<1>2. begun \in DOMAIN routes
  BY <1>1 DEF TypeOK
<1>3. text[at] \in Seq(Alphabet)
  BY <1>1 DEF TypeOK, Ids, Alphabet
<1> QED BY <1>1, <1>2, <1>3

Unwalked == UNCHANGED <<walked, routes, layouts, static>>

\* Add keeps the tree sound when the leaf's text is on the way to the pattern
\* that is being inserted.
LEMMA AddKeeps ==
  ASSUME TreeSpelled, Inserting, Unwalked,
         NEW parent \in Ids, NEW path \in Seq(Characters), Add(parent, path),
         Orderly /\ TextsSpelled =>
           text[parent] \o Letters(path) = text[at] \o Letters(Own) \/
           (text[parent] \o Letters(path)) \o Letters(After) = text[at] \o Letters(rest)
  PROVE  TreeSpelled'
<1> DEFINE word == text[parent] \o Letters(path)
<1>1. TypeOK /\ IsTree /\ AfterWalk /\ begun' = begun /\ routes' = routes /\ walked' = walked /\ at # 0
  BY DEF TreeSpelled, Inserting, Unwalked
<1>2. /\ at \in Ids /\ begun # 0 /\ begun \in DOMAIN routes /\ walked = Len(Files)
      /\ text[at] \in Seq(Alphabet) /\ rest \in Seq(Signs)
  BY <1>1, Busy
<1>3. Added(parent, path)
  BY <1>1, AddNodes
<1>4. Own \in Seq(Characters) /\ After \in Seq(Signs) /\ Letters(rest) = Letters(Own) \o Letters(After)
  BY <1>2, RestFacts
<1>5. word \in Seq(Alphabet)
  <2>1. text[parent] \in Seq(Alphabet)
    BY <1>1 DEF TypeOK, Ids, Alphabet
  <2>2. path \in Seq(Signs)
    BY DEF Signs
  <2>3. Letters(path) \in Seq(Alphabet)
    BY <2>2, LettersType DEF Alphabet
  <2> QED BY <2>1, <2>3
<1>6. TypeOK'
  <2>1. nodes' \in Seq(NodeType) /\ Len(nodes') = Len(nodes) + 1
    BY <1>3 DEF Added
  <2>2. text' \in Seq(Seq(Alphabet)) /\ Len(text') = Len(text) + 1
    <3>1. text' = Append(text, word) /\ text \in Seq(Seq(Alphabet))
      BY <1>1 DEF Add, TypeOK, Alphabet
    <3> HIDE DEF word
    <3> DEFINE A == Seq(Alphabet)
    <3> HIDE DEF A
    <3>2. word \in A /\ text \in Seq(A)
      BY <3>1, <1>5 DEF A
    <3>3. text' \in Seq(A) /\ Len(text') = Len(text) + 1
      BY <3>1, <3>2
    <3> QED BY <3>3 DEF A
  <2>3. at' \in Ids' /\ rest' \in Seq(Signs)
    BY <1>3, <1>4 DEF Add, Call, Added
  <2> QED BY <2>1, <2>2, <2>3, <1>1 DEF TypeOK, Alphabet, NodeType
<1>7. AfterWalk'
  BY <1>1, <1>2 DEF AfterWalk
<1>8. IsTree'
  BY <1>1, <1>3, AddIsTree
<1>9. ASSUME Orderly PROVE TextsSpelled'
  <2>1. TextsSpelled
    BY <1>9 DEF TreeSpelled
  <2>2. text[at] \o Letters(rest) = Letters(Pattern(routes[begun]))
    BY <2>1, <1>1 DEF TextsSpelled
  <2>3. word \o Letters(After) = text[at] \o Letters(rest)
    <3> DEFINE a == text[at]
               b == Letters(Own)
               c == Letters(After)
    <3>1. a \in Seq(Alphabet) /\ b \in Seq(Alphabet) /\ c \in Seq(Alphabet)
      <4>1. Own \in Seq(Signs)
        BY <1>4 DEF Signs
      <4>2. Letters(Own) \in Seq(Alphabet)
        <5> DEFINE o == Own
        <5> HIDE DEF o
        <5>1. Letters(o) \in Seq(Alphabet)
          BY <4>1, LettersType DEF Alphabet, o
        <5> QED BY <5>1 DEF o
      <4>3. Letters(After) \in Seq(Alphabet)
        <5> DEFINE o == After
        <5> HIDE DEF o
        <5>1. Letters(o) \in Seq(Alphabet)
          BY <1>4, LettersType DEF Alphabet, o
        <5> QED BY <5>1 DEF o
      <4> QED BY <1>2, <4>2, <4>3
    <3>2. word = a \o b \/ word \o c = text[at] \o Letters(rest)
      BY <1>9, <2>1
    <3>3. Letters(rest) = b \o c
      BY <1>4
    <3> HIDE DEF a, b, c, word
    <3>4. a \o (b \o c) = (a \o b) \o c
      BY <3>1, ConcatAssoc
    <3> QED BY <3>2, <3>3, <3>4 DEF a, c
  <2> HIDE DEF word
  <2>4. (text[parent] \o Letters(path)) \o Letters(After) = Letters(Pattern(routes[begun]))
    BY <2>2, <2>3 DEF word
  <2> QED BY <2>1, <2>4, <1>1, <1>2, <1>3, <1>4, AddSpells
<1> QED BY <1>1, <1>6, <1>7, <1>8, <1>9, OrderlyStays DEF TreeSpelled

\* insert makes a child for the characters before the placeholder.
LEMMA AddChildKeeps == ASSUME TreeSpelled, AddChild, Unwalked PROVE TreeSpelled'
<1>1. Inserting /\ at \in Ids /\ Own \in Seq(Characters) /\ Add(at, Own)
  BY Busy, RestFacts DEF AddChild, OnText, TreeSpelled, Inserting
<1> QED BY <1>1, AddKeeps

Begins(u, s, x) ==
  Len(s) + 1 \in DOMAIN u /\ u[Len(s) + 1] = x /\ SubSeq(u, 1, Len(s) + 1 - 1) = s

\* A sequence with the prefix Append(s, x) begins with s and goes on with x.
LEMMA PrefixBegins ==
  ASSUME NEW E, NEW s \in Seq(E), NEW x \in E, NEW u \in Seq(E), IsPrefix(Append(s, x), u)
  PROVE  Begins(u, s, x)
<1> DEFINE t == Append(s, x)
           m == Len(s)
<1>1. t \in Seq(E) /\ Len(t) = m + 1 /\ t[m + 1] = x /\ \A i \in 1 .. m : t[i] = s[i]
  OBVIOUS
<1> HIDE DEF t
<1>2. Len(t) <= Len(u) /\ SubSeq(t, 1, Len(t)) = SubSeq(u, 1, Len(t))
  BY DEF IsPrefix, t
<1>3. \A i \in 1 .. m + 1 : u[i] = t[i]
  <2>1. \A i \in 1 .. m + 1 : SubSeq(t, 1, Len(t))[i] = t[i] /\ SubSeq(u, 1, Len(t))[i] = u[i]
    BY <1>1, <1>2
  <2> QED BY <2>1, <1>2
<1>4. m \in Nat /\ m + 1 \in DOMAIN u /\ u[m + 1] = x
  BY <1>1, <1>2, <1>3
<1>5. SubSeq(u, 1, m) = s
  <2>1. SubSeq(u, 1, m) \in Seq(E) /\ Len(SubSeq(u, 1, m)) = m /\ \A i \in 1 .. m : SubSeq(u, 1, m)[i] = u[i]
    BY <1>4
  <2>2. \A i \in 1 .. m : u[i] = s[i]
    BY <1>1, <1>3
  <2> DEFINE v == SubSeq(u, 1, m)
  <2> HIDE DEF v
  <2>3. v = s
    BY <2>1, <2>2, SameItems DEF v
  <2> QED BY <2>3 DEF v
<1>6. m + 1 - 1 = m
  BY <1>4
<1> QED BY <1>4, <1>5, <1>6 DEF Begins

\* So does the concatenation of s, x and anything.
LEMMA ConcatBegins ==
  ASSUME NEW E, NEW s \in Seq(E), NEW x \in E, NEW t \in Seq(E)
  PROVE  /\ s \o (<< x >> \o t) = Append(s, x) \o t
         /\ IsPrefix(Append(s, x), s \o (<< x >> \o t))
<1> DEFINE o == << x >>
           a == Append(s, x)
<1>1. o \in Seq(E) /\ a = s \o o /\ a \in Seq(E)
  OBVIOUS
<1> HIDE DEF o, a
<1>2. s \o (o \o t) = a \o t
  BY <1>1, ConcatAssoc
<1>3. IsPrefix(a, a \o t)
  BY <1>1, PrefixOf
<1> QED BY <1>2, <1>3 DEF o, a

\* Two placeholders behind one text are the same.
LEMMA OneHole ==
  ASSUME TypeOK, Orderly, NEW i \in DOMAIN routes, NEW j \in DOMAIN routes,
         NEW s \in Seq(Alphabet), NEW x \in Holes, NEW y \in Holes,
         IsPrefix(Append(s, x), Letters(Pattern(routes[i]))),
         IsPrefix(Append(s, y), Letters(Pattern(routes[j])))
  PROVE  x = y
<1> DEFINE u == Letters(Pattern(routes[i]))
           v == Letters(Pattern(routes[j]))
           k == Len(s) + 1
<1>1. u \in Seq(Alphabet) /\ v \in Seq(Alphabet) /\ x \in Alphabet /\ y \in Alphabet
  BY RouteLetters, Letterwise
<1>2. IsPrefix(Append(s, x), u) /\ IsPrefix(Append(s, y), v)
  OBVIOUS
<1>3. Begins(u, s, x) /\ Begins(v, s, y)
  <2> HIDE DEF u, v
  <2> QED BY <1>1, <1>2, PrefixBegins
<1>4. /\ k \in DOMAIN u /\ u[k] = x /\ SubSeq(u, 1, k - 1) = s
      /\ k \in DOMAIN v /\ v[k] = y /\ SubSeq(v, 1, k - 1) = s
  BY <1>3 DEF Begins
<1>5. \A n \in DOMAIN u : n \in DOMAIN u /\ u[n] \in Holes /\ n \in DOMAIN v /\ v[n] \in Holes
        /\ SubSeq(u, 1, n - 1) = SubSeq(v, 1, n - 1) => u[n] = v[n]
  BY DEF Orderly
<1> HIDE DEF u, v, k
<1> QED BY <1>4, <1>5

\* insert goes on in the wildcard there is: it stands for the same placeholder.
LEMMA WildOldKeeps ==
  ASSUME TreeSpelled, InsertWild, Unwalked, nodes[at].wild # 0
  PROVE  TreeSpelled'
<1> DEFINE w == nodes[at].wild
           hole == Head(After)
           tail == Trim(Tail(After))
           goal(i) == Letters(Pattern(routes[i]))
<1>1. TypeOK /\ IsTree /\ AfterWalk /\ begun' = begun /\ routes' = routes /\ walked' = walked /\ at # 0
      /\ rest \notin {<<>>, <<Slash>>} /\ Own = <<>>
      /\ UNCHANGED <<nodes, text>> /\ at' = w /\ rest' = tail
  BY DEF TreeSpelled, InsertWild, Inserting, Unwalked, Call
<1>2. /\ at \in Ids /\ begun # 0 /\ begun \in DOMAIN routes /\ walked = Len(Files)
      /\ text[at] \in Seq(Alphabet) /\ rest \in Seq(Signs)
  BY <1>1, Busy
<1>3. /\ hole \in Holes /\ Tail(After) \in Seq(Signs)
      /\ Letters(rest) = << hole >> \o Letters(tail)
  BY <1>1, <1>2, RestFacts
<1>4. tail \in Seq(Signs)
  <2> DEFINE b == Tail(After)
  <2> HIDE DEF b
  <2>1. Trim(b) \in Seq(Signs)
    BY <1>3, TrimLetters DEF b
  <2> QED BY <2>1 DEF b
<1>5. w \in Ids /\ nodes[w].hole \in Holes
  BY <1>1, <1>2 DEF IsTree
<1>6. TypeOK'
  BY <1>1, <1>4, <1>5 DEF TypeOK, Ids
<1>7. AfterWalk'
  BY <1>1, <1>2 DEF AfterWalk
<1>8. IsTree'
  BY <1>1 DEF IsTree, Ids, Kids
<1>9. ASSUME Orderly PROVE TextsSpelled'
  <2>1. TextsSpelled
    BY <1>9 DEF TreeSpelled
  <2>2. text[at] \o Letters(rest) = goal(begun)
    BY <2>1, <1>1 DEF TextsSpelled
  <2>3. text[w] = Append(text[at], nodes[w].hole) /\ text[1] = <<>>
    BY <2>1, <1>2, <1>5 DEF TextsSpelled, IsTree, Ids
  <2>4. w # 1
    <3>1. Len(text[w]) # 0
      BY <2>3, <1>2
    <3> QED BY <3>1, <2>3
  <2>5. PICK i \in 1 .. begun : IsPrefix(text[w], goal(i))
    BY <2>1, <2>4, <1>5 DEF TextsSpelled
  <2>6. i \in DOMAIN routes
    BY <1>1 DEF TypeOK
  <2>7. Letters(tail) \in Seq(Alphabet) /\ hole \in Alphabet
    <3> HIDE DEF tail
    <3> QED BY <1>3, <1>4, LettersType, Letterwise DEF Alphabet
  <2> HIDE DEF hole, tail, w
  <2>8. /\ text[at] \o (<< hole >> \o Letters(tail)) = Append(text[at], hole) \o Letters(tail)
        /\ IsPrefix(Append(text[at], hole), text[at] \o (<< hole >> \o Letters(tail)))
    <3> DEFINE a == text[at]
               b == Letters(tail)
    <3>1. a \in Seq(Alphabet) /\ b \in Seq(Alphabet)
      BY <1>2, <2>7
    <3> HIDE DEF a, b
    <3>2. a \o (<< hole >> \o b) = Append(a, hole) \o b /\ IsPrefix(Append(a, hole), a \o (<< hole >> \o b))
      BY <3>1, <2>7, ConcatBegins
    <3> QED BY <3>2 DEF a, b
  <2>9. IsPrefix(Append(text[at], hole), goal(begun))
    BY <2>8, <2>2, <1>3
  <2>10. hole = nodes[w].hole
    <3>1. IsPrefix(Append(text[at], nodes[w].hole), goal(i))
      BY <2>3, <2>5
    <3> DEFINE a == text[at]
               y == nodes[w].hole
    <3>2. a \in Seq(Alphabet) /\ y \in Holes /\ IsPrefix(Append(a, y), goal(i)) /\ IsPrefix(Append(a, hole), goal(begun))
      BY <1>2, <1>5, <3>1, <2>9
    <3> HIDE DEF a, y
    <3>3. hole = y
      BY <3>2, <2>6, <1>1, <1>2, <1>3, <1>9, OneHole
    <3> QED BY <3>3 DEF y
  <2>11. text[w] \o Letters(tail) = goal(begun)
    BY <2>2, <2>3, <2>8, <2>10, <1>3
  <2>12. text'[at'] \o Letters(rest') = Letters(Pattern(routes'[begun']))
    BY <2>11, <1>1
  <2> HIDE DEF goal
  <2>13. /\ text'[1] = <<>>
         /\ \A n \in Ids' :
              /\ \A kid \in Kids(n)' : text'[kid] = text'[n] \o Letters(nodes'[kid].path)
              /\ nodes'[n].wild # 0 => text'[nodes'[n].wild] = Append(text'[n], nodes'[nodes'[n].wild].hole)
              /\ nodes'[n].handler # 0 => text'[n] = Letters(Pattern(routes'[nodes'[n].handler]))
              /\ n # 1 => \E k \in 1 .. begun' : IsPrefix(text'[n], Letters(Pattern(routes'[k])))
    BY <2>1, <1>1 DEF TextsSpelled, Ids, Kids
  <2> QED BY <2>12, <2>13 DEF TextsSpelled
<1> QED BY <1>1, <1>6, <1>7, <1>8, <1>9, OrderlyStays DEF TreeSpelled

\* insert makes the wildcard.
LEMMA WildNewKeeps ==
  ASSUME TreeSpelled, InsertWild, Unwalked, nodes[at].wild = 0
  PROVE  TreeSpelled'
<1> DEFINE new == Len(nodes) + 1
           hole == Head(After)
           tail == Trim(Tail(After))
           word == Append(text[at], hole)
           leaf == Node(<<>>, hole)
           up == [nodes[at] EXCEPT !.wild = new]
           goal(i) == Letters(Pattern(routes[i]))
           kids(n) == ToSet(nodes'[n].kids)
<1>1. TypeOK /\ IsTree /\ AfterWalk /\ begun' = begun /\ routes' = routes /\ walked' = walked /\ at # 0
      /\ rest \notin {<<>>, <<Slash>>} /\ Own = <<>>
      /\ nodes' = Append([nodes EXCEPT ![at] = up], leaf) /\ text' = Append(text, word)
      /\ at' = new /\ rest' = tail
  BY DEF TreeSpelled, InsertWild, Inserting, Unwalked, Call
<1>2. /\ at \in Ids /\ begun # 0 /\ begun \in DOMAIN routes /\ walked = Len(Files)
      /\ text[at] \in Seq(Alphabet) /\ rest \in Seq(Signs)
  BY <1>1, Busy
<1>3. /\ hole \in Holes /\ Tail(After) \in Seq(Signs)
      /\ Letters(rest) = << hole >> \o Letters(tail)
  BY <1>1, <1>2, RestFacts
<1>4. tail \in Seq(Signs)
  <2> DEFINE b == Tail(After)
  <2> HIDE DEF b
  <2>1. Trim(b) \in Seq(Signs)
    BY <1>3, TrimLetters DEF b
  <2> QED BY <2>1 DEF b
<1>5. nodes \in Seq(NodeType) /\ at \in 1 .. Len(nodes) /\ new \in Nat /\ new > 1 /\ Ids = 1 .. Len(nodes)
      /\ Len(nodes) \in Nat /\ Len(text) = Len(nodes) /\ text \in Seq(Seq(Alphabet))
  <2>1. text \in Seq(Seq(Alphabet))
    BY <1>1 DEF TypeOK, Alphabet
  <2> QED BY <2>1, <1>1, <1>2 DEF TypeOK, Ids
<1>6. nodes[at] \in NodeType /\ leaf \in NodeType /\ up \in NodeType
  <2>1. nodes[at] \in NodeType
    BY <1>5
  <2>2. leaf \in NodeType
    <3>1. <<>> \in Seq(Characters) /\ <<>> \in Seq(Nat) /\ 0 \in Nat
      OBVIOUS
    <3> HIDE DEF hole
    <3> QED BY <1>3, <3>1 DEF Node, NodeType
  <2>3. up \in NodeType
    <3> HIDE DEF new
    <3> QED BY <2>1, <1>5 DEF NodeType
  <2> QED BY <2>1, <2>2, <2>3
<1>7. /\ up.path = nodes[at].path /\ up.hole = nodes[at].hole /\ up.wild = new
      /\ up.handler = nodes[at].handler /\ up.kids = nodes[at].kids
      /\ leaf.hole = hole /\ leaf.kids = <<>> /\ leaf.wild = 0 /\ leaf.handler = 0
  BY <1>6 DEF NodeType, Node
<1> HIDE DEF up, leaf
<1>8. nodes' \in Seq(NodeType) /\ Len(nodes') = new /\ nodes'[at] = up /\ nodes'[new] = leaf
      /\ \A k \in 1 .. Len(nodes) : k # at => nodes'[k] = nodes[k]
  <2>1. Grown(NodeType, nodes', nodes, at, up, leaf)
    BY <1>1, <1>5, <1>6, AppendExcept
  <2> QED BY <2>1 DEF Grown
<1> HIDE DEF new
<1>9. new \notin Ids /\ Ids' = Ids \cup {new} /\ 1 \in Ids /\ 0 \notin Ids' /\ 0 \in 0 .. begun /\ begun \in 1 .. begun
      /\ new = Len(nodes) + 1
  <2>1. Ids' = 1 .. new
    BY <1>8 DEF Ids
  <2>2. 0 \in 0 .. begun /\ begun \in 1 .. begun
    <3>1. begun \in Nat
      BY <1>1 DEF TypeOK
    <3> QED BY <3>1, <1>2
  <2>3. new = Len(nodes) + 1
    BY DEF new
  <2> QED BY ONLY <2>1, <2>2, <2>3, <1>5
<1>10. /\ kids(new) = {} /\ nodes'[new].wild = 0 /\ nodes'[new].handler = 0 /\ nodes'[new].hole = hole
       /\ \A n \in Ids : /\ nodes'[n].path = nodes[n].path /\ nodes'[n].hole = nodes[n].hole
                         /\ nodes'[n].wild = (IF n = at THEN new ELSE nodes[n].wild)
                         /\ nodes'[n].handler = nodes[n].handler
                         /\ kids(n) = Kids(n)
  <2>1. ToSet(leaf.kids) = {}
    BY <1>7 DEF ToSet
  <2> QED BY <2>1, <1>5, <1>7, <1>8 DEF Kids
<1>11. \A n \in Ids' : Kids(n)' = kids(n)
  BY DEF Kids
<1>12. word \in Seq(Alphabet) /\ hole \in Alphabet
  BY <1>2, <1>3, Letterwise
<1> HIDE DEF word
<1>13. text' \in Seq(Seq(Alphabet)) /\ Len(text') = new /\ text'[new] = word /\ \A n \in Ids : text'[n] = text[n]
  <2> DEFINE A == Seq(Alphabet)
  <2>1. word \in A /\ text \in Seq(A)
    BY <1>5, <1>12
  <2> HIDE DEF A
  <2>2. Longer(A, text', text, word)
    BY <2>1, <1>1, AppendItems
  <2> QED BY <2>2, <1>5, <1>9 DEF Longer, A
<1> HIDE DEF kids, hole, tail
<1>14. TypeOK'
  BY <1>1, <1>4, <1>8, <1>9, <1>13 DEF TypeOK, Alphabet, NodeType
<1>15. AfterWalk'
  BY <1>1, <1>2 DEF AfterWalk
<1>16. IsTree'
  <2>1. ASSUME NEW n \in Ids'
        PROVE  /\ kids(n) \subseteq Ids' \ {1, n}
               /\ nodes'[n].wild \in {0} \cup (Ids' \ {1, n})
               /\ nodes'[n].wild # 0 => nodes'[nodes'[n].wild].hole \in Holes
               /\ nodes'[n].handler \in 0 .. begun
    <3>1. CASE n = new
      BY <3>1, <1>9, <1>10
    <3>2. CASE n \in Ids
      <4>1. Kids(n) \subseteq Ids \ {1, n} /\ nodes[n].wild \in {0} \cup (Ids \ {1, n})
            /\ (nodes[n].wild # 0 => nodes[nodes[n].wild].hole \in Holes) /\ nodes[n].handler \in 0 .. begun
        BY <3>2, <1>1 DEF IsTree
      <4> QED BY <3>2, <4>1, <1>3, <1>9, <1>10
    <3> QED BY <3>1, <3>2, <1>9
  <2>2. ASSUME NEW n \in Ids', NEW m \in Ids'
        PROVE  /\ nodes'[m].wild \notin kids(n)
               /\ n # m => kids(n) \cap kids(m) = {} /\ (nodes'[n].wild # 0 => nodes'[n].wild # nodes'[m].wild)
    <3>1. CASE n = new \/ m = new
      BY <3>1, <1>9, <1>10, <2>1
    <3>2. CASE n \in Ids /\ m \in Ids
      <4>1. nodes[m].wild \notin Kids(n)
            /\ (n # m => Kids(n) \cap Kids(m) = {} /\ (nodes[n].wild # 0 => nodes[n].wild # nodes[m].wild))
            /\ nodes[n].wild \in {0} \cup Ids /\ nodes[m].wild \in {0} \cup Ids
            /\ Kids(n) \subseteq Ids /\ Kids(m) \subseteq Ids
        BY <3>2, <1>1 DEF IsTree
      <4> QED BY <3>2, <4>1, <1>9, <1>10
    <3> QED BY <3>1, <3>2, <1>9
  <2>3. begun' = begun /\ 1 \in Ids'
    BY <1>1, <1>9
  <2> QED BY <2>1, <2>2, <2>3, <1>11 DEF IsTree
<1>17. ASSUME Orderly PROVE TextsSpelled'
  <2>1. TextsSpelled
    BY <1>17 DEF TreeSpelled
  <2>2. text[at] \o Letters(rest) = goal(begun)
    BY <2>1, <1>1 DEF TextsSpelled
  <2>7. Letters(tail) \in Seq(Alphabet)
    BY <1>4, LettersType DEF Alphabet
  <2>8. word \o Letters(tail) = goal(begun) /\ IsPrefix(word, goal(begun))
    <3> DEFINE a == text[at]
               b == Letters(tail)
    <3>1. a \in Seq(Alphabet) /\ b \in Seq(Alphabet) /\ word = Append(a, hole) /\ a \o (<< hole >> \o b) = goal(begun)
      BY <1>2, <1>3, <2>2, <2>7 DEF word
    <3> HIDE DEF a, b, goal
    <3>2. a \o (<< hole >> \o b) = Append(a, hole) \o b /\ IsPrefix(Append(a, hole), a \o (<< hole >> \o b))
      BY <3>1, <1>12, ConcatBegins
    <3> QED BY <3>1, <3>2 DEF b
  <2> HIDE DEF goal
  <2>9. ASSUME NEW n \in Ids'
        PROVE  /\ \A kid \in kids(n) : text'[kid] = text'[n] \o Letters(nodes'[kid].path)
               /\ nodes'[n].wild # 0 => text'[nodes'[n].wild] = Append(text'[n], nodes'[nodes'[n].wild].hole)
               /\ nodes'[n].handler # 0 => text'[n] = goal(nodes'[n].handler)
               /\ n # 1 => \E i \in 1 .. begun : IsPrefix(text'[n], goal(i))
    <3>1. CASE n = new
      BY <3>1, <1>9, <1>10, <1>13, <2>8
    <3>2. CASE n \in Ids
      <4>1. /\ \A kid \in Kids(n) : kid \in Ids /\ text[kid] = text[n] \o Letters(nodes[kid].path)
            /\ nodes[n].wild # 0 => /\ nodes[n].wild \in Ids
                                    /\ text[nodes[n].wild] = Append(text[n], nodes[nodes[n].wild].hole)
            /\ nodes[n].handler # 0 => text[n] = goal(nodes[n].handler)
            /\ n # 1 => \E i \in 1 .. begun : IsPrefix(text[n], goal(i))
        BY <3>2, <1>1, <2>1 DEF TextsSpelled, IsTree, goal
      <4>2. nodes'[n].wild # 0 => text'[nodes'[n].wild] = Append(text'[n], nodes'[nodes'[n].wild].hole)
        <5>1. CASE n = at
          <6>1. text'[new] = Append(text[at], hole)
            BY <1>13 DEF word
          <6> QED BY <5>1, <6>1, <3>2, <1>10, <1>13
        <5>2. CASE n # at
          BY <5>2, <4>1, <3>2, <1>10, <1>13
        <5> QED BY <5>1, <5>2
      <4> QED BY <4>1, <4>2, <3>2, <1>10, <1>13
    <3> QED BY <3>1, <3>2, <1>9
  <2>10. text'[1] = <<>>
    BY <1>9, <1>13, <2>1 DEF TextsSpelled
  <2>11. at' # 0 /\ text'[at'] \o Letters(rest') = goal(begun)
    BY <1>1, <1>9, <1>13, <2>8
  <2> QED BY <1>1, <1>11, <2>9, <2>10, <2>11 DEF TextsSpelled, goal
<1> QED BY <1>1, <1>14, <1>15, <1>16, <1>17, OrderlyStays DEF TreeSpelled

\* insert sets the handler of the node whose text is the pattern's.
LEMMA InsertHereKeeps == ASSUME TreeSpelled, InsertHere, Unwalked PROVE TreeSpelled'
<1> DEFINE up == [nodes[at] EXCEPT !.handler = begun]
           goal(i) == Letters(Pattern(routes[i]))
           kids(n) == ToSet(nodes'[n].kids)
<1>1. TypeOK /\ IsTree /\ AfterWalk /\ begun' = begun /\ routes' = routes /\ walked' = walked /\ at # 0
      /\ rest \in {<<>>, <<Slash>>} /\ nodes' = [nodes EXCEPT ![at] = up] /\ text' = text
      /\ at' = 0 /\ rest' = <<>>
  BY DEF TreeSpelled, InsertHere, Inserting, Unwalked, Call
<1>2. /\ at \in Ids /\ begun # 0 /\ begun \in DOMAIN routes /\ walked = Len(Files)
      /\ text[at] \in Seq(Alphabet) /\ rest \in Seq(Signs)
  BY <1>1, Busy
<1>3. nodes \in Seq(NodeType) /\ at \in 1 .. Len(nodes) /\ Ids = 1 .. Len(nodes) /\ begun \in Nat /\ begun \in 0 .. begun
  BY <1>1, <1>2 DEF TypeOK, Ids
<1>4. nodes[at] \in NodeType
  BY <1>3
<1>5. up \in NodeType /\ up.path = nodes[at].path /\ up.hole = nodes[at].hole /\ up.wild = nodes[at].wild
      /\ up.handler = begun /\ up.kids = nodes[at].kids
  BY <1>3, <1>4 DEF NodeType
<1> HIDE DEF up
<1>6. nodes' \in Seq(NodeType) /\ Len(nodes') = Len(nodes) /\ nodes'[at] = up
      /\ \A k \in 1 .. Len(nodes) : k # at => nodes'[k] = nodes[k]
  BY <1>1, <1>3, <1>5
<1>7. Ids' = Ids
  BY <1>3, <1>6 DEF Ids
<1>8. \A n \in Ids : /\ nodes'[n].path = nodes[n].path /\ nodes'[n].hole = nodes[n].hole
                     /\ nodes'[n].wild = nodes[n].wild
                     /\ nodes'[n].handler = (IF n = at THEN begun ELSE nodes[n].handler)
                     /\ Kids(n)' = Kids(n)
  BY <1>3, <1>5, <1>6 DEF Kids
<1>9. TypeOK'
  <2>1. <<>> \in Seq(Signs)
    OBVIOUS
  <2>2. /\ walked \in 0 .. Len(Files) /\ routes \in Seq({file \in ToSet(Files) : ~IsPrivate(file)})
        /\ begun \in 0 .. Len(routes)
        /\ text \in Seq(Seq(Signs \ {Slash})) /\ Len(text) = Len(nodes)
    BY <1>1 DEF TypeOK
  <2> QED BY <2>1, <2>2, <1>1, <1>6 DEF TypeOK, NodeType
<1>10. AfterWalk'
  BY <1>1, <1>2 DEF AfterWalk
<1>11. IsTree'
  BY <1>1, <1>3, <1>7, <1>8 DEF IsTree
<1>12. ASSUME Orderly PROVE TextsSpelled'
  <2>1. TextsSpelled
    BY <1>12 DEF TreeSpelled
  <2>2. text[at] \o Letters(rest) = goal(begun)
    BY <2>1, <1>1 DEF TextsSpelled
  <2>3. Letters(rest) = <<>>
    BY <1>1, LettersFew
  <2>4. text[at] = goal(begun)
    <3>1. text[at] \o <<>> = text[at]
      BY <1>2
    <3> QED BY <3>1, <2>2, <2>3
  <2> HIDE DEF goal
  <2>5. ASSUME NEW n \in Ids
        PROVE  /\ \A kid \in Kids(n) : text[kid] = text[n] \o Letters(nodes'[kid].path)
               /\ nodes'[n].wild # 0 => text[nodes'[n].wild] = Append(text[n], nodes'[nodes'[n].wild].hole)
               /\ nodes'[n].handler # 0 => text[n] = goal(nodes'[n].handler)
               /\ n # 1 => \E i \in 1 .. begun : IsPrefix(text[n], goal(i))
    <3>1. /\ \A kid \in Kids(n) : kid \in Ids /\ text[kid] = text[n] \o Letters(nodes[kid].path)
          /\ nodes[n].wild # 0 => /\ nodes[n].wild \in Ids
                                  /\ text[nodes[n].wild] = Append(text[n], nodes[nodes[n].wild].hole)
          /\ nodes[n].handler # 0 => text[n] = goal(nodes[n].handler)
          /\ n # 1 => \E i \in 1 .. begun : IsPrefix(text[n], goal(i))
      BY <1>1, <2>1 DEF TextsSpelled, IsTree, goal
    <3> QED BY <3>1, <1>8, <2>4
  <2> QED BY <1>1, <1>7, <1>8, <2>1, <2>5 DEF TextsSpelled, goal
<1> QED BY <1>1, <1>9, <1>10, <1>11, <1>12, OrderlyStays DEF TreeSpelled

LEMMA LettersOfText == ASSUME NEW s \in Seq(Signs) PROVE Letters(s) \in Seq(Alphabet)
BY LettersType DEF Alphabet

\* Own is what it shares with the child and what is left.
LEMMA OwnCut ==
  ASSUME TypeOK, IsTree, at \in Ids, Shares, rest \in Seq(Signs)
  PROVE  /\ Left \in Seq(Characters)
         /\ SubSeq(Own, 1, Shared) \in Seq(Signs)
         /\ Letters(Own) = Letters(SubSeq(Own, 1, Shared)) \o Letters(Left)
<1> DEFINE own == Own
           n == Shared
           a == SubSeq(own, 1, n)
           b == Drop(own, n)
<1>1. own \in Seq(Characters) /\ n \in 0 .. Len(own)
  BY RestFacts, ChildFacts
<1> HIDE DEF own, n
<1>2. IsCut(Characters, own, n, SubSeq(own, 1, n), Drop(own, n))
  BY <1>1, Cut
<1>3. a \in Seq(Characters) /\ b \in Seq(Characters) /\ own = a \o b
  BY <1>2 DEF IsCut
<1> HIDE DEF a, b
<1>4. Letters(a \o b) = Letters(a) \o Letters(b)
  BY <1>3, LettersConcat
<1>5. Trim(b) \in Seq(Characters) /\ Letters(Trim(b)) = Letters(b)
  BY <1>3, TrimLetters
<1>6. a \in Seq(Signs)
  BY <1>3 DEF Signs
<1> QED BY <1>3, <1>4, <1>5, <1>6 DEF a, b, own, n, Left

\* What the shared prefix and what is left lead to, under a text.
LEMMA BelowChild ==
  ASSUME TypeOK, IsTree, TextsSpelled, at \in Ids, Shares, rest \in Seq(Signs),
         text[at] \in Seq(Alphabet), Shared = Len(nodes[Child].path)
  PROVE  text[Child] \o Letters(Left) = text[at] \o Letters(Own)
<1> DEFINE path == nodes[Child].path
           a == text[at]
           b == Letters(path)
           c == Letters(Left)
<1>1. Child \in Kids(at) /\ Child \in Ids /\ nodes[Child] \in NodeType
      /\ SubSeq(Own, 1, Shared) = SubSeq(path, 1, Shared)
  BY ChildFacts, KidIsNode
<1>2. path \in Seq(Characters)
  BY <1>1 DEF NodeType
<1>3. SubSeq(path, 1, Shared) = path
  <2> HIDE DEF path
  <2>1. SubSeq(path, 1, Len(path)) = path
    BY <1>2
  <2> QED BY <2>1 DEF path
<1>4. Letters(Own) = b \o c /\ Left \in Seq(Characters) /\ path \in Seq(Signs)
  BY <1>1, <1>3, OwnCut
<1>5. text[Child] = a \o b
  BY <1>1 DEF TextsSpelled
<1>6. a \in Seq(Alphabet) /\ b \in Seq(Alphabet) /\ c \in Seq(Alphabet)
  <2>1. Left \in Seq(Signs)
    BY <1>4 DEF Signs
  <2> DEFINE l == Left
  <2> HIDE DEF l, path
  <2> QED BY <2>1, <1>4, LettersOfText DEF l
<1> HIDE DEF a, b, c
<1>7. a \o (b \o c) = (a \o b) \o c
  BY <1>6, ConcatAssoc
<1> QED BY <1>4, <1>5, <1>7 DEF a, c

\* insert makes a child below the one it has found.
LEMMA AddBelowKeeps == ASSUME TreeSpelled, AddBelow, Unwalked PROVE TreeSpelled'
<1>1. Inserting /\ Shares /\ Shared = Len(nodes[Child].path) /\ Add(Child, Left) /\ TypeOK /\ IsTree
      /\ at \in Ids /\ rest \in Seq(Signs) /\ text[at] \in Seq(Alphabet)
  BY Busy DEF AddBelow, OnText, Inserting, TreeSpelled
<1>2. Child \in Ids /\ Left \in Seq(Characters)
  BY <1>1, ChildFacts, KidIsNode, OwnCut
<1>3. TextsSpelled => text[Child] \o Letters(Left) = text[at] \o Letters(Own)
  BY <1>1, BelowChild
<1> QED BY <1>1, <1>2, <1>3, AddKeeps

\* insert goes on below the child it has found.
LEMMA DescendKeeps == ASSUME TreeSpelled, Descend, Unwalked PROVE TreeSpelled'
<1>1. TypeOK /\ IsTree /\ AfterWalk /\ begun' = begun /\ routes' = routes /\ walked' = walked /\ at # 0
      /\ UNCHANGED <<nodes, text>> /\ at' = Child /\ rest' = Left \o After
      /\ Shares /\ Shared = Len(nodes[Child].path)
  BY DEF TreeSpelled, Descend, OnText, Inserting, Unwalked, Call
<1>2. /\ at \in Ids /\ begun # 0 /\ begun \in DOMAIN routes /\ walked = Len(Files)
      /\ text[at] \in Seq(Alphabet) /\ rest \in Seq(Signs)
  BY <1>1, Busy
<1>3. Child \in Ids /\ Left \in Seq(Signs) /\ After \in Seq(Signs) /\ Own \in Seq(Signs)
      /\ Letters(rest) = Letters(Own) \o Letters(After)
  <2>1. Child \in Ids
    BY <1>1, <1>2, ChildFacts, KidIsNode
  <2>2. Left \in Seq(Characters)
    BY <1>1, <1>2, OwnCut
  <2>3. Own \in Seq(Characters) /\ After \in Seq(Signs) /\ Letters(rest) = Letters(Own) \o Letters(After)
    BY <1>2, RestFacts
  <2>4. \A s \in Seq(Characters) : s \in Seq(Signs)
    BY DEF Signs
  <2> QED BY <2>1, <2>2, <2>3, <2>4
<1>4. /\ Left \o After \in Seq(Signs)
      /\ Letters(Left \o After) = Letters(Left) \o Letters(After)
      /\ Letters(Left) \in Seq(Alphabet) /\ Letters(After) \in Seq(Alphabet) /\ Letters(Own) \in Seq(Alphabet)
  <2> DEFINE l == Left
             r == After
             o == Own
  <2> HIDE DEF l, r, o
  <2>1. l \o r \in Seq(Signs) /\ Letters(l \o r) = Letters(l) \o Letters(r)
    BY <1>3, LettersConcat DEF l, r
  <2>2. Letters(l) \in Seq(Alphabet) /\ Letters(r) \in Seq(Alphabet) /\ Letters(o) \in Seq(Alphabet)
    BY <1>3, LettersOfText DEF l, r, o
  <2> QED BY <2>1, <2>2 DEF l, r, o
<1>5. TypeOK'
  <2>1. /\ walked \in 0 .. Len(Files) /\ routes \in Seq({file \in ToSet(Files) : ~IsPrivate(file)})
        /\ begun \in 0 .. Len(routes) /\ nodes \in Seq(NodeType)
        /\ text \in Seq(Seq(Signs \ {Slash})) /\ Len(text) = Len(nodes)
    BY <1>1 DEF TypeOK
  <2>2. at' \in Ids' /\ rest' \in Seq(Signs)
    BY <1>1, <1>3, <1>4 DEF Ids
  <2> QED BY <2>1, <2>2, <1>1 DEF TypeOK, NodeType
<1>6. AfterWalk'
  BY <1>1, <1>2 DEF AfterWalk
<1>7. IsTree'
  BY <1>1 DEF IsTree, Ids, Kids
<1>8. ASSUME Orderly PROVE TextsSpelled'
  <2>1. TextsSpelled
    BY <1>8 DEF TreeSpelled
  <2>2. text[at] \o Letters(rest) = Letters(Pattern(routes[begun]))
    BY <2>1, <1>1 DEF TextsSpelled
  <2>3. text[Child] \o Letters(Left) = text[at] \o Letters(Own)
    BY <2>1, <1>1, <1>2, BelowChild
  <2>4. text[Child] \o Letters(Left \o After) = text[at] \o Letters(rest)
    <3> DEFINE a == text[at]
               b == Letters(Own)
               c == Letters(After)
               d == text[Child]
               e == Letters(Left)
    <3>1. /\ a \in Seq(Alphabet) /\ b \in Seq(Alphabet) /\ c \in Seq(Alphabet)
          /\ d \in Seq(Alphabet) /\ e \in Seq(Alphabet) /\ d \o e = a \o b
      BY <1>1, <1>2, <1>3, <1>4, <2>3 DEF TypeOK, Ids, Alphabet
    <3> HIDE DEF a, b, c, d, e
    <3>2. a \o (b \o c) = (a \o b) \o c
      BY <3>1, ConcatAssoc
    <3>5. d \in Seq(Alphabet) /\ e \in Seq(Alphabet) /\ c \in Seq(Alphabet)
      BY <3>1
    <3>4. d \o (e \o c) = (d \o e) \o c
      BY <3>5, ConcatAssoc
    <3>3. a \o (b \o c) = d \o (e \o c)
      BY <3>1, <3>2, <3>4
    <3> QED BY <3>3, <1>3, <1>4 DEF a, b, c, d, e
  <2>5. /\ text'[1] = <<>>
        /\ \A n \in Ids' :
             /\ \A kid \in Kids(n)' : text'[kid] = text'[n] \o Letters(nodes'[kid].path)
             /\ nodes'[n].wild # 0 => text'[nodes'[n].wild] = Append(text'[n], nodes'[nodes'[n].wild].hole)
             /\ nodes'[n].handler # 0 => text'[n] = Letters(Pattern(routes'[nodes'[n].handler]))
             /\ n # 1 => \E k \in 1 .. begun' : IsPrefix(text'[n], Letters(Pattern(routes'[k])))
    BY <2>1, <1>1 DEF TextsSpelled, Ids, Kids
  <2>6. text'[at'] \o Letters(rest') = Letters(Pattern(routes'[begun']))
    BY <2>2, <2>4, <1>1
  <2> QED BY <2>5, <2>6 DEF TextsSpelled
<1> QED BY <1>1, <1>5, <1>6, <1>7, <1>8, OrderlyStays DEF TreeSpelled

\* What a split does to the tree, node by node; kid is the child it splits,
\* path what is left of its path above, and below what goes below.
Split(kid, path, below) ==
  LET new == Len(nodes) + 1
  IN  /\ new \notin Ids /\ Ids' = Ids \cup {new} /\ new \in Nat /\ new > 1
      /\ nodes' \in Seq(NodeType) /\ Len(nodes') = new
      /\ nodes'[kid].path = path /\ ToSet(nodes'[kid].kids) = {new}
      /\ nodes'[kid].wild = 0 /\ nodes'[kid].handler = 0
      /\ nodes'[new].path = below /\ ToSet(nodes'[new].kids) = Kids(kid) /\ nodes'[new].wild = nodes[kid].wild
      /\ nodes'[new].handler = nodes[kid].handler
      /\ \A n \in Ids : n # kid => nodes'[n] = nodes[n]

\* splitChild moves all the child had to the new node.
LEMMA SplitNodes ==
  ASSUME TypeOK, IsTree, at \in Ids, SplitChild
  PROVE  Split(Child, SubSeq(nodes[Child].path, 1, Shared), Drop(nodes[Child].path, Shared))
<1> DEFINE new == Len(nodes) + 1
           kid == Child
           node == nodes[kid]
           above == SubSeq(node.path, 1, Shared)
           below == Drop(node.path, Shared)
           upper == [Node(above, "") EXCEPT !.kids = << new >>]
           lower == [node EXCEPT !.path = below]
<1>1. Shares /\ nodes' = Append([nodes EXCEPT ![kid] = upper], lower)
  BY DEF SplitChild, OnText
<1>2. kid \in Kids(at) /\ kid \in Ids /\ node \in NodeType /\ Shared \in 0 .. Len(node.path)
  BY <1>1, ChildFacts, KidIsNode
<1>3. nodes \in Seq(NodeType) /\ kid \in 1 .. Len(nodes) /\ new \in Nat /\ Ids = 1 .. Len(nodes)
      /\ Len(nodes) \in Nat
  BY <1>2 DEF TypeOK, Ids
<1>4. above \in Seq(Characters) /\ below \in Seq(Characters)
  <2> DEFINE p == node.path
             n == Shared
  <2>1. p \in Seq(Characters) /\ n \in 0 .. Len(p)
    BY <1>2 DEF NodeType
  <2> HIDE DEF p, n
  <2>2. IsCut(Characters, p, n, SubSeq(p, 1, n), Drop(p, n))
    BY <2>1, Cut
  <2> QED BY <2>2 DEF IsCut, p, n
<1> HIDE DEF new, kid, above, below
<1>5. upper \in NodeType /\ upper.path = above /\ upper.kids = << new >> /\ upper.wild = 0 /\ upper.handler = 0
  <2>1. << new >> \in Seq(Nat)
    BY <1>3
  <2> QED BY <2>1, <1>3, <1>4 DEF Node, NodeType
<1>6. lower \in NodeType /\ lower.path = below /\ lower.kids = node.kids /\ lower.wild = node.wild
      /\ lower.handler = node.handler
  <2> HIDE DEF node
  <2> QED BY <1>2, <1>4 DEF NodeType
<1>7. ToSet(upper.kids) = {new}
  <2>1. ToSet(<< new >>) = {new}
    BY DEF ToSet
  <2> QED BY <2>1, <1>5
<1> HIDE DEF upper, lower
<1>8. nodes' \in Seq(NodeType) /\ Len(nodes') = new /\ nodes'[kid] = upper /\ nodes'[new] = lower
      /\ \A k \in 1 .. Len(nodes) : k # kid => nodes'[k] = nodes[k]
  <2>1. Grown(NodeType, nodes', nodes, kid, upper, lower)
    BY <1>1, <1>3, <1>5, <1>6, AppendExcept
  <2> QED BY <2>1 DEF Grown, new
<1>9. new \notin Ids /\ Ids' = Ids \cup {new} /\ new > 1
  <2>1. Ids' = 1 .. new /\ new = Len(nodes) + 1
    BY <1>8 DEF Ids, new
  <2> QED BY <2>1, <1>3
<1>10. /\ nodes'[kid].path = above /\ ToSet(nodes'[kid].kids) = {new} /\ nodes'[kid].wild = 0
       /\ nodes'[kid].handler = 0 /\ nodes'[new].path = below /\ ToSet(nodes'[new].kids) = Kids(kid)
       /\ nodes'[new].wild = nodes[kid].wild /\ nodes'[new].handler = nodes[kid].handler
  BY <1>5, <1>6, <1>7, <1>8 DEF Kids
<1>11. Split(kid, above, below)
  BY <1>3, <1>8, <1>9, <1>10 DEF Split, new
<1> QED BY <1>11 DEF kid, above, below

\* A split keeps the shape of the tree ...
LEMMA SplitIsTree ==
  ASSUME TypeOK, IsTree, begun' = begun, at \in Ids, NEW kid \in Kids(at),
         NEW path, NEW below, Split(kid, path, below)
  PROVE  IsTree'
<1> DEFINE new == Len(nodes) + 1
           kids(n) == ToSet(nodes'[n].kids)
<1>1. /\ new \notin Ids /\ Ids' = Ids \cup {new} /\ new > 1 /\ new \in Nat
      /\ kids(kid) = {new} /\ nodes'[kid].wild = 0 /\ nodes'[kid].handler = 0
      /\ kids(new) = Kids(kid) /\ nodes'[new].wild = nodes[kid].wild
      /\ nodes'[new].handler = nodes[kid].handler
      /\ \A n \in Ids : n # kid => nodes'[n] = nodes[n] /\ kids(n) = Kids(n)
  BY DEF Split, Kids
<1>2. 1 \in Ids /\ 0 \notin Ids' /\ 0 \in 0 .. begun /\ kid \in Ids /\ kid # 1
  BY <1>1, KidIsNode DEF IsTree, TypeOK, Ids
<1>3. \A n \in Ids' : Kids(n)' = kids(n)
  BY DEF Kids
<1> HIDE DEF new, kids
<1>4. \A n \in Ids : /\ Kids(n) \subseteq Ids \ {1, n} /\ nodes[n].wild \in {0} \cup Ids
                     /\ (nodes[n].wild # 0 => nodes[nodes[n].wild].hole \in Holes)
                     /\ nodes[n].handler \in 0 .. begun /\ nodes[n].wild # kid
                     /\ \A m \in Ids : nodes[m].wild \notin Kids(n) /\ (n # m => Kids(n) \cap Kids(m) = {})
  BY DEF IsTree
<1>8. \A n \in Ids : /\ nodes[n].wild \notin {1, n}
                     /\ \A m \in Ids : n # m /\ nodes[n].wild # 0 => nodes[n].wild # nodes[m].wild
  BY <1>2 DEF IsTree, TypeOK, Ids
<1>5. ASSUME NEW n \in Ids'
      PROVE  /\ kids(n) \subseteq Ids' \ {1, n}
             /\ nodes'[n].wild \in {0} \cup (Ids \ {1, n})
             /\ nodes'[n].wild # 0 => nodes'[nodes'[n].wild].hole \in Holes
             /\ nodes'[n].handler \in 0 .. begun
  <2>1. CASE n = new
    BY <2>1, <1>1, <1>2, <1>4, <1>8
  <2>2. CASE n = kid
    BY <2>2, <1>1, <1>2, <1>4
  <2>3. CASE n \in Ids /\ n # kid
    BY <2>3, <1>1, <1>2, <1>4, <1>8
  <2> QED BY <2>1, <2>2, <2>3, <1>1
<1>6. ASSUME NEW n \in Ids', NEW m \in Ids'
      PROVE  /\ nodes'[m].wild \notin kids(n)
             /\ n # m => kids(n) \cap kids(m) = {} /\ (nodes'[n].wild # 0 => nodes'[n].wild # nodes'[m].wild)
  <2>1. nodes'[m].wild \notin kids(n)
    <3>1. nodes'[m].wild = 0 \/ \E k \in Ids : nodes'[m].wild = nodes[k].wild
      BY <1>1, <1>2
    <3>2. kids(n) = {new} \/ \E k \in Ids : kids(n) = Kids(k)
      BY <1>1, <1>2
    <3>3. \A k \in Ids : nodes[k].wild \in {0} \cup Ids /\ Kids(k) \subseteq Ids
      BY <1>4
    <3> QED BY <3>1, <3>2, <3>3, <1>1, <1>2, <1>4
  <2>2. ASSUME n # m PROVE kids(n) \cap kids(m) = {}
    <3>1. CASE n = kid \/ m = kid
      BY <3>1, <2>2, <1>1, <1>2, <1>4
    <3>2. CASE n # kid /\ m # kid
      <4>1. CASE n = new
        BY <4>1, <3>2, <2>2, <1>1, <1>2, <1>4
      <4>2. CASE m = new
        BY <4>2, <3>2, <2>2, <1>1, <1>2, <1>4
      <4>3. CASE n # new /\ m # new
        BY <4>3, <3>2, <2>2, <1>1, <1>4
      <4> QED BY <4>1, <4>2, <4>3
    <3> QED BY <3>1, <3>2
  <2>3. ASSUME n # m, nodes'[n].wild # 0 PROVE nodes'[n].wild # nodes'[m].wild
    <3>1. ASSUME NEW k \in Ids', nodes'[k].wild # 0
          PROVE  \E l \in Ids : nodes'[k].wild = nodes[l].wild /\ l = IF k = new THEN kid ELSE k
      BY <3>1, <1>1, <1>2
    <3>2. CASE nodes'[m].wild = 0
      BY <2>3, <3>2
    <3>3. CASE nodes'[m].wild # 0
      <4>1. n # kid /\ m # kid
        BY <2>3, <3>3, <1>1
      <4>2. PICK k \in Ids : nodes'[n].wild = nodes[k].wild /\ k = IF n = new THEN kid ELSE n
        BY <2>3, <3>1
      <4>3. PICK l \in Ids : nodes'[m].wild = nodes[l].wild /\ l = IF m = new THEN kid ELSE m
        BY <3>3, <3>1
      <4>4. k # l
        BY <2>3, <4>1, <4>2, <4>3
      <4> QED BY <2>3, <4>2, <4>3, <4>4, <1>8
    <3> QED BY <3>2, <3>3
  <2> QED BY <2>1, <2>2, <2>3
<1>7. begun' = begun /\ 1 \in Ids' /\ Ids \subseteq Ids'
  BY <1>1, <1>2
<1> QED BY <1>3, <1>5, <1>6, <1>7 DEF IsTree

\* ... and the texts.
LEMMA SplitSpells ==
  ASSUME TypeOK, IsTree, TextsSpelled, UNCHANGED <<routes, begun, at, rest>>, at # 0, at \in Ids,
         SplitChild
  PROVE  TextsSpelled'
<1> DEFINE new == Len(nodes) + 1
           kid == Child
           node == nodes[kid]
           above == SubSeq(node.path, 1, Shared)
           below == Drop(node.path, Shared)
           a == text[at]
           b == Letters(above)
           c == Letters(below)
           word == a \o b
           goal(i) == Letters(Pattern(routes[i]))
           kids(n) == ToSet(nodes'[n].kids)
<1>1. Shares /\ text' = Append([text EXCEPT ![kid] = word], text[kid])
  BY DEF SplitChild, OnText
<1>2. kid \in Kids(at) /\ kid \in Ids /\ kid # 1 /\ kid # at /\ node \in NodeType /\ Shared \in 0 .. Len(node.path)
  BY <1>1, ChildFacts, KidIsNode
<1>3. above \in Seq(Signs) /\ below \in Seq(Signs) /\ Letters(node.path) = b \o c
  <2> DEFINE p == node.path
             n == Shared
  <2>1. p \in Seq(Signs) /\ n \in 0 .. Len(p)
    <3>1. p \in Seq(Characters) /\ n \in 0 .. Len(p)
      BY <1>2 DEF NodeType
    <3> HIDE DEF p, n
    <3> QED BY <3>1 DEF Signs
  <2> HIDE DEF p, n
  <2> DEFINE u == SubSeq(p, 1, n)
             v == Drop(p, n)
  <2>2. IsCut(Signs, p, n, u, v)
    BY <2>1, Cut
  <2>3. u \in Seq(Signs) /\ v \in Seq(Signs) /\ p = u \o v
    BY <2>2 DEF IsCut
  <2> HIDE DEF u, v
  <2>4. Letters(u \o v) = Letters(u) \o Letters(v)
    BY <2>3, LettersConcat
  <2> QED BY <2>3, <2>4 DEF u, v, p, n
<1>4. Split(kid, above, below)
  BY SplitNodes
<1> HIDE DEF kid, above, below
<1>5. a \in Seq(Alphabet) /\ b \in Seq(Alphabet) /\ c \in Seq(Alphabet)
  <2>1. a \in Seq(Alphabet)
    BY DEF TypeOK, Ids, Alphabet
  <2> QED BY <2>1, <1>3, LettersOfText
<1>6. text[kid] = a \o Letters(node.path)
  BY <1>2 DEF TextsSpelled
<1> HIDE DEF a, b, c
<1>7. a \o (b \o c) = (a \o b) \o c /\ word \in Seq(Alphabet)
  <2>1. a \o (b \o c) = (a \o b) \o c
    BY <1>5, ConcatAssoc
  <2> QED BY <2>1, <1>5
<1>8. text[kid] = word \o c /\ text[kid] \in Seq(Alphabet)
  <2>1. text[kid] \in Seq(Alphabet)
    BY <1>2 DEF TypeOK, Ids, Alphabet
  <2> QED BY <2>1, <1>3, <1>6, <1>7
<1> HIDE DEF word
<1>9. text'[kid] = word /\ text'[new] = text[kid] /\ \A n \in Ids : n # kid => text'[n] = text[n]
  <2> DEFINE A == Seq(Alphabet)
  <2>1. text \in Seq(A) /\ word \in A /\ text[kid] \in A /\ kid \in 1 .. Len(text) /\ Len(text) = Len(nodes)
        /\ Ids = 1 .. Len(text)
    BY <1>2, <1>7, <1>8 DEF TypeOK, Ids, Alphabet
  <2> HIDE DEF A
  <2> DEFINE old == text[kid]
  <2>2. Grown(A, text', text, kid, word, old)
    <3>1. old \in A /\ text' = Append([text EXCEPT ![kid] = word], old)
      BY <1>1, <2>1
    <3> HIDE DEF old
    <3> QED BY <2>1, <3>1, AppendExcept
  <2> QED BY <2>1, <2>2 DEF Grown
<1>10. /\ new \notin Ids /\ Ids' = Ids \cup {new} /\ new > 1 /\ new \in Nat
       /\ kids(kid) = {new} /\ nodes'[kid].wild = 0 /\ nodes'[kid].handler = 0 /\ nodes'[kid].path = above
       /\ kids(new) = Kids(kid) /\ nodes'[new].wild = node.wild
       /\ nodes'[new].handler = node.handler /\ nodes'[new].path = below
       /\ \A n \in Ids : n # kid => nodes'[n] = nodes[n] /\ kids(n) = Kids(n)
  BY <1>4 DEF Split, Kids
<1>11. \A n \in Ids' : Kids(n)' = kids(n)
  BY DEF Kids
<1> HIDE DEF new, kids, goal
<1>12. ASSUME NEW n \in Ids
       PROVE  /\ \A k \in Kids(n) : k \in Ids /\ k # n /\ text[k] = text[n] \o Letters(nodes[k].path)
              /\ nodes[n].wild # 0 => /\ nodes[n].wild \in Ids /\ nodes[n].wild # kid
                                      /\ text[nodes[n].wild] = Append(text[n], nodes[nodes[n].wild].hole)
              /\ nodes[n].handler # 0 => text[n] = goal(nodes[n].handler)
              /\ n # 1 => \E i \in 1 .. begun : IsPrefix(text[n], goal(i))
              /\ kid \in Kids(n) => n = at
  BY <1>2 DEF TextsSpelled, IsTree, goal
<1>13. ASSUME NEW k \in Ids, k # kid PROVE text'[k] = text[k] /\ nodes'[k] = nodes[k]
  BY <1>13, <1>9, <1>10
<1>14. ASSUME NEW n \in Ids, NEW k \in Kids(n), k # kid
       PROVE  text'[k] = text[n] \o Letters(nodes'[k].path)
  <2>1. k \in Ids /\ text[k] = text[n] \o Letters(nodes[k].path)
    BY <1>12
  <2>2. text'[k] = text[k] /\ nodes'[k] = nodes[k]
    BY <2>1, <1>13, <1>14
  <2> QED BY <2>1, <2>2
<1>15. \A n \in Ids : nodes[n].wild # 0 =>
         text'[nodes[n].wild] = Append(text[n], nodes'[nodes[n].wild].hole)
  BY <1>12, <1>13
<1>16. \E i \in 1 .. begun : IsPrefix(word, goal(i))
  <2>1. PICK i \in 1 .. begun : IsPrefix(text[kid], goal(i))
    BY <1>2, <1>12
  <2>2. i \in DOMAIN routes
    BY DEF TypeOK
  <2>3. goal(i) \in Seq(Alphabet)
    BY <2>2, RouteLetters DEF goal
  <2> DEFINE u == text[kid]
             g == goal(i)
             d == Drop(g, Len(u))
  <2>4. u \in Seq(Alphabet) /\ g \in Seq(Alphabet) /\ IsPrefix(u, g) /\ u = word \o c
    BY <1>8, <2>1, <2>3
  <2> HIDE DEF u, g
  <2>5. g = u \o d /\ d \in Seq(Alphabet)
    BY <2>4, PrefixFacts
  <2> HIDE DEF d
  <2>6. word \o (c \o d) = (word \o c) \o d /\ c \o d \in Seq(Alphabet)
    <3>1. word \o (c \o d) = (word \o c) \o d
      BY <1>5, <1>7, <2>5, ConcatAssoc
    <3> QED BY <3>1, <1>5, <2>5
  <2> DEFINE t == c \o d
  <2>7. g = word \o t
    BY <2>4, <2>5, <2>6
  <2>8. t \in Seq(Alphabet)
    BY <2>6
  <2> HIDE DEF t
  <2>9. IsPrefix(word, word \o t)
    BY <1>7, <2>8, PrefixOf
  <2> QED BY <2>7, <2>9 DEF g
<1>17. ASSUME NEW n \in Ids'
       PROVE  /\ \A k \in kids(n) : text'[k] = text'[n] \o Letters(nodes'[k].path)
              /\ nodes'[n].wild # 0 => text'[nodes'[n].wild] = Append(text'[n], nodes'[nodes'[n].wild].hole)
              /\ nodes'[n].handler # 0 => text'[n] = goal(nodes'[n].handler)
              /\ n # 1 => \E i \in 1 .. begun : IsPrefix(text'[n], goal(i))
  <2>1. CASE n = new
    <3>1. text'[n] = text[kid] /\ kids(n) = Kids(kid) /\ nodes'[n].wild = nodes[kid].wild
          /\ nodes'[n].handler = nodes[kid].handler
      BY <2>1, <1>9, <1>10
    <3>2. ASSUME NEW k \in kids(n) PROVE text'[k] = text'[n] \o Letters(nodes'[k].path)
      <4>1. k \in Kids(kid) /\ k # kid
        BY <3>1, <1>2, <1>12
      <4> QED BY <4>1, <3>1, <1>2, <1>14
    <3>3. nodes'[n].wild # 0 => text'[nodes'[n].wild] = Append(text'[n], nodes'[nodes'[n].wild].hole)
      BY <3>1, <1>2, <1>15
    <3> QED BY <3>1, <3>2, <3>3, <1>2, <1>12
  <2>2. CASE n = kid
    <3>1. text'[new] = text'[kid] \o Letters(nodes'[new].path)
      BY <1>8, <1>9, <1>10 DEF c
    <3> QED BY <3>1, <2>2, <1>9, <1>10, <1>16
  <2>3. CASE n \in Ids /\ n # kid
    <3>1. text'[n] = text[n] /\ nodes'[n] = nodes[n] /\ kids(n) = Kids(n)
      BY <2>3, <1>9, <1>10
    <3>2. ASSUME NEW k \in Kids(n) PROVE text'[k] = text[n] \o Letters(nodes'[k].path)
      <4>1. CASE k = kid
        <5>1. n = at
          BY <4>1, <2>3, <1>12
        <5> QED BY <4>1, <5>1, <1>9, <1>10 DEF word, a, b
      <4>2. CASE k # kid
        BY <4>2, <2>3, <1>14
      <4> QED BY <4>1, <4>2
    <3> QED BY <3>1, <3>2, <2>3, <1>12, <1>15
  <2> QED BY <2>1, <2>2, <2>3, <1>10
<1>18. text'[1] = <<>>
  BY <1>2, <1>9 DEF TextsSpelled, IsTree
<1>19. text'[at'] \o Letters(rest') = goal(begun)
  BY <1>2, <1>9 DEF TextsSpelled, goal
<1> QED BY <1>11, <1>17, <1>18, <1>19 DEF TextsSpelled, goal

\* splitChild keeps the tree sound.
LEMMA SplitKeeps == ASSUME TreeSpelled, SplitChild, Unwalked PROVE TreeSpelled'
<1> DEFINE above == SubSeq(nodes[Child].path, 1, Shared)
           below == Drop(nodes[Child].path, Shared)
           word == text[at] \o Letters(above)
<1>1. TypeOK /\ IsTree /\ AfterWalk /\ begun' = begun /\ routes' = routes /\ walked' = walked /\ at # 0
      /\ Shares /\ at' = at /\ rest' = rest
      /\ text' = Append([text EXCEPT ![Child] = word], text[Child])
  BY DEF TreeSpelled, SplitChild, OnText, Inserting, Unwalked
<1>2. /\ at \in Ids /\ begun # 0 /\ walked = Len(Files)
      /\ text[at] \in Seq(Alphabet) /\ rest \in Seq(Signs)
  BY <1>1, Busy
<1>3. Split(Child, above, below)
  BY <1>1, <1>2, SplitNodes
<1>4. Child \in Kids(at) /\ Child \in Ids /\ above \in Seq(Signs)
  <2>1. Child \in Kids(at) /\ Child \in Ids
    BY <1>1, <1>2, ChildFacts, KidIsNode
  <2>2. SubSeq(Own, 1, Shared) = above /\ SubSeq(Own, 1, Shared) \in Seq(Signs)
    BY <1>1, <1>2, ChildFacts, OwnCut
  <2> QED BY <2>1, <2>2
<1> HIDE DEF above, below
<1>5. word \in Seq(Alphabet)
  <2>1. Letters(above) \in Seq(Alphabet)
    BY <1>4, LettersOfText
  <2> QED BY <2>1, <1>2
<1>6. TypeOK'
  <2>1. /\ walked \in 0 .. Len(Files) /\ routes \in Seq({file \in ToSet(Files) : ~IsPrivate(file)})
        /\ begun \in 0 .. Len(routes)
    BY <1>1 DEF TypeOK
  <2>2. nodes' \in Seq(NodeType) /\ Len(nodes') = Len(nodes) + 1 /\ at \in Ids'
    BY <1>2, <1>3 DEF Split
  <2>3. text' \in Seq(Seq(Alphabet)) /\ Len(text') = Len(text) + 1 /\ Len(text) = Len(nodes)
    <3> DEFINE A == Seq(Alphabet)
               old == text[Child]
               kid == Child
    <3>1. word \in A /\ text \in Seq(A) /\ old \in A /\ kid \in 1 .. Len(text) /\ Len(text) = Len(nodes)
          /\ text' = Append([text EXCEPT ![kid] = word], old)
      BY <1>1, <1>4, <1>5 DEF TypeOK, Ids, Alphabet
    <3> HIDE DEF A, old, kid, word
    <3>2. Grown(A, text', text, kid, word, old)
      BY <3>1, AppendExcept
    <3> QED BY <3>1, <3>2 DEF Grown, A
  <2> QED BY <1>1, <1>2, <2>1, <2>2, <2>3 DEF TypeOK, Alphabet, NodeType
<1>7. AfterWalk'
  BY <1>1, <1>2 DEF AfterWalk
<1>8. IsTree'
  BY <1>1, <1>2, <1>3, <1>4, SplitIsTree
<1>9. ASSUME Orderly PROVE TextsSpelled'
  BY <1>1, <1>2, <1>9, SplitSpells DEF TreeSpelled
<1> QED BY <1>1, <1>6, <1>7, <1>8, <1>9, OrderlyStays DEF TreeSpelled

\* buildTree takes the next route, with its pattern, to the root.
LEMMA BeginKeeps == ASSUME TreeSpelled, Begin, Unwalked PROVE TreeSpelled'
<1> DEFINE next == begun + 1
<1>1. TypeOK /\ IsTree /\ routes' = routes /\ walked' = walked /\ walked = Len(Files)
      /\ at = 0 /\ begun < Len(routes) /\ begun' = next /\ at' = 1 /\ rest' = Pattern(routes[next])
      /\ UNCHANGED <<nodes, text>>
  BY DEF TreeSpelled, Begin, Unwalked
<1>2. begun \in Nat /\ next \in DOMAIN routes /\ next \in 0 .. Len(routes) /\ next # 0 /\ 1 \in Ids
  BY <1>1 DEF TypeOK, IsTree
<1>3. Pattern(routes[next]) \in Seq(Signs) /\ Letters(Pattern(routes[next])) \in Seq(Alphabet)
  BY <1>1, <1>2, RouteLetters
<1>4. \A k \in 0 .. begun : k \in 0 .. next
  BY <1>2
<1>5. \A k \in 1 .. begun : k \in 1 .. next
  BY <1>2
<1> HIDE DEF next
<1>6. TypeOK'
  BY <1>1, <1>2, <1>3 DEF TypeOK, NodeType, Ids
<1>7. AfterWalk'
  BY <1>1, <1>2 DEF AfterWalk
<1>8. IsTree'
  BY <1>1, <1>4 DEF IsTree, Ids, Kids
<1>9. ASSUME Orderly PROVE TextsSpelled'
  <2>1. TextsSpelled
    BY <1>9 DEF TreeSpelled
  <2>2. text[1] \o Letters(Pattern(routes[next])) = Letters(Pattern(routes[next]))
    <3> DEFINE g == Letters(Pattern(routes[next]))
    <3>1. g \in Seq(Alphabet) /\ text[1] = <<>>
      BY <2>1, <1>3 DEF TextsSpelled
    <3> HIDE DEF g
    <3> QED BY <3>1 DEF g
  <2>3. /\ text'[1] = <<>>
        /\ \A n \in Ids' :
             /\ \A kid \in Kids(n)' : text'[kid] = text'[n] \o Letters(nodes'[kid].path)
             /\ nodes'[n].wild # 0 => text'[nodes'[n].wild] = Append(text'[n], nodes'[nodes'[n].wild].hole)
             /\ nodes'[n].handler # 0 => text'[n] = Letters(Pattern(routes'[nodes'[n].handler]))
             /\ n # 1 => \E k \in 1 .. begun' : IsPrefix(text'[n], Letters(Pattern(routes'[k])))
    BY <2>1, <1>1, <1>5 DEF TextsSpelled, Ids, Kids
  <2>4. text'[at'] \o Letters(rest') = Letters(Pattern(routes'[begun']))
    BY <2>2, <1>1
  <2> QED BY <2>3, <2>4 DEF TextsSpelled
<1> QED BY <1>1, <1>6, <1>7, <1>8, <1>9, OrderlyStays DEF TreeSpelled

\* No call of insert breaks the tree.
LEMMA BuildKeeps == ASSUME TreeSpelled, Build PROVE TreeSpelled'
<1>1. Unwalked
  BY DEF Build, Unwalked
<1>2. CASE Begin BY <1>1, <1>2, BeginKeeps
<1>3. CASE InsertHere BY <1>1, <1>3, InsertHereKeeps
<1>4. CASE InsertWild BY <1>1, <1>4, WildOldKeeps, WildNewKeeps
<1>5. CASE AddChild BY <1>1, <1>5, AddChildKeeps
<1>6. CASE SplitChild BY <1>1, <1>6, SplitKeeps
<1>7. CASE Descend BY <1>1, <1>7, DescendKeeps
<1>8. CASE AddBelow BY <1>1, <1>8, AddBelowKeeps
<1> QED BY <1>2, <1>3, <1>4, <1>5, <1>6, <1>7, <1>8 DEF Build

LEMMA Nothing == ASSUME NEW E PROVE <<>> \in Seq(E)
OBVIOUS

LEMMA NoItems == ToSet(<<>>) = {} /\ Len(<<>>) = 0 /\ DOMAIN <<>> = {}
BY DEF ToSet

\* s is x alone.
IsOne(E, s, x) == s \in Seq(E) /\ Len(s) = 1 /\ s[1] = x /\ DOMAIN s = {1}

LEMMA One == ASSUME NEW E, NEW x \in E PROVE IsOne(E, << x >>, x)
<1> DEFINE s == << x >>
<1>1. s \in Seq(E) /\ Len(s) = 1 /\ s[1] = x
  OBVIOUS
<1> HIDE DEF s
<1>2. DOMAIN s = {1}
  BY <1>1
<1> QED BY <1>1, <1>2 DEF s, IsOne

LEMMA RootType == Node(<<>>, "") \in NodeType
BY Nothing DEF Node, NodeType

\* The root alone.
Rooted ==
  /\ nodes \in Seq(NodeType) /\ text \in Seq(Seq(Signs \ {Slash})) /\ Len(text) = Len(nodes)
  /\ IsTree /\ TextsSpelled

Bare == nodes = << Node(<<>>, "") >> /\ text = << <<>> >> /\ at = 0 /\ begun = 0

\* The tree the walk leaves is sound.
LEMMA RootSound == Bare => Rooted
<1> DEFINE root == Node(<<>>, "")
           none == <<>>
           E == Seq(Signs \ {Slash})
<1>1. root.kids = none /\ root.wild = 0 /\ root.handler = 0 /\ root \in NodeType /\ none \in E
      /\ ToSet(none) = {}
  BY RootType, Nothing, NoItems DEF Node
<1> SUFFICES ASSUME nodes = << root >>, text = << none >>, at = 0, begun = 0 PROVE Rooted
  BY DEF Bare
<1> HIDE DEF root, none, E
<1>2. IsOne(NodeType, nodes, root) /\ IsOne(E, text, none)
  BY <1>1, One
<1>3. Ids = {1} /\ Kids(1) = {} /\ nodes[1].wild = 0 /\ nodes[1].handler = 0 /\ Len(nodes) = 1
      /\ nodes \in Seq(NodeType) /\ text \in Seq(E) /\ Len(text) = 1 /\ text[1] = none
  BY <1>1, <1>2 DEF IsOne, Ids, Kids
<1>4. IsTree
  <2>1. 0 \in 0 .. begun
    OBVIOUS
  <2> QED BY <2>1, <1>3 DEF IsTree
<1>5. TextsSpelled
  BY <1>3 DEF TextsSpelled, none
<1> QED BY <1>3, <1>4, <1>5 DEF Rooted, E

\* The walk comes before the tree is touched.
LEMMA WalkKeeps == ASSUME TreeSpelled, AddRoute \/ AddLayout \/ NoFile PROVE TreeSpelled'
<1>1. /\ walked < Len(Files) /\ walked' = walked + 1 /\ UNCHANGED <<nodes, begun, at, rest, text>>
      /\ TypeOK /\ AfterWalk
      /\ routes' = routes \/ (routes' = Append(routes, New) /\ ~IsPrivate(New))
  BY DEF TreeSpelled, AddRoute, AddLayout, NoFile, Found, Pass, tree
<1>2. Bare
  <2>1. Len(Files) \in Nat
    BY FilesAssumption
  <2>2. walked \in 0 .. Len(Files) /\ walked # Len(Files)
    BY <1>1, <2>1 DEF TypeOK
  <2>3. begun = 0
    BY <1>1, <2>2 DEF AfterWalk
  <2> QED BY <1>1, <2>3 DEF AfterWalk, Bare
<1>3. walked' \in 0 .. Len(Files) /\ walked + 1 \in 1 .. Len(Files)
  <2>1. Len(Files) \in Nat
    BY FilesAssumption
  <2> QED BY <1>1, <2>1 DEF TypeOK
<1>4. routes' \in Seq({file \in ToSet(Files) : ~IsPrivate(file)})
  <2> DEFINE R == {file \in ToSet(Files) : ~IsPrivate(file)}
             new == New
  <2>1. ~IsPrivate(new) => new \in R
    <3>1. walked + 1 \in DOMAIN Files
      BY <1>3, FilesAssumption
    <3>2. new \in ToSet(Files)
      BY <3>1 DEF New, ToSet
    <3> QED BY <3>2
  <2>2. routes \in Seq(R) /\ (routes' = routes \/ (routes' = Append(routes, new) /\ new \in R))
    BY <1>1, <2>1 DEF TypeOK
  <2> HIDE DEF R, new
  <2>3. routes' \in Seq(R)
    BY <2>2
  <2> QED BY <2>3 DEF R
<1>5. Bare' /\ Rooted'
  <2>1. Bare'
    BY <1>1, <1>2 DEF Bare
  <2>2. Bare' => Rooted'
    BY RootSound, PTL
  <2> QED BY <2>1, <2>2
<1>6. TypeOK'
  <2>1. begun' \in 0 .. Len(routes')
    <3>1. Len(routes') \in Nat
      BY <1>4
    <3>2. begun' = 0
      BY <1>5 DEF Bare
    <3> QED BY <3>1, <3>2
  <2>2. at' \in {0} \cup Ids'
    BY <1>5 DEF Bare
  <2>3. rest' \in Seq(Signs)
    BY <1>1 DEF TypeOK
  <2> QED BY <2>1, <2>2, <2>3, <1>3, <1>4, <1>5 DEF TypeOK, Rooted
<1>7. AfterWalk'
  BY <1>5 DEF AfterWalk, Bare
<1> QED BY <1>5, <1>6, <1>7 DEF TreeSpelled, Rooted

\* New begins with the root alone.
LEMMA InitSound == ASSUME Init PROVE TreeSpelled
<1>1. Bare /\ Rooted
  BY RootSound DEF Init, Bare
<1>2. TypeOK
  <2>1. Len(Files) \in Nat
    BY FilesAssumption
  <2>2. rest \in Seq(Signs) /\ routes \in Seq({file \in ToSet(Files) : ~IsPrivate(file)}) /\ Len(routes) = 0
    <3>1. rest = <<>> /\ routes = <<>>
      BY DEF Init
    <3> QED BY ONLY <3>1, Nothing, NoItems
  <2>3. walked \in 0 .. Len(Files) /\ begun \in 0 .. Len(routes) /\ at \in {0} \cup Ids
    <3>1. walked = 0 /\ begun = 0 /\ at = 0
      BY DEF Init
    <3> QED BY ONLY <3>1, <2>1, <2>2
  <2> QED BY <2>2, <2>3, <1>1 DEF TypeOK, Rooted
<1> QED BY <1>1, <1>2 DEF TreeSpelled, AfterWalk, Bare, Rooted

\* The tree is a tree, its edges spell the texts, and a node with a handler has
\* the text of that route's pattern, whatever the order of the files and at every
\* call of insert and splitChild (router.go:238-242, radix.go:32-158).
THEOREM TreeIsSpelled == Spec => []TreeSpelled
<1>1. Init => TreeSpelled
  BY InitSound
<1>2. TreeSpelled /\ [Next]_vars => TreeSpelled'
  <2> SUFFICES ASSUME TreeSpelled, [Next]_vars PROVE TreeSpelled'
    OBVIOUS
  <2>1. CASE AddRoute \/ AddLayout \/ NoFile
    BY <2>1, WalkKeeps
  <2>2. CASE Build
    BY <2>2, BuildKeeps
  <2>3. CASE UNCHANGED vars
    <3>1. UNCHANGED <<walked, routes, nodes, begun, at, rest, text>>
      BY <2>3 DEF vars
    <3>2. TypeOK' /\ AfterWalk'
      BY <3>1 DEF TreeSpelled, TypeOK, AfterWalk, NodeType, Ids
    <3>3. IsTree'
      BY <3>1 DEF TreeSpelled, IsTree, Ids, Kids
    <3>4. TextsSpelled => TextsSpelled'
      BY <3>1 DEF TextsSpelled, Ids, Kids
    <3> QED BY <3>1, <3>2, <3>3, <3>4, OrderlyStays DEF TreeSpelled
  <2> QED BY <2>1, <2>2, <2>3 DEF Next
<1> QED BY <1>1, <1>2, PTL DEF Spec

-----------------------------------------------------------------------------
(* No route is lost                                                        *)

\* Of routes that are kept, the others than the one at hand.
Stays(i) == \E n \in Ids : text[n] = Letters(Pattern(routes[i])) /\ nodes[n].handler >= i

\* A step of an insert that is not its last keeps all routes when each text
\* with a handler has one afterwards that is no older.
LEMMA KeptFrom ==
  ASSUME RoutesKept, UNCHANGED <<begun, routes>>, at' # 0,
         \A n \in Ids : \E m \in Ids' : text'[m] = text[n] /\ nodes'[m].handler = nodes[n].handler
  PROVE  RoutesKept'
<1> SUFFICES ASSUME NEW i \in 1 .. begun, i # begun PROVE Stays(i)'
  BY DEF RoutesKept, Stays
<1>1. PICK n \in Ids : text[n] = Letters(Pattern(routes[i])) /\ nodes[n].handler >= i
  BY DEF RoutesKept
<1>2. PICK m \in Ids' : text'[m] = text[n] /\ nodes'[m].handler = nodes[n].handler
  OBVIOUS
<1> QED BY <1>1, <1>2 DEF Stays

\* A new leaf disturbs no text and no handler.
LEMMA AddKept ==
  ASSUME TypeOK, IsTree, RoutesKept, Inserting, Unwalked,
         NEW parent \in Ids, NEW path \in Seq(Characters), Add(parent, path)
  PROVE  RoutesKept'
<1> DEFINE word == text[parent] \o Letters(path)
<1>1. Added(parent, path)
  BY AddNodes
<1>2. text' = Append(text, word) /\ at' # 0 /\ UNCHANGED <<begun, routes>>
  <2>1. Len(nodes) \in Nat
    BY DEF TypeOK
  <2>2. text' = Append(text, word) /\ at' = Len(nodes) + 1
    BY DEF Add, Call
  <2> QED BY <2>1, <2>2 DEF Inserting, Unwalked
<1> HIDE DEF word
<1>3. ASSUME NEW n \in Ids PROVE n \in Ids' /\ text'[n] = text[n] /\ nodes'[n].handler = nodes[n].handler
  <2>1. n \in 1 .. Len(text) /\ text \in Seq(Seq(Signs \ {Slash}))
    BY DEF TypeOK, Ids
  <2> DEFINE E == Seq(Signs \ {Slash})
  <2> HIDE DEF E
  <2>2. n \in 1 .. Len(text) /\ text \in Seq(E)
    BY <2>1 DEF E
  <2>3. text'[n] = text[n]
    BY <2>2, <1>2
  <2> QED BY <2>3, <1>1 DEF Added
<1> QED BY <1>2, <1>3, KeptFrom

\* A new wildcard does not either.
LEMMA WildKept == ASSUME TypeOK, IsTree, AfterWalk, RoutesKept, InsertWild, Unwalked PROVE RoutesKept'
<1>1. at # 0 /\ at \in Ids /\ UNCHANGED <<begun, routes>>
  BY Busy DEF InsertWild, Inserting, Unwalked
<1>2. CASE nodes[at].wild # 0
  <2>1. nodes[at].wild \in Ids /\ 0 \notin Ids
    BY <1>1, <1>2 DEF IsTree, TypeOK, Ids
  <2>2. UNCHANGED <<nodes, text>> /\ at' # 0
    BY <1>2, <2>1 DEF InsertWild, Call
  <2> QED BY <2>2, <1>1, KeptFrom DEF Ids
<1>3. CASE nodes[at].wild = 0
  <2> DEFINE leaf == Node(<<>>, Head(After))
             up == [nodes[at] EXCEPT !.wild = Len(nodes) + 1]
             word == Append(text[at], Head(After))
             mid == [nodes EXCEPT ![at] = up]
  <2>1. nodes' = Append(mid, leaf) /\ text' = Append(text, word) /\ at' = Len(nodes) + 1
    BY <1>3 DEF InsertWild, Call
  <2>2. nodes \in Seq(NodeType) /\ Len(nodes) \in Nat /\ text \in Seq(Seq(Signs \ {Slash})) /\ Len(text) = Len(nodes)
        /\ at \in 1 .. Len(nodes) /\ nodes[at] \in NodeType
    BY <1>1 DEF TypeOK, Ids
  <2>3. up.handler = nodes[at].handler
    BY <2>2 DEF NodeType
  <2> HIDE DEF leaf, up, word
  <2>4. ASSUME NEW n \in Ids PROVE n \in Ids' /\ text'[n] = text[n] /\ nodes'[n].handler = nodes[n].handler
    <3>1. n \in 1 .. Len(nodes)
      BY DEF Ids
    <3>2. text'[n] = text[n]
      <4> DEFINE E == Seq(Signs \ {Slash})
      <4> HIDE DEF E
      <4>1. text \in Seq(E)
        BY <2>2 DEF E
      <4> QED BY <4>1, <2>1, <2>2, <3>1
    <3>3. mid[n] = IF n = at THEN up ELSE nodes[n]
      BY <2>2, <3>1
    <3>4. Len(mid) = Len(nodes) /\ DOMAIN mid = 1 .. Len(nodes)
      BY <2>2
    <3>5. Ids' = 1 .. Len(nodes) + 1 /\ nodes'[n] = mid[n]
      <4> HIDE DEF mid
      <4> QED BY <2>1, <2>2, <3>1, <3>4 DEF Ids
    <3> QED BY <3>1, <3>2, <3>3, <3>5, <2>2, <2>3
  <2>5. at' # 0
    BY <2>1, <2>2
  <2> QED BY <1>1, <2>4, <2>5, KeptFrom
<1> QED BY <1>2, <1>3

\* A split moves what the child had, and its text with it.
LEMMA SplitKept == ASSUME TypeOK, IsTree, AfterWalk, RoutesKept, SplitChild, Unwalked PROVE RoutesKept'
<1> DEFINE kid == Child
           word == text[at] \o Letters(SubSeq(nodes[Child].path, 1, Shared))
           old == text[Child]
           new == Len(nodes) + 1
<1>1. at # 0 /\ at \in Ids /\ at' = at /\ UNCHANGED <<begun, routes>> /\ Shares
      /\ text' = Append([text EXCEPT ![kid] = word], old)
  BY Busy DEF SplitChild, OnText, Inserting, Unwalked
<1>2. /\ kid \in Ids /\ new \notin Ids /\ Ids' = Ids \cup {new}
      /\ nodes'[new].handler = nodes[kid].handler
      /\ \A n \in Ids : n # kid => nodes'[n] = nodes[n]
  BY <1>1, SplitNodes, ChildFacts, KidIsNode DEF Split
<1>3. text \in Seq(Seq(Signs \ {Slash})) /\ Len(text) = Len(nodes) /\ Ids = 1 .. Len(text) /\ new = Len(text) + 1
      /\ old = text[kid]
  BY DEF TypeOK, Ids
<1> HIDE DEF kid, word, old, new
<1>4. text'[new] = old /\ \A n \in Ids : n # kid => text'[n] = text[n]
  <2> DEFINE E == Seq(Signs \ {Slash})
             mid == [text EXCEPT ![kid] = word]
  <2> HIDE DEF E
  <2>1. Len(mid) = Len(text) /\ Len(text) \in Nat /\ DOMAIN mid = 1 .. Len(text)
        /\ \A n \in 1 .. Len(text) : n # kid => mid[n] = text[n]
    BY <1>2, <1>3
  <2>2. text' = Append(mid, old)
    BY <1>1
  <2> HIDE DEF mid
  <2> QED BY <2>1, <2>2, <1>3
<1>5. ASSUME NEW n \in Ids PROVE \E m \in Ids' : text'[m] = text[n] /\ nodes'[m].handler = nodes[n].handler
  <2>1. CASE n = kid
    BY <2>1, <1>2, <1>3, <1>4
  <2>2. CASE n # kid
    BY <2>2, <1>2, <1>4
  <2> QED BY <2>1, <2>2
<1> QED BY <1>1, <1>5, KeptFrom

\* An insert that ends leaves its route where its pattern ends.
LEMMA HereKept ==
  ASSUME TypeOK, AfterWalk, TextsSpelled, RoutesKept, InsertHere, Unwalked
  PROVE  RoutesKept'
<1>1. /\ at # 0 /\ begun' = begun /\ routes' = routes /\ text' = text /\ at' = 0
      /\ nodes' = [nodes EXCEPT ![at].handler = begun] /\ rest \in {<<>>, <<Slash>>}
  BY DEF InsertHere, Inserting, Unwalked, Call
<1>2. at \in Ids /\ text[at] \in Seq(Alphabet)
  BY <1>1, Busy
<1>3. Ids' = Ids /\ nodes'[at].handler = begun /\ \A n \in Ids : n # at => nodes'[n] = nodes[n]
  <2> DEFINE b == begun
             up == [nodes[at] EXCEPT !.handler = b]
  <2>1. nodes' = [nodes EXCEPT ![at] = up] /\ nodes \in Seq(NodeType) /\ at \in 1 .. Len(nodes)
    BY <1>1, <1>2 DEF TypeOK, Ids
  <2>2. up.handler = b
    <3>1. nodes[at] \in NodeType
      BY <2>1
    <3> QED BY <3>1 DEF NodeType
  <2> HIDE DEF up
  <2> QED BY <2>1, <2>2 DEF Ids
<1>4. text[at] = Letters(Pattern(routes[begun]))
  <2>1. text[at] \o Letters(rest) = Letters(Pattern(routes[begun]))
    BY <1>1 DEF TextsSpelled
  <2>2. Letters(rest) = <<>>
    BY <1>1, LettersFew
  <2>3. text[at] \o <<>> = text[at]
    BY <1>2
  <2> QED BY <2>1, <2>2, <2>3
<1>5. begun \in Nat
  BY DEF TypeOK
<1>6. ASSUME NEW i \in 1 .. begun PROVE Stays(i)'
  <2>1. CASE i = begun
    BY <2>1, <1>1, <1>2, <1>3, <1>4, <1>5 DEF Stays
  <2>2. CASE i # begun
    <3>1. PICK n \in Ids : text[n] = Letters(Pattern(routes[i])) /\ nodes[n].handler >= i
      BY <2>2 DEF RoutesKept
    <3>2. nodes'[n].handler >= i
      BY <3>1, <1>3, <1>5
    <3> QED BY <3>1, <3>2, <1>1, <1>3 DEF Stays
  <2> QED BY <2>1, <2>2
<1> QED BY <1>1, <1>6 DEF RoutesKept, Stays

\* Every step keeps what was inserted.
LEMMA RoutesStay ==
  ASSUME TreeSpelled, TreeSpelled', Orderly => RoutesKept, [Next]_vars
  PROVE  Orderly' => RoutesKept'
<1>1. TypeOK /\ IsTree /\ AfterWalk
  BY DEF TreeSpelled
<1>2. CASE AddRoute \/ AddLayout \/ NoFile
  <2>1. begun' = begun /\ walked < Len(Files)
    BY <1>2 DEF AddRoute, AddLayout, NoFile, Found, Pass, tree
  <2>2. begun = 0
    <3>1. Len(Files) \in Nat
      BY FilesAssumption
    <3>2. begun # 0 => walked = Len(Files)
      BY <1>1 DEF AfterWalk
    <3> QED BY <3>1, <3>2, <2>1
  <2> QED BY <2>1, <2>2 DEF RoutesKept
<1>3. CASE Build
  <2> SUFFICES ASSUME Orderly, RoutesKept PROVE RoutesKept'
    BY <1>3, OrderlyStays DEF Build
  <2>1. TextsSpelled /\ Unwalked
    BY <1>3 DEF TreeSpelled, Build, Unwalked
  <2>2. CASE Begin
    <3>1. at = 0 /\ at' # 0 /\ begun' = begun + 1 /\ begun \in Nat /\ UNCHANGED <<nodes, text, routes>>
      BY <2>1, <2>2, <1>1 DEF Begin, Unwalked, TypeOK
    <3>2. ASSUME NEW i \in 1 .. begun PROVE Stays(i)'
      BY <3>1 DEF RoutesKept, Stays, Ids
    <3> QED BY <3>1, <3>2 DEF RoutesKept, Stays
  <2>3. CASE InsertHere
    BY <2>1, <2>3, <1>1, HereKept
  <2>4. CASE InsertWild
    BY <2>1, <2>4, <1>1, WildKept
  <2>5. CASE AddChild
    <3>1. Inserting /\ at \in Ids /\ Own \in Seq(Characters) /\ Add(at, Own)
      BY <2>5, <1>1, Busy, RestFacts DEF AddChild, OnText, Inserting
    <3> QED BY <3>1, <2>1, <1>1, AddKept
  <2>6. CASE SplitChild
    BY <2>1, <2>6, <1>1, SplitKept
  <2>7. CASE Descend
    <3>1. at \in Ids /\ Shares /\ at' = Child /\ UNCHANGED <<nodes, text, begun, routes>>
      BY <2>1, <2>7, <1>1, Busy DEF Descend, OnText, Inserting, Call, Unwalked
    <3>2. Child \in Ids /\ 0 \notin Ids
      BY <3>1, <1>1, ChildFacts, KidIsNode DEF TypeOK, Ids
    <3> QED BY <3>1, <3>2, KeptFrom DEF Ids
  <2>8. CASE AddBelow
    <3>1. Inserting /\ Shares /\ Add(Child, Left) /\ at \in Ids /\ rest \in Seq(Signs)
      BY <2>8, <1>1, Busy DEF AddBelow, OnText, Inserting
    <3>2. Child \in Ids /\ Left \in Seq(Characters)
      BY <3>1, <1>1, ChildFacts, KidIsNode, OwnCut
    <3> QED BY <3>1, <3>2, <2>1, <1>1, AddKept
  <2> QED BY <2>2, <2>3, <2>4, <2>5, <2>6, <2>7, <2>8, <1>3 DEF Build
<1>4. CASE UNCHANGED vars
  <2>1. UNCHANGED <<routes, nodes, begun, at, text>>
    BY <1>4 DEF vars
  <2> QED BY <2>1, OrderlyStays DEF RoutesKept, Ids
<1> QED BY <1>2, <1>3, <1>4 DEF Next

\* The tree is sound at every call of insert and splitChild, whatever the order
\* of the files: it spells the patterns, and no insert loses an earlier route
\* (router.go:238-242, radix.go:32-158).
THEOREM TreeIsSound == Spec => []TreeSound
<1>1. Init => (Orderly => RoutesKept)
  <2>1. Init => begun = 0
    BY DEF Init
  <2>2. begun = 0 => RoutesKept
    BY DEF RoutesKept
  <2> QED BY <2>1, <2>2
<1>2. TreeSpelled /\ TreeSpelled' /\ (Orderly => RoutesKept) /\ [Next]_vars => (Orderly => RoutesKept)'
  BY RoutesStay
<1>3. TreeSpelled /\ (Orderly => RoutesKept) <=> TreeSound
  BY DEF TreeSound, TreeSpelled
<1> QED BY <1>1, <1>2, <1>3, TreeIsSpelled, PTL DEF Spec
-----------------------------------------------------------------------------
(* The map of the static patterns                                          *)

StaticMap ==
  /\ \A p \in DOMAIN static : /\ static[p] \in DOMAIN routes
                              /\ Pattern(routes[static[p]]) = p /\ ~IsDynamic(p)
  /\ \A i \in DOMAIN routes :
       LET p == Pattern(routes[i])
       IN  ~IsDynamic(p) => p \in DOMAIN static /\ i <= static[p]

\* A new route takes its static pattern over and leaves the others.
LEMMA AddRouteKeeps == ASSUME TypeOK, TypeOK', StaticMap, AddRoute PROVE StaticMap'
<1> DEFINE n == Len(routes)
           d == Pattern(New)
           new == New
           t == Put(static, d, n + 1)
<1>1. /\ routes' = Append(routes, new) /\ static' = IF IsDynamic(d) THEN static ELSE t
  BY DEF AddRoute
<1>2. n \in Nat /\ DOMAIN routes = 1 .. n
  BY DEF TypeOK
<1>3. /\ DOMAIN t = {d} \cup DOMAIN static
      /\ \A p \in DOMAIN t : t[p] = IF p = d THEN n + 1 ELSE static[p]
  <2> HIDE DEF n, d
  <2> QED BY DEF Put
<1>4. DOMAIN routes' = 1 .. n + 1 /\ routes'[n + 1] = new /\ \A i \in 1 .. n : routes'[i] = routes[i]
  <2> HIDE DEF new
  <2> QED BY <1>1 DEF TypeOK
<1>5. Pattern(routes'[n + 1]) = d
  BY <1>4
<1> HIDE DEF n, d, new, t
<1>6. \A p \in DOMAIN static : /\ static[p] \in 1 .. n /\ ~IsDynamic(p)
                               /\ Pattern(routes[static[p]]) = p /\ Pattern(routes'[static[p]]) = p
  BY <1>2, <1>4 DEF StaticMap
<1>7. \A i \in 1 .. n : ~IsDynamic(Pattern(routes[i])) =>
         /\ Pattern(routes[i]) \in DOMAIN static /\ i <= static[Pattern(routes[i])]
         /\ Pattern(routes'[i]) = Pattern(routes[i])
  BY <1>2, <1>4 DEF StaticMap
<1>8. \A i \in 1 .. n : Pattern(routes'[i]) = Pattern(routes[i])
  BY <1>4
<1>9. ASSUME NEW p \in DOMAIN static'
      PROVE  static'[p] \in DOMAIN routes' /\ Pattern(routes'[static'[p]]) = p /\ ~IsDynamic(p)
  <2>1. CASE IsDynamic(d)
    <3>1. p \in DOMAIN static /\ static'[p] = static[p]
      BY <2>1, <1>1
    <3> QED BY <3>1, <1>2, <1>4, <1>6
  <2>2. CASE ~IsDynamic(d) /\ p = d
    <3>1. static'[p] = n + 1
      BY <2>2, <1>1, <1>3
    <3> QED BY <3>1, <2>2, <1>2, <1>4, <1>5
  <2>3. CASE ~IsDynamic(d) /\ p # d
    <3>1. p \in DOMAIN static /\ static'[p] = static[p]
      BY <2>3, <1>1, <1>3
    <3> QED BY <3>1, <1>2, <1>4, <1>6
  <2> QED BY <2>1, <2>2, <2>3
<1>10. ASSUME NEW i \in DOMAIN routes', ~IsDynamic(Pattern(routes'[i]))
       PROVE  Pattern(routes'[i]) \in DOMAIN static' /\ i <= static'[Pattern(routes'[i])]
  <2>1. CASE i = n + 1
    <3>1. Pattern(routes'[i]) = d /\ ~IsDynamic(d)
      BY <2>1, <1>5, <1>10
    <3>2. d \in DOMAIN static' /\ static'[d] = n + 1
      BY <3>1, <1>1, <1>3
    <3>3. n + 1 <= n + 1
      BY <1>2
    <3> QED BY <3>1, <3>2, <3>3, <2>1
  <2>2. CASE i \in 1 .. n
    <3> DEFINE p == Pattern(routes[i])
    <3>1. Pattern(routes'[i]) = p /\ ~IsDynamic(p) /\ p \in DOMAIN static /\ i <= static[p]
          /\ static[p] \in 1 .. n
      BY <2>2, <1>6, <1>7, <1>8, <1>10
    <3> HIDE DEF p
    <3>2. p \in DOMAIN static' /\ (static'[p] = static[p] \/ static'[p] = n + 1)
      BY <3>1, <1>1, <1>3
    <3>3. static[p] <= n + 1 /\ i <= n + 1
      BY <3>1, <2>2, <1>2
    <3> QED BY <3>1, <3>2, <3>3
  <2> QED BY <2>1, <2>2, <1>2, <1>4
<1> QED BY <1>9, <1>10 DEF StaticMap

\* Each entry of the map is a route with that pattern, and no later route has it
\* (router.go:165-170, 222-227).
THEOREM StaticMapHolds == Spec => []StaticMap
<1>1. Init => StaticMap
  <2> SUFFICES ASSUME Init PROVE StaticMap
    OBVIOUS
  <2>1. routes = <<>> /\ static = [p \in {} |-> 0]
    BY DEF Init
  <2>2. DOMAIN routes = {}
    BY ONLY <2>1, NoItems
  <2>3. DOMAIN static = {}
    BY ONLY <2>1
  <2> QED BY <2>2, <2>3 DEF StaticMap
<1>2. TreeSpelled /\ TreeSpelled' /\ StaticMap /\ [Next]_vars => StaticMap'
  <2> SUFFICES ASSUME TypeOK, TypeOK', StaticMap, [Next]_vars PROVE StaticMap'
    BY DEF TreeSpelled
  <2>1. CASE AddRoute
    BY <2>1, AddRouteKeeps
  <2>2. CASE AddLayout \/ NoFile \/ Build \/ UNCHANGED vars
    <3>1. routes' = routes /\ static' = static
      BY <2>2 DEF AddLayout, NoFile, Build, vars
    <3> QED BY <3>1 DEF StaticMap
  <2> QED BY <2>1, <2>2 DEF Next
<1> QED BY <1>1, <1>2, TreeIsSpelled, PTL DEF Spec

\* Lookup asks the map first.
LEMMA LastOf == ASSUME TypeOK, StaticMap PROVE LastFileAnswers
<1> SUFFICES ASSUME NEW i \in DOMAIN routes, ~IsDynamic(Pattern(routes[i]))
             PROVE  /\ Lookup(Pattern(routes[i])).route \in DOMAIN routes
                    /\ Pattern(routes[Lookup(Pattern(routes[i])).route]) = Pattern(routes[i])
                    /\ \A j \in DOMAIN routes : Pattern(routes[j]) = Pattern(routes[i])
                         => j <= Lookup(Pattern(routes[i])).route
  BY DEF LastFileAnswers
<1> DEFINE p == Pattern(routes[i])
<1>1. p \in DOMAIN static
  BY DEF StaticMap
<1>2. Lookup(p).route = static[p]
  BY <1>1 DEF Lookup, Result
<1>3. static[p] \in DOMAIN routes /\ Pattern(routes[static[p]]) = p
  BY <1>1 DEF StaticMap
<1>4. \A j \in DOMAIN routes : Pattern(routes[j]) = p => j <= static[p]
  BY DEF StaticMap
<1> QED BY <1>2, <1>3, <1>4

\* Of the files with one static pattern the last of the walk answers, whatever
\* the tree is like (router.go:165-170, 222-227, 244-250).
THEOREM LastAnswers == Spec => []LastFileAnswers
<1>1. TreeSpelled /\ StaticMap => LastFileAnswers
  BY LastOf DEF TreeSpelled
<1> QED BY <1>1, TreeIsSpelled, StaticMapHolds, PTL

-----------------------------------------------------------------------------
(* search                                                                  *)

\* Two assignments of parameters agree on the placeholders of a text; each of
\* them has a value there that search may have given it.
Agree(s, p, q) == \A h \in ToSet(s) \cap Holes : p[Param[h]] = q[Param[h]]
Valued(s, p)   == \A h \in ToSet(s) \cap Holes :
                    /\ p[Param[h]] # <<>>
                    /\ h \in CatchAlls \/ ~Contains(p[Param[h]], Slash)

\* The elements of a concatenation.
LEMMA ConcatSet ==
  ASSUME NEW E, NEW s \in Seq(E), NEW t \in Seq(E)
  PROVE  ToSet(s) \subseteq ToSet(s \o t) /\ ToSet(s \o t) \subseteq ToSet(s) \cup ToSet(t)
<1> DEFINE u == s \o t
           m == Len(s)
           n == Len(t)
<1>1. m \in Nat /\ n \in Nat /\ DOMAIN s = 1 .. m /\ DOMAIN t = 1 .. n /\ DOMAIN u = 1 .. m + n
      /\ (\A i \in 1 .. m : u[i] = s[i]) /\ \A i \in 1 .. m + n : i > m => i - m \in 1 .. n /\ u[i] = t[i - m]
  OBVIOUS
<1> HIDE DEF u, m, n
<1>2. \A i \in 1 .. m : i \in 1 .. m + n
  BY <1>1
<1>3. \A i \in 1 .. m + n : i \in 1 .. m \/ i > m
  BY <1>1
<1>4. ToSet(s) \subseteq ToSet(u)
  BY <1>1, <1>2 DEF ToSet
<1>5. ToSet(u) \subseteq ToSet(s) \cup ToSet(t)
  BY <1>1, <1>3 DEF ToSet
<1> QED BY <1>4, <1>5 DEF u

LEMMA ItemsOfSet == ASSUME NEW E, NEW s \in Seq(E) PROVE ToSet(s) \subseteq E
BY DEF ToSet

\* Letters and plain names bring no placeholders.
LEMMA LettersHoleless ==
  ASSUME NEW s \in Seq(Characters)
  PROVE  Letters(s) \in Seq(Letter) /\ Letters(s) \in Seq(Alphabet) /\ ToSet(Letters(s)) \cap Holes = {}
<1> DEFINE t == Letters(s)
<1>1. t \in Seq(Letter)
  BY LettersType DEF Letter
<1> HIDE DEF t
<1>2. t \in Seq(Alphabet)
  BY <1>1, Letterwise
<1>3. ToSet(t) \subseteq Letter
  BY <1>1, ItemsOfSet
<1> QED BY <1>1, <1>2, <1>3, SlashIsNoHole DEF t, Letter

LEMMA TextType == ASSUME TypeOK, NEW n \in Ids PROVE text[n] \in Seq(Alphabet)
BY DEF TypeOK, Ids, Alphabet

\* The name of a wildcard is new in its text.
LEMMA WildIsNew ==
  ASSUME TypeOK, IsTree, Orderly, TextsSpelled, NEW n \in Ids, nodes[n].wild # 0
  PROVE  /\ nodes[n].wild \in Ids /\ nodes[nodes[n].wild].hole \in Holes
         /\ text[nodes[n].wild] = Append(text[n], nodes[nodes[n].wild].hole)
         /\ \A h \in ToSet(text[n]) \cap Holes : Param[h] # Param[nodes[nodes[n].wild].hole]
<1> DEFINE w == nodes[n].wild
           x == nodes[w].hole
           s == text[n]
           goal(i) == Letters(Pattern(routes[i]))
<1>1. w \in Ids /\ x \in Holes /\ text[w] = Append(s, x) /\ s \in Seq(Alphabet) /\ text[1] = <<>>
  <2>1. w \in Ids /\ x \in Holes
    BY DEF IsTree
  <2> QED BY <2>1, TextType DEF TextsSpelled
<1> HIDE DEF w, x, s
<1>2. w # 1
  <2>1. Len(text[w]) # 0
    BY <1>1
  <2> QED BY <2>1, <1>1
<1>3. PICK i \in 1 .. begun : IsPrefix(text[w], goal(i))
  BY <1>1, <1>2 DEF TextsSpelled
<1>4. i \in DOMAIN routes
  BY DEF TypeOK
<1> DEFINE u == goal(i)
           k == Len(s) + 1
<1>5. u \in Seq(Alphabet) /\ x \in Alphabet /\ IsPrefix(Append(s, x), u)
  BY <1>1, <1>3, <1>4, RouteLetters, Letterwise
<1>6. \A a, b \in DOMAIN u : a \in DOMAIN u /\ u[a] \in Holes /\ b \in DOMAIN u /\ u[b] \in Holes
        /\ Param[u[a]] = Param[u[b]] => a = b
  BY <1>4 DEF Orderly
<1> HIDE DEF u, goal
<1>7. Begins(u, s, x)
  BY <1>1, <1>5, PrefixBegins
<1>8. k \in DOMAIN u /\ u[k] = x /\ SubSeq(u, 1, k - 1) = s
  BY <1>7 DEF Begins
<1>9. ASSUME NEW h \in ToSet(s) \cap Holes PROVE Param[h] # Param[x]
  <2>1. PICK j \in 1 .. Len(s) : h = s[j]
    BY <1>1 DEF ToSet
  <2>2. k \in 1 .. Len(u) /\ k - 1 = Len(s) /\ j \in 1 .. k - 1 /\ j # k /\ j \in DOMAIN u
    BY <1>1, <1>5, <1>8
  <2>3. SubSeq(u, 1, k - 1)[j] = u[j]
    BY <1>5, <2>2
  <2>4. u[j] = h
    BY <2>1, <2>3, <1>8
  <2> HIDE DEF k
  <2> QED BY <2>2, <2>4, <1>1, <1>6, <1>8
<1> QED BY <1>1, <1>9 DEF w, x, s

\* What search returns to a call.
Answers(call, r) ==
  /\ r \in Results
  /\ Agree(text[call.node], r.params, call.params)
  /\ r.route # 0 =>
       LET letters == Letters(Pattern(routes[r.route]))
       IN  /\ Spelled(letters, r.params) = Spelled(text[call.node], call.params) \o Letters(call.path)
           /\ Valued(text[call.node], call.params) => Valued(letters, r.params)

\* The parameters on which two assignments agree spell the same.
LEMMA AgreeSame ==
  ASSUME NEW s, NEW p, NEW q, Agree(s, p, q)
  PROVE  Spelled(s, p) = Spelled(s, q) /\ (Valued(s, q) => Valued(s, p))
<1>1. \A i \in DOMAIN s : s[i] \in Holes => p[Param[s[i]]] = q[Param[s[i]]]
  BY DEF Agree, ToSet
<1>2. Spelled(s, p) = Spelled(s, q)
  BY <1>1, SpelledSame
<1> QED BY <1>2 DEF Agree, Valued

\* A node whose path is used up answers with its handler.
LEMMA AnswerHere ==
  ASSUME TypeOK, IsTree, TextsSpelled, NEW call \in Calls, call.path = <<>>
  PROVE  Answers(call, Result(nodes[call.node].handler, call.params))
<1> DEFINE n == call.node
           p == call.params
           s == text[n]
           r == Result(nodes[n].handler, p)
<1>1. n \in Ids /\ p \in Params
  BY DEF Calls, Ids
<1>2. r.route = nodes[n].handler /\ r.params = p /\ r \in Results
  <2>1. nodes[n].handler \in 0 .. begun /\ begun \in 0 .. Len(routes)
    BY <1>1 DEF IsTree, TypeOK
  <2>2. nodes[n].handler \in 0 .. Len(routes)
    BY <2>1
  <2> QED BY <1>1, <2>2 DEF Result, Results
<1>3. s \in Seq(Alphabet)
  BY <1>1, TextType
<1>4. Spelled(s, p) \o Letters(call.path) = Spelled(s, p)
  <2> DEFINE a == Spelled(s, p)
  <2>1. a \in Seq(Letter)
    <3> HIDE DEF s, p
    <3> QED BY <1>1, <1>3, SpelledType
  <2> HIDE DEF a
  <2>2. a \o <<>> = a
    BY <2>1
  <2> QED BY <2>2, LettersFew DEF a
<1>5. nodes[n].handler # 0 => s = Letters(Pattern(routes[nodes[n].handler]))
  BY <1>1 DEF TextsSpelled
<1>6. r.route # 0 => /\ Spelled(Letters(Pattern(routes[r.route])), r.params) = Spelled(s, p) \o Letters(call.path)
                     /\ Valued(s, p) => Valued(Letters(Pattern(routes[r.route])), r.params)
  <2> HIDE DEF s, p, n, r
  <2> QED BY <1>2, <1>4, <1>5
<1>7. Agree(s, r.params, p)
  BY <1>2 DEF Agree
<1> HIDE DEF r
<1>8. Answers(call, r)
  BY <1>2, <1>6, <1>7 DEF Answers
<1> QED BY <1>8 DEF r

\* Finding nothing answers every call.
LEMMA AnswerNone ==
  ASSUME TypeOK, NEW call \in Calls
  PROVE  Answers(call, Result(0, call.params))
<1>1. call.params \in Params /\ 0 \in 0 .. Len(routes)
  BY DEF Calls, TypeOK
<1>2. Result(0, call.params) \in Results /\ Result(0, call.params).route = 0 /\ Result(0, call.params).params = call.params
  BY <1>1 DEF Result, Results
<1> QED BY <1>2 DEF Answers, Agree

\* The call that search makes for a node; it strips a slash first.
LEMMA EnterCall ==
  ASSUME NEW n \in Ids, NEW path \in Seq(Characters), NEW p \in Params
  PROVE  /\ Enter(n, path, p) \in Calls /\ Enter(n, path, p).node = n /\ Enter(n, path, p).params = p
         /\ Letters(Enter(n, path, p).path) = Letters(path)
<1>1. Trim(path) \in Seq(Characters) /\ Letters(Trim(path)) = Letters(path)
  BY TrimLetters
<1> DEFINE t == Trim(path)
<1> HIDE DEF t
<1> QED BY <1>1 DEF t, Enter, Calls, Ids

LEMMA CallFields ==
  ASSUME NEW call \in Calls
  PROVE  call.node \in Ids /\ call.kid \in Nat \ {0} /\ call.path \in Seq(Characters) /\ call.params \in Params
BY DEF Calls, Ids

LEMMA ResultFields ==
  ASSUME NEW r \in Results
  PROVE  r.route \in 0 .. Len(routes) /\ r.params \in Params
BY DEF Results

\* Behind a text, the parameters and the path of a call: what follows for the
\* call from what follows for a call further down.
LEMMA AnswerUp ==
  ASSUME NEW call \in Calls, NEW low \in Calls, NEW r, Answers(low, r),
         Agree(text[call.node], low.params, call.params),
         ToSet(text[call.node]) \subseteq ToSet(text[low.node]),
         Spelled(text[low.node], low.params) \o Letters(low.path)
           = Spelled(text[call.node], call.params) \o Letters(call.path),
         Valued(text[call.node], call.params) => Valued(text[low.node], low.params)
  PROVE  Answers(call, r)
<1> DEFINE s == text[call.node]
           t == text[low.node]
<1>1. r \in Results /\ Agree(t, r.params, low.params)
  BY DEF Answers
<1>2. Agree(s, r.params, call.params)
  BY <1>1 DEF Agree
<1>3. r.route # 0 =>
        /\ Spelled(Letters(Pattern(routes[r.route])), r.params) = Spelled(s, call.params) \o Letters(call.path)
        /\ Valued(s, call.params) => Valued(Letters(Pattern(routes[r.route])), r.params)
  BY DEF Answers
<1> HIDE DEF s, t
<1> QED BY <1>1, <1>2, <1>3 DEF Answers, s

\* The call for a child that the path begins with.
Below(call, id) == Enter(id, Trim(Drop(call.path, Len(nodes[id].path))), call.params)

\* What answers the call for a child that the path begins with answers the call.
LEMMA AnswerBelow ==
  ASSUME TypeOK, IsTree, NEW call \in Calls, NEW id \in Kids(call.node),
         IsPrefix(nodes[id].path, call.path)
  PROVE  /\ Below(call, id) \in Calls
         /\ \A r : TextsSpelled /\ Answers(Below(call, id), r) => Answers(call, r)
<1> DEFINE n == call.node
           p == call.params
           path == nodes[id].path
           left == Drop(call.path, Len(path))
           low == Below(call, id)
           s == text[n]
           t == text[id]
<1>1. n \in Ids /\ p \in Params /\ id \in Ids /\ call.path \in Seq(Characters) /\ path \in Seq(Characters)
  BY CallFields, KidIsNode DEF NodeType
<1>2. call.path = path \o left /\ left \in Seq(Characters)
  <2> DEFINE c == call.path
  <2> HIDE DEF c, path
  <2> QED BY <1>1, PrefixFacts DEF c, path
<1>3. Trim(left) \in Seq(Characters) /\ Letters(Trim(left)) = Letters(left)
  <2> HIDE DEF left
  <2> QED BY <1>2, TrimLetters
<1>4. low \in Calls /\ low.node = id /\ low.params = p /\ Letters(low.path) = Letters(left)
  <2> DEFINE l == Trim(left)
  <2>1. low = Enter(id, l, p)
    BY DEF Below
  <2> HIDE DEF l, low
  <2> QED BY <1>1, <1>3, <2>1, EnterCall DEF l
<1> HIDE DEF low, left, n, p
<1>5. Letters(call.path) = Letters(path) \o Letters(left)
  <2> HIDE DEF path
  <2>1. Letters(path \o left) = Letters(path) \o Letters(left)
    BY <1>1, <1>2, LettersConcat
  <2> QED BY <2>1, <1>2
<1>6. /\ Letters(path) \in Seq(Letter) /\ Letters(path) \in Seq(Alphabet) /\ ToSet(Letters(path)) \cap Holes = {}
      /\ Letters(left) \in Seq(Letter) /\ Letters(left) \in Seq(Alphabet)
  <2> HIDE DEF path
  <2> QED BY <1>1, <1>2, LettersHoleless
<1>7. s \in Seq(Alphabet)
  BY <1>1, TextType
<1>8. ASSUME NEW r, TextsSpelled, Answers(low, r) PROVE Answers(call, r)
  <2> DEFINE a == Letters(path)
             b == Letters(left)
             v == Spelled(s, p)
  <2>1. t = s \o a
    BY <1>8, <1>1 DEF TextsSpelled, n
  <2>2. ToSet(s) \subseteq ToSet(t) /\ ToSet(t) \cap Holes = ToSet(s) \cap Holes
    <3> HIDE DEF s, t, a
    <3>1. ToSet(s) \subseteq ToSet(s \o a) /\ ToSet(s \o a) \subseteq ToSet(s) \cup ToSet(a)
      BY <1>6, <1>7, ConcatSet DEF a
    <3> QED BY <3>1, <2>1, <1>6 DEF a
  <2>3. Spelled(t, p) = v \o a
    <3>1. Spelled(s \o a, p) = Spelled(s, p) \o Spelled(a, p)
      <4> HIDE DEF s, a
      <4> QED BY <1>1, <1>6, <1>7, SpelledConcat DEF a
    <3>2. Spelled(a, p) = a
      <4> HIDE DEF a
      <4> QED BY <1>6, SpelledPlain DEF a
    <3> QED BY <2>1, <3>1, <3>2
  <2>4. v \in Seq(Letter) /\ a \in Seq(Letter) /\ b \in Seq(Letter)
    <3>1. v \in Seq(Letter)
      <4> HIDE DEF s
      <4> QED BY <1>1, <1>7, SpelledType
    <3> QED BY <3>1, <1>6
  <2>5. Spelled(t, p) \o Letters(low.path) = v \o Letters(call.path)
    <3> HIDE DEF v, a, b, t
    <3>1. v \o (a \o b) = (v \o a) \o b
      BY <2>4, ConcatAssoc
    <3> QED BY <3>1, <2>3, <1>4, <1>5 DEF a, b
  <2>6. Agree(s, p, p) /\ (Valued(s, p) => Valued(t, p))
    BY <2>2 DEF Agree, Valued
  <2>7. /\ Agree(text[call.node], low.params, call.params)
        /\ ToSet(text[call.node]) \subseteq ToSet(text[low.node])
        /\ Spelled(text[low.node], low.params) \o Letters(low.path)
             = Spelled(text[call.node], call.params) \o Letters(call.path)
        /\ Valued(text[call.node], call.params) => Valued(text[low.node], low.params)
    BY <2>2, <2>5, <2>6, <1>4 DEF n, p
  <2> QED BY <2>7, <1>4, <1>8, AnswerUp
<1> QED BY <1>4, <1>8 DEF low

\* The call for the next child, with what a failed branch has entered.
Further(call, p) == [call EXCEPT !.kid = @ + 1, !.params = p]

\* What answers the call for the next child, with what a failed branch has left
\* in the parameters, answers the call.
LEMMA AnswerFurther ==
  ASSUME NEW call \in Calls, NEW b, Answers(call, b), NEW r, Answers(Further(call, b.params), r)
  PROVE  Answers(call, r)
<1> DEFINE low == Further(call, b.params)
           s == text[call.node]
<1>1. b.params \in Params /\ Agree(s, b.params, call.params)
  BY ResultFields DEF Answers
<1>2. low \in Calls /\ low.node = call.node /\ low.path = call.path /\ low.params = b.params
  <2>1. call.kid + 1 \in Nat \ {0}
    BY CallFields
  <2> DEFINE k == call.kid + 1
             q == b.params
  <2>2. low = [call EXCEPT !.kid = k, !.params = q] /\ k \in Nat \ {0} /\ q \in Params
    BY <2>1, <1>1 DEF Further
  <2> HIDE DEF k, low, q
  <2>3. /\ low \in Calls /\ low.node = call.node /\ low.path = call.path /\ low.params = q
    BY <2>2 DEF Calls
  <2> QED BY <2>3 DEF q
<1>3. Spelled(s, b.params) = Spelled(s, call.params) /\ (Valued(s, call.params) => Valued(s, b.params))
  BY <1>1, AgreeSame
<1> HIDE DEF low
<1> QED BY <1>1, <1>2, <1>3, AnswerUp DEF low

\* The functions that answer each call.
Answering == {go \in [Calls -> Results] : \A call \in Calls : Answers(call, go[call])}

\* The loop over the children answers (radix.go:173-191).
LEMMA ChildAnswers ==
  ASSUME TypeOK, IsTree, TextsSpelled, NEW go \in Answering, NEW call \in Calls,
         call.kid <= Len(nodes[call.node].kids)
  PROVE  Answers(call, SearchChild(call, go))
<1> DEFINE id == nodes[call.node].kids[call.kid]
           child == nodes[id]
           low == Below(call, id)
           below == go[low]
           past == [call EXCEPT !.kid = @ + 1]
           next == Further(call, below.params)
           fails == child.path = <<>> \/ ~IsPrefix(child.path, call.path)
<1>1. id \in Kids(call.node)
  <2>1. nodes[call.node].kids \in Seq(Nat) /\ call.kid \in Nat \ {0}
    <3>1. nodes[call.node] \in NodeType
      BY CallFields DEF TypeOK, Ids
    <3> QED BY <3>1, CallFields DEF NodeType
  <2>2. call.kid \in DOMAIN nodes[call.node].kids
    BY <2>1
  <2> QED BY <2>2 DEF Kids, ToSet
<1>2. SearchChild(call, go) = IF fails THEN go[past] ELSE IF below.route # 0 THEN below ELSE go[next]
  BY DEF SearchChild, Below, Further
<1> HIDE DEF id, low
<1>3. past = Further(call, call.params)
  BY DEF Further, Calls
<1>4. CASE fails
  <2>1. Answers(call, Result(0, call.params)) /\ Result(0, call.params).params = call.params
    BY AnswerNone DEF Result
  <2>2. past \in Calls
    <3>1. call.kid + 1 \in Nat \ {0}
      BY CallFields
    <3> QED BY <3>1 DEF Calls
  <2> HIDE DEF past, fails
  <2>3. Answers(past, go[past])
    BY <2>2 DEF Answering
  <2>4. Answers(call, go[past])
    <3> DEFINE b == Result(0, call.params)
    <3>1. Answers(call, b) /\ Answers(Further(call, b.params), go[past])
      BY <2>1, <2>3, <1>3
    <3> HIDE DEF b
    <3> QED BY <3>1, AnswerFurther
  <2> QED BY <2>4, <1>2, <1>4
<1>5. CASE ~fails
  <2>1. low \in Calls /\ \A r : Answers(low, r) => Answers(call, r)
    BY <1>1, <1>5, AnswerBelow DEF low
  <2>2. Answers(call, below)
    BY <2>1 DEF Answering
  <2> HIDE DEF below
  <2>3. next \in Calls
    <3>1. call.kid + 1 \in Nat \ {0} /\ below.params \in Params
      BY <2>2, CallFields, ResultFields DEF Answers
    <3> QED BY <3>1 DEF Further, Calls
  <2> HIDE DEF fails, past
  <2>4. Answers(call, go[next])
    <3>1. Answers(next, go[next])
      BY <2>3 DEF Answering
    <3> QED BY <3>1, <2>2, AnswerFurther
  <2> HIDE DEF next
  <2> QED BY <2>2, <2>4, <1>2, <1>5
<1> HIDE DEF fails
<1> QED BY <1>4, <1>5

\* What search enters for a wildcard, and the text behind it.
Binds(t, s, x, p, v) ==
  /\ Bind(p, x, v) \in Params
  /\ Agree(s, Bind(p, x, v), p)
  /\ ToSet(s) \subseteq ToSet(t)
  /\ Spelled(t, Bind(p, x, v)) = Spelled(s, p) \o Letters(v)
  /\ v # <<>> /\ (x \in CatchAlls \/ ~Contains(v, Slash)) =>
       (Valued(s, p) => Valued(t, Bind(p, x, v)))

\* Entering the value of a new name changes nothing in front of it.
LEMMA BindFacts ==
  ASSUME NEW s \in Seq(Alphabet), NEW x \in Holes, NEW p \in Params, NEW v \in Seq(Characters),
         \A h \in ToSet(s) \cap Holes : Param[h] # Param[x]
  PROVE  Binds(Append(s, x), s, x, p, v)
<1> DEFINE q == Bind(p, x, v)
           one == << x >>
<1>1. q \in Params /\ q[Param[x]] = v /\ \A h \in Holes : Param[h] # Param[x] => q[Param[h]] = p[Param[h]]
  BY DEF Bind, Params
<1> HIDE DEF q
<1>2. Agree(s, q, p)
  BY <1>1 DEF Agree
<1>3. one \in Seq(Alphabet) /\ Append(s, x) = s \o one /\ ToSet(one) = {x}
  <2>1. x \in Alphabet
    BY Letterwise
  <2>2. ToSet(one) = {x}
    BY DEF ToSet
  <2> QED BY <2>1, <2>2
<1>4. Spelled(one, q) = Letters(v)
  BY <1>1, SpelledHole
<1> HIDE DEF one
<1>5. Spelled(s \o one, q) = Spelled(s, q) \o Spelled(one, q)
  BY <1>1, <1>3, SpelledConcat
<1>6. Spelled(s, q) = Spelled(s, p)
  BY <1>2, AgreeSame
<1>7. ToSet(s) \subseteq ToSet(s \o one) /\ ToSet(s \o one) \subseteq ToSet(s) \cup ToSet(one)
  BY <1>3, ConcatSet
<1>8. ASSUME v # <<>>, x \in CatchAlls \/ ~Contains(v, Slash), Valued(s, p)
      PROVE  Valued(Append(s, x), q)
  <2> SUFFICES ASSUME NEW h \in ToSet(Append(s, x)) \cap Holes
               PROVE  q[Param[h]] # <<>> /\ (h \in CatchAlls \/ ~Contains(q[Param[h]], Slash))
    BY DEF Valued
  <2>1. CASE h = x
    BY <2>1, <1>1, <1>8
  <2>2. CASE h # x
    <3>1. h \in ToSet(s) \cap Holes
      BY <2>2, <1>3, <1>7
    <3> QED BY <3>1, <1>1, <1>8 DEF Valued
  <2> QED BY <2>1, <2>2
<1> QED BY <1>1, <1>2, <1>3, <1>4, <1>5, <1>6, <1>7, <1>8 DEF q, Binds

\* The wildcard answers, with a segment or with the rest (radix.go:193-214).
LEMMA WildAnswers ==
  ASSUME TypeOK, IsTree, Orderly, TextsSpelled, NEW go \in Answering, NEW call \in Calls,
         call.path # <<>>
  PROVE  Answers(call, SearchWild(call, go))
<1> DEFINE n == call.node
           p == call.params
           path == call.path
           id == nodes[n].wild
           hole == nodes[id].hole
           value == Segment(path)
           left == Drop(path, Len(value) + 1)
           s == text[n]
           rest1 == [node |-> id, kid |-> 1, path |-> <<>>, params |-> Bind(p, hole, path)]
           low == Enter(id, left, Bind(p, hole, value))
<1>1. n \in Ids /\ p \in Params /\ path \in Seq(Characters)
  BY CallFields
<1>2. SearchWild(call, go) =
        IF id = 0 THEN Result(0, p)
        ELSE IF hole \in CatchAlls THEN Result(nodes[id].handler, Bind(p, hole, path))
        ELSE IF value = <<>> THEN Result(0, p) ELSE go[low]
  BY DEF SearchWild
<1>3. Answers(call, Result(0, p))
  BY AnswerNone
<1>4. s \in Seq(Alphabet) /\ Spelled(s, p) \in Seq(Letter)
  <2>1. s \in Seq(Alphabet)
    BY <1>1, TextType
  <2> HIDE DEF s
  <2> QED BY <2>1, <1>1, SpelledType
<1>5. ASSUME id # 0
      PROVE  id \in Ids /\ hole \in Holes /\ text[id] = Append(s, hole)
             /\ \A h \in ToSet(s) \cap Holes : Param[h] # Param[hole]
  BY <1>1, <1>5, WildIsNew
<1>6. CASE id # 0 /\ hole \in CatchAlls
  <2> DEFINE q == Bind(p, hole, path)
  <2>1. /\ q \in Params /\ Agree(s, q, p) /\ ToSet(s) \subseteq ToSet(text[id])
        /\ Spelled(text[id], q) = Spelled(s, p) \o Letters(path)
        /\ Valued(s, p) => Valued(text[id], q)
    <3> HIDE DEF s, hole, path, p, id
    <3>1. Binds(Append(s, hole), s, hole, p, path)
      BY <1>1, <1>4, <1>5, <1>6, BindFacts
    <3>2. text[id] = Append(s, hole) /\ path # <<>>
      BY <1>5, <1>6 DEF path
    <3> QED BY <3>1, <3>2, <1>6 DEF Binds
  <2> HIDE DEF q
  <2>2. rest1 \in Calls /\ rest1.node = id /\ rest1.path = <<>> /\ rest1.params = q
    <3>1. <<>> \in Seq(Characters)
      BY Nothing
    <3> QED BY <3>1, <1>5, <1>6, <2>1 DEF Calls, Ids, q
  <2> HIDE DEF rest1
  <2>3. Answers(rest1, Result(nodes[id].handler, q))
    <3>1. Answers(rest1, Result(nodes[rest1.node].handler, rest1.params))
      BY <2>2, AnswerHere
    <3> QED BY <3>1, <2>2
  <2>4. Spelled(text[id], q) \o Letters(rest1.path) = Spelled(s, p) \o Letters(path)
    <3> DEFINE a == Spelled(text[id], q)
    <3>1. a \in Seq(Letter)
      <4> DEFINE t == text[id]
      <4>1. t \in Seq(Alphabet)
        BY <1>5, <1>6, TextType
      <4> HIDE DEF t
      <4> QED BY <4>1, <2>1, SpelledType DEF t
    <3> HIDE DEF a
    <3>2. a \o <<>> = a
      BY <3>1
    <3>3. Letters(rest1.path) = <<>>
      BY <2>2, LettersFew
    <3> QED BY <3>2, <3>3, <2>1 DEF a
  <2> DEFINE r == Result(nodes[id].handler, q)
  <2>5. SearchWild(call, go) = r
    BY <1>2, <1>6 DEF q
  <2> HIDE DEF r
  <2>6. Answers(rest1, r)
    BY <2>3 DEF r
  <2>7. Answers(call, r)
    BY <2>1, <2>2, <2>4, <2>6, AnswerUp
  <2> QED BY <2>5, <2>7
<1>7. CASE id # 0 /\ hole \notin CatchAlls /\ value # <<>>
  <2> DEFINE q == Bind(p, hole, value)
  <2>1. /\ value \in Seq(Letter) /\ value \in Seq(Characters) /\ left \in Seq(Characters)
        /\ Letters(path) = value \o Letters(left) /\ Letters(value) = value
        /\ ~Contains(value, Slash)
    <3>1. value \in Seq(Letter) /\ left \in Seq(Characters) /\ Letters(path) = value \o Letters(left)
      <4> HIDE DEF path
      <4> QED BY <1>1, SegmentFacts
    <3> HIDE DEF value
    <3>2. Letters(value) = value
      BY <3>1, LettersSame DEF Letter
    <3>3. value \in Seq(Characters) /\ ~Contains(value, Slash)
      BY <3>1 DEF Letter, Contains
    <3> QED BY <3>1, <3>2, <3>3
  <2>2. /\ q \in Params /\ Agree(s, q, p) /\ ToSet(s) \subseteq ToSet(text[id])
        /\ Spelled(text[id], q) = Spelled(s, p) \o value
        /\ Valued(s, p) => Valued(text[id], q)
    <3> HIDE DEF s, hole, value, p, id
    <3>1. Binds(Append(s, hole), s, hole, p, value)
      BY <1>1, <1>4, <1>5, <1>7, <2>1, BindFacts
    <3>2. text[id] = Append(s, hole)
      BY <1>5, <1>7
    <3> QED BY <3>1, <3>2, <1>7, <2>1 DEF Binds
  <2>3. low \in Calls /\ low.node = id /\ low.params = q /\ Letters(low.path) = Letters(left)
    <3>1. id \in Ids
      BY <1>5, <1>7
    <3> HIDE DEF q, left, id
    <3> QED BY <3>1, <2>1, <2>2, EnterCall DEF q
  <2> HIDE DEF low, q
  <2>4. Spelled(text[id], q) \o Letters(low.path) = Spelled(s, p) \o Letters(path)
    <3> DEFINE a == Spelled(s, p)
               b == value
               c == Letters(left)
    <3>1. a \in Seq(Letter) /\ b \in Seq(Letter)
      BY <1>4, <2>1
    <3>2. c \in Seq(Letter)
      <4> HIDE DEF left
      <4> QED BY <2>1, LettersHoleless
    <3> HIDE DEF a, b, c
    <3>3. a \o (b \o c) = (a \o b) \o c
      BY <3>1, <3>2, ConcatAssoc
    <3> QED BY <3>3, <2>1, <2>2, <2>3 DEF a, b, c
  <2>5. Answers(low, go[low])
    BY <2>3 DEF Answering
  <2> DEFINE r == go[low]
  <2>6. SearchWild(call, go) = r
    BY <1>2, <1>7
  <2> HIDE DEF r
  <2>7. Answers(low, r)
    BY <2>5 DEF r
  <2>8. Answers(call, r)
    BY <2>2, <2>3, <2>4, <2>7, AnswerUp
  <2> QED BY <2>6, <2>8
<1> HIDE DEF id, hole, value, p
<1> QED BY <1>2, <1>3, <1>6, <1>7

\* search answers when the calls it makes do.
LEMMA SearchAnswers ==
  ASSUME TypeOK, IsTree, Orderly, TextsSpelled, NEW go \in Answering, NEW call \in Calls
  PROVE  Answers(call, Search(call, go))
BY AnswerHere, ChildAnswers, WildAnswers DEF Search

\* search on a path, from the root.
LEMMA SearchTreeAnswers ==
  ASSUME TypeOK, IsTree, Orderly, TextsSpelled, NEW path \in Seq(Characters)
  PROVE  Answers(Enter(1, path, Unbound), SearchTree(path))
<1> DEFINE m == Fuel(path)
           T == Answering
           none == [call \in Calls |-> Result(0, call.params)]
           step == [x \in (1 .. m) \X T |-> [call \in Calls |-> Search(call, x[2])]]
           Finds(f) == f = [depth \in 0 .. m |-> [call \in Calls |->
                              IF depth = 0 THEN Result(0, call.params) ELSE Search(call, f[depth - 1])]]
           found == CHOOSE f : Finds(f)
<1>1. m \in Nat
  <2>1. Len(path) \in Nat /\ Len(nodes) \in Nat
    BY DEF TypeOK
  <2> QED BY <2>1 DEF Fuel
<1>2. none \in T
  <2>1. ASSUME NEW call \in Calls PROVE Result(0, call.params) \in Results /\ Answers(call, Result(0, call.params))
    BY AnswerNone DEF Answers
  <2> QED BY <2>1 DEF Answering
<1>3. ASSUME NEW go \in T PROVE [call \in Calls |-> Search(call, go)] \in T
  <2>1. ASSUME NEW call \in Calls PROVE Search(call, go) \in Results /\ Answers(call, Search(call, go))
    BY SearchAnswers DEF Answers
  <2> QED BY <2>1 DEF Answering
<1> HIDE DEF m, T
<1>4. step \in [(1 .. m) \X T -> T]
  BY <1>3
<1>5. \A i \in 1 .. m, go \in T : step[<<i, go>>] = [call \in Calls |-> Search(call, go)]
  OBVIOUS
<1> HIDE DEF step, none
<1>6. PICK f \in [0 .. m -> T] : f[0] = none /\ \A i \in 1 .. m : f[i] = step[<<i, f[i - 1]>>]
  <2>1. Iterated(T, none, m, step)
    BY <1>1, <1>2, <1>4, Recursion
  <2> QED BY <2>1 DEF Iterated
<1>7. Finds(f)
  <2>1. \A i \in 1 .. m : f[i - 1] \in T
    BY <1>1
  <2>2. \A i \in 1 .. m : f[i] = [call \in Calls |-> Search(call, f[i - 1])]
    BY <2>1, <1>5, <1>6
  <2>3. ASSUME NEW i \in 0 .. m
        PROVE  f[i] = [call \in Calls |-> IF i = 0 THEN Result(0, call.params) ELSE Search(call, f[i - 1])]
    <3>1. CASE i = 0
      BY <3>1, <1>6 DEF none
    <3>2. CASE i # 0
      <4>1. i \in 1 .. m
        BY <3>2, <1>1
      <4>2. f[i] = [call \in Calls |-> Search(call, f[i - 1])]
        BY <2>2, <4>1
      <4> QED BY <3>2, <4>2
    <3> QED BY <3>1, <3>2
  <2> QED BY <2>3
<1>8. Finds(found)
  <2> HIDE DEF Finds
  <2> QED BY <1>7
<1>9. SearchTree(path) = found[m][Enter(1, path, Unbound)]
  BY DEF SearchTree, m
<1>10. \A i \in 0 .. m : found[i] = [call \in Calls |->
          IF i = 0 THEN Result(0, call.params) ELSE Search(call, found[i - 1])]
  <2> HIDE DEF found
  <2> QED BY <1>8
<1> HIDE DEF found, Finds
<1> DEFINE S == {i \in Nat : i <= m => found[i] \in T}
<1>11. S = Nat
  <2>1. 0 \in S
    <3>1. 0 \in 0 .. m
      BY <1>1
    <3>2. found[0] = none
      BY <3>1, <1>10 DEF none
    <3> QED BY <3>2, <1>2
  <2>2. ASSUME NEW i \in Nat, i \in S PROVE i + 1 \in S
    <3> SUFFICES ASSUME i + 1 <= m PROVE found[i + 1] \in T
      OBVIOUS
    <3> DEFINE k == i + 1
    <3>1. k \in 0 .. m /\ k # 0 /\ k - 1 = i /\ found[i] \in T
      BY <1>1, <2>2
    <3> HIDE DEF k
    <3>2. found[k] = [call \in Calls |-> Search(call, found[i])]
      BY <3>1, <1>10
    <3>3. found[k] \in T
      BY <3>1, <3>2, <1>3
    <3> QED BY <3>3 DEF k
  <2>3. S \in SUBSET Nat
    OBVIOUS
  <2> HIDE DEF S
  <2> QED BY <2>1, <2>2, <2>3, Induction
<1>12. found[m] \in Answering
  <2>1. m \in S
    <3> HIDE DEF S
    <3> QED BY <1>1, <1>11
  <2> QED BY <2>1, <1>1 DEF T
<1>13. Enter(1, path, Unbound) \in Calls
  <2>1. Unbound \in Params /\ 1 \in Ids
    BY Nothing DEF Unbound, Params, IsTree
  <2> QED BY <2>1, EnterCall
<1> QED BY <1>9, <1>12, <1>13 DEF Answering

\* A pattern without placeholders is spelled by its own letters.
LEMMA StaticLetters ==
  ASSUME NEW s \in Seq(Signs), ~IsDynamic(s), NEW p
  PROVE  Spelled(Letters(s), p) = Letters(s) /\ ToSet(Letters(s)) \cap Holes = {}
<1>1. s \in Seq(Characters)
  BY DEF IsDynamic, Signs
<1>2. Letters(s) \in Seq(Letter) /\ ToSet(Letters(s)) \cap Holes = {}
  BY <1>1, LettersHoleless
<1> DEFINE t == Letters(s)
<1> HIDE DEF t
<1>3. Spelled(t, p) = t
  BY <1>2, SpelledPlain DEF t
<1> QED BY <1>2, <1>3 DEF t

\* What Lookup finds spells the path, whatever the path.
SpellsPath(path, found) ==
  LET letters == Letters(Pattern(routes[found.route]))
  IN  found.route # 0 =>
        /\ found.route \in DOMAIN routes
        /\ Spelled(letters, found.params) = Letters(path)
        /\ Valued(letters, found.params)

\* Lookup finds what spells the path, in the map or in the tree.
LEMMA LookupAnswers ==
  ASSUME TreeSpelled, StaticMap, Orderly, NEW path \in Seq(Characters)
  PROVE  SpellsPath(path, Lookup(path))
<1> USE DEF TreeSpelled
<1>1. CASE path \in DOMAIN static
  <2> DEFINE i == static[path]
             r == Result(i, Unbound)
  <2>1. i \in DOMAIN routes /\ Pattern(routes[i]) = path /\ ~IsDynamic(path)
    BY <1>1 DEF StaticMap
  <2>2. path \in Seq(Signs)
    BY DEF Signs
  <2>3. Spelled(Letters(path), Unbound) = Letters(path) /\ ToSet(Letters(path)) \cap Holes = {}
    BY <2>1, <2>2, StaticLetters
  <2>4. Valued(Letters(path), Unbound)
    BY <2>3 DEF Valued
  <2>5. Lookup(path) = r /\ r.route = i /\ r.params = Unbound
    BY <1>1 DEF Lookup, Result
  <2> HIDE DEF i, r
  <2> QED BY <2>1, <2>3, <2>4, <2>5 DEF SpellsPath
<1>2. CASE path \notin DOMAIN static
  <2> DEFINE r == SearchTree(path)
             call == Enter(1, path, Unbound)
  <2>1. Lookup(path) = r
    BY <1>2 DEF Lookup
  <2>2. Answers(call, r)
    BY SearchTreeAnswers
  <2>3. Unbound \in Params /\ 1 \in Ids
    BY Nothing DEF Unbound, Params, IsTree
  <2>4. call \in Calls /\ call.node = 1 /\ call.params = Unbound /\ Letters(call.path) = Letters(path)
    BY <2>3, EnterCall
  <2>5. text[1] = <<>> /\ Spelled(<<>>, Unbound) = <<>> /\ Valued(<<>>, Unbound)
    <3>1. text[1] = <<>>
      BY DEF TextsSpelled
    <3>2. <<>> \in Seq(Letter)
      BY Nothing
    <3>3. Spelled(<<>>, Unbound) = <<>>
      BY <3>2, SpelledPlain
    <3>4. Valued(<<>>, Unbound)
      BY NoItems DEF Valued
    <3> QED BY <3>1, <3>3, <3>4
  <2>6. <<>> \o Letters(path) = Letters(path)
    <3> DEFINE a == Letters(path)
    <3>1. a \in Seq(Letter)
      BY LettersHoleless
    <3> HIDE DEF a
    <3>2. <<>> \o a = a
      BY <3>1
    <3> QED BY <3>2 DEF a
  <2> HIDE DEF r, call
  <2>7. r.route # 0 => r.route \in DOMAIN routes
    <3>1. r.route \in 0 .. Len(routes)
      BY <2>2, ResultFields DEF Answers
    <3> QED BY <3>1 DEF TypeOK
  <2>8. r.route # 0 => /\ Spelled(Letters(Pattern(routes[r.route])), r.params) = Letters(path)
                       /\ Valued(Letters(Pattern(routes[r.route])), r.params)
    BY <2>2, <2>4, <2>5, <2>6 DEF Answers
  <2> QED BY <2>1, <2>7, <2>8 DEF SpellsPath
<1> QED BY <1>1, <1>2

\* The same for every path, however long and of whatever segments, and while
\* the tree is being built too: what insert has done so far is never wrong
\* (radix.go:32-158, 160-217).
THEOREM EveryPathIsSpelled ==
  Spec => [](Orderly => \A path \in Seq(Characters) : SpellsPath(path, Lookup(path)))
<1>1. TreeSpelled /\ StaticMap => (Orderly => \A path \in Seq(Characters) : SpellsPath(path, Lookup(path)))
  BY LookupAnswers
<1> QED BY <1>1, TreeIsSpelled, StaticMapHolds, PTL
-----------------------------------------------------------------------------
(* The end of a search                                                     *)

\* A node has fewer children than there are nodes.
KidsFew == \A n \in Ids : Len(nodes[n].kids) < Len(nodes)

\* The children of a node are a sequence.
LEMMA NodeKids == ASSUME NEW node \in NodeType PROVE node.kids \in Seq(Nat) /\ Len(node.kids) \in Nat
<1>1. node.kids \in Seq(Nat)
  BY DEF NodeType
<1> QED BY <1>1

\* One more node allows one more child.
LEMMA FewMore ==
  ASSUME TypeOK, KidsFew, NEW i \in Ids, NEW a \in NodeType, NEW b \in NodeType,
         Len(a.kids) <= Len(nodes), Len(b.kids) <= Len(nodes),
         nodes' = Append([nodes EXCEPT ![i] = a], b)
  PROVE  KidsFew'
<1> DEFINE m == Len(nodes)
<1>1. nodes \in Seq(NodeType) /\ i \in 1 .. Len(nodes) /\ m \in Nat /\ m = Len(nodes)
  BY DEF TypeOK, Ids
<1> HIDE DEF m
<1>2. Grown(NodeType, nodes', nodes, i, a, b)
  BY <1>1, AppendExcept
<1>3. Len(nodes') = m + 1 /\ Ids' = 1 .. m + 1
  BY <1>1, <1>2 DEF Grown, Ids
<1>4. ASSUME NEW n \in Ids' PROVE Len(nodes'[n].kids) < m + 1
  <2>1. CASE n = i
    BY <2>1, <1>1, <1>2, NodeKids DEF Grown
  <2>2. CASE n = m + 1
    BY <2>2, <1>1, <1>2, NodeKids DEF Grown
  <2>3. CASE n # i /\ n # m + 1
    <3>1. n \in 1 .. m /\ nodes'[n] = nodes[n]
      BY <2>3, <1>1, <1>2, <1>3 DEF Grown
    <3>2. Len(nodes[n].kids) < m /\ Len(nodes[n].kids) \in Nat
      <4>1. nodes[n] \in NodeType
        BY <3>1, <1>1
      <4> QED BY <3>1, <4>1, <1>1, NodeKids DEF KidsFew, Ids
    <3> QED BY <3>1, <3>2, <1>1
  <2> QED BY <2>1, <2>2, <2>3
<1> QED BY <1>3, <1>4 DEF KidsFew

\* A new child is a new node.
LEMMA AddKeepsFew ==
  ASSUME TypeOK, KidsFew, NEW parent \in Ids, NEW path \in Seq(Characters), Add(parent, path)
  PROVE  KidsFew'
<1> DEFINE new == Len(nodes) + 1
           leaf == Node(path, "")
           up == [nodes[parent] EXCEPT !.kids = Append(@, new)]
<1>1. nodes[parent] \in NodeType /\ new \in Nat /\ Len(nodes) \in Nat
  BY DEF TypeOK, Ids
<1>2. leaf \in NodeType /\ Len(leaf.kids) = 0
  BY DEF Node, NodeType
<1>3. up \in NodeType /\ Len(up.kids) = Len(nodes[parent].kids) + 1
  <2> DEFINE old == nodes[parent].kids
             more == Append(old, new)
  <2>1. old \in Seq(Nat)
    BY <1>1 DEF NodeType
  <2>2. more \in Seq(Nat) /\ Len(more) = Len(old) + 1
    <3> HIDE DEF old, new
    <3> QED BY <2>1, <1>1
  <2>3. up = [nodes[parent] EXCEPT !.kids = more]
    OBVIOUS
  <2> HIDE DEF more, up
  <2>4. up \in NodeType /\ up.kids = more
    BY <2>2, <2>3, <1>1 DEF NodeType
  <2> QED BY <2>2, <2>4
<1>4. nodes' = Append([nodes EXCEPT ![parent] = up], leaf)
  BY DEF Add
<1>5. Len(nodes[parent].kids) < Len(nodes) /\ Len(nodes[parent].kids) \in Nat
  BY <1>1, NodeKids DEF KidsFew
<1> HIDE DEF up, leaf, new
<1> QED BY <1>1, <1>2, <1>3, <1>4, <1>5, FewMore

\* No step of an insert gives a node as many children as there are nodes: a
\* child is always made together with its node.
LEMMA FewStays ==
  ASSUME TypeOK, IsTree, KidsFew, [Next]_vars
  PROVE  KidsFew'
<1>1. nodes \in Seq(NodeType) /\ Len(nodes) \in Nat /\ \A n \in Ids : nodes[n] \in NodeType
  BY DEF TypeOK, Ids
<1>2. CASE UNCHANGED nodes
  BY <1>2 DEF KidsFew, Ids
<1>3. CASE InsertHere
  <2> DEFINE b == begun
  <2>1. at \in Ids /\ b \in Nat /\ nodes' = [nodes EXCEPT ![at].handler = b]
    BY <1>3 DEF InsertHere, Inserting, TypeOK
  <2> HIDE DEF b
  <2> DEFINE up == [nodes[at] EXCEPT !.handler = b]
  <2>2. nodes' = [nodes EXCEPT ![at] = up]
    BY <2>1
  <2>3. up.kids = nodes[at].kids /\ up \in NodeType /\ at \in 1 .. Len(nodes)
    <3>1. nodes[at] \in NodeType /\ at \in 1 .. Len(nodes)
      BY <2>1, <1>1 DEF Ids
    <3> QED BY <3>1, <2>1 DEF NodeType
  <2> HIDE DEF up
  <2>4. Len(nodes') = Len(nodes) /\ Ids' = Ids /\ \A n \in Ids : nodes'[n].kids = nodes[n].kids
    BY <2>2, <2>3, <1>1 DEF Ids
  <2> QED BY <2>4 DEF KidsFew
<1>4. CASE InsertWild
  <2>1. CASE nodes[at].wild # 0
    BY <2>1, <1>2, <1>4 DEF InsertWild
  <2>2. CASE nodes[at].wild = 0
    <3> DEFINE new == Len(nodes) + 1
               hole == Head(After)
               leaf == Node(<<>>, hole)
               up == [nodes[at] EXCEPT !.wild = new]
    <3>1. /\ at \in Ids /\ rest \in Seq(Signs) /\ Own = <<>> /\ rest \notin {<<>>, <<Slash>>}
          /\ nodes' = Append([nodes EXCEPT ![at] = up], leaf)
      BY <1>4, <2>2 DEF InsertWild, Inserting, TypeOK
    <3>2. hole \in Holes
      BY <3>1, RestFacts
    <3>3. leaf \in NodeType /\ Len(leaf.kids) = 0
      <4>1. <<>> \in Seq(Characters) /\ <<>> \in Seq(Nat) /\ 0 \in Nat
        OBVIOUS
      <4> HIDE DEF hole
      <4>2. leaf \in NodeType /\ leaf.kids = <<>>
        BY <3>2, <4>1 DEF Node, NodeType
      <4> HIDE DEF leaf
      <4> QED BY <4>2, NoItems
    <3>4. up \in NodeType /\ up.kids = nodes[at].kids
      <4>1. new \in Nat /\ nodes[at] \in NodeType
        BY <1>1, <3>1
      <4> HIDE DEF new
      <4> QED BY <4>1 DEF NodeType
    <3>5. Len(nodes[at].kids) < Len(nodes) /\ Len(nodes[at].kids) \in Nat
      BY <1>1, <3>1, NodeKids DEF KidsFew
    <3> HIDE DEF up, leaf, new
    <3> QED BY <1>1, <3>1, <3>3, <3>4, <3>5, FewMore
  <2> QED BY <2>1, <2>2
<1>5. CASE AddChild
  <2>1. at \in Ids /\ Own \in Seq(Characters) /\ Add(at, Own)
    BY <1>5, RestFacts DEF AddChild, OnText, Inserting, TypeOK
  <2> QED BY <2>1, AddKeepsFew
<1>6. CASE SplitChild
  <2> DEFINE kid == Child
             node == nodes[kid]
             new == Len(nodes) + 1
             above == SubSeq(node.path, 1, Shared)
             below == Drop(node.path, Shared)
             upper == [Node(above, "") EXCEPT !.kids = << new >>]
             lower == [node EXCEPT !.path = below]
  <2>1. at \in Ids /\ Shares /\ nodes' = Append([nodes EXCEPT ![kid] = upper], lower)
    BY <1>6 DEF SplitChild, OnText, Inserting, TypeOK
  <2>2. Split(kid, above, below) /\ kid \in Ids /\ node \in NodeType
    BY <1>6, <2>1, SplitNodes, ChildFacts, KidIsNode
  <2> HIDE DEF kid, above, below, new
  <2>3. upper.kids = << new >> /\ lower.kids = node.kids
    BY <2>2 DEF Node, NodeType
  <2>4. Grown(NodeType, nodes', nodes, kid, upper, lower) /\ upper \in NodeType /\ lower \in NodeType
    <3>1. above \in Seq(Characters) /\ below \in Seq(Characters)
      <4>1. nodes'[kid] \in NodeType /\ nodes'[Len(nodes) + 1] \in NodeType
        BY <2>2, <1>1 DEF Split, Ids
      <4> QED BY <4>1, <2>2 DEF Split, NodeType
    <3>2. << new >> \in Seq(Nat)
      BY <1>1 DEF new
    <3>3. upper \in NodeType /\ lower \in NodeType
      BY <3>1, <3>2, <2>2 DEF Node, NodeType
    <3> HIDE DEF upper, lower
    <3> QED BY <3>3, <2>1, <2>2, <1>1, AppendExcept DEF Ids
  <2>5. Len(node.kids) < Len(nodes) /\ Len(node.kids) \in Nat /\ Len(<< new >>) = 1
    BY <2>2, NodeKids DEF KidsFew
  <2> HIDE DEF upper, lower, node
  <2>6. Len(upper.kids) <= Len(nodes) /\ Len(lower.kids) <= Len(nodes)
    BY <2>3, <2>5, <1>1
  <2> QED BY <2>1, <2>2, <2>4, <2>6, FewMore
<1>7. CASE AddBelow
  <2> DEFINE left == Left
             kid == Child
  <2>1. at \in Ids /\ Shares /\ Add(kid, left) /\ OnText /\ Shared = Len(nodes[Child].path)
    BY <1>7 DEF AddBelow, OnText, Inserting, TypeOK
  <2>2. kid \in Ids
    BY <2>1, ChildFacts, KidIsNode
  <2>3. left \in Seq(Characters)
    <3>1. Own \in Seq(Characters) /\ Shared \in 0 .. Len(Own)
      BY <2>1, ChildFacts, RestFacts DEF TypeOK
    <3> DEFINE o == Own
               k == Shared
               d == Drop(o, k)
    <3> HIDE DEF o, k
    <3>2. IsCut(Characters, o, k, SubSeq(o, 1, k), Drop(o, k))
      BY <3>1, Cut DEF o, k
    <3>3. d \in Seq(Characters)
      BY <3>2 DEF IsCut
    <3> HIDE DEF d
    <3>4. Trim(d) \in Seq(Characters)
      BY <3>3, TrimLetters
    <3> QED BY <3>4 DEF Left, d, o, k
  <2> HIDE DEF kid, left
  <2> QED BY <2>1, <2>2, <2>3, AddKeepsFew
<1> QED
  BY <1>2, <1>3, <1>4, <1>5, <1>6, <1>7
  DEF Next, Build, AddRoute, AddLayout, NoFile, Found, Pass, tree, Begin, Descend, vars

\* At every moment a node has fewer children than there are nodes.
LEMMA FewAlways == Spec => []KidsFew
<1>1. Init => KidsFew
  <2> SUFFICES ASSUME Init PROVE KidsFew
    OBVIOUS
  <2> DEFINE root == Node(<<>>, "")
  <2>1. root \in NodeType /\ root.kids = <<>>
    BY RootType DEF Node
  <2>2. nodes = << root >>
    BY DEF Init
  <2> HIDE DEF root
  <2>3. IsOne(NodeType, nodes, root)
    BY <2>1, <2>2, One
  <2>4. Ids = {1} /\ Len(nodes) = 1 /\ nodes[1].kids = <<>>
    BY <2>1, <2>3 DEF IsOne, Ids
  <2>5. Len(nodes[1].kids) = 0
    BY <2>4, NoItems
  <2> QED BY ONLY <2>4, <2>5 DEF KidsFew
<1>2. TreeSpelled /\ KidsFew /\ [Next]_vars => KidsFew'
  BY FewStays DEF TreeSpelled
<1> QED BY <1>1, <1>2, TreeIsSpelled, PTL DEF Spec

\* What a call of search has before it: characters of the path, and children.
Untried(call) ==
  LET m == Len(nodes[call.node].kids)
  IN  IF call.kid <= m THEN m + 1 - call.kid ELSE 0
Work(call) == Len(call.path) * (Len(nodes) + 1) + Untried(call)

\* Less of the path is less work, whatever the children.
LEMMA LessPath ==
  ASSUME NEW a \in Nat, NEW b \in Nat, a < b, NEW m \in Nat, NEW k \in Nat, k <= m, NEW j \in Nat
  PROVE  a * (m + 1) + k < b * (m + 1) + j
<1> DEFINE d == b - a - 1
           w == m + 1
<1>1. d \in Nat /\ b = a + 1 + d /\ w \in Nat /\ w = m + 1
  OBVIOUS
<1> HIDE DEF d, w
<1>2. b * w = a * w + w + d * w
  BY <1>1
<1>3. a * w \in Nat /\ d * w \in Nat /\ b * w \in Nat
  BY <1>1
<1>4. a * w + k < b * w + j
  <2> DEFINE x == a * w
             y == d * w
             z == b * w
  <2>1. x \in Nat /\ y \in Nat /\ z = x + w + y
    BY <1>2, <1>3
  <2> HIDE DEF x, y, z
  <2>2. x + k < z + j
    BY <2>1, <1>1
  <2> QED BY <2>2 DEF x, z
<1> QED BY <1>4 DEF w

\* The product of two numbers.
LEMMA Product == ASSUME NEW a \in Nat, NEW b \in Nat PROVE a * b \in Nat
OBVIOUS

\* The work of a call is a number, and its children count for less than a
\* character does.
LEMMA WorkFacts ==
  ASSUME TypeOK, KidsFew, NEW call \in Calls
  PROVE  /\ Work(call) \in Nat /\ Untried(call) \in Nat /\ Untried(call) <= Len(nodes)
         /\ Len(nodes) \in Nat /\ Len(call.path) \in Nat
<1> DEFINE m == Len(nodes[call.node].kids)
           k == call.kid
           n == Len(nodes)
<1>1. m \in Nat /\ k \in Nat \ {0} /\ n \in Nat /\ m < n
  <2>1. call.node \in Ids /\ k \in Nat \ {0}
    BY CallFields
  <2>2. nodes[call.node] \in NodeType /\ n \in Nat
    BY <2>1 DEF TypeOK, Ids
  <2> QED BY <2>1, <2>2, NodeKids DEF KidsFew
<1>2. Untried(call) = IF k <= m THEN m + 1 - k ELSE 0
  BY DEF Untried
<1> HIDE DEF m, k, n
<1>3. Untried(call) \in Nat /\ Untried(call) <= n
  BY <1>1, <1>2
<1>4. Len(call.path) \in Nat
  <2>1. call.path \in Seq(Characters)
    BY CallFields
  <2> QED BY <2>1
<1>5. Len(call.path) * (n + 1) \in Nat
  <2> DEFINE a == Len(call.path)
             b == n + 1
  <2>1. a \in Nat /\ b \in Nat
    BY <1>1, <1>4
  <2> HIDE DEF a, b
  <2>2. a * b \in Nat
    BY <2>1, Product
  <2> QED BY <2>2 DEF a, b
<1>6. Work(call) = Len(call.path) * (n + 1) + Untried(call)
  BY DEF Work, n
<1>7. Work(call) \in Nat
  <2> DEFINE x == Len(call.path) * (n + 1)
  <2> HIDE DEF x
  <2> QED BY <1>3, <1>5, <1>6 DEF x
<1> QED BY <1>1, <1>3, <1>4, <1>7 DEF n

\* A call with a shorter path has less work.
LEMMA ShorterLess ==
  ASSUME TypeOK, KidsFew, NEW call \in Calls, NEW low \in Calls, Len(low.path) < Len(call.path)
  PROVE  Work(low) < Work(call)
<1> DEFINE a == Len(low.path)
           b == Len(call.path)
           m == Len(nodes)
           k == Untried(low)
           j == Untried(call)
<1>1. a \in Nat /\ b \in Nat /\ a < b /\ m \in Nat /\ k \in Nat /\ k <= m /\ j \in Nat
  BY WorkFacts
<1>2. Work(low) = a * (m + 1) + k /\ Work(call) = b * (m + 1) + j
  BY DEF Work
<1> HIDE DEF a, b, m, k, j
<1>3. a * (m + 1) + k < b * (m + 1) + j
  BY <1>1, LessPath
<1> QED BY <1>2, <1>3

\* And so has the call for the next child.
LEMMA NextLess ==
  ASSUME TypeOK, KidsFew, NEW call \in Calls, call.kid <= Len(nodes[call.node].kids),
         NEW p \in Params
  PROVE  Further(call, p) \in Calls /\ Work(Further(call, p)) < Work(call)
<1> DEFINE low == Further(call, p)
           k == call.kid
           m == Len(nodes[call.node].kids)
<1>1. low \in Calls /\ low.node = call.node /\ low.path = call.path /\ low.kid = k + 1
  <2>1. k + 1 \in Nat \ {0}
    BY CallFields
  <2> DEFINE j == k + 1
  <2>2. low = [call EXCEPT !.kid = j, !.params = p] /\ j \in Nat \ {0}
    BY <2>1 DEF Further
  <2> HIDE DEF j, low
  <2>3. low \in Calls /\ low.node = call.node /\ low.path = call.path /\ low.kid = j
    BY <2>2 DEF Calls
  <2> QED BY <2>3 DEF j
<1>2. k \in Nat \ {0} /\ m \in Nat /\ k <= m
  <2>1. call.node \in Ids /\ k \in Nat \ {0}
    BY CallFields
  <2>2. nodes[call.node] \in NodeType
    BY <2>1 DEF TypeOK, Ids
  <2> QED BY <2>1, <2>2, NodeKids
<1>3. Untried(low) = (IF k + 1 <= m THEN m + 1 - (k + 1) ELSE 0) /\ Untried(call) = m + 1 - k
  <2> HIDE DEF low
  <2> QED BY <1>1, <1>2 DEF Untried
<1>4. Untried(low) < Untried(call)
  <2> HIDE DEF k, m, low
  <2> QED BY <1>2, <1>3
<1> HIDE DEF low
<1>5. Work(low) < Work(call)
  <2> DEFINE x == Len(call.path) * (Len(nodes) + 1)
             u == Untried(low)
             v == Untried(call)
  <2>1. Work(low) = x + u /\ Work(call) = x + v
    BY <1>1 DEF Work
  <2>2. x \in Nat /\ u \in Nat /\ v \in Nat /\ u < v
    <3>1. Len(call.path) \in Nat /\ Len(nodes) \in Nat /\ u \in Nat /\ v \in Nat
      BY <1>1, WorkFacts
    <3>2. x \in Nat
      <4> DEFINE a == Len(call.path)
                 b == Len(nodes) + 1
      <4>1. a \in Nat /\ b \in Nat
        BY <3>1
      <4> HIDE DEF a, b
      <4>2. a * b \in Nat
        BY <4>1, Product
      <4> QED BY <4>2 DEF a, b
    <3> HIDE DEF x
    <3> QED BY <3>1, <3>2, <1>4
  <2> HIDE DEF x, u, v
  <2> QED BY <2>1, <2>2
<1> QED BY <1>1, <1>5 DEF low

\* Stripping a slash makes no sequence longer.
LEMMA TrimLength == ASSUME NEW E, NEW s \in Seq(E) PROVE Len(Trim(s)) <= Len(s) /\ Len(Trim(s)) \in Nat
<1>1. CASE s = <<>> \/ Head(s) # Slash
  BY <1>1 DEF Trim
<1>2. CASE s # <<>> /\ Head(s) = Slash
  <2>1. Trim(s) = Tail(s)
    BY <1>2 DEF Trim
  <2>2. Len(Tail(s)) = Len(s) - 1 /\ Len(s) \in Nat /\ Len(s) > 0
    BY <1>2
  <2> QED BY <2>1, <2>2
<1> QED BY <1>1, <1>2

\* Binding a name leaves parameters.
LEMMA BindType ==
  ASSUME NEW p \in Params, NEW h \in Holes, NEW v \in Seq(Characters)
  PROVE  Bind(p, h, v) \in Params
BY DEF Bind, Params

\* The loop over the children asks for nothing but calls with less work.
LEMMA ChildSame ==
  ASSUME TypeOK, IsTree, KidsFew, NEW go \in [Calls -> Results], NEW other \in [Calls -> Results],
         NEW call \in Calls, call.kid <= Len(nodes[call.node].kids),
         \A c \in Calls : Work(c) < Work(call) => go[c] = other[c]
  PROVE  SearchChild(call, go) \in Results /\ SearchChild(call, go) = SearchChild(call, other)
<1> DEFINE id == nodes[call.node].kids[call.kid]
           child == nodes[id]
           low == Below(call, id)
           past == [call EXCEPT !.kid = @ + 1]
           next(g) == Further(call, g[low].params)
           fails == child.path = <<>> \/ ~IsPrefix(child.path, call.path)
<1>1. id \in Kids(call.node)
  <2>1. nodes[call.node].kids \in Seq(Nat) /\ call.kid \in Nat \ {0}
    <3>1. nodes[call.node] \in NodeType
      BY CallFields DEF TypeOK, Ids
    <3> QED BY <3>1, CallFields DEF NodeType
  <2>2. call.kid \in DOMAIN nodes[call.node].kids
    BY <2>1
  <2> QED BY <2>2 DEF Kids, ToSet
<1>2. \A g : SearchChild(call, g) = IF fails THEN g[past] ELSE IF g[low].route # 0 THEN g[low] ELSE g[next(g)]
  BY DEF SearchChild, Below, Further
<1>3. child \in NodeType /\ child.path \in Seq(Characters) /\ call.path \in Seq(Characters) /\ call.params \in Params
  <2>1. child \in NodeType
    BY <1>1, CallFields, KidIsNode
  <2> QED BY <2>1, CallFields DEF NodeType
<1> HIDE DEF id
<1>4. past = Further(call, call.params)
  BY DEF Further, Calls
<1>5. CASE fails
  <2>1. past \in Calls /\ Work(past) < Work(call)
    BY <1>3, <1>4, NextLess
  <2> HIDE DEF past, fails, low
  <2> QED BY <2>1, <1>2, <1>5
<1>6. CASE ~fails
  <2>1. low \in Calls
    BY <1>1, <1>6, AnswerBelow
  <2>2. Len(low.path) < Len(call.path)
    <3> DEFINE n == Len(child.path)
               left == Drop(call.path, n)
    <3>1. n \in 0 .. Len(call.path) /\ n # 0
      BY <1>3, <1>6 DEF IsPrefix
    <3>2. left \in Seq(Characters) /\ Len(left) = Len(call.path) - n
      <4> DEFINE s == call.path
      <4> HIDE DEF n, s
      <4>1. IsCut(Characters, s, n, SubSeq(s, 1, n), Drop(s, n))
        BY <1>3, <3>1, Cut DEF s
      <4> QED BY <4>1 DEF IsCut, s
    <3> HIDE DEF n, left
    <3>3. Trim(left) \in Seq(Characters) /\ Len(Trim(left)) <= Len(left)
      BY <3>2, TrimLetters, TrimLength
    <3> DEFINE t == Trim(left)
    <3> HIDE DEF t
    <3>4. Len(Trim(t)) <= Len(t) /\ Len(Trim(t)) \in Nat /\ Len(t) \in Nat
      BY <3>3, TrimLength DEF t
    <3>5. low.path = Trim(t)
      BY DEF Below, Enter, t, left, n
    <3>6. Len(t) <= Len(left) /\ Len(left) \in Nat /\ Len(call.path) \in Nat
      BY <3>2, <3>3, <1>3 DEF t
    <3> QED BY <3>1, <3>2, <3>4, <3>5, <3>6
  <2>3. Work(low) < Work(call)
    BY <2>1, <2>2, ShorterLess
  <2> HIDE DEF low
  <2>4. go[low] = other[low] /\ go[low] \in Results
    BY <2>1, <2>3
  <2>5. go[low].params \in Params
    BY <2>4, ResultFields
  <2>6. next(go) \in Calls /\ Work(next(go)) < Work(call) /\ next(other) = next(go)
    BY <2>4, <2>5, NextLess
  <2> HIDE DEF next
  <2>7. go[next(go)] = other[next(other)] /\ go[next(go)] \in Results
    BY <2>6
  <2> HIDE DEF fails
  <2> QED BY <2>4, <2>7, <1>2, <1>6
<1> HIDE DEF fails
<1> QED BY <1>5, <1>6

\* And so does the wildcard.
LEMMA WildSame ==
  ASSUME TypeOK, IsTree, KidsFew, NEW go \in [Calls -> Results], NEW other \in [Calls -> Results],
         NEW call \in Calls, call.path # <<>>,
         \A c \in Calls : Work(c) < Work(call) => go[c] = other[c]
  PROVE  SearchWild(call, go) \in Results /\ SearchWild(call, go) = SearchWild(call, other)
<1> DEFINE p == call.params
           path == call.path
           id == nodes[call.node].wild
           hole == nodes[id].hole
           value == Segment(path)
           left == Drop(path, Len(value) + 1)
           low == Enter(id, left, Bind(p, hole, value))
<1>1. call.node \in Ids /\ p \in Params /\ path \in Seq(Characters)
  BY CallFields
<1>2. \A g : SearchWild(call, g) =
        IF id = 0 THEN Result(0, p)
        ELSE IF hole \in CatchAlls THEN Result(nodes[id].handler, Bind(p, hole, path))
        ELSE IF value = <<>> THEN Result(0, p) ELSE g[low]
  BY DEF SearchWild
<1>3. Result(0, p) \in Results
  BY AnswerNone DEF Answers
<1>4. CASE id # 0
  <2>1. id \in Ids /\ hole \in Holes
    BY <1>1, <1>4 DEF IsTree
  <2>2. Bind(p, hole, path) \in Params
    BY <1>1, <2>1, BindType
  <2>3. Result(nodes[id].handler, Bind(p, hole, path)) \in Results
    <3>1. nodes[id].handler \in 0 .. begun /\ begun \in 0 .. Len(routes)
      BY <2>1 DEF IsTree, TypeOK
    <3>2. nodes[id].handler \in 0 .. Len(routes)
      BY <3>1
    <3> QED BY <2>2, <3>2 DEF Result, Results
  <2>4. ASSUME value # <<>> PROVE low \in Calls /\ Work(low) < Work(call)
    <3>1. value \in Seq(Characters) /\ left \in Seq(Characters)
      <4>1. Segment(path) \in Seq(Letter) /\ Drop(path, Len(Segment(path)) + 1) \in Seq(Characters)
        BY <1>1, SegmentFacts
      <4>2. Segment(path) \in Seq(Characters)
        <5> DEFINE v == Segment(path)
        <5> HIDE DEF v
        <5>1. v \in Seq(Letter)
          BY <4>1 DEF v
        <5>2. v \in Seq(Characters)
          BY <5>1 DEF Letter
        <5> QED BY <5>2 DEF v
      <4> QED BY <4>1, <4>2
    <3>2. Len(left) < Len(path) /\ Len(path) \in Nat
      <4> DEFINE k == Len(value) + 1
      <4>1. k \in Nat /\ k > 0
        BY <3>1
      <4> HIDE DEF k, value
      <4> QED BY <4>1, <1>1 DEF Drop, k
    <3> HIDE DEF left, value
    <3>3. Bind(p, hole, value) \in Params
      BY <1>1, <2>1, <3>1, BindType
    <3>4. low \in Calls
      BY <2>1, <3>1, <3>3, EnterCall
    <3>5. Len(low.path) <= Len(left) /\ Len(low.path) \in Nat /\ Len(left) \in Nat
      <4>1. low.path = Trim(left)
        BY DEF Enter
      <4> QED BY <4>1, <3>1, TrimLength
    <3> HIDE DEF low
    <3>6. Len(low.path) < Len(call.path)
      BY <3>2, <3>5 DEF path
    <3> QED BY <3>4, <3>6, ShorterLess
  <2> HIDE DEF low, value
  <2>5. value # <<>> => go[low] = other[low] /\ go[low] \in Results
    BY <2>4
  <2> HIDE DEF hole, p, path, left
  <2> QED BY <1>2, <1>3, <2>3, <2>5
<1>5. CASE id = 0
  BY <1>2, <1>3, <1>5
<1> HIDE DEF id
<1> QED BY <1>4, <1>5

\* What a call of search returns depends only on what calls with less work
\* return.
LEMMA SearchSame ==
  ASSUME TypeOK, IsTree, KidsFew, NEW go \in [Calls -> Results], NEW other \in [Calls -> Results],
         NEW call \in Calls, \A c \in Calls : Work(c) < Work(call) => go[c] = other[c]
  PROVE  Search(call, go) \in Results /\ Search(call, go) = Search(call, other)
<1>1. CASE call.path = <<>>
  <2>1. Result(nodes[call.node].handler, call.params) \in Results
    <3>1. call.node \in Ids /\ call.params \in Params
      BY CallFields
    <3>2. nodes[call.node].handler \in 0 .. begun /\ begun \in 0 .. Len(routes)
      BY <3>1 DEF IsTree, TypeOK
    <3>3. nodes[call.node].handler \in 0 .. Len(routes)
      BY <3>2
    <3> QED BY <3>1, <3>3 DEF Result, Results
  <2> QED BY <2>1, <1>1 DEF Search
<1>2. CASE call.path # <<>> /\ call.kid <= Len(nodes[call.node].kids)
  <2>1. SearchChild(call, go) \in Results /\ SearchChild(call, go) = SearchChild(call, other)
    BY <1>2, ChildSame
  <2> QED BY <2>1, <1>2 DEF Search
<1>3. CASE call.path # <<>> /\ ~(call.kid <= Len(nodes[call.node].kids))
  <2>1. SearchWild(call, go) \in Results /\ SearchWild(call, go) = SearchWild(call, other)
    BY <1>3, WildSame
  <2> QED BY <2>1, <1>3 DEF Search
<1> QED BY <1>1, <1>2, <1>3

\* What search is: a function on its calls that keeps to its text.
Searches == {go \in [Calls -> Results] : \A call \in Calls : go[call] = Search(call, go)}

\* The beginnings of the nestings that SearchTree looks at.
NoAnswer == [call \in Calls |-> Result(0, call.params)]
Deeper(go) == [call \in Calls |-> Search(call, go)]
Nestings(m) == {f \in [0 .. m -> [Calls -> Results]] :
                  f[0] = NoAnswer /\ \A i \in 1 .. m : f[i] = Deeper(f[i - 1])}

\* There are such nestings, if each leads to another in T.
LEMMA NestingExists ==
  ASSUME NEW T \in SUBSET [Calls -> Results], NoAnswer \in T, \A go \in T : Deeper(go) \in T,
         NEW m \in Nat
  PROVE  \E f \in Nestings(m) : \A i \in 0 .. m : f[i] \in T
<1> DEFINE step == [x \in (1 .. m) \X T |-> Deeper(x[2])]
           U == [Calls -> Results]
<1> HIDE DEF U
<1>1. T \in SUBSET U
  BY DEF U
<1>2. step \in [(1 .. m) \X T -> T] /\ \A i \in 1 .. m, go \in T : step[<<i, go>>] = Deeper(go)
  <2> DEFINE D == [go \in T |-> Deeper(go)]
  <2>1. D \in [T -> T] /\ \A go \in T : D[go] = Deeper(go)
    OBVIOUS
  <2> HIDE DEF D
  <2>2. step = [x \in (1 .. m) \X T |-> D[x[2]]]
    BY <2>1
  <2> HIDE DEF step
  <2> QED BY <2>1, <2>2
<1> HIDE DEF step
<1>3. PICK f \in [0 .. m -> T] : f[0] = NoAnswer /\ \A i \in 1 .. m : f[i] = step[<<i, f[i - 1]>>]
  <2> DEFINE t == NoAnswer
  <2> HIDE DEF t
  <2>1. Iterated(T, t, m, step)
    BY <1>2, Recursion DEF t
  <2> QED BY <2>1 DEF Iterated, t
<1>4. ASSUME NEW i \in 1 .. m PROVE f[i] = Deeper(f[i - 1])
  <2>1. i - 1 \in 0 .. m
    OBVIOUS
  <2>2. f[i - 1] \in T
    BY <2>1, <1>3
  <2>3. f[i] = step[<<i, f[i - 1]>>]
    BY <1>3
  <2>4. step[<<i, f[i - 1]>>] = Deeper(f[i - 1])
    <3> DEFINE g == f[i - 1]
    <3>1. g \in T
      BY <2>2
    <3> HIDE DEF g, Deeper
    <3>2. step[<<i, g>>] = Deeper(g)
      BY <3>1, <1>2
    <3> QED BY <3>2 DEF g
  <2> QED BY <2>3, <2>4
<1>5. f \in [0 .. m -> U]
  BY <1>1
<1> QED BY <1>3, <1>4, <1>5 DEF Nestings, U

\* Fuel is a number.
LEMMA FuelType == ASSUME TypeOK, NEW path \in Seq(Characters) PROVE Fuel(path) \in Nat
<1> DEFINE a == Len(path) + 1
           b == Len(nodes) + 1
<1>1. a \in Nat /\ b \in Nat
  BY DEF TypeOK
<1> HIDE DEF a, b
<1>2. a * b \in Nat
  BY <1>1, Product
<1> QED BY <1>2 DEF Fuel, a, b

\* SearchTree answers with the deepest of a nesting.
LEMMA SearchTreeIs ==
  ASSUME TypeOK, NEW path \in Seq(Characters), NEW f \in Nestings(Fuel(path))
  PROVE  SearchTree(path) = f[Fuel(path)][Enter(1, path, Unbound)]
<1> DEFINE m == Fuel(path)
           Finds(g) == g = [depth \in 0 .. m |-> [call \in Calls |->
                              IF depth = 0 THEN Result(0, call.params) ELSE Search(call, g[depth - 1])]]
           found == CHOOSE g : Finds(g)
<1>1. SearchTree(path) = found[m][Enter(1, path, Unbound)]
  BY DEF SearchTree
<1>2. m \in Nat
  BY FuelType
<1>3. f[0] = NoAnswer /\ (\A i \in 1 .. m : f[i] = Deeper(f[i - 1])) /\ DOMAIN f = 0 .. m
      /\ f = [i \in 0 .. m |-> f[i]]
  BY DEF Nestings
<1> HIDE DEF m
<1>4. Finds(f)
  <2>1. ASSUME NEW i \in 0 .. m
        PROVE  f[i] = [call \in Calls |-> IF i = 0 THEN Result(0, call.params) ELSE Search(call, f[i - 1])]
    <3>1. CASE i = 0
      BY <3>1, <1>3 DEF NoAnswer
    <3>2. CASE i # 0
      <4>1. i \in 1 .. m
        BY <3>2, <1>2
      <4>2. f[i] = [call \in Calls |-> Search(call, f[i - 1])]
        BY <4>1, <1>3 DEF Deeper
      <4> QED BY <3>2, <4>2
    <3> QED BY <3>1, <3>2
  <2> QED BY <2>1, <1>3
<1>5. Finds(found)
  <2> HIDE DEF Finds
  <2> QED BY <1>4
<1>6. \A i \in 0 .. m : found[i] = [call \in Calls |->
          IF i = 0 THEN Result(0, call.params) ELSE Search(call, found[i - 1])]
  <2> HIDE DEF found
  <2> QED BY <1>5
<1> HIDE DEF found, Finds
<1> DEFINE S == {i \in Nat : i <= m => found[i] = f[i]}
<1>7. S = Nat
  <2>1. 0 \in S
    <3>1. 0 \in 0 .. m
      BY <1>2
    <3>2. found[0] = NoAnswer
      BY <3>1, <1>6 DEF NoAnswer
    <3> QED BY <3>1, <3>2, <1>3
  <2>2. ASSUME NEW i \in Nat, i \in S PROVE i + 1 \in S
    <3> SUFFICES ASSUME i + 1 <= m PROVE found[i + 1] = f[i + 1]
      OBVIOUS
    <3> DEFINE k == i + 1
    <3>1. k \in 0 .. m /\ k \in 1 .. m /\ k # 0 /\ k - 1 = i /\ found[i] = f[i]
      BY <1>2, <2>2
    <3> HIDE DEF k
    <3>2. found[k] = [call \in Calls |-> Search(call, found[i])]
      BY <3>1, <1>6
    <3>3. f[k] = [call \in Calls |-> Search(call, f[i])]
      BY <3>1, <1>3 DEF Deeper
    <3> QED BY <3>1, <3>2, <3>3 DEF k
  <2>3. S \in SUBSET Nat
    OBVIOUS
  <2> HIDE DEF S
  <2> QED BY <2>1, <2>2, <2>3, Induction
<1>8. found[m] = f[m]
  <2>1. m \in S
    <3> HIDE DEF S
    <3> QED BY <1>2, <1>7
  <2> QED BY <2>1, <1>2
<1> QED BY <1>1, <1>8 DEF m

\* Every level of a nesting is a function on the calls.
LEMMA DeeperType ==
  ASSUME TypeOK, IsTree, KidsFew
  PROVE  /\ NoAnswer \in [Calls -> Results]
         /\ \A go \in [Calls -> Results] : Deeper(go) \in [Calls -> Results]
<1>1. ASSUME NEW call \in Calls PROVE Result(0, call.params) \in Results
  BY AnswerNone DEF Answers
<1>2. ASSUME NEW go \in [Calls -> Results], NEW call \in Calls PROVE Search(call, go) \in Results
  BY SearchSame
<1> QED BY <1>1, <1>2 DEF NoAnswer, Deeper

\* Nestings deeper than a call's work agree on what it returns.
Steady(n) ==
  \A c \in Calls : Work(c) < n =>
    \A m, k \in Nat : \A f \in Nestings(m), g \in Nestings(k) : \A d \in 1 .. m, e \in 1 .. k :
      Work(c) < d /\ Work(c) < e => f[d][c] = g[e][c]

\* A level of a nesting.
LEMMA Level ==
  ASSUME NEW m \in Nat, NEW f \in Nestings(m), NEW d \in 1 .. m
  PROVE  /\ d - 1 \in 0 .. m /\ f[d - 1] \in [Calls -> Results]
         /\ \A c \in Calls : f[d][c] = Search(c, f[d - 1])
<1>1. d - 1 \in 0 .. m
  OBVIOUS
<1>2. f[d] = Deeper(f[d - 1]) /\ f[d - 1] \in [Calls -> Results]
  BY <1>1 DEF Nestings
<1> QED BY <1>1, <1>2 DEF Deeper

\* By induction on the work, they do.
LEMMA AlwaysSteady == ASSUME TypeOK, IsTree, KidsFew, NEW n \in Nat PROVE Steady(n)
<1> DEFINE S == {i \in Nat : Steady(i)}
<1>1. 0 \in S
  <2>1. ASSUME NEW c \in Calls PROVE ~(Work(c) < 0)
    BY WorkFacts
  <2> QED BY <2>1 DEF Steady
<1>2. ASSUME NEW i \in Nat, Steady(i) PROVE Steady(i + 1)
  <2> SUFFICES ASSUME NEW c \in Calls, Work(c) < i + 1, NEW m \in Nat, NEW k \in Nat,
                      NEW f \in Nestings(m), NEW g \in Nestings(k), NEW d \in 1 .. m, NEW e \in 1 .. k,
                      Work(c) < d, Work(c) < e
               PROVE  f[d][c] = g[e][c]
    BY DEF Steady
  <2>1. Work(c) \in Nat /\ Work(c) <= i
    BY WorkFacts
  <2>2. /\ f[d - 1] \in [Calls -> Results] /\ f[d][c] = Search(c, f[d - 1])
        /\ g[e - 1] \in [Calls -> Results] /\ g[e][c] = Search(c, g[e - 1])
    BY Level
  <2>3. ASSUME NEW b \in Calls, Work(b) < Work(c) PROVE f[d - 1][b] = g[e - 1][b]
    <3>1. Work(b) \in Nat /\ Work(b) < i /\ Work(b) < d - 1 /\ Work(b) < e - 1
      BY <2>1, <2>3, WorkFacts
    <3>2. d - 1 \in 1 .. m /\ e - 1 \in 1 .. k
      BY <3>1
    <3> QED BY <3>1, <3>2, <1>2 DEF Steady
  <2> DEFINE u == f[d - 1]
             v == g[e - 1]
  <2>4. u \in [Calls -> Results] /\ v \in [Calls -> Results] /\ \A b \in Calls : Work(b) < Work(c) => u[b] = v[b]
    BY <2>2, <2>3
  <2> HIDE DEF u, v
  <2>5. Search(c, u) = Search(c, v)
    BY <2>4, SearchSame
  <2> QED BY <2>2, <2>5 DEF u, v
<1>3. S \in SUBSET Nat /\ \A i \in Nat : i \in S => i + 1 \in S
  BY <1>2
<1>4. n \in S
  <2> HIDE DEF S
  <2>1. S = Nat
    BY <1>1, <1>3, Induction
  <2> QED BY <2>1
<1> QED BY <1>4

\* The functions that keep to search agree with a nesting on the calls with
\* less work than it is deep.
LEMMA SearchesAgree ==
  ASSUME TypeOK, IsTree, KidsFew, NEW go \in Searches, NEW m \in Nat, NEW f \in Nestings(m), NEW n \in Nat
  PROVE  \A c \in Calls : Work(c) < n => \A d \in 1 .. m : Work(c) < d => f[d][c] = go[c]
<1> DEFINE Good(i) == \A c \in Calls : Work(c) < i => \A d \in 1 .. m : Work(c) < d => f[d][c] = go[c]
           S == {i \in Nat : Good(i)}
<1>1. 0 \in S
  <2>1. ASSUME NEW c \in Calls PROVE ~(Work(c) < 0)
    BY WorkFacts
  <2> QED BY <2>1
<1>2. ASSUME NEW i \in Nat, Good(i) PROVE Good(i + 1)
  <2> SUFFICES ASSUME NEW c \in Calls, Work(c) < i + 1, NEW d \in 1 .. m, Work(c) < d
               PROVE  f[d][c] = go[c]
    OBVIOUS
  <2>1. Work(c) \in Nat /\ Work(c) <= i
    BY WorkFacts
  <2>2. f[d - 1] \in [Calls -> Results] /\ f[d][c] = Search(c, f[d - 1])
    BY Level
  <2>3. go \in [Calls -> Results] /\ go[c] = Search(c, go)
    BY DEF Searches
  <2>4. ASSUME NEW b \in Calls, Work(b) < Work(c) PROVE f[d - 1][b] = go[b]
    <3>1. Work(b) \in Nat /\ Work(b) < i /\ Work(b) < d - 1
      BY <2>1, <2>4, WorkFacts
    <3>2. d - 1 \in 1 .. m
      BY <3>1
    <3> QED BY <3>1, <3>2, <1>2
  <2> DEFINE u == f[d - 1]
  <2>5. u \in [Calls -> Results] /\ \A b \in Calls : Work(b) < Work(c) => u[b] = go[b]
    BY <2>2, <2>4
  <2> HIDE DEF u
  <2>6. Search(c, u) = Search(c, go)
    BY <2>3, <2>5, SearchSame
  <2> QED BY <2>2, <2>3, <2>6 DEF u
<1> HIDE DEF Good
<1>3. S \in SUBSET Nat /\ \A i \in Nat : i \in S => i + 1 \in S
  BY <1>2
<1>4. Good(n)
  <2> HIDE DEF S
  <2>1. S = Nat
    BY <1>1, <1>3, Induction
  <2>2. n \in S
    BY <2>1
  <2> USE DEF S
  <2> QED BY <2>2
<1> QED BY <1>4 DEF Good

\* There is such a function: each call takes what a nesting says that is deep
\* enough for it.
LEMMA SearchesExist == ASSUME TypeOK, IsTree, KidsFew PROVE \E go \in Searches : TRUE
<1> DEFINE U == [Calls -> Results]
           F == [m \in Nat |-> CHOOSE f \in Nestings(m) : TRUE]
           go == [c \in Calls |-> F[Work(c) + 1][Work(c) + 1][c]]
<1>1. ASSUME NEW m \in Nat PROVE F[m] \in Nestings(m)
  <2>1. U \in SUBSET U /\ NoAnswer \in U /\ \A g \in U : Deeper(g) \in U
    BY DeeperType
  <2> HIDE DEF U
  <2>2. \E f \in Nestings(m) : TRUE
    BY <2>1, NestingExists DEF U
  <2> QED BY <2>2
<1> HIDE DEF F
<1>2. ASSUME NEW c \in Calls PROVE go[c] = F[Work(c) + 1][Work(c) + 1][c]
  BY <1>2
<1>3. go \in U
  <2>1. ASSUME NEW c \in Calls PROVE F[Work(c) + 1][Work(c) + 1][c] \in Results
    <3> DEFINE w == Work(c) + 1
    <3>1. w \in Nat /\ w \in 0 .. w
      BY WorkFacts
    <3> HIDE DEF w
    <3>2. F[w] \in Nestings(w)
      BY <3>1, <1>1
    <3>3. F[w][w] \in [Calls -> Results]
      BY <3>1, <3>2 DEF Nestings
    <3> QED BY <3>3 DEF w
  <2> QED BY <2>1
<1> HIDE DEF go
<1>4. ASSUME NEW c \in Calls PROVE go[c] = Search(c, go)
  <2> DEFINE w == Work(c)
             f == F[w + 1]
             u == f[w]
  <2>1. w \in Nat /\ w + 1 \in Nat /\ w + 1 \in 1 .. w + 1 /\ (w + 1) - 1 = w
    BY WorkFacts
  <2>2. f \in Nestings(w + 1)
    BY <2>1, <1>1
  <2>3. u \in [Calls -> Results] /\ f[w + 1][c] = Search(c, u)
    <3> DEFINE m == w + 1
    <3>1. m \in Nat /\ m \in 1 .. m /\ m - 1 = w /\ f \in Nestings(m)
      BY <2>1, <2>2
    <3> HIDE DEF m, f, w
    <3>2. f[m - 1] \in [Calls -> Results] /\ f[m][c] = Search(c, f[m - 1])
      BY <3>1, Level
    <3> QED BY <3>1, <3>2 DEF m
  <2>4. ASSUME NEW b \in Calls, Work(b) < w PROVE u[b] = go[b]
    <3> DEFINE v == Work(b)
               g == F[v + 1]
    <3>1. v \in Nat /\ v + 1 \in Nat /\ v < w /\ v + 1 \in 1 .. v + 1 /\ w \in 1 .. w + 1
      BY <2>1, <2>4, WorkFacts
    <3>2. g \in Nestings(v + 1)
      BY <3>1, <1>1
    <3>3. Steady(w)
      BY <2>1, AlwaysSteady
    <3>4. f[w][b] = g[v + 1][b]
      <4>1. Work(b) < w /\ Work(b) < v + 1
        BY <3>1
      <4> DEFINE m == w + 1
                 k == v + 1
      <4>2. m \in Nat /\ k \in Nat /\ f \in Nestings(m) /\ g \in Nestings(k) /\ w \in 1 .. m /\ k \in 1 .. k
            /\ Work(b) < w /\ Work(b) < k
        BY <2>1, <2>2, <3>1, <3>2, <4>1
      <4> HIDE DEF m, k, f, g, w, v
      <4>3. f[w][b] = g[k][b]
        BY <4>2, <3>3 DEF Steady
      <4> QED BY <4>3 DEF k
    <3>5. go[b] = g[v + 1][b]
      BY <1>2
    <3> QED BY <3>4, <3>5
  <2>5. go[c] = f[w + 1][c]
    BY <1>2
  <2> HIDE DEF u, f, w
  <2>6. go \in [Calls -> Results] /\ u \in [Calls -> Results]
    BY <1>3, <2>3
  <2>7. \A b \in Calls : Work(b) < Work(c) => u[b] = go[b]
    BY <2>4 DEF w
  <2>8. Search(c, u) = Search(c, go)
    BY <2>6, <2>7, SearchSame
  <2> QED BY <2>3, <2>5, <2>8
<1> QED BY <1>3, <1>4 DEF Searches

\* search ends, whatever it is asked for: exactly one function on its calls
\* keeps to its text, and SearchTree looks deep enough to say what it says.
SearchIsDecided ==
  \E go \in Searches : /\ Searches = {go}
                       /\ \A path \in Seq(Characters) : SearchTree(path) = go[Enter(1, path, Unbound)]

\* They exist, they agree, and SearchTree's first call has less work than Fuel.
LEMMA SearchDecided == ASSUME TypeOK, IsTree, KidsFew PROVE SearchIsDecided
<1>1. PICK go \in Searches : TRUE
  BY SearchesExist
<1> DEFINE U == [Calls -> Results]
<1>2. ASSUME NEW m \in Nat PROVE \E f \in Nestings(m) : TRUE
  <2>1. U \in SUBSET U /\ NoAnswer \in U /\ \A g \in U : Deeper(g) \in U
    BY DeeperType
  <2> HIDE DEF U
  <2> QED BY <2>1, NestingExists DEF U
<1>3. ASSUME NEW other \in Searches PROVE other = go
  <2>1. ASSUME NEW c \in Calls PROVE other[c] = go[c]
    <3> DEFINE m == Work(c) + 1
    <3>1. m \in Nat /\ m \in 1 .. m /\ Work(c) < m
      BY WorkFacts
    <3> HIDE DEF m
    <3>2. PICK f \in Nestings(m) : TRUE
      BY <3>1, <1>2
    <3>3. f[m][c] = go[c]
      BY <3>1, SearchesAgree
    <3>4. f[m][c] = other[c]
      BY <3>1, SearchesAgree
    <3> QED BY <3>3, <3>4
  <2>2. other \in [Calls -> Results] /\ go \in [Calls -> Results]
    BY DEF Searches
  <2> QED BY <2>1, <2>2
<1>4. ASSUME NEW path \in Seq(Characters) PROVE SearchTree(path) = go[Enter(1, path, Unbound)]
  <2> DEFINE m == Fuel(path)
             call == Enter(1, path, Unbound)
  <2>1. m \in Nat
    BY FuelType
  <2>2. PICK f \in Nestings(m) : TRUE
    <3> HIDE DEF m
    <3> QED BY <2>1, <1>2
  <2>3. SearchTree(path) = f[m][call]
    BY SearchTreeIs
  <2>4. call \in Calls
    <3>1. Unbound \in Params /\ 1 \in Ids
      BY Nothing DEF Unbound, Params, IsTree
    <3> QED BY <3>1, EnterCall
  <2>5. Work(call) < m /\ Work(call) \in Nat
    <3> DEFINE a == Len(call.path)
               b == Len(path) + 1
               n == Len(nodes)
               k == Untried(call)
    <3>1. a \in Nat /\ a < b /\ b \in Nat
      <4>1. call.path = Trim(path) /\ Len(path) \in Nat
        BY DEF Enter
      <4> HIDE DEF call
      <4> QED BY <4>1, TrimLength
    <3>2. n \in Nat /\ k \in Nat /\ k <= n /\ Work(call) \in Nat
      BY <2>4, WorkFacts
    <3>3. Work(call) = a * (n + 1) + k /\ m = b * (n + 1)
      BY DEF Work, Fuel
    <3> HIDE DEF a, b, n, k, m, call
    <3>4. a * (n + 1) + k < b * (n + 1) + 0
      BY <3>1, <3>2, LessPath
    <3>5. b * (n + 1) \in Nat
      BY <3>1, <3>2, Product
    <3> QED BY <3>2, <3>3, <3>4, <3>5
  <2> HIDE DEF m, call
  <2>6. m \in 1 .. m
    BY <2>1, <2>5
  <2>7. f[m][call] = go[call]
    BY <2>1, <2>4, <2>5, <2>6, SearchesAgree
  <2> QED BY <2>3, <2>7 DEF call
<1>5. Searches = {go}
  BY <1>1, <1>3
<1> QED BY <1>4, <1>5 DEF SearchIsDecided

\* Whatever is in the tree, while it is built or later, search comes to an end
\* on every path, and what the model calls its answer is the one its text has
\* (radix.go:160-217).
THEOREM SearchEnds == Spec => []SearchIsDecided
<1>1. TreeSpelled /\ KidsFew => SearchIsDecided
  BY SearchDecided DEF TreeSpelled
<1> QED BY <1>1, TreeIsSpelled, FewAlways, PTL
-----------------------------------------------------------------------------
(* Where the values of a search come from                                  *)

\* The value of each placeholder in a text begins where what is in front of it
\* is spelled out in the path: it is the segment there, or all that is left.
Taken(whole, s, p) ==
  \A i \in DOMAIN s : s[i] \in Holes =>
    \E a, b \in Seq(Characters) :
      /\ whole = a \o b /\ (a # <<>> \/ Trim(b) = b)
      /\ Letters(a) = Spelled(SubSeq(s, 1, i - 1), p)
      /\ p[Param[s[i]]] = IF s[i] \in CatchAlls THEN b ELSE Segment(b)

\* A call has what is left of the path behind the text of its node.
Reached(whole, s, p, left) ==
  \E a \in Seq(Characters) : /\ whole = a \o left /\ (a # <<>> \/ Trim(left) = left)
                             /\ Letters(a) = Spelled(s, p)

Along(whole, call) ==
  /\ Reached(whole, text[call.node], call.params, call.path)
  /\ Taken(whole, text[call.node], call.params)

\* What search returns to a call that was so reached.
Takes(whole, call, r) ==
  r.route # 0 /\ Along(whole, call) => Taken(whole, Letters(Pattern(routes[r.route])), r.params)

\* The items in front of a placeholder are items of the text.
LEMMA FrontItems ==
  ASSUME NEW s \in Seq(Alphabet), NEW i \in DOMAIN s
  PROVE  /\ SubSeq(s, 1, i - 1) \in Seq(Alphabet) /\ Len(SubSeq(s, 1, i - 1)) = i - 1
         /\ \A j \in DOMAIN SubSeq(s, 1, i - 1) : j \in DOMAIN s /\ SubSeq(s, 1, i - 1)[j] = s[j]
<1>1. i \in 1 .. Len(s) /\ Len(s) \in Nat
  OBVIOUS
<1> DEFINE t == SubSeq(s, 1, i - 1)
<1>2. t \in Seq(Alphabet) /\ Len(t) = i - 1 /\ \A j \in 1 .. i - 1 : t[j] = s[j]
  BY <1>1
<1> HIDE DEF t
<1>3. DOMAIN t = 1 .. i - 1
  BY <1>2
<1> QED BY <1>1, <1>2, <1>3 DEF t

\* Parameters that agree on a text have taken the same there.
LEMMA TakenAgree ==
  ASSUME NEW whole, NEW s \in Seq(Alphabet), NEW p, NEW q, Agree(s, q, p), Taken(whole, s, p)
  PROVE  Taken(whole, s, q)
<1>1. \A i \in DOMAIN s : s[i] \in Holes => q[Param[s[i]]] = p[Param[s[i]]]
  BY DEF Agree, ToSet
<1>2. ASSUME NEW i \in DOMAIN s PROVE Spelled(SubSeq(s, 1, i - 1), q) = Spelled(SubSeq(s, 1, i - 1), p)
  <2> DEFINE t == SubSeq(s, 1, i - 1)
  <2>1. \A j \in DOMAIN t : t[j] \in Holes => q[Param[t[j]]] = p[Param[t[j]]]
    BY <1>1, FrontItems
  <2> HIDE DEF t
  <2>2. Spelled(t, q) = Spelled(t, p)
    BY <2>1, SpelledSame
  <2> QED BY <2>2 DEF t
<1> QED BY <1>1, <1>2 DEF Taken

\* What is in front of an item of a concatenation's first part.
LEMMA FrontConcat ==
  ASSUME NEW s \in Seq(Alphabet), NEW t \in Seq(Alphabet), NEW i \in DOMAIN s
  PROVE  i \in DOMAIN (s \o t) /\ (s \o t)[i] = s[i] /\ SubSeq(s \o t, 1, i - 1) = SubSeq(s, 1, i - 1)
<1> DEFINE u == s \o t
<1>1. i \in 1 .. Len(s) /\ Len(s) \in Nat /\ Len(u) = Len(s) + Len(t) /\ Len(t) \in Nat /\ u \in Seq(Alphabet)
      /\ \A j \in 1 .. Len(s) : u[j] = s[j]
  OBVIOUS
<1> HIDE DEF u
<1>2. SubSeq(u, 1, i - 1) \in Seq(Alphabet) /\ Len(SubSeq(u, 1, i - 1)) = i - 1
      /\ \A j \in 1 .. i - 1 : SubSeq(u, 1, i - 1)[j] = u[j]
  BY <1>1
<1>3. SubSeq(s, 1, i - 1) \in Seq(Alphabet) /\ Len(SubSeq(s, 1, i - 1)) = i - 1
      /\ \A j \in 1 .. i - 1 : SubSeq(s, 1, i - 1)[j] = s[j]
  BY <1>1
<1>4. \A j \in 1 .. i - 1 : j \in 1 .. Len(s)
  BY <1>1
<1>5. SubSeq(u, 1, i - 1) = SubSeq(s, 1, i - 1)
  BY <1>1, <1>2, <1>3, <1>4, SameItems
<1> QED BY <1>1, <1>5 DEF u

\* Behind a text, letters take nothing.
LEMMA TakenPlain ==
  ASSUME NEW whole, NEW p, NEW s \in Seq(Alphabet), NEW t \in Seq(Alphabet), ToSet(t) \cap Holes = {},
         Taken(whole, s, p)
  PROVE  Taken(whole, s \o t, p)
<1> DEFINE u == s \o t
<1>1. ASSUME NEW i \in DOMAIN u, u[i] \in Holes PROVE i \in DOMAIN s
  <2>1. i \in 1 .. Len(s) + Len(t) /\ Len(s) \in Nat /\ Len(t) \in Nat
    OBVIOUS
  <2>2. CASE i > Len(s)
    <3>1. i - Len(s) \in DOMAIN t /\ u[i] = t[i - Len(s)]
      BY <2>1, <2>2
    <3> QED BY <3>1, <1>1 DEF ToSet
  <2>3. CASE ~(i > Len(s))
    BY <2>1, <2>3
  <2> QED BY <2>2, <2>3
<1>2. ASSUME NEW i \in DOMAIN s PROVE u[i] = s[i] /\ SubSeq(u, 1, i - 1) = SubSeq(s, 1, i - 1)
  BY FrontConcat
<1> HIDE DEF u
<1>3. ASSUME NEW i \in DOMAIN u, u[i] \in Holes
      PROVE  \E a, b \in Seq(Characters) :
               /\ whole = a \o b /\ (a # <<>> \/ Trim(b) = b)
               /\ Letters(a) = Spelled(SubSeq(u, 1, i - 1), p)
               /\ p[Param[u[i]]] = IF u[i] \in CatchAlls THEN b ELSE Segment(b)
  <2>1. i \in DOMAIN s /\ u[i] = s[i] /\ SubSeq(u, 1, i - 1) = SubSeq(s, 1, i - 1)
    BY <1>1, <1>2, <1>3
  <2>2. \E a, b \in Seq(Characters) :
          /\ whole = a \o b /\ (a # <<>> \/ Trim(b) = b)
          /\ Letters(a) = Spelled(SubSeq(s, 1, i - 1), p)
          /\ p[Param[s[i]]] = IF s[i] \in CatchAlls THEN b ELSE Segment(b)
    BY <2>1, <1>3 DEF Taken
  <2> QED BY <2>1, <2>2
<1>4. Taken(whole, u, p)
  BY <1>3 DEF Taken
<1> QED BY <1>4 DEF u

\* A wildcard takes its value from where its node is reached.
LEMMA TakenHole ==
  ASSUME NEW whole, NEW s \in Seq(Alphabet), NEW x \in Holes, NEW p, NEW q, Agree(s, q, p),
         Taken(whole, s, p), NEW left \in Seq(Characters), Reached(whole, s, p, left),
         q[Param[x]] = IF x \in CatchAlls THEN left ELSE Segment(left)
  PROVE  Taken(whole, Append(s, x), q)
<1> DEFINE u == Append(s, x)
           one == << x >>
<1>1. one \in Seq(Alphabet) /\ u = s \o one /\ Len(u) = Len(s) + 1 /\ u[Len(s) + 1] = x /\ Len(s) \in Nat
      /\ DOMAIN u = 1 .. Len(s) + 1 /\ DOMAIN s = 1 .. Len(s)
  BY Letterwise
<1>2. SubSeq(u, 1, Len(s) + 1 - 1) = s
  BY Letterwise
<1> HIDE DEF one
<1>3. Taken(whole, s, q)
  BY TakenAgree
<1>4. ASSUME NEW i \in DOMAIN s PROVE u[i] = s[i] /\ SubSeq(u, 1, i - 1) = SubSeq(s, 1, i - 1)
  <2>1. (s \o one)[i] = s[i] /\ SubSeq(s \o one, 1, i - 1) = SubSeq(s, 1, i - 1)
    BY <1>1, FrontConcat
  <2>2. u = s \o one
    BY <1>1
  <2> HIDE DEF u
  <2> QED BY <2>1, <2>2
<1>5. Spelled(s, q) = Spelled(s, p)
  BY AgreeSame
<1>6. \A i \in DOMAIN u : i \in DOMAIN s \/ i = Len(s) + 1
  BY <1>1
<1> HIDE DEF u
<1>7. \E a, b \in Seq(Characters) :
        /\ whole = a \o b /\ (a # <<>> \/ Trim(b) = b)
        /\ Letters(a) = Spelled(SubSeq(u, 1, Len(s) + 1 - 1), q)
        /\ q[Param[x]] = IF x \in CatchAlls THEN b ELSE Segment(b)
  BY <1>2, <1>5 DEF Reached
<1>8. ASSUME NEW i \in DOMAIN u, u[i] \in Holes
      PROVE  \E a, b \in Seq(Characters) :
               /\ whole = a \o b /\ (a # <<>> \/ Trim(b) = b)
               /\ Letters(a) = Spelled(SubSeq(u, 1, i - 1), q)
               /\ q[Param[u[i]]] = IF u[i] \in CatchAlls THEN b ELSE Segment(b)
  <2>1. CASE i = Len(s) + 1
    <3>1. u[i] = x
      BY <2>1, <1>1
    <3>2. PICK a \in Seq(Characters), b \in Seq(Characters) :
            /\ whole = a \o b /\ (a # <<>> \/ Trim(b) = b)
            /\ Letters(a) = Spelled(SubSeq(u, 1, Len(s) + 1 - 1), q)
            /\ q[Param[x]] = IF x \in CatchAlls THEN b ELSE Segment(b)
      BY <1>7
    <3>3. SubSeq(u, 1, i - 1) = SubSeq(u, 1, Len(s) + 1 - 1)
      BY <2>1
    <3> QED BY <3>1, <3>2, <3>3
  <2>2. CASE i \in DOMAIN s
    <3>1. u[i] = s[i] /\ SubSeq(u, 1, i - 1) = SubSeq(s, 1, i - 1)
      BY <2>2, <1>4
    <3>2. \E a, b \in Seq(Characters) :
            /\ whole = a \o b /\ (a # <<>> \/ Trim(b) = b)
            /\ Letters(a) = Spelled(SubSeq(s, 1, i - 1), q)
            /\ q[Param[s[i]]] = IF s[i] \in CatchAlls THEN b ELSE Segment(b)
      BY <2>2, <1>3, <1>8, <3>1 DEF Taken
    <3> QED BY <3>1, <3>2
  <2> QED BY <2>1, <2>2, <1>6, <1>8
<1>9. Taken(whole, u, q)
  BY <1>8 DEF Taken
<1> QED BY <1>9 DEF u

\* What stripping a slash takes away has no letters.
LEMMA TrimCut ==
  ASSUME NEW s \in Seq(Characters)
  PROVE  \E c \in Seq(Characters) : s = c \o Trim(s) /\ Letters(c) = <<>> /\ (c # <<>> \/ Trim(s) = s)
<1>1. CASE s = <<>> \/ Head(s) # Slash
  <2>1. <<>> \in Seq(Characters) /\ s = <<>> \o s /\ Letters(<<>>) = <<>>
    BY LettersFew
  <2> QED BY <2>1, <1>1 DEF Trim
<1>2. CASE s # <<>> /\ Head(s) = Slash
  <2>1. Trim(s) = Tail(s)
    BY <1>2 DEF Trim
  <2>2. s = << Slash >> \o Tail(s) /\ << Slash >> \in Seq(Characters)
    BY <1>2, SlashIsNoHole
  <2> QED BY <2>1, <2>2, LettersFew
<1> QED BY <1>1, <1>2

\* Stripping a slash leaves a call where it is.
LEMMA ReachedTrim ==
  ASSUME NEW whole, NEW s, NEW p, NEW left \in Seq(Characters), Reached(whole, s, p, left)
  PROVE  Trim(left) \in Seq(Characters) /\ Reached(whole, s, p, Trim(left))
<1>1. PICK a \in Seq(Characters) : /\ whole = a \o left /\ (a # <<>> \/ Trim(left) = left)
                                   /\ Letters(a) = Spelled(s, p)
  BY DEF Reached
<1>2. PICK c \in Seq(Characters) : left = c \o Trim(left) /\ Letters(c) = <<>>
  BY TrimCut
<1> DEFINE r == Trim(left)
           b == a \o c
<1>3. r \in Seq(Characters)
  BY TrimLetters
<1>4. CASE r = left
  BY <1>3, <1>4
<1>5. CASE r # left
  <2>1. a # <<>>
    BY <1>1, <1>5
  <2> HIDE DEF r
  <2>2. b \in Seq(Characters) /\ b # <<>>
    <3>1. Len(b) = Len(a) + Len(c) /\ Len(a) # 0 /\ Len(a) \in Nat /\ Len(c) \in Nat
      BY <2>1
    <3> QED BY <3>1
  <2>3. whole = b \o r
    <3>1. a \o (c \o r) = (a \o c) \o r
      BY <1>3, ConcatAssoc
    <3> QED BY <3>1, <1>1, <1>2 DEF r
  <2>4. Letters(b) = Letters(a)
    <3>1. Letters(a \o c) = Letters(a) \o Letters(c)
      BY LettersConcat
    <3>2. Letters(a) \in Seq(Letter)
      BY LettersHoleless
    <3> DEFINE l == Letters(a)
    <3> HIDE DEF l
    <3>3. l \o <<>> = l
      BY <3>2 DEF l
    <3> QED BY <3>1, <3>3, <1>2 DEF l
  <2> HIDE DEF b
  <2>5. Reached(whole, s, p, r)
    BY <2>2, <2>3, <2>4, <1>1 DEF Reached
  <2> QED BY <2>5, <1>3 DEF r
<1> QED BY <1>4, <1>5

\* Going on behind a piece of the path.
LEMMA ReachedOn ==
  ASSUME NEW whole, NEW s, NEW p, NEW t, NEW q, NEW left \in Seq(Characters), Reached(whole, s, p, left),
         NEW c \in Seq(Characters), NEW d \in Seq(Characters), left = c \o d, c # <<>>,
         Spelled(t, q) = Spelled(s, p) \o Letters(c)
  PROVE  Reached(whole, t, q, d)
<1>1. PICK a \in Seq(Characters) : whole = a \o left /\ Letters(a) = Spelled(s, p)
  BY DEF Reached
<1> DEFINE b == a \o c
<1>2. b \in Seq(Characters) /\ b # <<>>
  <2>1. Len(b) = Len(a) + Len(c) /\ Len(c) # 0 /\ Len(a) \in Nat /\ Len(c) \in Nat
    OBVIOUS
  <2> QED BY <2>1
<1>3. whole = b \o d
  <2>1. a \o (c \o d) = (a \o c) \o d
    BY ConcatAssoc
  <2> QED BY <2>1, <1>1
<1>4. Letters(b) = Spelled(t, q)
  BY <1>1, LettersConcat
<1> HIDE DEF b
<1> QED BY <1>2, <1>3, <1>4 DEF Reached

\* The call for a child that the path begins with has its text behind it.
LEMMA AlongChild ==
  ASSUME TypeOK, IsTree, TextsSpelled, NEW whole, NEW call \in Calls, Along(whole, call),
         NEW id \in Kids(call.node), nodes[id].path # <<>>, IsPrefix(nodes[id].path, call.path)
  PROVE  Along(whole, Below(call, id))
<1> DEFINE n == call.node
           p == call.params
           full == call.path
           path == nodes[id].path
           left == Drop(call.path, Len(path))
           low == Below(call, id)
           s == text[n]
           t == text[id]
           l == Letters(path)
<1>1. n \in Ids /\ p \in Params /\ id \in Ids /\ full \in Seq(Characters) /\ path \in Seq(Characters)
  BY CallFields, KidIsNode DEF NodeType
<1>2. full = path \o left /\ left \in Seq(Characters)
  <2> HIDE DEF full, path
  <2> QED BY <1>1, PrefixFacts DEF full, path
<1>3. low.node = id /\ low.params = p /\ low.path = Trim(Trim(left))
  BY DEF Below, Enter
<1>4. Reached(whole, s, p, full) /\ Taken(whole, s, p)
  BY DEF Along
<1>5. t = s \o l
  BY <1>1 DEF TextsSpelled
<1>6. s \in Seq(Alphabet)
  BY <1>1, TextType
<1>7. path # <<>>
  OBVIOUS
<1> HIDE DEF n, p, low, left, full, s, t, path
<1>8. l \in Seq(Letter) /\ l \in Seq(Alphabet) /\ ToSet(l) \cap Holes = {}
  BY <1>1, LettersHoleless
<1> HIDE DEF l
<1>9. Spelled(t, p) = Spelled(s, p) \o l
  <2>1. Spelled(s \o l, p) = Spelled(s, p) \o Spelled(l, p)
    BY <1>1, <1>6, <1>8, SpelledConcat
  <2>2. Spelled(l, p) = l
    BY <1>8, SpelledPlain
  <2> QED BY <2>1, <2>2, <1>5
<1>10. Reached(whole, t, p, left)
  BY <1>1, <1>2, <1>4, <1>7, <1>9, ReachedOn DEF l
<1>11. Trim(left) \in Seq(Characters) /\ Reached(whole, t, p, Trim(left))
  BY <1>2, <1>10, ReachedTrim
<1>12. Reached(whole, t, p, Trim(Trim(left)))
  <2> DEFINE r == Trim(left)
  <2> HIDE DEF r
  <2>1. Reached(whole, t, p, Trim(r))
    BY <1>11, ReachedTrim DEF r
  <2> QED BY <2>1 DEF r
<1>13. Taken(whole, t, p)
  <2>1. Taken(whole, s \o l, p)
    BY <1>4, <1>6, <1>8, TakenPlain
  <2> QED BY <2>1, <1>5
<1>14. Along(whole, low)
  BY <1>3, <1>12, <1>13 DEF Along, t
<1> QED BY <1>14 DEF low

\* The call for the next child is where the call is.
LEMMA AlongFurther ==
  ASSUME TypeOK, NEW whole, NEW call \in Calls, Along(whole, call), NEW q, Agree(text[call.node], q, call.params)
  PROVE  Along(whole, Further(call, q))
<1> DEFINE low == Further(call, q)
           s == text[call.node]
           p == call.params
<1>1. low.node = call.node /\ low.path = call.path /\ low.params = q
  <2> DEFINE k == call.kid + 1
  <2> HIDE DEF k
  <2>1. [call EXCEPT !.kid = k, !.params = q].node = call.node
        /\ [call EXCEPT !.kid = k, !.params = q].path = call.path
        /\ [call EXCEPT !.kid = k, !.params = q].params = q
    BY DEF Calls
  <2> QED BY <2>1 DEF Further, k
<1> HIDE DEF low
<1>2. s \in Seq(Alphabet)
  BY CallFields, TextType
<1>3. Reached(whole, s, p, call.path) /\ Taken(whole, s, p)
  BY DEF Along
<1> HIDE DEF s, p
<1>4. Agree(s, q, p)
  BY DEF s, p
<1>5. Spelled(s, q) = Spelled(s, p)
  BY <1>4, AgreeSame
<1>6. Taken(whole, s, q)
  BY <1>2, <1>3, <1>4, TakenAgree
<1>7. Reached(whole, s, q, call.path)
  BY <1>3, <1>5 DEF Reached
<1> QED BY <1>1, <1>6, <1>7 DEF Along, low, s

\* The functions that answer each call and take its values from the path.
Taking(whole) == {go \in Answering : \A call \in Calls : Takes(whole, call, go[call])}

\* A node whose path is used up.
LEMMA TakesHere ==
  ASSUME TypeOK, IsTree, TextsSpelled, NEW whole, NEW call \in Calls
  PROVE  Takes(whole, call, Result(nodes[call.node].handler, call.params))
<1> DEFINE n == call.node
           r == Result(nodes[n].handler, call.params)
<1>1. r.route = nodes[n].handler /\ r.params = call.params
  BY DEF Result
<1>2. n \in Ids
  BY CallFields
<1>3. r.route # 0 => text[n] = Letters(Pattern(routes[r.route]))
  BY <1>1, <1>2 DEF TextsSpelled
<1> HIDE DEF r
<1>4. Takes(whole, call, r)
  BY <1>1, <1>3 DEF Takes, Along
<1> QED BY <1>4 DEF r

\* The loop over the children.
LEMMA TakesChild ==
  ASSUME TypeOK, IsTree, TextsSpelled, NEW whole, NEW go \in Taking(whole), NEW call \in Calls,
         call.kid <= Len(nodes[call.node].kids)
  PROVE  Takes(whole, call, SearchChild(call, go))
<1> DEFINE id == nodes[call.node].kids[call.kid]
           child == nodes[id]
           low == Below(call, id)
           below == go[low]
           past == [call EXCEPT !.kid = @ + 1]
           next == Further(call, below.params)
           fails == child.path = <<>> \/ ~IsPrefix(child.path, call.path)
<1>1. id \in Kids(call.node)
  <2>1. nodes[call.node].kids \in Seq(Nat) /\ call.kid \in Nat \ {0}
    <3>1. nodes[call.node] \in NodeType
      BY CallFields DEF TypeOK, Ids
    <3> QED BY <3>1, CallFields DEF NodeType
  <2>2. call.kid \in DOMAIN nodes[call.node].kids
    BY <2>1
  <2> QED BY <2>2 DEF Kids, ToSet
<1>2. SearchChild(call, go) = IF fails THEN go[past] ELSE IF below.route # 0 THEN below ELSE go[next]
  BY DEF SearchChild, Below, Further
<1>3. past = Further(call, call.params)
  BY DEF Further, Calls
<1> HIDE DEF id, low, past, next, below
<1>4. go \in Answering /\ \A c \in Calls : Takes(whole, c, go[c])
  BY DEF Taking
<1>5. ASSUME NEW q \in Params, Agree(text[call.node], q, call.params)
      PROVE  Takes(whole, call, go[Further(call, q)])
  <2>1. Further(call, q) \in Calls
    <3>1. call.kid + 1 \in Nat \ {0}
      BY CallFields
    <3> QED BY <3>1 DEF Further, Calls
  <2> DEFINE c == Further(call, q)
  <2>2. Takes(whole, c, go[c])
    BY <1>4, <2>1
  <2>3. Along(whole, call) => Along(whole, c)
    BY <1>5, AlongFurther
  <2> HIDE DEF c
  <2>4. Takes(whole, call, go[c])
    BY <2>2, <2>3 DEF Takes
  <2> QED BY <2>4 DEF c
<1>6. CASE fails
  <2>1. Agree(text[call.node], call.params, call.params) /\ call.params \in Params
    BY CallFields DEF Agree
  <2>2. Takes(whole, call, go[past])
    BY <2>1, <1>3, <1>5
  <2> QED BY <2>2, <1>2, <1>6
<1>7. CASE ~fails
  <2>1. low \in Calls /\ \A r : Answers(low, r) => Answers(call, r)
    BY <1>1, <1>7, AnswerBelow DEF low
  <2>2. Answers(call, below)
    BY <2>1, <1>4 DEF Answering, below
  <2>3. Takes(whole, call, below)
    <3>1. Takes(whole, low, below)
      BY <1>4, <2>1 DEF below
    <3>2. Along(whole, call) => Along(whole, low)
      BY <1>1, <1>7, AlongChild DEF low
    <3> QED BY <3>1, <3>2 DEF Takes
  <2>4. below.params \in Params /\ Agree(text[call.node], below.params, call.params)
    BY <2>2, ResultFields DEF Answers
  <2>5. Takes(whole, call, go[next])
    BY <2>4, <1>5 DEF next
  <2> QED BY <2>3, <2>5, <1>2, <1>7
<1> HIDE DEF fails
<1> QED BY <1>6, <1>7

\* A sequence that two sequences begin is cut off either.
LEMMA Cancel ==
  ASSUME NEW E, NEW s \in Seq(E), NEW t \in Seq(E), NEW u \in Seq(E), s \o u = t \o u
  PROVE  s = t
<1>1. Len(s \o u) = Len(s) + Len(u) /\ Len(t \o u) = Len(t) + Len(u)
      /\ Len(s) \in Nat /\ Len(t) \in Nat /\ Len(u) \in Nat
  OBVIOUS
<1>2. Len(s) = Len(t)
  BY <1>1
<1>3. \A i \in 1 .. Len(s) : s[i] = (s \o u)[i] /\ t[i] = (t \o u)[i]
  BY <1>2
<1> QED BY <1>2, <1>3, SameItems

\* What the segment of a path, and the slash behind it, leave.
LEMMA SegmentCut ==
  ASSUME NEW s \in Seq(Characters), s # <<>>
  PROVE  \E c \in Seq(Characters) :
           /\ s = c \o Drop(s, Len(Segment(s)) + 1) /\ c # <<>>
           /\ Letters(c) = Segment(s)
<1> DEFINE v == Segment(s)
           d == Drop(s, Len(v) + 1)
           k == First(s, LAMBDA i : s[i] = Slash)
<1>1. v \in Seq(Letter) /\ d \in Seq(Characters) /\ Letters(s) = v \o Letters(d)
  BY SegmentFacts
<1>2. Len(v) \in 0 .. Len(s)
  <2>1. k \in 1 .. Len(s) + 1
    <3> DEFINE T == {j \in 1 .. Len(s) : s[j] = Slash}
               n == Len(s)
    <3>1. n \in Nat
      OBVIOUS
    <3> HIDE DEF n, T
    <3>2. PICK i \in 1 .. n + 1 : IsFirst(i, n, T)
      BY <3>1, FirstExists
    <3>3. i \in 1 .. Len(s) + 1 /\ (i <= Len(s) => s[i] = Slash) /\ \A j \in 1 .. i - 1 : ~(s[j] = Slash)
      BY <3>1, <3>2 DEF IsFirst, n, T
    <3> QED BY <3>3 DEF First
  <2>2. v = SubSeq(s, 1, k - 1)
    BY DEF Segment
  <2> HIDE DEF k, v
  <2>3. k - 1 \in 0 .. Len(s) /\ Len(s) \in Nat
    BY <2>1
  <2>4. Len(SubSeq(s, 1, k - 1)) = k - 1
    BY <2>3
  <2> QED BY <2>2, <2>3, <2>4
<1> HIDE DEF v
<1>3. Len(s) \in Nat /\ Len(s) # 0
  OBVIOUS
<1>4. \E c \in Seq(Characters) : s = c \o d /\ c # <<>>
  <2>1. CASE Len(v) = Len(s)
    <3>1. d = <<>>
      BY <2>1, <1>3 DEF Drop
    <3>2. s = s \o <<>>
      OBVIOUS
    <3> QED BY <3>1, <3>2
  <2>2. CASE Len(v) # Len(s)
    <3> DEFINE n == Len(v) + 1
    <3>1. n \in 1 .. Len(s)
      BY <1>2, <1>3, <2>2
    <3> HIDE DEF n
    <3>2. n \in 0 .. Len(s)
      BY <3>1
    <3>3. IsCut(Characters, s, n, SubSeq(s, 1, n), Drop(s, n))
      BY <3>2, Cut
    <3>4. SubSeq(s, 1, n) \in Seq(Characters) /\ Len(SubSeq(s, 1, n)) = n
      BY <3>1
    <3>5. SubSeq(s, 1, n) # <<>>
      BY <3>1, <3>4
    <3> QED BY <3>3, <3>4, <3>5 DEF IsCut, n
  <2> QED BY <2>1, <2>2
<1>5. PICK c \in Seq(Characters) : s = c \o d /\ c # <<>>
  BY <1>4
<1> HIDE DEF d
<1>6. Letters(s) = Letters(c) \o Letters(d)
  <2>1. Letters(c \o d) = Letters(c) \o Letters(d)
    BY <1>1, LettersConcat
  <2> QED BY <2>1, <1>5
<1>7. Letters(c) \in Seq(Letter) /\ Letters(d) \in Seq(Letter)
  BY <1>1, LettersHoleless
<1>8. Letters(c) = v
  <2> DEFINE a == Letters(c)
             b == Letters(d)
  <2> HIDE DEF a, b
  <2>1. a \o b = v \o b /\ a \in Seq(Letter) /\ b \in Seq(Letter)
    BY <1>1, <1>6, <1>7 DEF a, b
  <2>2. a = v
    BY <2>1, <1>1, Cancel
  <2> QED BY <2>2 DEF a
<1> QED BY <1>5, <1>8 DEF d, v

\* The wildcard.
LEMMA TakesWild ==
  ASSUME TypeOK, IsTree, Orderly, TextsSpelled, NEW whole, NEW go \in Taking(whole), NEW call \in Calls,
         call.path # <<>>
  PROVE  Takes(whole, call, SearchWild(call, go))
<1> DEFINE n == call.node
           p == call.params
           path == call.path
           id == nodes[n].wild
           hole == nodes[id].hole
           value == Segment(path)
           left == Drop(path, Len(value) + 1)
           s == text[n]
           low == Enter(id, left, Bind(p, hole, value))
<1>1. n \in Ids /\ p \in Params /\ path \in Seq(Characters)
  BY CallFields
<1>2. SearchWild(call, go) =
        IF id = 0 THEN Result(0, p)
        ELSE IF hole \in CatchAlls THEN Result(nodes[id].handler, Bind(p, hole, path))
        ELSE IF value = <<>> THEN Result(0, p) ELSE go[low]
  BY DEF SearchWild
<1>3. Takes(whole, call, Result(0, p))
  BY DEF Takes, Result
<1>4. s \in Seq(Alphabet)
  BY <1>1, TextType
<1>5. ASSUME id # 0
      PROVE  id \in Ids /\ hole \in Holes /\ text[id] = Append(s, hole)
             /\ \A h \in ToSet(s) \cap Holes : Param[h] # Param[hole]
  BY <1>1, <1>5, WildIsNew
<1>6. ASSUME Along(whole, call) PROVE Reached(whole, s, p, path) /\ Taken(whole, s, p)
  BY <1>6 DEF Along
<1>7. ASSUME NEW v \in Seq(Characters), id # 0
      PROVE  /\ Binds(text[id], s, hole, p, v)
             /\ Bind(p, hole, v)[Param[hole]] = v
  <2> HIDE DEF s, hole, p, id
  <2>1. Binds(Append(s, hole), s, hole, p, v)
    BY <1>1, <1>4, <1>5, <1>7, BindFacts
  <2>2. hole \in Holes /\ text[id] = Append(s, hole)
    BY <1>5, <1>7
  <2>3. Bind(p, hole, v)[Param[hole]] = v
    BY <1>1, <2>2 DEF Bind, Params
  <2> QED BY <2>1, <2>2, <2>3
<1>8. CASE id # 0 /\ hole \in CatchAlls
  <2> DEFINE q == Bind(p, hole, path)
             r == Result(nodes[id].handler, q)
  <2>1. Binds(text[id], s, hole, p, path) /\ q[Param[hole]] = path
    BY <1>1, <1>7, <1>8
  <2>2. Agree(s, q, p)
    BY <2>1 DEF Binds
  <2>3. SearchWild(call, go) = r
    BY <1>2, <1>8
  <2>4. r.route = nodes[id].handler /\ r.params = q
    BY DEF Result
  <2>5. r.route # 0 => text[id] = Letters(Pattern(routes[r.route]))
    BY <2>4, <1>5, <1>8 DEF TextsSpelled
  <2>6. hole \in Holes /\ text[id] = Append(s, hole)
    BY <1>5, <1>8
  <2> HIDE DEF q, r, s, hole, p, path, id
  <2>7. Along(whole, call) => Taken(whole, Append(s, hole), q)
    BY <1>1, <1>4, <1>6, <1>8, <2>1, <2>2, <2>6, TakenHole
  <2>8. Takes(whole, call, r)
    BY <2>4, <2>5, <2>6, <2>7 DEF Takes
  <2> QED BY <2>3, <2>8
<1>9. CASE id # 0 /\ hole \notin CatchAlls /\ value # <<>>
  <2> DEFINE q == Bind(p, hole, value)
  <2>1. value \in Seq(Letter) /\ left \in Seq(Characters) /\ value \in Seq(Characters)
    <3>1. value \in Seq(Letter) /\ left \in Seq(Characters)
      <4> HIDE DEF path
      <4> QED BY <1>1, SegmentFacts
    <3> HIDE DEF value, left
    <3> QED BY <3>1 DEF Letter
  <2>2. Binds(text[id], s, hole, p, value) /\ q[Param[hole]] = value
    <3> HIDE DEF value
    <3> QED BY <2>1, <1>7, <1>9
  <2>3. Agree(s, q, p) /\ q \in Params
    BY <2>2 DEF Binds
  <2>4. Spelled(text[id], q) = Spelled(s, p) \o value
    <3>1. Letters(value) = value
      <4> HIDE DEF value
      <4> QED BY <2>1, LettersSame DEF Letter
    <3> QED BY <2>2, <3>1 DEF Binds
  <2>5. low.node = id /\ low.params = q /\ low.path = Trim(left)
    BY DEF Enter
  <2>6. low \in Calls
    <3>1. id \in Ids
      BY <1>5, <1>9
    <3> HIDE DEF q, left, id
    <3> QED BY <3>1, <2>1, <2>3, EnterCall DEF q
  <2>7. hole \in Holes /\ text[id] = Append(s, hole)
    BY <1>5, <1>9
  <2>8. path # <<>> /\ value = Segment(path)
    OBVIOUS
  <2> DEFINE r == go[low]
  <2>9. SearchWild(call, go) = r
    BY <1>2, <1>9
  <2>10. Takes(whole, low, r)
    BY <2>6 DEF Taking
  <2> HIDE DEF low, q, r, s, hole, p, path, id, value
  <2>11. ASSUME Along(whole, call) PROVE Along(whole, low)
    <3>1. Taken(whole, Append(s, hole), q)
      BY <1>1, <1>4, <1>6, <1>9, <2>2, <2>3, <2>7, <2>8, <2>11, TakenHole
    <3>2. PICK c \in Seq(Characters) : path = c \o left /\ c # <<>> /\ Letters(c) = value
      BY <1>1, <2>8, SegmentCut
    <3> HIDE DEF left
    <3>3. Reached(whole, text[id], q, left)
      BY <3>2, <1>1, <1>6, <2>1, <2>4, <2>11, ReachedOn
    <3>4. Reached(whole, text[id], q, Trim(left))
      BY <3>3, <2>1, ReachedTrim
    <3> QED BY <3>1, <3>4, <2>5, <2>7 DEF Along
  <2>12. Takes(whole, call, r)
    BY <2>10, <2>11 DEF Takes
  <2> QED BY <2>9, <2>12
<1> HIDE DEF id, hole, value, p
<1> QED BY <1>2, <1>3, <1>8, <1>9

\* search takes the values from the path when the calls it makes do.
LEMMA SearchTakes ==
  ASSUME TypeOK, IsTree, Orderly, TextsSpelled, NEW whole, NEW go \in Taking(whole), NEW call \in Calls
  PROVE  Takes(whole, call, Search(call, go))
BY TakesHere, TakesChild, TakesWild DEF Search

\* search on a path, from the root.
LEMMA SearchTreeTakes ==
  ASSUME TypeOK, IsTree, Orderly, TextsSpelled, NEW path \in Seq(Characters), SearchTree(path).route # 0
  PROVE  Taken(path, Letters(Pattern(routes[SearchTree(path).route])), SearchTree(path).params)
<1> DEFINE T == Taking(path)
           call == Enter(1, path, Unbound)
           m == Fuel(path)
           r == SearchTree(path)
<1>1. NoAnswer \in T
  <2>1. ASSUME NEW c \in Calls
        PROVE  /\ Result(0, c.params) \in Results /\ Answers(c, Result(0, c.params))
               /\ Takes(path, c, Result(0, c.params))
    BY AnswerNone DEF Answers, Takes, Result
  <2> QED BY <2>1 DEF Taking, Answering, NoAnswer
<1>2. ASSUME NEW go \in T PROVE Deeper(go) \in T
  <2>1. go \in Answering
    BY DEF Taking
  <2>2. ASSUME NEW c \in Calls
        PROVE  Search(c, go) \in Results /\ Answers(c, Search(c, go)) /\ Takes(path, c, Search(c, go))
    BY <2>1, SearchAnswers, SearchTakes DEF Answers
  <2> QED BY <2>2 DEF Taking, Answering, Deeper
<1>3. T \in SUBSET [Calls -> Results]
  BY DEF Taking, Answering
<1>4. m \in Nat
  BY FuelType
<1> HIDE DEF T, m
<1>5. PICK f \in Nestings(m) : \A i \in 0 .. m : f[i] \in T
  BY <1>1, <1>2, <1>3, <1>4, NestingExists
<1>6. r = f[m][call]
  BY <1>5, SearchTreeIs DEF m
<1>7. f[m] \in T
  BY <1>4, <1>5
<1>8. Unbound \in Params /\ 1 \in Ids
  BY Nothing DEF Unbound, Params, IsTree
<1>9. call \in Calls /\ call.node = 1 /\ call.params = Unbound /\ call.path = Trim(path)
  BY <1>8, EnterCall DEF Enter
<1> HIDE DEF call, r
<1>10. Takes(path, call, r)
  BY <1>6, <1>7, <1>9 DEF T, Taking
<1>11. Along(path, call)
  <2>1. text[1] = <<>>
    BY DEF TextsSpelled
  <2>2. Spelled(<<>>, Unbound) = <<>>
    <3>1. <<>> \in Seq(Letter)
      BY Nothing
    <3> QED BY <3>1, SpelledPlain
  <2>3. Taken(path, <<>>, Unbound)
    BY NoItems DEF Taken
  <2>4. Reached(path, <<>>, Unbound, path) \/ Trim(path) # path
    <3>1. <<>> \in Seq(Characters) /\ path = <<>> \o path /\ Letters(<<>>) = <<>>
      BY LettersFew
    <3> QED BY <3>1, <2>2 DEF Reached
  <2>5. Reached(path, <<>>, Unbound, Trim(path))
    <3>1. PICK c \in Seq(Characters) : path = c \o Trim(path) /\ Letters(c) = <<>> /\ (c # <<>> \/ Trim(path) = path)
      BY TrimCut
    <3> DEFINE b == Trim(path)
    <3>2. c # <<>> \/ Trim(b) = b
      BY <3>1
    <3> HIDE DEF b
    <3> QED BY <3>1, <3>2, <2>2 DEF Reached, b
  <2> QED BY <2>1, <2>3, <2>5, <1>9 DEF Along
<1> QED BY <1>10, <1>11 DEF Takes, r
-----------------------------------------------------------------------------
(* What is found matches segment by segment                                *)

\* A sequence that begins two sequences is cut off either.
LEMMA CancelLeft ==
  ASSUME NEW E, NEW s \in Seq(E), NEW t \in Seq(E), NEW u \in Seq(E), s \o t = s \o u
  PROVE  t = u
<1>1. Len(s \o t) = Len(s) + Len(t) /\ Len(s \o u) = Len(s) + Len(u)
      /\ Len(s) \in Nat /\ Len(t) \in Nat /\ Len(u) \in Nat
  OBVIOUS
<1>2. Len(t) = Len(u)
  BY <1>1
<1>3. \A i \in 1 .. Len(t) : t[i] = (s \o t)[Len(s) + i] /\ u[i] = (s \o u)[Len(s) + i]
  BY <1>1, <1>2
<1> QED BY <1>2, <1>3, SameItems

\* What two ways to cut a sequence in two leave between them.
Between(E, a, b, x, y) == \E d \in Seq(E) : x = a \o d /\ b = d \o y

\* Two ways to cut a sequence in two.
LEMMA TwoCuts ==
  ASSUME NEW E, NEW a \in Seq(E), NEW b \in Seq(E), NEW x \in Seq(E), NEW y \in Seq(E),
         a \o b = x \o y, Len(a) <= Len(x)
  PROVE  Between(E, a, b, x, y)
<1> DEFINE n == Len(a)
           d == Drop(x, n)
           c == SubSeq(x, 1, n)
<1>1. n \in 0 .. Len(x) /\ Len(x) \in Nat
  OBVIOUS
<1>2. c \in Seq(E) /\ Len(c) = n /\ \A i \in 1 .. n : c[i] = x[i]
  BY <1>1
<1>3. \A i \in 1 .. n : a[i] = (a \o b)[i] /\ x[i] = (x \o y)[i]
  BY <1>1
<1>4. c = a
  BY <1>2, <1>3, SameItems
<1> HIDE DEF n
<1>5. IsCut(E, x, n, c, d)
  BY <1>1, Cut
<1> HIDE DEF c, d
<1>6. d \in Seq(E) /\ x = a \o d
  BY <1>4, <1>5 DEF IsCut
<1>7. a \o (d \o y) = (a \o d) \o y
  BY <1>6, ConcatAssoc
<1>8. d \o y \in Seq(E)
  BY <1>6
<1> DEFINE z == d \o y
<1> HIDE DEF z
<1>9. b = z
  <2>1. a \o b = a \o z /\ z \in Seq(E)
    BY <1>6, <1>7, <1>8 DEF z
  <2> QED BY <2>1, CancelLeft
<1> QED BY <1>6, <1>9 DEF z, Between

\* A text without letters is slashes.
LEMMA NoLetters ==
  ASSUME NEW E, NEW s \in Seq(E), Letters(s) = <<>>, NEW i \in 1 .. Len(s)
  PROVE  s[i] = Slash
<1> DEFINE a == SubSeq(s, 1, i - 1)
           b == Drop(s, i - 1)
           k == i - 1
<1>1. k \in 0 .. Len(s) /\ Len(s) \in Nat /\ k + 1 = i
  OBVIOUS
<1>2. IsCut(E, s, k, SubSeq(s, 1, k), Drop(s, k))
  <2> HIDE DEF k
  <2> QED BY <1>1, Cut
<1>3. a \in Seq(E) /\ b \in Seq(E) /\ s = a \o b
  BY <1>2 DEF IsCut
<1>4. Len(b) > 0 /\ b[1] = s[i]
  BY <1>1 DEF Drop
<1> HIDE DEF a, b, k
<1>5. Letters(s) = Letters(a) \o Letters(b)
  <2>1. Letters(a \o b) = Letters(a) \o Letters(b)
    BY <1>3, LettersConcat
  <2> QED BY <2>1, <1>3
<1>6. b = << b[1] >> \o Tail(b) /\ << b[1] >> \in Seq(E) /\ Tail(b) \in Seq(E)
  BY <1>3, <1>4
<1>7. Letters(b) = Letters(<< b[1] >>) \o Letters(Tail(b))
  <2> DEFINE x == << b[1] >>
             y == Tail(b)
  <2> HIDE DEF x, y
  <2>1. Letters(x \o y) = Letters(x) \o Letters(y)
    BY <1>6, LettersConcat DEF x, y
  <2> QED BY <2>1, <1>6 DEF x, y
<1>8. Letters(a) \in Seq(E \ {Slash}) /\ Letters(Tail(b)) \in Seq(E \ {Slash})
  BY <1>3, <1>6, LettersType
<1> DEFINE l == Letters(a)
           r == Letters(Tail(b))
           x == b[1]
<1>9. CASE b[1] # Slash
  <2>1. Letters(<< b[1] >>) = << b[1] >>
    BY <1>9, LettersFew
  <2>2. Letters(s) = l \o (<< x >> \o r)
    BY <2>1, <1>5, <1>7
  <2> HIDE DEF l, r, x
  <2>3. Len(l \o (<< x >> \o r)) = Len(l) + 1 + Len(r) /\ Len(l) \in Nat /\ Len(r) \in Nat
    <3>1. x \in E
      BY <1>3, <1>4 DEF x
    <3>2. l \in Seq(E) /\ r \in Seq(E)
      BY <1>8 DEF l, r
    <3> QED BY <3>1, <3>2
  <2>4. Len(<<>>) = 0
    OBVIOUS
  <2> QED BY <2>2, <2>3, <2>4
<1> QED BY <1>4, <1>9

\* A path ends with a letter, or it is the root's.
Ended(path) == path = <<Slash>> \/ (path # <<>> /\ path[Len(path)] # Slash)

\* Behind all the letters of a path is nothing.
LEMMA NothingLeft ==
  ASSUME NEW a \in Seq(Characters), NEW b \in Seq(Characters), NEW path \in Seq(Characters), path = a \o b,
         Ended(path), Letters(a) = Letters(path), a # <<>> \/ Trim(b) = b
  PROVE  b = <<>>
<1>1. Letters(b) = <<>>
  <2>1. Letters(path) = Letters(a) \o Letters(b)
    BY LettersConcat
  <2> DEFINE l == Letters(a)
             r == Letters(b)
  <2>2. l \in Seq(Letter) /\ r \in Seq(Letter)
    BY LettersHoleless
  <2>3. l = l \o r
    BY <2>1
  <2> HIDE DEF l, r
  <2>4. Len(l \o r) = Len(l) + Len(r) /\ Len(l) \in Nat /\ Len(r) \in Nat
    BY <2>2
  <2>5. Len(r) = 0
    BY <2>3, <2>4
  <2>6. r = <<>>
    BY <2>2, <2>5
  <2> QED BY <2>6 DEF r
<1> SUFFICES ASSUME b # <<>> PROVE FALSE
  OBVIOUS
<1>2. Len(b) \in 1 .. Len(b) /\ Len(a) \in Nat /\ Len(path) = Len(a) + Len(b) /\ path[Len(path)] = b[Len(b)]
  OBVIOUS
<1>3. b[Len(b)] = Slash
  BY <1>1, <1>2, NoLetters
<1>4. path = <<Slash>>
  BY <1>2, <1>3 DEF Ended
<1>5. Len(a) = 0 /\ Len(b) = 1
  <2>1. Len(<<Slash>>) = 1
    OBVIOUS
  <2> QED BY <2>1, <1>2, <1>4
<1>6. a = <<>> /\ Head(b) = Slash /\ Tail(b) = <<>>
  <2>1. a = <<>>
    BY <1>5
  <2>2. Head(b) = b[1] /\ b[1] = Slash
    BY <1>3, <1>5
  <2>3. Tail(b) = <<>>
    <3> DEFINE t == Tail(b)
    <3>1. t \in Seq(Characters) /\ Len(t) = 0
      BY <1>5
    <3> HIDE DEF t
    <3>2. t = <<>>
      BY <3>1
    <3> QED BY <3>2 DEF t
  <2> QED BY <2>1, <2>2, <2>3
<1> QED BY <1>6 DEF Trim

\* The segment in front of a slash or of the end.
LEMMA SegmentIs ==
  ASSUME NEW v \in Seq(Letter), NEW c \in Seq(Characters), c = <<>> \/ Head(c) = Slash
  PROVE  Segment(v \o c) = v
<1> DEFINE s == v \o c
           k == First(s, LAMBDA i : s[i] = Slash)
           n == Len(v) + 1
<1>0. v \in Seq(Characters)
  BY DEF Letter
<1>1. Len(v) \in Nat /\ Len(c) \in Nat /\ Len(s) = Len(v) + Len(c) /\ n \in 1 .. Len(s) + 1 /\ s \in Seq(Characters)
  BY <1>0
<1>2. \A j \in 1 .. Len(v) : s[j] = v[j] /\ v[j] # Slash
  BY <1>0 DEF Letter
<1>3. n <= Len(s) => s[n] = Slash
  BY <1>0, <1>1
<1>4. k = n
  <2>1. /\ n \in 1 .. Len(s) + 1 /\ (n <= Len(s) => s[n] = Slash) /\ \A j \in 1 .. n - 1 : ~(s[j] = Slash)
    BY <1>1, <1>2, <1>3
  <2>2. ASSUME NEW i \in 1 .. Len(s) + 1, i <= Len(s) => s[i] = Slash, \A j \in 1 .. i - 1 : ~(s[j] = Slash)
        PROVE  i = n
    <3>1. ~(i < n)
      BY <1>1, <1>2, <2>2
    <3>2. ~(n < i)
      <4> SUFFICES ASSUME n < i PROVE FALSE
        OBVIOUS
      <4>1. n \in 1 .. i - 1 /\ n <= Len(s)
        BY <1>1
      <4> QED BY <4>1, <1>3, <2>2
    <3> QED BY <3>1, <3>2, <1>1
  <2> HIDE DEF n, s
  <2> QED BY <2>1, <2>2 DEF First
<1>5. Segment(s) = SubSeq(s, 1, n - 1)
  BY <1>4 DEF Segment
<1>6. SubSeq(s, 1, n - 1) = v
  <2>1. SubSeq(s, 1, Len(v)) \in Seq(Characters) /\ Len(SubSeq(s, 1, Len(v))) = Len(v)
        /\ \A j \in 1 .. Len(v) : SubSeq(s, 1, Len(v))[j] = s[j]
    <3> HIDE DEF s
    <3>1. Len(v) <= Len(s)
      BY <1>1
    <3> QED BY <3>1, <1>1
  <2> HIDE DEF s
  <2>2. SubSeq(s, 1, Len(v)) = v
    BY <2>1, <1>0, <1>2, SameItems
  <2>3. n - 1 = Len(v)
    BY <1>1
  <2> QED BY <2>2, <2>3
<1> QED BY <1>5, <1>6

\* A segment that begins where the letters of P are used up is the one behind P.
LEMMA SegmentTaken ==
  ASSUME NEW P \in Seq(Characters), NEW v \in Seq(Letter), v # <<>>, NEW c \in Seq(Characters),
         c = <<>> \/ Head(c) = Slash, NEW a \in Seq(Characters), NEW b \in Seq(Characters),
         a \o b = P \o (<<Slash>> \o (v \o c)), Letters(a) = Letters(P), Segment(b) # <<>>
  PROVE  Segment(b) = v
<1> DEFINE y == v \o c
           x == <<Slash>> \o y
<1>0. <<Slash>> \in Seq(Characters) /\ Letters(<<Slash>>) = <<>> /\ v \in Seq(Characters)
  BY SlashIsNoHole, LettersFew DEF Letter
<1>1. y \in Seq(Characters) /\ x \in Seq(Characters) /\ y # <<>> /\ Head(y) = v[1] /\ v[1] # Slash
      /\ Head(x) = Slash /\ Len(x) > 0
  <2>1. Len(v) \in Nat /\ Len(v) # 0 /\ Len(c) \in Nat
    BY <1>0
  <2>2. y \in Seq(Characters) /\ Len(y) = Len(v) + Len(c) /\ y[1] = v[1] /\ v[1] # Slash
    BY <2>1, <1>0 DEF Letter
  <2> HIDE DEF y
  <2>3. y # <<>> /\ Head(y) = y[1]
    BY <2>1, <2>2
  <2>4. x \in Seq(Characters) /\ Len(x) = 1 + Len(y) /\ Head(x) = Slash
    <3> DEFINE o == <<Slash>>
    <3>1. o \in Seq(Characters) /\ Len(o) = 1 /\ o[1] = Slash
      BY <1>0
    <3> HIDE DEF o
    <3> DEFINE z == o \o y
    <3>2. Joins(Characters, z, o, y)
      BY <3>1, <2>2, ConcatItems
    <3>3. Len(y) \in Nat /\ z \in Seq(Characters) /\ Len(z) = 1 + Len(y) /\ z[1] = Slash
      BY <3>1, <3>2, <2>2 DEF Joins
    <3> HIDE DEF z
    <3>4. Head(z) = Slash
      BY <3>3
    <3> QED BY <3>3, <3>4 DEF o, z
  <2> QED BY <2>1, <2>2, <2>3, <2>4
<1>2. Segment(y) = v
  BY SegmentIs
<1> HIDE DEF x, y
<1>3. a \o b = P \o x
  BY DEF x, y
\* a segment does not begin with a slash
<1>4. ASSUME NEW z \in Seq(Characters), Len(z) > 0, Head(z) = Slash PROVE Segment(z) = <<>>
  <2>1. <<>> \in Seq(Letter) /\ <<>> \o z = z
    BY Nothing
  <2> QED BY <2>1, <1>4, SegmentIs
<1>5. CASE Len(a) <= Len(P)
  <2>1. PICK d \in Seq(Characters) : P = a \o d /\ b = d \o x
    <3>1. Between(Characters, a, b, P, x)
      BY <1>1, <1>3, <1>5, TwoCuts
    <3> QED BY <3>1 DEF Between
  <2>2. Letters(d) = <<>>
    <3>1. Letters(a \o d) = Letters(a) \o Letters(d)
      BY LettersConcat
    <3> DEFINE l == Letters(a)
               r == Letters(d)
    <3>2. l \in Seq(Letter) /\ r \in Seq(Letter)
      BY LettersHoleless
    <3>3. l = l \o r
      BY <3>1, <2>1
    <3> HIDE DEF l, r
    <3>4. Len(l \o r) = Len(l) + Len(r) /\ Len(l) \in Nat /\ Len(r) \in Nat
      BY <3>2
    <3>5. Len(r) = 0
      BY <3>3, <3>4
    <3> QED BY <3>2, <3>5 DEF r
  <2>3. Len(b) > 0 /\ Head(b) = Slash
    <3>1. CASE d = <<>>
      <4>1. b = x
        BY <2>1, <3>1, <1>1
      <4> QED BY <4>1, <1>1
    <3>2. CASE d # <<>>
      <4>1. 1 \in 1 .. Len(d) /\ Len(d) \in Nat
        BY <3>2
      <4>2. d[1] = Slash
        BY <4>1, <2>2, NoLetters
      <4>3. Len(b) = Len(d) + Len(x) /\ b[1] = d[1]
        BY <4>1, <2>1, <1>1
      <4> QED BY <4>1, <4>2, <4>3, <1>1
    <3> QED BY <3>1, <3>2
  <2> QED BY <2>3, <1>4
<1>6. CASE ~(Len(a) <= Len(P))
  <2>1. Len(P) <= Len(a) /\ Len(P) # Len(a)
    BY <1>6
  <2>2. PICK d \in Seq(Characters) : a = P \o d /\ x = d \o b
    <3>1. Between(Characters, P, x, a, b)
      BY <1>1, <1>3, <2>1, TwoCuts
    <3> QED BY <3>1 DEF Between
  <2>3. Len(d) # 0 /\ Len(d) \in Nat
    <3>1. Len(P \o d) = Len(P) + Len(d) /\ Len(P) \in Nat /\ Len(d) \in Nat
      OBVIOUS
    <3> QED BY <3>1, <2>1, <2>2
  <2>4. Letters(d) = <<>>
    <3>1. Letters(P \o d) = Letters(P) \o Letters(d)
      BY LettersConcat
    <3> DEFINE l == Letters(P)
               r == Letters(d)
    <3>2. l \in Seq(Letter) /\ r \in Seq(Letter)
      BY LettersHoleless
    <3>3. l = l \o r
      BY <3>1, <2>2
    <3> HIDE DEF l, r
    <3>4. Len(l \o r) = Len(l) + Len(r) /\ Len(l) \in Nat /\ Len(r) \in Nat
      BY <3>2
    <3>5. Len(r) = 0
      BY <3>3, <3>4
    <3> QED BY <3>2, <3>5 DEF r
  <2>5. Len(<<Slash>>) = 1 /\ <<Slash>> \o y = d \o b
    BY <2>2 DEF x
  <2>6. PICK e \in Seq(Characters) : d = <<Slash>> \o e /\ y = e \o b
    <3> DEFINE o == <<Slash>>
    <3>1. o \in Seq(Characters) /\ o \o y = d \o b /\ Len(o) = 1
      BY <2>5, <1>0
    <3> HIDE DEF o
    <3>2. Len(o) <= Len(d)
      BY <3>1, <2>3
    <3>3. Between(Characters, o, y, d, b)
      BY <3>1, <3>2, <1>1, TwoCuts
    <3> QED BY <3>3 DEF Between, o
  <2>7. e = <<>>
    <3> SUFFICES ASSUME e # <<>> PROVE FALSE
      OBVIOUS
    <3>1. Len(e) \in Nat /\ Len(e) # 0 /\ Len(d) = 1 + Len(e) /\ d[2] = e[1]
      BY <2>6, <1>0
    <3>2. 2 \in 1 .. Len(d)
      BY <3>1
    <3>3. d[2] = Slash
      BY <3>2, <2>4, NoLetters
    <3>4. Head(y) = e[1]
      BY <3>1, <2>6
    <3> QED BY <3>1, <3>3, <3>4, <1>1
  <2>8. b = y
    BY <2>6, <2>7
  <2> QED BY <2>8, <1>2
<1> QED BY <1>5, <1>6

\* The beginnings of a sequence that is put together from those in w.
Steps(E, w, f) ==
  /\ f \in [0 .. Len(w) -> Seq(E)]
  /\ f[0] = <<>>
  /\ \A i \in 1 .. Len(w) : f[i] = f[i - 1] \o w[i]

\* There are such beginnings.
LEMMA StepsOf ==
  ASSUME NEW E, NEW w \in Seq(Seq(E))
  PROVE  \E f : Steps(E, w, f) /\ FlattenSeq(w) = f[Len(w)]
<1>1. PICK f \in [0 .. Len(w) -> Seq(E)] : f[0] = <<>> /\ \A i \in 1 .. Len(w) : f[i] = f[i - 1] \o w[i]
  BY Flat
<1>2. FlattenSeq(w) = f[Len(w)]
  BY <1>1, Flat
<1> QED BY <1>1, <1>2 DEF Steps

\* What is behind a beginning of a sequence, and behind a piece that follows one.
Goes(E, whole, s)       == \E r \in Seq(E) : whole = s \o r
GoesOn(E, whole, s, x, t) == \E r \in Seq(E) : whole = t \o r /\ whole = s \o (x \o r)

\* Each beginning is one of the whole.
LEMMA StepsLeft ==
  ASSUME NEW E, NEW w \in Seq(Seq(E)), NEW f, Steps(E, w, f), NEW j \in 0 .. Len(w)
  PROVE  Goes(E, f[Len(w)], f[j])
<1> DEFINE m == Len(w)
           T == {k \in Nat : j + k <= m => \E r \in Seq(E) : f[j + k] = f[j] \o r}
<1>1. m \in Nat /\ j \in Nat /\ j <= m
  OBVIOUS
<1>2. \A i \in 0 .. m : f[i] \in Seq(E)
  BY DEF Steps
<1>3. 0 \in T
  <2>1. <<>> \in Seq(E) /\ f[j] = f[j] \o <<>> /\ j + 0 = j
    BY <1>1, <1>2
  <2>2. \E r \in Seq(E) : f[j + 0] = f[j] \o r
    BY <2>1
  <2> QED BY <2>2
<1>4. ASSUME NEW k \in Nat, k \in T PROVE k + 1 \in T
  <2> SUFFICES ASSUME j + (k + 1) <= m PROVE \E r \in Seq(E) : f[j + (k + 1)] = f[j] \o r
    OBVIOUS
  <2>1. j + k <= m /\ j + (k + 1) \in 1 .. m /\ j + (k + 1) - 1 = j + k
    BY <1>1
  <2>2. PICK r \in Seq(E) : f[j + k] = f[j] \o r
    BY <2>1, <1>4
  <2> DEFINE n == j + (k + 1)
  <2>3. w[n] \in Seq(E) /\ n \in 1 .. m /\ n - 1 = j + k
    BY <2>1
  <2> HIDE DEF n
  <2>4. f[n] = f[j + k] \o w[n]
    <3>1. f[n] = f[n - 1] \o w[n]
      BY <2>3 DEF Steps
    <3> QED BY <3>1, <2>3
  <2> DEFINE x == f[j]
             y == w[n]
             z == r \o y
  <2>5. x \in Seq(E) /\ y \in Seq(E)
    BY <1>1, <1>2, <2>3
  <2> HIDE DEF x, y
  <2>6. x \o (r \o y) = (x \o r) \o y
    BY <2>5, ConcatAssoc
  <2>7. z \in Seq(E) /\ f[n] = x \o z
    BY <2>2, <2>4, <2>5, <2>6 DEF x, y
  <2> HIDE DEF z
  <2> QED BY <2>7 DEF n, x
<1>5. T = Nat
  <2>1. T \in SUBSET Nat
    OBVIOUS
  <2> HIDE DEF T
  <2> QED BY <2>1, <1>3, <1>4, Induction
<1>6. m - j \in Nat /\ j + (m - j) = m
  BY <1>1
<1>7. m - j \in T
  BY <1>5, <1>6
<1>8. \E r \in Seq(E) : f[j + (m - j)] = f[j] \o r
  BY <1>6, <1>7
<1> QED BY <1>6, <1>8 DEF Goes

\* A piece, what is in front of it and what is behind.
LEMMA StepsOn ==
  ASSUME NEW E, NEW w \in Seq(Seq(E)), NEW f, Steps(E, w, f), NEW j \in 1 .. Len(w)
  PROVE  GoesOn(E, f[Len(w)], f[j - 1], w[j], f[j])
<1> DEFINE m == Len(w)
           i == j - 1
           whole == f[m]
           s == f[i]
           x == w[j]
           t == f[j]
<1>1. j \in 0 .. m /\ i \in 0 .. m /\ m \in Nat
  OBVIOUS
<1>2. Goes(E, whole, t)
  BY <1>1, StepsLeft
<1>3. x \in Seq(E)
  OBVIOUS
<1>4. f \in [0 .. m -> Seq(E)] /\ t = s \o x
  BY DEF Steps
<1>5. s \in Seq(E)
  <2> HIDE DEF i
  <2> QED BY <1>1, <1>4
<1> HIDE DEF whole, s, x, t, i, m
<1>6. PICK r \in Seq(E) : whole = t \o r
  BY <1>2 DEF Goes
<1>7. s \o (x \o r) = (s \o x) \o r
  <2>1. s \in Seq(E) /\ x \in Seq(E) /\ r \in Seq(E)
    BY <1>3, <1>5, <1>6
  <2> QED BY <2>1, ConcatAssoc
<1>8. GoesOn(E, whole, s, x, t)
  BY <1>4, <1>6, <1>7 DEF GoesOn
<1> QED BY <1>8 DEF whole, s, x, t, i, m

\* Each piece behind a slash.
Slashed(w) == [i \in DOMAIN w |-> <<Slash>> \o w[i]]

\* The letters of what is so put together are put together from the pieces.
LEMMA SlashedSteps ==
  ASSUME NEW E, Slash \in E, NEW w \in Seq(Seq(E \ {Slash}))
  PROVE  /\ Slashed(w) \in Seq(Seq(E)) /\ Len(Slashed(w)) = Len(w)
         /\ \A i \in 1 .. Len(w) : Slashed(w)[i] = <<Slash>> \o w[i]
         /\ \A f : Steps(E, Slashed(w), f) => Steps(E \ {Slash}, w, [i \in 0 .. Len(w) |-> Letters(f[i])])
<1> DEFINE v == Slashed(w)
           one == <<Slash>>
           m == Len(w)
<1>1. m \in Nat /\ DOMAIN w = 1 .. m /\ \A i \in 1 .. m : w[i] \in Seq(E \ {Slash}) /\ w[i] \in Seq(E)
  OBVIOUS
<1>2. one \in Seq(E) /\ Letters(one) = <<>>
  BY LettersFew
<1> HIDE DEF one
<1>3. \A i \in 1 .. m : one \o w[i] \in Seq(E)
  BY <1>1, <1>2
<1>4. v = [i \in 1 .. m |-> one \o w[i]]
  BY <1>1 DEF Slashed, one
<1> HIDE DEF v, m
<1>5. v \in Seq(Seq(E)) /\ Len(v) = m /\ DOMAIN v = 1 .. m
  <2>1. v = [i \in 1 .. m |-> v[i]] /\ \A i \in 1 .. m : v[i] \in Seq(E)
    BY <1>3, <1>4
  <2> QED BY <2>1, <1>1, SeqOfItems
<1>6. ASSUME NEW f, Steps(E, v, f)
      PROVE  Steps(E \ {Slash}, w, [i \in 0 .. m |-> Letters(f[i])])
  <2> DEFINE g == [i \in 0 .. m |-> Letters(f[i])]
  <2>1. f \in [0 .. m -> Seq(E)] /\ f[0] = <<>> /\ \A i \in 1 .. m : f[i] = f[i - 1] \o v[i]
    BY <1>5, <1>6 DEF Steps
  <2>2. \A i \in 0 .. m : Letters(f[i]) \in Seq(E \ {Slash})
    BY <2>1, LettersType
  <2>3. g \in [0 .. m -> Seq(E \ {Slash})] /\ g[0] = <<>>
    BY <1>1, <2>1, <2>2, LettersFew
  <2>4. ASSUME NEW i \in 1 .. m PROVE g[i] = g[i - 1] \o w[i]
    <3>1. i \in 0 .. m /\ i - 1 \in 0 .. m
      BY <1>1
    <3>2. f[i] = f[i - 1] \o (one \o w[i]) /\ f[i - 1] \in Seq(E) /\ w[i] \in Seq(E)
      BY <3>1, <2>1, <1>1, <1>4
    <3> DEFINE x == w[i]
               y == f[i - 1]
    <3> HIDE DEF x, y
    <3>3. x \in Seq(E) /\ x \in Seq(E \ {Slash}) /\ y \in Seq(E) /\ one \o x \in Seq(E)
      BY <3>2, <1>1, <1>3 DEF x, y
    <3>4. Letters(y \o (one \o x)) = Letters(y) \o Letters(one \o x)
      BY <3>3, LettersConcat
    <3>5. Letters(one \o x) = Letters(one) \o Letters(x)
      BY <3>3, <1>2, LettersConcat
    <3>6. Letters(x) = x
      BY <3>3, LettersSame
    <3>7. <<>> \o x = x
      BY <3>3
    <3>8. Letters(f[i]) = Letters(f[i - 1]) \o w[i]
      BY <3>2, <3>4, <3>5, <3>6, <3>7, <1>2 DEF x, y
    <3> QED BY <3>1, <3>8
  <2> HIDE DEF g
  <2>5. Steps(E \ {Slash}, w, g)
    BY <2>3, <2>4 DEF Steps, m
  <2> QED BY <2>5 DEF g
<1> QED BY <1>4, <1>5, <1>6, <1>1 DEF v, m, one

\* The segments of a path, and what is between and behind them.
Segmented(path, segs, L) ==
  /\ path \in Seq(Characters) /\ Ended(path)
  /\ Steps(Letter, segs, L) /\ L[Len(segs)] = Letters(path)
  /\ \A j \in 1 .. Len(segs) : \E q, c \in Seq(Characters) :
       /\ path = q \o (<<Slash>> \o (segs[j] \o c)) /\ Letters(q) = L[j - 1]
       /\ c = <<>> \/ Head(c) = Slash

\* A path is put together from its segments.
LEMMA PathSegmented ==
  ASSUME NEW segs \in Seq(Seq(Letter) \ {<<>>})
  PROVE  \E L : Segmented(Path(segs), segs, L)
<1> DEFINE m == Len(segs)
           path == Path(segs)
           w == Slashed(segs)
           one == <<Slash>>
<1>1. segs \in Seq(Seq(Characters \ {Slash})) /\ Slash \in Characters /\ m \in Nat
      /\ \A i \in 1 .. m : segs[i] \in Seq(Letter) /\ segs[i] \in Seq(Characters) /\ segs[i] # <<>>
  BY SlashIsNoHole DEF Letter
<1>2. /\ w \in Seq(Seq(Characters)) /\ Len(w) = m /\ \A i \in 1 .. m : w[i] = one \o segs[i]
      /\ \A f : Steps(Characters, w, f) => Steps(Letter, segs, [i \in 0 .. m |-> Letters(f[i])])
  BY <1>1, SlashedSteps DEF Letter
<1>3. segs # <<>> => path = FlattenSeq(w)
  BY DEF Path, Slashed
<1>4. segs = <<>> => path = one
  BY DEF Path
<1>5. one \in Seq(Characters) /\ Letters(one) = <<>> /\ Len(one) = 1
  BY <1>1, LettersFew
<1> HIDE DEF w, path, m
<1>6. PICK P : Steps(Characters, w, P) /\ FlattenSeq(w) = P[m]
  BY <1>2, StepsOf
<1> DEFINE L == [i \in 0 .. m |-> Letters(P[i])]
<1>7. Steps(Letter, segs, L)
  BY <1>2, <1>6
<1>8. \A i \in 0 .. m : L[i] = Letters(P[i]) /\ P[i] \in Seq(Characters)
  BY <1>2, <1>6 DEF Steps
<1>9. P[0] = <<>>
  BY <1>6 DEF Steps
<1> HIDE DEF L
<1>10. CASE segs = <<>>
  <2>1. m = 0 /\ path = one
    BY <1>4, <1>10 DEF m
  <2>2. L[m] = <<>>
    BY <2>1, <1>8, <1>9, LettersFew
  <2>3. Ended(path)
    BY <2>1 DEF Ended, one
  <2>4. \A j \in 1 .. m : FALSE
    BY <2>1
  <2> QED BY <2>1, <2>2, <2>3, <2>4, <1>5, <1>7 DEF Segmented, m, path
<1>11. CASE segs # <<>>
  <2>1. path = P[m] /\ m \in 1 .. m /\ m \in 0 .. m
    BY <1>1, <1>3, <1>6, <1>11 DEF m
  <2>2. path \in Seq(Characters) /\ L[m] = Letters(path)
    BY <2>1, <1>8
  <2> HIDE DEF one
  <2>3. ASSUME NEW j \in 1 .. m
        PROVE  \E c \in Seq(Characters) :
                 /\ path = P[j - 1] \o (one \o (segs[j] \o c)) /\ (c = <<>> \/ Head(c) = Slash)
    <3>1. PICK c \in Seq(Characters) : path = P[j] \o c /\ path = P[j - 1] \o (w[j] \o c)
      <4> DEFINE v == w
      <4>1. GoesOn(Characters, P[Len(v)], P[j - 1], v[j], P[j])
        <5>1. v \in Seq(Seq(Characters)) /\ j \in 1 .. Len(v) /\ Steps(Characters, v, P)
          BY <1>2, <1>6
        <5> HIDE DEF v
        <5> QED BY <5>1, StepsOn
      <4> QED BY <4>1, <1>2, <2>1 DEF GoesOn
    <3>2. w[j] \o c = one \o (segs[j] \o c)
      <4> DEFINE x == segs[j]
      <4>1. x \in Seq(Characters) /\ w[j] = one \o x
        BY <1>1, <1>2
      <4> HIDE DEF x
      <4>2. one \o (x \o c) = (one \o x) \o c
        BY <4>1, <3>1, <1>5, ConcatAssoc
      <4> QED BY <4>1, <4>2 DEF x
    <3>3. CASE j = m
      <4>1. P[m] = P[m] \o c /\ P[m] \in Seq(Characters)
        BY <3>1, <3>3, <2>1, <1>8
      <4> DEFINE x == P[m]
      <4> HIDE DEF x
      <4>2. x \in Seq(Characters) /\ x = x \o c
        BY <4>1 DEF x
      <4>3. Len(x \o c) = Len(x) + Len(c) /\ Len(x) \in Nat /\ Len(c) \in Nat
        BY <4>2
      <4>4. Len(c) = 0
        BY <4>2, <4>3
      <4>5. c = <<>>
        BY <4>4
      <4> QED BY <4>5, <3>1, <3>2
    <3>4. CASE j # m
      <4> DEFINE k == j + 1
      <4>1. k \in 1 .. m /\ k - 1 = j /\ j \in 0 .. m
        BY <3>4, <1>1
      <4> HIDE DEF k
      <4>2. PICK e \in Seq(Characters) : path = P[k] \o e /\ path = P[k - 1] \o (w[k] \o e)
        <5>1. w \in Seq(Seq(Characters)) /\ k \in 1 .. Len(w) /\ Steps(Characters, w, P)
          BY <4>1, <1>2, <1>6
        <5>2. GoesOn(Characters, P[Len(w)], P[k - 1], w[k], P[k])
          BY <5>1, StepsOn
        <5> QED BY <5>2, <1>2, <2>1 DEF GoesOn
      <4>3. w[k] \in Seq(Characters) /\ Len(w[k]) > 0 /\ w[k][1] = Slash
        <5> DEFINE x == segs[k]
        <5>1. x \in Seq(Characters) /\ w[k] = one \o x
          BY <4>1, <1>1, <1>2
        <5> HIDE DEF x
        <5>2. Joins(Characters, one \o x, one, x)
          BY <5>1, <1>5, ConcatItems
        <5>3. one[1] = Slash /\ Len(x) \in Nat
          BY <5>1 DEF one
        <5> QED BY <5>1, <5>2, <5>3, <1>5 DEF Joins
      <4> DEFINE z == w[k] \o e
                 x == w[k]
      <4>4. z \in Seq(Characters) /\ z # <<>> /\ Head(z) = Slash
        <5> DEFINE y == x \o e
        <5> HIDE DEF x
        <5>1. Joins(Characters, y, x, e) /\ x \in Seq(Characters) /\ Len(x) > 0 /\ x[1] = Slash
          BY <4>3, ConcatItems DEF x
        <5> HIDE DEF y
        <5>2. Len(y) > 0 /\ y[1] = Slash /\ y \in Seq(Characters)
          <6>1. Len(x) \in Nat /\ Len(e) \in Nat /\ 1 \in 1 .. Len(x)
            BY <5>1
          <6> QED BY <6>1, <5>1 DEF Joins
        <5>3. y # <<>> /\ Head(y) = Slash
          BY <5>2
        <5> QED BY <5>2, <5>3 DEF y, x
      <4> HIDE DEF z
      <4>5. P[j] \o c = P[j] \o z
        BY <3>1, <4>1, <4>2 DEF z
      <4>6. c = z
        BY <4>1, <4>4, <4>5, <1>8, CancelLeft
      <4> QED BY <4>4, <4>6, <3>1, <3>2
    <3> QED BY <3>3, <3>4
  <2>4. \A j \in 1 .. m : \E q, c \in Seq(Characters) :
          /\ path = q \o (one \o (segs[j] \o c)) /\ Letters(q) = L[j - 1]
          /\ c = <<>> \/ Head(c) = Slash
    <3> SUFFICES ASSUME NEW j \in 1 .. m
                 PROVE  \E q, c \in Seq(Characters) :
                          /\ path = q \o (one \o (segs[j] \o c)) /\ Letters(q) = L[j - 1]
                          /\ c = <<>> \/ Head(c) = Slash
      OBVIOUS
    <3>1. j - 1 \in 0 .. m
      BY <1>1
    <3> QED BY <3>1, <2>3, <1>8
  <2>5. Ended(path)
    <3>1. m - 1 \in 0 .. m
      BY <1>1, <2>1
    <3>2. P[m] = P[m - 1] \o w[m] /\ P[m - 1] \in Seq(Characters) /\ w[m] = one \o segs[m]
      <4>1. P[m] = P[m - 1] \o w[m]
        BY <1>2, <1>6, <2>1 DEF Steps
      <4> QED BY <4>1, <3>1, <1>2, <1>8, <2>1
    <3> DEFINE x == P[m - 1]
               y == segs[m]
    <3>3. x \in Seq(Characters) /\ y \in Seq(Characters) /\ y \in Seq(Letter) /\ y # <<>>
          /\ path = x \o (one \o y)
      BY <2>1, <3>2, <1>1
    <3> HIDE DEF x, y
    <3>4. Joins(Characters, one \o y, one, y)
      BY <3>3, <1>5, ConcatItems
    <3> DEFINE z == one \o y
    <3>5. Joins(Characters, x \o z, x, z)
      BY <3>3, <3>4, ConcatItems DEF Joins
    <3> HIDE DEF z
    <3>6. Len(y) \in 1 .. Len(y) /\ y[Len(y)] # Slash
      BY <3>3 DEF Letter
    <3>7. Len(z) = 1 + Len(y) /\ z[1 + Len(y)] = y[Len(y)]
      BY <3>4, <3>6, <1>5 DEF Joins, z
    <3> DEFINE b == x \o z
    <3> HIDE DEF b
    <3>8. Len(b) = Len(x) + Len(z) /\ b[Len(x) + Len(z)] = z[Len(z)] /\ Len(x) \in Nat /\ Len(z) > 0
      BY <3>3, <3>5, <3>6, <3>7 DEF Joins, b
    <3>9. b[Len(b)] # Slash /\ b # <<>>
      BY <3>6, <3>7, <3>8
    <3> QED BY <3>3, <3>9 DEF Ended, b, z
  <2> QED BY <2>2, <2>4, <2>5, <1>7 DEF Segmented, m, path, one
<1> QED BY <1>10, <1>11

\* A piece of a pattern: a plain name, or a placeholder that may take the rest.
IsPlain(x)  == x \in Seq(Letter) /\ x # <<>>
IsSign(x)   == \E h \in Holes : x = << h >>
IsOpen(x)   == \E h \in Holes \cap CatchAlls : x = << h >>
IsPieces(d) == d \in Seq(Seq(Alphabet)) /\ \A i \in 1 .. Len(d) : IsPlain(d[i]) \/ IsSign(d[i])

\* A pattern with its values is a path, and the values were taken from there.
Read(path, s, p) ==
  /\ s \in Seq(Alphabet) /\ p \in Params /\ path \in Seq(Characters)
  /\ Spelled(s, p) = Letters(path) /\ Valued(s, p) /\ Taken(path, s, p)

\* Where a placeholder's value begins, and what it is.
TakenFrom(path, t, h, p) ==
  \E a, b \in Seq(Characters) :
    /\ path = a \o b /\ (a # <<>> \/ Trim(b) = b) /\ Letters(a) = Spelled(t, p)
    /\ p[Param[h]] = IF h \in CatchAlls THEN b ELSE Segment(b)

\* A placeholder in a pattern has a value from the path.
LEMMA HoleRead ==
  ASSUME NEW path, NEW s, NEW p, Read(path, s, p), NEW t \in Seq(Alphabet), NEW h \in Holes,
         NEW r \in Seq(Alphabet), s = t \o (<< h >> \o r)
  PROVE  /\ TakenFrom(path, t, h, p) /\ p[Param[h]] # <<>>
         /\ h \notin CatchAlls => ~Contains(p[Param[h]], Slash)
<1> DEFINE one == << h >>
           y == one \o r
           n == Len(t) + 1
<1>1. h \in Alphabet /\ one \in Seq(Alphabet) /\ Len(one) = 1 /\ one[1] = h
  BY Letterwise
<1> HIDE DEF one
<1>2. Joins(Alphabet, y, one, r)
  BY <1>1, ConcatItems
<1> HIDE DEF y
<1>3. y \in Seq(Alphabet) /\ Len(y) > 0 /\ y[1] = h
  <2>1. Len(r) \in Nat /\ 1 \in 1 .. Len(one)
    BY <1>1
  <2> QED BY <2>1, <1>1, <1>2 DEF Joins
<1>4. s = t \o y
  BY DEF y, one
<1>5. Joins(Alphabet, s, t, y)
  BY <1>3, <1>4, ConcatItems
<1>6. Len(t) \in Nat /\ Len(s) = Len(t) + Len(y) /\ n \in 1 .. Len(s) /\ s[n] = h
  BY <1>3, <1>5 DEF Joins
<1>7. n \in DOMAIN s /\ s \in Seq(Alphabet)
  BY <1>6 DEF Read
<1>8. SubSeq(s, 1, n - 1) = t
  <2> DEFINE c == SubSeq(s, 1, n - 1)
  <2>1. c \in Seq(Alphabet) /\ Len(c) = Len(t) /\ \A i \in 1 .. Len(t) : c[i] = s[i]
    BY <1>6, <1>7
  <2> HIDE DEF c
  <2>2. \A i \in 1 .. Len(t) : c[i] = t[i]
    BY <2>1, <1>5 DEF Joins
  <2> QED BY <2>1, <2>2, SameItems DEF c
<1>9. TakenFrom(path, t, h, p)
  <2>1. Taken(path, s, p) /\ s[n] \in Holes
    BY <1>6 DEF Read
  <2> HIDE DEF n
  <2>2. \E a, b \in Seq(Characters) :
          /\ path = a \o b /\ (a # <<>> \/ Trim(b) = b)
          /\ Letters(a) = Spelled(SubSeq(s, 1, n - 1), p)
          /\ p[Param[s[n]]] = IF s[n] \in CatchAlls THEN b ELSE Segment(b)
    BY <2>1, <1>7 DEF Taken
  <2>3. s[n] = h
    BY <1>6
  <2> QED BY <2>2, <2>3, <1>8 DEF TakenFrom
<1>10. h \in ToSet(s) \cap Holes
  BY <1>6, <1>7 DEF ToSet
<1> QED BY <1>9, <1>10 DEF Read, Valued

\* What a piece stands for comes between what is spelled before and after it.
InPlace(path, t, x, r, p) ==
  /\ Spelled(t, p) \in Seq(Letter) /\ Spelled(x, p) \in Seq(Letter) /\ Spelled(r, p) \in Seq(Letter)
  /\ Letters(path) = Spelled(t, p) \o (Spelled(x, p) \o Spelled(r, p))
  /\ Spelled(t \o x, p) = Spelled(t, p) \o Spelled(x, p)

\* So it is in what is read from a path.
LEMMA PieceSpelled ==
  ASSUME NEW path, NEW s, NEW p, Read(path, s, p), NEW t \in Seq(Alphabet), NEW x \in Seq(Alphabet),
         NEW r \in Seq(Alphabet), s = t \o (x \o r)
  PROVE  InPlace(path, t, x, r, p)
<1>1. p \in Params /\ Spelled(s, p) = Letters(path)
  BY DEF Read
<1>2. Spelled(t, p) \in Seq(Letter) /\ Spelled(x, p) \in Seq(Letter) /\ Spelled(r, p) \in Seq(Letter)
  BY <1>1, SpelledType
<1>3. Spelled(x \o r, p) = Spelled(x, p) \o Spelled(r, p) /\ Spelled(t \o x, p) = Spelled(t, p) \o Spelled(x, p)
  BY <1>1, SpelledConcat
<1> DEFINE y == x \o r
<1>4. y \in Seq(Alphabet)
  OBVIOUS
<1> HIDE DEF y
<1>5. Spelled(t \o y, p) = Spelled(t, p) \o Spelled(y, p)
  BY <1>1, <1>4, SpelledConcat
<1> QED BY <1>1, <1>2, <1>3, <1>5 DEF y, InPlace

\* In front of a piece the letters of the path are not used up.
LEMMA PieceTakes ==
  ASSUME NEW path, Ended(path), NEW s, NEW p, Read(path, s, p), NEW t \in Seq(Alphabet), NEW x \in Seq(Alphabet),
         NEW r \in Seq(Alphabet), s = t \o (x \o r), IsPlain(x) \/ IsSign(x)
  PROVE  Spelled(t, p) # Letters(path)
<1> SUFFICES ASSUME Spelled(t, p) = Letters(path) PROVE FALSE
  OBVIOUS
<1>1. CASE IsPlain(x)
  <2>1. Spelled(x, p) = x /\ x # <<>> /\ x \in Seq(Letter)
    BY <1>1, SpelledPlain DEF IsPlain
  <2> DEFINE a == Spelled(t, p)
             b == Spelled(r, p)
  <2>2. a \in Seq(Letter) /\ b \in Seq(Letter) /\ a = a \o (x \o b)
    <3>1. /\ Spelled(t, p) \in Seq(Letter) /\ Spelled(r, p) \in Seq(Letter)
          /\ Letters(path) = Spelled(t, p) \o (Spelled(x, p) \o Spelled(r, p))
      <4>1. InPlace(path, t, x, r, p)
        BY PieceSpelled
      <4> QED BY <4>1 DEF InPlace
    <3> QED BY <3>1, <2>1
  <2> HIDE DEF a, b
  <2>3. Len(a \o (x \o b)) = Len(a) + (Len(x) + Len(b)) /\ Len(a) \in Nat /\ Len(x) \in Nat /\ Len(b) \in Nat
        /\ Len(x) # 0
    BY <2>1, <2>2
  <2> QED BY <2>2, <2>3
<1>2. CASE IsSign(x)
  <2>1. PICK h \in Holes : x = << h >>
    BY <1>2 DEF IsSign
  <2>2. TakenFrom(path, t, h, p) /\ p[Param[h]] # <<>>
    BY <2>1, HoleRead
  <2>3. PICK a \in Seq(Characters), b \in Seq(Characters) :
          /\ path = a \o b /\ (a # <<>> \/ Trim(b) = b) /\ Letters(a) = Spelled(t, p)
          /\ p[Param[h]] = IF h \in CatchAlls THEN b ELSE Segment(b)
    BY <2>2 DEF TakenFrom
  <2>4. path \in Seq(Characters)
    BY DEF Read
  <2>5. b = <<>>
    BY <2>3, <2>4, NothingLeft
  <2>6. Segment(<<>>) = <<>>
    <3>1. <<>> \in Seq(Letter) /\ <<>> \in Seq(Characters) /\ <<>> \o <<>> = <<>>
      BY Nothing
    <3> QED BY <3>1, SegmentIs
  <2> QED BY <2>2, <2>3, <2>5, <2>6
<1> QED BY <1>1, <1>2

\* Of two beginnings of one sequence one begins the other.
LEMMA OneBegins ==
  ASSUME NEW E, NEW a \in Seq(E), NEW b \in Seq(E), NEW x \in Seq(E), NEW y \in Seq(E), a \o b = x \o y
  PROVE  IsPrefix(a, x) \/ IsPrefix(x, a)
<1>1. Len(a) \in Nat /\ Len(x) \in Nat
  OBVIOUS
<1>2. CASE Len(a) <= Len(x)
  <2>1. Between(E, a, b, x, y)
    BY <1>2, TwoCuts
  <2>2. PICK d \in Seq(E) : x = a \o d
    BY <2>1 DEF Between
  <2> QED BY <2>2, PrefixOf
<1>3. CASE Len(x) <= Len(a)
  <2>1. Between(E, x, y, a, b)
    BY <1>3, TwoCuts
  <2>2. PICK d \in Seq(E) : a = x \o d
    BY <2>1 DEF Between
  <2> QED BY <2>2, PrefixOf
<1> QED BY <1>1, <1>2, <1>3

\* Placeholders stand for their segments and plain names are theirs.
Told(d, segs) ==
  \A i \in 1 .. Len(d), k \in 1 .. Len(segs) :
    IsPlain(d[i]) => d[i] = segs[k] \/ ~(IsPrefix(d[i], segs[k]) \/ IsPrefix(segs[k], d[i]))

IsSegments(segs) == segs \in Seq(Seq(Letter)) /\ \A k \in 1 .. Len(segs) : segs[k] # <<>>

\* How far a pattern and a path go together.
Together(d, u, segs, L, p, j) ==
  /\ j <= Len(segs)
  /\ \A i \in 1 .. j : IsPlain(d[i]) => d[i] = segs[i]
  /\ Spelled(u[j], p) = L[j] \/ (j = Len(d) /\ j > 0 /\ IsOpen(d[j]))

\* If they go together up to a piece they do so behind it.
LEMMA TogetherOn ==
  ASSUME NEW d, IsPieces(d), NEW u, Steps(Alphabet, d, u), NEW segs, IsSegments(segs), NEW L, NEW path,
         Segmented(path, segs, L), NEW p, Read(path, u[Len(d)], p), Told(d, segs),
         NEW j \in Nat, j + 1 \in 1 .. Len(d), Together(d, u, segs, L, p, j)
  PROVE  Together(d, u, segs, L, p, j + 1)
<1> DEFINE n == Len(d)
           m == Len(segs)
           k == j + 1
           t == u[j]
           x == d[k]
           s == u[n]
           v == segs[k]
<1>1. n \in Nat /\ m \in Nat /\ j \in 0 .. n /\ k \in 1 .. n /\ k \in 0 .. n /\ k - 1 = j /\ j # n
  BY DEF IsPieces, IsSegments
<1>2. t \in Seq(Alphabet) /\ u[k] \in Seq(Alphabet) /\ s \in Seq(Alphabet) /\ x \in Seq(Alphabet)
      /\ (IsPlain(x) \/ IsSign(x))
  <2>1. u \in [0 .. n -> Seq(Alphabet)] /\ n \in 0 .. n
    BY <1>1 DEF Steps
  <2>2. d \in Seq(Seq(Alphabet)) /\ \A i \in 1 .. n : IsPlain(d[i]) \/ IsSign(d[i])
    BY DEF IsPieces
  <2> HIDE DEF k
  <2>3. d[k] \in Seq(Alphabet)
    BY <2>2, <1>1
  <2> QED BY <2>1, <2>2, <2>3, <1>1
<1>3. u[k] = t \o x
  <2>1. u[k] = u[k - 1] \o d[k]
    <3> HIDE DEF k
    <3> QED BY <1>1 DEF Steps
  <2> QED BY <2>1, <1>1
<1>4. PICK r \in Seq(Alphabet) : s = u[k] \o r /\ s = t \o (x \o r)
  <2>1. d \in Seq(Seq(Alphabet))
    BY DEF IsPieces
  <2>2. GoesOn(Alphabet, u[Len(d)], u[k - 1], d[k], u[k])
    <3> HIDE DEF k
    <3> QED BY <2>1, <1>1, StepsOn
  <2> QED BY <2>2, <1>1 DEF GoesOn
<1>5. j <= m /\ Spelled(t, p) = L[j] /\ \A i \in 1 .. j : IsPlain(d[i]) => d[i] = segs[i]
  BY <1>1 DEF Together
<1>6. Ended(path) /\ L[m] = Letters(path) /\ path \in Seq(Characters) /\ Read(path, s, p)
  BY DEF Segmented
<1>7. Spelled(t, p) # Letters(path)
  <2> HIDE DEF t, x, s
  <2> QED BY <1>2, <1>4, <1>6, PieceTakes
<1>8. j # m
  BY <1>5, <1>6, <1>7
<1>9. k \in 1 .. m /\ v \in Seq(Letter) /\ v # <<>>
  BY <1>1, <1>5, <1>8 DEF IsSegments
<1>10. PICK q \in Seq(Characters), c \in Seq(Characters) :
         /\ path = q \o (<<Slash>> \o (v \o c)) /\ Letters(q) = L[j]
         /\ c = <<>> \/ Head(c) = Slash
  BY <1>1, <1>9 DEF Segmented
<1>11. L[k] = L[j] \o v /\ L[j] \in Seq(Letter)
  <2>1. k \in 1 .. m /\ k - 1 \in 0 .. m /\ k - 1 = j
    BY <1>1, <1>9
  <2>2. L[k] = L[k - 1] \o segs[k] /\ L[k - 1] \in Seq(Letter)
    <3> HIDE DEF k
    <3> QED BY <2>1 DEF Segmented, Steps
  <2> QED BY <2>1, <2>2
<1>12. PICK w \in Seq(Letter) : L[m] = L[j] \o (v \o w)
  <2>1. GoesOn(Letter, L[Len(segs)], L[k - 1], segs[k], L[k])
    <3>1. segs \in Seq(Seq(Letter)) /\ Steps(Letter, segs, L)
      BY DEF IsSegments, Segmented
    <3> HIDE DEF k
    <3> QED BY <3>1, <1>9, StepsOn
  <2> QED BY <2>1, <1>1 DEF GoesOn
<1>13. /\ Spelled(x, p) \in Seq(Letter) /\ Spelled(r, p) \in Seq(Letter)
       /\ Letters(path) = Spelled(t, p) \o (Spelled(x, p) \o Spelled(r, p))
       /\ Spelled(u[k], p) = Spelled(t, p) \o Spelled(x, p)
  <2> HIDE DEF t, x, s, k
  <2>1. /\ Spelled(x, p) \in Seq(Letter) /\ Spelled(r, p) \in Seq(Letter)
        /\ Letters(path) = Spelled(t, p) \o (Spelled(x, p) \o Spelled(r, p))
        /\ Spelled(t \o x, p) = Spelled(t, p) \o Spelled(x, p)
    <3>1. InPlace(path, t, x, r, p)
      BY <1>2, <1>4, <1>6, PieceSpelled
    <3> QED BY <3>1 DEF InPlace
  <2> QED BY <2>1, <1>3
<1> SUFFICES /\ IsPlain(x) => x = v
             /\ Spelled(u[k], p) = L[k] \/ (k = n /\ IsOpen(x))
  <2>1. k > 0
    BY <1>1
  <2>2. ASSUME IsPlain(x) => x = v PROVE \A i \in 1 .. k : IsPlain(d[i]) => d[i] = segs[i]
    BY <1>1, <1>5, <2>2
  <2>3. k <= m
    BY <1>1, <1>9
  <2> HIDE DEF k, x, v
  <2> QED BY <2>1, <2>2, <2>3 DEF Together, k, x, v
<1>14. CASE IsPlain(x)
  <2>1. Spelled(x, p) = x /\ x \in Seq(Letter)
    BY <1>14, SpelledPlain DEF IsPlain
  <2> DEFINE a == Spelled(r, p)
             l == L[j]
             y == x \o a
             z == v \o w
  <2>2. l \o y = l \o z
    BY <2>1, <1>5, <1>6, <1>12, <1>13
  <2>3. y \in Seq(Letter) /\ z \in Seq(Letter) /\ l \in Seq(Letter) /\ a \in Seq(Letter)
    BY <2>1, <1>9, <1>11, <1>13
  <2> HIDE DEF y, z, l
  <2>4. y = z
    BY <2>2, <2>3, CancelLeft
  <2>5. IsPrefix(x, v) \/ IsPrefix(v, x)
    <3> HIDE DEF a, x, v
    <3> QED BY <2>1, <2>3, <2>4, <1>9, <1>12, OneBegins DEF y, z
  <2>6. x = v
    BY <2>5, <1>1, <1>9, <1>14 DEF Told
  <2>7. Spelled(u[k], p) = L[k]
    BY <2>1, <2>6, <1>5, <1>11, <1>13
  <2> QED BY <2>6, <2>7
<1>15. CASE IsSign(x)
  <2>1. PICK h \in Holes : x = << h >>
    BY <1>15 DEF IsSign
  <2>2. ~IsPlain(x)
    <3>1. x[1] = h /\ Len(x) = 1
      BY <2>1
    <3>2. x \in Seq(Letter) => x[1] \in Letter
      BY <3>1
    <3> QED BY <3>1, <3>2, SlashIsNoHole DEF IsPlain, Letter
  <2>3. TakenFrom(path, t, h, p) /\ p[Param[h]] # <<>> /\ Spelled(x, p) = Letters(p[Param[h]])
    <3>1. TakenFrom(path, t, h, p) /\ p[Param[h]] # <<>>
      <4>1. s = t \o (<< h >> \o r)
        BY <2>1, <1>4
      <4> HIDE DEF t, s
      <4> QED BY <4>1, <1>2, <1>4, <1>6, HoleRead
    <3>2. p \in Params
      BY DEF Read
    <3> QED BY <3>1, <3>2, <2>1, SpelledHole
  <2>4. PICK a \in Seq(Characters), b \in Seq(Characters) :
          /\ path = a \o b /\ Letters(a) = Spelled(t, p)
          /\ p[Param[h]] = IF h \in CatchAlls THEN b ELSE Segment(b)
    BY <2>3 DEF TakenFrom
  <2>5. CASE h \in CatchAlls
    <3>1. IsOpen(x)
      BY <2>1, <2>5 DEF IsOpen
    <3>2. Letters(path) = Letters(a) \o Letters(b)
      BY <2>4, LettersConcat
    <3>3. Spelled(u[k], p) = Letters(path)
      BY <2>3, <2>4, <2>5, <3>2, <1>13
    <3>4. k = n
      <4> SUFFICES ASSUME k # n PROVE FALSE
        OBVIOUS
      <4> DEFINE e == k + 1
                 y == u[k]
                 z == d[e]
      <4>1. e \in 1 .. n /\ e - 1 = k
        BY <1>1
      <4>2. z \in Seq(Alphabet) /\ (IsPlain(z) \/ IsSign(z)) /\ y \in Seq(Alphabet)
        BY <4>1, <1>2 DEF IsPieces
      <4>3. PICK g \in Seq(Alphabet) : s = y \o (z \o g)
        <5>1. d \in Seq(Seq(Alphabet))
          BY DEF IsPieces
        <5>2. GoesOn(Alphabet, u[Len(d)], u[e - 1], d[e], u[e])
          <6> HIDE DEF e
          <6> QED BY <5>1, <4>1, StepsOn
        <5> QED BY <5>2, <4>1 DEF GoesOn
      <4>4. Spelled(y, p) = Letters(path)
        BY <3>3
      <4> HIDE DEF y, z, s
      <4> QED BY <4>2, <4>3, <4>4, <1>6, PieceTakes
    <3> QED BY <2>2, <3>1, <3>4
  <2>6. CASE h \notin CatchAlls
    <3>1. Segment(b) # <<>> /\ p[Param[h]] = Segment(b)
      BY <2>3, <2>4, <2>6
    <3>2. a \o b = q \o (<<Slash>> \o (v \o c)) /\ Letters(a) = Letters(q)
      BY <2>4, <1>5, <1>10
    <3>3. Segment(b) = v
      <4> HIDE DEF v
      <4>1. v \in Seq(Letter) /\ v # <<>> /\ (c = <<>> \/ Head(c) = Slash)
        BY <1>9, <1>10
      <4>2. c \in Seq(Characters) /\ q \in Seq(Characters) /\ a \in Seq(Characters) /\ b \in Seq(Characters)
        BY <1>10, <2>4
      <4> QED BY <3>1, <3>2, <4>1, <4>2, SegmentTaken
    <3>4. Letters(v) = v
      <4> HIDE DEF v
      <4> QED BY <1>9, LettersSame DEF Letter
    <3>5. Spelled(u[k], p) = L[k]
      BY <2>3, <3>1, <3>3, <3>4, <1>5, <1>11, <1>13
    <3> QED BY <2>2, <3>5
  <2> QED BY <2>5, <2>6
<1> QED BY <1>2, <1>14, <1>15

\* A pattern goes with the segments of a path, one piece to one, or all that
\* are left for the last.
Fits(d, segs) ==
  /\ Len(d) <= Len(segs)
  /\ Len(d) = Len(segs) \/ (Len(d) > 0 /\ IsOpen(d[Len(d)]))
  /\ \A i \in 1 .. Len(d) : IsPlain(d[i]) => d[i] = segs[i]

\* What is read from a path goes with its segments.
LEMMA ReadFits ==
  ASSUME NEW d, IsPieces(d), NEW u, Steps(Alphabet, d, u), NEW segs, IsSegments(segs), NEW L, NEW path,
         Segmented(path, segs, L), NEW p, Read(path, u[Len(d)], p), Told(d, segs)
  PROVE  Fits(d, segs)
<1> DEFINE n == Len(d)
           m == Len(segs)
           T == {j \in Nat : j <= n => Together(d, u, segs, L, p, j)}
<1>1. n \in Nat /\ m \in Nat
  BY DEF IsPieces, IsSegments
<1>2. 0 \in T
  <2>1. u[0] = <<>> /\ L[0] = <<>>
    BY DEF Steps, Segmented
  <2>2. <<>> \in Seq(Letter)
    BY Nothing
  <2>3. Spelled(u[0], p) = L[0]
    BY <2>1, <2>2, SpelledPlain
  <2> QED BY <2>3, <1>1 DEF Together
<1>3. ASSUME NEW j \in Nat, j \in T PROVE j + 1 \in T
  <2> SUFFICES ASSUME j + 1 <= n PROVE Together(d, u, segs, L, p, j + 1)
    OBVIOUS
  <2>1. j <= n /\ j + 1 \in 1 .. n
    BY <1>1
  <2> QED BY <2>1, <1>3, TogetherOn
<1>4. n \in T
  <2>1. T \in SUBSET Nat
    OBVIOUS
  <2> HIDE DEF T
  <2> QED BY <2>1, <1>1, <1>2, <1>3, Induction
<1>5. Together(d, u, segs, L, p, n)
  BY <1>1, <1>4
<1>6. n <= m /\ \A i \in 1 .. n : IsPlain(d[i]) => d[i] = segs[i]
  BY <1>5 DEF Together
<1>7. CASE n > 0 /\ IsOpen(d[n])
  BY <1>6, <1>7 DEF Fits
<1>8. CASE ~(n > 0 /\ IsOpen(d[n]))
  <2>1. L[n] = L[m]
    BY <1>5, <1>8 DEF Together, Segmented, Read
  <2>2. n = m
    <3> SUFFICES ASSUME n # m PROVE FALSE
      OBVIOUS
    <3> DEFINE k == n + 1
               x == L[n]
               y == segs[k]
    <3>1. k \in 1 .. m /\ k - 1 = n /\ n \in 0 .. m
      BY <1>1, <1>6
    <3>2. y \in Seq(Letter) /\ y # <<>>
      BY <3>1 DEF IsSegments
    <3>3. x \in Seq(Letter)
      BY <3>1 DEF Segmented, Steps
    <3>4. PICK w \in Seq(Letter) : L[m] = x \o (y \o w)
      <4>1. GoesOn(Letter, L[Len(segs)], L[k - 1], segs[k], L[k])
        <5>1. segs \in Seq(Seq(Letter)) /\ Steps(Letter, segs, L)
          BY DEF IsSegments, Segmented
        <5> HIDE DEF k
        <5> QED BY <5>1, <3>1, StepsOn
      <4> QED BY <4>1, <3>1 DEF GoesOn
    <3>5. x = x \o (y \o w)
      BY <2>1, <3>4
    <3> HIDE DEF x, y
    <3>6. Len(x \o (y \o w)) = Len(x) + (Len(y) + Len(w)) /\ Len(x) \in Nat /\ Len(y) \in Nat /\ Len(w) \in Nat
          /\ Len(y) # 0
      BY <3>2, <3>3, <3>4
    <3> QED BY <3>5, <3>6
  <2> QED BY <2>2, <1>6, <1>1 DEF Fits
<1> QED BY <1>7, <1>8

\* The pieces of the pattern of a file are those of its directories.
Pieces(file) == [i \in DOMAIN Place(file) |-> Normalize(Place(file)[i])]

\* What a directory puts into the pattern.
Made(dir) ==
  IF IsHole(dir) THEN /\ Braced[dir.name] \in Holes /\ Normalize(dir) = << Braced[dir.name] >>
                      /\ IsSign(Normalize(dir)) /\ ~IsPlain(Normalize(dir))
                 ELSE Normalize(dir) = dir.name /\ IsPlain(dir.name)

\* A sign is not a plain name.
LEMMA SignIsNotPlain == ASSUME NEW x, IsSign(x) PROVE ~IsPlain(x)
<1>1. PICK h \in Holes : x = << h >>
  BY DEF IsSign
<1>2. x[1] = h /\ Len(x) = 1
  BY <1>1
<1>3. x \in Seq(Letter) => x[1] \in Letter
  BY <1>2
<1> QED BY <1>2, <1>3, SlashIsNoHole DEF IsPlain, Letter

\* The pieces of a file's pattern.
LEMMA PlacePieces ==
  ASSUME NEW file \in ToSet(Files)
  PROVE  /\ IsPieces(Pieces(file)) /\ Len(Pieces(file)) = Len(Place(file)) /\ Len(Place(file)) \in Nat
         /\ DOMAIN Place(file) = 1 .. Len(Place(file))
         /\ \A i \in DOMAIN Place(file) : Pieces(file)[i] = Normalize(Place(file)[i]) /\ Made(Place(file)[i])
<1> DEFINE place == Place(file)
           d == Pieces(file)
           n == Len(place)
           api == [form |-> "plain", name |-> Api]
<1>1. file.dirs \in Seq(ToSet(file.dirs))
  BY FilesAssumption
<1>2. n \in Nat /\ DOMAIN place = 1 .. n /\ \A i \in 1 .. n : place[i] = api \/ place[i] \in ToSet(file.dirs)
  <2>1. CASE file.dirs = <<>> /\ file.base = "route.go"
    <3>1. place = << api >>
      BY <2>1 DEF Place
    <3> QED BY <3>1
  <2>2. CASE ~(file.dirs = <<>> /\ file.base = "route.go")
    <3>1. place = file.dirs
      BY <2>2 DEF Place
    <3> QED BY <3>1, <1>1
  <2> QED BY <2>1, <2>2
<1>3. ASSUME NEW i \in 1 .. n PROVE Made(place[i]) /\ Normalize(place[i]) \in Seq(Alphabet)
  <2> DEFINE dir == place[i]
  <2>1. CASE dir = api
    <3>1. ~IsHole(dir) /\ dir.name = Api
      BY <2>1 DEF IsHole
    <3>2. Api \in Seq(Letter) /\ Api # <<>>
      <4>1. "a" \in Letter /\ "p" \in Letter /\ "i" \in Letter
        BY SignsAssumption DEF Letter, Slash, Api, ToSet
      <4> QED BY <4>1 DEF Api
    <3> QED BY <3>1, <3>2, Letterwise DEF Made, Normalize, IsPlain
  <2>2. CASE dir \in ToSet(file.dirs)
    <3>1. IF IsHole(dir) THEN dir.name \in DOMAIN Braced
                         ELSE dir.name \in Seq(Characters \ {Slash}) \ {<<>>}
      BY <2>2, FilesAssumption
    <3> HIDE DEF dir
    <3>2. CASE IsHole(dir)
      <4> DEFINE h == Braced[dir.name]
      <4>1. h \in Holes /\ h \in Alphabet
        BY <3>1, <3>2, SignsAssumption, Letterwise
      <4>2. Normalize(dir) = << h >>
        BY <3>2 DEF Normalize
      <4> HIDE DEF h
      <4>3. IsSign(Normalize(dir))
        BY <4>1, <4>2 DEF IsSign
      <4>4. Normalize(dir) \in Seq(Alphabet)
        BY <4>1, <4>2
      <4> QED BY <3>2, <4>1, <4>2, <4>3, <4>4, SignIsNotPlain DEF Made, h, dir
    <3>3. CASE ~IsHole(dir)
      <4>1. Normalize(dir) = dir.name /\ dir.name \in Seq(Letter) /\ dir.name # <<>>
        BY <3>1, <3>3 DEF Normalize, Letter
      <4> QED BY <3>3, <4>1, Letterwise DEF Made, IsPlain, dir
    <3> QED BY <3>2, <3>3
  <2> QED BY <2>1, <2>2, <1>2
<1>4. d = [i \in 1 .. n |-> Normalize(place[i])]
  BY <1>2 DEF Pieces
<1> HIDE DEF d, n, place
<1>5. d \in Seq(Seq(Alphabet)) /\ Len(d) = n
  <2>1. d = [i \in 1 .. n |-> d[i]] /\ \A i \in 1 .. n : d[i] \in Seq(Alphabet)
    BY <1>3, <1>4
  <2> QED BY <2>1, <1>2, SeqOfItems
<1>6. \A i \in 1 .. n : IsPlain(d[i]) \/ IsSign(d[i])
  BY <1>3, <1>4 DEF Made
<1>7. IsPieces(d)
  BY <1>5, <1>6 DEF IsPieces
<1> QED BY <1>2, <1>3, <1>4, <1>5, <1>7 DEF d, n, place

\* The letters of a file's pattern are put together from its pieces.
LEMMA PatternSteps ==
  ASSUME NEW file \in ToSet(Files)
  PROVE  \E u : Steps(Alphabet, Pieces(file), u) /\ u[Len(Pieces(file))] = Letters(Pattern(file))
<1> DEFINE d == Pieces(file)
           n == Len(d)
           w == Slashed(d)
<1>1. IsPieces(d) /\ n = Len(Place(file)) /\ n \in Nat /\ DOMAIN Place(file) = 1 .. n
      /\ \A i \in 1 .. n : d[i] = Normalize(Place(file)[i])
  BY PlacePieces
<1>2. d \in Seq(Seq(Signs \ {Slash})) /\ Slash \in Signs
  BY <1>1, SlashIsNoHole DEF IsPieces, Alphabet, Signs
<1> HIDE DEF d, n
<1>3. /\ w \in Seq(Seq(Signs)) /\ Len(w) = n
      /\ \A i \in 1 .. n : w[i] = <<Slash>> \o d[i]
      /\ \A f : Steps(Signs, w, f) => Steps(Alphabet, d, [i \in 0 .. n |-> Letters(f[i])])
  BY <1>2, SlashedSteps DEF n, Alphabet
<1> HIDE DEF w
<1>4. PICK f : Steps(Signs, w, f) /\ FlattenSeq(w) = f[n]
  BY <1>3, StepsOf
<1> DEFINE u == [i \in 0 .. n |-> Letters(f[i])]
<1>5. Steps(Alphabet, d, u)
  BY <1>3, <1>4
<1>6. u[n] = Letters(FlattenSeq(w))
  BY <1>1, <1>4
<1> HIDE DEF u
<1>7. Letters(FlattenSeq(w)) = Letters(Pattern(file))
  <2>1. CASE file.dirs = <<>> /\ file.base # "route.go"
    <3>1. Place(file) = <<>> /\ Pattern(file) = <<Slash>>
      BY <2>1 DEF Place, Pattern
    <3>2. n = 0
      BY <3>1, <1>1
    <3>3. FlattenSeq(w) = <<>>
      BY <3>2, <1>4 DEF Steps
    <3> QED BY <3>1, <3>3, LettersFew
  <2>2. CASE file.dirs = <<>> /\ file.base = "route.go"
    <3> DEFINE api == [form |-> "plain", name |-> Api]
    <3>1. Place(file) = << api >> /\ Pattern(file) = <<Slash>> \o Api
      BY <2>2 DEF Place, Pattern
    <3>2. n = 1 /\ d[1] = Api
      <4>1. Normalize(api) = Api
        BY DEF Normalize, IsHole
      <4> QED BY <3>1, <4>1, <1>1
    <3>3. f[1] = f[0] \o w[1] /\ f[0] = <<>> /\ w[1] = <<Slash>> \o Api /\ w[1] \in Seq(Signs)
      <4>1. Len(w) = 1 /\ 1 \in 1 .. n /\ 1 - 1 = 0
        BY <3>2, <1>3
      <4>2. f[1] = f[1 - 1] \o w[1] /\ f[0] = <<>>
        BY <4>1, <1>4 DEF Steps
      <4>3. w[1] = <<Slash>> \o d[1] /\ w[1] \in Seq(Signs)
        BY <4>1, <1>3
      <4> QED BY <4>1, <4>2, <4>3, <3>2
    <3> DEFINE x == w[1]
    <3> HIDE DEF x
    <3>4. x \in Seq(Signs)
      BY <3>3 DEF x
    <3>5. <<>> \o x = x
      BY <3>4
    <3>6. FlattenSeq(w) = Pattern(file)
      BY <3>1, <3>2, <3>3, <3>5, <1>4 DEF x
    <3> QED BY <3>6
  <2>3. CASE file.dirs # <<>>
    <3>1. Place(file) = file.dirs
      BY <2>3 DEF Place
    <3>2. w = [i \in DOMAIN file.dirs |-> <<Slash>> \o Normalize(file.dirs[i])]
      BY <3>1 DEF w, Slashed, d, Pieces
    <3> QED BY <2>3, <3>2 DEF Pattern
  <2> QED BY <2>1, <2>2, <2>3
<1> QED BY <1>5, <1>6, <1>7 DEF d, n

\* What goes with the segments of a path matches them.
LEMMA FitsMatch ==
  ASSUME NEW file \in ToSet(Files), NEW segs, Fits(Pieces(file), segs)
  PROVE  Matches(file, segs)
<1> DEFINE place == Place(file)
           d == Pieces(file)
           n == Len(place)
<1>1. n \in Nat /\ DOMAIN place = 1 .. n /\ Len(d) = n /\ \A i \in 1 .. n : d[i] = Normalize(place[i]) /\ Made(place[i])
  BY PlacePieces
<1>2. n <= Len(segs) /\ (n = Len(segs) \/ (n > 0 /\ IsOpen(d[n]))) /\ \A i \in 1 .. n : IsPlain(d[i]) => d[i] = segs[i]
  BY <1>1 DEF Fits
<1>3. ASSUME NEW i \in DOMAIN place PROVE IsHole(place[i]) \/ place[i].name = segs[i]
  BY <1>1, <1>2 DEF Made
<1>4. ASSUME n > 0, IsOpen(d[n]) PROVE EndsOpen(place)
  <2>1. n \in 1 .. n
    BY <1>1, <1>4
  <2> DEFINE dir == place[n]
             x == d[n]
  <2>2. x = Normalize(dir) /\ Made(dir)
    BY <1>1, <2>1
  <2> HIDE DEF dir
  <2>3. PICK h \in Holes \cap CatchAlls : x = << h >>
    BY <1>4 DEF IsOpen
  <2>4. IsSign(x)
    BY <2>3 DEF IsSign
  <2>5. IsHole(dir) /\ x = << Braced[dir.name] >>
    BY <2>2, <2>4, SignIsNotPlain DEF Made
  <2>6. Braced[dir.name] = h
    BY <2>3, <2>5
  <2>7. IsRest(dir)
    BY <2>3, <2>5, <2>6 DEF IsRest
  <2>8. place # <<>> /\ Last(place) = dir
    <3>1. Len(<<>>) = 0
      OBVIOUS
    <3> QED BY <3>1, <1>4 DEF Last, dir
  <2> HIDE DEF place
  <2> QED BY <2>7, <2>8 DEF EndsOpen
<1> HIDE DEF place, n, d
<1>5. EndsOpen(place) => Len(segs) >= n
  BY <1>2, <1>1
<1>6. ~EndsOpen(place) => Len(segs) = n
  BY <1>2, <1>4
<1> QED BY <1>3, <1>5, <1>6 DEF Matches, place, n

\* What Lookup finds was read from the path.
LEMMA LookupReads ==
  ASSUME TreeSpelled, StaticMap, Orderly, NEW path \in Seq(Characters), Lookup(path).route # 0
  PROVE  LET found == Lookup(path)
         IN  found.route \in DOMAIN routes /\ Read(path, Letters(Pattern(routes[found.route])), found.params)
<1> DEFINE found == Lookup(path)
           s == Letters(Pattern(routes[found.route]))
<1>1. SpellsPath(path, found)
  BY LookupAnswers
<1>2. found.route \in DOMAIN routes /\ Spelled(s, found.params) = Letters(path) /\ Valued(s, found.params)
  BY <1>1 DEF SpellsPath
<1>3. s \in Seq(Alphabet)
  BY <1>2, RouteLetters DEF TreeSpelled
<1>4. found.params \in Params /\ Taken(path, s, found.params)
  <2>1. CASE path \in DOMAIN static
    <3> DEFINE i == static[path]
    <3>1. i \in DOMAIN routes /\ Pattern(routes[i]) = path /\ ~IsDynamic(path)
      BY <2>1 DEF StaticMap
    <3>2. found.route = i /\ found.params = Unbound
      BY <2>1 DEF Lookup, Result
    <3>3. Unbound \in Params
      BY Nothing DEF Unbound, Params
    <3>4. ToSet(Letters(path)) \cap Holes = {}
      BY LettersHoleless
    <3>5. s = Letters(path)
      BY <3>1, <3>2
    <3> HIDE DEF s, found, i
    <3>6. \A i1 \in DOMAIN s : s[i1] \notin Holes
      BY <3>4, <3>5 DEF ToSet
    <3> QED BY <3>2, <3>3, <3>6 DEF Taken
  <2>2. CASE path \notin DOMAIN static
    <3>1. found = SearchTree(path)
      BY <2>2 DEF Lookup
    <3>2. SearchTree(path) \in Results
      <4>1. Answers(Enter(1, path, Unbound), SearchTree(path))
        BY SearchTreeAnswers DEF TreeSpelled
      <4> QED BY <4>1 DEF Answers
    <3>3. found.params \in Params
      BY <3>1, <3>2, ResultFields
    <3>4. Taken(path, Letters(Pattern(routes[SearchTree(path).route])), SearchTree(path).params)
      BY <3>1, SearchTreeTakes DEF TreeSpelled
    <3> QED BY <3>1, <3>3, <3>4
  <2> QED BY <2>1, <2>2
<1> HIDE DEF found, s
<1>5. Read(path, s, found.params)
  BY <1>2, <1>3, <1>4 DEF Read
<1> QED BY <1>2, <1>5 DEF found, s

\* Segments that are requested.
LEMMA RequestedType ==
  ASSUME NEW segs \in Requested
  PROVE  segs \in Seq(Seq(Letter) \ {<<>>}) /\ IsSegments(segs) /\ DOMAIN segs = 1 .. Len(segs)
<1>1. PICK m \in 0 .. MaxDepth : segs \in [1 .. m -> Words]
  BY DEF Requested, BoundedSeq, SeqOf
<1>2. Words \subseteq Seq(Letter) \ {<<>>} /\ MaxDepth \in Nat
  BY SignsAssumption DEF Letter
<1>3. segs \in Seq(Seq(Letter) \ {<<>>})
  BY <1>1, <1>2
<1>4. \A k \in 1 .. Len(segs) : segs[k] \in Seq(Letter) /\ segs[k] # <<>>
  BY <1>3
<1>5. segs \in Seq(Seq(Letter))
  BY <1>3
<1> QED BY <1>3, <1>4, <1>5 DEF IsSegments

\* What Lookup finds for a path whose segments cannot be taken for others matches it.
LEMMA LookupMatches ==
  ASSUME TreeSpelled, StaticMap, Orderly, NEW segs \in Requested, Unmistakable(segs),
         Lookup(Path(segs)).route # 0
  PROVE  Matches(routes[Lookup(Path(segs)).route], segs)
<1> DEFINE path == Path(segs)
           found == Lookup(path)
           file == routes[found.route]
           d == Pieces(file)
<1>1. segs \in Seq(Seq(Letter) \ {<<>>}) /\ IsSegments(segs) /\ DOMAIN segs = 1 .. Len(segs)
  BY RequestedType
<1>2. path \in Seq(Characters)
  BY PathType
<1> HIDE DEF path
<1>3. found.route \in DOMAIN routes /\ Read(path, Letters(Pattern(file)), found.params)
  BY <1>2, LookupReads DEF path
<1>4. file \in ToSet(routes) /\ file \in ToSet(Files)
  <2>1. routes \in Seq({g \in ToSet(Files) : ~IsPrivate(g)})
    BY DEF TreeSpelled, TypeOK
  <2> QED BY <2>1, <1>3 DEF ToSet
<1> HIDE DEF found, file
<1>5. IsPieces(d) /\ Len(d) = Len(Place(file)) /\ DOMAIN Place(file) = 1 .. Len(d)
      /\ \A i \in 1 .. Len(d) : d[i] = Normalize(Place(file)[i]) /\ Made(Place(file)[i])
  BY <1>4, PlacePieces
<1>6. Told(d, segs)
  <2> SUFFICES ASSUME NEW i \in 1 .. Len(d), NEW k \in 1 .. Len(segs), IsPlain(d[i])
               PROVE  d[i] = segs[k] \/ ~(IsPrefix(d[i], segs[k]) \/ IsPrefix(segs[k], d[i]))
    BY DEF Told
  <2>1. ~IsHole(Place(file)[i]) /\ d[i] = Place(file)[i].name
    BY <1>5 DEF Made
  <2> HIDE DEF d
  <2> QED BY <2>1, <1>1, <1>4, <1>5 DEF Unmistakable
<1>7. PICK u : Steps(Alphabet, d, u) /\ u[Len(d)] = Letters(Pattern(file))
  BY <1>4, PatternSteps
<1>8. PICK L : Segmented(path, segs, L)
  BY <1>1, PathSegmented DEF path
<1>9. Fits(d, segs)
  <2>1. Read(path, u[Len(d)], found.params)
    BY <1>3, <1>7
  <2> HIDE DEF d
  <2> QED BY <2>1, <1>1, <1>5, <1>6, <1>7, <1>8, ReadFits
<1>10. Matches(file, segs)
  BY <1>4, <1>9, FitsMatch
<1> QED BY <1>10 DEF file, found, path

\* A route that Lookup finds is a public one, its pattern with the parameters'
\* values has the letters of the path, no value is empty or, short of the rest
\* of the path, has a slash, and a path whose segments cannot be taken for
\* others is matched one by one (router.go:244-250, radix.go:160-217).
THEOREM LookupIsSound == Spec => []LookupSound
<1>1. TreeSpelled /\ StaticMap => LookupSound
  <2> SUFFICES ASSUME TreeSpelled, StaticMap, Orderly, NEW segs \in Requested,
                      Lookup(Path(segs)).route # 0
               PROVE  LET found == Lookup(Path(segs))
                          letters == Letters(Pattern(routes[found.route]))
                      IN  /\ found.route \in DOMAIN routes /\ ~IsPrivate(routes[found.route])
                          /\ Spelled(letters, found.params) = Letters(Path(segs))
                          /\ \A hole \in ToSet(letters) \cap Holes :
                               /\ found.params[Param[hole]] # <<>>
                               /\ hole \in CatchAlls \/ ~Contains(found.params[Param[hole]], Slash)
                          /\ Unmistakable(segs) => Matches(routes[found.route], segs)
    BY DEF LookupSound
  <2> DEFINE path == Path(segs)
             found == Lookup(path)
  <2>1. path \in Seq(Characters)
    BY PathType
  <2>2. SpellsPath(path, found)
    <3> HIDE DEF path
    <3> QED BY <2>1, LookupAnswers
  <2>3. Unmistakable(segs) => Matches(routes[found.route], segs)
    BY LookupMatches
  <2> HIDE DEF path, found
  <2>4. found.route # 0
    BY DEF found, path
  <2>5. found.route \in DOMAIN routes
    BY <2>2, <2>4 DEF SpellsPath
  <2>6. ~IsPrivate(routes[found.route])
    <3>1. routes \in Seq({file \in ToSet(Files) : ~IsPrivate(file)})
      BY DEF TreeSpelled, TypeOK
    <3> QED BY <3>1, <2>5
  <2> QED BY <2>2, <2>3, <2>4, <2>5, <2>6 DEF SpellsPath, Valued, found, path
<1> QED BY <1>1, TreeIsSpelled, StaticMapHolds, PTL

=============================================================================
