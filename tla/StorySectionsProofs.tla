------------------------- MODULE StorySectionsProofs -------------------------
(***************************************************************************)
(* What segmentation computes, for every text.                             *)
(*                                                                         *)
(* A recursive function is the choice of one that satisfies its equation:  *)
(* that there is one is proved first, for every recursion whose argument   *)
(* gets smaller.  Induction is over sets of naturals.                      *)
(***************************************************************************)
EXTENDS StorySections, FiniteSetTheorems, SequenceTheorems, TLAPS

-----------------------------------------------------------------------------
(* Induction and recursion.                                                *)

(* A set that has every number below which it has all numbers has them all. *)
LEMMA Induction ==
  ASSUME NEW S, \A n \in Nat : (\A k \in 0..(n - 1) : k \in S) => n \in S
  PROVE  \A n \in Nat : n \in S
<1> SUFFICES ASSUME NEW n \in Nat, n \notin S PROVE FALSE
  OBVIOUS
<1> DEFINE bad == {k \in 0..n : k \notin S}
           below(k) == 1..k
           family == {below(k) : k \in bad}
           R == StrictSubsetOrdering(1..n)
<1>1. \A k \in bad : k \in Nat /\ below(k) \in FiniteSubsetsOf(1..n)
  BY FS_Interval DEF FiniteSubsetsOf
<1>2. family # {}
  <2>1. n \in bad
    OBVIOUS
  <2> QED BY <2>1
<1>3. PICK x \in family : \A y \in family : <<y, x>> \notin R
  <2>1. family \subseteq FiniteSubsetsOf(1..n)
    BY <1>1
  <2>2. IsWellFoundedOn(R, FiniteSubsetsOf(1..n))
    BY FS_StrictSubsetOrderingWellFounded
  <2> HIDE DEF family, R
  <2> QED BY <1>2, <2>1, <2>2, WFMin
<1>4. PICK m \in bad : x = below(m)
  BY <1>3
<1>5. ASSUME NEW k \in 0..(m - 1) PROVE k \in S
  <2> SUFFICES ASSUME k \notin S PROVE FALSE
    OBVIOUS
  <2>1. k \in bad /\ m \in 0..n /\ k \in Nat /\ k < m
    BY <1>1, <1>5
  <2>a. below(k) \in family
    BY <2>1
  <2>2. below(k) \subseteq below(m)
    BY <2>1
  <2>3. m \in below(m) /\ m \notin below(k)
    BY <2>1
  <2>4. below(k) # below(m)
    BY <2>3
  <2>5. below(k) \in SUBSET (1..n) /\ below(m) \in SUBSET (1..n)
    BY <1>1, <1>4, <2>1 DEF FiniteSubsetsOf
  <2>6. <<below(k), below(m)>> \in R
    BY <2>2, <2>4, <2>5 DEF StrictSubsetOrdering
  <2> QED BY <1>3, <1>4, <2>a, <2>6
<1> QED BY <1>1, <1>4, <1>5

(* The recursion that ends on Base with base, and otherwise combines the   *)
(* argument with the result for the next one.                              *)
Body(Base, base, next, combine, f, t) ==
  IF t \in Base THEN base[t] ELSE combine[<<t, f[next[t]]>>]

Recursive(S, V, size, Base, base, next, combine) ==
  /\ size \in [S -> Nat] /\ base \in [Base -> V] /\ next \in [S \ Base -> S]
  /\ combine \in [(S \ Base) \X V -> V]
  /\ \A t \in S \ Base : size[next[t]] < size[t]

(* What satisfies its equation on arguments below n.                       *)
Solves(S, size, Base, base, next, combine, f, n) ==
  \A t \in S : size[t] < n => f[t] = Body(Base, base, next, combine, f, t)

(* Two solutions agree where both are.                                     *)
LEMMA RecursionUnique ==
  ASSUME NEW S, NEW V, NEW size, NEW Base, NEW base, NEW next, NEW combine,
         Recursive(S, V, size, Base, base, next, combine),
         NEW f, NEW g, NEW n \in Nat, NEW m \in Nat,
         Solves(S, size, Base, base, next, combine, f, n),
         Solves(S, size, Base, base, next, combine, g, m)
  PROVE  \A t \in S : size[t] < n /\ size[t] < m => f[t] = g[t]
<1> DEFINE Good == {k \in Nat : \A t \in S : size[t] = k /\ k < n /\ k < m => f[t] = g[t]}
<1>1. ASSUME NEW k \in Nat, \A j \in 0..(k - 1) : j \in Good
      PROVE  k \in Good
  <2> SUFFICES ASSUME NEW t \in S, size[t] = k, k < n, k < m PROVE f[t] = g[t]
    OBVIOUS
  <2>1. /\ f[t] = Body(Base, base, next, combine, f, t)
        /\ g[t] = Body(Base, base, next, combine, g, t)
    BY DEF Solves
  <2>2. CASE t \in Base
    BY <2>1, <2>2 DEF Body
  <2>3. CASE t \notin Base
    <3>1. next[t] \in S /\ size[next[t]] \in Nat /\ size[next[t]] < k
      BY <2>3 DEF Recursive
    <3>2. size[next[t]] \in Good
      BY <1>1, <3>1
    <3>3. f[next[t]] = g[next[t]]
      BY <3>1, <3>2
    <3> QED BY <2>1, <2>3, <3>3 DEF Body
  <2> QED BY <2>2, <2>3
<1> HIDE DEF Good
<1>2. \A k \in Nat : k \in Good
  BY <1>1, Induction
<1> USE DEF Good
<1> QED BY <1>2 DEF Recursive

(* There is a solution below every number.                                 *)
Below(S, size, n) == {t \in S : size[t] < n}
LEMMA RecursionBelow ==
  ASSUME NEW S, NEW V, NEW size, NEW Base, NEW base, NEW next, NEW combine,
         Recursive(S, V, size, Base, base, next, combine)
  PROVE  \A n \in Nat : \E f \in [Below(S, size, n) -> V] :
           Solves(S, size, Base, base, next, combine, f, n)
<1> DEFINE D(n) == Below(S, size, n)
           Fits(f, n) == f \in [D(n) -> V] /\ Solves(S, size, Base, base, next, combine, f, n)
           Good == {n \in Nat : \E f : Fits(f, n)}
<1>1. ASSUME NEW n \in Nat, \A k \in 0..(n - 1) : k \in Good
      PROVE  n \in Good
  <2>1. CASE n = 0
    <3>1. D(n) = {}
      BY <2>1 DEF Below, Recursive
    <3>2. Fits([t \in {} |-> t], n)
      BY <2>1, <3>1 DEF Solves, Below
    <3> QED BY <3>2
  <2>2. CASE n # 0
    <3>1. n - 1 \in Good /\ n - 1 \in Nat
      BY <1>1, <2>2
    <3>2. PICK f : Fits(f, n - 1)
      BY <3>1
    <3> DEFINE g == [t \in D(n) |-> Body(Base, base, next, combine, f, t)]
    <3>3. ASSUME NEW t \in D(n)
          PROVE  g[t] \in V /\ g[t] = Body(Base, base, next, combine, g, t)
      <4>1. CASE t \in Base
        BY <4>1 DEF Body, Recursive
      <4>2. CASE t \notin Base
        <5>1. t \in S \ Base /\ next[t] \in D(n - 1) /\ next[t] \in D(n)
          BY <3>1, <4>2 DEF Recursive, Below
        <5>2. f[next[t]] \in V
          BY <3>2, <5>1
        <5>3. g[t] = combine[<<t, f[next[t]]>>]
          BY <4>2 DEF Body
        <5>4. g[next[t]] = f[next[t]]
          BY <3>2, <5>1 DEF Solves, Below
        <5>5. g[t] \in V
          BY <5>1, <5>2, <5>3 DEF Recursive
        <5> QED BY <4>2, <5>3, <5>4, <5>5 DEF Body
      <4> QED BY <4>1, <4>2
    <3>4. Fits(g, n)
      BY <3>3 DEF Solves, Below
    <3> QED BY <3>4
  <2> QED BY <2>1, <2>2
<1> HIDE DEF Good
<1>2. \A n \in Nat : n \in Good
  BY <1>1, Induction
<1> USE DEF Good
<1> QED BY <1>2

(* So there is one for all arguments.                                      *)
LEMMA RecursionDefines ==
  ASSUME NEW S, NEW V, NEW size, NEW Base, NEW base, NEW next, NEW combine,
         Recursive(S, V, size, Base, base, next, combine)
  PROVE  \E f \in [S -> V] : \A t \in S : f[t] = Body(Base, base, next, combine, f, t)
<1> DEFINE Fits(f, n) == /\ f \in [Below(S, size, n) -> V]
                         /\ Solves(S, size, Base, base, next, combine, f, n)
           approx(n) == CHOOSE f : Fits(f, n)
           F == [t \in S |-> approx(size[t] + 1)[t]]
<1>1. \A n \in Nat : Fits(approx(n), n)
  BY RecursionBelow
<1>2. ASSUME NEW t \in S
      PROVE  F[t] \in V /\ F[t] = Body(Base, base, next, combine, F, t)
  <2> DEFINE n == size[t] + 1
  <2>1. n \in Nat /\ size[t] \in Nat /\ size[t] < n
    BY DEF Recursive
  <2>2. F[t] = approx(n)[t] /\ Fits(approx(n), n)
    BY <1>1, <2>1
  <2>3. F[t] \in V /\ F[t] = Body(Base, base, next, combine, approx(n), t)
    BY <2>1, <2>2 DEF Solves, Below
  <2>4. CASE t \in Base
    BY <2>3, <2>4 DEF Body
  <2>5. CASE t \notin Base
    <3> DEFINE u == next[t]
               m == size[u] + 1
    <3>1. u \in S /\ size[u] \in Nat /\ m \in Nat /\ size[u] < m /\ size[u] < n
      BY <2>1, <2>5 DEF Recursive
    <3>2. F[u] = approx(m)[u] /\ Fits(approx(m), m)
      BY <1>1, <3>1
    <3>3. approx(m)[u] = approx(n)[u]
      <4> HIDE DEF m, n, approx, u
      <4> QED BY <2>1, <2>2, <3>1, <3>2, RecursionUnique
    <3> HIDE DEF F, approx, n, m
    <3> QED BY <2>3, <2>5, <3>2, <3>3 DEF Body
  <2> QED BY <2>4, <2>5
<1>3. F \in [S -> V]
  <2>1. \A t \in S : F[t] \in V
    BY <1>2
  <2> HIDE DEF approx
  <2> QED BY <2>1
<1> HIDE DEF F
<1> QED BY <1>2, <1>3

-----------------------------------------------------------------------------
(* Total is the sum of a sequence of naturals.                             *)

LEMMA TotalEquation ==
  Total = [s \in Seq(Nat) |-> IF s = <<>> THEN 0 ELSE Head(s) + Total[Tail(s)]]
<1> DEFINE S == Seq(Nat)
           size == [s \in S |-> Len(s)]
           Base == {<<>>}
           base == [s \in Base |-> 0]
           next == [s \in S \ Base |-> Tail(s)]
           combine == [x \in (S \ Base) \X Nat |-> Head(x[1]) + x[2]]
<1>1. Recursive(S, Nat, size, Base, base, next, combine)
  <2>1. \A s \in S \ Base : Tail(s) \in S /\ Len(Tail(s)) < Len(s) /\ Head(s) \in Nat
    BY HeadTailProperties, LenProperties
  <2>2. \A x \in (S \ Base) \X Nat : Head(x[1]) + x[2] \in Nat
    BY <2>1
  <2>3. <<>> \in S
    OBVIOUS
  <2> QED BY <2>1, <2>2, <2>3, LenProperties DEF Recursive
<1>2. PICK f \in [S -> Nat] : \A t \in S : f[t] = Body(Base, base, next, combine, f, t)
  <2> HIDE DEF S, size, Base, base, next, combine
  <2> QED BY <1>1, RecursionDefines
<1>3. f = [s \in Seq(Nat) |-> IF s = <<>> THEN 0 ELSE Head(s) + f[Tail(s)]]
  <2>1. ASSUME NEW s \in S
        PROVE  f[s] = IF s = <<>> THEN 0 ELSE Head(s) + f[Tail(s)]
    <3>1. CASE s = <<>>
      BY <1>2, <3>1 DEF Body
    <3>2. CASE s # <<>>
      <4>1. Tail(s) \in S /\ <<s, f[Tail(s)]>> \in (S \ Base) \X Nat
        BY <3>2, HeadTailProperties
      <4>2. f[s] = combine[<<s, f[next[s]]>>] /\ next[s] = Tail(s)
        BY <1>2, <3>2 DEF Body
      <4> QED BY <3>2, <4>1, <4>2
    <3> QED BY <3>1, <3>2
  <2> QED BY <2>1
<1>4. Total = CHOOSE g : g = [s \in Seq(Nat) |-> IF s = <<>> THEN 0 ELSE Head(s) + g[Tail(s)]]
  BY Zenon DEF Total
<1> QED BY <1>3, <1>4, Zenon

LEMMA TotalTyped ==
  /\ Total[<<>>] = 0
  /\ \A s \in Seq(Nat) : Total[s] \in Nat
  /\ \A s \in Seq(Nat) : s # <<>> => Total[s] = Head(s) + Total[Tail(s)]
<1>1. \A s \in Seq(Nat) : Total[s] = IF s = <<>> THEN 0 ELSE Head(s) + Total[Tail(s)]
  BY TotalEquation, Zenon
<1> DEFINE Good == {n \in Nat : \A s \in Seq(Nat) : Len(s) = n => Total[s] \in Nat}
<1>2. ASSUME NEW n \in Nat, \A k \in 0..(n - 1) : k \in Good
      PROVE  n \in Good
  <2> SUFFICES ASSUME NEW s \in Seq(Nat), Len(s) = n PROVE Total[s] \in Nat
    OBVIOUS
  <2>1. CASE s = <<>>
    BY <1>1, <2>1
  <2>2. CASE s # <<>>
    <3>1. Tail(s) \in Seq(Nat) /\ Len(Tail(s)) = n - 1 /\ n # 0 /\ Head(s) \in Nat
      BY <2>2, HeadTailProperties, LenProperties
    <3>2. n - 1 \in Good
      BY <1>2, <3>1
    <3>3. Total[Tail(s)] \in Nat
      BY <3>1, <3>2
    <3>4. Total[s] = Head(s) + Total[Tail(s)]
      BY <1>1, <2>2
    <3> QED BY <3>1, <3>3, <3>4
  <2> QED BY <2>1, <2>2
<1> HIDE DEF Good
<1>3. \A n \in Nat : n \in Good
  BY <1>2, Induction
<1>4. ASSUME NEW s \in Seq(Nat) PROVE Total[s] \in Nat
  <2>1. Len(s) \in Good
    BY <1>3, LenProperties
  <2> QED BY <2>1 DEF Good
<1>5. Total[<<>>] = 0
  <2>1. <<>> \in Seq(Nat)
    OBVIOUS
  <2> QED BY <1>1, <2>1
<1>6. ASSUME NEW s \in Seq(Nat), s # <<>> PROVE Total[s] = Head(s) + Total[Tail(s)]
  BY <1>1, <1>6
<1> QED BY <1>4, <1>5, <1>6

LEMMA TotalConcat ==
  \A s, t \in Seq(Nat) : Total[s \o t] = Total[s] + Total[t]
<1> DEFINE Good == {n \in Nat : \A s, t \in Seq(Nat) :
                                  Len(s) = n => Total[s \o t] = Total[s] + Total[t]}
<1>1. ASSUME NEW n \in Nat, \A k \in 0..(n - 1) : k \in Good
      PROVE  n \in Good
  <2> SUFFICES ASSUME NEW s \in Seq(Nat), NEW t \in Seq(Nat), Len(s) = n
               PROVE  Total[s \o t] = Total[s] + Total[t]
    OBVIOUS
  <2>1. CASE s = <<>>
    BY <2>1, TotalTyped, ConcatEmptySeq
  <2>2. CASE s # <<>>
    <3>1. Tail(s) \in Seq(Nat) /\ Len(Tail(s)) = n - 1 /\ n # 0 /\ Head(s) \in Nat
      BY <2>2, HeadTailProperties, LenProperties
    <3>a. n - 1 \in Good
      BY <1>1, <3>1
    <3>2. Total[Tail(s) \o t] = Total[Tail(s)] + Total[t]
      BY <3>1, <3>a
    <3>3. /\ s \o t \in Seq(Nat) /\ s \o t # <<>>
          /\ Head(s \o t) = Head(s) /\ Tail(s \o t) = Tail(s) \o t
      BY <2>2
    <3>4. /\ Total[s \o t] = Head(s) + Total[Tail(s) \o t]
          /\ Total[s] = Head(s) + Total[Tail(s)]
      BY <2>2, <3>3, TotalTyped
    <3>5. Total[Tail(s)] \in Nat /\ Total[t] \in Nat
      BY <3>1, TotalTyped
    <3> QED BY <3>1, <3>2, <3>4, <3>5
  <2> QED BY <2>1, <2>2
<1> HIDE DEF Good
<1>2. \A n \in Nat : n \in Good
  BY <1>1, Induction
<1>3. ASSUME NEW s \in Seq(Nat), NEW t \in Seq(Nat)
      PROVE  Total[s \o t] = Total[s] + Total[t]
  <2>1. Len(s) \in Good
    BY <1>2, LenProperties
  <2> QED BY <2>1 DEF Good
<1> QED BY <1>3

-----------------------------------------------------------------------------
(* FlattenSeq appends the sequences one after the other.                   *)

Flattens(ss, n, f) ==
  /\ f[1] = ss[1]
  /\ \A i \in 2..n : f[i] = f[i - 1] \o ss[i]

LEMMA FlattenDefined ==
  ASSUME NEW S, NEW ss \in Seq(Seq(S)), ss # <<>>
  PROVE  \E f \in [1..Len(ss) -> Seq(S)] : Flattens(ss, Len(ss), f) /\ FlattenSeq(ss) = f[Len(ss)]
<1> DEFINE n == Len(ss)
           D == 1..n
           size == [i \in D |-> i]
           Base == {1}
           base == [i \in Base |-> ss[1]]
           next == [i \in D \ Base |-> i - 1]
           combine == [x \in (D \ Base) \X Seq(S) |-> x[2] \o ss[x[1]]]
<1>1. n \in Nat /\ n >= 1 /\ \A i \in D : ss[i] \in Seq(S)
  BY LenProperties, EmptySeq
<1>2. Recursive(D, Seq(S), size, Base, base, next, combine)
  <2>1. \A i \in D \ Base : i - 1 \in D /\ i - 1 < i
    BY <1>1
  <2>2. \A x \in (D \ Base) \X Seq(S) : x[2] \o ss[x[1]] \in Seq(S)
    BY <1>1
  <2>3. ss[1] \in Seq(S)
    BY <1>1
  <2> QED BY <1>1, <2>1, <2>2, <2>3 DEF Recursive
<1>3. PICK f \in [D -> Seq(S)] : \A i \in D : f[i] = Body(Base, base, next, combine, f, i)
  <2> HIDE DEF D, size, Base, base, next, combine
  <2> QED BY <1>2, RecursionDefines
<1>5. f = [i \in D |-> IF i = 1 THEN ss[i] ELSE f[i - 1] \o ss[i]]
  <2>1. ASSUME NEW i \in D
        PROVE  f[i] = IF i = 1 THEN ss[i] ELSE f[i - 1] \o ss[i]
    <3>1. CASE i = 1
      BY <1>3, <3>1 DEF Body
    <3>2. CASE i # 1
      <4>1. <<i, f[i - 1]>> \in (D \ Base) \X Seq(S)
        <5>1. i - 1 \in D
          BY <1>1, <3>2
        <5> HIDE DEF D
        <5>2. f[i - 1] \in Seq(S)
          BY <5>1
        <5> QED BY <3>2, <5>2
      <4>2. next[i] = i - 1
        BY <3>2
      <4>3. f[i] = combine[<<i, f[next[i]]>>]
        <5> HIDE DEF D, size, base, next, combine
        <5> QED BY <1>3, <3>2 DEF Body
      <4>4. \A x \in (D \ Base) \X Seq(S) : combine[x] = x[2] \o ss[x[1]]
        BY Zenon
      <4> HIDE DEF D, Base, next, combine
      <4> QED BY <3>2, <4>1, <4>2, <4>3, <4>4
    <3> QED BY <3>1, <3>2
  <2> QED BY <2>1
<1> DEFINE c == CHOOSE g : g = [i \in D |-> IF i = 1 THEN ss[i] ELSE g[i - 1] \o ss[i]]
<1>6. c = [i \in D |-> IF i = 1 THEN ss[i] ELSE c[i - 1] \o ss[i]]
  BY <1>5, Zenon
<1>7. FlattenSeq(ss) = c[n]
  <2>1. Len(ss) # 0
    BY <1>1
  <2> QED BY <2>1, Zenon DEF FlattenSeq
<1> HIDE DEF c
<1>8. c \in [D -> Seq(S)]
  <2> DEFINE Good == {k \in Nat : k \in D => c[k] \in Seq(S)}
  <2>1. \A i \in D : c[i] = IF i = 1 THEN ss[i] ELSE c[i - 1] \o ss[i]
    BY <1>6, Zenon
  <2>2. ASSUME NEW k \in Nat, \A j \in 0..(k - 1) : j \in Good
        PROVE  k \in Good
    <3> SUFFICES ASSUME k \in D PROVE c[k] \in Seq(S)
      OBVIOUS
    <3>1. CASE k = 1
      BY <1>1, <2>1, <3>1
    <3>2. CASE k # 1
      <4>1. k - 1 \in Good /\ k - 1 \in D
        BY <2>2, <3>2
      <4>2. c[k - 1] \in Seq(S) /\ ss[k] \in Seq(S)
        BY <1>1, <4>1
      <4>3. c[k] = c[k - 1] \o ss[k]
        BY <2>1, <3>2
      <4> QED BY <4>2, <4>3
    <3> QED BY <3>1, <3>2
  <2> HIDE DEF Good
  <2>3. \A k \in Nat : k \in Good
    BY <2>2, Induction
  <2>4. \A i \in D : c[i] \in Seq(S)
    BY <2>3 DEF Good
  <2> QED BY <1>6, <2>4
<1>9. Flattens(ss, Len(ss), c)
  <2>1. \A i \in D : c[i] = IF i = 1 THEN ss[i] ELSE c[i - 1] \o ss[i]
    BY <1>6, Zenon
  <2>2. 1 \in D /\ \A i \in 2..n : i \in D /\ i # 1
    BY <1>1
  <2> HIDE DEF D
  <2> QED BY <2>1, <2>2 DEF Flattens
<1> QED BY <1>7, <1>8, <1>9

LEMMA FlattenUnique ==
  ASSUME NEW ss, NEW n \in Nat, NEW f, NEW g,
         Flattens(ss, n, f), Flattens(ss, n, g)
  PROVE  \A i \in 1..n : f[i] = g[i]
<1> DEFINE Good == {k \in Nat : k \in 1..n => f[k] = g[k]}
<1>1. ASSUME NEW k \in Nat, \A j \in 0..(k - 1) : j \in Good
      PROVE  k \in Good
  <2> SUFFICES ASSUME k \in 1..n PROVE f[k] = g[k]
    OBVIOUS
  <2>1. CASE k = 1
    BY <2>1 DEF Flattens
  <2>2. CASE k # 1
    <3>1. k - 1 \in Good /\ k - 1 \in 1..n /\ k \in 2..n
      BY <1>1, <2>2
    <3>2. f[k - 1] = g[k - 1]
      BY <3>1
    <3> QED BY <3>1, <3>2 DEF Flattens
  <2> QED BY <2>1, <2>2
<1> HIDE DEF Good
<1>2. \A k \in Nat : k \in Good
  BY <1>1, Induction
<1> QED BY <1>2 DEF Good

LEMMA FlattenEmpty == FlattenSeq(<<>>) = <<>>
BY DEF FlattenSeq

LEMMA FlattenTyped ==
  ASSUME NEW S, NEW ss \in Seq(Seq(S))
  PROVE  FlattenSeq(ss) \in Seq(S)
<1>1. CASE ss = <<>>
  <2>1. <<>> \in Seq(S)
    OBVIOUS
  <2>2. FlattenSeq(ss) = <<>>
    BY <1>1, FlattenEmpty, Zenon
  <2> QED BY <2>1, <2>2
<1>2. CASE ss # <<>>
  <2>1. Len(ss) \in 1..Len(ss)
    BY <1>2, LenProperties, EmptySeq
  <2>2. PICK f \in [1..Len(ss) -> Seq(S)] : FlattenSeq(ss) = f[Len(ss)]
    BY <1>2, FlattenDefined
  <2> QED BY <2>1, <2>2
<1> QED BY <1>1, <1>2

LEMMA FlattenAppend ==
  ASSUME NEW S, NEW ss \in Seq(Seq(S)), NEW s \in Seq(S)
  PROVE  FlattenSeq(Append(ss, s)) = FlattenSeq(ss) \o s
<1> DEFINE n == Len(ss)
           tt == Append(ss, s)
<1>1. /\ tt \in Seq(Seq(S)) /\ tt # <<>> /\ Len(tt) = n + 1 /\ n \in Nat
      /\ tt[n + 1] = s /\ \A i \in 1..n : tt[i] = ss[i]
  BY AppendProperties, LenProperties
<1> HIDE DEF tt
<1>2. PICK g \in [1..(n + 1) -> Seq(S)] : Flattens(tt, Len(tt), g) /\ FlattenSeq(tt) = g[n + 1]
  BY <1>1, FlattenDefined
<1>3. CASE n = 0
  <2>1. ss = <<>>
    BY <1>3, EmptySeq
  <2>2. FlattenSeq(tt) = s
    BY <1>1, <1>2, <1>3 DEF Flattens
  <2>3. <<>> \o s = s
    BY ConcatEmptySeq
  <2> QED BY <2>1, <2>2, <2>3, FlattenEmpty DEF tt
<1>4. CASE n # 0
  <2>1. ss # <<>>
    BY <1>4, EmptySeq
  <2>2. PICK f \in [1..n -> Seq(S)] : Flattens(ss, Len(ss), f) /\ FlattenSeq(ss) = f[n]
    BY <2>1, FlattenDefined
  <2>3. 1 \in 1..n /\ \A i \in 2..n : i \in 1..n /\ i \in 2..(n + 1)
    BY <1>1, <1>4
  <2>4. Flattens(ss, n, g)
    <3>1. Flattens(tt, n + 1, g)
      BY <1>1, <1>2
    <3> HIDE DEF n
    <3> QED BY <1>1, <2>3, <3>1 DEF Flattens
  <2>c. \A i \in 1..n : f[i] = g[i]
    <3>1. n \in Nat /\ Flattens(ss, n, f)
      BY <1>1, <2>2
    <3> HIDE DEF n
    <3> QED BY <3>1, <2>4, FlattenUnique, SMTT(30)
  <2>5. g[n + 1] = g[n] \o s
    <3>1. n + 1 \in 2..(n + 1) /\ (n + 1) - 1 = n
      BY <1>1, <1>4
    <3>2. g[n + 1] = g[(n + 1) - 1] \o tt[n + 1]
      BY <1>1, <1>2, <3>1 DEF Flattens
    <3> QED BY <1>1, <3>1, <3>2
  <2>6. f[n] = g[n]
    BY <1>1, <1>4, <2>c
  <2> QED BY <1>2, <2>2, <2>5, <2>6 DEF tt
<1> QED BY <1>3, <1>4

LEMMA FlattenConcat ==
  ASSUME NEW S
  PROVE  \A ss, tt \in Seq(Seq(S)) : FlattenSeq(ss \o tt) = FlattenSeq(ss) \o FlattenSeq(tt)
<1> DEFINE Concat(ss, tt) == FlattenSeq(ss \o tt) = FlattenSeq(ss) \o FlattenSeq(tt)
           Good == {n \in Nat : \A ss, tt \in Seq(Seq(S)) : Len(tt) = n => Concat(ss, tt)}
<1>1. ASSUME NEW n \in Nat, \A k \in 0..(n - 1) : k \in Good
      PROVE  n \in Good
  <2> SUFFICES ASSUME NEW ss \in Seq(Seq(S)), NEW tt \in Seq(Seq(S)), Len(tt) = n
               PROVE  Concat(ss, tt)
    OBVIOUS
  <2>a. FlattenSeq(ss) \in Seq(S)
    BY FlattenTyped
  <2>1. CASE tt = <<>>
    <3>1. ss \o tt = ss /\ FlattenSeq(ss) \o <<>> = FlattenSeq(ss)
      BY <2>1, <2>a, ConcatEmptySeq
    <3>2. FlattenSeq(tt) = <<>>
      BY <2>1, FlattenEmpty, Zenon
    <3> QED BY <3>1, <3>2
  <2>2. CASE tt # <<>>
    <3>1. PICK uu \in Seq(Seq(S)), s \in Seq(S) : tt = Append(uu, s)
      BY <2>2, SequenceEmptyOrAppend, Zenon
    <3>2. Len(uu) = n - 1 /\ n - 1 \in Nat /\ n - 1 \in 0..(n - 1)
      BY <3>1, AppendProperties, LenProperties
    <3>3. n - 1 \in Good
      BY <1>1, <3>2
    <3>4. Concat(ss, uu)
      BY <3>2, <3>3
    <3>5. ss \o tt = Append(ss \o uu, s) /\ ss \o uu \in Seq(Seq(S))
      BY <3>1
    <3>6. FlattenSeq(ss \o tt) = FlattenSeq(ss \o uu) \o s
      BY <3>5, FlattenAppend
    <3>7. FlattenSeq(tt) = FlattenSeq(uu) \o s
      BY <3>1, FlattenAppend
    <3>8. FlattenSeq(uu) \in Seq(S)
      BY FlattenTyped
    <3>9. (FlattenSeq(ss) \o FlattenSeq(uu)) \o s = FlattenSeq(ss) \o (FlattenSeq(uu) \o s)
      BY <2>a, <3>8, ConcatAssociative, SMTT(30)
    <3> QED BY <3>4, <3>6, <3>7, <3>9
  <2> QED BY <2>1, <2>2
<1> HIDE DEF Good
<1>2. \A k \in Nat : k \in Good
  BY <1>1, Induction
<1>3. ASSUME NEW ss \in Seq(Seq(S)), NEW tt \in Seq(Seq(S)) PROVE Concat(ss, tt)
  <2>1. Len(tt) \in Good
    BY <1>2, LenProperties
  <2> QED BY <2>1 DEF Good
<1> QED BY <1>3

LEMMA FlattenOne ==
  ASSUME NEW S, NEW s \in Seq(S)
  PROVE  FlattenSeq(<<s>>) = s
<1>1. <<>> \in Seq(Seq(S)) /\ Append(<<>>, s) = <<s>> /\ <<>> \o s = s
  BY ConcatEmptySeq
<1> QED BY <1>1, FlattenAppend, FlattenEmpty

(* The first sequence comes first.                                         *)
LEMMA FlattenHead ==
  ASSUME NEW S, NEW ss \in Seq(Seq(S)), ss # <<>>
  PROVE  FlattenSeq(ss) = Head(ss) \o FlattenSeq(Tail(ss))
<1>1. /\ <<Head(ss)>> \in Seq(Seq(S)) /\ Tail(ss) \in Seq(Seq(S))
      /\ ss = <<Head(ss)>> \o Tail(ss) /\ Head(ss) \in Seq(S)
  BY HeadTailProperties
<1>2. FlattenSeq(<<Head(ss)>> \o Tail(ss))
        = FlattenSeq(<<Head(ss)>>) \o FlattenSeq(Tail(ss))
  BY <1>1, FlattenConcat
<1>3. FlattenSeq(<<Head(ss)>>) = Head(ss)
  BY <1>1, FlattenOne
<1> QED BY <1>1, <1>2, <1>3, Zenon

-----------------------------------------------------------------------------
(* The letters of a paragraph.                                             *)

Lens(p)    == [i \in DOMAIN p |-> p[i].len]
Letters(p) == Total[Lens(p)]

LEMMA LensTyped ==
  ASSUME NEW p \in Paragraph
  PROVE  /\ Lens(p) \in Seq(Nat) /\ Len(Lens(p)) = Len(p) /\ Letters(p) \in Nat
         /\ \A i \in 1..Len(p) : Lens(p)[i] = p[i].len
<1>1. Len(p) \in Nat /\ DOMAIN p = 1..Len(p) /\ \A i \in 1..Len(p) : p[i] \in Word
  BY LenProperties DEF Paragraph
<1>2. \A i \in 1..Len(p) : p[i].len \in Nat
  BY <1>1 DEF Word
<1>3. Lens(p) \in Seq(Nat) /\ Len(Lens(p)) = Len(p)
  BY <1>1, <1>2 DEF Lens
<1> QED BY <1>1, <1>3, TotalTyped DEF Letters, Lens

LEMMA LensConcat ==
  ASSUME NEW p \in Paragraph, NEW q \in Paragraph
  PROVE  p \o q \in Paragraph /\ Lens(p \o q) = Lens(p) \o Lens(q)
<1>1. /\ p \o q \in Paragraph /\ Len(p \o q) = Len(p) + Len(q)
      /\ \A i \in 1..(Len(p) + Len(q)) :
           (p \o q)[i] = IF i <= Len(p) THEN p[i] ELSE q[i - Len(p)]
      /\ Len(p) \in Nat /\ Len(q) \in Nat
  BY ConcatProperties, LenProperties DEF Paragraph
<1>2. /\ Lens(p) \o Lens(q) \in Seq(Nat)
      /\ Len(Lens(p) \o Lens(q)) = Len(p) + Len(q)
      /\ \A i \in 1..(Len(p) + Len(q)) :
           (Lens(p) \o Lens(q))[i] = IF i <= Len(p) THEN Lens(p)[i] ELSE Lens(q)[i - Len(p)]
  <2>1. /\ Lens(p) \in Seq(Nat) /\ Len(Lens(p)) = Len(p)
        /\ Lens(q) \in Seq(Nat) /\ Len(Lens(q)) = Len(q)
    BY LensTyped
  <2> DEFINE u == Lens(p)
             v == Lens(q)
  <2> HIDE DEF u, v
  <2>2. /\ u \o v \in Seq(Nat) /\ Len(u \o v) = Len(u) + Len(v)
        /\ \A i \in 1..(Len(u) + Len(v)) :
             (u \o v)[i] = IF i <= Len(u) THEN u[i] ELSE v[i - Len(u)]
    BY <2>1, ConcatProperties DEF u, v
  <2> QED BY <2>1, <2>2 DEF u, v
<1>3. \A i \in 1..(Len(p) + Len(q)) : Lens(p \o q)[i] = (Lens(p) \o Lens(q))[i]
  <2> SUFFICES ASSUME NEW i \in 1..(Len(p) + Len(q))
               PROVE  Lens(p \o q)[i] = (Lens(p) \o Lens(q))[i]
    OBVIOUS
  <2>1. Lens(p \o q)[i] = (p \o q)[i].len
    BY <1>1, LensTyped
  <2>2. CASE i <= Len(p)
    BY <1>1, <1>2, <2>1, <2>2, LensTyped
  <2>3. CASE ~(i <= Len(p))
    <3>1. i - Len(p) \in 1..Len(q)
      BY <1>1, <2>3
    <3> QED BY <1>1, <1>2, <2>1, <2>3, <3>1, LensTyped
  <2> QED BY <2>2, <2>3
<1>4. Lens(p \o q) \in Seq(Nat) /\ Len(Lens(p \o q)) = Len(p) + Len(q)
  BY <1>1, LensTyped
<1> QED BY <1>1, <1>2, <1>3, <1>4, SeqEqual

LEMMA LettersConcat ==
  ASSUME NEW p \in Paragraph, NEW q \in Paragraph
  PROVE  Letters(p \o q) = Letters(p) + Letters(q)
BY LensConcat, LensTyped, TotalConcat DEF Letters

LEMMA LettersOne ==
  ASSUME NEW w \in Word
  PROVE  <<w>> \in Paragraph /\ Letters(<<w>>) = w.len
<1>1. <<w>> \in Paragraph /\ Lens(<<w>>) = <<w.len>> /\ w.len \in Nat
  BY DEF Paragraph, Lens, Word
<1>2. <<w.len>> \in Seq(Nat) /\ <<w.len>> # <<>> /\ Head(<<w.len>>) = w.len
      /\ Tail(<<w.len>>) = <<>>
  BY <1>1
<1>3. Total[<<w.len>>] = w.len + 0
  BY <1>2, TotalTyped
<1> QED BY <1>1, <1>3 DEF Letters

(* A paragraph that is not empty is its first word and the others.         *)
LEMMA FirstWord ==
  ASSUME NEW p \in Paragraph, p # <<>>
  PROVE  /\ Head(p) \in Word /\ Tail(p) \in Paragraph /\ <<Head(p)>> \in Paragraph
         /\ p = <<Head(p)>> \o Tail(p)
         /\ Letters(p) = Head(p).len + Letters(Tail(p))
         /\ Letters(p) \in Nat \ {0}
<1>1. /\ Head(p) \in Word /\ Tail(p) \in Paragraph
      /\ p = <<Head(p)>> \o Tail(p)
  BY HeadTailProperties DEF Paragraph
<1>2. <<Head(p)>> \in Paragraph /\ Letters(<<Head(p)>>) = Head(p).len
  BY <1>1, LettersOne
<1>3. Letters(<<Head(p)>> \o Tail(p)) = Head(p).len + Letters(Tail(p))
  BY <1>1, <1>2, LettersConcat
<1>4. Head(p).len \in Nat \ {0} /\ Letters(Tail(p)) \in Nat
  BY <1>1, LensTyped DEF Word
<1>5. Letters(p) = Head(p).len + Letters(Tail(p))
  BY <1>1, <1>3, Zenon
<1> QED BY <1>1, <1>2, <1>4, <1>5

-----------------------------------------------------------------------------
(* Texts without their empty paragraphs.                                   *)

(* Induction over sequences: a set that has the empty one and all that     *)
(* append to one it has.                                                   *)
LEMMA SequenceInduction ==
  ASSUME NEW S, NEW G, <<>> \in G,
         \A s \in Seq(S), e \in S : s \in G => Append(s, e) \in G
  PROVE  \A s \in Seq(S) : s \in G
<1> DEFINE Good == {n \in Nat : \A s \in Seq(S) : Len(s) = n => s \in G}
<1>1. ASSUME NEW n \in Nat, \A k \in 0..(n - 1) : k \in Good
      PROVE  n \in Good
  <2> SUFFICES ASSUME NEW s \in Seq(S), Len(s) = n PROVE s \in G
    OBVIOUS
  <2>1. CASE s # <<>>
    <3>1. PICK t \in Seq(S), e \in S : s = Append(t, e)
      BY <2>1, SequenceEmptyOrAppend, Zenon
    <3>2. Len(t) = n - 1 /\ n - 1 \in 0..(n - 1)
      BY <3>1, AppendProperties, LenProperties
    <3>3. n - 1 \in Good
      BY <1>1, <3>2
    <3>4. t \in G
      BY <3>2, <3>3
    <3> QED BY <3>1, <3>4
  <2> QED BY <2>1
<1> HIDE DEF Good
<1>2. \A n \in Nat : n \in Good
  BY <1>1, Induction
<1>3. ASSUME NEW s \in Seq(S) PROVE s \in G
  <2>1. Len(s) \in Good
    BY <1>2, LenProperties
  <2> QED BY <2>1 DEF Good
<1> QED BY <1>3

Single(p) == IF p = <<>> THEN <<>> ELSE <<p>>
Singles(t) == [i \in DOMAIN t |-> Single(t[i])]

LEMMA SinglesAppend ==
  ASSUME NEW t \in Text, NEW p \in Paragraph
  PROVE  /\ Singles(t) \in Seq(FullText) /\ Single(p) \in FullText
         /\ Singles(Append(t, p)) = Append(Singles(t), Single(p))
<1>1. \A q \in Paragraph : Single(q) \in FullText
  <2> SUFFICES ASSUME NEW q \in Paragraph PROVE Single(q) \in FullText
    OBVIOUS
  <2> DEFINE Q == Paragraph \ {<<>>}
  <2>1. <<>> \in Seq(Q)
    OBVIOUS
  <2>2. q # <<>> => q \in Q
    OBVIOUS
  <2> HIDE DEF Q
  <2>3. q # <<>> => <<q>> \in Seq(Q)
    BY <2>2
  <2>4. FullText = Seq(Q)
    BY DEF FullText, Q
  <2>5. CASE q = <<>>
    <3>1. Single(q) = <<>>
      BY <2>5, Zenon DEF Single
    <3> QED BY <2>1, <2>4, <3>1
  <2>6. CASE q # <<>>
    <3>1. Single(q) = <<q>>
      BY <2>6, Zenon DEF Single
    <3> QED BY <2>3, <2>4, <2>6, <3>1
  <2> QED BY <2>5, <2>6
<1>2. /\ Len(t) \in Nat /\ DOMAIN t = 1..Len(t) /\ \A i \in 1..Len(t) : t[i] \in Paragraph
      /\ Append(t, p) \in Text /\ Len(Append(t, p)) = Len(t) + 1
      /\ DOMAIN Append(t, p) = 1..(Len(t) + 1)
      /\ \A i \in 1..Len(t) : Append(t, p)[i] = t[i]
      /\ Append(t, p)[Len(t) + 1] = p
  BY AppendProperties, LenProperties DEF Text
<1>3. Singles(t) \in Seq(FullText) /\ Len(Singles(t)) = Len(t)
  BY <1>1, <1>2 DEF Singles
<1>4. /\ Append(Singles(t), Single(p)) \in Seq(FullText)
      /\ Len(Append(Singles(t), Single(p))) = Len(t) + 1
      /\ \A i \in 1..Len(t) : Append(Singles(t), Single(p))[i] = Singles(t)[i]
      /\ Append(Singles(t), Single(p))[Len(t) + 1] = Single(p)
  BY <1>1, <1>3, AppendProperties
<1>5. Singles(Append(t, p)) \in Seq(FullText) /\ Len(Singles(Append(t, p))) = Len(t) + 1
  <2>1. \A i \in 1..(Len(t) + 1) : Append(t, p)[i] \in Paragraph
    BY <1>2
  <2> QED BY <1>1, <1>2, <2>1 DEF Singles
<1>6. \A i \in 1..(Len(t) + 1) : Singles(Append(t, p))[i] = Append(Singles(t), Single(p))[i]
  <2> SUFFICES ASSUME NEW i \in 1..(Len(t) + 1)
               PROVE  Singles(Append(t, p))[i] = Append(Singles(t), Single(p))[i]
    OBVIOUS
  <2>1. Singles(Append(t, p))[i] = Single(Append(t, p)[i])
    BY <1>2 DEF Singles
  <2>2. CASE i = Len(t) + 1
    BY <1>2, <1>4, <2>1, <2>2
  <2>3. CASE i # Len(t) + 1
    <3>1. i \in 1..Len(t)
      BY <1>2, <2>3
    <3>2. Singles(t)[i] = Single(t[i])
      BY <1>2, <3>1 DEF Singles
    <3> QED BY <1>2, <1>4, <2>1, <3>1, <3>2
  <2> QED BY <2>2, <2>3
<1> QED
  <2> HIDE DEF Single
  <2> QED BY <1>1, <1>3, <1>4, <1>5, <1>6, SeqEqual

LEMMA NoEmptyAppend ==
  ASSUME NEW t \in Text, NEW p \in Paragraph
  PROVE  /\ NoEmpty(t) \in FullText
         /\ NoEmpty(Append(t, p)) = NoEmpty(t) \o Single(p)
<1>1. \A u : NoEmpty(u) = FlattenSeq(Singles(u))
  BY Zenon DEF NoEmpty, Singles, Single
<1>2. Singles(t) \in Seq(FullText) /\ Single(p) \in FullText
  BY SinglesAppend
<1>3. FlattenSeq(Singles(t)) \in FullText
  BY <1>2, FlattenTyped DEF FullText
<1>4. FlattenSeq(Append(Singles(t), Single(p))) = FlattenSeq(Singles(t)) \o Single(p)
  BY <1>2, FlattenAppend DEF FullText
<1> QED BY <1>1, <1>3, <1>4, SinglesAppend

LEMMA NoEmptyOfEmpty == NoEmpty(<<>>) = <<>>
<1>1. [i \in DOMAIN <<>> |-> IF <<>>[i] = <<>> THEN <<>> ELSE <<<<>>[i]>>] = <<>>
  OBVIOUS
<1> QED BY <1>1, FlattenEmpty DEF NoEmpty

LEMMA FullIsText == FullText \subseteq Text
BY SeqMonotonic DEF FullText, Text, Paragraph

(* All the words are kept.                                                 *)
LEMMA NoEmptyWords ==
  \A t \in Text : Words(NoEmpty(t)) = Words(t)
<1> DEFINE G == {t \in Text : Words(NoEmpty(t)) = Words(t)}
<1>1. <<>> \in G
  BY NoEmptyOfEmpty DEF Text
<1>2. ASSUME NEW t \in Seq(Paragraph), NEW p \in Paragraph, t \in G
      PROVE  Append(t, p) \in G
  <2>1. t \in Text /\ Append(t, p) \in Text /\ t \in Seq(Seq(Word)) /\ p \in Seq(Word)
    BY DEF Text, Paragraph
  <2>2. NoEmpty(t) \in Text /\ NoEmpty(Append(t, p)) = NoEmpty(t) \o Single(p)
    BY <2>1, NoEmptyAppend, FullIsText
  <2>3. Words(Append(t, p)) = Words(t) \o p
    BY <2>1, FlattenAppend DEF Words
  <2>4. Words(NoEmpty(t)) = Words(t) /\ Words(t) \in Seq(Word)
    BY <1>2, <2>1, FlattenTyped DEF Words
  <2>5. CASE p = <<>>
    <3>1. NoEmpty(t) \o Single(p) = NoEmpty(t) /\ Words(t) \o p = Words(t)
      BY <2>2, <2>4, <2>5, ConcatEmptySeq DEF Single, Text
    <3> QED BY <2>1, <2>2, <2>3, <2>4, <3>1
  <2>6. CASE p # <<>>
    <3>1. Single(p) = <<p>> /\ <<p>> \in Seq(Seq(Word)) /\ NoEmpty(t) \in Seq(Seq(Word))
      BY <2>1, <2>2, <2>6 DEF Single, Text, Paragraph
    <3>2. Words(NoEmpty(t) \o <<p>>) = Words(NoEmpty(t)) \o Words(<<p>>)
      BY <3>1, FlattenConcat DEF Words
    <3>3. Words(<<p>>) = p
      BY <2>1, FlattenOne DEF Words
    <3> QED BY <2>1, <2>2, <2>3, <2>4, <3>1, <3>2, <3>3
  <2> QED BY <2>5, <2>6
<1> HIDE DEF G
<1>3. \A t \in Seq(Paragraph) : t \in G
  BY <1>1, <1>2, SequenceInduction
<1> QED BY <1>3 DEF G, Text

(* Where there is no empty paragraph nothing changes.                      *)
LEMMA NoEmptyFull ==
  \A t \in FullText : NoEmpty(t) = t
<1> DEFINE G == {t \in FullText : NoEmpty(t) = t}
<1>1. <<>> \in G
  BY NoEmptyOfEmpty DEF FullText
<1>2. ASSUME NEW t \in Seq(Paragraph \ {<<>>}), NEW p \in Paragraph \ {<<>>}, t \in G
      PROVE  Append(t, p) \in G
  <2>1. t \in FullText /\ Append(t, p) \in FullText /\ t \in Text
    BY FullIsText DEF FullText
  <2>2. NoEmpty(Append(t, p)) = NoEmpty(t) \o Single(p)
    BY <2>1, NoEmptyAppend
  <2>3. Append(t, p) = t \o <<p>> /\ Single(p) = <<p>>
    BY AppendIsConcat DEF Single
  <2> QED BY <1>2, <2>1, <2>2, <2>3
<1> HIDE DEF G
<1>3. \A t \in Seq(Paragraph \ {<<>>}) : t \in G
  BY <1>1, <1>2, SequenceInduction
<1> QED BY <1>3 DEF G, FullText

-----------------------------------------------------------------------------
(* The next page and what remains.                                         *)

(* The largest of some numbers that are at most n.                         *)
LEMMA MaxOf ==
  ASSUME NEW n \in Nat, NEW S \in SUBSET (0..n), S # {}
  PROVE  Max(S) \in S /\ \A k \in S : k <= Max(S)
<1> SUFFICES \E m \in S : \A k \in S : m >= k
  <2>1. ASSUME NEW m \in S, \A k \in S : m >= k
        PROVE  Max(S) \in S /\ \A k \in S : Max(S) >= k
    BY <2>1, Zenon DEF Max
  <2> QED BY <2>1
<1> SUFFICES ASSUME \A m \in S : \E k \in S : k > m PROVE FALSE
  OBVIOUS
<1> DEFINE Good == {d \in Nat : n - d \notin S}
<1>1. ASSUME NEW d \in Nat, \A k \in 0..(d - 1) : k \in Good
      PROVE  d \in Good
  <2> SUFFICES ASSUME n - d \in S PROVE FALSE
    OBVIOUS
  <2>1. PICK k \in S : k > n - d
    OBVIOUS
  <2>2. n - k \in 0..(d - 1) /\ n - (n - k) = k
    BY <2>1
  <2>3. n - k \in Good
    BY <1>1, <2>2
  <2> QED BY <2>2, <2>3
<1> HIDE DEF Good
<1>2. \A d \in Nat : d \in Good
  BY <1>1, Induction
<1>3. PICK k : k \in S
  OBVIOUS
<1>4. n - k \in Good /\ n - (n - k) = k
  BY <1>2, <1>3
<1> QED BY <1>3, <1>4 DEF Good

LEMMA CutInTwo ==
  ASSUME NEW S, NEW s \in Seq(S), NEW n \in 0..Len(s)
  PROVE  /\ Cut(s, n).head \in Seq(S) /\ Cut(s, n).tail \in Seq(S)
         /\ s = Cut(s, n).head \o Cut(s, n).tail
         /\ Len(Cut(s, n).head) = n /\ Len(Cut(s, n).tail) = Len(s) - n
<1>1. Len(s) \in Nat /\ \A i \in 1..Len(s) : s[i] \in S
  BY LenProperties
<1>2. /\ SubSeq(s, 1, n) \in Seq(S) /\ Len(SubSeq(s, 1, n)) = n
      /\ SubSeq(s, n + 1, Len(s)) \in Seq(S) /\ Len(SubSeq(s, n + 1, Len(s))) = Len(s) - n
  BY <1>1, SubSeqProperties
<1>3. SubSeq(s, 1, n) \o SubSeq(s, n + 1, Len(s)) = SubSeq(s, 1, Len(s))
  <2>1. 1 \in 1..(Len(s) + 1) /\ n \in (1 - 1)..Len(s) /\ Len(s) \in n..Len(s)
    BY <1>1
  <2> QED BY <2>1, ConcatAdjacentSubSeq
<1>4. SubSeq(s, 1, Len(s)) = s
  BY SubSeqFull
<1>5. Cut(s, n).head = SubSeq(s, 1, n) /\ Cut(s, n).tail = SubSeq(s, n + 1, Len(s))
  BY DEF Cut
<1> QED BY <1>2, <1>3, <1>4, <1>5, Zenon

(* The letters of a text, which every round of the loop makes fewer.       *)
Weight(t) == Letters(Words(t))

LEMMA WordsTyped ==
  ASSUME NEW t \in Text
  PROVE  Words(t) \in Paragraph /\ Weight(t) \in Nat
<1>1. t \in Seq(Seq(Word))
  BY DEF Text, Paragraph
<1>2. Words(t) \in Paragraph
  BY <1>1, FlattenTyped DEF Words, Paragraph
<1> QED BY <1>2, LensTyped DEF Weight

LEMMA WordsConcat ==
  ASSUME NEW t \in Text, NEW u \in Text
  PROVE  t \o u \in Text /\ Words(t \o u) = Words(t) \o Words(u)
<1>1. t \in Seq(Seq(Word)) /\ u \in Seq(Seq(Word)) /\ t \o u \in Text
  BY ConcatProperties DEF Text, Paragraph
<1> QED BY <1>1, FlattenConcat DEF Words

LEMMA WeightConcat ==
  ASSUME NEW t \in Text, NEW u \in Text
  PROVE  Weight(t \o u) = Weight(t) + Weight(u)
BY WordsTyped, WordsConcat, LettersConcat DEF Weight

LEMMA OneParagraph ==
  ASSUME NEW p \in Paragraph
  PROVE  <<p>> \in Text /\ Words(<<p>>) = p /\ Weight(<<p>>) = Letters(p)
<1>1. p \in Seq(Word) /\ <<p>> \in Text
  BY DEF Text, Paragraph
<1>2. Words(<<p>>) = p
  BY <1>1, FlattenOne DEF Words
<1> QED BY <1>1, <1>2 DEF Weight

LEMMA FirstParagraph ==
  ASSUME NEW t \in Text, t # <<>>
  PROVE  /\ Head(t) \in Paragraph /\ Tail(t) \in Text
         /\ Words(t) = Head(t) \o Words(Tail(t))
         /\ Weight(t) = Letters(Head(t)) + Weight(Tail(t))
<1>1. /\ Head(t) \in Paragraph /\ Tail(t) \in Text
      /\ t \in Seq(Seq(Word))
  BY HeadTailProperties DEF Text, Paragraph
<1>2. Words(t) = Head(t) \o Words(Tail(t))
  BY <1>1, FlattenHead DEF Words
<1> QED BY <1>1, <1>2, WordsTyped, LettersConcat DEF Weight

LEMMA FullHead ==
  ASSUME NEW t \in FullText, t # <<>>
  PROVE  /\ Head(t) \in Paragraph /\ Head(t) # <<>> /\ Tail(t) \in FullText
         /\ Weight(t) \in Nat \ {0}
<1>1. Head(t) \in Paragraph \ {<<>>} /\ Tail(t) \in FullText
  BY HeadTailProperties DEF FullText
<1>2. t \in Text /\ Tail(t) \in Text
  BY <1>1, FullIsText
<1>3. Weight(t) = Letters(Head(t)) + Weight(Tail(t)) /\ Weight(Tail(t)) \in Nat
  BY <1>2, FirstParagraph, WordsTyped
<1>4. Letters(Head(t)) \in Nat \ {0}
  BY <1>1, FirstWord
<1> QED BY <1>1, <1>3, <1>4

(* The characters of a text.                                               *)
Sizes(t) == [i \in DOMAIN t |-> Chars(t[i])]

LEMMA CharsTyped ==
  ASSUME NEW p \in Paragraph
  PROVE  /\ Len(p) \in Nat /\ Letters(p) \in Nat
         /\ Chars(p) = Letters(p) + Len(p) - 1
         /\ p # <<>> => Chars(p) \in Nat \ {0} /\ Len(p) \in Nat \ {0}
<1>1. Len(p) \in Nat /\ Letters(p) \in Nat /\ (p # <<>> => Len(p) # 0)
  BY LensTyped, EmptySeq, LenProperties DEF Paragraph
<1>2. Chars(p) = Letters(p) + Len(p) - 1
  BY DEF Chars, Letters, Lens
<1>3. p # <<>> => Letters(p) \in Nat \ {0}
  BY FirstWord
<1> QED BY <1>1, <1>2, <1>3

LEMMA CharsConcat ==
  ASSUME NEW p \in Paragraph, NEW q \in Paragraph
  PROVE  p \o q \in Paragraph /\ Chars(p \o q) = Chars(p) + 1 + Chars(q)
<1>1. p \o q \in Paragraph /\ Len(p \o q) = Len(p) + Len(q)
  BY ConcatProperties DEF Paragraph
<1>2. Letters(p \o q) = Letters(p) + Letters(q)
  BY LettersConcat
<1>3. /\ Len(p) \in Nat /\ Letters(p) \in Nat /\ Chars(p) = Letters(p) + Len(p) - 1
      /\ Len(q) \in Nat /\ Letters(q) \in Nat /\ Chars(q) = Letters(q) + Len(q) - 1
      /\ Chars(p \o q) = Letters(p \o q) + Len(p \o q) - 1
  BY <1>1, CharsTyped
<1> HIDE DEF Chars
<1> QED BY <1>1, <1>2, <1>3

LEMMA SizesTyped ==
  ASSUME NEW t \in FullText
  PROVE  /\ Len(t) \in Nat /\ Sizes(t) \in Seq(Nat) /\ Len(Sizes(t)) = Len(t)
         /\ \A i \in 1..Len(t) : Sizes(t)[i] = Chars(t[i])
         /\ Total[Sizes(t)] \in Nat /\ Length(t) = Total[Sizes(t)] + 2 * (Len(t) - 1)
         /\ t # <<>> => Len(t) \in Nat \ {0} /\ Length(t) \in Nat
         /\ t = <<>> => Length(t) = -2
<1>1. /\ Len(t) \in Nat /\ DOMAIN t = 1..Len(t)
      /\ \A i \in 1..Len(t) : t[i] \in Paragraph \ {<<>>}
      /\ (t # <<>> => Len(t) # 0)
  BY LenProperties, EmptySeq DEF FullText
<1>2. \A i \in 1..Len(t) : Chars(t[i]) \in Nat
  BY <1>1, CharsTyped
<1>3. Sizes(t) \in Seq(Nat) /\ Len(Sizes(t)) = Len(t)
  BY <1>1, <1>2 DEF Sizes
<1>4. Total[Sizes(t)] \in Nat
  BY <1>3, TotalTyped
<1>5. Length(t) = Total[Sizes(t)] + 2 * (Len(t) - 1)
  BY DEF Length, Sizes
<1>6. \A i \in 1..Len(t) : Sizes(t)[i] = Chars(t[i])
  BY <1>1 DEF Sizes
<1>7. ASSUME t = <<>> PROVE Length(t) = -2
  <2>1. Sizes(t) = <<>> /\ Len(t) = 0
    BY <1>3, <1>7
  <2> QED BY <1>5, <2>1, TotalTyped
<1> QED BY <1>1, <1>3, <1>4, <1>5, <1>6, <1>7

LEMMA SizesConcat ==
  ASSUME NEW t \in FullText, NEW u \in FullText
  PROVE  /\ t \o u \in FullText /\ Len(t \o u) = Len(t) + Len(u)
         /\ Total[Sizes(t \o u)] = Total[Sizes(t)] + Total[Sizes(u)]
<1>1. /\ t \o u \in FullText /\ Len(t \o u) = Len(t) + Len(u)
      /\ \A i \in 1..(Len(t) + Len(u)) :
           (t \o u)[i] = IF i <= Len(t) THEN t[i] ELSE u[i - Len(t)]
      /\ Len(t) \in Nat /\ Len(u) \in Nat
  BY ConcatProperties, LenProperties DEF FullText
<1> DEFINE v == Sizes(t)
           w == Sizes(u)
<1>2. v \in Seq(Nat) /\ w \in Seq(Nat) /\ Len(v) = Len(t) /\ Len(w) = Len(u)
  BY SizesTyped
<1>3. /\ \A i \in 1..Len(t) : v[i] = Chars(t[i])
      /\ \A i \in 1..Len(u) : w[i] = Chars(u[i])
  BY SizesTyped
<1>4. /\ Sizes(t \o u) \in Seq(Nat) /\ Len(Sizes(t \o u)) = Len(t) + Len(u)
      /\ \A i \in 1..(Len(t) + Len(u)) : Sizes(t \o u)[i] = Chars((t \o u)[i])
  BY <1>1, SizesTyped
<1> HIDE DEF v, w
<1>5. /\ v \o w \in Seq(Nat) /\ Len(v \o w) = Len(v) + Len(w)
      /\ \A i \in 1..(Len(v) + Len(w)) :
           (v \o w)[i] = IF i <= Len(v) THEN v[i] ELSE w[i - Len(v)]
  BY <1>2, ConcatProperties
<1>6. \A i \in 1..(Len(t) + Len(u)) : Sizes(t \o u)[i] = (v \o w)[i]
  <2> SUFFICES ASSUME NEW i \in 1..(Len(t) + Len(u))
               PROVE  Sizes(t \o u)[i] = (v \o w)[i]
    OBVIOUS
  <2>1. CASE i <= Len(t)
    BY <1>1, <1>2, <1>3, <1>4, <1>5, <2>1
  <2>2. CASE ~(i <= Len(t))
    <3>1. i - Len(t) \in 1..Len(u)
      BY <1>1, <2>2
    <3> QED BY <1>1, <1>2, <1>3, <1>4, <1>5, <2>2, <3>1
  <2> QED BY <2>1, <2>2
<1>7. Sizes(t \o u) = v \o w
  BY <1>2, <1>4, <1>5, <1>6, SeqEqual
<1>8. Total[v \o w] = Total[v] + Total[w]
  BY <1>2, TotalConcat
<1> QED BY <1>1, <1>7, <1>8 DEF v, w

LEMMA SizeOfOne ==
  ASSUME NEW p \in Paragraph, p # <<>>
  PROVE  /\ <<p>> \in FullText /\ Total[Sizes(<<p>>)] = Chars(p) /\ Len(<<p>>) = 1
         /\ Length(<<p>>) = Chars(p)
<1>1. <<p>> \in FullText /\ Len(<<p>>) = 1 /\ <<p>>[1] = p
  BY DEF FullText
<1>2. /\ Sizes(<<p>>) \in Seq(Nat) /\ Len(Sizes(<<p>>)) = 1
      /\ Sizes(<<p>>)[1] = Chars(p)
      /\ Length(<<p>>) = Total[Sizes(<<p>>)] + 2 * (1 - 1)
  BY <1>1, SizesTyped
<1> DEFINE v == Sizes(<<p>>)
<1> HIDE DEF v
<1>3. v \in Seq(Nat) /\ Len(v) = 1 /\ v[1] = Chars(p)
  BY <1>2 DEF v
<1> DEFINE n == Chars(p)
<1> HIDE DEF n
<1>a. n \in Nat /\ v \in Seq(Nat) /\ Len(v) = 1 /\ v[1] = n
  BY <1>3, CharsTyped DEF n
<1>b. v = <<n>>
  <2>1. <<n>> \in Seq(Nat) /\ Len(<<n>>) = 1 /\ <<n>>[1] = n
    BY <1>a
  <2>2. \A i \in 1..Len(v) : v[i] = <<n>>[i]
    BY <1>a, <2>1
  <2> QED BY <1>a, <2>1, <2>2, SeqEqual
<1>4. v # <<>> /\ Head(v) = Chars(p) /\ Tail(v) = <<>>
  BY <1>b DEF n
<1>5. Total[v] = Chars(p) + 0 /\ Chars(p) \in Nat
  BY <1>3, <1>4, TotalTyped, CharsTyped
<1> QED BY <1>1, <1>2, <1>5 DEF v

LEMMA LengthSplit ==
  ASSUME NEW t \in FullText, t # <<>>
  PROVE  /\ Normalized(t) = Total[Sizes(t)] + Len(t) - 1
         /\ Normalized(t) <= Length(t) /\ Normalized(t) \in Nat
<1>1. Normalized(t) = Length(t) - (Len(t) - 1)
  BY Zenon DEF Normalized
<1> QED BY <1>1, SizesTyped

LEMMA WholeFits ==
  ASSUME NEW t \in FullText, t # <<>>, Length(t) > MaxChars
  PROVE  /\ WholeParagraphs(t) \in 0..(Len(t) - 1)
         /\ WholeParagraphs(t) > 0 => Length(Cut(t, WholeParagraphs(t)).head) <= MaxChars
         /\ WholeParagraphs(t) = 0 => Chars(Head(t)) > MaxChars
<1> DEFINE fit == {n \in DOMAIN t : Length(SubSeq(t, 1, n)) <= MaxChars}
           S == {0} \cup fit
           m == Max(S)
<1>1. Len(t) \in Nat \ {0} /\ DOMAIN t = 1..Len(t)
  BY EmptySeq, LenProperties DEF FullText
<1>2. SubSeq(t, 1, Len(t)) = t
  BY SubSeqFull DEF FullText
<1>3. Len(t) \notin fit
  <2>1. Length(t) \in Nat /\ MaxChars \in Nat
    BY SizesTyped, SectionsAssumption
  <2>2. ~(Length(t) <= MaxChars)
    BY <2>1
  <2> QED BY <1>2, <2>2, Zenon
<1>4. S \in SUBSET (0..Len(t)) /\ S # {}
  BY <1>1
<1>5. WholeParagraphs(t) = m
  BY DEF WholeParagraphs
<1>6. m \in S /\ \A k \in S : k <= m
  <2> HIDE DEF S
  <2> QED BY <1>1, <1>4, MaxOf
<1>7. m \in 0..(Len(t) - 1)
  BY <1>1, <1>3, <1>6
<1>8. m > 0 => Length(SubSeq(t, 1, m)) <= MaxChars
  BY <1>6
<1>9. ASSUME m = 0 PROVE Chars(Head(t)) > MaxChars
  <2>1. 1 \notin fit
    <3> SUFFICES ASSUME 1 \in fit PROVE FALSE
      OBVIOUS
    <3>1. 1 <= m
      BY <1>6
    <3> HIDE DEF m
    <3> QED BY <1>9, <3>1
  <2>2. SubSeq(t, 1, 1) = <<Head(t)>>
    <3>1. t[1] \in Paragraph /\ \A k \in 1..1 : t[k] \in Paragraph
      BY <1>1 DEF FullText
    <3>2. /\ SubSeq(t, 1, 1) \in Seq(Paragraph) /\ Len(SubSeq(t, 1, 1)) = 1
          /\ SubSeq(t, 1, 1)[1] = t[1]
      BY <3>1, SubSeqProperties
    <3>3. /\ <<t[1]>> \in Seq(Paragraph) /\ Len(<<t[1]>>) = 1 /\ <<t[1]>>[1] = t[1]
      BY <3>1
    <3>4. SubSeq(t, 1, 1) = <<t[1]>>
      <4>1. \A k \in 1..Len(SubSeq(t, 1, 1)) : SubSeq(t, 1, 1)[k] = <<t[1]>>[k]
        BY <3>2, <3>3
      <4> QED BY <3>2, <3>3, <4>1, SeqEqual
    <3>5. Head(t) = t[1]
      BY <1>1 DEF FullText
    <3> QED BY <3>4, <3>5
  <2>3. ~(Length(<<Head(t)>>) <= MaxChars)
    <3>1. 1 \in DOMAIN t
      BY <1>1
    <3>2. ~(Length(SubSeq(t, 1, 1)) <= MaxChars)
      BY <2>1, <3>1
    <3> QED BY <2>2, <3>2, Zenon
  <2>4. Head(t) \in Paragraph /\ Head(t) # <<>>
    BY FullHead
  <2>5. Length(<<Head(t)>>) = Chars(Head(t)) /\ Chars(Head(t)) \in Nat
    BY <2>4, SizeOfOne, CharsTyped
  <2> QED BY <2>3, <2>5, SectionsAssumption
<1>10. Cut(t, m).head = SubSeq(t, 1, m)
  BY DEF Cut
<1> HIDE DEF m
<1> QED BY <1>5, <1>7, <1>8, <1>9, <1>10

(* A longer beginning of a paragraph has more characters.                  *)
LEMMA LongerHasMore ==
  ASSUME NEW p \in Paragraph, NEW n \in 0..Len(p), NEW i \in 0..n
  PROVE  /\ SubSeq(p, 1, n) \in Paragraph /\ SubSeq(p, 1, i) \in Paragraph
         /\ Chars(SubSeq(p, 1, i)) <= Chars(SubSeq(p, 1, n))
<1>1. Len(p) \in Nat
  BY LenProperties DEF Paragraph
<1> DEFINE q == SubSeq(p, 1, n)
           h == SubSeq(p, 1, i)
           r == SubSeq(q, i + 1, n)
<1>2. q \in Paragraph /\ Len(q) = n
  <2>1. Cut(p, n).head \in Seq(Word) /\ Len(Cut(p, n).head) = n
    BY CutInTwo DEF Paragraph
  <2> QED BY <2>1 DEF Cut, Paragraph
<1>3. SubSeq(q, 1, i) = h
  <2>1. CASE i = 0
    BY <1>1, <2>1, SubSeqEmpty
  <2>2. CASE i # 0
    <3>1. \A k \in 1..Len(p) : p[k] \in Word
      BY LenProperties DEF Paragraph
    <3>2. /\ h \in Seq(Word) /\ Len(h) = i /\ \A k \in 1..i : h[k] = p[k]
      BY <1>1, <3>1, SubSeqProperties
    <3>3. \A k \in 1..n : q[k] = p[k] /\ q[k] \in Word
      BY <1>1, <3>1, SubSeqProperties
    <3> HIDE DEF q, h
    <3>4. /\ SubSeq(q, 1, i) \in Seq(Word) /\ Len(SubSeq(q, 1, i)) = i
          /\ \A k \in 1..i : SubSeq(q, 1, i)[k] = q[k]
      BY <3>3, SubSeqProperties
    <3> QED BY <3>2, <3>3, <3>4, SeqEqual
  <2> QED BY <2>1, <2>2
<1> HIDE DEF q, h
<1>4. /\ Cut(q, i).head \in Seq(Word) /\ Cut(q, i).tail \in Seq(Word)
      /\ q = Cut(q, i).head \o Cut(q, i).tail
      /\ Cut(q, i).head = h /\ Cut(q, i).tail = r
  BY <1>2, <1>3, CutInTwo DEF Cut, Paragraph
<1>5. h \in Paragraph /\ r \in Paragraph /\ q = h \o r
  BY <1>4 DEF Paragraph
<1> HIDE DEF r
<1>6. Chars(h \o r) = Chars(h) + 1 + Chars(r)
  BY <1>5, CharsConcat
<1>7. Chars(h) \in Int /\ Chars(r) \in Int /\ Chars(r) >= -1
  BY <1>5, CharsTyped, SMTT(30)
<1>8. Chars(q) = Chars(h) + 1 + Chars(r)
  BY <1>5, <1>6, Zenon
<1> QED BY <1>2, <1>5, <1>7, <1>8 DEF q, h

(* Where a paragraph that is too long for a page is cut: after a sentence  *)
(* or at a space, ...                                                      *)
CutBetween(p, c) ==
  /\ p = c.head \o c.tail
  /\ c.head[Len(c.head)].stop \/ \A i \in 1..Len(c.head) : ~c.head[i].stop
(* ... or within its first word, which is longer than a page.              *)
CutWithin(p, c) ==
  /\ Head(p).len > MaxChars
  /\ \E v, w \in Word : /\ c.head = <<v>> /\ c.tail = <<w>> \o Tail(p)
                        /\ v.id = Head(p).id /\ w.id = Head(p).id
                        /\ v.len + w.len = Head(p).len /\ ~v.stop

LEMMA BestSplitFits ==
  ASSUME NEW p \in Paragraph, p # <<>>, Chars(p) > MaxChars
  PROVE  /\ BestSplit(p) \in 0..(Len(p) - 1)
         /\ BestSplit(p) > 0 =>
              /\ Chars(SubSeq(p, 1, BestSplit(p))) <= MaxChars
              /\ \/ p[BestSplit(p)].stop
                 \/ \A i \in 1..BestSplit(p) : ~p[i].stop
         /\ BestSplit(p) = 0 => Head(p).len >= MaxChars
<1> DEFINE fitting == {n \in 1..(Len(p) - 1) : Chars(SubSeq(p, 1, n)) < MaxChars}
           ends == {n \in fitting : p[n].stop}
           b == BestSplit(p)
<1>1. Len(p) \in Nat \ {0} /\ \A i \in 1..Len(p) : p[i] \in Word
  BY CharsTyped, LenProperties DEF Paragraph
<1>2. b = IF ends # {} THEN Max(ends) ELSE Max({0} \cup fitting)
  BY DEF BestSplit
<1>3. \A n \in 0..Len(p) : Chars(SubSeq(p, 1, n)) \in Int
  BY LongerHasMore, CharsTyped
<1>4. CASE ends # {}
  <2>1. ends \in SUBSET (0..Len(p))
    BY <1>1
  <2>2. b \in ends
    <3>1. b = Max(ends)
      BY <1>2, <1>4
    <3> HIDE DEF ends, b
    <3> QED BY <1>1, <1>4, <2>1, <3>1, MaxOf
  <2>3. b \in 1..(Len(p) - 1) /\ Chars(SubSeq(p, 1, b)) < MaxChars /\ p[b].stop
    BY <2>2
  <2> HIDE DEF b
  <2> QED BY <1>1, <1>3, <2>3, SectionsAssumption DEF b
<1>5. CASE ends = {}
  <2> DEFINE S == {0} \cup fitting
  <2>1. S \in SUBSET (0..Len(p)) /\ S # {}
    BY <1>1
  <2>2. b \in S /\ \A k \in S : k <= b
    <3>1. b = Max(S)
      BY <1>2, <1>5
    <3> HIDE DEF S, b
    <3> QED BY <1>1, <2>1, <3>1, MaxOf
  <2>3. b \in 0..(Len(p) - 1) /\ (b > 0 => b \in fitting)
    BY <1>1, <2>2
  <2>4. ASSUME b > 0, NEW i \in 1..b PROVE ~p[i].stop
    <3>1. Chars(SubSeq(p, 1, i)) <= Chars(SubSeq(p, 1, b))
      <4> HIDE DEF b
      <4> QED BY <1>1, <2>3, <2>4, LongerHasMore
    <3>2. Chars(SubSeq(p, 1, b)) < MaxChars
      BY <2>3, <2>4
    <3>3. i \in 1..(Len(p) - 1) /\ i \in 0..Len(p) /\ b \in 0..Len(p)
      BY <1>1, <2>3
    <3>4. Chars(SubSeq(p, 1, i)) < MaxChars
      <4> DEFINE x == Chars(SubSeq(p, 1, i))
                 y == Chars(SubSeq(p, 1, b))
      <4>1. x \in Int /\ y \in Int
        BY <1>3, <3>3
      <4> HIDE DEF x, y
      <4> QED BY <3>1, <3>2, <4>1, SectionsAssumption DEF x, y
    <3>5. i \in fitting
      BY <3>3, <3>4
    <3> QED BY <1>5, <3>5
  <2>5. ASSUME b = 0 PROVE Head(p).len >= MaxChars
    <3>1. /\ Head(p) \in Word /\ Head(p) = p[1]
      BY <1>1 DEF Paragraph
    <3>2. /\ <<Head(p)>> \in Paragraph /\ Chars(<<Head(p)>>) = Head(p).len
          /\ Head(p).len \in Nat
      <4>1. /\ <<Head(p)>> \in Paragraph /\ Letters(<<Head(p)>>) = Head(p).len
            /\ Len(<<Head(p)>>) = 1 /\ Head(p).len \in Nat
        BY <3>1, LettersOne DEF Word
      <4>2. Chars(<<Head(p)>>) = Letters(<<Head(p)>>) + 1 - 1
        BY <4>1, CharsTyped
      <4> QED BY <4>1, <4>2
    <3>3. SubSeq(p, 1, 1) = <<Head(p)>>
      <4>1. /\ SubSeq(p, 1, 1) \in Seq(Word) /\ Len(SubSeq(p, 1, 1)) = 1
            /\ SubSeq(p, 1, 1)[1] = p[1]
        BY <1>1, SubSeqProperties
      <4>2. /\ <<p[1]>> \in Seq(Word) /\ Len(<<p[1]>>) = 1 /\ <<p[1]>>[1] = p[1]
        BY <3>1
      <4>3. \A k \in 1..Len(SubSeq(p, 1, 1)) : SubSeq(p, 1, 1)[k] = <<p[1]>>[k]
        BY <4>1, <4>2
      <4> QED BY <3>1, <4>1, <4>2, <4>3, SeqEqual
    <3>4. CASE Len(p) = 1
      <4>1. SubSeq(p, 1, 1) = p
        BY <3>4, SubSeqFull DEF Paragraph
      <4>2. Chars(p) = Head(p).len
        BY <3>2, <3>3, <4>1, Zenon
      <4> QED BY <3>2, <4>2, SectionsAssumption
    <3>5. CASE Len(p) # 1
      <4>1. 1 \notin fitting
        <5> SUFFICES ASSUME 1 \in fitting PROVE FALSE
          OBVIOUS
        <5>1. 1 <= b
          BY <2>2
        <5> HIDE DEF b
        <5> QED BY <2>5, <5>1
      <4>2. 1 \in 1..(Len(p) - 1)
        <5> DEFINE n == Len(p)
        <5>1. n \in Nat \ {0} /\ n # 1
          BY <1>1, <3>5
        <5> HIDE DEF n
        <5>2. 1 \in 1..(n - 1)
          BY <5>1
        <5> QED BY <5>2 DEF n
      <4>3. ~(Chars(SubSeq(p, 1, 1)) < MaxChars)
        BY <4>1, <4>2
      <4>4. ~(Head(p).len < MaxChars)
        BY <3>2, <3>3, <4>3, Zenon
      <4> QED BY <3>2, <4>4, SectionsAssumption
    <3> QED BY <3>4, <3>5
  <2>6. b > 0 => Chars(SubSeq(p, 1, b)) <= MaxChars
    <3> SUFFICES ASSUME b > 0 PROVE Chars(SubSeq(p, 1, b)) <= MaxChars
      OBVIOUS
    <3>1. b \in 0..Len(p) /\ Chars(SubSeq(p, 1, b)) < MaxChars
      BY <1>1, <2>3
    <3> QED BY <1>3, <3>1, SectionsAssumption
  <2> HIDE DEF b
  <2> QED BY <2>3, <2>4, <2>5, <2>6 DEF b
<1> QED BY <1>4, <1>5

LEMMA WordEqual ==
  ASSUME NEW v \in Word, NEW w \in Word, v.id = w.id, v.len = w.len, v.stop = w.stop
  PROVE  v = w
BY DEF Word

LEMMA CutParagraphWell ==
  ASSUME NEW p \in Paragraph, p # <<>>, Chars(p) > MaxChars
  PROVE  LET c == CutParagraph(p)
         IN /\ c.head \in Paragraph /\ c.head # <<>> /\ Chars(c.head) <= MaxChars
            /\ c.tail \in Paragraph /\ c.tail # <<>>
            /\ Letters(p) = Letters(c.head) + Letters(c.tail)
            /\ CutBetween(p, c) \/ CutWithin(p, c)
<1> DEFINE b == BestSplit(p)
           c == CutParagraph(p)
<1>1. /\ b \in 0..(Len(p) - 1)
      /\ b > 0 => /\ Chars(SubSeq(p, 1, b)) <= MaxChars
                  /\ p[b].stop \/ \A i \in 1..b : ~p[i].stop
      /\ b = 0 => Head(p).len >= MaxChars
  BY BestSplitFits
<1>2. Len(p) \in Nat \ {0} /\ MaxChars \in Nat \ {0}
  BY CharsTyped, SectionsAssumption
<1>3. CASE b > 0
  <2>1. c = Cut(p, b)
    BY <1>3 DEF CutParagraph
  <2>2. b \in 0..Len(p)
    BY <1>1, <1>2
  <2>3. /\ c.head \in Paragraph /\ c.tail \in Paragraph /\ p = c.head \o c.tail
        /\ Len(c.head) = b /\ Len(c.tail) = Len(p) - b /\ c.head = SubSeq(p, 1, b)
    <3> HIDE DEF b
    <3>1. /\ Cut(p, b).head \in Seq(Word) /\ Cut(p, b).tail \in Seq(Word)
          /\ p = Cut(p, b).head \o Cut(p, b).tail
          /\ Len(Cut(p, b).head) = b /\ Len(Cut(p, b).tail) = Len(p) - b
          /\ Cut(p, b).head = SubSeq(p, 1, b)
      BY <2>2, CutInTwo DEF Paragraph, Cut
    <3> QED BY <2>1, <3>1 DEF Paragraph
  <2> HIDE DEF c
  <2>4. Letters(c.head \o c.tail) = Letters(c.head) + Letters(c.tail)
    BY <2>3, LettersConcat
  <2>5. Letters(p) = Letters(c.head) + Letters(c.tail)
    BY <2>3, <2>4, Zenon
  <2> DEFINE h == c.head
             t == c.tail
  <2>a. Len(h) = b /\ Len(t) = Len(p) - b /\ p = h \o t /\ b \in 1..(Len(p) - 1)
    <3>1. b \in 1..(Len(p) - 1)
      BY <1>1, <1>2, <1>3
    <3> HIDE DEF b
    <3> QED BY <2>3, <3>1
  <2> HIDE DEF h, t, b
  <2>b. h # <<>> /\ t # <<>>
    <3>1. Len(t) # 0 /\ Len(h) # 0
      BY <1>2, <2>a
    <3> QED BY <3>1
  <2>6. c.head # <<>> /\ c.tail # <<>>
    BY <2>b DEF h, t
  <2>7. \A i \in 1..b : c.head[i] = p[i]
    <3>1. \A i \in 1..Len(p) : p[i] \in Word
      BY LenProperties DEF Paragraph
    <3>2. \A i \in 1..b : SubSeq(p, 1, b)[i] = p[i]
      BY <2>a, <1>2, <3>1, SubSeqProperties
    <3> QED BY <2>3, <3>2
  <2>8. CutBetween(p, c)
    <3>1. p[b].stop \/ \A i \in 1..b : ~p[i].stop
      BY <1>1, <1>3
    <3>2. h[b].stop \/ \A i \in 1..b : ~h[i].stop
      <4>1. \A i \in 1..b : h[i] = p[i]
        BY <2>7 DEF h
      <4> QED BY <2>a, <3>1, <4>1
    <3>3. h[Len(h)].stop \/ \A i \in 1..Len(h) : ~h[i].stop
      BY <2>a, <3>2, Zenon
    <3> QED BY <2>3, <3>3 DEF CutBetween, h
  <2>9. Chars(c.head) <= MaxChars
    BY <1>1, <1>3, <2>3
  <2> QED BY <2>3, <2>5, <2>6, <2>8, <2>9 DEF c
<1>4. CASE b = 0
  <2> DEFINE w == Head(p)
  <2>1. /\ w \in Word /\ Tail(p) \in Paragraph /\ p = <<w>> \o Tail(p)
        /\ Letters(p) = w.len + Letters(Tail(p)) /\ Letters(Tail(p)) \in Nat
    BY FirstWord, LensTyped
  <2>2. c = CutWord(p) /\ w.len >= MaxChars /\ w.len \in Nat
    BY <1>1, <1>4, <2>1 DEF CutParagraph, Word
  <2> DEFINE v == [w EXCEPT !.len = MaxChars, !.stop = w.stop /\ w.len = MaxChars]
             r == [w EXCEPT !.len = w.len - MaxChars]
  <2>3. /\ c.head = <<v>>
        /\ c.tail = IF w.len = MaxChars THEN Tail(p) ELSE <<r>> \o Tail(p)
    BY <2>2 DEF CutWord
  <2>4. /\ v \in Word /\ v.len = MaxChars /\ v.id = w.id
        /\ w.len = MaxChars => v = w
        /\ w.len # MaxChars => ~v.stop
    <3> DEFINE s == w.stop /\ w.len = MaxChars
    <3>a. s \in BOOLEAN
      OBVIOUS
    <3>b. v = [w EXCEPT !.len = MaxChars, !.stop = s]
      BY Zenon
    <3>1. w.stop \in BOOLEAN
      <4> HIDE DEF w
      <4> QED BY <2>1 DEF Word
    <3>2. v \in Word /\ v.len = MaxChars /\ v.id = w.id /\ v.stop = s
      <4> HIDE DEF s, v, w
      <4>1. w \in Word
        BY <2>1
      <4>2. ASSUME NEW z \in BOOLEAN, NEW x, x = [w EXCEPT !.len = MaxChars, !.stop = z]
            PROVE  x \in Word /\ x.id = w.id /\ x.len = MaxChars /\ x.stop = z
        BY <1>2, <4>1, <4>2 DEF Word
      <4> QED BY <3>a, <3>b, <4>2
    <3>3. ASSUME w.len = MaxChars PROVE v = w
      <4>1. s = w.stop
        BY <3>1, <3>3
      <4> HIDE DEF s, v, w
      <4> QED BY <2>1, <3>2, <3>3, <4>1, WordEqual
    <3>4. w.len # MaxChars => ~v.stop
      BY <3>2
    <3> HIDE DEF v, w
    <3> QED BY <3>2, <3>3, <3>4
  <2>5. w.len # MaxChars => r \in Word /\ r.len = w.len - MaxChars /\ r.id = w.id
    BY <1>2, <2>1, <2>2, SMTT(30) DEF Word
  <2> HIDE DEF c, v, r, w
  <2>6. /\ c.head \in Paragraph /\ c.head # <<>> /\ Letters(c.head) = MaxChars
        /\ Len(c.head) = 1
    BY <2>3, <2>4, LettersOne
  <2>7. Chars(c.head) <= MaxChars
    <3> DEFINE h == c.head
    <3>1. h \in Paragraph /\ Letters(h) = MaxChars /\ Len(h) = 1
      BY <2>6
    <3> HIDE DEF h
    <3>2. Chars(h) = MaxChars + 1 - 1
      BY <3>1, CharsTyped
    <3> QED BY <1>2, <3>2 DEF h
  <2>8. CASE w.len = MaxChars
    <3>1. c.tail = Tail(p) /\ c.head = <<w>>
      BY <2>3, <2>4, <2>8
    <3>2. p = c.head \o c.tail
      BY <2>1, <3>1, Zenon
    <3>3. c.tail # <<>>
      <4> SUFFICES ASSUME c.tail = <<>> PROVE FALSE
        OBVIOUS
      <4>1. c.head \o <<>> = c.head
        BY <2>6, ConcatEmptySeq DEF Paragraph
      <4>2. p = c.head
        BY <3>2, <4>1, Zenon
      <4>3. Chars(p) <= MaxChars
        BY <2>7, <4>2, Zenon
      <4> QED BY <1>2, <4>3, CharsTyped
    <3>4. Letters(p) = Letters(c.head) + Letters(c.tail)
      BY <2>1, <2>6, <2>8, <3>1
    <3>5. CutBetween(p, c)
      <4>1. Len(c.head) = 1 /\ c.head[1] = w
        BY <3>1
      <4>2. w.stop \/ \A i \in 1..1 : ~c.head[i].stop
        BY <4>1
      <4> QED BY <3>2, <4>1, <4>2 DEF CutBetween
    <3> QED BY <2>1, <2>6, <2>7, <3>1, <3>3, <3>4, <3>5 DEF c
  <2>9. CASE w.len # MaxChars
    <3>1. /\ c.tail = <<r>> \o Tail(p) /\ r \in Word /\ r.len = w.len - MaxChars
          /\ r.id = w.id /\ v \in Word /\ v.id = w.id /\ ~v.stop
      BY <2>3, <2>4, <2>5, <2>9
    <3>2. /\ <<r>> \in Paragraph /\ Letters(<<r>>) = r.len /\ <<r>> # <<>>
      BY <3>1, LettersOne
    <3>3. /\ <<r>> \o Tail(p) \in Paragraph
          /\ Letters(<<r>> \o Tail(p)) = r.len + Letters(Tail(p))
      BY <2>1, <3>2, LettersConcat, LensConcat
    <3>4. <<r>> \o Tail(p) # <<>>
      BY <2>1, <3>2, ConcatEqualIffEmpty DEF Paragraph
    <3>5. v.len + r.len = w.len /\ w.len > MaxChars
      BY <1>2, <2>2, <2>4, <2>9, <3>1
    <3>6. CutWithin(p, c)
      <4>1. /\ c.head = <<v>> /\ c.tail = <<r>> \o Tail(p)
            /\ v.id = Head(p).id /\ r.id = Head(p).id
            /\ v.len + r.len = Head(p).len /\ ~v.stop /\ Head(p).len > MaxChars
        BY <2>3, <3>1, <3>5 DEF w
      <4> QED BY <3>1, <4>1, Zenon DEF CutWithin
    <3>7. Letters(p) = Letters(c.head) + Letters(c.tail)
      BY <1>2, <2>1, <2>2, <2>6, <3>1, <3>3
    <3> QED BY <2>6, <2>7, <3>1, <3>3, <3>4, <3>6, <3>7 DEF c
  <2> QED BY <2>8, <2>9
<1> QED BY <1>1, <1>3, <1>4

(* The next page takes something from what remains, and does not get too   *)
(* long; words are lost nowhere.                                           *)
CutSomewhere(t, s) ==
  \/ t = s.head \o s.tail
  \/ \E c \in [head: Paragraph \ {<<>>}, tail: Paragraph \ {<<>>}] :
       /\ s.head = <<c.head>> /\ s.tail = <<c.tail>> \o Tail(t)
       /\ CutBetween(Head(t), c) \/ CutWithin(Head(t), c)

LEMMA NextSectionWell ==
  ASSUME NEW t \in FullText, Length(t) > MaxChars
  PROVE  LET s == NextSection(t)
         IN /\ s.head \in FullText /\ s.head # <<>> /\ Length(s.head) <= MaxChars
            /\ s.tail \in FullText /\ Weight(s.tail) < Weight(t)
            /\ s.tail # <<>> /\ CutSomewhere(t, s)
<1> DEFINE s == NextSection(t)
           m == WholeParagraphs(t)
           p == Head(t)
           c == CutParagraph(p)
<1>1. t # <<>>
  <2>1. t = <<>> => Length(t) = -2
    BY SizesTyped
  <2> QED BY <2>1, SectionsAssumption
<1>2. /\ m \in 0..(Len(t) - 1)
      /\ m > 0 => Length(Cut(t, m).head) <= MaxChars
      /\ m = 0 => Chars(p) > MaxChars
  BY <1>1, WholeFits
<1>3. Len(t) \in Nat \ {0}
  BY <1>1, SizesTyped
<1>4. CASE m > 0
  <2>1. s = Cut(t, m)
    BY <1>4 DEF NextSection
  <2>2. m \in 1..(Len(t) - 1) /\ m \in 0..Len(t)
    BY <1>2, <1>3, <1>4
  <2> HIDE DEF m
  <2> DEFINE h == Cut(t, m).head
             u == Cut(t, m).tail
  <2>3. /\ h \in FullText /\ u \in FullText /\ t = h \o u
        /\ Len(h) = m /\ Len(u) = Len(t) - m
    BY <2>2, CutInTwo DEF FullText
  <2>4. Length(h) <= MaxChars
    BY <1>2, <1>4
  <2> HIDE DEF h, u, s
  <2>5. h # <<>> /\ u # <<>>
    <3>1. Len(h) # 0 /\ Len(u) # 0
      BY <1>3, <2>2, <2>3
    <3> QED BY <3>1
  <2>6. Weight(h) \in Nat \ {0} /\ Weight(u) \in Nat
    BY <2>3, <2>5, FullHead
  <2>7. Weight(t) = Weight(h) + Weight(u)
    <3>1. h \in Text /\ u \in Text
      BY <2>3, FullIsText
    <3>2. Weight(h \o u) = Weight(h) + Weight(u)
      BY <3>1, WeightConcat
    <3> QED BY <2>3, <3>2, Zenon
  <2>8. s.head = h /\ s.tail = u
    BY <2>1 DEF h, u
  <2>9. CutSomewhere(t, s)
    <3>1. t = s.head \o s.tail
      BY <2>3, <2>8, Zenon
    <3> QED BY <3>1 DEF CutSomewhere
  <2>10. Weight(u) < Weight(t)
    BY <2>6, <2>7
  <2> QED BY <2>3, <2>4, <2>5, <2>8, <2>9, <2>10 DEF s
<1>5. CASE m = 0
  <2>1. /\ p \in Paragraph /\ p # <<>> /\ Tail(t) \in FullText /\ Chars(p) > MaxChars
    BY <1>1, <1>2, <1>5, FullHead
  <2>2. s = [head |-> <<c.head>>, tail |-> NoEmpty(<<c.tail>> \o Tail(t))]
    BY <1>5 DEF NextSection
  <2> HIDE DEF p
  <2>3. /\ c.head \in Paragraph /\ c.head # <<>> /\ Chars(c.head) <= MaxChars
        /\ c.tail \in Paragraph /\ c.tail # <<>>
        /\ Letters(p) = Letters(c.head) + Letters(c.tail)
        /\ CutBetween(p, c) \/ CutWithin(p, c)
    BY <2>1, CutParagraphWell
  <2> DEFINE h == c.head
             u == c.tail
  <2>4. /\ h \in Paragraph /\ h # <<>> /\ u \in Paragraph /\ u # <<>>
        /\ Chars(h) <= MaxChars /\ Letters(p) = Letters(h) + Letters(u)
        /\ s = [head |-> <<h>>, tail |-> NoEmpty(<<u>> \o Tail(t))]
    BY <2>2, <2>3
  <2>5. \E d \in [head: Paragraph \ {<<>>}, tail: Paragraph \ {<<>>}] :
          /\ d.head = h /\ d.tail = u
          /\ CutBetween(p, d) \/ CutWithin(p, d)
    <3> DEFINE d == [head |-> h, tail |-> u]
    <3>1. d \in [head: Paragraph \ {<<>>}, tail: Paragraph \ {<<>>}]
      <4> HIDE DEF h, u
      <4> QED BY <2>4
    <3>2. d.head = c.head /\ d.tail = c.tail
      BY Zenon
    <3>3. CutBetween(p, d) \/ CutWithin(p, d)
      <4> HIDE DEF d, c
      <4> QED BY <2>3, <3>2, Zenon DEF CutBetween, CutWithin
    <3> HIDE DEF d, c
    <3> QED BY <3>1, <3>2, <3>3, Zenon
  <2> HIDE DEF h, u, s
  <2>6. <<h>> \in FullText /\ <<u>> \in FullText /\ Length(<<h>>) = Chars(h)
    BY <2>4, SizeOfOne
  <2>7. <<u>> \o Tail(t) \in FullText /\ <<u>> \o Tail(t) # <<>>
    BY <2>1, <2>6, ConcatProperties, ConcatEqualIffEmpty DEF FullText
  <2>8. NoEmpty(<<u>> \o Tail(t)) = <<u>> \o Tail(t)
    BY <2>7, NoEmptyFull
  <2>9. s.head = <<h>> /\ s.tail = <<u>> \o Tail(t)
    BY <2>4, <2>8
  <2>10. Weight(<<u>> \o Tail(t)) = Letters(u) + Weight(Tail(t))
    <3>1. <<u>> \in Text /\ Tail(t) \in Text
      BY <2>1, <2>6, FullIsText
    <3> QED BY <2>4, <3>1, WeightConcat, OneParagraph
  <2>11. Weight(<<u>> \o Tail(t)) < Weight(t)
    <3>1. Weight(t) = Letters(p) + Weight(Tail(t)) /\ Weight(Tail(t)) \in Nat
      <4>1. t \in Text /\ Tail(t) \in Text
        BY <2>1, FullIsText
      <4> QED BY <1>1, <4>1, FirstParagraph, WordsTyped DEF p
    <3>2. Letters(h) \in Nat \ {0} /\ Letters(u) \in Nat
      BY <2>4, FirstWord
    <3> QED BY <2>4, <2>10, <3>1, <3>2
  <2>12. CutSomewhere(t, s)
    <3>1. \E d \in [head: Paragraph \ {<<>>}, tail: Paragraph \ {<<>>}] :
            /\ s.head = <<d.head>> /\ s.tail = <<d.tail>> \o Tail(t)
            /\ CutBetween(Head(t), d) \/ CutWithin(Head(t), d)
      BY <2>5, <2>9, Zenon DEF p
    <3> QED BY <3>1, Zenon DEF CutSomewhere
  <2>13. <<h>> # <<>>
    OBVIOUS
  <2> QED BY <2>4, <2>6, <2>7, <2>9, <2>11, <2>12, <2>13 DEF s
<1> QED BY <1>2, <1>4, <1>5

(* A page and the rest that joins it.                                      *)
LEMMA RestJoined ==
  ASSUME NEW t \in FullText, NEW u \in FullText, t # <<>>
  PROVE  /\ WithRest(t, u) \in FullText /\ WithRest(t, u) # <<>>
         /\ u # <<>> => Normalized(WithRest(t, u)) = Normalized(t) + 1 + Normalized(u)
         /\ Words(WithRest(t, u)) = Words(t) \o Words(u)
<1>1. CASE u = <<>>
  <2>1. WithRest(t, u) = t
    BY <1>1, Zenon DEF WithRest, JoinSpace
  <2>2. Words(u) = <<>>
    BY <1>1, FlattenEmpty, Zenon DEF Words
  <2>3. Words(t) \o <<>> = Words(t)
    <3>1. Words(t) \in Paragraph
      BY FullIsText, WordsTyped
    <3> QED BY <3>1, ConcatEmptySeq DEF Paragraph
  <2>4. Words(t) \o Words(u) = Words(t)
    BY <2>2, <2>3, Zenon
  <2> QED BY <1>1, <2>1, <2>4
<1>2. CASE u # <<>>
  <2>1. Len(t) \in Nat \ {0} /\ t \in Text /\ u \in Text
    BY SizesTyped, FullIsText
  <2> DEFINE a == SubSeq(t, 1, Len(t) - 1)
             p == t[Len(t)]
             q == Head(u)
             z == Tail(u)
  <2>2. a \in FullText /\ p \in Paragraph /\ p # <<>> /\ t = a \o <<p>>
    <3>1. Len(t) - 1 \in 0..Len(t)
      BY <2>1
    <3>2. /\ a \in FullText /\ Cut(t, Len(t) - 1).tail = SubSeq(t, Len(t) - 1 + 1, Len(t))
          /\ t = a \o Cut(t, Len(t) - 1).tail /\ Len(a) = Len(t) - 1
      <4> DEFINE n == Len(t) - 1
      <4>1. Cut(t, n).head = a /\ Cut(t, n).tail = SubSeq(t, n + 1, Len(t))
        BY DEF Cut
      <4> HIDE DEF n, a
      <4>2. n \in 0..Len(t) /\ t \in Seq(Paragraph \ {<<>>})
        BY <3>1 DEF n, FullText
      <4>3. /\ Cut(t, n).head \in Seq(Paragraph \ {<<>>})
            /\ t = Cut(t, n).head \o Cut(t, n).tail /\ Len(Cut(t, n).head) = n
        BY <4>2, CutInTwo
      <4>4. a \in FullText /\ t = a \o Cut(t, n).tail /\ Len(a) = n
        BY <4>1, <4>3, Zenon DEF FullText
      <4> QED BY <4>1, <4>4 DEF n
    <3>3. t[Len(t)] \in Paragraph /\ t[Len(t)] # <<>>
      BY <2>1, LenProperties DEF FullText
    <3>4. SubSeq(t, Len(t) - 1 + 1, Len(t)) = <<t[Len(t)]>>
      <4> DEFINE n == Len(t)
      <4>1. n \in Nat \ {0} /\ n - 1 + 1 = n /\ t[n] \in Paragraph
        BY <2>1, <3>3
      <4> HIDE DEF n
      <4>2. \A i \in n..n : t[i] \in Paragraph
        BY <4>1
      <4>3. /\ SubSeq(t, n, n) \in Seq(Paragraph) /\ Len(SubSeq(t, n, n)) = 1
            /\ SubSeq(t, n, n)[1] = t[n]
        BY <4>1, <4>2, SubSeqProperties
      <4>4. <<t[n]>> \in Seq(Paragraph) /\ Len(<<t[n]>>) = 1 /\ <<t[n]>>[1] = t[n]
        BY <4>1
      <4>5. \A k \in 1..Len(SubSeq(t, n, n)) : SubSeq(t, n, n)[k] = <<t[n]>>[k]
        BY <4>3, <4>4
      <4>6. SubSeq(t, n, n) = <<t[n]>>
        BY <4>3, <4>4, <4>5, SeqEqual
      <4> QED BY <4>1, <4>6 DEF n
    <3> QED BY <3>2, <3>3, <3>4, Zenon
  <2>3. q \in Paragraph /\ q # <<>> /\ z \in FullText /\ u = <<q>> \o z
    BY <1>2, FullHead, HeadTailProperties DEF FullText
  <2>4. WithRest(t, u) = a \o <<p \o q>> \o z
    BY <1>2, Zenon DEF WithRest, JoinSpace
  <2> HIDE DEF a, p, q, z
  <2>5. /\ p \o q \in Paragraph /\ p \o q # <<>>
        /\ Chars(p \o q) = Chars(p) + 1 + Chars(q)
    BY <2>2, <2>3, CharsConcat, ConcatEqualIffEmpty DEF Paragraph
  <2> DEFINE pq == p \o q
             v == a \o <<pq>>
             w == v \o z
  <2> HIDE DEF pq
  <2>6. /\ <<p>> \in FullText /\ Total[Sizes(<<p>>)] = Chars(p) /\ Len(<<p>>) = 1
        /\ <<q>> \in FullText /\ Total[Sizes(<<q>>)] = Chars(q) /\ Len(<<q>>) = 1
        /\ <<pq>> \in FullText /\ Total[Sizes(<<pq>>)] = Chars(pq) /\ Len(<<pq>>) = 1
    BY <2>2, <2>3, <2>5, SizeOfOne DEF pq
  <2>7. /\ v \in FullText /\ Len(v) = Len(a) + 1
        /\ Total[Sizes(v)] = Total[Sizes(a)] + Chars(pq)
        /\ Len(a \o <<p>>) = Len(a) + 1
        /\ Total[Sizes(a \o <<p>>)] = Total[Sizes(a)] + Chars(p)
        /\ Len(<<q>> \o z) = 1 + Len(z)
        /\ Total[Sizes(<<q>> \o z)] = Chars(q) + Total[Sizes(z)]
    BY <2>2, <2>3, <2>6, SizesConcat
  <2> HIDE DEF v
  <2>8. /\ w \in FullText /\ Len(w) = Len(v) + Len(z)
        /\ Total[Sizes(w)] = Total[Sizes(v)] + Total[Sizes(z)]
    BY <2>3, <2>7, SizesConcat
  <2> HIDE DEF w
  <2>9. WithRest(t, u) = w
    BY <2>4 DEF w, v, pq
  <2>10. w # <<>>
    <3>1. Len(w) # 0
      <4>1. Len(a) \in Nat /\ Len(z) \in Nat
        BY <2>2, <2>3, SizesTyped
      <4> QED BY <2>7, <2>8, <4>1
    <3> QED BY <3>1
  <2>11. Normalized(w) = Normalized(t) + 1 + Normalized(u)
    <3>1. /\ Normalized(w) = Total[Sizes(w)] + Len(w) - 1
          /\ Normalized(t) = Total[Sizes(t)] + Len(t) - 1
          /\ Normalized(u) = Total[Sizes(u)] + Len(u) - 1
      BY <1>2, <2>8, <2>10, LengthSplit
    <3>2. /\ Total[Sizes(t)] = Total[Sizes(a)] + Chars(p) /\ Len(t) = Len(a) + 1
          /\ Total[Sizes(u)] = Chars(q) + Total[Sizes(z)] /\ Len(u) = 1 + Len(z)
      BY <2>2, <2>3, <2>7, Zenon
    <3>3. /\ Len(a) \in Nat /\ Len(z) \in Nat /\ Total[Sizes(a)] \in Nat
          /\ Total[Sizes(z)] \in Nat /\ Chars(p) \in Nat /\ Chars(q) \in Nat
      BY <2>2, <2>3, SizesTyped, CharsTyped
    <3>4. Chars(pq) = Chars(p) + 1 + Chars(q)
      BY <2>5 DEF pq
    <3>5. /\ Total[Sizes(w)] = Total[Sizes(a)] + Chars(pq) + Total[Sizes(z)]
          /\ Len(w) = Len(a) + 1 + Len(z)
      BY <2>7, <2>8
    <3> DEFINE i == Len(a)
               j == Len(z)
               k == Total[Sizes(a)]
               l == Total[Sizes(z)]
               m == Chars(p)
               n == Chars(q)
    <3>6. /\ Normalized(w) = k + (m + 1 + n) + l + (i + 1 + j) - 1
          /\ Normalized(t) = k + m + (i + 1) - 1
          /\ Normalized(u) = n + l + (1 + j) - 1
      BY <3>1, <3>2, <3>4, <3>5, Zenon
    <3>7. i \in Nat /\ j \in Nat /\ k \in Nat /\ l \in Nat /\ m \in Nat /\ n \in Nat
      BY <3>3
    <3> HIDE DEF i, j, k, l, m, n
    <3>8. k + (m + 1 + n) + l + (i + 1 + j) - 1
            = (k + m + (i + 1) - 1) + 1 + (n + l + (1 + j) - 1)
      BY <3>7
    <3> QED BY <3>6, <3>8, Zenon
  <2>12. Words(w) = Words(t) \o Words(u)
    <3>1. /\ a \in Text /\ z \in Text /\ <<p>> \in Text /\ <<q>> \in Text
          /\ <<pq>> \in Text /\ v \in Text
      BY <2>2, <2>3, <2>6, <2>7, FullIsText
    <3>2. Words(v) = Words(a) \o pq
      <4>1. pq \in Paragraph
        BY <2>5 DEF pq
      <4>2. Words(<<pq>>) = pq
        BY <4>1, OneParagraph
      <4>3. Words(a \o <<pq>>) = Words(a) \o Words(<<pq>>)
        BY <3>1, WordsConcat
      <4> QED BY <4>2, <4>3, Zenon DEF v
    <3>3. Words(w) = Words(v) \o Words(z)
      BY <3>1, WordsConcat DEF w
    <3>4. Words(a \o <<p>>) = Words(a) \o p
      <4>1. Words(<<p>>) = p
        BY <2>2, OneParagraph
      <4>2. Words(a \o <<p>>) = Words(a) \o Words(<<p>>)
        BY <3>1, WordsConcat
      <4> QED BY <4>1, <4>2, Zenon
    <3>5. Words(<<q>> \o z) = q \o Words(z)
      <4>1. Words(<<q>>) = q
        BY <2>3, OneParagraph
      <4>2. Words(<<q>> \o z) = Words(<<q>>) \o Words(z)
        BY <3>1, WordsConcat
      <4> QED BY <4>1, <4>2, Zenon
    <3> DEFINE x == Words(a)
               y == Words(z)
    <3>6. x \in Seq(Word) /\ y \in Seq(Word) /\ p \in Seq(Word) /\ q \in Seq(Word)
      BY <2>2, <2>3, <3>1, WordsTyped DEF Paragraph
    <3> HIDE DEF x, y
    <3>7. (x \o (p \o q)) \o y = (x \o p) \o (q \o y)
      <4>1. p \o q \in Seq(Word) /\ q \o y \in Seq(Word) /\ x \o p \in Seq(Word)
        BY <3>6, ConcatProperties
      <4>2. x \o (p \o q) = (x \o p) \o q
        BY <3>6, ConcatAssociative, SMTT(30)
      <4>3. ((x \o p) \o q) \o y = (x \o p) \o (q \o y)
        BY <3>6, <4>1, ConcatAssociative, SMTT(30)
      <4> QED BY <4>2, <4>3, Zenon
    <3>8. Words(w) = (x \o (p \o q)) \o y
      BY <3>2, <3>3, Zenon DEF x, y, pq
    <3>9. Words(t) = x \o p /\ Words(u) = q \o y
      BY <2>2, <2>3, <3>4, <3>5, Zenon DEF x, y
    <3> QED BY <3>7, <3>8, <3>9, Zenon
  <2> QED BY <2>8, <2>9, <2>10, <2>11, <2>12
<1> QED BY <1>1, <1>2

-----------------------------------------------------------------------------
(* splitIntoSections ends, and what it returns.                            *)

Rest(t)  == NextSection(t).tail
First(t) == NextSection(t).head
(* The last round: the text fits in a page, or what follows joins it.      *)
LastRound(t) == Length(t) <= MaxChars \/ Normalized(Rest(t)) <= MaxRest
LastPage(t)  == IF Length(t) <= MaxChars THEN t ELSE WithRest(First(t), Rest(t))

LEMMA RoundTyped ==
  ASSUME NEW t \in FullText
  PROVE  /\ Length(t) \in Int /\ LastPage(t) \in FullText
         /\ ~LastRound(t) => /\ First(t) \in FullText /\ First(t) # <<>>
                             /\ Rest(t) \in FullText /\ Weight(Rest(t)) < Weight(t)
<1>1. Length(t) \in Int /\ Len(t) \in Nat
  <2>1. t # <<>> => Length(t) \in Nat
    BY SizesTyped
  <2>2. t = <<>> => Length(t) = -2
    BY SizesTyped
  <2> QED BY <2>1, <2>2, SizesTyped
<1>2. CASE Length(t) <= MaxChars
  <2>1. LastPage(t) = t /\ LastRound(t)
    BY <1>2, Zenon DEF LastPage, LastRound
  <2> QED BY <1>1, <2>1
<1>3. CASE ~(Length(t) <= MaxChars)
  <2>1. Length(t) > MaxChars
    BY <1>1, <1>3, SectionsAssumption
  <2>2. /\ First(t) \in FullText /\ First(t) # <<>>
        /\ Rest(t) \in FullText /\ Weight(Rest(t)) < Weight(t)
    BY <2>1, NextSectionWell DEF First, Rest
  <2>3. LastPage(t) = WithRest(First(t), Rest(t))
    BY <1>3, Zenon DEF LastPage
  <2>4. LastPage(t) \in FullText
    BY <2>2, <2>3, RestJoined
  <2> QED BY <1>1, <2>2, <2>4
<1> QED BY <1>2, <1>3

(* What holds after the last round, and before a round if it holds after   *)
(* it, holds for every text.                                               *)
LEMMA TextInduction ==
  ASSUME NEW G,
         \A t \in FullText : LastRound(t) => t \in G,
         \A t \in FullText : ~LastRound(t) /\ Rest(t) \in G => t \in G
  PROVE  \A t \in FullText : t \in G
<1> DEFINE Good == {n \in Nat : \A t \in FullText : Weight(t) = n => t \in G}
<1>1. ASSUME NEW n \in Nat, \A k \in 0..(n - 1) : k \in Good
      PROVE  n \in Good
  <2> SUFFICES ASSUME NEW t \in FullText, Weight(t) = n, ~LastRound(t) PROVE t \in G
    OBVIOUS
  <2>1. Rest(t) \in FullText /\ Weight(Rest(t)) < n
    BY RoundTyped
  <2>2. Weight(Rest(t)) \in Nat
    BY <2>1, FullIsText, WordsTyped
  <2>3. Weight(Rest(t)) \in 0..(n - 1)
    BY <2>1, <2>2
  <2>4. Weight(Rest(t)) \in Good
    BY <1>1, <2>3
  <2>5. Rest(t) \in G
    BY <2>1, <2>4
  <2> QED BY <2>5
<1> HIDE DEF Good
<1>2. \A n \in Nat : n \in Good
  BY <1>1, Induction
<1>3. ASSUME NEW t \in FullText PROVE t \in G
  <2>1. Weight(t) \in Good
    BY <1>2, FullIsText, WordsTyped
  <2> QED BY <2>1 DEF Good
<1> QED BY <1>3

LEMMA SectionsEquation ==
  /\ SectionsFrom \in [FullText -> Seq(FullText)]
  /\ \A t \in FullText :
       SectionsFrom[t] = IF LastRound(t) THEN <<LastPage(t)>>
                         ELSE <<First(t)>> \o SectionsFrom[Rest(t)]
<1> DEFINE V == Seq(FullText)
           size == [t \in FullText |-> Weight(t)]
           Base == {t \in FullText : LastRound(t)}
           base == [t \in Base |-> <<LastPage(t)>>]
           next == [t \in FullText \ Base |-> Rest(t)]
           combine == [x \in (FullText \ Base) \X V |-> <<First(x[1])>> \o x[2]]
<1>1. Recursive(FullText, V, size, Base, base, next, combine)
  <2>1. size \in [FullText -> Nat]
    <3>1. \A t \in FullText : Weight(t) \in Nat
      BY FullIsText, WordsTyped
    <3> QED BY <3>1
  <2>2. base \in [Base -> V]
    <3>1. ASSUME NEW t \in Base PROVE <<LastPage(t)>> \in V
      <4>1. LastPage(t) \in FullText
        BY RoundTyped
      <4> DEFINE x == LastPage(t)
                 F == FullText
      <4> HIDE DEF x, F
      <4>2. x \in F => <<x>> \in Seq(F)
        OBVIOUS
      <4> QED BY <4>1, <4>2 DEF x, F
    <3> HIDE DEF V, Base
    <3> QED BY <3>1
  <2>3. next \in [FullText \ Base -> FullText]
    BY RoundTyped
  <2>4. combine \in [(FullText \ Base) \X V -> V]
    <3>1. ASSUME NEW t \in FullText \ Base, NEW l \in V PROVE <<First(t)>> \o l \in V
      <4>1. First(t) \in FullText
        BY RoundTyped
      <4> DEFINE x == First(t)
                 F == FullText
      <4>2. x \in F /\ l \in Seq(F)
        BY <4>1
      <4> HIDE DEF x, F
      <4>3. <<x>> \in Seq(F)
        BY <4>2
      <4>4. <<x>> \o l \in Seq(F)
        BY <4>2, <4>3, ConcatProperties
      <4> QED BY <4>4 DEF x, F
    <3>2. \A x \in (FullText \ Base) \X V : <<First(x[1])>> \o x[2] \in V
      <4> HIDE DEF V, Base
      <4> QED BY <3>1
    <3> HIDE DEF V, Base
    <3> QED BY <3>2
  <2>5. \A t \in FullText \ Base : size[next[t]] < size[t]
    <3>1. ASSUME NEW t \in FullText \ Base PROVE size[next[t]] < size[t]
      <4>1. Rest(t) \in FullText /\ Weight(Rest(t)) < Weight(t)
        BY RoundTyped
      <4>2. next[t] = Rest(t) /\ size[t] = Weight(t)
        BY Zenon
      <4>3. size[Rest(t)] = Weight(Rest(t))
        BY <4>1
      <4> HIDE DEF next, size
      <4> QED BY <4>1, <4>2, <4>3
    <3> QED BY <3>1
  <2> HIDE DEF V, size, Base, base, next, combine
  <2> QED BY <2>1, <2>2, <2>3, <2>4, <2>5 DEF Recursive
<1> DEFINE Step(f, t) == IF LastRound(t) THEN <<LastPage(t)>> ELSE <<First(t)>> \o f[Rest(t)]
<1>2. PICK f \in [FullText -> V] : \A t \in FullText : f[t] = Body(Base, base, next, combine, f, t)
  <2> HIDE DEF V, size, Base, base, next, combine
  <2> QED BY <1>1, RecursionDefines
<1>3. ASSUME NEW t \in FullText PROVE f[t] = Step(f, t)
  <2>1. CASE LastRound(t)
    <3>1. t \in Base
      BY <2>1
    <3>2. f[t] = base[t]
      BY <1>2, <3>1, Zenon DEF Body
    <3>3. base[t] = <<LastPage(t)>>
      BY <3>1, Zenon
    <3> QED BY <2>1, <3>2, <3>3, Zenon
  <2>2. CASE ~LastRound(t)
    <3>1. t \in FullText \ Base
      BY <2>2
    <3>2. f[t] = combine[<<t, f[next[t]]>>]
      BY <1>2, <3>1, Zenon DEF Body
    <3>3. next[t] = Rest(t)
      BY <3>1, Zenon
    <3>4. f[Rest(t)] \in V
      <4>1. Rest(t) \in FullText
        BY <2>2, RoundTyped
      <4> HIDE DEF V
      <4> QED BY <1>2, <4>1
    <3>5. combine[<<t, f[Rest(t)]>>] = <<First(t)>> \o f[Rest(t)]
      <4> HIDE DEF V, Base
      <4> QED BY <3>1, <3>4
    <3> QED BY <2>2, <3>2, <3>3, <3>5, Zenon
  <2> QED BY <2>1, <2>2
<1>4. f = [t \in FullText |-> Step(f, t)]
  <2> HIDE DEF Step, V
  <2> QED BY <1>2, <1>3
<1>5. ASSUME NEW t, NEW g
      PROVE  Step(g, t) =
               IF Length(t) <= MaxChars THEN <<t>>
               ELSE LET s == NextSection(t)
                    IN IF Normalized(s.tail) <= MaxRest THEN <<WithRest(s.head, s.tail)>>
                       ELSE <<s.head>> \o g[s.tail]
  BY Zenon DEF LastRound, LastPage, First, Rest
<1>6. \A g : [t \in FullText |-> Step(g, t)] =
        [t \in FullText |-> IF Length(t) <= MaxChars THEN <<t>>
                ELSE LET s == NextSection(t)
                     IN IF Normalized(s.tail) <= MaxRest THEN <<WithRest(s.head, s.tail)>>
                        ELSE <<s.head>> \o g[s.tail]]
  <2> HIDE DEF Step
  <2> QED BY <1>5, Zenon
<1> HIDE DEF Step
<1>7. SectionsFrom = CHOOSE g : g = [t \in FullText |-> Step(g, t)]
  <2>1. SectionsFrom = CHOOSE g : g =
        [t \in FullText |-> IF Length(t) <= MaxChars THEN <<t>>
                ELSE LET s == NextSection(t)
                     IN IF Normalized(s.tail) <= MaxRest THEN <<WithRest(s.head, s.tail)>>
                        ELSE <<s.head>> \o g[s.tail]]
    BY Zenon DEF SectionsFrom
  <2> QED BY <1>6, <2>1, Zenon
<1>8. SectionsFrom = [t \in FullText |-> Step(SectionsFrom, t)]
  BY <1>4, <1>7, Zenon
<1>9. ASSUME NEW t \in FullText PROVE SectionsFrom[t] = Step(SectionsFrom, t)
  BY <1>8, Zenon
<1> DEFINE G == {t \in FullText : SectionsFrom[t] \in V}
<1>10. ASSUME NEW t \in FullText, LastRound(t) PROVE t \in G
  <2>1. SectionsFrom[t] = <<LastPage(t)>>
    BY <1>9, <1>10, Zenon DEF Step
  <2>2. <<LastPage(t)>> \in V
    <3>1. LastPage(t) \in FullText
      BY RoundTyped
    <3> DEFINE x == LastPage(t)
               F == FullText
    <3> HIDE DEF x, F
    <3>2. x \in F => <<x>> \in Seq(F)
      OBVIOUS
    <3> QED BY <3>1, <3>2 DEF x, F
  <2> QED BY <2>1, <2>2, Zenon
<1>11. ASSUME NEW t \in FullText, ~LastRound(t), Rest(t) \in G PROVE t \in G
  <2> DEFINE x == First(t)
             F == FullText
             l == SectionsFrom[Rest(t)]
  <2>1. SectionsFrom[t] = <<x>> \o l
    BY <1>9, <1>11, Zenon DEF Step
  <2>2. x \in F /\ l \in Seq(F)
    BY <1>11, RoundTyped
  <2>3. <<x>> \o l \in V
    <3> HIDE DEF x, l, F
    <3>1. <<x>> \in Seq(F)
      BY <2>2
    <3>2. <<x>> \o l \in Seq(F)
      BY <2>2, <3>1, ConcatProperties
    <3> QED BY <3>2 DEF F
  <2> QED BY <2>1, <2>3, Zenon
<1>12. \A t \in FullText : t \in G
  <2> HIDE DEF G
  <2> QED BY <1>10, <1>11, TextInduction
<1>13. SectionsFrom \in [FullText -> V]
  <2>1. SectionsFrom = [t \in FullText |-> SectionsFrom[t]]
    BY <1>8, <1>9
  <2>2. \A t \in FullText : SectionsFrom[t] \in V
    BY <1>12
  <2> HIDE DEF V
  <2> QED BY <2>1, <2>2
<1>14. \A t \in FullText : SectionsFrom[t] = Step(SectionsFrom, t)
  BY <1>9
<1> QED BY <1>13, <1>14, Zenon DEF Step

(* The pages of a text are texts.                                          *)
LEMMA SectionsTyped ==
  ASSUME NEW t \in Text
  PROVE  /\ NoEmpty(t) \in FullText /\ Sections(t) = SectionsFrom[NoEmpty(t)]
         /\ Sections(t) \in Seq(FullText) /\ Sections(t) \in Seq(Text)
<1>1. NoEmpty(t) \in FullText
  <2>1. <<>> \in Paragraph
    BY EmptySeq DEF Paragraph
  <2> QED BY <2>1, NoEmptyAppend
<1>2. Sections(t) = SectionsFrom[NoEmpty(t)]
  BY Zenon DEF Sections
<1>3. Sections(t) \in Seq(FullText)
  BY <1>1, <1>2, SectionsEquation
<1>4. Sections(t) \in Seq(Text)
  BY <1>3, FullIsText, SeqMonotonic
<1> QED BY <1>1, <1>2, <1>3, <1>4

(* Normalized, a text is its words with one space between any two.         *)
LEMMA NormalizedWords ==
  ASSUME NEW t \in FullText, t # <<>>
  PROVE  Normalized(t) = Weight(t) + Len(Words(t)) - 1
<1> DEFINE G == {u \in FullText : Total[Sizes(u)] = Weight(u) + Len(Words(u)) - Len(u)}
<1>1. <<>> \in G
  <2>1. <<>> \in FullText /\ Len(<<>>) = 0
    BY EmptySeq DEF FullText
  <2>2. Words(<<>>) = <<>>
    BY FlattenEmpty, Zenon DEF Words
  <2>3. Sizes(<<>>) = <<>> /\ Lens(<<>>) = <<>>
    BY DEF Sizes, Lens
  <2>4. Total[Sizes(<<>>)] = 0 /\ Letters(<<>>) = 0
    BY <2>3, TotalTyped, Zenon DEF Letters
  <2>5. Weight(<<>>) = 0 /\ Len(Words(<<>>)) = 0
    BY <2>1, <2>2, <2>4, Zenon DEF Weight
  <2> QED BY <2>1, <2>4, <2>5
<1>2. ASSUME NEW u \in Seq(Paragraph \ {<<>>}), NEW p \in Paragraph \ {<<>>}, u \in G
      PROVE  Append(u, p) \in G
  <2>1. /\ u \in FullText /\ <<p>> \in FullText /\ Len(<<p>>) = 1
        /\ Total[Sizes(<<p>>)] = Chars(p) /\ Append(u, p) = u \o <<p>>
    BY SizeOfOne, AppendIsConcat DEF FullText
  <2>2. u \in Text /\ <<p>> \in Text
    BY <2>1, FullIsText
  <2>3. /\ u \o <<p>> \in FullText /\ Len(u \o <<p>>) = Len(u) + 1
        /\ Total[Sizes(u \o <<p>>)] = Total[Sizes(u)] + Chars(p)
    BY <2>1, SizesConcat
  <2>4. Weight(u \o <<p>>) = Weight(u) + Letters(p)
    BY <2>2, WeightConcat, OneParagraph
  <2>5. Words(u \o <<p>>) = Words(u) \o p
    <3>1. Words(<<p>>) = p
      BY OneParagraph
    <3>2. Words(u \o <<p>>) = Words(u) \o Words(<<p>>)
      BY <2>2, WordsConcat
    <3> QED BY <3>1, <3>2, Zenon
  <2>6. Len(Words(u) \o p) = Len(Words(u)) + Len(p) /\ Len(Words(u)) \in Nat
    BY <2>2, WordsTyped, ConcatProperties, LenProperties DEF Paragraph
  <2>7. Len(Words(u \o <<p>>)) = Len(Words(u)) + Len(p)
    BY <2>5, <2>6, Zenon
  <2>8. /\ Chars(p) = Letters(p) + Len(p) - 1 /\ Letters(p) \in Nat /\ Len(p) \in Nat
        /\ Weight(u) \in Nat /\ Len(u) \in Nat
    BY <2>1, <2>2, CharsTyped, WordsTyped, SizesTyped
  <2>9. Total[Sizes(u)] = Weight(u) + Len(Words(u)) - Len(u)
    BY <1>2
  <2>10. Total[Sizes(u \o <<p>>)]
           = Weight(u \o <<p>>) + Len(Words(u \o <<p>>)) - Len(u \o <<p>>)
    BY <2>3, <2>4, <2>6, <2>7, <2>8, <2>9, SMTT(30)
  <2>11. u \o <<p>> \in G
    BY <2>3, <2>10
  <2> HIDE DEF G
  <2> QED BY <2>1, <2>11
<1> HIDE DEF G
<1>3. \A u \in Seq(Paragraph \ {<<>>}) : u \in G
  BY <1>1, <1>2, SequenceInduction
<1>4. t \in G
  BY <1>3 DEF FullText
<1>5. /\ Total[Sizes(t)] = Weight(t) + Len(Words(t)) - Len(t)
      /\ Normalized(t) = Total[Sizes(t)] + Len(t) - 1
  BY <1>4, LengthSplit DEF G
<1>6. Len(t) \in Nat /\ Weight(t) \in Nat /\ Len(Words(t)) \in Nat
  BY FullIsText, SizesTyped, WordsTyped, LenProperties DEF Paragraph
<1> QED BY <1>5, <1>6

(* Cutting a text keeps its letters, and a word more at most comes of it.  *)
LEMMA CutKeeps ==
  ASSUME NEW t \in FullText, Length(t) > MaxChars
  PROVE  /\ First(t) \in Text /\ Rest(t) \in Text
         /\ Weight(First(t)) + Weight(Rest(t)) = Weight(t)
         /\ Len(Words(First(t))) + Len(Words(Rest(t))) >= Len(Words(t))
<1> DEFINE s == NextSection(t)
           h == First(t)
           u == Rest(t)
<1>1. h \in FullText /\ u \in FullText /\ CutSomewhere(t, s) /\ h = s.head /\ u = s.tail
  BY NextSectionWell DEF First, Rest
<1>2. h \in Text /\ u \in Text /\ t \in Text
  BY <1>1, FullIsText
<1>3. t # <<>>
  <2>1. t = <<>> => Length(t) = -2
    BY SizesTyped
  <2> QED BY <2>1, SectionsAssumption
<1> HIDE DEF s, h, u
<1>4. CASE t = h \o u
  <2>1. Weight(h \o u) = Weight(h) + Weight(u)
    BY <1>2, WeightConcat
  <2>2. Words(h \o u) = Words(h) \o Words(u)
    BY <1>2, WordsConcat
  <2>3. /\ Len(Words(h) \o Words(u)) = Len(Words(h)) + Len(Words(u))
        /\ Len(Words(h)) \in Nat /\ Len(Words(u)) \in Nat
    BY <1>2, WordsTyped, ConcatProperties, LenProperties DEF Paragraph
  <2>4. Weight(t) = Weight(h) + Weight(u) /\ Len(Words(t)) = Len(Words(h)) + Len(Words(u))
    BY <1>4, <2>1, <2>2, <2>3, Zenon
  <2> QED BY <1>2, <2>3, <2>4 DEF h, u
<1>5. ASSUME NEW c \in [head: Paragraph \ {<<>>}, tail: Paragraph \ {<<>>}],
             h = <<c.head>>, u = <<c.tail>> \o Tail(t),
             CutBetween(Head(t), c) \/ CutWithin(Head(t), c)
      PROVE  /\ Weight(h) + Weight(u) = Weight(t)
             /\ Len(Words(h)) + Len(Words(u)) >= Len(Words(t))
  <2> DEFINE p == Head(t)
             z == Tail(t)
             x == c.head
             y == c.tail
  <2>1. /\ p \in Paragraph /\ p # <<>> /\ z \in Text
        /\ Words(t) = p \o Words(z) /\ Weight(t) = Letters(p) + Weight(z)
    BY <1>2, <1>3, FirstParagraph, FullHead
  <2>2. x \in Paragraph /\ y \in Paragraph
    OBVIOUS
  <2> HIDE DEF p, z, x, y
  <2>3. /\ <<x>> \in Text /\ Words(<<x>>) = x /\ Weight(<<x>>) = Letters(x)
        /\ <<y>> \in Text /\ Words(<<y>>) = y /\ Weight(<<y>>) = Letters(y)
    BY <2>2, OneParagraph
  <2>4. /\ Words(<<y>> \o z) = Words(<<y>>) \o Words(z)
        /\ Weight(<<y>> \o z) = Weight(<<y>>) + Weight(z)
    BY <2>1, <2>3, WordsConcat, WeightConcat
  <2>5. /\ Words(h) = x /\ Weight(h) = Letters(x)
        /\ Words(u) = y \o Words(z) /\ Weight(u) = Letters(y) + Weight(z)
    BY <1>5, <2>3, <2>4, Zenon DEF x, y, z
  <2>6. Words(z) \in Paragraph /\ Weight(z) \in Nat
    BY <2>1, WordsTyped
  <2>7. /\ Len(y \o Words(z)) = Len(y) + Len(Words(z))
        /\ Len(p \o Words(z)) = Len(p) + Len(Words(z))
        /\ Len(x) \in Nat /\ Len(y) \in Nat /\ Len(p) \in Nat /\ Len(Words(z)) \in Nat
    BY <2>1, <2>2, <2>6, ConcatProperties, LenProperties DEF Paragraph
  <2>8. Letters(x) \in Nat /\ Letters(y) \in Nat
    BY <2>2, LensTyped
  <2>9. Letters(x) + Letters(y) = Letters(p) /\ Len(x) + Len(y) >= Len(p)
    <3>1. CASE CutBetween(p, c)
      <4>1. p = x \o y
        BY <3>1 DEF CutBetween, x, y
      <4>2. Letters(x \o y) = Letters(x) + Letters(y) /\ Len(x \o y) = Len(x) + Len(y)
        BY <2>2, LettersConcat, ConcatProperties DEF Paragraph
      <4>3. Letters(p) = Letters(x) + Letters(y) /\ Len(p) = Len(x) + Len(y)
        BY <4>1, <4>2, Zenon
      <4> QED BY <2>7, <2>8, <4>3
    <3>2. CASE CutWithin(p, c)
      <4>1. PICK v \in Word, w \in Word :
              x = <<v>> /\ y = <<w>> \o Tail(p) /\ v.len + w.len = Head(p).len
        BY <3>2, Zenon DEF CutWithin, x, y
      <4>2. /\ Tail(p) \in Paragraph /\ Letters(p) = Head(p).len + Letters(Tail(p))
            /\ Len(Tail(p)) = Len(p) - 1
        BY <2>1, FirstWord, HeadTailProperties DEF Paragraph
      <4>3. /\ <<w>> \in Paragraph /\ Letters(<<v>>) = v.len /\ Letters(<<w>>) = w.len
            /\ Len(<<v>>) = 1 /\ Len(<<w>>) = 1 /\ v.len \in Nat /\ w.len \in Nat
        BY LettersOne DEF Word
      <4>4. /\ Letters(<<w>> \o Tail(p)) = w.len + Letters(Tail(p))
            /\ Len(<<w>> \o Tail(p)) = 1 + Len(Tail(p))
        <5>1. Letters(<<w>> \o Tail(p)) = Letters(<<w>>) + Letters(Tail(p))
          BY <4>2, <4>3, LettersConcat
        <5>2. Len(<<w>> \o Tail(p)) = Len(<<w>>) + Len(Tail(p))
          BY <4>2, <4>3, ConcatProperties DEF Paragraph
        <5> QED BY <4>3, <5>1, <5>2, Zenon
      <4>5. /\ Letters(y) = w.len + Letters(Tail(p)) /\ Len(y) = 1 + Len(Tail(p))
            /\ Letters(x) = v.len /\ Len(x) = 1
        BY <4>1, <4>3, <4>4, Zenon
      <4>6. Letters(Tail(p)) \in Nat
        BY <4>2, LensTyped
      <4> DEFINE a == v.len
                 b == w.len
                 k == Letters(Tail(p))
                 n == Len(p)
      <4>7. /\ Letters(x) = a /\ Letters(y) = b + k /\ Letters(p) = a + b + k
            /\ Len(x) = 1 /\ Len(y) = 1 + (n - 1)
        BY <4>1, <4>2, <4>5, Zenon
      <4>8. a \in Nat /\ b \in Nat /\ k \in Nat /\ n \in Nat
        BY <2>7, <4>3, <4>6
      <4> HIDE DEF a, b, k, n
      <4>9. a + (b + k) = a + b + k /\ 1 + (1 + (n - 1)) >= n
        BY <4>8
      <4>10. Letters(x) + Letters(y) = a + (b + k) /\ Len(x) + Len(y) = 1 + (1 + (n - 1))
        BY <4>7, Zenon
      <4> QED BY <4>7, <4>9, <4>10, Zenon DEF n
    <3> QED BY <1>5, <3>1, <3>2 DEF p
  <2>10. /\ Len(Words(t)) = Len(p) + Len(Words(z)) /\ Len(Words(h)) = Len(x)
         /\ Len(Words(u)) = Len(y) + Len(Words(z))
    BY <2>1, <2>5, <2>7, Zenon
  <2> QED BY <2>1, <2>5, <2>6, <2>7, <2>8, <2>9, <2>10
<1>6. CASE t # h \o u
  <2>1. \E c \in [head: Paragraph \ {<<>>}, tail: Paragraph \ {<<>>}] :
          /\ h = <<c.head>> /\ u = <<c.tail>> \o Tail(t)
          /\ CutBetween(Head(t), c) \/ CutWithin(Head(t), c)
    BY <1>1, <1>6, Zenon DEF CutSomewhere
  <2> QED BY <1>2, <1>5, <2>1 DEF h, u
<1> QED BY <1>4, <1>6

(* A first page before other pages.                                        *)
LEMMA FirstPage ==
  ASSUME NEW F, NEW x \in F, NEW r \in Seq(F)
  PROVE  /\ <<x>> \o r \in Seq(F) /\ <<x>> \o r # <<>>
         /\ Len(r) \in Nat /\ Len(<<x>> \o r) = Len(r) + 1
         /\ (<<x>> \o r)[1] = x
         /\ \A i \in 1..Len(r) : (<<x>> \o r)[i + 1] = r[i]
<1> DEFINE q == <<x>>
<1>1. q \in Seq(F) /\ Len(q) = 1 /\ q[1] = x /\ Len(r) \in Nat
  BY LenProperties
<1> HIDE DEF q
<1>2. /\ q \o r \in Seq(F) /\ Len(q \o r) = Len(q) + Len(r)
      /\ \A i \in 1..(Len(q) + Len(r)) :
           (q \o r)[i] = IF i <= Len(q) THEN q[i] ELSE r[i - Len(q)]
  BY <1>1, ConcatProperties
<1>3. (q \o r)[1] = x
  BY <1>1, <1>2
<1>4. ASSUME NEW i \in 1..Len(r) PROVE (q \o r)[i + 1] = r[i]
  <2>1. i + 1 \in 1..(1 + Len(r)) /\ ~(i + 1 <= 1) /\ i + 1 - 1 = i
    BY <1>1
  <2> QED BY <1>1, <1>2, <2>1
<1>5. q \o r # <<>>
  <2>1. Len(q \o r) # 0
    BY <1>1, <1>2
  <2> QED BY <2>1
<1> QED BY <1>1, <1>2, <1>3, <1>4, <1>5 DEF q

(* Rounds that are the last.                                               *)
LEMMA LastPageSized ==
  ASSUME NEW t \in FullText, LastRound(t)
  PROVE  /\ Normalized(LastPage(t)) <= MaxChars + 1 + MaxRest
         /\ Normalized(t) > MaxRest => Normalized(LastPage(t)) > MaxRest
<1>1. MaxChars \in Nat /\ MaxRest \in Nat
  BY SectionsAssumption
<1>2. CASE Length(t) <= MaxChars
  <2>1. LastPage(t) = t
    BY <1>2, Zenon DEF LastPage
  <2>2. CASE t = <<>>
    <3>1. Normalized(t) = 0
      BY <2>2, Zenon DEF Normalized
    <3> QED BY <1>1, <2>1, <3>1
  <2>3. CASE t # <<>>
    <3>1. Normalized(t) <= Length(t) /\ Normalized(t) \in Nat /\ Length(t) \in Nat
      BY <2>3, LengthSplit, SizesTyped
    <3> QED BY <1>1, <1>2, <2>1, <3>1
  <2> QED BY <2>2, <2>3
<1>3. CASE ~(Length(t) <= MaxChars)
  <2>1. Length(t) > MaxChars
    BY <1>1, <1>3, RoundTyped
  <2> DEFINE h == First(t)
             u == Rest(t)
  <2>2. /\ h \in FullText /\ h # <<>> /\ u \in FullText /\ u # <<>>
        /\ Length(h) <= MaxChars
    BY <2>1, NextSectionWell DEF First, Rest
  <2>3. LastPage(t) = WithRest(h, u)
    BY <1>3, Zenon DEF LastPage
  <2>4. Normalized(u) <= MaxRest
    BY <1>3 DEF LastRound
  <2>5. t # <<>>
    <3>1. t = <<>> => Length(t) = -2
      BY SizesTyped
    <3> QED BY <1>1, <2>1, <3>1
  <2>6. /\ Weight(h) + Weight(u) = Weight(t)
        /\ Len(Words(h)) + Len(Words(u)) >= Len(Words(t))
    BY <2>1, CutKeeps
  <2> HIDE DEF h, u
  <2>7. Normalized(WithRest(h, u)) = Normalized(h) + 1 + Normalized(u)
    BY <2>2, RestJoined
  <2>8. /\ Normalized(h) <= Length(h) /\ Normalized(h) \in Nat /\ Length(h) \in Nat
        /\ Normalized(u) \in Nat /\ Normalized(t) \in Nat
    BY <2>2, <2>5, LengthSplit, SizesTyped
  <2>9. /\ Normalized(h) = Weight(h) + Len(Words(h)) - 1
        /\ Normalized(u) = Weight(u) + Len(Words(u)) - 1
        /\ Normalized(t) = Weight(t) + Len(Words(t)) - 1
    BY <2>2, <2>5, NormalizedWords
  <2>10. /\ Weight(h) \in Nat /\ Weight(u) \in Nat /\ Weight(t) \in Nat
         /\ Len(Words(h)) \in Nat /\ Len(Words(u)) \in Nat /\ Len(Words(t)) \in Nat
    BY <2>2, FullIsText, WordsTyped, LenProperties DEF Paragraph
  <2>11. Normalized(h) + 1 + Normalized(u) >= Normalized(t)
    <3> DEFINE a == Weight(h)
               b == Weight(u)
               c == Weight(t)
               i == Len(Words(h))
               j == Len(Words(u))
               k == Len(Words(t))
    <3>1. /\ a \in Nat /\ b \in Nat /\ c \in Nat /\ i \in Nat /\ j \in Nat /\ k \in Nat
          /\ a + b = c /\ i + j >= k
          /\ Normalized(h) = a + i - 1 /\ Normalized(u) = b + j - 1
          /\ Normalized(t) = c + k - 1
      BY <2>6, <2>9, <2>10
    <3> HIDE DEF a, b, c, i, j, k
    <3> QED BY <3>1
  <2> QED BY <1>1, <2>2, <2>3, <2>4, <2>7, <2>8, <2>11
<1> QED BY <1>2, <1>3

(* Every page is at most MaxChars long, the last at most as much longer as *)
(* a rest and the space before it; and only a text of one page ends with a *)
(* page that is as short as a rest (story-parser.service.ts:34-84).        *)
THEOREM SectionsSized ==
  \A t \in Text : PagesSized(Sections(t)) /\ LastPageFull(Sections(t))
<1> DEFINE Sized(t, l) ==
             /\ l # <<>> /\ PagesSized(l) /\ LastPageFull(l)
             /\ Normalized(t) > MaxRest => Normalized(l[Len(l)]) > MaxRest
           G == {t \in FullText : Sized(t, SectionsFrom[t])}
<1>1. ASSUME NEW t \in FullText, LastRound(t) PROVE t \in G
  <2> DEFINE x == LastPage(t)
             l == SectionsFrom[t]
  <2>1. l = <<x>>
    BY <1>1, SectionsEquation, Zenon
  <2>2. /\ Normalized(x) <= MaxChars + 1 + MaxRest
        /\ Normalized(t) > MaxRest => Normalized(x) > MaxRest
    BY <1>1, LastPageSized
  <2> HIDE DEF x, l
  <2>3. Len(l) = 1 /\ l[1] = x /\ l # <<>> /\ DOMAIN l = 1..1
    BY <2>1
  <2>4. PagesSized(l) /\ LastPageFull(l)
    BY <2>2, <2>3 DEF PagesSized, LastPageFull
  <2>5. Sized(t, l)
    BY <2>2, <2>3, <2>4
  <2> QED BY <2>5 DEF l
<1>2. ASSUME NEW t \in FullText, ~LastRound(t), Rest(t) \in G PROVE t \in G
  <2> DEFINE x == First(t)
             r == SectionsFrom[Rest(t)]
             l == SectionsFrom[t]
  <2>1. l = <<x>> \o r
    BY <1>2, SectionsEquation, Zenon
  <2>2. x \in FullText /\ r \in Seq(FullText)
    BY <1>2, RoundTyped, SectionsEquation
  <2>3. Length(x) <= MaxChars
    <3>1. Length(t) > MaxChars
      BY <1>2, RoundTyped, SectionsAssumption DEF LastRound
    <3> QED BY <3>1, NextSectionWell DEF First
  <2>4. Normalized(Rest(t)) > MaxRest
    <3>1. Rest(t) \in FullText /\ ~(Normalized(Rest(t)) <= MaxRest)
      BY <1>2, RoundTyped DEF LastRound
    <3>2. Normalized(Rest(t)) \in Nat
      BY <3>1, LengthSplit DEF Normalized
    <3> QED BY <3>1, <3>2, SectionsAssumption
  <2>5. /\ r # <<>> /\ PagesSized(r) /\ LastPageFull(r)
        /\ Normalized(r[Len(r)]) > MaxRest
    BY <1>2, <2>4
  <2> HIDE DEF x, r, l
  <2>6. /\ l \in Seq(FullText) /\ l # <<>> /\ Len(r) \in Nat /\ Len(l) = Len(r) + 1
        /\ l[1] = x /\ \A i \in 1..Len(r) : l[i + 1] = r[i]
    BY <2>1, <2>2, FirstPage
  <2>7. Len(r) # 0 /\ DOMAIN l = 1..Len(l) /\ DOMAIN r = 1..Len(r)
    BY <2>2, <2>5, <2>6, EmptySeq, LenProperties
  <2>8. l[Len(l)] = r[Len(r)]
    BY <2>6, <2>7
  <2>9. PagesSized(l)
    <3> SUFFICES ASSUME NEW i \in 1..Len(l)
                 PROVE  IF i < Len(l) THEN Length(l[i]) <= MaxChars
                        ELSE Normalized(l[i]) <= MaxChars + 1 + MaxRest
      BY <2>7 DEF PagesSized
    <3>1. CASE i = 1
      BY <2>3, <2>6, <2>7, <3>1
    <3>2. CASE i # 1
      <4>1. i - 1 \in 1..Len(r) /\ l[i] = r[i - 1] /\ (i < Len(l) <=> i - 1 < Len(r))
        <5>1. i - 1 \in 1..Len(r) /\ i - 1 + 1 = i /\ (i < Len(l) <=> i - 1 < Len(r))
          BY <2>6, <3>2
        <5> QED BY <2>6, <5>1
      <4>2. IF i - 1 < Len(r) THEN Length(r[i - 1]) <= MaxChars
            ELSE Normalized(r[i - 1]) <= MaxChars + 1 + MaxRest
        BY <2>5, <2>7, <4>1 DEF PagesSized
      <4> QED BY <4>1, <4>2
    <3> QED BY <3>1, <3>2
  <2>10. Sized(t, l)
    BY <2>5, <2>6, <2>8, <2>9 DEF LastPageFull
  <2> QED BY <2>10 DEF l
<1> HIDE DEF G
<1>3. \A t \in FullText : t \in G
  BY <1>1, <1>2, TextInduction
<1> USE DEF G
<1> QED BY <1>3, SectionsTyped

-----------------------------------------------------------------------------
(* Words that are cut in two.                                              *)

Ids(ws)     == {ws[i].id : i \in 1..Len(ws)}
Ordered(ws) == \A i, j \in 1..Len(ws) : i < j => ws[i].id <= ws[j].id
HasLong(ws) == \E i \in 1..Len(ws) : ws[i].len > MaxChars

LEMMA ConcatWords ==
  ASSUME NEW p \in Paragraph, NEW q \in Paragraph
  PROVE  /\ p \o q \in Paragraph /\ Len(p \o q) = Len(p) + Len(q)
         /\ Len(p) \in Nat /\ Len(q) \in Nat
         /\ \A i \in 1..Len(p) : (p \o q)[i] = p[i] /\ i \in 1..Len(p \o q)
         /\ \A i \in 1..Len(q) : /\ (p \o q)[Len(p) + i] = q[i]
                                 /\ Len(p) + i \in 1..Len(p \o q)
         /\ \A k \in 1..Len(p \o q) : \/ k \in 1..Len(p)
                                      \/ k > Len(p) /\ k - Len(p) \in 1..Len(q)
                                         /\ k = Len(p) + (k - Len(p))
<1>1. /\ p \o q \in Paragraph /\ Len(p \o q) = Len(p) + Len(q)
      /\ \A i \in 1..(Len(p) + Len(q)) :
           (p \o q)[i] = IF i <= Len(p) THEN p[i] ELSE q[i - Len(p)]
      /\ Len(p) \in Nat /\ Len(q) \in Nat
  BY ConcatProperties, LenProperties DEF Paragraph
<1>2. ASSUME NEW i \in 1..Len(p) PROVE (p \o q)[i] = p[i] /\ i \in 1..Len(p \o q)
  BY <1>1
<1>3. ASSUME NEW i \in 1..Len(q)
      PROVE  (p \o q)[Len(p) + i] = q[i] /\ Len(p) + i \in 1..Len(p \o q)
  <2>1. /\ Len(p) + i \in 1..(Len(p) + Len(q)) /\ ~(Len(p) + i <= Len(p))
        /\ Len(p) + i - Len(p) = i
    BY <1>1
  <2> QED BY <1>1, <2>1
<1>4. ASSUME NEW k \in 1..Len(p \o q)
      PROVE  \/ k \in 1..Len(p)
             \/ k > Len(p) /\ k - Len(p) \in 1..Len(q) /\ k = Len(p) + (k - Len(p))
  BY <1>1
<1> QED BY <1>1, <1>2, <1>3, <1>4

LEMMA WordsId ==
  ASSUME NEW p \in Paragraph, NEW i \in 1..Len(p)
  PROVE  /\ p[i] \in Word /\ p[i].id \in Nat /\ p[i].len \in Nat \ {0}
         /\ p[i].stop \in BOOLEAN /\ p[i].id \in Ids(p)
<1>1. p[i] \in Word
  BY ElementOfSeq DEF Paragraph
<1>2. p[i].id \in Ids(p)
  BY DEF Ids
<1> QED BY <1>1, <1>2 DEF Word

LEMMA IdsOf ==
  ASSUME NEW p \in Paragraph
  PROVE  Ids(p) \subseteq Nat /\ \A x \in Ids(p) : \E i \in 1..Len(p) : x = p[i].id
BY WordsId DEF Ids

LEMMA IdsConcat ==
  ASSUME NEW p \in Paragraph, NEW q \in Paragraph
  PROVE  Ids(p \o q) = Ids(p) \cup Ids(q)
<1> DEFINE r == p \o q
<1>1. ASSUME NEW x \in Ids(r) PROVE x \in Ids(p) \cup Ids(q)
  <2>1. PICK k \in 1..Len(r) : x = r[k].id
    BY DEF Ids
  <2>2. CASE k \in 1..Len(p)
    <3>1. r[k] = p[k]
      BY <2>2, ConcatWords
    <3>2. x = p[k].id
      BY <2>1, <3>1, Zenon
    <3> QED BY <2>2, <3>2 DEF Ids
  <2>3. CASE k > Len(p) /\ k - Len(p) \in 1..Len(q) /\ k = Len(p) + (k - Len(p))
    <3>1. r[Len(p) + (k - Len(p))] = q[k - Len(p)]
      BY <2>3, ConcatWords
    <3>2. x = q[k - Len(p)].id
      BY <2>1, <2>3, <3>1, Zenon
    <3> QED BY <2>3, <3>2 DEF Ids
  <2>4. \/ k \in 1..Len(p)
        \/ k > Len(p) /\ k - Len(p) \in 1..Len(q) /\ k = Len(p) + (k - Len(p))
    <3>1. k \in 1..Len(p \o q)
      BY <2>1
    <3> HIDE DEF r
    <3> QED BY <3>1, ConcatWords
  <2> QED BY <2>2, <2>3, <2>4, Zenon
<1>2. ASSUME NEW x \in Ids(p) PROVE x \in Ids(r)
  <2>1. PICK i \in 1..Len(p) : x = p[i].id
    BY DEF Ids
  <2>2. r[i] = p[i] /\ i \in 1..Len(r)
    BY ConcatWords
  <2> HIDE DEF r
  <2> QED BY <2>1, <2>2 DEF Ids
<1>3. ASSUME NEW x \in Ids(q) PROVE x \in Ids(r)
  <2>1. PICK i \in 1..Len(q) : x = q[i].id
    BY DEF Ids
  <2>2. r[Len(p) + i] = q[i] /\ Len(p) + i \in 1..Len(r)
    BY ConcatWords
  <2> HIDE DEF r
  <2>3. x = r[Len(p) + i].id
    BY <2>1, <2>2
  <2> QED BY <2>2, <2>3 DEF Ids
<1> HIDE DEF r
<1>4. Ids(r) = Ids(p) \cup Ids(q)
  BY <1>1, <1>2, <1>3
<1> QED BY <1>4 DEF r

LEMMA LongConcat ==
  ASSUME NEW p \in Paragraph, NEW q \in Paragraph
  PROVE  HasLong(p \o q) <=> HasLong(p) \/ HasLong(q)
<1> DEFINE r == p \o q
<1>1. ASSUME HasLong(r) PROVE HasLong(p) \/ HasLong(q)
  <2>1. PICK k \in 1..Len(r) : r[k].len > MaxChars
    BY <1>1 DEF HasLong
  <2>2. CASE k \in 1..Len(p)
    <3>1. r[k] = p[k]
      BY <2>2, ConcatWords
    <3>2. p[k].len > MaxChars
      BY <2>1, <3>1, Zenon
    <3> QED BY <2>2, <3>2 DEF HasLong
  <2>3. CASE k > Len(p) /\ k - Len(p) \in 1..Len(q) /\ k = Len(p) + (k - Len(p))
    <3>1. r[Len(p) + (k - Len(p))] = q[k - Len(p)]
      BY <2>3, ConcatWords
    <3>2. q[k - Len(p)].len > MaxChars
      BY <2>1, <2>3, <3>1, Zenon
    <3> QED BY <2>3, <3>2 DEF HasLong
  <2>4. \/ k \in 1..Len(p)
        \/ k > Len(p) /\ k - Len(p) \in 1..Len(q) /\ k = Len(p) + (k - Len(p))
    <3>1. k \in 1..Len(p \o q)
      BY <2>1
    <3> HIDE DEF r
    <3> QED BY <3>1, ConcatWords
  <2> QED BY <2>2, <2>3, <2>4, Zenon
<1>2. ASSUME HasLong(p) PROVE HasLong(r)
  <2>1. PICK i \in 1..Len(p) : p[i].len > MaxChars
    BY <1>2 DEF HasLong
  <2>2. r[i] = p[i] /\ i \in 1..Len(r)
    BY ConcatWords
  <2> HIDE DEF r
  <2> QED BY <2>1, <2>2 DEF HasLong
<1>3. ASSUME HasLong(q) PROVE HasLong(r)
  <2>1. PICK i \in 1..Len(q) : q[i].len > MaxChars
    BY <1>3 DEF HasLong
  <2>2. r[Len(p) + i] = q[i] /\ Len(p) + i \in 1..Len(r)
    BY ConcatWords
  <2> HIDE DEF r
  <2>3. r[Len(p) + i].len > MaxChars
    BY <2>1, <2>2
  <2> QED BY <2>2, <2>3 DEF HasLong
<1> HIDE DEF r
<1> QED BY <1>1, <1>2, <1>3 DEF r

LEMMA OrderedConcat ==
  ASSUME NEW p \in Paragraph, NEW q \in Paragraph
  PROVE  Ordered(p \o q) <=> /\ Ordered(p) /\ Ordered(q)
                             /\ \A x \in Ids(p), y \in Ids(q) : x <= y
<1> DEFINE r == p \o q
           m == Len(p)
<1>1. /\ r \in Paragraph /\ m \in Nat /\ Len(q) \in Nat
      /\ \A i \in 1..m : r[i] = p[i] /\ i \in 1..Len(r)
      /\ \A i \in 1..Len(q) : r[m + i] = q[i] /\ m + i \in 1..Len(r)
      /\ \A k \in 1..Len(r) : \/ k \in 1..m
                              \/ k > m /\ k - m \in 1..Len(q) /\ k = m + (k - m)
  BY ConcatWords
<1> HIDE DEF r
<1>2. ASSUME Ordered(r)
      PROVE  Ordered(p) /\ Ordered(q) /\ \A x \in Ids(p), y \in Ids(q) : x <= y
  <2>1. Ordered(p)
    BY <1>1, <1>2 DEF Ordered
  <2>2. Ordered(q)
    <3> SUFFICES ASSUME NEW i \in 1..Len(q), NEW j \in 1..Len(q), i < j
                 PROVE  q[i].id <= q[j].id
      BY DEF Ordered
    <3>1. /\ r[m + i] = q[i] /\ m + i \in 1..Len(r) /\ r[m + j] = q[j]
          /\ m + j \in 1..Len(r) /\ m + i < m + j
      BY <1>1
    <3>2. r[m + i].id <= r[m + j].id
      BY <1>2, <3>1 DEF Ordered
    <3> QED BY <3>1, <3>2
  <2>3. ASSUME NEW x \in Ids(p), NEW y \in Ids(q) PROVE x <= y
    <3>1. PICK i \in 1..m : x = p[i].id
      BY DEF Ids
    <3>2. PICK j \in 1..Len(q) : y = q[j].id
      BY DEF Ids
    <3>3. /\ r[i] = p[i] /\ i \in 1..Len(r) /\ r[m + j] = q[j]
          /\ m + j \in 1..Len(r) /\ i < m + j
      BY <1>1
    <3>4. r[i].id <= r[m + j].id
      BY <1>2, <3>3 DEF Ordered
    <3> QED BY <3>1, <3>2, <3>3, <3>4
  <2> QED BY <2>1, <2>2, <2>3
<1>3. ASSUME Ordered(p), Ordered(q), \A x \in Ids(p), y \in Ids(q) : x <= y
      PROVE  Ordered(r)
  <2> SUFFICES ASSUME NEW i \in 1..Len(r), NEW j \in 1..Len(r), i < j
               PROVE  r[i].id <= r[j].id
    BY DEF Ordered
  <2>1. CASE i \in 1..m /\ j \in 1..m
    BY <1>1, <1>3, <2>1 DEF Ordered
  <2>2. CASE i \in 1..m /\ j > m /\ j - m \in 1..Len(q) /\ j = m + (j - m)
    <3>1. r[i] = p[i] /\ r[m + (j - m)] = q[j - m]
      BY <1>1, <2>2
    <3>2. p[i].id \in Ids(p) /\ q[j - m].id \in Ids(q)
      BY <2>2, WordsId
    <3>3. r[j] = q[j - m]
      BY <2>2, <3>1, Zenon
    <3> QED BY <1>3, <3>1, <3>2, <3>3
  <2>3. CASE /\ i > m /\ i - m \in 1..Len(q) /\ i = m + (i - m)
             /\ j > m /\ j - m \in 1..Len(q) /\ j = m + (j - m)
    <3>1. r[m + (i - m)] = q[i - m] /\ r[m + (j - m)] = q[j - m]
      BY <1>1, <2>3
    <3>2. r[i] = q[i - m] /\ r[j] = q[j - m] /\ i - m < j - m
      <4>1. i - m < j - m
        BY <1>1, <2>3
      <4> QED BY <2>3, <3>1, <4>1, Zenon
    <3> QED BY <1>3, <2>3, <3>2 DEF Ordered
  <2> QED BY <1>1, <2>1, <2>2, <2>3
<1> QED BY <1>2, <1>3 DEF r

(* The letters that a text has of a word.                                  *)
Share(w, id)  == IF w.id = id THEN w.len ELSE 0
Shares(p, id) == [i \in DOMAIN p |-> Share(p[i], id)]

LEMMA SharesTyped ==
  ASSUME NEW p \in Paragraph, NEW id
  PROVE  /\ Shares(p, id) \in Seq(Nat) /\ Len(Shares(p, id)) = Len(p)
         /\ \A i \in 1..Len(p) : Shares(p, id)[i] = Share(p[i], id)
         /\ Pieces(p, id) = Total[Shares(p, id)] /\ Pieces(p, id) \in Nat
<1>1. Len(p) \in Nat /\ DOMAIN p = 1..Len(p)
  BY LenProperties DEF Paragraph
<1>2. \A i \in 1..Len(p) : Share(p[i], id) \in Nat
  BY WordsId DEF Share
<1> HIDE DEF Share
<1>3. Shares(p, id) \in Seq(Nat) /\ Len(Shares(p, id)) = Len(p)
  BY <1>1, <1>2 DEF Shares
<1>4. Pieces(p, id) = Total[Shares(p, id)]
  BY Zenon DEF Pieces, Shares, Share
<1>5. \A i \in 1..Len(p) : Shares(p, id)[i] = Share(p[i], id)
  BY <1>1 DEF Shares
<1> QED BY <1>3, <1>4, <1>5, TotalTyped

LEMMA PiecesConcat ==
  ASSUME NEW p \in Paragraph, NEW q \in Paragraph, NEW id
  PROVE  Pieces(p \o q, id) = Pieces(p, id) + Pieces(q, id)
<1> DEFINE r == p \o q
           u == Shares(p, id)
           v == Shares(q, id)
           w == Shares(r, id)
<1>1. /\ r \in Paragraph /\ Len(r) = Len(p) + Len(q) /\ Len(p) \in Nat /\ Len(q) \in Nat
      /\ \A i \in 1..Len(p) : r[i] = p[i] /\ i \in 1..Len(r)
      /\ \A i \in 1..Len(q) : r[Len(p) + i] = q[i] /\ Len(p) + i \in 1..Len(r)
      /\ \A k \in 1..Len(r) : \/ k \in 1..Len(p)
                              \/ k > Len(p) /\ k - Len(p) \in 1..Len(q)
                                 /\ k = Len(p) + (k - Len(p))
  BY ConcatWords
<1> HIDE DEF r
<1>2. /\ u \in Seq(Nat) /\ Len(u) = Len(p) /\ \A i \in 1..Len(p) : u[i] = Share(p[i], id)
      /\ v \in Seq(Nat) /\ Len(v) = Len(q) /\ \A i \in 1..Len(q) : v[i] = Share(q[i], id)
      /\ w \in Seq(Nat) /\ Len(w) = Len(r) /\ \A i \in 1..Len(r) : w[i] = Share(r[i], id)
  BY <1>1, SharesTyped
<1>3. /\ Pieces(p, id) = Total[u] /\ Pieces(q, id) = Total[v] /\ Pieces(r, id) = Total[w]
  BY <1>1, SharesTyped
<1> HIDE DEF u, v, w, Share
<1>4. /\ u \o v \in Seq(Nat) /\ Len(u \o v) = Len(u) + Len(v)
      /\ \A i \in 1..(Len(u) + Len(v)) :
           (u \o v)[i] = IF i <= Len(u) THEN u[i] ELSE v[i - Len(u)]
  <2>1. u \in Seq(Nat) /\ v \in Seq(Nat)
    BY <1>2
  <2> QED BY <2>1, ConcatProperties
<1>5. ASSUME NEW k \in 1..Len(w) PROVE w[k] = (u \o v)[k]
  <2>1. CASE k \in 1..Len(p)
    <3>1. w[k] = Share(r[k], id) /\ r[k] = p[k] /\ u[k] = Share(p[k], id)
      BY <1>1, <1>2, <2>1
    <3>2. (u \o v)[k] = u[k]
      BY <1>1, <1>2, <1>4, <2>1
    <3> QED BY <3>1, <3>2, Zenon
  <2>2. CASE k > Len(p) /\ k - Len(p) \in 1..Len(q) /\ k = Len(p) + (k - Len(p))
    <3>1. w[k] = Share(r[k], id) /\ v[k - Len(p)] = Share(q[k - Len(p)], id)
      BY <1>1, <1>2, <2>2
    <3>2. r[Len(p) + (k - Len(p))] = q[k - Len(p)]
      BY <1>1, <2>2
    <3>3. (u \o v)[k] = v[k - Len(p)]
      BY <1>1, <1>2, <1>4, <2>2
    <3> QED BY <2>2, <3>1, <3>2, <3>3, Zenon
  <2> QED BY <1>1, <1>2, <2>1, <2>2
<1>6. w = u \o v
  <2>1. Len(w) = Len(u \o v)
    BY <1>1, <1>2, <1>4
  <2> QED BY <1>2, <1>4, <1>5, <2>1, SeqEqual
<1>7. Total[u \o v] = Total[u] + Total[v]
  BY <1>2, TotalConcat
<1>8. Pieces(r, id) = Pieces(p, id) + Pieces(q, id)
  BY <1>3, <1>6, <1>7, Zenon
<1> QED BY <1>8 DEF r

LEMMA TotalOne ==
  ASSUME NEW v \in Seq(Nat), Len(v) = 1
  PROVE  Total[v] = v[1]
<1>1. v # <<>>
  <2>1. Len(<<>>) = 0 /\ 0 # 1
    OBVIOUS
  <2> QED BY <2>1, Zenon
<1>2. Head(v) = v[1] /\ Tail(v) \in Seq(Nat) /\ Len(Tail(v)) = 0
  <2>1. Tail(v) \in Seq(Nat) /\ Len(Tail(v)) = Len(v) - 1
    BY <1>1, HeadTailProperties
  <2>2. Head(v) = v[1]
    OBVIOUS
  <2> QED BY <2>1, <2>2
<1>3. Tail(v) = <<>>
  BY <1>2, EmptySeq
<1>4. Total[v] = Head(v) + Total[Tail(v)] /\ Total[<<>>] = 0
  BY <1>1, TotalTyped
<1>5. Total[v] = v[1] + 0
  BY <1>2, <1>3, <1>4, Zenon
<1>6. v[1] \in Nat
  <2>1. 1 \in 1..Len(v)
    OBVIOUS
  <2> QED BY <2>1, ElementOfSeq
<1> QED BY <1>5, <1>6

LEMMA OneWord ==
  ASSUME NEW w \in Word
  PROVE  /\ <<w>> \in Paragraph /\ Len(<<w>>) = 1 /\ <<w>>[1] = w /\ <<w>> # <<>>
         /\ Ids(<<w>>) = {w.id} /\ Ordered(<<w>>)
         /\ HasLong(<<w>>) <=> w.len > MaxChars
         /\ \A id : Pieces(<<w>>, id) = Share(w, id)
<1> DEFINE p == <<w>>
<1>1. p \in Paragraph /\ Len(p) = 1 /\ p[1] = w /\ p # <<>>
  BY DEF Paragraph
<1> HIDE DEF p
<1>2. Ids(p) = {w.id} /\ Ordered(p) /\ (HasLong(p) <=> w.len > MaxChars)
  BY <1>1 DEF Ids, Ordered, HasLong
<1>3. ASSUME NEW id PROVE Pieces(p, id) = Share(w, id)
  <2> DEFINE s == Share(w, id)
             v == Shares(p, id)
  <2>1. /\ v \in Seq(Nat) /\ Len(v) = 1 /\ v[1] = s /\ Pieces(p, id) = Total[v]
    BY <1>1, SharesTyped
  <2> HIDE DEF s, v
  <2>2. Total[v] = s
    BY <2>1, TotalOne
  <2> QED BY <2>1, <2>2 DEF s
<1> QED BY <1>1, <1>2, <1>3 DEF p

(* vs are the words ws, some of them cut: the same letters of every word,  *)
(* in the same order, and the same words unless one of ws is longer than a *)
(* page.                                                                   *)
SplitOf(ws, vs) ==
  /\ \A id \in Nat : Pieces(vs, id) = Pieces(ws, id)
  /\ Ids(vs) = Ids(ws)
  /\ ws # <<>> => vs # <<>> /\ vs[1].id = ws[1].id
  /\ Ordered(ws) => Ordered(vs)
  /\ ~HasLong(ws) => vs = ws

LEMMA SplitNot ==
  ASSUME NEW ws \in Paragraph
  PROVE  SplitOf(ws, ws)
BY DEF SplitOf

LEMMA SplitTwice ==
  ASSUME NEW ws \in Paragraph, NEW vs \in Paragraph, NEW us \in Paragraph,
         SplitOf(ws, vs), SplitOf(vs, us)
  PROVE  SplitOf(ws, us)
<1>1. \A id \in Nat : Pieces(us, id) = Pieces(ws, id)
  BY DEF SplitOf
<1>2. Ids(us) = Ids(ws) /\ (Ordered(ws) => Ordered(us))
  BY DEF SplitOf
<1>3. ws # <<>> => us # <<>> /\ us[1].id = ws[1].id
  BY DEF SplitOf
<1>4. ~HasLong(ws) => us = ws
  BY Zenon DEF SplitOf
<1> QED BY <1>1, <1>2, <1>3, <1>4 DEF SplitOf

LEMMA SplitEmpty ==
  ASSUME NEW vs \in Paragraph, SplitOf(<<>>, vs)
  PROVE  vs = <<>>
<1>1. ~HasLong(<<>>)
  BY DEF HasLong
<1> QED BY <1>1, Zenon DEF SplitOf

LEMMA SplitConcat ==
  ASSUME NEW a \in Paragraph, NEW b \in Paragraph, SplitOf(a, b),
         NEW c \in Paragraph, NEW d \in Paragraph, SplitOf(c, d)
  PROVE  SplitOf(a \o c, b \o d)
<1> DEFINE ws == a \o c
           vs == b \o d
<1>1. /\ Len(ws) = Len(a) + Len(c) /\ Len(vs) = Len(b) + Len(d)
      /\ Len(a) \in Nat /\ Len(b) \in Nat /\ Len(c) \in Nat /\ Len(d) \in Nat
  BY ConcatWords
<1>2. ASSUME NEW id \in Nat PROVE Pieces(vs, id) = Pieces(ws, id)
  <2>1. /\ Pieces(vs, id) = Pieces(b, id) + Pieces(d, id)
        /\ Pieces(ws, id) = Pieces(a, id) + Pieces(c, id)
    BY PiecesConcat
  <2>2. Pieces(b, id) = Pieces(a, id) /\ Pieces(d, id) = Pieces(c, id)
    BY DEF SplitOf
  <2> HIDE DEF ws, vs
  <2> QED BY <2>1, <2>2, Zenon
<1>3. Ids(vs) = Ids(ws)
  <2>1. Ids(vs) = Ids(b) \cup Ids(d) /\ Ids(ws) = Ids(a) \cup Ids(c)
    BY IdsConcat
  <2> QED BY <2>1, Zenon DEF SplitOf
<1>4. Ordered(ws) => Ordered(vs)
  <2> SUFFICES ASSUME Ordered(ws) PROVE Ordered(vs)
    OBVIOUS
  <2>1. Ordered(a) /\ Ordered(c) /\ \A x \in Ids(a), y \in Ids(c) : x <= y
    BY OrderedConcat
  <2>2. Ordered(b) /\ Ordered(d) /\ \A x \in Ids(b), y \in Ids(d) : x <= y
    BY <2>1, Zenon DEF SplitOf
  <2> QED BY <2>2, OrderedConcat
<1>5. HasLong(ws) <=> HasLong(a) \/ HasLong(c)
  BY LongConcat
<1>6. ~HasLong(ws) => vs = ws
  <2> SUFFICES ASSUME ~HasLong(ws) PROVE vs = ws
    OBVIOUS
  <2>1. ~HasLong(a) /\ ~HasLong(c)
    BY <1>5
  <2>2. b = a /\ d = c
    BY <2>1, Zenon DEF SplitOf
  <2> QED BY <2>2, Zenon
<1>8. ws # <<>> => vs # <<>> /\ vs[1].id = ws[1].id
  <2>1. CASE a = <<>>
    <3>1. b = <<>>
      BY <2>1, SplitEmpty
    <3>2. <<>> \o c = c /\ <<>> \o d = d
      BY ConcatEmptySeq DEF Paragraph
    <3>3. ws = c /\ vs = d
      BY <2>1, <3>1, <3>2, Zenon
    <3> HIDE DEF ws, vs
    <3> QED BY <3>3, Zenon DEF SplitOf
  <2>2. CASE a # <<>>
    <3>1. b # <<>> /\ b[1].id = a[1].id
      BY <2>2, Zenon DEF SplitOf
    <3>2. Len(a) \in Nat \ {0} /\ Len(b) \in Nat \ {0}
      BY <2>2, <3>1, CharsTyped
    <3>3. ws[1] = a[1] /\ vs[1] = b[1] /\ 1 \in 1..Len(vs)
      <4>1. 1 \in 1..Len(a) /\ 1 \in 1..Len(b)
        BY <3>2
      <4> QED BY <4>1, ConcatWords
    <3>4. vs # <<>>
      <4>1. Len(vs) # 0
        <5> HIDE DEF vs, ws
        <5> QED BY <1>1, <3>2
      <4>2. Len(<<>>) = 0
        OBVIOUS
      <4> HIDE DEF vs
      <4> QED BY <4>1, <4>2, Zenon
    <3> HIDE DEF ws, vs
    <3> QED BY <3>1, <3>3, <3>4, Zenon
  <2> QED BY <2>1, <2>2
<1> HIDE DEF ws, vs
<1>9. SplitOf(ws, vs)
  BY <1>2, <1>3, <1>4, <1>6, <1>8 DEF SplitOf
<1> QED BY <1>9 DEF ws, vs

(* A word cut in two.                                                      *)
LEMMA SplitWord ==
  ASSUME NEW w \in Word, NEW v \in Word, NEW u \in Word, w.len > MaxChars,
         v.id = w.id, u.id = w.id, v.len + u.len = w.len
  PROVE  SplitOf(<<w>>, <<v>> \o <<u>>)
<1> DEFINE ws == <<w>>
           a == <<v>>
           b == <<u>>
           vs == a \o b
<1>1. /\ ws \in Paragraph /\ Len(ws) = 1 /\ ws[1] = w /\ Ids(ws) = {w.id}
      /\ HasLong(ws) <=> w.len > MaxChars
      /\ \A id : Pieces(ws, id) = Share(w, id)
  BY OneWord
<1>2. /\ a \in Paragraph /\ Len(a) = 1 /\ a[1] = v /\ Ids(a) = {v.id} /\ Ordered(a)
      /\ \A id : Pieces(a, id) = Share(v, id)
  BY OneWord
<1>3. /\ b \in Paragraph /\ Len(b) = 1 /\ b[1] = u /\ Ids(b) = {u.id} /\ Ordered(b)
      /\ \A id : Pieces(b, id) = Share(u, id)
  BY OneWord
<1>4. /\ v.id \in Nat /\ v.len \in Nat /\ u.len \in Nat /\ w.len \in Nat
      /\ MaxChars \in Nat
  BY SectionsAssumption DEF Word
<1> HIDE DEF ws, a, b
<1>5. HasLong(ws)
  BY <1>1, <1>4
<1>6. ASSUME NEW id \in Nat PROVE Pieces(vs, id) = Pieces(ws, id)
  <2>1. Pieces(vs, id) = Pieces(a, id) + Pieces(b, id)
    BY <1>2, <1>3, PiecesConcat
  <2>2. Pieces(vs, id) = Share(v, id) + Share(u, id)
    BY <1>2, <1>3, <2>1, Zenon
  <2>3. Share(v, id) + Share(u, id) = Share(w, id)
    BY <1>4 DEF Share
  <2> QED BY <1>1, <2>2, <2>3, Zenon
<1>7. Ids(vs) = Ids(ws)
  <2>1. Ids(vs) = Ids(a) \cup Ids(b)
    BY <1>2, <1>3, IdsConcat
  <2>2. Ids(vs) = {w.id} \cup {w.id}
    BY <1>2, <1>3, <2>1, Zenon
  <2> QED BY <1>1, <2>2
<1>8. Ordered(vs)
  <2>1. \A x \in Ids(a), y \in Ids(b) : x <= y
    BY <1>2, <1>3, <1>4
  <2> QED BY <1>2, <1>3, <2>1, OrderedConcat
<1>9. vs # <<>> /\ vs[1].id = ws[1].id
  <2>1. vs[1] = a[1] /\ Len(vs) = 1 + 1
    <3>1. Len(vs) = Len(a) + Len(b) /\ \A i \in 1..Len(a) : vs[i] = a[i]
      BY <1>2, <1>3, ConcatWords
    <3> QED BY <1>2, <1>3, <3>1
  <2>2. Len(<<>>) = 0 /\ 0 # 1 + 1
    OBVIOUS
  <2>3. vs # <<>>
    BY <2>1, <2>2, Zenon
  <2>4. vs[1] = v
    BY <1>2, <2>1, Zenon
  <2>5. vs[1].id = w.id /\ ws[1].id = w.id
    BY <1>1, <2>4, Zenon
  <2> QED BY <2>3, <2>5, Zenon
<1> HIDE DEF vs
<1>10. SplitOf(ws, vs)
  BY <1>5, <1>6, <1>7, <1>8, <1>9 DEF SplitOf
<1> QED BY <1>10 DEF vs, ws, a, b

(* A round of the loop.                                                    *)
LEMMA RoundSplits ==
  ASSUME NEW t \in FullText, Length(t) > MaxChars
  PROVE  SplitOf(Words(t), Words(First(t)) \o Words(Rest(t)))
<1> DEFINE s == NextSection(t)
           h == First(t)
           u == Rest(t)
<1>1. h \in FullText /\ u \in FullText /\ CutSomewhere(t, s) /\ h = s.head /\ u = s.tail
  BY NextSectionWell DEF First, Rest
<1>2. h \in Text /\ u \in Text /\ t \in Text
  BY <1>1, FullIsText
<1>3. t # <<>>
  <2>1. t = <<>> => Length(t) = -2
    BY SizesTyped
  <2> QED BY <2>1, SectionsAssumption
<1> HIDE DEF s, h, u
<1>4. CASE t = h \o u
  <2>1. Words(h \o u) = Words(h) \o Words(u)
    BY <1>2, WordsConcat
  <2>2. Words(t) = Words(h) \o Words(u)
    BY <1>4, <2>1, Zenon
  <2>3. SplitOf(Words(t), Words(t))
    BY <1>2, WordsTyped, SplitNot
  <2> QED BY <2>2, <2>3, Zenon DEF h, u
<1>5. ASSUME NEW c \in [head: Paragraph \ {<<>>}, tail: Paragraph \ {<<>>}],
             h = <<c.head>>, u = <<c.tail>> \o Tail(t),
             CutBetween(Head(t), c) \/ CutWithin(Head(t), c)
      PROVE  SplitOf(Words(t), Words(h) \o Words(u))
  <2> DEFINE p == Head(t)
             z == Words(Tail(t))
             x == c.head
             y == c.tail
  <2>1. /\ p \in Paragraph /\ p # <<>> /\ Tail(t) \in Text /\ z \in Paragraph
        /\ Words(t) = p \o z
    BY <1>2, <1>3, FirstParagraph, FullHead, WordsTyped
  <2>2. x \in Paragraph /\ y \in Paragraph
    OBVIOUS
  <2> HIDE DEF x, y
  <2>3. /\ <<x>> \in Text /\ Words(<<x>>) = x /\ <<y>> \in Text /\ Words(<<y>>) = y
    BY <2>2, OneParagraph
  <2>4. Words(<<y>> \o Tail(t)) = Words(<<y>>) \o z
    BY <2>1, <2>3, WordsConcat
  <2>5. Words(h) = x /\ Words(u) = y \o z
    BY <1>5, <2>3, <2>4, Zenon DEF x, y
  <2> HIDE DEF p, z
  <2>6. x \o (y \o z) = (x \o y) \o z
    <3>1. x \in Seq(Word) /\ y \in Seq(Word) /\ z \in Seq(Word)
      BY <2>1, <2>2 DEF Paragraph
    <3> QED BY <3>1, ConcatAssociative
  <2>7. SplitOf(p, x \o y)
    <3>1. CASE CutBetween(p, c)
      <4>1. p = x \o y
        BY <3>1 DEF CutBetween, x, y
      <4>2. SplitOf(p, p)
        BY <2>1, SplitNot
      <4> QED BY <4>1, <4>2, Zenon
    <3>2. CASE CutWithin(p, c)
      <4> DEFINE w == Head(p)
                 q == Tail(p)
      <4>1. PICK v \in Word, r \in Word :
              /\ x = <<v>> /\ y = <<r>> \o q /\ v.len + r.len = w.len
              /\ v.id = w.id /\ r.id = w.id
        BY <3>2, Zenon DEF CutWithin, x, y
      <4>2. w \in Word /\ q \in Paragraph /\ p = <<w>> \o q
        BY <2>1, FirstWord
      <4>3. w.len > MaxChars
        BY <3>2 DEF CutWithin
      <4> HIDE DEF w, q
      <4>4. SplitOf(<<w>>, <<v>> \o <<r>>)
        BY <4>1, <4>2, <4>3, SplitWord
      <4>5. <<w>> \in Paragraph /\ <<v>> \in Paragraph /\ <<r>> \in Paragraph
        BY <4>2, OneWord
      <4>6. <<v>> \o <<r>> \in Paragraph
        BY <4>5, ConcatWords
      <4>7. SplitOf(<<w>> \o q, (<<v>> \o <<r>>) \o q)
        BY <4>2, <4>4, <4>5, <4>6, SplitConcat, SplitNot
      <4>8. (<<v>> \o <<r>>) \o q = <<v>> \o (<<r>> \o q)
        BY <4>2, <4>5, ConcatAssociative DEF Paragraph
      <4> QED BY <4>1, <4>2, <4>7, <4>8, Zenon
    <3> QED BY <1>5, <3>1, <3>2 DEF p
  <2>8. x \o y \in Paragraph
    BY <2>2, ConcatWords
  <2>9. SplitOf(p \o z, (x \o y) \o z)
    BY <2>1, <2>7, <2>8, SplitConcat, SplitNot
  <2> QED BY <2>1, <2>5, <2>6, <2>9, Zenon
<1>6. CASE t # h \o u
  <2>1. \E c \in [head: Paragraph \ {<<>>}, tail: Paragraph \ {<<>>}] :
          /\ h = <<c.head>> /\ u = <<c.tail>> \o Tail(t)
          /\ CutBetween(Head(t), c) \/ CutWithin(Head(t), c)
    BY <1>1, <1>6, Zenon DEF CutSomewhere
  <2> QED BY <1>5, <2>1 DEF h, u
<1> QED BY <1>4, <1>6

-----------------------------------------------------------------------------
(* The words of all pages.                                                 *)

PageWords(l) == [i \in DOMAIN l |-> Words(l[i])]
AllWords(l)  == FlattenSeq(PageWords(l))

LEMMA PageWordsTyped ==
  ASSUME NEW l \in Seq(FullText)
  PROVE  /\ Len(l) \in Nat /\ PageWords(l) \in Seq(Seq(Word)) /\ Len(PageWords(l)) = Len(l)
         /\ \A i \in 1..Len(l) : PageWords(l)[i] = Words(l[i])
         /\ AllWords(l) \in Paragraph
<1>1. Len(l) \in Nat /\ DOMAIN l = 1..Len(l) /\ \A i \in 1..Len(l) : l[i] \in FullText
  BY LenProperties
<1>2. \A i \in 1..Len(l) : Words(l[i]) \in Seq(Word)
  BY <1>1, FullIsText, WordsTyped DEF Paragraph
<1>3. PageWords(l) \in Seq(Seq(Word)) /\ Len(PageWords(l)) = Len(l)
  BY <1>1, <1>2 DEF PageWords
<1>4. AllWords(l) \in Paragraph
  BY <1>3, FlattenTyped DEF AllWords, Paragraph
<1> QED BY <1>1, <1>3, <1>4 DEF PageWords

LEMMA AllWordsFirst ==
  ASSUME NEW x \in FullText, NEW r \in Seq(FullText)
  PROVE  AllWords(<<x>> \o r) = Words(x) \o AllWords(r)
<1> DEFINE l == <<x>> \o r
           q == <<Words(x)>>
           m == PageWords(r)
           n == PageWords(l)
<1>1. /\ l \in Seq(FullText) /\ Len(r) \in Nat /\ Len(l) = Len(r) + 1 /\ l[1] = x
      /\ \A i \in 1..Len(r) : l[i + 1] = r[i]
  BY FirstPage
<1>2. Words(x) \in Seq(Word)
  BY FullIsText, WordsTyped DEF Paragraph
<1>3. /\ m \in Seq(Seq(Word)) /\ Len(m) = Len(r) /\ \A i \in 1..Len(r) : m[i] = Words(r[i])
  BY PageWordsTyped
<1> HIDE DEF l
<1>4. /\ n \in Seq(Seq(Word)) /\ Len(n) = Len(l) /\ \A i \in 1..Len(l) : n[i] = Words(l[i])
  BY <1>1, PageWordsTyped
<1> HIDE DEF m, n
<1>5. /\ q \o m \in Seq(Seq(Word)) /\ Len(q \o m) = Len(m) + 1 /\ (q \o m)[1] = Words(x)
      /\ \A i \in 1..Len(m) : (q \o m)[i + 1] = m[i]
  BY <1>2, <1>3, FirstPage
<1>6. n = q \o m
  <2>1. Len(n) = Len(q \o m)
    BY <1>1, <1>3, <1>4, <1>5
  <2>2. ASSUME NEW i \in 1..Len(n) PROVE n[i] = (q \o m)[i]
    <3>1. CASE i = 1
      <4>1. 1 \in 1..Len(l)
        BY <1>1
      <4>2. n[1] = Words(x)
        BY <1>1, <1>4, <4>1
      <4> QED BY <1>5, <3>1, <4>2
    <3>2. CASE i # 1
      <4>1. i - 1 \in 1..Len(r) /\ i - 1 + 1 = i /\ i \in 1..Len(l)
        BY <1>1, <1>4, <3>2
      <4>2. l[i - 1 + 1] = r[i - 1] /\ (q \o m)[i - 1 + 1] = m[i - 1]
        BY <1>1, <1>3, <1>5, <4>1
      <4>3. n[i] = Words(l[i]) /\ m[i - 1] = Words(r[i - 1])
        BY <1>3, <1>4, <4>1
      <4> QED BY <4>1, <4>2, <4>3, Zenon
    <3> QED BY <3>1, <3>2
  <2> HIDE DEF q
  <2> QED BY <1>4, <1>5, <2>1, <2>2, SeqEqual
<1>7. FlattenSeq(q) = Words(x) /\ q \in Seq(Seq(Word))
  BY <1>2, FlattenOne
<1>8. FlattenSeq(q \o m) = FlattenSeq(q) \o FlattenSeq(m)
  <2> HIDE DEF q
  <2> QED BY <1>3, <1>7, FlattenConcat
<1>9. AllWords(l) = FlattenSeq(n) /\ AllWords(r) = FlattenSeq(m)
  BY DEF AllWords, m, n
<1>10. AllWords(l) = Words(x) \o AllWords(r)
  BY <1>6, <1>7, <1>8, <1>9, Zenon
<1> QED BY <1>10 DEF l

LEMMA AllWordsOne ==
  ASSUME NEW x \in FullText
  PROVE  <<x>> \in Seq(FullText) /\ AllWords(<<x>>) = Words(x)
<1> DEFINE F == FullText
<1>1. <<>> \in Seq(F) /\ x \in F
  OBVIOUS
<1> HIDE DEF F
<1>2. <<x>> \in Seq(F) /\ <<x>> \o <<>> = <<x>>
  BY <1>1
<1>3. PageWords(<<>>) = <<>>
  BY DEF PageWords
<1>4. AllWords(<<>>) = <<>>
  BY <1>3, FlattenEmpty, Zenon DEF AllWords
<1>5. AllWords(<<x>> \o <<>>) = Words(x) \o AllWords(<<>>)
  BY <1>1, AllWordsFirst DEF F
<1>6. Words(x) \o <<>> = Words(x)
  <2>1. Words(x) \in Paragraph
    BY FullIsText, WordsTyped
  <2> QED BY <2>1, ConcatEmptySeq DEF Paragraph
<1> QED BY <1>2, <1>4, <1>5, <1>6, Zenon DEF F

(* The words of the pages are those of the text, some of them cut.         *)
LEMMA SectionsSplit ==
  \A t \in FullText : SplitOf(Words(t), AllWords(SectionsFrom[t]))
<1> DEFINE G == {t \in FullText : SplitOf(Words(t), AllWords(SectionsFrom[t]))}
<1>1. ASSUME NEW t \in FullText, LastRound(t) PROVE t \in G
  <2>1. SectionsFrom[t] = <<LastPage(t)>>
    BY <1>1, SectionsEquation, Zenon
  <2>2. AllWords(<<LastPage(t)>>) = Words(LastPage(t))
    BY RoundTyped, AllWordsOne
  <2>3. SplitOf(Words(t), Words(LastPage(t)))
    <3>1. CASE Length(t) <= MaxChars
      <4>1. LastPage(t) = t
        BY <3>1, Zenon DEF LastPage
      <4>2. SplitOf(Words(t), Words(t))
        BY FullIsText, WordsTyped, SplitNot
      <4> QED BY <4>1, <4>2, Zenon
    <3>2. CASE ~(Length(t) <= MaxChars)
      <4>1. Length(t) > MaxChars
        BY <3>2, RoundTyped, SectionsAssumption
      <4>2. First(t) \in FullText /\ First(t) # <<>> /\ Rest(t) \in FullText
        BY <4>1, NextSectionWell DEF First, Rest
      <4>3. LastPage(t) = WithRest(First(t), Rest(t))
        BY <3>2, Zenon DEF LastPage
      <4>4. Words(WithRest(First(t), Rest(t))) = Words(First(t)) \o Words(Rest(t))
        BY <4>2, RestJoined
      <4>5. SplitOf(Words(t), Words(First(t)) \o Words(Rest(t)))
        BY <4>1, RoundSplits
      <4> QED BY <4>3, <4>4, <4>5, Zenon
    <3> QED BY <3>1, <3>2
  <2>4. SplitOf(Words(t), AllWords(SectionsFrom[t]))
    BY <2>1, <2>2, <2>3, Zenon
  <2> QED BY <2>4
<1>2. ASSUME NEW t \in FullText, ~LastRound(t), Rest(t) \in G PROVE t \in G
  <2> DEFINE x == First(t)
             u == Rest(t)
             r == SectionsFrom[Rest(t)]
  <2>1. SectionsFrom[t] = <<x>> \o r
    BY <1>2, SectionsEquation, Zenon
  <2>2. x \in FullText /\ u \in FullText /\ r \in Seq(FullText)
    BY <1>2, RoundTyped, SectionsEquation
  <2>3. Length(t) > MaxChars
    BY <1>2, RoundTyped, SectionsAssumption DEF LastRound
  <2>4. SplitOf(Words(t), Words(x) \o Words(u))
    BY <2>3, RoundSplits
  <2>5. SplitOf(Words(u), AllWords(r))
    BY <1>2
  <2> HIDE DEF x, u, r
  <2>6. AllWords(<<x>> \o r) = Words(x) \o AllWords(r)
    BY <2>2, AllWordsFirst
  <2>7. /\ Words(x) \in Paragraph /\ Words(u) \in Paragraph /\ AllWords(r) \in Paragraph
        /\ Words(t) \in Paragraph
    BY <2>2, FullIsText, WordsTyped, PageWordsTyped
  <2>8. SplitOf(Words(x) \o Words(u), Words(x) \o AllWords(r))
    BY <2>5, <2>7, SplitConcat, SplitNot
  <2>9. /\ Words(x) \o Words(u) \in Paragraph /\ Words(x) \o AllWords(r) \in Paragraph
    BY <2>7, ConcatWords
  <2>10. SplitOf(Words(t), Words(x) \o AllWords(r))
    BY <2>4, <2>7, <2>8, <2>9, SplitTwice
  <2>11. SplitOf(Words(t), AllWords(SectionsFrom[t]))
    BY <2>1, <2>6, <2>10, Zenon
  <2> QED BY <2>11
<1> HIDE DEF G
<1>3. \A t \in FullText : t \in G
  BY <1>1, <1>2, TextInduction
<1> QED BY <1>3 DEF G

(* No text loses a letter when it is cut into pages, its words keep their  *)
(* order, and only a word longer than a page may be cut                    *)
(* (story-parser.service.ts:34-84, 129-153).                               *)
THEOREM SectionsKeepWords ==
  \A t \in Text : Ordered(Words(t)) => WordsKept(t, Sections(t))
<1> SUFFICES ASSUME NEW t \in Text, Ordered(Words(t)) PROVE WordsKept(t, Sections(t))
  OBVIOUS
<1> DEFINE ws == Words(t)
           l == Sections(t)
           vs == AllWords(l)
<1>1. Words(NoEmpty(t)) = Words(t)
  BY NoEmptyWords
<1>2. SplitOf(Words(NoEmpty(t)), AllWords(SectionsFrom[NoEmpty(t)]))
  BY SectionsTyped, SectionsSplit
<1>3. SplitOf(ws, vs)
  BY <1>1, <1>2, SectionsTyped, Zenon
<1>4. ws \in Paragraph /\ vs \in Paragraph
  BY WordsTyped, SectionsTyped, PageWordsTyped
<1>5. DOMAIN ws = 1..Len(ws) /\ DOMAIN vs = 1..Len(vs)
  BY <1>4, LenProperties DEF Paragraph
<1>6. FlattenSeq([i \in DOMAIN l |-> Words(l[i])]) = vs
  BY Zenon DEF AllWords, PageWords
<1>7. Ordered(ws)
  OBVIOUS
<1> HIDE DEF ws, vs, l
<1>8. ASSUME NEW w \in Range(ws) PROVE Pieces(vs, w.id) = Pieces(ws, w.id)
  <2>1. w \in Word
    BY <1>4, RangeOfSeq DEF Paragraph
  <2> QED BY <1>3, <2>1 DEF SplitOf, Word
<1>9. \A i, j \in DOMAIN vs : i < j => vs[i].id <= vs[j].id
  BY <1>3, <1>5, <1>7 DEF SplitOf, Ordered
<1>10. Len(vs) > Len(ws) => {w \in Range(ws) : w.len > MaxChars} # {}
  <2> SUFFICES ASSUME Len(vs) > Len(ws)
               PROVE  \E w \in Range(ws) : w.len > MaxChars
    OBVIOUS
  <2>a. Len(ws) \in Nat /\ vs # ws
    BY <1>4, LenProperties DEF Paragraph
  <2>1. PICK i \in 1..Len(ws) : ws[i].len > MaxChars
    BY <1>3, <2>a, Zenon DEF SplitOf, HasLong
  <2>2. ws[i] \in Range(ws)
    BY <1>5 DEF Range
  <2> QED BY <2>1, <2>2
<1>11. vs = FlattenSeq([i \in DOMAIN Sections(t) |-> Words(Sections(t)[i])])
  BY <1>6, Zenon DEF l
<1> QED BY <1>8, <1>9, <1>10, <1>11, Zenon DEF WordsKept, ws

-----------------------------------------------------------------------------
(* Where a text is cut: its words are told apart by their ids.             *)

Strict(ws)      == \A i, j \in 1..Len(ws) : i < j => ws[i].id < ws[j].id
Beside(p, a, b) == \E k \in 1..(Len(p) - 1) : p[k].id = a /\ p[k + 1].id = b
Inside(t, a, b) == \E p \in Range(t) : Beside(p, a, b)

LEMMA StrictConcat ==
  ASSUME NEW p \in Paragraph, NEW q \in Paragraph, Strict(p \o q)
  PROVE  Strict(p) /\ Strict(q) /\ \A x \in Ids(p), y \in Ids(q) : x < y
<1> DEFINE r == p \o q
           m == Len(p)
<1>1. /\ m \in Nat /\ Len(q) \in Nat
      /\ \A i \in 1..m : r[i] = p[i] /\ i \in 1..Len(r)
      /\ \A i \in 1..Len(q) : r[m + i] = q[i] /\ m + i \in 1..Len(r)
  BY ConcatWords
<1>2. \A i, j \in 1..Len(r) : i < j => r[i].id < r[j].id
  BY DEF Strict
<1> HIDE DEF r, m
<1>3. ASSUME NEW i \in 1..m, NEW j \in 1..m, i < j PROVE p[i].id < p[j].id
  BY <1>1, <1>2, <1>3
<1>4. ASSUME NEW i \in 1..Len(q), NEW j \in 1..Len(q), i < j PROVE q[i].id < q[j].id
  <2>1. m + i < m + j
    BY <1>1, <1>4
  <2>2. r[m + i].id < r[m + j].id
    BY <1>1, <1>2, <2>1
  <2> QED BY <1>1, <2>2
<1>5. ASSUME NEW x \in Ids(p), NEW y \in Ids(q) PROVE x < y
  <2>1. PICK i \in 1..m : x = p[i].id
    BY DEF Ids, m
  <2>2. PICK j \in 1..Len(q) : y = q[j].id
    BY DEF Ids
  <2>3. i < m + j
    BY <1>1
  <2>4. r[i].id < r[m + j].id
    BY <1>1, <1>2, <2>3
  <2> QED BY <1>1, <2>1, <2>2, <2>4
<1> QED BY <1>3, <1>4, <1>5 DEF Strict, m

(* A word replaced by another of its id.                                   *)
LEMMA SameIds ==
  ASSUME NEW w \in Word, NEW v \in Word, w.id = v.id, NEW q \in Paragraph
  PROVE  /\ Strict(<<w>> \o q) => Strict(<<v>> \o q)
         /\ \A a, b : Beside(<<w>> \o q, a, b) => Beside(<<v>> \o q, a, b)
<1> DEFINE r == <<w>> \o q
           s == <<v>> \o q
           n == Len(q) + 1
<1>1. <<w>> \in Paragraph /\ <<v>> \in Paragraph
  BY OneWord
<1>2. Len(q) \in Nat /\ Len(r) = n /\ Len(s) = n
  BY <1>1, ConcatWords
<1>3. r[1] = w /\ \A i \in 1..Len(q) : r[i + 1] = q[i]
  BY FirstPage DEF Paragraph
<1>4. s[1] = v /\ \A i \in 1..Len(q) : s[i + 1] = q[i]
  BY FirstPage DEF Paragraph
<1> HIDE DEF r, s
<1>5. ASSUME NEW i \in 1..n PROVE r[i].id = s[i].id
  <2>1. CASE i = 1
    BY <1>3, <1>4, <2>1
  <2>2. CASE i # 1
    <3>1. i - 1 \in 1..Len(q) /\ i - 1 + 1 = i
      BY <1>2, <2>2
    <3>2. r[i - 1 + 1] = q[i - 1] /\ s[i - 1 + 1] = q[i - 1]
      BY <1>3, <1>4, <3>1
    <3> QED BY <3>1, <3>2
  <2> QED BY <2>1, <2>2
<1>6. n \in Nat
  BY <1>2
<1> HIDE DEF n
<1>7. Strict(r) => Strict(s)
  BY <1>2, <1>5 DEF Strict
<1>8. ASSUME NEW a, NEW b, Beside(r, a, b) PROVE Beside(s, a, b)
  <2>1. PICK k \in 1..(n - 1) : r[k].id = a /\ r[k + 1].id = b
    BY <1>2, <1>8 DEF Beside
  <2>2. k \in 1..n /\ k + 1 \in 1..n
    BY <1>6
  <2>3. s[k].id = a /\ s[k + 1].id = b
    BY <1>5, <2>1, <2>2
  <2> QED BY <1>2, <2>3 DEF Beside
<1> QED BY <1>7, <1>8 DEF r, s

(* Two words side by side, the first of them not before the cut.           *)
LEMMA BesideTail ==
  ASSUME NEW x \in Paragraph, NEW y \in Paragraph, NEW a, NEW b,
         Beside(x \o y, a, b), a \notin Ids(x)
  PROVE  Beside(y, a, b)
<1> DEFINE p == x \o y
           m == Len(x)
<1>1. PICK k \in 1..(Len(p) - 1) : p[k].id = a /\ p[k + 1].id = b
  BY DEF Beside
<1>2. /\ m \in Nat /\ Len(y) \in Nat /\ Len(p) = m + Len(y)
      /\ \A i \in 1..m : p[i] = x[i]
      /\ \A i \in 1..Len(y) : p[m + i] = y[i]
  BY ConcatWords
<1> HIDE DEF p
<1>3. k \notin 1..m
  <2> SUFFICES ASSUME k \in 1..m PROVE FALSE
    OBVIOUS
  <2>1. x[k].id = a
    BY <1>1, <1>2
  <2> QED BY <2>1 DEF Ids
<1> HIDE DEF m
<1>4. /\ k - m \in 1..(Len(y) - 1) /\ k - m \in 1..Len(y) /\ k - m + 1 \in 1..Len(y)
      /\ m + (k - m) = k /\ m + (k - m + 1) = k + 1
  BY <1>2, <1>3
<1>5. p[m + (k - m)] = y[k - m] /\ p[m + (k - m + 1)] = y[k - m + 1]
  BY <1>2, <1>4
<1>6. y[k - m].id = a /\ y[k - m + 1].id = b
  BY <1>1, <1>4, <1>5
<1> QED BY <1>4, <1>6 DEF Beside

LEMMA BesideIds ==
  ASSUME NEW p \in Paragraph, NEW a, NEW b, Beside(p, a, b)
  PROVE  p # <<>> /\ a \in Ids(p) /\ b \in Ids(p)
<1>1. PICK k \in 1..(Len(p) - 1) : p[k].id = a /\ p[k + 1].id = b
  BY DEF Beside
<1>2. Len(p) \in Nat
  BY LenProperties DEF Paragraph
<1>3. k \in 1..Len(p) /\ k + 1 \in 1..Len(p)
  BY <1>2
<1>4. p # <<>>
  BY <1>3
<1> QED BY <1>1, <1>3, <1>4 DEF Ids

LEMMA RangeAppend ==
  ASSUME NEW S, NEW s \in Seq(S), NEW e \in S
  PROVE  Range(Append(s, e)) = Range(s) \cup {e}
<1> DEFINE r == Append(s, e)
           n == Len(s)
<1>1. /\ n \in Nat /\ DOMAIN s = 1..n /\ DOMAIN r = 1..(n + 1)
      /\ r[n + 1] = e /\ \A i \in 1..n : r[i] = s[i]
  BY AppendProperties, LenProperties
<1> HIDE DEF r, n
<1>2. Range(r) \subseteq Range(s) \cup {e}
  <2> SUFFICES ASSUME NEW i \in 1..(n + 1) PROVE r[i] \in Range(s) \cup {e}
    BY <1>1 DEF Range
  <2>1. CASE i \in 1..n
    BY <1>1, <2>1 DEF Range
  <2>2. CASE i = n + 1
    BY <1>1, <2>2
  <2> QED BY <1>1, <2>1, <2>2
<1>3. Range(s) \cup {e} \subseteq Range(r)
  <2>1. \A i \in 1..n : i \in 1..(n + 1)
    BY <1>1
  <2>2. n + 1 \in 1..(n + 1)
    BY <1>1
  <2> QED BY <1>1, <2>1, <2>2 DEF Range
<1> QED BY <1>2, <1>3 DEF r

LEMMA RangeOne ==
  ASSUME NEW e
  PROVE  Range(<<e>>) = {e}
<1>1. DOMAIN <<e>> = {1} /\ <<e>>[1] = e
  OBVIOUS
<1> QED BY <1>1, Zenon DEF Range

LEMMA RangeConcat ==
  ASSUME NEW S, NEW s \in Seq(S), NEW u \in Seq(S)
  PROVE  Range(s \o u) = Range(s) \cup Range(u)
<1> DEFINE G == {v \in Seq(S) : Range(s \o v) = Range(s) \cup Range(v)}
<1>1. <<>> \in G
  <2>1. s \o <<>> = s /\ <<>> \in Seq(S)
    BY ConcatEmptySeq
  <2>2. Range(<<>>) = {}
    BY DEF Range
  <2> QED BY <2>1, <2>2
<1>2. ASSUME NEW v \in Seq(S), NEW e \in S, v \in G PROVE Append(v, e) \in G
  <2>1. s \o v \in Seq(S) /\ Append(v, e) \in Seq(S)
    BY ConcatProperties, AppendProperties
  <2>2. s \o Append(v, e) = Append(s \o v, e)
    OBVIOUS
  <2>3. Range(Append(s \o v, e)) = Range(s \o v) \cup {e}
    <3> DEFINE sv == s \o v
    <3>1. sv \in Seq(S)
      BY <2>1
    <3> HIDE DEF sv
    <3>2. Range(Append(sv, e)) = Range(sv) \cup {e}
      BY <3>1, RangeAppend
    <3> QED BY <3>2 DEF sv
  <2>4. Range(Append(v, e)) = Range(v) \cup {e}
    BY RangeAppend
  <2>5. Range(s \o v) = Range(s) \cup Range(v)
    BY <1>2
  <2>6. Range(s \o Append(v, e)) = Range(s) \cup Range(Append(v, e))
    BY <2>2, <2>3, <2>4, <2>5
  <2> QED BY <2>1, <2>6
<1> HIDE DEF G
<1>3. \A v \in Seq(S) : v \in G
  BY <1>1, <1>2, SequenceInduction
<1>4. u \in G
  BY <1>3
<1> QED BY <1>4 DEF G

(* The ids of a paragraph are ids of the text.                             *)
LEMMA ParagraphIds ==
  \A t \in Text : \A p \in Range(t) : p \in Paragraph /\ Ids(p) \subseteq Ids(Words(t))
<1> DEFINE G == {t \in Text : \A p \in Range(t) :
                                p \in Paragraph /\ Ids(p) \subseteq Ids(Words(t))}
<1>1. <<>> \in G
  <2>1. <<>> \in Text
    BY DEF Text
  <2>2. Range(<<>>) = {}
    BY DEF Range
  <2> QED BY <2>1, <2>2
<1>2. ASSUME NEW t \in Seq(Paragraph), NEW p \in Paragraph, t \in G
      PROVE  Append(t, p) \in G
  <2>1. t \in Text /\ Append(t, p) \in Text /\ t \in Seq(Seq(Word)) /\ p \in Seq(Word)
    BY DEF Text, Paragraph
  <2>2. Words(Append(t, p)) = Words(t) \o p
    BY <2>1, FlattenAppend DEF Words
  <2>3. Words(t) \in Paragraph
    BY <2>1, WordsTyped
  <2>4. Ids(Words(t) \o p) = Ids(Words(t)) \cup Ids(p)
    BY <2>3, IdsConcat
  <2>5. Range(Append(t, p)) = Range(t) \cup {p}
    BY RangeAppend
  <2>6. \A q \in Range(t) : q \in Paragraph /\ Ids(q) \subseteq Ids(Words(t))
    BY <1>2
  <2>7. Ids(Words(Append(t, p))) = Ids(Words(t)) \cup Ids(p)
    BY <2>2, <2>4, Zenon
  <2>8. \A q \in Range(Append(t, p)) :
          q \in Paragraph /\ Ids(q) \subseteq Ids(Words(Append(t, p)))
    BY <2>5, <2>6, <2>7
  <2> QED BY <2>1, <2>8
<1> HIDE DEF G
<1>3. \A t \in Seq(Paragraph) : t \in G
  BY <1>1, <1>2, SequenceInduction
<1> QED BY <1>3 DEF G, Text

(* Words that are side by side in a text still are without its empty       *)
(* paragraphs.                                                             *)
LEMMA NoEmptyInside ==
  \A t \in Text : \A p \in Range(t) : p # <<>> => p \in Range(NoEmpty(t))
<1> DEFINE G == {t \in Text : \A p \in Range(t) : p # <<>> => p \in Range(NoEmpty(t))}
<1>1. <<>> \in G
  <2>1. <<>> \in Text
    BY DEF Text
  <2>2. Range(<<>>) = {}
    BY DEF Range
  <2> QED BY <2>1, <2>2
<1>2. ASSUME NEW t \in Seq(Paragraph), NEW p \in Paragraph, t \in G
      PROVE  Append(t, p) \in G
  <2>1. t \in Text /\ Append(t, p) \in Text
    BY DEF Text
  <2>2. NoEmpty(t) \in FullText /\ NoEmpty(Append(t, p)) = NoEmpty(t) \o Single(p)
    BY <2>1, NoEmptyAppend
  <2>3. Single(p) \in FullText
    BY <2>1, SinglesAppend
  <2>4. Range(NoEmpty(t) \o Single(p)) = Range(NoEmpty(t)) \cup Range(Single(p))
    BY <2>2, <2>3, RangeConcat DEF FullText
  <2>5. Range(Append(t, p)) = Range(t) \cup {p}
    BY RangeAppend
  <2>6. p # <<>> => p \in Range(Single(p))
    BY DEF Single, Range
  <2>7. \A q \in Range(t) : q # <<>> => q \in Range(NoEmpty(t))
    BY <1>2
  <2>8. Range(NoEmpty(Append(t, p))) = Range(NoEmpty(t)) \cup Range(Single(p))
    BY <2>2, <2>4, Zenon
  <2>9. \A q \in Range(Append(t, p)) : q # <<>> => q \in Range(NoEmpty(Append(t, p)))
    BY <2>5, <2>6, <2>7, <2>8
  <2> QED BY <2>1, <2>9
<1> HIDE DEF G
<1>3. \A t \in Seq(Paragraph) : t \in G
  BY <1>1, <1>2, SequenceInduction
<1> QED BY <1>3 DEF G, Text

(* A round cuts the text between two paragraphs, or after a sentence, or   *)
(* where there is none, and what is side by side later was so before.      *)
BreakWell(t, h, u) ==
  LET ws == Words(h)
  IN Inside(t, ws[Len(ws)].id, Words(u)[1].id)
       => ws[Len(ws)].stop \/ \A i \in 1..Len(ws) : ~ws[i].stop
RoundWell(t, h, u) ==
  /\ Strict(Words(u))
  /\ \A a \in Ids(Words(u)) : \A b : Inside(t, a, b) => Inside(u, a, b)
  /\ BreakWell(t, h, u)

LEMMA CutBetweenParagraphs ==
  ASSUME NEW h \in Text, NEW u \in Text, Words(h) # <<>>, Words(u) # <<>>,
         Strict(Words(h \o u))
  PROVE  RoundWell(h \o u, h, u)
<1> DEFINE x == Words(h)
           y == Words(u)
           t == h \o u
<1>1. x \in Paragraph /\ y \in Paragraph
  BY WordsTyped
<1>2. Words(t) = x \o y
  BY WordsConcat
<1>3. Strict(x \o y)
  BY <1>2, Zenon
<1>4. Range(t) = Range(h) \cup Range(u)
  BY RangeConcat DEF Text
<1>5. \A p \in Range(h) : p \in Paragraph /\ Ids(p) \subseteq Ids(x)
  BY ParagraphIds
<1>6. \A p \in Range(u) : p \in Paragraph /\ Ids(p) \subseteq Ids(y)
  BY ParagraphIds
<1>7. Len(x) \in 1..Len(x) /\ 1 \in 1..Len(y)
  BY <1>1, CharsTyped
<1> HIDE DEF x, y, t
<1>8. Strict(y) /\ \A a \in Ids(x), b \in Ids(y) : a < b
  BY <1>1, <1>3, StrictConcat
<1>9. Ids(x) \subseteq Nat /\ Ids(y) \subseteq Nat
  BY <1>1, IdsOf
<1>10. \A a : ~(a \in Ids(x) /\ a \in Ids(y))
  BY <1>8, <1>9
<1>11. ASSUME NEW a \in Ids(y), NEW b, Inside(t, a, b) PROVE Inside(u, a, b)
  <2>1. PICK p \in Range(t) : Beside(p, a, b)
    BY <1>11 DEF Inside
  <2>2. p \in Paragraph
    BY <1>4, <1>5, <1>6
  <2>3. a \in Ids(p)
    BY <2>1, <2>2, BesideIds
  <2>4. p \in Range(u)
    BY <1>4, <1>5, <1>10, <2>3
  <2> QED BY <2>1, <2>4 DEF Inside
<1>12. ~Inside(t, x[Len(x)].id, y[1].id)
  <2> SUFFICES ASSUME NEW p \in Range(t), Beside(p, x[Len(x)].id, y[1].id) PROVE FALSE
    BY DEF Inside
  <2>1. p \in Paragraph
    BY <1>4, <1>5, <1>6
  <2>2. x[Len(x)].id \in Ids(p) /\ y[1].id \in Ids(p)
    BY <2>1, BesideIds
  <2>3. x[Len(x)].id \in Ids(x) /\ y[1].id \in Ids(y)
    BY <1>7 DEF Ids
  <2> QED BY <1>4, <1>5, <1>6, <1>10, <2>2, <2>3
<1>13. BreakWell(t, h, u)
  BY <1>12, Zenon DEF BreakWell, x, y
<1>14. RoundWell(t, h, u)
  BY <1>8, <1>11, <1>13 DEF RoundWell, y
<1> QED BY <1>14 DEF t

(* After a word of the first paragraph.                                    *)
LEMMA CutBetweenWords ==
  ASSUME NEW x \in Paragraph, NEW y \in Paragraph, NEW r \in Text,
         x # <<>>, y # <<>>, Strict(Words(<<x \o y>> \o r)),
         x[Len(x)].stop \/ \A i \in 1..Len(x) : ~x[i].stop
  PROVE  RoundWell(<<x \o y>> \o r, <<x>>, <<y>> \o r)
<1> DEFINE p == x \o y
           z == Words(r)
           t == <<p>> \o r
           u == <<y>> \o r
<1>1. z \in Paragraph /\ p \in Paragraph
  BY WordsTyped, ConcatWords
<1> HIDE DEF p
<1>2. /\ <<p>> \in Text /\ Words(<<p>>) = p /\ <<y>> \in Text /\ Words(<<y>>) = y
      /\ <<x>> \in Text /\ Words(<<x>>) = x
  BY <1>1, OneParagraph
<1>3. Words(t) = Words(<<p>>) \o z /\ Words(u) = Words(<<y>>) \o z
  BY <1>2, WordsConcat
<1>4. Words(t) = p \o z /\ Words(u) = y \o z
  BY <1>2, <1>3, Zenon
<1>5. p \o z = x \o (y \o z)
  <2>1. x \in Seq(Word) /\ y \in Seq(Word) /\ z \in Seq(Word)
    BY <1>1 DEF Paragraph
  <2> QED BY <2>1, ConcatAssociative DEF p
<1>6. Strict(Words(t))
  BY DEF p
<1>7. Range(<<p>>) = {p} /\ Range(<<y>>) = {y}
  BY RangeOne
<1>8. /\ Range(t) = Range(<<p>>) \cup Range(r)
      /\ Range(u) = Range(<<y>>) \cup Range(r)
  <2>1. <<p>> \in Seq(Paragraph) /\ <<y>> \in Seq(Paragraph) /\ r \in Seq(Paragraph)
    BY <1>2 DEF Text
  <2>2. Range(<<p>> \o r) = Range(<<p>>) \cup Range(r)
    BY <2>1, RangeConcat, ZenonT(30)
  <2>3. Range(<<y>> \o r) = Range(<<y>>) \cup Range(r)
    BY <2>1, RangeConcat, ZenonT(30)
  <2> QED BY <2>2, <2>3
<1> HIDE DEF z, t, u
<1>9. Strict(x \o (y \o z))
  BY <1>4, <1>5, <1>6, Zenon
<1>10. y \o z \in Paragraph
  BY <1>1, ConcatWords
<1>11. Strict(y \o z) /\ \A a \in Ids(x), b \in Ids(y \o z) : a < b
  BY <1>9, <1>10, StrictConcat
<1>12. Strict(Words(u))
  BY <1>4, <1>11, Zenon
<1>13. Ids(x) \subseteq Nat /\ Ids(Words(u)) = Ids(y \o z)
  BY <1>4, IdsOf, Zenon
<1>14. ASSUME NEW a \in Ids(Words(u)), NEW b, Inside(t, a, b) PROVE Inside(u, a, b)
  <2>1. PICK q \in Range(t) : Beside(q, a, b)
    BY <1>14 DEF Inside
  <2>2. CASE q \in Range(r)
    BY <1>8, <2>1, <2>2 DEF Inside
  <2>3. CASE q \notin Range(r)
    <3>1. q = p
      BY <1>7, <1>8, <2>1, <2>3
    <3>2. Beside(x \o y, a, b)
      BY <2>1, <3>1, Zenon DEF p
    <3>3. a \notin Ids(x)
      BY <1>11, <1>13
    <3>4. Beside(y, a, b)
      BY <3>2, <3>3, BesideTail
    <3>5. y \in Range(u)
      BY <1>7, <1>8
    <3> QED BY <3>4, <3>5, Zenon DEF Inside
  <2> QED BY <2>2, <2>3
<1>15. BreakWell(t, <<x>>, u)
  <2>1. Words(<<x>>)[Len(Words(<<x>>))].stop
          \/ \A i \in 1..Len(Words(<<x>>)) : ~Words(<<x>>)[i].stop
    BY <1>2, Zenon
  <2> QED BY <2>1, Zenon DEF BreakWell
<1>16. RoundWell(t, <<x>>, u)
  BY <1>12, <1>14, <1>15 DEF RoundWell
<1> QED BY <1>16 DEF t, u, p

(* Within the first word.                                                  *)
LEMMA CutWithinWord ==
  ASSUME NEW w \in Word, NEW v \in Word, NEW s \in Word, NEW q \in Paragraph, NEW r \in Text,
         v.id = w.id, s.id = w.id, ~v.stop, Strict(Words(<<<<w>> \o q>> \o r))
  PROVE  RoundWell(<<<<w>> \o q>> \o r, <<<<v>>>>, <<<<s>> \o q>> \o r)
<1> DEFINE p == <<w>> \o q
           y == <<s>> \o q
           z == Words(r)
           t == <<p>> \o r
           u == <<y>> \o r
<1>1. z \in Paragraph /\ <<w>> \in Paragraph /\ <<s>> \in Paragraph /\ <<v>> \in Paragraph
  BY WordsTyped, OneWord
<1>2. p \in Paragraph /\ y \in Paragraph /\ q \o z \in Paragraph
  BY <1>1, ConcatWords
<1>3. \A a, b : Beside(p, a, b) => Beside(y, a, b)
  BY SameIds
<1>4. p \o z = <<w>> \o (q \o z) /\ y \o z = <<s>> \o (q \o z)
  BY <1>1, ConcatAssociative DEF Paragraph
<1>5. Strict(<<w>> \o (q \o z)) => Strict(<<s>> \o (q \o z))
  BY <1>2, SameIds
<1>6. Strict(Words(t))
  OBVIOUS
<1> HIDE DEF p, y
<1>7. /\ <<p>> \in Text /\ Words(<<p>>) = p /\ <<y>> \in Text /\ Words(<<y>>) = y
      /\ Words(<<<<v>>>>) = <<v>>
  BY <1>1, <1>2, OneParagraph
<1>8. Words(t) = Words(<<p>>) \o z /\ Words(u) = Words(<<y>>) \o z
  BY <1>7, WordsConcat
<1>9. Words(t) = p \o z /\ Words(u) = y \o z
  BY <1>7, <1>8, Zenon
<1>10. Range(<<p>>) = {p} /\ Range(<<y>>) = {y}
  BY RangeOne
<1>11. /\ Range(t) = Range(<<p>>) \cup Range(r)
       /\ Range(u) = Range(<<y>>) \cup Range(r)
  <2>1. <<p>> \in Seq(Paragraph) /\ <<y>> \in Seq(Paragraph) /\ r \in Seq(Paragraph)
    BY <1>7 DEF Text
  <2>2. \A a, b \in Seq(Paragraph) : Range(a \o b) = Range(a) \cup Range(b)
    BY RangeConcat
  <2>3. Range(<<p>> \o r) = Range(<<p>>) \cup Range(r)
    BY <2>1, <2>2, Zenon
  <2>4. Range(<<y>> \o r) = Range(<<y>>) \cup Range(r)
    BY <2>1, <2>2, Zenon
  <2> QED BY <2>3, <2>4
<1> HIDE DEF z, t, u
<1>12. Strict(Words(u))
  BY <1>4, <1>5, <1>6, <1>9, Zenon
<1>13. ASSUME NEW a \in Ids(Words(u)), NEW b, Inside(t, a, b) PROVE Inside(u, a, b)
  <2>1. PICK d \in Range(t) : Beside(d, a, b)
    BY <1>13 DEF Inside
  <2>2. CASE d \in Range(r)
    BY <1>11, <2>1, <2>2 DEF Inside
  <2>3. CASE d \notin Range(r)
    <3>1. d = p
      BY <1>10, <1>11, <2>1, <2>3
    <3>2. Beside(y, a, b)
      BY <1>3, <2>1, <3>1, Zenon
    <3>3. y \in Range(u)
      BY <1>10, <1>11
    <3> QED BY <3>2, <3>3, Zenon DEF Inside
  <2> QED BY <2>2, <2>3
<1>14. BreakWell(t, <<<<v>>>>, u)
  <2>1. Len(<<v>>) = 1 /\ <<v>>[1] = v
    OBVIOUS
  <2>2. \A i \in 1..Len(<<v>>) : ~<<v>>[i].stop
    BY <2>1
  <2>3. \A i \in 1..Len(Words(<<<<v>>>>)) : ~Words(<<<<v>>>>)[i].stop
    BY <1>7, <2>2, Zenon
  <2> QED BY <2>3, Zenon DEF BreakWell
<1>15. RoundWell(t, <<<<v>>>>, u)
  BY <1>12, <1>13, <1>14 DEF RoundWell
<1> QED BY <1>15 DEF t, u, p, y

LEMMA FullWords ==
  ASSUME NEW t \in FullText, t # <<>>
  PROVE  Words(t) # <<>>
<1>1. Head(t) \in Paragraph /\ Head(t) # <<>> /\ t \in Text /\ Tail(t) \in Text
  BY FullHead, FullIsText
<1>2. Words(t) = Head(t) \o Words(Tail(t)) /\ Words(Tail(t)) \in Paragraph
  BY <1>1, FirstParagraph, WordsTyped
<1>3. Len(Head(t)) \in Nat \ {0}
  BY <1>1, CharsTyped
<1>4. Len(Words(t)) = Len(Head(t)) + Len(Words(Tail(t))) /\ Len(Words(Tail(t))) \in Nat
  BY <1>1, <1>2, ConcatWords
<1>5. Len(Words(t)) # 0 /\ Len(<<>>) = 0
  BY <1>3, <1>4
<1> QED BY <1>5, Zenon

LEMMA RoundCuts ==
  ASSUME NEW t \in FullText, Length(t) > MaxChars, Strict(Words(t))
  PROVE  RoundWell(t, First(t), Rest(t))
<1> DEFINE s == NextSection(t)
           h == First(t)
           u == Rest(t)
<1>1. /\ h \in FullText /\ h # <<>> /\ u \in FullText /\ u # <<>>
      /\ CutSomewhere(t, s) /\ h = s.head /\ u = s.tail
  BY NextSectionWell DEF First, Rest
<1>2. h \in Text /\ u \in Text /\ t \in Text
  BY <1>1, FullIsText
<1>3. t # <<>>
  <2>1. t = <<>> => Length(t) = -2
    BY SizesTyped
  <2> QED BY <2>1, SectionsAssumption
<1> HIDE DEF s, h, u
<1>4. CASE t = h \o u
  <2>1. Words(h) # <<>> /\ Words(u) # <<>>
    BY <1>1, FullWords
  <2>2. Strict(Words(h \o u))
    BY <1>4, Zenon
  <2>3. RoundWell(h \o u, h, u)
    BY <1>2, <2>1, <2>2, CutBetweenParagraphs
  <2> QED BY <1>4, <2>3, Zenon DEF h, u
<1>5. ASSUME NEW c \in [head: Paragraph \ {<<>>}, tail: Paragraph \ {<<>>}],
             h = <<c.head>>, u = <<c.tail>> \o Tail(t),
             CutBetween(Head(t), c) \/ CutWithin(Head(t), c)
      PROVE  RoundWell(t, h, u)
  <2> DEFINE p == Head(t)
             r == Tail(t)
             x == c.head
             y == c.tail
  <2>1. p \in Paragraph /\ p # <<>> /\ r \in Text
    BY <1>2, <1>3, FirstParagraph, FullHead
  <2>2. t = <<p>> \o r
    BY <1>2, <1>3, HeadTailProperties DEF Text
  <2>3. x \in Paragraph /\ y \in Paragraph /\ x # <<>> /\ y # <<>>
    OBVIOUS
  <2>4. h = <<x>> /\ u = <<y>> \o r
    BY <1>5
  <2>5. CASE CutBetween(p, c)
    <3>1. p = x \o y /\ (x[Len(x)].stop \/ \A i \in 1..Len(x) : ~x[i].stop)
      BY <2>5, Zenon DEF CutBetween
    <3> HIDE DEF p, r, x, y
    <3>2. Strict(Words(<<x \o y>> \o r))
      BY <2>2, <3>1, Zenon
    <3>3. RoundWell(<<x \o y>> \o r, <<x>>, <<y>> \o r)
      BY <2>1, <2>3, <3>1, <3>2, CutBetweenWords
    <3> QED BY <2>2, <2>4, <3>1, <3>3, Zenon
  <2>6. CASE CutWithin(p, c)
    <3> DEFINE w == Head(p)
               q == Tail(p)
    <3>1. PICK v \in Word, d \in Word :
            x = <<v>> /\ y = <<d>> \o q /\ v.id = w.id /\ d.id = w.id /\ ~v.stop
      BY <2>6, Zenon DEF CutWithin
    <3>2. w \in Word /\ q \in Paragraph /\ p = <<w>> \o q
      BY <2>1, FirstWord
    <3> HIDE DEF w, q, p, r, x, y
    <3>3. Strict(Words(<<<<w>> \o q>> \o r))
      BY <2>2, <3>2, Zenon
    <3>4. RoundWell(<<<<w>> \o q>> \o r, <<<<v>>>>, <<<<d>> \o q>> \o r)
      BY <2>1, <3>1, <3>2, <3>3, CutWithinWord
    <3> QED BY <2>2, <2>4, <3>1, <3>2, <3>4, Zenon
  <2> QED BY <1>5, <2>5, <2>6 DEF p
<1>6. CASE t # h \o u
  <2>1. \E c \in [head: Paragraph \ {<<>>}, tail: Paragraph \ {<<>>}] :
          /\ h = <<c.head>> /\ u = <<c.tail>> \o Tail(t)
          /\ CutBetween(Head(t), c) \/ CutWithin(Head(t), c)
    BY <1>1, <1>6, Zenon DEF CutSomewhere
  <2> QED BY <1>5, <2>1 DEF h, u
<1> QED BY <1>4, <1>6

(* No page is empty, unless the story is.                                  *)
LEMMA PagesFull ==
  \A t \in FullText : t # <<>> => \A i \in 1..Len(SectionsFrom[t]) : SectionsFrom[t][i] # <<>>
<1> DEFINE Full(l) == \A i \in 1..Len(l) : l[i] # <<>>
           G == {t \in FullText : t # <<>> => Full(SectionsFrom[t])}
<1>1. ASSUME NEW t \in FullText, LastRound(t) PROVE t \in G
  <2> SUFFICES ASSUME t # <<>> PROVE Full(SectionsFrom[t])
    OBVIOUS
  <2>1. SectionsFrom[t] = <<LastPage(t)>>
    BY <1>1, SectionsEquation, Zenon
  <2>2. LastPage(t) # <<>>
    <3>1. CASE Length(t) <= MaxChars
      BY <3>1, Zenon DEF LastPage
    <3>2. CASE ~(Length(t) <= MaxChars)
      <4>1. Length(t) > MaxChars
        BY <3>2, RoundTyped, SectionsAssumption
      <4>2. First(t) \in FullText /\ First(t) # <<>> /\ Rest(t) \in FullText
        BY <4>1, NextSectionWell DEF First, Rest
      <4>3. WithRest(First(t), Rest(t)) # <<>>
        BY <4>2, RestJoined
      <4> QED BY <3>2, <4>3, Zenon DEF LastPage
    <3> QED BY <3>1, <3>2
  <2> DEFINE x == LastPage(t)
  <2> HIDE DEF x
  <2>3. Full(<<x>>)
    BY <2>2 DEF x
  <2> HIDE DEF Full
  <2> QED BY <2>1, <2>3, Zenon DEF x
<1>2. ASSUME NEW t \in FullText, ~LastRound(t), Rest(t) \in G PROVE t \in G
  <2> DEFINE x == First(t)
             u == Rest(t)
             r == SectionsFrom[Rest(t)]
  <2>1. SectionsFrom[t] = <<x>> \o r
    BY <1>2, SectionsEquation, Zenon
  <2>2. Length(t) > MaxChars
    BY <1>2, RoundTyped, SectionsAssumption DEF LastRound
  <2>3. x \in FullText /\ x # <<>> /\ u \in FullText /\ u # <<>>
    BY <2>2, NextSectionWell DEF First, Rest
  <2>4. r \in Seq(FullText)
    BY <2>3, SectionsEquation
  <2>5. Full(r)
    BY <1>2, <2>3
  <2> HIDE DEF x, u, r
  <2>6. Full(<<x>> \o r)
    <3> DEFINE l == <<x>> \o r
    <3>1. /\ Len(r) \in Nat /\ Len(l) = Len(r) + 1 /\ l[1] = x
          /\ \A i \in 1..Len(r) : l[i + 1] = r[i]
      BY <2>3, <2>4, FirstPage
    <3> HIDE DEF l
    <3>2. ASSUME NEW i \in 1..Len(l) PROVE l[i] # <<>>
      <4>1. CASE i = 1
        BY <2>3, <3>1, <4>1
      <4>2. CASE i # 1
        <5>1. i - 1 \in 1..Len(r) /\ i - 1 + 1 = i
          BY <3>1, <4>2
        <5>2. l[i - 1 + 1] = r[i - 1]
          BY <3>1, <5>1
        <5> QED BY <2>5, <5>1, <5>2
      <4> QED BY <4>1, <4>2
    <3> QED BY <3>2 DEF l
  <2> HIDE DEF Full
  <2>7. Full(SectionsFrom[t])
    BY <2>1, <2>6, Zenon
  <2> QED BY <2>7
<1> HIDE DEF G
<1>3. \A t \in FullText : t \in G
  BY <1>1, <1>2, TextInduction
<1> QED BY <1>3 DEF G

(* The first words of the first page, and the words of every page.         *)
LEMMA PageIds ==
  ASSUME NEW l \in Seq(FullText), NEW i \in 1..Len(l)
  PROVE  Ids(Words(l[i])) \subseteq Ids(AllWords(l))
<1> DEFINE m == PageWords(l)
<1>1. m \in Text /\ Len(m) = Len(l) /\ m[i] = Words(l[i]) /\ Len(l) \in Nat
  BY PageWordsTyped DEF Text, Paragraph
<1> HIDE DEF m
<1>2. DOMAIN m = 1..Len(l)
  BY <1>1, LenProperties DEF Text
<1>3. m[i] \in Range(m)
  BY <1>2 DEF Range
<1>4. Ids(m[i]) \subseteq Ids(Words(m))
  BY <1>1, <1>3, ParagraphIds
<1>5. Words(m) = AllWords(l)
  BY Zenon DEF Words, AllWords, m
<1> QED BY <1>1, <1>4, <1>5, Zenon

LEMMA FirstWordOfAll ==
  ASSUME NEW l \in Seq(FullText), l # <<>>, l[1] # <<>>
  PROVE  Words(l[1]) # <<>> /\ AllWords(l)[1] = Words(l[1])[1]
<1>1. Head(l) \in FullText /\ Tail(l) \in Seq(FullText) /\ l = <<Head(l)>> \o Tail(l)
  BY HeadTailProperties
<1>2. Head(l) = l[1]
  OBVIOUS
<1> DEFINE x == Head(l)
           r == Tail(l)
<1>3. x \in FullText /\ r \in Seq(FullText) /\ l = <<x>> \o r /\ x = l[1]
  BY <1>1, <1>2
<1> HIDE DEF x, r
<1>4. AllWords(<<x>> \o r) = Words(x) \o AllWords(r)
  BY <1>3, AllWordsFirst
<1>5. AllWords(l) = Words(x) \o AllWords(r)
  BY <1>3, <1>4, Zenon
<1>6. Words(x) # <<>>
  BY <1>3, FullWords
<1>7. Words(x) \in Paragraph /\ AllWords(r) \in Paragraph
  BY <1>3, FullIsText, WordsTyped, PageWordsTyped
<1>8. 1 \in 1..Len(Words(x))
  BY <1>6, <1>7, CharsTyped
<1>9. (Words(x) \o AllWords(r))[1] = Words(x)[1]
  BY <1>7, <1>8, ConcatWords
<1>10. AllWords(l)[1] = Words(x)[1]
  BY <1>5, <1>9, Zenon
<1> QED BY <1>3, <1>6, <1>10, Zenon

Breaks(t, l) == \A i \in 1..(Len(l) - 1) : BreakWell(t, l[i], l[i + 1])

LEMMA RoundBreaks ==
  ASSUME NEW t \in FullText, ~LastRound(t), Strict(Words(t)),
         Strict(Words(Rest(t))) => Breaks(Rest(t), SectionsFrom[Rest(t)])
  PROVE  Breaks(t, SectionsFrom[t])
<1> DEFINE x == First(t)
           u == Rest(t)
           r == SectionsFrom[Rest(t)]
<1>1. SectionsFrom[t] = <<x>> \o r
  BY SectionsEquation, Zenon
<1>2. Length(t) > MaxChars
  BY RoundTyped, SectionsAssumption DEF LastRound
<1>3. x \in FullText /\ x # <<>> /\ u \in FullText /\ u # <<>>
  BY <1>2, NextSectionWell DEF First, Rest
<1>4. r \in Seq(FullText)
  BY <1>3, SectionsEquation
<1>5. RoundWell(t, x, u)
  BY <1>2, RoundCuts
<1>6. Breaks(u, r)
  BY <1>5 DEF RoundWell
<1>7. \A i \in 1..Len(r) : r[i] # <<>>
  BY <1>3, PagesFull
<1>8. SplitOf(Words(u), AllWords(r))
  BY <1>3, SectionsSplit
<1> HIDE DEF x, u, r
<1> DEFINE l == <<x>> \o r
<1>9. /\ Len(r) \in Nat /\ Len(l) = Len(r) + 1 /\ l[1] = x
      /\ \A i \in 1..Len(r) : l[i + 1] = r[i]
  BY <1>3, <1>4, FirstPage
<1> HIDE DEF l
<1>10. Words(u) # <<>> /\ AllWords(r)[1].id = Words(u)[1].id /\ Ids(AllWords(r)) = Ids(Words(u))
  BY <1>3, <1>8, FullWords DEF SplitOf
<1>11. ASSUME 1 \in 1..Len(r) PROVE BreakWell(t, x, r[1])
  <2>1. r # <<>> /\ r[1] # <<>>
    BY <1>7, <1>11
  <2>2. AllWords(r)[1] = Words(r[1])[1]
    BY <1>4, <2>1, FirstWordOfAll
  <2>3. Words(r[1])[1].id = Words(u)[1].id
    BY <1>10, <2>2, Zenon
  <2>4. BreakWell(t, x, u)
    BY <1>5 DEF RoundWell
  <2> QED BY <2>3, <2>4, Zenon DEF BreakWell
<1>12. ASSUME NEW i \in 1..(Len(r) - 1) PROVE BreakWell(t, r[i], r[i + 1])
  <2>1. i \in 1..Len(r)
    BY <1>9
  <2> DEFINE ws == Words(r[i])
             a == ws[Len(ws)].id
             b == Words(r[i + 1])[1].id
  <2>2. ws \in Paragraph /\ ws # <<>>
    <3>1. r[i] \in FullText /\ r[i] # <<>>
      BY <1>4, <1>7, <2>1, ElementOfSeq
    <3> QED BY <3>1, FullIsText, FullWords, WordsTyped
  <2>3. Len(ws) \in 1..Len(ws)
    BY <2>2, CharsTyped
  <2>4. a \in Ids(ws)
    BY <2>3 DEF Ids
  <2>5. Ids(ws) \subseteq Ids(AllWords(r))
    BY <1>4, <2>1, PageIds
  <2>6. a \in Ids(Words(u))
    BY <1>10, <2>4, <2>5
  <2>7. BreakWell(u, r[i], r[i + 1])
    BY <1>6 DEF Breaks
  <2>8. Inside(t, a, b) => Inside(u, a, b)
    BY <1>5, <2>6, Zenon DEF RoundWell
  <2> QED BY <2>7, <2>8, Zenon DEF BreakWell
<1>13. ASSUME NEW i \in 1..(Len(l) - 1) PROVE BreakWell(t, l[i], l[i + 1])
  <2>1. i \in 1..Len(r) /\ l[i + 1] = r[i]
    BY <1>9
  <2>2. CASE i = 1
    BY <1>9, <1>11, <2>1, <2>2
  <2>3. CASE i # 1
    <3>1. i - 1 \in 1..(Len(r) - 1) /\ i - 1 \in 1..Len(r) /\ i - 1 + 1 = i
      BY <1>9, <2>1, <2>3
    <3>2. l[i - 1 + 1] = r[i - 1]
      BY <1>9, <3>1
    <3>3. BreakWell(t, r[i - 1], r[i - 1 + 1])
      BY <1>12, <3>1
    <3> QED BY <2>1, <3>1, <3>2, <3>3
  <2> QED BY <2>2, <2>3
<1>14. Breaks(t, l)
  BY <1>13 DEF Breaks
<1> QED BY <1>1, <1>14, Zenon DEF l, x, r

LEMMA SectionsBreak ==
  \A t \in FullText : Strict(Words(t)) => Breaks(t, SectionsFrom[t])
<1> DEFINE G == {t \in FullText : Strict(Words(t)) => Breaks(t, SectionsFrom[t])}
<1>1. ASSUME NEW t \in FullText, LastRound(t) PROVE t \in G
  <2> DEFINE x == LastPage(t)
  <2>1. SectionsFrom[t] = <<x>>
    BY <1>1, SectionsEquation, Zenon
  <2> HIDE DEF x
  <2>2. Len(<<x>>) = 1
    OBVIOUS
  <2>3. Breaks(t, <<x>>)
    BY <2>2 DEF Breaks
  <2>4. Breaks(t, SectionsFrom[t])
    BY <2>1, <2>3, Zenon
  <2> QED BY <2>4
<1>2. ASSUME NEW t \in FullText, ~LastRound(t), Rest(t) \in G PROVE t \in G
  <2>1. Strict(Words(Rest(t))) => Breaks(Rest(t), SectionsFrom[Rest(t)])
    BY <1>2
  <2>2. Strict(Words(t)) => Breaks(t, SectionsFrom[t])
    BY <1>2, <2>1, RoundBreaks
  <2> QED BY <2>2
<1> HIDE DEF G
<1>3. \A t \in FullText : t \in G
  BY <1>1, <1>2, TextInduction
<1> QED BY <1>3 DEF G

(* A page of any text that ends within a paragraph ends with a sentence,   *)
(* unless no sentence ends in it (findBestSplit,                           *)
(* story-parser.service.ts:87-128).                                        *)
THEOREM SectionsBreakAtSentences ==
  \A t \in Text : Strict(Words(t)) => BrokenAtSentence(t, Sections(t))
<1> SUFFICES ASSUME NEW t \in Text, Strict(Words(t)) PROVE BrokenAtSentence(t, Sections(t))
  OBVIOUS
<1> DEFINE l == Sections(t)
<1>1. NoEmpty(t) \in FullText /\ l \in Seq(FullText)
  BY SectionsTyped
<1>2. Words(NoEmpty(t)) = Words(t)
  BY NoEmptyWords
<1>3. Strict(Words(NoEmpty(t)))
  BY <1>2, Zenon
<1>4. Breaks(NoEmpty(t), l)
  BY <1>1, <1>3, SectionsBreak DEF Sections
<1>5. ASSUME NEW a, NEW b, Inside(t, a, b) PROVE Inside(NoEmpty(t), a, b)
  <2>1. PICK p \in Range(t) : Beside(p, a, b)
    BY <1>5 DEF Inside
  <2>2. p \in Paragraph
    BY ParagraphIds
  <2>3. p # <<>>
    BY <2>1, <2>2, BesideIds
  <2>4. p \in Range(NoEmpty(t))
    BY <2>3, NoEmptyInside
  <2> QED BY <2>1, <2>4 DEF Inside
<1>6. \A i \in 1..(Len(l) - 1) : BreakWell(t, l[i], l[i + 1])
  BY <1>4, <1>5, Zenon DEF Breaks, BreakWell
<1> HIDE DEF l
<1>7. Len(l) \in Nat
  BY <1>1, LenProperties
<1>8. ASSUME NEW i \in 1..(Len(l) - 1)
      PROVE  LET ws     == Words(l[i])
                 end    == ws[Len(ws)]
                 next   == Words(l[i + 1])[1]
                 within == \E p \in Range(t) : \E k \in 1..(Len(p) - 1) :
                             p[k].id = end.id /\ p[k + 1].id = next.id
             IN within => end.stop \/ \A w \in Range(ws) : ~w.stop
  <2> DEFINE ws == Words(l[i])
  <2>1. i \in 1..Len(l)
    BY <1>7
  <2>2. ws \in Paragraph
    BY <1>1, <2>1, ElementOfSeq, FullIsText, WordsTyped
  <2>3. DOMAIN ws = 1..Len(ws)
    BY <2>2, LenProperties DEF Paragraph
  <2>4. Inside(t, ws[Len(ws)].id, Words(l[i + 1])[1].id)
          => ws[Len(ws)].stop \/ \A j \in 1..Len(ws) : ~ws[j].stop
    BY <1>6, Zenon DEF BreakWell
  <2> HIDE DEF ws
  <2>5. (\A j \in 1..Len(ws) : ~ws[j].stop) => \A w \in Range(ws) : ~w.stop
    BY <2>3 DEF Range
  <2>6. Inside(t, ws[Len(ws)].id, Words(l[i + 1])[1].id)
          => ws[Len(ws)].stop \/ \A w \in Range(ws) : ~w.stop
    BY <2>4, <2>5, Zenon
  <2> QED BY <2>6, Zenon DEF Inside, Beside, ws
<1> QED BY <1>8, Zenon DEF BrokenAtSentence, l

-----------------------------------------------------------------------------
(* Texts one after the other.                                              *)

Distinct(ws) == \A i, j \in 1..Len(ws) : ws[i].id = ws[j].id => i = j

LEMMA DistinctConcat ==
  ASSUME NEW p \in Paragraph, NEW q \in Paragraph
  PROVE  Distinct(p \o q) <=> /\ Distinct(p) /\ Distinct(q)
                              /\ Ids(p) \cap Ids(q) = {}
<1> DEFINE r == p \o q
           m == Len(p)
<1>1. /\ m \in Nat /\ Len(q) \in Nat
      /\ \A i \in 1..m : r[i] = p[i] /\ i \in 1..Len(r)
      /\ \A i \in 1..Len(q) : r[m + i] = q[i] /\ m + i \in 1..Len(r)
      /\ \A k \in 1..Len(r) : \/ k \in 1..m
                              \/ k > m /\ k - m \in 1..Len(q) /\ k = m + (k - m)
  BY ConcatWords
<1> HIDE DEF r
<1>2. ASSUME Distinct(r) PROVE Distinct(p) /\ Distinct(q) /\ Ids(p) \cap Ids(q) = {}
  <2>1. Distinct(p)
    BY <1>1, <1>2 DEF Distinct
  <2>2. Distinct(q)
    <3> SUFFICES ASSUME NEW i \in 1..Len(q), NEW j \in 1..Len(q), q[i].id = q[j].id
                 PROVE  i = j
      BY DEF Distinct
    <3>1. r[m + i].id = r[m + j].id /\ m + i \in 1..Len(r) /\ m + j \in 1..Len(r)
      BY <1>1
    <3>2. m + i = m + j
      BY <1>2, <3>1 DEF Distinct
    <3> QED BY <1>1, <3>2
  <2>3. ASSUME NEW x \in Ids(p), x \in Ids(q) PROVE FALSE
    <3>1. PICK i \in 1..m : x = p[i].id
      BY DEF Ids
    <3>2. PICK j \in 1..Len(q) : x = q[j].id
      BY <2>3 DEF Ids
    <3>3. /\ r[i] = p[i] /\ i \in 1..Len(r) /\ r[m + j] = q[j] /\ m + j \in 1..Len(r)
          /\ i # m + j
      BY <1>1
    <3>4. r[i].id = r[m + j].id
      BY <3>1, <3>2, <3>3
    <3> QED BY <1>2, <3>3, <3>4 DEF Distinct
  <2> QED BY <2>1, <2>2, <2>3
<1>3. ASSUME Distinct(p), Distinct(q), Ids(p) \cap Ids(q) = {} PROVE Distinct(r)
  <2> SUFFICES ASSUME NEW i \in 1..Len(r), NEW j \in 1..Len(r), r[i].id = r[j].id
               PROVE  i = j
    BY DEF Distinct
  <2>1. CASE i \in 1..m /\ j \in 1..m
    BY <1>1, <1>3, <2>1 DEF Distinct
  <2>2. ASSUME NEW k \in 1..m, NEW n \in 1..Len(q) PROVE p[k].id # q[n].id
    BY <1>3 DEF Ids
  <2>3. CASE i \in 1..m /\ j > m /\ j - m \in 1..Len(q) /\ j = m + (j - m)
    <3>1. r[i] = p[i] /\ r[m + (j - m)] = q[j - m]
      BY <1>1, <2>3
    <3>2. r[j] = q[j - m]
      BY <2>3, <3>1, Zenon
    <3> QED BY <2>2, <2>3, <3>1, <3>2
  <2>4. CASE j \in 1..m /\ i > m /\ i - m \in 1..Len(q) /\ i = m + (i - m)
    <3>1. r[j] = p[j] /\ r[m + (i - m)] = q[i - m]
      BY <1>1, <2>4
    <3>2. r[i] = q[i - m]
      BY <2>4, <3>1, Zenon
    <3> QED BY <2>2, <2>4, <3>1, <3>2
  <2>5. CASE /\ i > m /\ i - m \in 1..Len(q) /\ i = m + (i - m)
             /\ j > m /\ j - m \in 1..Len(q) /\ j = m + (j - m)
    <3>1. r[m + (i - m)] = q[i - m] /\ r[m + (j - m)] = q[j - m]
      BY <1>1, <2>5
    <3>2. r[i] = q[i - m] /\ r[j] = q[j - m]
      BY <2>5, <3>1, Zenon
    <3>3. i - m = j - m
      BY <1>3, <2>5, <3>2 DEF Distinct
    <3> QED BY <1>1, <3>3
  <2> QED BY <1>1, <2>1, <2>3, <2>4, <2>5
<1> QED BY <1>2, <1>3 DEF r

LEMMA TextWords ==
  ASSUME NEW l \in Seq(Text)
  PROVE  /\ Len(l) \in Nat /\ PageWords(l) \in Seq(Seq(Word)) /\ Len(PageWords(l)) = Len(l)
         /\ \A i \in 1..Len(l) : PageWords(l)[i] = Words(l[i]) /\ l[i] \in Text
         /\ AllWords(l) \in Paragraph
<1>1. Len(l) \in Nat /\ DOMAIN l = 1..Len(l) /\ \A i \in 1..Len(l) : l[i] \in Text
  BY LenProperties
<1>2. \A i \in 1..Len(l) : Words(l[i]) \in Seq(Word)
  BY <1>1, WordsTyped DEF Paragraph
<1>3. PageWords(l) \in Seq(Seq(Word)) /\ Len(PageWords(l)) = Len(l)
  BY <1>1, <1>2 DEF PageWords
<1>4. AllWords(l) \in Paragraph
  BY <1>3, FlattenTyped DEF AllWords, Paragraph
<1> QED BY <1>1, <1>3, <1>4 DEF PageWords

LEMMA TextWordsConcat ==
  ASSUME NEW l \in Seq(Text), NEW k \in Seq(Text)
  PROVE  l \o k \in Seq(Text) /\ AllWords(l \o k) = AllWords(l) \o AllWords(k)
<1> DEFINE r == l \o k
           x == PageWords(l)
           y == PageWords(k)
           z == PageWords(r)
<1>1. /\ r \in Seq(Text) /\ Len(r) = Len(l) + Len(k)
      /\ \A i \in 1..(Len(l) + Len(k)) : r[i] = IF i <= Len(l) THEN l[i] ELSE k[i - Len(l)]
  BY ConcatProperties
<1> HIDE DEF r
<1>2. /\ x \in Seq(Seq(Word)) /\ y \in Seq(Seq(Word)) /\ z \in Seq(Seq(Word))
      /\ Len(x) = Len(l) /\ Len(y) = Len(k) /\ Len(z) = Len(r)
      /\ Len(l) \in Nat /\ Len(k) \in Nat
      /\ \A i \in 1..Len(l) : x[i] = Words(l[i])
      /\ \A i \in 1..Len(k) : y[i] = Words(k[i])
      /\ \A i \in 1..Len(r) : z[i] = Words(r[i])
  BY <1>1, TextWords
<1> HIDE DEF x, y, z
<1>3. /\ x \o y \in Seq(Seq(Word)) /\ Len(x \o y) = Len(x) + Len(y)
      /\ \A i \in 1..(Len(x) + Len(y)) :
           (x \o y)[i] = IF i <= Len(x) THEN x[i] ELSE y[i - Len(x)]
  <2> DEFINE W == Seq(Word)
  <2>1. x \in Seq(W) /\ y \in Seq(W)
    BY <1>2
  <2> HIDE DEF W
  <2>2. /\ Len(x \o y) = Len(x) + Len(y) /\ x \o y \in Seq(W)
        /\ \A i \in 1..(Len(x) + Len(y)) :
             (x \o y)[i] = IF i <= Len(x) THEN x[i] ELSE y[i - Len(x)]
    BY <2>1, ConcatProperties
  <2> QED BY <2>2 DEF W
<1>4. z = x \o y
  <2>1. Len(z) = Len(x \o y)
    BY <1>1, <1>2, <1>3
  <2>2. ASSUME NEW i \in 1..Len(z) PROVE z[i] = (x \o y)[i]
    <3>1. CASE i <= Len(l)
      <4>1. i \in 1..Len(l) /\ r[i] = l[i] /\ (x \o y)[i] = x[i]
        BY <1>1, <1>2, <1>3, <3>1
      <4> QED BY <1>2, <4>1
    <3>2. CASE ~(i <= Len(l))
      <4>0. /\ i \in 1..(Len(l) + Len(k)) /\ i - Len(l) \in 1..Len(k)
            /\ Len(x) = Len(l) /\ Len(y) = Len(k)
        <5>1. Len(z) = Len(l) + Len(k) /\ Len(x) = Len(l) /\ Len(y) = Len(k)
              /\ Len(l) \in Nat /\ Len(k) \in Nat
          BY <1>1, <1>2
        <5> QED BY <3>2, <5>1
      <4>1. i - Len(l) \in 1..Len(k) /\ r[i] = k[i - Len(l)] /\ (x \o y)[i] = y[i - Len(l)]
        <5>1. r[i] = k[i - Len(l)]
          BY <1>1, <3>2, <4>0
        <5>2. (x \o y)[i] = y[i - Len(l)]
          BY <1>3, <3>2, <4>0
        <5> QED BY <4>0, <5>1, <5>2
      <4>2. y[i - Len(l)] = Words(k[i - Len(l)]) /\ z[i] = Words(r[i])
        BY <1>2, <4>1
      <4> QED BY <4>1, <4>2, Zenon
    <3> QED BY <3>1, <3>2
  <2> QED BY <1>2, <1>3, <2>1, <2>2, SeqEqual
<1>5. FlattenSeq(x \o y) = FlattenSeq(x) \o FlattenSeq(y)
  BY <1>2, FlattenConcat
<1> QED BY <1>1, <1>4, <1>5, Zenon DEF AllWords, x, y, z, r

LEMMA TextWordsOne ==
  ASSUME NEW t \in Text
  PROVE  <<t>> \in Seq(Text) /\ AllWords(<<t>>) = Words(t)
<1> DEFINE T == Text
           W == Seq(Word)
           l == <<t>>
           q == <<Words(t)>>
<1>1. t \in T /\ Words(t) \in W
  BY WordsTyped DEF Paragraph
<1> HIDE DEF T, W
<1>2. l \in Seq(T) /\ Len(l) = 1 /\ l[1] = t
  BY <1>1
<1>3. q \in Seq(W) /\ Len(q) = 1 /\ q[1] = Words(t)
  BY <1>1
<1> HIDE DEF l, q
<1>4. PageWords(l) \in Seq(Seq(Word)) /\ Len(PageWords(l)) = 1 /\ PageWords(l)[1] = Words(l[1])
  BY <1>2, TextWords DEF T
<1>5. PageWords(l) = q
  <2>1. \A i \in 1..Len(q) : PageWords(l)[i] = q[i]
    BY <1>2, <1>3, <1>4
  <2> QED BY <1>3, <1>4, <2>1, SeqEqual DEF W
<1>6. FlattenSeq(q) = Words(t)
  BY <1>1, FlattenOne, Zenon DEF W, q
<1> QED BY <1>2, <1>5, <1>6, Zenon DEF AllWords, T, l

LEMMA TextWordsNone == AllWords(<<>>) = <<>>
<1>1. PageWords(<<>>) = <<>>
  BY DEF PageWords
<1> QED BY <1>1, FlattenEmpty, Zenon DEF AllWords

(* A text put together from others.                                        *)
LEMMA JoinedWords ==
  \A l \in Seq(Text) : FlattenSeq(l) \in Text /\ Words(FlattenSeq(l)) = AllWords(l)
<1> DEFINE G == {l \in Seq(Text) :
                   FlattenSeq(l) \in Text /\ Words(FlattenSeq(l)) = AllWords(l)}
<1>1. <<>> \in G
  <2>1. <<>> \in Seq(Text) /\ <<>> \in Text
    BY DEF Text
  <2>2. Words(<<>>) = <<>> /\ FlattenSeq(<<>>) = <<>>
    BY FlattenEmpty, Zenon DEF Words
  <2> QED BY <2>1, <2>2, TextWordsNone, Zenon
<1>2. ASSUME NEW l \in Seq(Text), NEW t \in Text, l \in G PROVE Append(l, t) \in G
  <2>1. FlattenSeq(Append(l, t)) = FlattenSeq(l) \o t
    BY FlattenAppend DEF Text
  <2>2. FlattenSeq(l) \in Text /\ Words(FlattenSeq(l)) = AllWords(l)
    BY <1>2
  <2>3. /\ FlattenSeq(l) \o t \in Text
        /\ Words(FlattenSeq(l) \o t) = Words(FlattenSeq(l)) \o Words(t)
    BY <2>2, WordsConcat
  <2>4. <<t>> \in Seq(Text) /\ AllWords(<<t>>) = Words(t)
    BY TextWordsOne
  <2>5. l \o <<t>> \in Seq(Text) /\ AllWords(l \o <<t>>) = AllWords(l) \o Words(t)
    BY <2>4, TextWordsConcat
  <2>6. Append(l, t) = l \o <<t>>
    <3> DEFINE T == Text
    <3> HIDE DEF T
    <3>1. l \in Seq(T) /\ t \in T
      BY DEF T
    <3> QED BY <3>1
  <2> QED BY <2>1, <2>2, <2>3, <2>5, <2>6, Zenon
<1> HIDE DEF G
<1>3. \A l \in Seq(Text) : l \in G
  BY <1>1, <1>2, SequenceInduction
<1> QED BY <1>3 DEF G

(* What the words of texts one after the other have in common with those   *)
(* of each text.                                                           *)
Apart(l) ==
  /\ \A i \in 1..Len(l) : Distinct(Words(l[i]))
  /\ \A i, j \in 1..Len(l) : i # j => Ids(Words(l[i])) \cap Ids(Words(l[j])) = {}

LEMMA ApartAppend ==
  ASSUME NEW l \in Seq(Text), NEW t \in Text
  PROVE  Apart(l \o <<t>>) <=> /\ Apart(l) /\ Distinct(Words(t))
                              /\ \A i \in 1..Len(l) : Ids(Words(l[i])) \cap Ids(Words(t)) = {}
<1> DEFINE r == l \o <<t>>
           n == Len(l)
<1>1. /\ n \in Nat /\ Len(r) = n + 1 /\ r[n + 1] = t /\ n + 1 \in 1..(n + 1)
      /\ \A i \in 1..n : r[i] = l[i] /\ i \in 1..(n + 1) /\ i # n + 1
      /\ \A i \in 1..(n + 1) : i \in 1..n \/ i = n + 1
  BY LenProperties
<1> HIDE DEF r, n
<1>2. ASSUME Apart(r)
      PROVE  /\ Apart(l) /\ Distinct(Words(t))
             /\ \A i \in 1..n : Ids(Words(l[i])) \cap Ids(Words(t)) = {}
  <2>1. \A i \in 1..(n + 1) : Distinct(Words(r[i]))
    BY <1>1, <1>2 DEF Apart
  <2>2. \A i, j \in 1..(n + 1) : i # j => Ids(Words(r[i])) \cap Ids(Words(r[j])) = {}
    BY <1>1, <1>2 DEF Apart
  <2>3. \A i \in 1..n : Distinct(Words(l[i]))
    BY <1>1, <2>1
  <2>4. \A i, j \in 1..n : i # j => Ids(Words(l[i])) \cap Ids(Words(l[j])) = {}
    BY <1>1, <2>2
  <2>5. \A i \in 1..n : Ids(Words(l[i])) \cap Ids(Words(t)) = {}
    BY <1>1, <2>2
  <2>6. Distinct(Words(t))
    BY <1>1, <2>1
  <2> QED BY <2>3, <2>4, <2>5, <2>6 DEF Apart, n
<1>3. ASSUME Apart(l), Distinct(Words(t)),
             \A i \in 1..n : Ids(Words(l[i])) \cap Ids(Words(t)) = {}
      PROVE  Apart(r)
  <2>1. /\ \A i \in 1..n : Distinct(Words(l[i]))
        /\ \A i, j \in 1..n : i # j => Ids(Words(l[i])) \cap Ids(Words(l[j])) = {}
    BY <1>3 DEF Apart, n
  <2>2. \A i \in 1..(n + 1) : Distinct(Words(r[i]))
    BY <1>1, <1>3, <2>1
  <2>3. \A i, j \in 1..(n + 1) : i # j => Ids(Words(r[i])) \cap Ids(Words(r[j])) = {}
    <3> SUFFICES ASSUME NEW i \in 1..(n + 1), NEW j \in 1..(n + 1), i # j
                 PROVE  Ids(Words(r[i])) \cap Ids(Words(r[j])) = {}
      OBVIOUS
    <3>1. CASE i \in 1..n /\ j \in 1..n
      BY <1>1, <2>1, <3>1
    <3>2. CASE i \in 1..n /\ j = n + 1
      BY <1>1, <1>3, <3>2
    <3>3. CASE j \in 1..n /\ i = n + 1
      BY <1>1, <1>3, <3>3
    <3> QED BY <1>1, <3>1, <3>2, <3>3
  <2> QED BY <1>1, <2>2, <2>3 DEF Apart
<1> QED BY <1>2, <1>3 DEF r, n

LEMMA WordsOfAll ==
  \A l \in Seq(Text) :
    /\ \A x : x \in Ids(AllWords(l)) <=> \E i \in 1..Len(l) : x \in Ids(Words(l[i]))
    /\ HasLong(AllWords(l)) <=> \E i \in 1..Len(l) : HasLong(Words(l[i]))
    /\ Distinct(AllWords(l)) <=> Apart(l)
<1> DEFINE Same(l) ==
             /\ \A x : x \in Ids(AllWords(l)) <=> \E i \in 1..Len(l) : x \in Ids(Words(l[i]))
             /\ HasLong(AllWords(l)) <=> \E i \in 1..Len(l) : HasLong(Words(l[i]))
             /\ Distinct(AllWords(l)) <=> Apart(l)
           G == {l \in Seq(Text) : Same(l)}
<1>1. <<>> \in G
  <2>1. <<>> \in Seq(Text) /\ Len(<<>>) = 0 /\ 1..0 = {}
    OBVIOUS
  <2>2. AllWords(<<>>) = <<>>
    BY TextWordsNone
  <2>3. Ids(<<>>) = {} /\ ~HasLong(<<>>) /\ Distinct(<<>>)
    BY <2>1 DEF Ids, HasLong, Distinct
  <2>4. Apart(<<>>)
    BY <2>1 DEF Apart
  <2>5. /\ \A x : x \in Ids(AllWords(<<>>)) <=> \E i \in 1..Len(<<>>) : x \in Ids(Words(<<>>[i]))
        /\ HasLong(AllWords(<<>>)) <=> \E i \in 1..Len(<<>>) : HasLong(Words(<<>>[i]))
        /\ Distinct(AllWords(<<>>)) <=> Apart(<<>>)
    BY <2>1, <2>2, <2>3, <2>4
  <2> QED BY <2>1, <2>5
<1>2. ASSUME NEW l \in Seq(Text), NEW t \in Text, l \in G PROVE Append(l, t) \in G
  <2> DEFINE r == l \o <<t>>
             n == Len(l)
             p == AllWords(l)
             q == Words(t)
  <2>1. <<t>> \in Seq(Text) /\ AllWords(<<t>>) = q
    BY TextWordsOne
  <2>2. r \in Seq(Text) /\ AllWords(r) = p \o q
    BY <2>1, TextWordsConcat, Zenon
  <2>3. p \in Paragraph /\ q \in Paragraph
    BY TextWords, WordsTyped
  <2>4. Append(l, t) = r
    <3> DEFINE T == Text
    <3> HIDE DEF T
    <3>1. l \in Seq(T) /\ t \in T
      BY DEF T
    <3> QED BY <3>1
  <2>5. /\ n \in Nat /\ Len(r) = n + 1 /\ r[n + 1] = t /\ n + 1 \in 1..(n + 1)
        /\ \A i \in 1..n : r[i] = l[i] /\ i \in 1..(n + 1)
        /\ \A i \in 1..(n + 1) : i \in 1..n \/ i = n + 1
    BY LenProperties
  <2>6. /\ \A x : x \in Ids(p) <=> \E i \in 1..n : x \in Ids(Words(l[i]))
        /\ HasLong(p) <=> \E i \in 1..n : HasLong(Words(l[i]))
        /\ Distinct(p) <=> Apart(l)
    BY <1>2
  <2>7. Apart(r) <=> /\ Apart(l) /\ Distinct(q)
                     /\ \A i \in 1..n : Ids(Words(l[i])) \cap Ids(q) = {}
    BY ApartAppend
  <2> HIDE DEF r, n, p, q, G
  <2>8. /\ Ids(p \o q) = Ids(p) \cup Ids(q)
        /\ HasLong(p \o q) <=> HasLong(p) \/ HasLong(q)
        /\ Distinct(p \o q) <=> /\ Distinct(p) /\ Distinct(q) /\ Ids(p) \cap Ids(q) = {}
    BY <2>3, IdsConcat, LongConcat, DistinctConcat
  <2>9. ASSUME NEW x
        PROVE  x \in Ids(AllWords(r)) <=> \E i \in 1..(n + 1) : x \in Ids(Words(r[i]))
    <3>1. x \in Ids(AllWords(r)) <=> (\E i \in 1..n : x \in Ids(Words(l[i]))) \/ x \in Ids(q)
      BY <2>2, <2>6, <2>8
    <3>2. (\E i \in 1..n : x \in Ids(Words(l[i]))) <=> (\E i \in 1..n : x \in Ids(Words(r[i])))
      BY <2>5
    <3>3. x \in Ids(q) <=> x \in Ids(Words(r[n + 1]))
      BY <2>5 DEF q
    <3> QED BY <2>5, <3>1, <3>2, <3>3
  <2>10. HasLong(AllWords(r)) <=> \E i \in 1..(n + 1) : HasLong(Words(r[i]))
    <3>1. HasLong(AllWords(r)) <=> (\E i \in 1..n : HasLong(Words(l[i]))) \/ HasLong(q)
      BY <2>2, <2>6, <2>8
    <3>2. (\E i \in 1..n : HasLong(Words(l[i]))) <=> (\E i \in 1..n : HasLong(Words(r[i])))
      BY <2>5
    <3>3. HasLong(q) <=> HasLong(Words(r[n + 1]))
      BY <2>5 DEF q
    <3> QED BY <2>5, <3>1, <3>2, <3>3
  <2>11. Distinct(AllWords(r)) <=> Apart(r)
    <3>1. Ids(p) \cap Ids(q) = {} <=> \A i \in 1..n : Ids(Words(l[i])) \cap Ids(q) = {}
      BY <2>6
    <3> QED BY <2>2, <2>6, <2>7, <2>8, <3>1
  <2>12. Same(r)
    BY <2>5, <2>9, <2>10, <2>11
  <2>13. r \in G
    BY <2>2, <2>12 DEF G
  <2> QED BY <2>4, <2>13, Zenon
<1> HIDE DEF G
<1>3. \A l \in Seq(Text) : l \in G
  BY <1>1, <1>2, SequenceInduction
<1> QED BY <1>3 DEF G

(* The pages of a text have its words; as they are, if none is longer than *)
(* a page.                                                                 *)
LEMMA SectionsWords ==
  ASSUME NEW t \in Text
  PROVE  /\ Sections(t) \in Seq(Text) /\ AllWords(Sections(t)) \in Paragraph
         /\ Ids(AllWords(Sections(t))) = Ids(Words(t))
         /\ ~HasLong(Words(t)) => AllWords(Sections(t)) = Words(t)
<1>1. Words(NoEmpty(t)) = Words(t)
  BY NoEmptyWords
<1>2. SplitOf(Words(NoEmpty(t)), AllWords(SectionsFrom[NoEmpty(t)]))
  BY SectionsTyped, SectionsSplit
<1>3. SplitOf(Words(t), AllWords(Sections(t)))
  BY <1>1, <1>2, SectionsTyped, Zenon
<1>4. Sections(t) \in Seq(Text)
  BY SectionsTyped
<1>5. AllWords(Sections(t)) \in Paragraph
  BY <1>4, TextWords
<1> QED BY <1>3, <1>4, <1>5, Zenon DEF SplitOf

=============================================================================
