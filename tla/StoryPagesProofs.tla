--------------------------- MODULE StoryPagesProofs ---------------------------
(***************************************************************************)
(* For any requests, texts and lengths, and any interleaving of the steps  *)
(* between two awaits: the rows stay typed and have different ids, pages   *)
(* are numbered 1..n and carry the words of the story's text, an           *)
(* illustration stays on the text it depicts, the status and the           *)
(* visibility of a story are those that were last saved, and a share is    *)
(* announced once for each time it was granted.                            *)
(***************************************************************************)
EXTENDS StoryPages, StorySectionsProofs

-----------------------------------------------------------------------------
(* Rows in an order: the place of a row is how many come before it.        *)

Rank(s, R) == [r \in s |-> Cardinality({q \in s : <<q, r>> \in R})]
Orders(s, R) ==
  /\ \A a \in s : <<a, a>> \notin R
  /\ \A a, b \in s : a # b => <<a, b>> \in R \/ <<b, a>> \in R
  /\ \A a, b, c \in s : <<a, b>> \in R /\ <<b, c>> \in R => <<a, c>> \in R

LEMMA Ranks ==
  ASSUME NEW s, IsFiniteSet(s), NEW R, Orders(s, R)
  PROVE  /\ Cardinality(s) \in Nat
         /\ \A r \in s : Rank(s, R)[r] \in 0..(Cardinality(s) - 1)
         /\ \A r, q \in s : Rank(s, R)[r] = Rank(s, R)[q] => r = q
         /\ \A i \in 1..Cardinality(s) : \E r \in s : Rank(s, R)[r] = i - 1
<1> DEFINE before(r) == {q \in s : <<q, r>> \in R}
           f == Rank(s, R)
           n == Cardinality(s)
<1>1. n \in Nat
  BY FS_CardinalityType
<1>2. ASSUME NEW r \in s
      PROVE  IsFiniteSet(before(r)) /\ f[r] = Cardinality(before(r)) /\ f[r] \in 0..(n - 1)
  <2>1. before(r) \in SUBSET s /\ before(r) # s
    BY DEF Orders
  <2>2. /\ IsFiniteSet(before(r)) /\ Cardinality(before(r)) <= n
        /\ n = Cardinality(before(r)) => s = before(r)
    BY <2>1, FS_Subset
  <2>3. Cardinality(before(r)) \in Nat
    BY <2>2, FS_CardinalityType
  <2>4. f[r] = Cardinality(before(r))
    BY DEF Rank
  <2> HIDE DEF before, f, n
  <2> QED BY <1>1, <2>1, <2>2, <2>3, <2>4
<1>3. ASSUME NEW r \in s, NEW q \in s, <<q, r>> \in R PROVE f[q] < f[r]
  <2>1. before(q) \in SUBSET before(r)
    BY <1>3 DEF Orders
  <2>2. q \in before(r) /\ q \notin before(q)
    BY <1>3 DEF Orders
  <2>3. /\ Cardinality(before(q)) <= Cardinality(before(r))
        /\ Cardinality(before(r)) = Cardinality(before(q)) => before(r) = before(q)
    BY <1>2, <2>1, FS_Subset
  <2>4. f[q] = Cardinality(before(q)) /\ f[r] = Cardinality(before(r))
    BY <1>2
  <2>5. f[q] \in 0..(n - 1) /\ f[r] \in 0..(n - 1)
    BY <1>2
  <2> HIDE DEF before, f, n
  <2> QED BY <1>1, <2>2, <2>3, <2>4, <2>5
<1>4. ASSUME NEW r \in s, NEW q \in s, f[r] = f[q] PROVE r = q
  <2> HIDE DEF f, n, before
  <2>1. f[q] \in Int
    BY <1>2
  <2>2. ~(f[q] < f[r]) /\ ~(f[r] < f[q])
    BY <1>4, <2>1
  <2>3. <<q, r>> \notin R /\ <<r, q>> \notin R
    BY <1>3, <2>2
  <2> QED BY <2>3 DEF Orders
<1>5. f \in [s -> 0..(n - 1)]
  <2>1. f = [r \in s |-> f[r]]
    BY DEF Rank
  <2> HIDE DEF f
  <2> QED BY <1>2, <2>1
<1> HIDE DEF f
<1>6. f \in Injection(s, 0..(n - 1))
  BY <1>4, <1>5 DEF Injection, IsInjective
<1>7. IsFiniteSet(0..(n - 1)) /\ Cardinality(0..(n - 1)) = n
  <2>1. 0 \in Int /\ n - 1 \in Int
    BY <1>1
  <2>2. /\ IsFiniteSet(0..(n - 1))
        /\ Cardinality(0..(n - 1)) = IF 0 > n - 1 THEN 0 ELSE n - 1 - 0 + 1
    BY <2>1, FS_Interval
  <2> HIDE DEF n
  <2> QED BY <1>1, <2>2
<1>8. f \in Surjection(s, 0..(n - 1))
  BY <1>6, <1>7, FS_Injection
<1>9. ASSUME NEW i \in 1..n PROVE \E r \in s : f[r] = i - 1
  <2>1. i - 1 \in 0..(n - 1)
    BY <1>1
  <2> QED BY <1>8, <2>1 DEF Surjection
<1> QED BY <1>1, <1>2, <1>4, <1>9 DEF f

(* A list of all rows, each of them once.                                  *)
Lists(l, s) ==
  /\ l \in Seq(s) /\ Len(l) = Cardinality(s) /\ Cardinality(s) \in Nat
  /\ \A i, j \in 1..Len(l) : l[i] = l[j] => i = j
  /\ \A r \in s : \E i \in 1..Len(l) : r = l[i]

InOrder(l, s, R) ==
  /\ l \in [1..Cardinality(s) -> s]
  /\ \A i \in 1..Cardinality(s) : Rank(s, R)[l[i]] = i - 1

LEMMA RankLists ==
  ASSUME NEW s, IsFiniteSet(s), NEW R, Orders(s, R), NEW l, InOrder(l, s, R)
  PROVE  Lists(l, s)
<1> DEFINE f == Rank(s, R)
           n == Cardinality(s)
<1>1. /\ n \in Nat
      /\ \A r \in s : f[r] \in 0..(n - 1)
      /\ \A r, q \in s : f[r] = f[q] => r = q
  BY Ranks
<1>2. l \in [1..n -> s] /\ \A i \in 1..n : l[i] \in s /\ f[l[i]] = i - 1
  BY DEF InOrder
<1> HIDE DEF f, n
<1>3. l \in Seq(s) /\ Len(l) = n
  BY <1>1, <1>2
<1>4. ASSUME NEW i \in 1..n, NEW j \in 1..n, l[i] = l[j] PROVE i = j
  <2>1. i - 1 = j - 1
    BY <1>2, <1>4
  <2> QED BY <1>1, <2>1
<1>5. ASSUME NEW r \in s PROVE \E i \in 1..n : r = l[i]
  <2>1. f[r] \in 0..(n - 1)
    BY <1>1
  <2> DEFINE k == f[r] + 1
  <2>2. k \in 1..n /\ k - 1 = f[r]
    BY <1>1, <2>1
  <2> HIDE DEF k
  <2>3. l[k] \in s /\ f[l[k]] = f[r]
    BY <1>2, <2>2
  <2>4. l[k] = r
    BY <1>1, <2>3
  <2> QED BY <2>2, <2>4
<1> QED BY <1>1, <1>3, <1>4, <1>5 DEF Lists, n

-----------------------------------------------------------------------------
(* Rows, and copies of them.                                               *)

Row         == [id: Nat, number: Nat \ {0}, text: Text, image: Text]
Depicted(r) == r.image \in {<<>>, r.text}

(* The rows of the table: n ids have been given out.                       *)
Rows(s, n) ==
  /\ IsFiniteSet(s)
  /\ \A r \in s : r \in Row /\ r.id \in 1..n /\ Depicted(r)
  /\ \A r, q \in s : r.id = q.id => r = q
(* What a request holds of them; a new page has no id.                     *)
Copies(l, n) ==
  /\ l \in Seq(Row)
  /\ \A i \in 1..Len(l) : l[i].id \in 0..n /\ Depicted(l[i])
  /\ \A i, j \in 1..Len(l) : l[i].id = l[j].id /\ l[i].id # 0 => i = j

LEMMA ListedInOrder ==
  ASSUME NEW n \in Nat, NEW s, Rows(s, n), NEW l \in Listed(s)
  PROVE  \E R : /\ Orders(s, R) /\ InOrder(l, s, R)
                /\ \A q, r \in s : q.number < r.number => <<q, r>> \in R
<1> DEFINE k == Cardinality(s)
<1>1. /\ IsFiniteSet(s) /\ \A r \in s : r.id \in Nat /\ r.number \in Nat
      /\ \A r, q \in s : r.id = q.id => r = q
  BY DEF Rows, Row
<1>2. CASE l = Sorted(s, LAMBDA q, r : \/ q.number < r.number
                                       \/ q.number = r.number /\ q.id < r.id)
  <2> DEFINE R == {x \in s \X s : \/ x[1].number < x[2].number
                                  \/ x[1].number = x[2].number /\ x[1].id < x[2].id}
             before(r) == {q \in s : \/ q.number < r.number
                                     \/ q.number = r.number /\ q.id < r.id}
             row(i) == CHOOSE r \in s : Cardinality(before(r)) = i - 1
  <2>1. Orders(s, R) /\ \A q, r \in s : q.number < r.number => <<q, r>> \in R
    BY <1>1 DEF Orders
  <2>2. \A r \in s : before(r) = {q \in s : <<q, r>> \in R}
    OBVIOUS
  <2>3. \A r \in s : Rank(s, R)[r] = Cardinality(before(r))
    BY <2>2, Zenon DEF Rank
  <2>4. l = [i \in 1..k |-> row(i)]
    BY <1>2 DEF Sorted
  <2> HIDE DEF R, before, k
  <2>5. \A i \in 1..k : \E r \in s : Rank(s, R)[r] = i - 1
    BY <1>1, <2>1, Ranks DEF k
  <2>6. \A i \in 1..k : row(i) \in s /\ Cardinality(before(row(i))) = i - 1
    BY <2>3, <2>5
  <2> HIDE DEF row
  <2>7. \A i \in 1..k : l[i] = row(i)
    BY <2>4
  <2>8. l \in [1..k -> s]
    BY <2>4, <2>6
  <2>9. \A i \in 1..k : Rank(s, R)[l[i]] = i - 1
    BY <2>3, <2>6, <2>7
  <2>10. InOrder(l, s, R)
    BY <2>8, <2>9, Zenon DEF InOrder, k
  <2> QED BY <2>1, <2>10, Zenon
<1>3. CASE l = Sorted(s, LAMBDA q, r : \/ q.number < r.number
                                       \/ q.number = r.number /\ q.id > r.id)
  <2> DEFINE R == {x \in s \X s : \/ x[1].number < x[2].number
                                  \/ x[1].number = x[2].number /\ x[1].id > x[2].id}
             before(r) == {q \in s : \/ q.number < r.number
                                     \/ q.number = r.number /\ q.id > r.id}
             row(i) == CHOOSE r \in s : Cardinality(before(r)) = i - 1
  <2>1. Orders(s, R) /\ \A q, r \in s : q.number < r.number => <<q, r>> \in R
    BY <1>1 DEF Orders
  <2>2. \A r \in s : before(r) = {q \in s : <<q, r>> \in R}
    OBVIOUS
  <2>3. \A r \in s : Rank(s, R)[r] = Cardinality(before(r))
    BY <2>2, Zenon DEF Rank
  <2>4. l = [i \in 1..k |-> row(i)]
    BY <1>3 DEF Sorted
  <2> HIDE DEF R, before, k
  <2>5. \A i \in 1..k : \E r \in s : Rank(s, R)[r] = i - 1
    BY <1>1, <2>1, Ranks DEF k
  <2>6. \A i \in 1..k : row(i) \in s /\ Cardinality(before(row(i))) = i - 1
    BY <2>3, <2>5
  <2> HIDE DEF row
  <2>7. \A i \in 1..k : l[i] = row(i)
    BY <2>4
  <2>8. l \in [1..k -> s]
    BY <2>4, <2>6
  <2>9. \A i \in 1..k : Rank(s, R)[l[i]] = i - 1
    BY <2>3, <2>6, <2>7
  <2>10. InOrder(l, s, R)
    BY <2>8, <2>9, Zenon DEF InOrder, k
  <2> QED BY <2>1, <2>10, Zenon
<1> QED BY <1>2, <1>3 DEF Listed

LEMMA ListedRows ==
  ASSUME NEW n \in Nat, NEW s, Rows(s, n), NEW l \in Listed(s)
  PROVE  Lists(l, s)
<1>1. PICK R : Orders(s, R) /\ InOrder(l, s, R)
  BY ListedInOrder, Zenon
<1>2. IsFiniteSet(s)
  BY DEF Rows
<1> QED BY <1>1, <1>2, RankLists

(* A list of the rows holds each row of the table once.                    *)
LEMMA ListedCopies ==
  ASSUME NEW n \in Nat, NEW s, Rows(s, n), NEW l \in Listed(s)
  PROVE  /\ Copies(l, n) /\ Len(l) = Cardinality(s) /\ Cardinality(s) \in Nat
         /\ DOMAIN l = 1..Len(l) /\ l \in Seq(s)
         /\ \A i \in 1..Len(l) : l[i] \in s /\ l[i].id # 0
         /\ \A r \in s : \E i \in 1..Len(l) : r = l[i]
<1>1. Lists(l, s)
  BY ListedRows
<1>2. /\ l \in Seq(s) /\ Len(l) = Cardinality(s) /\ Cardinality(s) \in Nat
      /\ \A i, j \in 1..Len(l) : l[i] = l[j] => i = j
      /\ \A r \in s : \E i \in 1..Len(l) : r = l[i]
  BY <1>1 DEF Lists
<1>3. \A i \in 1..Len(l) : l[i] \in s
  BY <1>2, ElementOfSeq
<1>4. DOMAIN l = 1..Len(l)
  BY <1>2, LenProperties
<1>5. \A r \in s : r \in Row /\ r.id \in 1..n /\ Depicted(r)
  BY DEF Rows
<1>6. l \in Seq(Row)
  BY <1>2, <1>5, SeqMonotonic
<1>7. \A i, j \in 1..Len(l) : l[i].id = l[j].id => i = j
  BY <1>2, <1>3 DEF Rows
<1>8. \A i \in 1..Len(l) : l[i].id \in 0..n /\ l[i].id # 0 /\ Depicted(l[i])
  BY <1>3, <1>5
<1> QED BY <1>2, <1>3, <1>4, <1>6, <1>7, <1>8 DEF Copies

-----------------------------------------------------------------------------
(* Saving copies.                                                          *)

(* A page that is saved keeps what it holds; without an id it gets one.    *)
LEMMA NumberedCopies ==
  ASSUME rowIds \in Nat, NEW l, Copies(l, rowIds)
  PROVE  /\ Fresh(l) \in 0..Len(l) /\ DOMAIN l = 1..Len(l) /\ Len(l) \in Nat
         /\ Numbered(l) \in Seq(Row) /\ Len(Numbered(l)) = Len(l)
         /\ \A i \in 1..Len(l) :
              /\ Numbered(l)[i].number = l[i].number /\ Numbered(l)[i].text = l[i].text
              /\ Numbered(l)[i].image = l[i].image /\ Numbered(l)[i].id # 0
              /\ l[i].id # 0 => Numbered(l)[i] = l[i]
              /\ l[i].id = 0 => Numbered(l)[i].id \in (rowIds + 1)..(rowIds + Fresh(l))
         /\ \A i, j \in 1..Len(l) : Numbered(l)[i].id = Numbered(l)[j].id => i = j
<1> DEFINE n == Len(l)
           new(i) == {j \in 1..i : l[j].id = 0}
           c(i) == Cardinality(new(i))
           m == Numbered(l)
<1>1. /\ n \in Nat /\ DOMAIN l = 1..n
      /\ \A i \in 1..n : l[i] \in Row /\ l[i].id \in 0..rowIds
      /\ \A i, j \in 1..n : l[i].id = l[j].id /\ l[i].id # 0 => i = j
  BY LenProperties, ElementOfSeq DEF Copies
<1>2. \A i \in 0..n : IsFiniteSet(new(i)) /\ c(i) \in 0..i
  <2> SUFFICES ASSUME NEW i \in 0..n PROVE IsFiniteSet(new(i)) /\ c(i) \in 0..i
    OBVIOUS
  <2>1. i \in Int /\ 1 \in Int /\ i \in Nat
    BY <1>1
  <2>2. IsFiniteSet(1..i) /\ Cardinality(1..i) = IF 1 > i THEN 0 ELSE i - 1 + 1
    BY <2>1, FS_Interval
  <2>3. Cardinality(1..i) = i
    BY <2>1, <2>2
  <2>4. new(i) \in SUBSET (1..i)
    OBVIOUS
  <2>5. IsFiniteSet(new(i)) /\ c(i) <= Cardinality(1..i)
    BY <2>2, <2>4, FS_Subset
  <2>6. c(i) \in Nat
    BY <2>5, FS_CardinalityType
  <2> HIDE DEF c
  <2> QED BY <2>1, <2>3, <2>5, <2>6
<1>3. Fresh(l) = c(n)
  BY <1>1 DEF Fresh
<1>4. ASSUME NEW i \in 1..n, NEW j \in 1..n, i < j, l[j].id = 0
      PROVE  c(i) < c(j)
  <2>1. new(i) \in SUBSET new(j) /\ j \in new(j) /\ j \notin new(i)
    BY <1>1, <1>4
  <2>2. i \in 0..n /\ j \in 0..n
    BY <1>1
  <2>3. IsFiniteSet(new(j)) /\ c(i) \in 0..i /\ c(j) \in 0..j
    BY <1>2, <2>2
  <2>4. c(i) <= c(j) /\ (c(j) = c(i) => new(j) = new(i))
    BY <2>1, <2>3, FS_Subset
  <2> HIDE DEF c, new
  <2> QED BY <2>1, <2>3, <2>4
<1>5. ASSUME NEW i \in 1..n, l[i].id = 0 PROVE c(i) \in 1..c(n)
  <2>1. new(i) \in SUBSET new(n) /\ i \in new(i)
    BY <1>1, <1>5
  <2>2. i \in 0..n /\ n \in 0..n
    BY <1>1
  <2>3. IsFiniteSet(new(n)) /\ IsFiniteSet(new(i)) /\ c(i) \in 0..i /\ c(n) \in 0..n
    BY <1>2, <2>2
  <2>4. c(i) <= c(n)
    BY <2>1, <2>3, FS_Subset
  <2>5. c(i) # 0
    BY <2>1, <2>3, FS_EmptySet
  <2> HIDE DEF c, new
  <2> QED BY <2>3, <2>4, <2>5
<1> DEFINE row(i) == IF l[i].id # 0 THEN l[i] ELSE [l[i] EXCEPT !.id = rowIds + c(i)]
<1>6. m = [i \in 1..n |-> row(i)]
  BY <1>1 DEF Numbered
<1>7. n \in 0..n
  BY <1>1
<1>8. c(n) \in 0..n
  BY <1>2, <1>7
<1> HIDE DEF m, c, n
<1>9. ASSUME NEW i \in 1..n
      PROVE  /\ row(i) \in Row
             /\ row(i).number = l[i].number /\ row(i).text = l[i].text
             /\ row(i).image = l[i].image /\ row(i).id # 0
             /\ l[i].id # 0 => row(i) = l[i]
             /\ l[i].id = 0 => /\ row(i).id = rowIds + c(i)
                               /\ row(i).id \in (rowIds + 1)..(rowIds + c(n))
  <2>1. CASE l[i].id # 0
    BY <1>1, <2>1
  <2>2. CASE l[i].id = 0
    <3>1. c(i) \in 1..c(n)
      BY <1>5, <2>2
    <3>2. rowIds + c(i) \in Nat /\ rowIds + c(i) # 0
          /\ rowIds + c(i) \in (rowIds + 1)..(rowIds + c(n))
      BY <1>8, <3>1
    <3>3. row(i) = [l[i] EXCEPT !.id = rowIds + c(i)]
      BY <2>2
    <3>4. l[i] \in Row
      BY <1>1
    <3> QED BY <2>2, <3>2, <3>3, <3>4 DEF Row
  <2> QED BY <2>1, <2>2
<1> HIDE DEF row
<1>10. m \in Seq(Row) /\ Len(m) = n /\ \A i \in 1..n : m[i] = row(i)
  BY <1>1, <1>6, <1>9
<1>11. ASSUME NEW i \in 1..n, NEW j \in 1..n, i # j PROVE m[i].id # m[j].id
  <2>1. CASE l[i].id # 0 /\ l[j].id # 0
    BY <1>1, <1>9, <1>10, <1>11, <2>1
  <2>2. CASE l[i].id # 0 /\ l[j].id = 0
    BY <1>1, <1>9, <1>10, <2>2
  <2>3. CASE l[i].id = 0 /\ l[j].id # 0
    BY <1>1, <1>9, <1>10, <2>3
  <2>4. CASE l[i].id = 0 /\ l[j].id = 0
    <3>1. c(i) \in 1..c(n) /\ c(j) \in 1..c(n)
      BY <1>5, <2>4
    <3>2. c(i) < c(j) \/ c(j) < c(i)
      <4>1. i < j \/ j < i
        BY <1>1, <1>11
      <4> QED BY <1>4, <2>4, <4>1
    <3>3. m[i].id = rowIds + c(i) /\ m[j].id = rowIds + c(j)
      BY <1>9, <1>10, <2>4
    <3> QED BY <1>8, <3>1, <3>2, <3>3
  <2> QED BY <2>1, <2>2, <2>3, <2>4
<1> QED BY <1>1, <1>3, <1>8, <1>9, <1>10, <1>11, Zenon DEF m, n

LEMMA SequenceFinite ==
  ASSUME NEW S, NEW l \in Seq(S)
  PROVE  IsFiniteSet(Range(l)) /\ \A x : x \in Range(l) <=> \E i \in 1..Len(l) : x = l[i]
<1>1. Len(l) \in Nat /\ DOMAIN l = 1..Len(l) /\ l \in [1..Len(l) -> S]
  BY LenProperties
<1>2. \A x : x \in Range(l) <=> \E i \in 1..Len(l) : x = l[i]
  BY <1>1 DEF Range
<1>3. IsFiniteSet(1..Len(l))
  BY <1>1, FS_Interval
<1>4. l \in Surjection(1..Len(l), Range(l))
  <2>1. l \in [1..Len(l) -> Range(l)]
    BY <1>1, <1>2
  <2> QED BY <1>2, <2>1 DEF Surjection
<1>5. IsFiniteSet(Range(l))
  BY <1>3, <1>4, FS_Surjection
<1> QED BY <1>2, <1>5

LEMMA SavedRows ==
  ASSUME rowIds \in Nat, NEW s, Rows(s, rowIds), NEW l, Copies(l, rowIds),
         NEW k \in Nat, Fresh(l) <= k
  PROVE  Rows(Saved(s, l), rowIds + k)
<1> DEFINE m == Numbered(l)
           rest == {r \in s : \A i \in DOMAIN l : l[i].id # r.id}
           n == Len(l)
<1>1. /\ Fresh(l) \in 0..n /\ DOMAIN l = 1..n /\ n \in Nat
      /\ m \in Seq(Row) /\ Len(m) = n
      /\ \A i \in 1..n :
           /\ m[i].text = l[i].text /\ m[i].image = l[i].image /\ m[i].id # 0
           /\ l[i].id # 0 => m[i] = l[i]
           /\ l[i].id = 0 => m[i].id \in (rowIds + 1)..(rowIds + Fresh(l))
      /\ \A i, j \in 1..n : m[i].id = m[j].id => i = j
  BY NumberedCopies
<1>2. \A i \in 1..n : l[i].id \in 0..rowIds /\ Depicted(l[i])
  BY DEF Copies
<1>3. Saved(s, l) = rest \cup Range(m)
  BY DEF Saved
<1> HIDE DEF m, n
<1>4. IsFiniteSet(Range(m)) /\ \A x : x \in Range(m) <=> \E i \in 1..n : x = m[i]
  BY <1>1, SequenceFinite
<1>5. /\ IsFiniteSet(s)
      /\ \A r \in s : r \in Row /\ r.id \in 1..rowIds /\ Depicted(r)
      /\ \A r, q \in s : r.id = q.id => r = q
  BY DEF Rows
<1>6. rest \in SUBSET s /\ \A r \in rest : \A i \in 1..n : l[i].id # r.id
  BY <1>1
<1>7. IsFiniteSet(rest)
  BY <1>5, <1>6, FS_Subset
<1> HIDE DEF rest
<1>8. IsFiniteSet(rest \cup Range(m))
  BY <1>4, <1>7, FS_Union
<1>9. ASSUME NEW i \in 1..n
      PROVE  /\ m[i] \in Row /\ m[i].id \in 1..(rowIds + k) /\ Depicted(m[i])
             /\ \A r \in rest : m[i].id # r.id
  <2>1. m[i] \in Row
    BY <1>1, ElementOfSeq
  <2>2. Depicted(m[i])
    BY <1>1, <1>2, Zenon DEF Depicted
  <2>3. CASE l[i].id # 0
    <3>1. m[i] = l[i]
      BY <1>1, <2>3
    <3> QED BY <1>2, <1>6, <2>1, <2>2, <2>3, <3>1
  <2>4. CASE l[i].id = 0
    <3>1. m[i].id \in (rowIds + 1)..(rowIds + Fresh(l))
      BY <1>1, <2>4
    <3>2. m[i].id \in 1..(rowIds + k) /\ m[i].id > rowIds
      BY <1>1, <3>1
    <3> QED BY <1>5, <1>6, <2>1, <2>2, <3>2
  <2> QED BY <2>3, <2>4
<1>10. \A r \in rest : r \in Row /\ r.id \in 1..(rowIds + k) /\ Depicted(r)
  BY <1>5, <1>6
<1>11. \A r \in rest \cup Range(m) : r \in Row /\ r.id \in 1..(rowIds + k) /\ Depicted(r)
  BY <1>4, <1>9, <1>10
<1>12. \A r, q \in rest \cup Range(m) : r.id = q.id => r = q
  BY <1>1, <1>4, <1>5, <1>6, <1>9
<1> QED BY <1>3, <1>8, <1>11, <1>12 DEF Rows

LEMMA NewCopies ==
  ASSUME NEW n \in Nat, NEW k \in Nat, NEW parts \in Seq(Text)
  PROVE  LET l == NewPages(n, parts)
         IN /\ Copies(l, k) /\ Len(l) = Len(parts) /\ Len(l) \in Nat
            /\ \A i \in 1..Len(l) : /\ l[i].id = 0 /\ l[i].number = n + i
                                    /\ l[i].text = parts[i]
<1> DEFINE l == NewPages(n, parts)
           row(i) == [id |-> 0, number |-> n + i, text |-> parts[i], image |-> <<>>]
<1>1. Len(parts) \in Nat /\ DOMAIN parts = 1..Len(parts) /\ \A i \in 1..Len(parts) : parts[i] \in Text
  BY LenProperties, ElementOfSeq
<1>2. <<>> \in Text
  BY DEF Text
<1>3. ASSUME NEW i \in 1..Len(parts)
      PROVE  /\ row(i) \in Row /\ row(i).id = 0 /\ row(i).number = n + i
             /\ row(i).text = parts[i] /\ row(i).image = <<>>
  <2>1. n + i \in Nat \ {0}
    BY <1>1
  <2> QED BY <1>1, <1>2, <2>1 DEF Row
<1>4. l = [i \in 1..Len(parts) |-> row(i)]
  BY <1>1 DEF NewPages
<1> HIDE DEF row, l
<1>5. l \in Seq(Row) /\ Len(l) = Len(parts) /\ \A i \in 1..Len(parts) : l[i] = row(i)
  BY <1>1, <1>3, <1>4
<1>6. Copies(l, k)
  <2>1. \A i \in 1..Len(l) : l[i].id = 0 /\ l[i].image = <<>>
    BY <1>3, <1>5
  <2>2. 0 \in 0..k
    OBVIOUS
  <2> QED BY <1>5, <2>1, <2>2 DEF Copies, Depicted
<1> QED BY <1>1, <1>3, <1>5, <1>6 DEF l

LEMMA ConcatCopies ==
  ASSUME NEW n \in Nat, NEW a, NEW b, Copies(a, n), Copies(b, n),
         \A i \in 1..Len(b) : b[i].id = 0
  PROVE  Copies(a \o b, n)
<1> DEFINE l == a \o b
           m == Len(a)
<1>1. a \in Seq(Row) /\ b \in Seq(Row) /\ m \in Nat /\ Len(b) \in Nat
  BY LenProperties DEF Copies
<1>2. /\ l \in Seq(Row) /\ Len(l) = m + Len(b)
      /\ \A i \in 1..(m + Len(b)) : l[i] = IF i <= m THEN a[i] ELSE b[i - m]
  BY <1>1, ConcatProperties
<1> HIDE DEF l, m
<1>3. \A i \in 1..Len(b) : b[i].id = 0 /\ b[i].id \in 0..n /\ Depicted(b[i])
  BY DEF Copies
<1>4. \A i \in 1..m : a[i].id \in 0..n /\ Depicted(a[i])
  BY DEF Copies, m
<1>5. \A i, j \in 1..m : a[i].id = a[j].id /\ a[i].id # 0 => i = j
  BY DEF Copies, m
<1>6. ASSUME NEW i \in 1..Len(l)
      PROVE  \/ i \in 1..m /\ l[i] = a[i]
             \/ i - m \in 1..Len(b) /\ l[i] = b[i - m]
  BY <1>1, <1>2
<1>7. ASSUME NEW i \in 1..Len(l) PROVE l[i].id \in 0..n /\ Depicted(l[i])
  BY <1>3, <1>4, <1>6
<1>8. ASSUME NEW i \in 1..Len(l), l[i].id # 0 PROVE i \in 1..m /\ l[i] = a[i]
  BY <1>3, <1>6, <1>8
<1>9. ASSUME NEW i \in 1..Len(l), NEW j \in 1..Len(l), l[i].id = l[j].id, l[i].id # 0
      PROVE  i = j
  <2>1. i \in 1..m /\ l[i] = a[i] /\ j \in 1..m /\ l[j] = a[j]
    BY <1>8, <1>9
  <2> QED BY <1>5, <1>9, <2>1
<1>10. Copies(l, n)
  BY <1>2, <1>7, <1>9 DEF Copies
<1> QED BY <1>10 DEF l

LEMMA PartCopies ==
  ASSUME NEW n \in Nat, NEW l, Copies(l, n), NEW k \in 0..Len(l), NEW parts \in Seq(Text),
         k <= Len(parts)
  PROVE  LET kept == SubSeq(l, 1, k)
             new  == [i \in DOMAIN kept |->
                        [kept[i] EXCEPT !.number = i, !.text = parts[i],
                                        !.image = ImageFor(kept[i], parts[i])]]
         IN Copies(new, n) /\ Len(kept) = k
<1> DEFINE kept == SubSeq(l, 1, k)
           row(i) == [kept[i] EXCEPT !.number = i, !.text = parts[i],
                                     !.image = ImageFor(kept[i], parts[i])]
           new == [i \in DOMAIN kept |-> row(i)]
<1>1. /\ l \in Seq(Row) /\ Len(l) \in Nat
      /\ \A i \in 1..Len(l) : l[i] \in Row /\ l[i].id \in 0..n /\ Depicted(l[i])
      /\ \A i, j \in 1..Len(l) : l[i].id = l[j].id /\ l[i].id # 0 => i = j
  BY LenProperties, ElementOfSeq DEF Copies
<1>2. Len(parts) \in Nat /\ \A i \in 1..Len(parts) : parts[i] \in Text
  BY LenProperties, ElementOfSeq
<1>3. /\ kept \in Seq(Row) /\ Len(kept) = k
      /\ \A i \in 1..k : kept[i] = l[i]
  <2>1. /\ \A i \in 1..k : l[i] \in Row
        /\ k \in Nat
    BY <1>1
  <2> QED BY <1>1, <2>1, SubSeqProperties
<1> HIDE DEF kept
<1>4. DOMAIN kept = 1..k
  BY <1>3, LenProperties
<1>5. ASSUME NEW i \in 1..k
      PROVE  row(i) \in Row /\ row(i).id = l[i].id /\ Depicted(row(i))
  <2>1. /\ kept[i] = l[i] /\ l[i] \in Row /\ parts[i] \in Text /\ i \in Nat \ {0}
        /\ i \in 1..Len(l)
    BY <1>1, <1>2, <1>3
  <2> DEFINE im == ImageFor(kept[i], parts[i])
  <2>2. im \in {<<>>, parts[i]} /\ im \in Text
    <3>1. CASE l[i].text = parts[i]
      <4>1. im = l[i].image
        BY <2>1, <3>1 DEF ImageFor
      <4>2. l[i].image \in {<<>>, l[i].text} /\ l[i].image \in Text
        BY <1>1, <2>1 DEF Depicted, Row
      <4> QED BY <3>1, <4>1, <4>2
    <3>2. CASE l[i].text # parts[i]
      <4>1. im = <<>>
        BY <2>1, <3>2 DEF ImageFor
      <4>2. <<>> \in Text
        BY DEF Text
      <4> QED BY <4>1, <4>2
    <3> QED BY <3>1, <3>2
  <2>3. row(i) = [kept[i] EXCEPT !.number = i, !.text = parts[i], !.image = im]
    OBVIOUS
  <2> HIDE DEF im, row
  <2>4. row(i) \in Row /\ row(i).id = l[i].id /\ row(i).text = parts[i] /\ row(i).image = im
    BY <2>1, <2>2, <2>3 DEF Row
  <2> QED BY <2>2, <2>4 DEF Depicted
<1>6. new = [i \in 1..k |-> row(i)]
  BY <1>4
<1> HIDE DEF row, new
<1>7. new \in Seq(Row) /\ Len(new) = k /\ \A i \in 1..k : new[i] = row(i)
  BY <1>5, <1>6
<1>8. \A i \in 1..k : i \in 1..Len(l)
  BY <1>1
<1>9. \A i \in 1..k : new[i].id \in 0..n /\ Depicted(new[i]) /\ new[i].id = l[i].id
  BY <1>1, <1>5, <1>7, <1>8
<1>10. \A i, j \in 1..k : new[i].id = new[j].id /\ new[i].id # 0 => i = j
  BY <1>1, <1>8, <1>9
<1>11. Copies(new, n)
  BY <1>7, <1>9, <1>10 DEF Copies
<1> QED BY <1>3, <1>11 DEF new, row, kept

LEMMA ReplacedCopies ==
  ASSUME NEW n \in Nat, NEW m, Copies(m.pages, n), m.parts \in Seq(Text)
  PROVE  Copies(Replaced(m), n)
<1> DEFINE k == Min({Len(m.pages), Len(m.parts)})
           kept == SubSeq(m.pages, 1, k)
           old == [i \in DOMAIN kept |->
                     [kept[i] EXCEPT !.number = i, !.text = m.parts[i],
                                     !.image = ImageFor(kept[i], m.parts[i])]]
           more == SubSeq(m.parts, k + 1, Len(m.parts))
           new == NewPages(k, more)
<1>1. Len(m.pages) \in Nat /\ Len(m.parts) \in Nat
  BY LenProperties DEF Copies
<1>2. k \in 0..Len(m.pages) /\ k <= Len(m.parts) /\ k \in Nat
  BY <1>1 DEF Min
<1> HIDE DEF k
<1>3. Copies(old, n) /\ Len(kept) = k
  BY <1>2, PartCopies
<1>4. more \in Seq(Text)
  <2>1. k \in 0..Len(m.parts)
    BY <1>1, <1>2
  <2> QED BY <2>1, CutInTwo DEF Cut
<1>5. Replaced(m) = old \o NewPages(Len(kept), SubSeq(m.parts, Len(kept) + 1, Len(m.parts)))
  BY Zenon DEF Replaced, k
<1>6. Replaced(m) = old \o new
  BY <1>3, <1>5, Zenon
<1> HIDE DEF old, more
<1>7. Copies(new, n) /\ \A i \in 1..Len(new) : new[i].id = 0
  BY <1>2, <1>4, NewCopies, ZenonT(30)
<1> HIDE DEF new
<1>8. Copies(old \o new, n)
  BY <1>3, <1>7, ConcatCopies
<1> QED BY <1>6, <1>8, Zenon

LEMMA SwappedCopies ==
  ASSUME NEW n \in Nat, NEW l, Copies(l, n), NEW i \in 1..Len(l), NEW j \in 1..Len(l), i # j
  PROVE  LET s == [l EXCEPT ![i] = l[j], ![j] = l[i]]
         IN Copies(s, n) /\ Len(s) = Len(l)
<1> DEFINE s == [l EXCEPT ![i] = l[j], ![j] = l[i]]
           k == Len(l)
           other(x) == IF x = i THEN j ELSE IF x = j THEN i ELSE x
<1>1. /\ l \in Seq(Row) /\ k \in Nat /\ DOMAIN l = 1..k
      /\ \A x \in 1..k : l[x] \in Row /\ l[x].id \in 0..n /\ Depicted(l[x])
      /\ \A x, y \in 1..k : l[x].id = l[y].id /\ l[x].id # 0 => x = y
  BY LenProperties, ElementOfSeq DEF Copies
<1>2. \A x \in 1..k : other(x) \in 1..k
  OBVIOUS
<1>3. \A x, y \in 1..k : other(x) = other(y) => x = y
  OBVIOUS
<1>4. DOMAIN s = 1..k /\ s = [x \in 1..k |-> s[x]]
  BY <1>1
<1>5. \A x \in 1..k : s[x] = l[other(x)]
  BY <1>1
<1> HIDE DEF other, s, k
<1>6. \A x \in 1..k : s[x] \in Row
  BY <1>1, <1>2, <1>5
<1>7. s \in Seq(Row) /\ Len(s) = k
  <2> DEFINE g(x) == s[x]
             t == [x \in 1..k |-> g(x)]
  <2>1. s = t /\ \A x \in 1..k : g(x) \in Row
    BY <1>4, <1>6
  <2> HIDE DEF g
  <2>2. t \in Seq(Row) /\ Len(t) = k
    BY <1>1, <2>1
  <2> QED BY <2>1, <2>2, Zenon
<1>8. \A x \in 1..k : s[x].id \in 0..n /\ Depicted(s[x])
  BY <1>1, <1>2, <1>5
<1>9. ASSUME NEW x \in 1..k, NEW y \in 1..k, s[x].id = s[y].id, s[x].id # 0 PROVE x = y
  <2> DEFINE a == other(x)
             b == other(y)
  <2>1. /\ a \in 1..k /\ b \in 1..k /\ (a = b => x = y)
        /\ s[x] = l[a] /\ s[y] = l[b]
    BY <1>2, <1>3, <1>5
  <2> HIDE DEF a, b
  <2>2. l[a].id = l[b].id /\ l[a].id # 0
    BY <1>9, <2>1
  <2>3. a = b
    BY <1>1, <2>1, <2>2
  <2> QED BY <2>1, <2>3
<1>10. Copies(s, n)
  BY <1>7, <1>8, <1>9 DEF Copies
<1> QED BY <1>7, <1>10 DEF s, k

LEMMA SourceTyped ==
  ASSUME NEW l, DOMAIN l = 1..Len(l), Len(l) \in Nat, \A i \in 1..Len(l) : l[i].text \in Text
  PROVE  Source(l) \in Text
<1> DEFINE ts == [i \in DOMAIN l |-> l[i].text]
<1>1. ts \in Seq(Text)
  OBVIOUS
<1>2. FlattenSeq(ts) \in Seq(Paragraph)
  BY <1>1, FlattenTyped DEF Text
<1> QED BY <1>2 DEF Source, Text

-----------------------------------------------------------------------------
(* What a request holds between two awaits, and a step of one of them.     *)

Steps   == {"idle", "done", "pages", "save", "delete", "append", "list", "current", "replace",
            "reorder", "image", "share", "tell", "unshare"}
OpNames == {"none", "create", "update", "remove", "append", "updatePage", "deletePage",
            "reorder", "illustrate", "share", "unshare"}
Request == [pc: Steps, op: OpNames, story: StoryRow, pages: Seq(Row), source: Text,
            parts: Seq(Text), target: Nat, stale: BOOLEAN]

(* The steps of an operation, and what it holds there.                     *)
Controlled(m) ==
  /\ m.pc = "pages" => m.op = "create"
  /\ m.pc = "save" => m.op \in {"create", "update"}
  /\ m.pc = "append" => m.op = "append"
  /\ m.pc = "delete" => m.op = "remove"
  /\ m.pc \in {"list", "current", "replace"} => m.op \in {"updatePage", "deletePage"}
  /\ m.pc = "reorder" => m.op = "reorder"
  /\ m.pc = "image" => m.op = "illustrate"
  /\ m.op = "create" => m.pc \in {"pages", "save"}
  /\ m.op = "update" => m.pc = "save"
  /\ m.pc \in {"pages", "save", "append"} => m.story.exists
  /\ m.pc = "save" /\ m.op = "create" => m.story.status # "PROCESSING"
  /\ m.pc = "image" => Len(m.pages) = 1 /\ m.pages[1].id # 0

Scalars ==
  /\ story \in StoryRow /\ share \in BOOLEAN /\ locked \in Procs \cup {None}
  /\ disturbed \in BOOLEAN /\ asked \in {"PRIVATE", "SHARED"}
  /\ words \in Nat /\ rowIds \in Nat /\ granted \in Nat /\ told \in Nat
Typing ==
  /\ Scalars
  /\ Rows(pages, rowIds)
  /\ req \in [Procs -> Request]
  /\ \A p \in Procs : Copies(req[p].pages, rowIds) /\ Controlled(req[p])

(* All but the mark that others have changed what it read.                 *)
Same(a, b) ==
  /\ a.pc = b.pc /\ a.op = b.op /\ a.story = b.story /\ a.pages = b.pages
  /\ a.source = b.source /\ a.parts = b.parts /\ a.target = b.target
Moves(p, m) ==
  /\ m \in Request
  /\ req' \in [Procs -> Request]
  /\ req'[p] = m
  /\ \A q \in Procs \ {p} : Same(req'[q], req[q])

LEMMA ResumeMoves ==
  ASSUME Typing, NEW p \in Procs, NEW m \in Request, Resume(p, m)
  PROVE  Moves(p, m) /\ \A q \in Procs \ {p} : req'[q] = req[q]
<1>1. req \in [Procs -> Request] /\ req' = [req EXCEPT ![p] = m]
  BY DEF Typing, Resume
<1>2. req' \in [Procs -> Request] /\ req'[p] = m /\ \A q \in Procs \ {p} : req'[q] = req[q]
  BY <1>1
<1> QED BY <1>2 DEF Moves, Same

(* Which copies a commit makes stale.                                      *)
Marks(p, q) == req[q].pc \notin {"idle", "done"} /\ req[q].op \notin Unaffected(req[p].op)

LEMMA CommitMoves ==
  ASSUME Typing, NEW p \in Procs, NEW m \in Request, Commit(p, m)
  PROVE  /\ Moves(p, m)
         /\ \A q \in Procs \ {p} : req'[q].stale <=> req[q].stale \/ Marks(p, q)
         /\ disturbed' = (disturbed \/ req[p].stale) /\ disturbed' \in BOOLEAN
<1> DEFINE mark(q) == [req[q] EXCEPT !.stale = req[q].stale \/ Marks(p, q)]
<1>1. req \in [Procs -> Request] /\ disturbed \in BOOLEAN
  BY DEF Typing, Scalars
<1>2. req' = [q \in Procs |-> IF q = p THEN m ELSE mark(q)]
  BY Zenon DEF Commit, Marks
<1>3. ASSUME NEW q \in Procs
      PROVE  /\ mark(q) \in Request /\ Same(mark(q), req[q])
             /\ mark(q).stale <=> req[q].stale \/ Marks(p, q)
  <2>1. req[q] \in Request /\ Marks(p, q) \in BOOLEAN
    BY <1>1 DEF Marks
  <2> DEFINE v == req[q].stale \/ Marks(p, q)
  <2>2. v \in BOOLEAN /\ mark(q) = [req[q] EXCEPT !.stale = v]
    OBVIOUS
  <2> HIDE DEF v, mark
  <2>3. mark(q) \in Request /\ Same(mark(q), req[q]) /\ mark(q).stale = v
    BY <2>1, <2>2 DEF Request, Same
  <2> QED BY <2>3 DEF v
<1> HIDE DEF mark
<1>4. req' \in [Procs -> Request] /\ req'[p] = m /\ \A q \in Procs \ {p} : req'[q] = mark(q)
  BY <1>2, <1>3
<1>5. disturbed' = (disturbed \/ req[p].stale) /\ disturbed' \in BOOLEAN
  <2>1. disturbed' = (disturbed \/ req[p].stale)
    BY DEF Commit
  <2> QED BY <2>1
<1>6. ASSUME NEW q \in Procs \ {p}
      PROVE  Same(req'[q], req[q]) /\ (req'[q].stale <=> req[q].stale \/ Marks(p, q))
  <2>1. req'[q] = mark(q)
    BY <1>4
  <2> QED BY <1>3, <2>1, Zenon
<1>7. Moves(p, m)
  BY <1>4, <1>6 DEF Moves
<1> QED BY <1>5, <1>6, <1>7

LEMMA MoreIds ==
  ASSUME NEW n \in Nat, NEW k \in Nat, n <= k
  PROVE  /\ \A l : Copies(l, n) => Copies(l, k)
         /\ \A s : Rows(s, n) => Rows(s, k)
<1>1. 0..n \subseteq 0..k /\ 1..n \subseteq 1..k
  OBVIOUS
<1>2. ASSUME NEW l, Copies(l, n) PROVE Copies(l, k)
  BY <1>1, <1>2 DEF Copies
<1>3. ASSUME NEW s, Rows(s, n) PROVE Rows(s, k)
  BY <1>1, <1>3 DEF Rows
<1> QED BY <1>2, <1>3

LEMMA TypingStep ==
  ASSUME Typing, NEW p \in Procs, NEW m, Moves(p, m), Scalars', rowIds <= rowIds',
         Rows(pages, rowIds)', Copies(m.pages, rowIds'), Controlled(m)
  PROVE  Typing'
<1>1. rowIds \in Nat /\ rowIds' \in Nat
  BY DEF Typing, Scalars
<1>2. req' \in [Procs -> Request]
  BY DEF Moves
<1>3. ASSUME NEW q \in Procs PROVE Copies(req'[q].pages, rowIds') /\ Controlled(req'[q])
  <2>1. CASE q = p
    <3>1. req'[q] = m
      BY <2>1 DEF Moves
    <3> QED BY <3>1
  <2>2. CASE q # p
    <3>1. Same(req'[q], req[q])
      BY <2>2 DEF Moves
    <3>2. Copies(req[q].pages, rowIds) /\ Controlled(req[q])
      BY DEF Typing
    <3>3. Copies(req[q].pages, rowIds')
      BY <1>1, <3>2, MoreIds
    <3>4. Controlled(req'[q])
      BY <3>1, <3>2, Zenon DEF Same, Controlled
    <3> QED BY <3>1, <3>3, <3>4, Zenon DEF Same
  <2> QED BY <2>1, <2>2
<1> QED BY <1>2, <1>3 DEF Typing

LEMMA StartedTyped ==
  ASSUME NEW p, NEW op \in OpNames, NEW pc \in Steps
  PROVE  LET m == Started(p, op, pc)
         IN /\ m \in Request /\ m.pc = pc /\ m.op = op /\ m.story = NoStory
            /\ m.pages = <<>> /\ m.source = <<>> /\ m.parts = <<>> /\ ~m.stale
<1>1. NoStory \in StoryRow /\ <<>> \in Text /\ <<>> \in Seq(Row) /\ <<>> \in Seq(Text)
  BY DEF NoStory, StoryRow, Text
<1>2. Idle \in Request
  BY <1>1 DEF Idle, Request, Steps, OpNames
<1> DEFINE m == Started(p, op, pc)
<1>3. m = [Idle EXCEPT !.op = op, !.pc = pc]
  BY DEF Started
<1>4. /\ m \in Request /\ m.pc = pc /\ m.op = op /\ m.story = Idle.story
      /\ m.pages = Idle.pages /\ m.source = Idle.source /\ m.parts = Idle.parts
      /\ m.stale = Idle.stale
  BY <1>2, <1>3 DEF Request
<1> QED BY <1>4 DEF Idle

LEMMA DoneTyped ==
  /\ Done \in Request /\ Done.pc = "done" /\ Done.op = "none" /\ Done.pages = <<>>
  /\ Controlled(Done) /\ \A n \in Nat : Copies(Done.pages, n)
<1>1. NoStory \in StoryRow /\ <<>> \in Text /\ <<>> \in Seq(Row) /\ <<>> \in Seq(Text)
  BY DEF NoStory, StoryRow, Text
<1>2. Idle \in Request /\ Idle.op = "none" /\ Idle.pages = <<>>
  BY <1>1 DEF Idle, Request, Steps, OpNames
<1>3. Done \in Request /\ Done.pc = "done" /\ Done.op = "none" /\ Done.pages = <<>>
  BY <1>2 DEF Done, Request, Steps
<1>4. Controlled(Done)
  BY <1>3 DEF Controlled
<1>5. \A n \in Nat : Copies(<<>>, n)
  BY <1>1 DEF Copies
<1> QED BY <1>3, <1>4, <1>5

-----------------------------------------------------------------------------
(* What the proofs use of a step.                                          *)

(* The share's notification: one is due when the share is inserted, it is  *)
(* sent once, and deletion forgets those that were sent.                   *)
Tells(p, m) ==
  \/ /\ req[p].pc # "tell" /\ m.pc # "tell"
     /\ granted' = granted /\ told' = told
  \/ /\ req[p].pc # "tell" /\ m.pc = "tell"
     /\ granted' = granted + 1 /\ told' = told
  \/ /\ req[p].pc = "tell" /\ m.pc # "tell"
     /\ granted' = granted /\ told' = told + 1
  \/ /\ req[p].pc # "tell" /\ m.pc # "tell"
     /\ granted' = Cardinality(Telling) /\ told' = 0

(* What was once disturbed or stale stays so.                              *)
Grows(p) ==
  /\ disturbed => disturbed'
  /\ \A q \in Procs \ {p} : req[q].stale => req'[q].stale

Effect(p, m) ==
  /\ Moves(p, m) /\ Grows(p) /\ Scalars' /\ rowIds <= rowIds' /\ Rows(pages, rowIds)'
  /\ Copies(m.pages, rowIds') /\ Controlled(m) /\ Tells(p, m)

(* All columns but the text.                                               *)
Alike(s, t) == s.exists = t.exists /\ s.status = t.status /\ s.visibility = t.visibility

(* A step that neither creates, saves nor deletes the story.               *)
KeepsStory(p, m) ==
  /\ Alike(story', story) /\ (story' = story \/ story'.exists)
  /\ asked' = asked
  /\ m.op = "create" => /\ req[p].op = "create" /\ m.story.visibility = req[p].story.visibility
                        /\ m.stale = req[p].stale
  /\ req[p].op = "create" => m.op = "create"
  /\ m.op = "update" => m.story.exists = story.exists /\ m.story.status = story.status
  /\ \A q \in Procs \ {p} : At(q, "append") /\ locked = q => locked' = q
  /\ m.pc = "append" => locked' = p /\ Alike(m.story, story)

Quiet(p) == \E m : Effect(p, m) /\ KeepsStory(p, m)

(* A step that only reads, and waits or is done.                           *)
LEMMA ReadQuiet ==
  ASSUME Typing, NEW p \in Procs, NEW m \in Request, Resume(p, m),
         Copies(m.pages, rowIds), Controlled(m), m.op # "create", m.pc # "append",
         req[p].pc \notin {"pages", "save", "append"},
         m.op = "update" => m.story.exists = story.exists /\ m.story.status = story.status,
         UNCHANGED <<story, pages, locked, disturbed, rowIds, asked>>,
         words' \in Nat, share' \in BOOLEAN, granted' \in Nat, told' \in Nat, Tells(p, m)
  PROVE  Quiet(p)
<1>1. Moves(p, m) /\ \A q \in Procs \ {p} : req'[q] = req[q]
  BY ResumeMoves
<1>2. Scalars /\ Rows(pages, rowIds) /\ Controlled(req[p])
  BY DEF Typing
<1>3. Scalars'
  BY <1>2 DEF Scalars
<1>4. rowIds <= rowIds' /\ Copies(m.pages, rowIds')
  <2>1. rowIds' = rowIds /\ rowIds \in Nat
    BY <1>2 DEF Scalars
  <2> QED BY <2>1
<1>5. Rows(pages, rowIds)'
  BY <1>2 DEF Rows, Depicted
<1>6. Effect(p, m)
  <2>1. Grows(p)
    BY <1>1 DEF Grows
  <2> QED BY <1>1, <1>3, <1>4, <1>5, <2>1, Zenon DEF Effect
<1>7. req[p].op # "create"
  BY <1>2 DEF Controlled
<1>8. Alike(story', story)
  BY DEF Alike
<1>9. KeepsStory(p, m)
  BY <1>1, <1>7, <1>8 DEF KeepsStory
<1> QED BY <1>6, <1>9, Zenon DEF Quiet

(* A request that begins.                                                  *)
LEMMA NewTextTyped ==
  ASSUME words \in Nat, NEW len \in EditLens
  PROVE  NewText(len) \in Text
<1> DEFINE w == [id |-> words + 1, len |-> len, stop |-> TRUE]
<1>1. len \in Nat \ {0}
  BY PagesAssumption
<1>2. w \in Word
  BY <1>1 DEF Word
<1> HIDE DEF w
<1>3. <<<<w>>>> \in Text
  BY <1>2 DEF Text, Paragraph
<1> QED BY <1>3 DEF NewText, w

LEMMA BeginQuiet ==
  ASSUME Typing, NEW p \in Procs, NEW m \in Request, Resume(p, m), At(p, "idle"),
         Copies(m.pages, rowIds), Controlled(m), m.op # "create", m.pc \notin {"append", "tell"},
         m.op = "update" => m.story.exists = story.exists /\ m.story.status = story.status,
         UNCHANGED <<story, pages, locked, disturbed, rowIds>>, words' \in Nat, shareSame
  PROVE  Quiet(p)
<1>1. Scalars
  BY DEF Typing
<1>2. share' \in BOOLEAN /\ granted' \in Nat /\ told' \in Nat
  BY <1>1 DEF Scalars, shareSame
<1>3. Tells(p, m)
  BY DEF Tells, At, shareSame
<1>4. req[p].pc \notin {"pages", "save", "append"}
  BY DEF At
<1>5. asked' = asked
  BY DEF shareSame
<1> QED BY <1>2, <1>3, <1>4, <1>5, ReadQuiet

LEMMA EmptyCopies ==
  ASSUME NEW n \in Nat
  PROVE  Copies(<<>>, n)
<1>1. <<>> \in Seq(Row)
  OBVIOUS
<1> QED BY <1>1 DEF Copies

LEMMA LoadStoryQuiet ==
  ASSUME Typing, NEW p \in Procs, LoadStory(p)
  PROVE  Quiet(p)
<1>1. PICK v \in {"PRIVATE", "SHARED"} :
        /\ Ready(p, "update") /\ story.exists
        /\ Resume(p, [Started(p, "update", "save") EXCEPT
                        !.story = [story EXCEPT !.visibility = v]])
  BY Zenon DEF LoadStory
<1>2. UNCHANGED <<story, pages, locked, words, disturbed, rowIds>> /\ shareSame
  BY DEF LoadStory
<1> DEFINE c == [story EXCEPT !.visibility = v]
           b == Started(p, "update", "save")
           m == [b EXCEPT !.story = c]
<1>3. Scalars
  BY DEF Typing
<1>4. c \in StoryRow /\ c.exists = story.exists /\ c.status = story.status
  BY <1>3 DEF Scalars, StoryRow
<1>5. b \in Request /\ b.pc = "save" /\ b.op = "update" /\ b.pages = <<>>
  <2>1. "update" \in OpNames /\ "save" \in Steps
    BY DEF OpNames, Steps
  <2> QED BY <2>1, StartedTyped
<1>6. Resume(p, m)
  BY <1>1
<1> HIDE DEF b, c
<1>7. m \in Request /\ m.pc = "save" /\ m.op = "update" /\ m.pages = <<>> /\ m.story = c
  BY <1>4, <1>5 DEF Request
<1> HIDE DEF m
<1>8. Controlled(m)
  BY <1>1, <1>4, <1>7 DEF Controlled
<1>9. Copies(m.pages, rowIds)
  BY <1>3, <1>7, EmptyCopies DEF Scalars
<1>10. words' \in Nat
  BY <1>2, <1>3 DEF Scalars
<1>11. At(p, "idle")
  BY <1>1 DEF Ready
<1> QED BY <1>2, <1>4, <1>6, <1>7, <1>8, <1>9, <1>10, <1>11, BeginQuiet

(* A request that only checks something first.                             *)
LEMMA CheckQuiet ==
  ASSUME Typing, NEW p \in Procs, At(p, "idle"), NEW op \in OpNames \ {"create", "update"},
         NEW pc \in {"delete", "share", "unshare"}, pc = "delete" => op = "remove",
         Resume(p, Started(p, op, pc)),
         UNCHANGED <<story, pages, locked, words, disturbed, rowIds>>, shareSame
  PROVE  Quiet(p)
<1> DEFINE m == Started(p, op, pc)
<1>1. m \in Request /\ m.pc = pc /\ m.op = op /\ m.pages = <<>>
  <2>1. op \in OpNames /\ pc \in Steps
    BY DEF Steps
  <2> QED BY <2>1, StartedTyped
<1>2. Scalars
  BY DEF Typing
<1>3. Resume(p, m)
  OBVIOUS
<1> HIDE DEF m
<1>4. Controlled(m)
  BY <1>1 DEF Controlled
<1>5. Copies(m.pages, rowIds)
  BY <1>1, <1>2, EmptyCopies DEF Scalars
<1>6. words' \in Nat
  BY <1>2 DEF Scalars
<1> QED BY <1>1, <1>3, <1>4, <1>5, <1>6, BeginQuiet

LEMMA ChecksQuiet ==
  ASSUME Typing, NEW p \in Procs, LoadForRemove(p) \/ CheckShare(p) \/ FindShare(p)
  PROVE  Quiet(p)
<1>1. {"remove", "share", "unshare"} \subseteq OpNames \ {"create", "update"}
  BY DEF OpNames
<1>2. CASE LoadForRemove(p)
  <2>1. /\ At(p, "idle") /\ Resume(p, Started(p, "remove", "delete"))
        /\ UNCHANGED <<story, pages, locked, words, disturbed, rowIds>> /\ shareSame
    BY <1>2 DEF LoadForRemove, Ready
  <2> QED BY <1>1, <2>1, CheckQuiet
<1>3. CASE CheckShare(p)
  <2>1. /\ At(p, "idle") /\ Resume(p, Started(p, "share", "share"))
        /\ UNCHANGED <<story, pages, locked, words, disturbed, rowIds>> /\ shareSame
    BY <1>3 DEF CheckShare, Ready
  <2> QED BY <1>1, <2>1, CheckQuiet
<1>4. CASE FindShare(p)
  <2>1. /\ At(p, "idle") /\ Resume(p, Started(p, "unshare", "unshare"))
        /\ UNCHANGED <<story, pages, locked, words, disturbed, rowIds>> /\ shareSame
    BY <1>4 DEF FindShare, Ready
  <2> QED BY <1>1, <2>1, CheckQuiet
<1> QED BY <1>2, <1>3, <1>4

LEMMA FindPageQuiet ==
  ASSUME Typing, NEW p \in Procs, FindPage(p)
  PROVE  Quiet(p)
<1>1. PICK r \in pages, len \in EditLens :
        Resume(p, [Started(p, "updatePage", "list") EXCEPT
                     !.target = r.id, !.source = NewText(len)])
  BY Zenon DEF FindPage
<1>2. /\ At(p, "idle") /\ words' = words + 1
      /\ UNCHANGED <<story, pages, locked, disturbed, rowIds>> /\ shareSame
  BY DEF FindPage, Ready
<1> DEFINE b == Started(p, "updatePage", "list")
           t == NewText(len)
           m == [b EXCEPT !.target = r.id, !.source = t]
<1>3. words \in Nat /\ rowIds \in Nat
  BY DEF Typing, Scalars
<1>4. t \in Text /\ r.id \in Nat
  <2>1. r.id \in 1..rowIds
    BY DEF Typing, Rows
  <2> QED BY <1>3, <2>1, NewTextTyped
<1>5. b \in Request /\ b.pc = "list" /\ b.op = "updatePage" /\ b.pages = <<>>
  <2>1. "updatePage" \in OpNames /\ "list" \in Steps
    BY DEF OpNames, Steps
  <2> QED BY <2>1, StartedTyped
<1>6. Resume(p, m)
  BY <1>1
<1> HIDE DEF b, t
<1>7. m \in Request /\ m.pc = "list" /\ m.op = "updatePage" /\ m.pages = <<>>
  BY <1>4, <1>5 DEF Request
<1> HIDE DEF m
<1>8. Controlled(m)
  BY <1>7 DEF Controlled
<1>9. Copies(m.pages, rowIds)
  BY <1>3, <1>7, EmptyCopies
<1>10. words' \in Nat
  BY <1>2, <1>3
<1> QED BY <1>2, <1>6, <1>7, <1>8, <1>9, <1>10, BeginQuiet

(* The text of a list in which some pages are given another text.          *)
LEMMA EditedTyped ==
  ASSUME NEW n \in Nat, NEW l, Copies(l, n), NEW t \in Text, NEW i0
  PROVE  Source([i \in DOMAIN l |-> IF l[i].id # i0 THEN l[i] ELSE [l[i] EXCEPT !.text = t]])
           \in Text
<1> DEFINE row(i) == IF l[i].id # i0 THEN l[i] ELSE [l[i] EXCEPT !.text = t]
           e == [i \in DOMAIN l |-> row(i)]
<1>1. Len(l) \in Nat /\ DOMAIN l = 1..Len(l) /\ \A i \in 1..Len(l) : l[i] \in Row
  BY LenProperties, ElementOfSeq DEF Copies
<1>2. \A i \in 1..Len(l) : row(i).text \in Text
  BY <1>1 DEF Row
<1>3. e = [i \in 1..Len(l) |-> row(i)]
  BY <1>1
<1> HIDE DEF row, e
<1>4. DOMAIN e = 1..Len(e) /\ Len(e) \in Nat /\ \A i \in 1..Len(e) : e[i].text \in Text
  BY <1>1, <1>2, <1>3
<1>5. Source(e) \in Text
  BY <1>4, SourceTyped
<1> QED BY <1>5 DEF e, row

LEMMA RewritingTyped ==
  ASSUME NEW p, NEW op \in OpNames, NEW source \in Text
  PROVE  LET m == Rewriting(p, op, source)
         IN m \in Request /\ m.pc = "current" /\ m.op = op /\ m.pages = <<>>
<1> DEFINE b == Started(p, op, "current")
           parts == Sections(source)
           m == [b EXCEPT !.source = source, !.parts = parts]
<1>1. b \in Request /\ b.pc = "current" /\ b.op = op /\ b.pages = <<>>
  <2>1. "current" \in Steps
    BY DEF Steps
  <2> QED BY <2>1, StartedTyped
<1>2. parts \in Seq(Text)
  BY SectionsTyped
<1>3. Rewriting(p, op, source) = m
  BY DEF Rewriting
<1> HIDE DEF b, parts
<1>4. m \in Request /\ m.pc = "current" /\ m.op = op /\ m.pages = <<>>
  BY <1>1, <1>2 DEF Request
<1> QED BY <1>3, <1>4

(* From the list of pages on, a rewriting holds no more than a text.       *)
LEMMA RewritingQuiet ==
  ASSUME Typing, NEW p \in Procs, At(p, "idle") \/ At(p, "list"),
         NEW op \in {"updatePage", "deletePage"}, NEW source \in Text,
         Resume(p, Rewriting(p, op, source)),
         UNCHANGED <<story, pages, locked, words, disturbed, rowIds>>, shareSame
  PROVE  Quiet(p)
<1> DEFINE m == Rewriting(p, op, source)
<1>1. m \in Request /\ m.pc = "current" /\ m.op = op /\ m.pages = <<>>
  <2>1. op \in OpNames
    BY DEF OpNames
  <2> QED BY <2>1, RewritingTyped
<1>2. Scalars
  BY DEF Typing
<1>3. Resume(p, m)
  OBVIOUS
<1> HIDE DEF m
<1>4. Controlled(m)
  BY <1>1 DEF Controlled
<1>5. Copies(m.pages, rowIds)
  BY <1>1, <1>2, EmptyCopies DEF Scalars
<1>6. words' \in Nat /\ share' \in BOOLEAN /\ granted' \in Nat /\ told' \in Nat /\ asked' = asked
  BY <1>2 DEF Scalars, shareSame
<1>7. Tells(p, m)
  BY <1>1 DEF Tells, At, shareSame
<1>8. req[p].pc \notin {"pages", "save", "append"}
  BY DEF At
<1> QED BY <1>1, <1>3, <1>4, <1>5, <1>6, <1>7, <1>8, ReadQuiet

LEMMA ListForUpdateQuiet ==
  ASSUME Typing, NEW p \in Procs, ListForUpdate(p)
  PROVE  Quiet(p)
<1>1. PICK l \in Listed(pages) :
        LET edited == [i \in DOMAIN l |->
              IF l[i].id # req[p].target THEN l[i] ELSE [l[i] EXCEPT !.text = req[p].source]]
        IN /\ At(p, "list")
           /\ Resume(p, Rewriting(p, "updatePage", Source(edited)))
           /\ UNCHANGED <<story, pages, locked, words, disturbed, rowIds>> /\ shareSame
  BY Zenon DEF ListForUpdate
<1>2. rowIds \in Nat /\ Rows(pages, rowIds) /\ req[p].source \in Text
  BY DEF Typing, Scalars, Request
<1>3. Copies(l, rowIds)
  BY <1>2, ListedCopies
<1> DEFINE e == [i \in DOMAIN l |->
              IF l[i].id # req[p].target THEN l[i] ELSE [l[i] EXCEPT !.text = req[p].source]]
           source == Source(e)
<1>4. source \in Text
  <2>1. \A t \in Text : \A i0 :
          Source([i \in DOMAIN l |->
                    IF l[i].id # i0 THEN l[i] ELSE [l[i] EXCEPT !.text = t]]) \in Text
    BY <1>2, <1>3, EditedTyped
  <2> QED BY <1>2, <2>1, Zenon
<1>5. "updatePage" \in {"updatePage", "deletePage"}
  OBVIOUS
<1>6. /\ At(p, "list") /\ Resume(p, Rewriting(p, "updatePage", source))
      /\ UNCHANGED <<story, pages, locked, words, disturbed, rowIds>> /\ shareSame
  BY <1>1, Zenon
<1> HIDE DEF source
<1> QED BY <1>4, <1>5, <1>6, RewritingQuiet

LEMMA ListForDeleteQuiet ==
  ASSUME Typing, NEW p \in Procs, ListForDelete(p)
  PROVE  Quiet(p)
<1>1. PICK r \in pages, l \in Listed(pages) :
        LET others == [i \in DOMAIN l |->
              IF l[i].id # r.id THEN l[i] ELSE [l[i] EXCEPT !.text = <<>>]]
        IN Resume(p, Rewriting(p, "deletePage", Source(others)))
  BY Zenon DEF ListForDelete
<1>2. /\ At(p, "idle")
      /\ UNCHANGED <<story, pages, locked, words, disturbed, rowIds>> /\ shareSame
  BY DEF ListForDelete, Ready
<1>3. rowIds \in Nat /\ Rows(pages, rowIds) /\ <<>> \in Text
  BY DEF Typing, Scalars, Text
<1>4. Copies(l, rowIds)
  BY <1>3, ListedCopies
<1> DEFINE e == [i \in DOMAIN l |->
              IF l[i].id # r.id THEN l[i] ELSE [l[i] EXCEPT !.text = <<>>]]
           source == Source(e)
<1>5. source \in Text
  BY <1>3, <1>4, EditedTyped
<1>6. "deletePage" \in {"updatePage", "deletePage"}
  OBVIOUS
<1>7. Resume(p, Rewriting(p, "deletePage", source))
  BY <1>1, Zenon
<1> HIDE DEF source
<1> QED BY <1>2, <1>5, <1>6, <1>7, RewritingQuiet

LEMMA ReplaceReadQuiet ==
  ASSUME Typing, NEW p \in Procs, ReplaceRead(p)
  PROVE  Quiet(p)
<1>1. PICK l \in Listed(pages) : Resume(p, [req[p] EXCEPT !.pc = "replace", !.pages = l])
  BY Zenon DEF ReplaceRead
<1>2. /\ At(p, "current")
      /\ UNCHANGED <<story, pages, locked, words, disturbed, rowIds>> /\ shareSame
  BY DEF ReplaceRead
<1>3. /\ Scalars /\ rowIds \in Nat /\ Rows(pages, rowIds)
      /\ req[p] \in Request /\ Controlled(req[p])
  BY DEF Typing, Scalars
<1>4. Copies(l, rowIds) /\ l \in Seq(Row)
  BY <1>3, ListedCopies DEF Copies
<1> DEFINE m == [req[p] EXCEPT !.pc = "replace", !.pages = l]
<1>5. Resume(p, m)
  BY <1>1
<1>6. "replace" \in Steps
  BY DEF Steps
<1>7. m \in Request /\ m.pc = "replace" /\ m.op = req[p].op /\ m.pages = l
  BY <1>3, <1>4, <1>6 DEF Request
<1> HIDE DEF m
<1>8. req[p].pc = "current"
  BY <1>2 DEF At
<1>9. m.op \in {"updatePage", "deletePage"}
  BY <1>3, <1>7, <1>8 DEF Controlled
<1>10. Controlled(m)
  BY <1>7, <1>9 DEF Controlled
<1>11. words' \in Nat /\ share' \in BOOLEAN /\ granted' \in Nat /\ told' \in Nat /\ asked' = asked
  BY <1>2, <1>3 DEF Scalars, shareSame
<1>12. Tells(p, m)
  BY <1>2, <1>7, <1>8 DEF Tells, shareSame
<1> QED BY <1>2, <1>4, <1>5, <1>7, <1>8, <1>9, <1>10, <1>11, <1>12, ReadQuiet

(* A request that begins with rows of the table.                           *)
LEMMA CopyQuiet ==
  ASSUME Typing, NEW p \in Procs, At(p, "idle"), NEW op \in OpNames \ {"create", "update"},
         NEW pc \in {"reorder", "image"}, NEW l, Copies(l, rowIds),
         pc = "image" => op = "illustrate" /\ Len(l) = 1 /\ l[1].id # 0,
         pc = "reorder" => op = "reorder",
         Resume(p, [Started(p, op, pc) EXCEPT !.pages = l]),
         UNCHANGED <<story, pages, locked, words, disturbed, rowIds>>, shareSame
  PROVE  Quiet(p)
<1> DEFINE b == Started(p, op, pc)
           m == [b EXCEPT !.pages = l]
<1>1. b \in Request /\ b.pc = pc /\ b.op = op
  <2>1. op \in OpNames /\ pc \in Steps
    BY DEF Steps
  <2> QED BY <2>1, StartedTyped
<1>2. l \in Seq(Row)
  BY DEF Copies
<1>3. Resume(p, m)
  OBVIOUS
<1> HIDE DEF b
<1>4. m \in Request /\ m.pc = pc /\ m.op = op /\ m.pages = l
  BY <1>1, <1>2 DEF Request
<1> HIDE DEF m
<1>5. Controlled(m)
  BY <1>4 DEF Controlled
<1>6. words' \in Nat
  BY DEF Typing, Scalars
<1> QED BY <1>3, <1>4, <1>5, <1>6, BeginQuiet

LEMMA CheckOrderQuiet ==
  ASSUME Typing, NEW p \in Procs, CheckOrder(p)
  PROVE  Quiet(p)
<1>1. PICK l \in Listed(pages), i \in 1..Cardinality(pages), j \in 1..Cardinality(pages) :
        /\ i < j
        /\ Resume(p, [Started(p, "reorder", "reorder") EXCEPT
                        !.pages = [l EXCEPT ![i] = l[j], ![j] = l[i]]])
  BY Zenon DEF CheckOrder
<1>2. /\ At(p, "idle")
      /\ UNCHANGED <<story, pages, locked, words, disturbed, rowIds>> /\ shareSame
  BY DEF CheckOrder, Ready
<1>3. rowIds \in Nat /\ Rows(pages, rowIds)
  BY DEF Typing, Scalars
<1>4. Copies(l, rowIds) /\ Len(l) = Cardinality(pages) /\ Cardinality(pages) \in Nat
  BY <1>3, ListedCopies
<1> DEFINE s == [l EXCEPT ![i] = l[j], ![j] = l[i]]
<1>5. i \in 1..Len(l) /\ j \in 1..Len(l) /\ i # j
  BY <1>1, <1>4
<1>6. Copies(s, rowIds)
  BY <1>3, <1>4, <1>5, SwappedCopies
<1>7. Resume(p, [Started(p, "reorder", "reorder") EXCEPT !.pages = s])
  BY <1>1
<1>8. "reorder" \in OpNames \ {"create", "update"}
  BY DEF OpNames
<1> HIDE DEF s
<1> QED BY <1>2, <1>6, <1>7, <1>8, CopyQuiet

LEMMA OneCopy ==
  ASSUME NEW n \in Nat, NEW r \in Row, r.id \in 0..n, Depicted(r)
  PROVE  Copies(<<r>>, n) /\ Len(<<r>>) = 1 /\ <<r>>[1] = r
<1>1. <<r>> \in Seq(Row) /\ Len(<<r>>) = 1 /\ <<r>>[1] = r
  OBVIOUS
<1> DEFINE l == <<r>>
<1>2. l \in Seq(Row) /\ Len(l) = 1 /\ l[1] = r
  BY <1>1
<1> HIDE DEF l
<1>3. \A i \in 1..Len(l) : i = 1
  BY <1>2
<1>4. Copies(l, n)
  BY <1>2, <1>3 DEF Copies
<1> QED BY <1>2, <1>4 DEF l

LEMMA LoadPageQuiet ==
  ASSUME Typing, NEW p \in Procs, LoadPage(p)
  PROVE  Quiet(p)
<1>1. PICK r \in pages :
        Resume(p, [Started(p, "illustrate", "image") EXCEPT !.pages = <<r>>])
  BY Zenon DEF LoadPage
<1>2. /\ At(p, "idle")
      /\ UNCHANGED <<story, pages, locked, words, disturbed, rowIds>> /\ shareSame
  BY DEF LoadPage, Ready
<1>3. rowIds \in Nat /\ r \in Row /\ r.id \in 1..rowIds /\ Depicted(r)
  BY DEF Typing, Scalars, Rows
<1>4. r.id \in 0..rowIds /\ r.id # 0
  BY <1>3
<1> DEFINE l == <<r>>
<1>5. Copies(l, rowIds) /\ Len(l) = 1 /\ l[1] = r
  BY <1>3, <1>4, OneCopy
<1>6. Resume(p, [Started(p, "illustrate", "image") EXCEPT !.pages = l])
  BY <1>1
<1>7. "illustrate" \in OpNames \ {"create", "update"}
  BY DEF OpNames
<1> HIDE DEF l
<1> QED BY <1>2, <1>4, <1>5, <1>6, <1>7, CopyQuiet

(* Sharing.                                                                *)
LEMMA InsertShareQuiet ==
  ASSUME Typing, NEW p \in Procs, InsertShare(p)
  PROVE  Quiet(p)
<1>1. /\ At(p, "share") /\ share' = (share \/ Inserted)
      /\ granted' = IF ~share /\ share' THEN granted + 1 ELSE granted
      /\ UNCHANGED <<story, pages, locked, words, disturbed, asked, told, rowIds>>
  BY DEF InsertShare
<1>2. /\ Scalars /\ rowIds \in Nat /\ req[p] \in Request /\ Controlled(req[p])
      /\ Copies(req[p].pages, rowIds)
  BY DEF Typing, Scalars
<1>3. /\ words' \in Nat /\ share' \in BOOLEAN /\ granted' \in Nat /\ told' \in Nat
      /\ req[p].pc = "share"
  BY <1>1, <1>2 DEF Scalars, Inserted, At, StoryRow
<1>4. CASE Inserted
  <2> DEFINE m == [req[p] EXCEPT !.pc = "tell"]
  <2>1. Resume(p, m)
    BY <1>4 DEF InsertShare
  <2>2. "tell" \in Steps
    BY DEF Steps
  <2>3. m \in Request /\ m.pc = "tell" /\ m.op = req[p].op /\ m.pages = req[p].pages
    BY <1>2, <2>2 DEF Request
  <2> HIDE DEF m
  <2>4. m.op \notin {"create", "update"}
    BY <1>2, <1>3, <2>3 DEF Controlled
  <2>5. Controlled(m)
    BY <2>3, <2>4 DEF Controlled
  <2>6. granted' = granted + 1 /\ told' = told
    BY <1>1, <1>4 DEF Inserted
  <2>7. Tells(p, m)
    BY <1>3, <2>3, <2>6 DEF Tells
  <2> QED BY <1>1, <1>2, <1>3, <2>1, <2>3, <2>4, <2>5, <2>7, ReadQuiet
<1>5. CASE ~Inserted
  <2>1. Resume(p, Done)
    BY <1>5 DEF InsertShare, Finish
  <2>2. granted' = granted /\ told' = told
    BY <1>1, <1>2, <1>5 DEF Scalars
  <2>3. Tells(p, Done)
    BY <1>3, <2>2, DoneTyped DEF Tells
  <2> QED BY <1>1, <1>2, <1>3, <2>1, <2>3, DoneTyped, ReadQuiet
<1> QED BY <1>4, <1>5

LEMMA TellOtherQuiet ==
  ASSUME Typing, NEW p \in Procs, TellOther(p) \/ RemoveShare(p)
  PROVE  Quiet(p)
<1>1. /\ Scalars /\ rowIds \in Nat /\ Controlled(req[p])
  BY DEF Typing, Scalars
<1>2. /\ Resume(p, Done) /\ Tells(p, Done)
      /\ UNCHANGED <<story, pages, locked, words, disturbed, asked, rowIds>>
      /\ share' \in BOOLEAN /\ granted' \in Nat /\ told' \in Nat
      /\ req[p].pc \in {"tell", "unshare"}
  <2>1. CASE TellOther(p)
    BY <1>1, <2>1, DoneTyped DEF TellOther, Finish, Tells, Scalars, At
  <2>2. CASE RemoveShare(p)
    BY <1>1, <2>2, DoneTyped DEF RemoveShare, Finish, Tells, Scalars, At
  <2> QED BY <2>1, <2>2
<1>3. words' \in Nat
  BY <1>1, <1>2 DEF Scalars
<1> QED BY <1>1, <1>2, <1>3, DoneTyped, ReadQuiet

-----------------------------------------------------------------------------
(* Steps that write pages, and append's.                                   *)

Writes(p, m) == Commit(p, m) \/ Save(p, m) \/ (Resume(p, m) /\ UNCHANGED disturbed)

LEMMA WritesMove ==
  ASSUME Typing, NEW p \in Procs, NEW m \in Request, Writes(p, m)
  PROVE  /\ Moves(p, m) /\ disturbed' \in BOOLEAN /\ (disturbed => disturbed')
         /\ \A q \in Procs \ {p} : req[q].stale => req'[q].stale
<1>1. disturbed \in BOOLEAN
  BY DEF Typing, Scalars
<1>2. CASE Commit(p, m)
  BY <1>2, CommitMoves
<1>3. CASE Save(p, m)
  <2>1. Resume(p, m) /\ disturbed' = (disturbed \/ req[p].stale)
    BY <1>3 DEF Save
  <2>2. Moves(p, m) /\ \A q \in Procs \ {p} : req'[q] = req[q]
    BY <2>1, ResumeMoves
  <2> QED BY <1>1, <2>1, <2>2
<1>4. CASE Resume(p, m) /\ UNCHANGED disturbed
  <2>1. Moves(p, m) /\ \A q \in Procs \ {p} : req'[q] = req[q]
    BY <1>4, ResumeMoves
  <2> QED BY <1>1, <1>4, <2>1
<1> QED BY <1>2, <1>3, <1>4 DEF Writes

LEMMA WriteQuiet ==
  ASSUME Typing, NEW p \in Procs, NEW m \in Request, Writes(p, m),
         Copies(m.pages, rowIds'), Controlled(m),
         m.pc \notin {"append", "tell"}, req[p].pc # "tell", m.op # "update",
         m.op = "create" <=> req[p].op = "create",
         m.op = "create" => m.story.visibility = req[p].story.visibility /\ m.stale = req[p].stale,
         story' \in StoryRow, Alike(story', story), story' = story \/ story'.exists,
         locked' = locked \/ (locked = p /\ locked' = None),
         shareSame, words' \in Nat, rowIds' \in Nat, rowIds <= rowIds', Rows(pages, rowIds)'
  PROVE  Quiet(p)
<1>1. /\ Moves(p, m) /\ disturbed' \in BOOLEAN /\ (disturbed => disturbed')
      /\ \A q \in Procs \ {p} : req[q].stale => req'[q].stale
  BY WritesMove
<1>2. Scalars
  BY DEF Typing
<1>3. /\ asked' = asked /\ asked' \in {"PRIVATE", "SHARED"}
      /\ share' \in BOOLEAN /\ granted' \in Nat /\ told' \in Nat /\ Tells(p, m)
  BY <1>2 DEF shareSame, Scalars, Tells
<1>4. locked' \in Procs \cup {None}
  BY <1>2 DEF Scalars
<1>5. Scalars'
  BY <1>1, <1>3, <1>4, Zenon DEF Scalars
<1>6. Effect(p, m)
  <2>1. Grows(p)
    BY <1>1 DEF Grows
  <2> QED BY <1>1, <1>3, <1>5, <2>1, Zenon DEF Effect
<1>7. \A q \in Procs \ {p} : At(q, "append") /\ locked = q => locked' = q
  OBVIOUS
<1>8. KeepsStory(p, m)
  BY <1>1, <1>3, <1>7 DEF KeepsStory
<1> QED BY <1>6, <1>8, Zenon DEF Quiet

LEMMA CreatePagesQuiet ==
  ASSUME Typing, NEW p \in Procs, CreatePages(p)
  PROVE  Quiet(p)
<1> DEFINE l == NewPages(0, req[p].parts)
           c(v) == [req[p].story EXCEPT !.status = v]
           m(v) == [req[p] EXCEPT !.pc = "save", !.story.status = v]
<1>1. /\ At(p, "pages") /\ UNCHANGED <<story, locked, words>> /\ shareSame
      /\ \/ /\ pages' = Saved(pages, l) /\ rowIds' = rowIds + Len(l)
            /\ Commit(p, m("READY"))
         \/ /\ Resume(p, m("FAILED"))
            /\ UNCHANGED <<pages, rowIds, disturbed>>
  BY DEF CreatePages
<1>2. /\ rowIds \in Nat /\ words \in Nat /\ story \in StoryRow /\ Rows(pages, rowIds)
      /\ req[p] \in Request /\ Controlled(req[p]) /\ Copies(req[p].pages, rowIds)
  BY DEF Typing, Scalars
<1>3. req[p].pc = "pages" /\ req[p].op = "create" /\ req[p].story.exists
  BY <1>1, <1>2 DEF At, Controlled
<1>4. ASSUME NEW v \in {"READY", "FAILED"}
      PROVE  /\ m(v) \in Request /\ m(v).pc = "save" /\ m(v).op = "create"
             /\ m(v).pages = req[p].pages /\ m(v).stale = req[p].stale
             /\ m(v).story.visibility = req[p].story.visibility /\ Controlled(m(v))
  <2>1. /\ req[p].story \in StoryRow /\ c(v) \in StoryRow /\ c(v).exists = req[p].story.exists
        /\ c(v).visibility = req[p].story.visibility /\ c(v).status = v
    BY <1>2 DEF Request, StoryRow
  <2>2. m(v) = [req[p] EXCEPT !.pc = "save", !.story = c(v)]
    BY <1>2 DEF Request
  <2>3. "save" \in Steps
    BY DEF Steps
  <2> HIDE DEF c, m
  <2>4. /\ m(v) \in Request /\ m(v).pc = "save" /\ m(v).op = "create" /\ m(v).story = c(v)
        /\ m(v).pages = req[p].pages /\ m(v).stale = req[p].stale
    BY <1>2, <1>3, <2>1, <2>2, <2>3 DEF Request
  <2>5. Controlled(m(v))
    BY <1>3, <2>1, <2>4 DEF Controlled
  <2> QED BY <2>1, <2>4, <2>5
<1> HIDE DEF m
<1>5. Alike(story', story) /\ story' = story /\ words' = words /\ locked' = locked
  BY <1>1 DEF Alike
<1>6. CASE /\ pages' = Saved(pages, l) /\ rowIds' = rowIds + Len(l)
           /\ Commit(p, m("READY"))
  <2>1. req[p].parts \in Seq(Text)
    BY <1>2 DEF Request
  <2>2. Copies(l, rowIds) /\ Len(l) \in Nat
    <3>1. 0 \in Nat
      OBVIOUS
    <3> QED BY <1>2, <2>1, <3>1, NewCopies
  <2>3. Fresh(l) <= Len(l)
    BY <1>2, <2>2, NumberedCopies
  <2>4. Rows(Saved(pages, l), rowIds + Len(l))
    BY <1>2, <2>2, <2>3, SavedRows
  <2>5. Rows(pages', rowIds')
    BY <1>6, <2>4, Zenon
  <2> HIDE DEF l
  <2>6. rowIds' \in Nat /\ rowIds <= rowIds'
    BY <1>2, <1>6, <2>2
  <2>7. Copies(req[p].pages, rowIds')
    BY <1>2, <2>6, MoreIds
  <2>8. Writes(p, m("READY"))
    BY <1>6 DEF Writes
  <2> QED BY <1>1, <1>2, <1>3, <1>4, <1>5, <2>5, <2>6, <2>7, <2>8, WriteQuiet
<1>7. CASE Resume(p, m("FAILED")) /\ UNCHANGED <<pages, rowIds, disturbed>>
  <2>1. Rows(pages', rowIds') /\ rowIds' \in Nat /\ rowIds <= rowIds'
    BY <1>2, <1>7
  <2>2. Writes(p, m("FAILED"))
    BY <1>7 DEF Writes
  <2>3. Copies(req[p].pages, rowIds')
    BY <1>2, <1>7
  <2> QED BY <1>1, <1>2, <1>3, <1>4, <1>5, <2>1, <2>2, <2>3, WriteQuiet
<1> QED BY <1>1, <1>6, <1>7

LEMMA AppendReadQuiet ==
  ASSUME Typing, NEW p \in Procs, AppendRead(p)
  PROVE  Quiet(p)
<1>1. PICK len \in EditLens, l \in Listed(pages) :
        LET more  == NewText(len)
            whole == story.text \o more
        IN /\ Ready(p, "append") /\ story.exists
           /\ TakeLock(p)
           /\ words' = words + 1
           /\ Resume(p, [Started(p, "append", "append") EXCEPT
                !.story = [story EXCEPT !.text = whole],
                !.pages = l \o NewPages(LastNumber(l), Sections(IF l = <<>> THEN whole ELSE more))])
           /\ UNCHANGED <<story, pages, disturbed, rowIds>> /\ shareSame
  BY Zenon DEF AppendRead
<1> DEFINE more == NewText(len)
           whole == story.text \o more
           parts == Sections(IF l = <<>> THEN whole ELSE more)
           new == NewPages(LastNumber(l), parts)
           b == Started(p, "append", "append")
           c == [story EXCEPT !.text = whole]
           m == [b EXCEPT !.story = c, !.pages = l \o new]
<1>2. /\ Ready(p, "append") /\ story.exists /\ TakeLock(p) /\ words' = words + 1
      /\ Resume(p, m) /\ UNCHANGED <<story, pages, disturbed, rowIds>> /\ shareSame
  BY <1>1, Zenon
<1>3. /\ Scalars /\ rowIds \in Nat /\ words \in Nat /\ story \in StoryRow
      /\ Rows(pages, rowIds) /\ req[p].pc = "idle"
  BY <1>2 DEF Typing, Scalars, Ready, At
<1>4. more \in Text
  BY <1>3, NewTextTyped
<1>5. whole \in Text
  <2>1. story.text \in Text
    BY <1>3 DEF StoryRow
  <2> HIDE DEF more
  <2> QED BY <1>4, <2>1, WordsConcat
<1>6. c \in StoryRow /\ Alike(c, story) /\ c.exists
  BY <1>2, <1>3, <1>5 DEF StoryRow, Alike
<1> HIDE DEF more, whole, c
<1>7. parts \in Seq(Text)
  <2> DEFINE t == IF l = <<>> THEN whole ELSE more
  <2>1. t \in Text
    BY <1>4, <1>5
  <2> HIDE DEF t
  <2>2. Sections(t) \in Seq(Text)
    BY <2>1, SectionsTyped
  <2> QED BY <2>2 DEF t
<1>8. Copies(l, rowIds) /\ Len(l) \in Nat
  BY <1>3, ListedCopies
<1> HIDE DEF parts
<1>9. Copies(new, rowIds) /\ \A i \in 1..Len(new) : new[i].id = 0
  <2>1. LastNumber(l) \in Nat
    BY <1>8 DEF LastNumber
  <2> QED BY <1>3, <1>7, <2>1, NewCopies, SMTT(30)
<1> HIDE DEF new
<1>10. Copies(l \o new, rowIds) /\ l \o new \in Seq(Row)
  <2>1. Copies(l \o new, rowIds)
    BY <1>3, <1>8, <1>9, ConcatCopies
  <2> QED BY <2>1 DEF Copies
<1> DEFINE u == l \o new
<1>11. b \in Request /\ b.pc = "append" /\ b.op = "append"
  <2>1. "append" \in OpNames /\ "append" \in Steps
    BY DEF OpNames, Steps
  <2> QED BY <2>1, StartedTyped
<1>12. m = [b EXCEPT !.story = c, !.pages = u] /\ u \in Seq(Row) /\ Copies(u, rowIds)
  BY <1>10
<1> HIDE DEF b, u
<1>13. m \in Request /\ m.pc = "append" /\ m.op = "append" /\ m.pages = u /\ m.story = c
  BY <1>6, <1>11, <1>12 DEF Request
<1> HIDE DEF m
<1>14. Controlled(m)
  BY <1>6, <1>13 DEF Controlled
<1>15. locked = None /\ locked' = p
  BY <1>2 DEF TakeLock
<1>16. Moves(p, m) /\ \A q \in Procs \ {p} : req'[q] = req[q]
  BY <1>2, <1>13, ResumeMoves
<1>17. Scalars' /\ asked' = asked
  BY <1>2, <1>3, <1>15 DEF Scalars, shareSame
<1>18. Rows(pages, rowIds)' /\ rowIds <= rowIds' /\ Copies(m.pages, rowIds')
  <2>1. pages' = pages /\ rowIds' = rowIds /\ rowIds <= rowIds
    BY <1>2, <1>3
  <2>2. Rows(pages', rowIds')
    BY <1>3, <2>1
  <2> QED BY <1>12, <1>13, <2>1, <2>2
<1>19. Tells(p, m)
  BY <1>2, <1>3, <1>13 DEF Tells, shareSame
<1>20. Effect(p, m)
  <2>1. Grows(p)
    BY <1>2, <1>16 DEF Grows
  <2> QED BY <1>14, <1>16, <1>17, <1>18, <1>19, <2>1, Zenon DEF Effect
<1>21. req[p].op # "create"
  BY <1>3 DEF Typing, Controlled
<1>22. Alike(story', story) /\ story' = story /\ disturbed' = disturbed
  BY <1>2 DEF Alike
<1>23. \A q \in Procs \ {p} : locked # q
  BY <1>15, PagesAssumption
<1>24. KeepsStory(p, m)
  BY <1>6, <1>13, <1>15, <1>16, <1>17, <1>21, <1>22, <1>23 DEF KeepsStory
<1> QED BY <1>20, <1>24, Zenon DEF Quiet

LEMMA AppendWriteQuiet ==
  ASSUME Typing, NEW p \in Procs, AppendWrite(p), Alike(req[p].story, story)
  PROVE  Quiet(p)
<1> DEFINE l == req[p].pages
<1>1. /\ At(p, "append") /\ pages' = Saved(pages, l) /\ rowIds' = rowIds + Fresh(l)
      /\ story' = req[p].story /\ ReleaseLock(p) /\ Commit(p, Done)
      /\ UNCHANGED words /\ shareSame
  BY DEF AppendWrite
<1>2. /\ rowIds \in Nat /\ words \in Nat /\ story \in StoryRow /\ Rows(pages, rowIds)
      /\ req[p] \in Request /\ Controlled(req[p]) /\ Copies(l, rowIds)
  BY DEF Typing, Scalars
<1>3. req[p].pc = "append" /\ req[p].op = "append" /\ req[p].story.exists
  BY <1>1, <1>2 DEF At, Controlled
<1>4. Fresh(l) \in Nat
  BY <1>2, NumberedCopies
<1>5. Rows(Saved(pages, l), rowIds + Fresh(l))
  BY <1>2, <1>4, SavedRows
<1>6. Rows(pages', rowIds')
  BY <1>1, <1>5, Zenon
<1> HIDE DEF l
<1>7. rowIds' \in Nat /\ rowIds <= rowIds' /\ words' \in Nat
  BY <1>1, <1>2, <1>4
<1>8. Copies(Done.pages, rowIds')
  BY <1>7, DoneTyped
<1>9. locked' = locked \/ (locked = p /\ locked' = None)
  BY <1>1 DEF ReleaseLock
<1>10. story' \in StoryRow /\ Alike(story', story) /\ story'.exists
  BY <1>1, <1>2, <1>3 DEF Request, Alike
<1>11. Writes(p, Done)
  BY <1>1 DEF Writes
<1> QED BY <1>1, <1>3, <1>6, <1>7, <1>8, <1>9, <1>10, <1>11, DoneTyped, WriteQuiet

LEMMA FewerRows ==
  ASSUME NEW n \in Nat, NEW s, Rows(s, n), NEW t \in SUBSET s
  PROVE  Rows(t, n)
<1>1. IsFiniteSet(t)
  BY FS_Subset DEF Rows
<1> QED BY <1>1 DEF Rows

LEMMA ReplaceWriteQuiet ==
  ASSUME Typing, NEW p \in Procs, ReplaceWrite(p)
  PROVE  Quiet(p)
<1> DEFINE l == Replaced(req[p])
           s == {r \in pages : r.id \notin Surplus(req[p].pages, Len(l))}
<1>1. /\ At(p, "replace")
      /\ \/ /\ story.exists /\ pages' = Saved(s, l) /\ rowIds' = rowIds + Fresh(l)
            /\ story' = [story EXCEPT !.text = req[p].source]
            /\ Commit(p, Done)
         \/ Finish(p) /\ UNCHANGED <<pages, rowIds, story, disturbed>>
      /\ UNCHANGED <<locked, words>> /\ shareSame
  BY DEF ReplaceWrite
<1>2. /\ rowIds \in Nat /\ words \in Nat /\ story \in StoryRow /\ Rows(pages, rowIds)
      /\ req[p] \in Request /\ Controlled(req[p]) /\ Copies(req[p].pages, rowIds)
  BY DEF Typing, Scalars
<1>3. req[p].pc = "replace" /\ req[p].op # "create"
  BY <1>1, <1>2 DEF At, Controlled
<1>4. words' = words /\ locked' = locked
  BY <1>1
<1>5. CASE /\ story.exists /\ pages' = Saved(s, l) /\ rowIds' = rowIds + Fresh(l)
           /\ story' = [story EXCEPT !.text = req[p].source]
           /\ Commit(p, Done)
  <2>1. req[p].parts \in Seq(Text) /\ req[p].source \in Text
    BY <1>2 DEF Request
  <2>2. Copies(l, rowIds)
    BY <1>2, <2>1, ReplacedCopies
  <2>3. Rows(s, rowIds)
    <3>1. s \in SUBSET pages
      OBVIOUS
    <3> HIDE DEF s
    <3> QED BY <1>2, <3>1, FewerRows
  <2> HIDE DEF l, s
  <2>4. Fresh(l) \in Nat
    BY <1>2, <2>2, NumberedCopies
  <2>5. Rows(Saved(s, l), rowIds + Fresh(l))
    BY <1>2, <2>2, <2>3, <2>4, SavedRows
  <2>6. Rows(pages', rowIds')
    BY <1>5, <2>5, Zenon
  <2>7. rowIds' \in Nat /\ rowIds <= rowIds'
    BY <1>2, <1>5, <2>4
  <2>8. Copies(Done.pages, rowIds')
    BY <2>7, DoneTyped
  <2>9. story' \in StoryRow /\ Alike(story', story) /\ story'.exists
    BY <1>2, <1>5, <2>1 DEF StoryRow, Alike
  <2>10. Writes(p, Done)
    BY <1>5 DEF Writes
  <2> QED BY <1>1, <1>2, <1>3, <1>4, <2>6, <2>7, <2>8, <2>9, <2>10, DoneTyped, WriteQuiet
<1>6. CASE Finish(p) /\ UNCHANGED <<pages, rowIds, story, disturbed>>
  <2> HIDE DEF l, s
  <2>1. Rows(pages', rowIds') /\ rowIds' \in Nat /\ rowIds <= rowIds'
    BY <1>2, <1>6
  <2>2. Copies(Done.pages, rowIds')
    BY <2>1, DoneTyped
  <2>3. Writes(p, Done)
    BY <1>6 DEF Writes, Finish
  <2>4. story' \in StoryRow /\ Alike(story', story) /\ story' = story
    BY <1>2, <1>6 DEF Alike
  <2> QED BY <1>1, <1>2, <1>3, <1>4, <2>1, <2>2, <2>3, <2>4, DoneTyped, WriteQuiet
<1> QED BY <1>1, <1>5, <1>6

(* The rows that a reordering writes differ from the old in their numbers. *)
LEMMA RenumberedRows ==
  ASSUME NEW n \in Nat, NEW s, Rows(s, n), NEW f \in [s -> Row],
         \A r \in s : f[r].id = r.id /\ f[r].text = r.text /\ f[r].image = r.image
  PROVE  Rows({f[r] : r \in s}, n)
<1> DEFINE t == {f[r] : r \in s}
<1>1. /\ IsFiniteSet(s)
      /\ \A r \in s : r \in Row /\ r.id \in 1..n /\ Depicted(r)
      /\ \A r, q \in s : r.id = q.id => r = q
  BY DEF Rows
<1>2. IsFiniteSet(t)
  <2>1. f \in Surjection(s, t)
    BY DEF Surjection
  <2> QED BY <1>1, <2>1, FS_Surjection
<1>3. \A r \in s : f[r].id \in 1..n /\ Depicted(f[r])
  BY <1>1 DEF Depicted
<1>4. \A x \in t : x \in Row /\ x.id \in 1..n /\ Depicted(x)
  BY <1>3
<1>5. \A x, y \in t : x.id = y.id => x = y
  BY <1>1
<1> QED BY <1>2, <1>4, <1>5 DEF Rows

LEMMA WriteOrderQuiet ==
  ASSUME Typing, NEW p \in Procs, WriteOrder(p)
  PROVE  Quiet(p)
<1> DEFINE l == req[p].pages
           Position(r) == CHOOSE i \in DOMAIN l : l[i].id = r.id
           new(r) == IF \E i \in DOMAIN l : l[i].id = r.id
                     THEN [r EXCEPT !.number = Position(r)] ELSE r
           f == [r \in pages |-> new(r)]
<1>1. /\ At(p, "reorder") /\ pages' = {new(r) : r \in pages}
      /\ Commit(p, Done) /\ UNCHANGED <<story, locked, words, rowIds>> /\ shareSame
  BY DEF WriteOrder
<1>2. /\ rowIds \in Nat /\ words \in Nat /\ story \in StoryRow /\ Rows(pages, rowIds)
      /\ Controlled(req[p]) /\ Copies(l, rowIds)
  BY DEF Typing, Scalars
<1>3. DOMAIN l = 1..Len(l) /\ Len(l) \in Nat
  BY <1>2, LenProperties DEF Copies
<1>4. req[p].pc = "reorder" /\ req[p].op # "create"
  BY <1>1, <1>2 DEF At, Controlled
<1> HIDE DEF l
<1>5. ASSUME NEW r \in pages
      PROVE  /\ new(r) \in Row /\ new(r).id = r.id
             /\ new(r).text = r.text /\ new(r).image = r.image
  <2>1. r \in Row
    BY <1>2 DEF Rows
  <2>2. CASE \E i \in DOMAIN l : l[i].id = r.id
    <3>1. Position(r) \in DOMAIN l
      BY <2>2
    <3> HIDE DEF Position
    <3>2. Position(r) \in Nat \ {0}
      BY <1>3, <3>1
    <3> QED BY <2>1, <2>2, <3>2 DEF Row
  <2>3. CASE ~\E i \in DOMAIN l : l[i].id = r.id
    BY <2>1, <2>3
  <2> QED BY <2>2, <2>3
<1> HIDE DEF new
<1>6. \A r \in pages : f[r] = new(r)
  OBVIOUS
<1>7. pages' = {f[r] : r \in pages} /\ f \in [pages -> Row]
  BY <1>1, <1>5, <1>6
<1> HIDE DEF f
<1>8. \A r \in pages : f[r].id = r.id /\ f[r].text = r.text /\ f[r].image = r.image
  BY <1>5, <1>6
<1>9. Rows({f[r] : r \in pages}, rowIds)
  BY <1>2, <1>7, <1>8, RenumberedRows
<1>10. Rows(pages', rowIds') /\ rowIds' \in Nat /\ rowIds <= rowIds' /\ words' \in Nat
  BY <1>1, <1>2, <1>7, <1>9
<1>11. Copies(Done.pages, rowIds')
  BY <1>10, DoneTyped
<1>12. Writes(p, Done)
  BY <1>1 DEF Writes
<1>13. story' \in StoryRow /\ Alike(story', story) /\ story' = story /\ locked' = locked
  BY <1>1, <1>2 DEF Alike
<1> QED BY <1>1, <1>4, <1>10, <1>11, <1>12, <1>13, DoneTyped, WriteQuiet

LEMMA SaveImageQuiet ==
  ASSUME Typing, NEW p \in Procs, SaveImage(p)
  PROVE  Quiet(p)
<1> DEFINE r == req[p].pages[1]
           n == [r EXCEPT !.image = r.text]
           l == <<n>>
<1>1. /\ At(p, "image")
      /\ IF story.exists THEN pages' = Saved(pages, l) /\ Save(p, Done)
         ELSE Finish(p) /\ UNCHANGED <<pages, disturbed>>
      /\ UNCHANGED <<story, locked, words, rowIds>> /\ shareSame
  BY DEF SaveImage
<1>2. /\ rowIds \in Nat /\ words \in Nat /\ story \in StoryRow /\ Rows(pages, rowIds)
      /\ Controlled(req[p]) /\ Copies(req[p].pages, rowIds)
  BY DEF Typing, Scalars
<1>3. /\ req[p].pc = "image" /\ req[p].op # "create"
      /\ Len(req[p].pages) = 1 /\ r.id # 0
  BY <1>1, <1>2 DEF At, Controlled
<1>4. r \in Row /\ r.id \in 0..rowIds
  BY <1>2, <1>3, ElementOfSeq DEF Copies
<1> HIDE DEF r
<1>5. n \in Row /\ n.id = r.id /\ Depicted(n)
  BY <1>4 DEF Row, Depicted
<1> HIDE DEF n
<1>6. Copies(l, rowIds) /\ Len(l) = 1 /\ l[1] = n
  BY <1>2, <1>4, <1>5, OneCopy
<1>7. Fresh(l) = 0
  <2>1. DOMAIN l = 1..1
    BY <1>6
  <2>2. \A i \in 1..1 : l[i] = n
    BY <1>6
  <2> HIDE DEF l
  <2>3. {i \in DOMAIN l : l[i].id = 0} = {}
    BY <1>3, <1>5, <2>1, <2>2
  <2> QED BY <2>3, FS_EmptySet DEF Fresh
<1> HIDE DEF l
<1>8. Rows(Saved(pages, l), rowIds)
  <2>1. 0 \in Nat /\ Fresh(l) <= 0 /\ rowIds + 0 = rowIds
    BY <1>2, <1>7
  <2>2. Rows(Saved(pages, l), rowIds + 0)
    BY <1>2, <1>6, <2>1, SavedRows
  <2> QED BY <2>1, <2>2, Zenon
<1>9. Rows(pages', rowIds') /\ rowIds' \in Nat /\ rowIds <= rowIds' /\ words' \in Nat
  <2>1. rowIds' = rowIds /\ words' = words /\ (pages' = pages \/ pages' = Saved(pages, l))
    BY <1>1
  <2> QED BY <1>2, <1>8, <2>1
<1>10. Copies(Done.pages, rowIds')
  BY <1>9, DoneTyped
<1>11. Writes(p, Done)
  BY <1>1 DEF Writes, Finish
<1>12. story' \in StoryRow /\ Alike(story', story) /\ story' = story /\ locked' = locked
  BY <1>1, <1>2 DEF Alike
<1> QED BY <1>1, <1>3, <1>9, <1>10, <1>11, <1>12, DoneTyped, WriteQuiet

LEMMA QuietSteps ==
  ASSUME Typing, NEW p \in Procs, At(p, "append") => Alike(req[p].story, story),
         \/ CreatePages(p) \/ LoadStory(p) \/ LoadForRemove(p) \/ AppendRead(p) \/ AppendWrite(p)
         \/ FindPage(p) \/ ListForUpdate(p) \/ ListForDelete(p) \/ ReplaceRead(p)
         \/ ReplaceWrite(p) \/ CheckOrder(p) \/ WriteOrder(p) \/ LoadPage(p)
         \/ SaveImage(p) \/ CheckShare(p) \/ InsertShare(p) \/ TellOther(p)
         \/ FindShare(p) \/ RemoveShare(p)
  PROVE  Quiet(p)
<1>1. CASE CreatePages(p)
  BY <1>1, CreatePagesQuiet
<1>2. CASE LoadStory(p)
  BY <1>2, LoadStoryQuiet
<1>3. CASE LoadForRemove(p) \/ CheckShare(p) \/ FindShare(p)
  BY <1>3, ChecksQuiet
<1>4. CASE AppendRead(p)
  BY <1>4, AppendReadQuiet
<1>5. CASE AppendWrite(p)
  <2>1. At(p, "append")
    BY <1>5 DEF AppendWrite
  <2> QED BY <1>5, <2>1, AppendWriteQuiet
<1>6. CASE FindPage(p)
  BY <1>6, FindPageQuiet
<1>7. CASE ListForUpdate(p)
  BY <1>7, ListForUpdateQuiet
<1>8. CASE ListForDelete(p)
  BY <1>8, ListForDeleteQuiet
<1>9. CASE ReplaceRead(p)
  BY <1>9, ReplaceReadQuiet
<1>10. CASE ReplaceWrite(p)
  BY <1>10, ReplaceWriteQuiet
<1>11. CASE CheckOrder(p)
  BY <1>11, CheckOrderQuiet
<1>12. CASE WriteOrder(p)
  BY <1>12, WriteOrderQuiet
<1>13. CASE LoadPage(p)
  BY <1>13, LoadPageQuiet
<1>14. CASE SaveImage(p)
  BY <1>14, SaveImageQuiet
<1>15. CASE InsertShare(p)
  BY <1>15, InsertShareQuiet
<1>16. CASE TellOther(p) \/ RemoveShare(p)
  BY <1>16, TellOtherQuiet
<1> QED BY <1>1, <1>2, <1>3, <1>4, <1>5, <1>6, <1>7, <1>8, <1>9, <1>10, <1>11, <1>12,
           <1>13, <1>14, <1>15, <1>16

-----------------------------------------------------------------------------
(* The story's row.                                                        *)

(* An append holds the lock, and the columns as they are.                  *)
Appending(p) == At(p, "append") => locked = p /\ Alike(req[p].story, story)
(* What a copy that is not stale says of the row.                          *)
Current(m) ==
  /\ m.op = "create" => m.story.visibility = story.visibility
  /\ m.op = "update" => m.story.exists = story.exists /\ m.story.status = story.status
StoryInv ==
  /\ ~story.exists => story = NoStory
  /\ \A p \in Procs : Appending(p)
  /\ ~disturbed => \A p \in Procs : ~req[p].stale => Current(req[p])
  /\ StoryAsSaved

LEMMA QuietKeeps ==
  ASSUME Typing, StoryInv, NEW p \in Procs, NEW m, Moves(p, m), Grows(p), KeepsStory(p, m)
  PROVE  StoryInv'
<1>1. /\ \A q \in Procs \ {p} : Same(req'[q], req[q])
      /\ req'[p] = m
  BY DEF Moves
<1>2. Alike(story', story) /\ (story' = story \/ story'.exists) /\ asked' = asked
      /\ (disturbed => disturbed')
  BY DEF KeepsStory, Grows
<1>3. (~story.exists => story = NoStory)'
  BY <1>2 DEF StoryInv, Alike, NoStory
<1>4. ASSUME NEW q \in Procs PROVE Appending(q)'
  <2>1. CASE q = p
    <3>1. m.pc = "append" => locked' = p /\ Alike(m.story, story)
      BY DEF KeepsStory
    <3>2. req'[q] = m
      BY <1>1, <2>1
    <3> QED BY <1>2, <2>1, <3>1, <3>2 DEF Appending, At, Alike
  <2>2. CASE q # p
    <3>1. Same(req'[q], req[q]) /\ Appending(q)
      BY <1>1, <2>2 DEF StoryInv
    <3>2. At(q, "append") /\ locked = q => locked' = q
      BY <2>2 DEF KeepsStory
    <3> QED BY <1>2, <3>1, <3>2 DEF Appending, At, Alike, Same
  <2> QED BY <2>1, <2>2
<1>5. ASSUME ~disturbed', NEW q \in Procs, ~req'[q].stale PROVE Current(req[q])'
  <2>1. \A x \in Procs : ~req[x].stale => Current(req[x])
    BY <1>2, <1>5 DEF StoryInv
  <2>2. CASE q = p
    <3>1. /\ m.op = "create" => /\ req[p].op = "create"
                                /\ m.story.visibility = req[p].story.visibility
                                /\ m.stale = req[p].stale
          /\ m.op = "update" => m.story.exists = story.exists /\ m.story.status = story.status
      BY DEF KeepsStory
    <3>2. req'[q] = m
      BY <1>1, <2>2
    <3> QED BY <1>2, <1>5, <2>1, <3>1, <3>2 DEF Current, Alike
  <2>3. CASE q # p
    <3>1. Same(req'[q], req[q])
      BY <1>1, <2>3
    <3>2. ~req[q].stale
      BY <1>5, <2>3 DEF Grows
    <3> QED BY <1>2, <2>1, <3>1, <3>2 DEF Current, Alike, Same
  <2> QED BY <2>2, <2>3
<1>6. StoryAsSaved'
  <2> SUFFICES ASSUME ~disturbed'
               PROVE  /\ story'.visibility = asked'
                      /\ story'.status = "PROCESSING" /\ story'.exists =>
                           \E q \in Procs : req'[q].op = "create"
    BY DEF StoryAsSaved
  <2>1. /\ story.visibility = asked
        /\ story.status = "PROCESSING" /\ story.exists =>
             \E q \in Procs : req[q].op = "create"
    BY <1>2 DEF StoryInv, StoryAsSaved
  <2>2. ASSUME NEW q \in Procs, req[q].op = "create" PROVE req'[q].op = "create"
    <3>1. req[p].op = "create" => m.op = "create"
      BY DEF KeepsStory
    <3> QED BY <1>1, <2>2, <3>1 DEF Same
  <2> QED BY <1>2, <2>1, <2>2 DEF Alike
<1> QED BY <1>3, <1>4, <1>5, <1>6 DEF StoryInv

(* A new story.                                                            *)
LEMMA IdsBounded ==
  \A s \in Paragraph : \E n \in Nat : \A w \in Range(s) : w.id \in 0..n
<1> DEFINE Bounded(s) == \E n \in Nat : \A w \in Range(s) : w.id \in 0..n
           G == {s \in Seq(Word) : Bounded(s)}
<1>1. <<>> \in G
  <2>1. <<>> \in Seq(Word) /\ Range(<<>>) = {} /\ 0 \in Nat
    BY DEF Range
  <2> QED BY <2>1
<1>2. ASSUME NEW s \in Seq(Word), NEW e \in Word, s \in G PROVE Append(s, e) \in G
  <2>1. PICK n \in Nat : \A w \in Range(s) : w.id \in 0..n
    BY <1>2
  <2>2. Range(Append(s, e)) = Range(s) \cup {e} /\ Append(s, e) \in Seq(Word)
    BY RangeAppend, AppendProperties
  <2>3. e.id \in Nat
    BY DEF Word
  <2> DEFINE k == n + e.id
  <2>4. k \in Nat /\ e.id \in 0..k /\ \A i \in 0..n : i \in 0..k
    BY <2>3
  <2> HIDE DEF k
  <2>5. \A w \in Range(Append(s, e)) : w.id \in 0..k
    BY <2>1, <2>2, <2>4
  <2>6. Bounded(Append(s, e))
    BY <2>4, <2>5
  <2> QED BY <2>2, <2>6
<1> HIDE DEF G
<1>3. \A s \in Seq(Word) : s \in G
  BY <1>1, <1>2, SequenceInduction
<1> QED BY <1>3 DEF G, Paragraph

LEMMA CreateStep ==
  ASSUME Typing, StoryInv, NEW p \in Procs, Create(p)
  PROVE  (\E m : Effect(p, m)) /\ StoryInv'
<1>1. PICK t \in FirstTexts :
        /\ Ready(p, "create") /\ ~story.exists /\ pages = {}
        /\ \A q \in Procs : At(q, "idle")
        /\ story' = [NoStory EXCEPT !.exists = TRUE, !.text = t]
        /\ Resume(p, [Started(p, "create", "pages") EXCEPT !.story = story', !.parts = Sections(t)])
        /\ words' = Max({words} \cup {w.id : w \in Range(Words(t))})
        /\ UNCHANGED <<pages, locked, disturbed, rowIds>> /\ shareSame
  BY Zenon DEF Create
<1> DEFINE b == Started(p, "create", "pages")
           c == [NoStory EXCEPT !.exists = TRUE, !.text = t]
           parts == Sections(t)
           m == [b EXCEPT !.story = c, !.parts = parts]
<1>2. /\ Scalars /\ rowIds \in Nat /\ words \in Nat /\ Rows(pages, rowIds)
      /\ \A q \in Procs : Controlled(req[q])
  BY DEF Typing, Scalars
<1>3. t \in Text
  BY PagesAssumption
<1>4. /\ c \in StoryRow /\ c.exists /\ c.visibility = NoStory.visibility
      /\ NoStory.visibility \in {"PRIVATE", "SHARED"}
  BY <1>3 DEF NoStory, StoryRow, Text
<1>5. parts \in Seq(Text)
  BY <1>3, SectionsTyped
<1>6. Resume(p, m) /\ story' = c
  BY <1>1
<1>7. b \in Request /\ b.pc = "pages" /\ b.op = "create" /\ b.pages = <<>>
  <2>1. "create" \in OpNames /\ "pages" \in Steps
    BY DEF OpNames, Steps
  <2> QED BY <2>1, StartedTyped
<1> HIDE DEF b, c, parts
<1>8. /\ m \in Request /\ m.pc = "pages" /\ m.op = "create" /\ m.pages = <<>>
      /\ m.story = c
  BY <1>4, <1>5, <1>7 DEF Request
<1> HIDE DEF m
<1>9. Moves(p, m) /\ \A q \in Procs \ {p} : req'[q] = req[q]
  BY <1>6, <1>8, ResumeMoves
<1>10. words' \in Nat
  <2> DEFINE ids == {words} \cup {w.id : w \in Range(Words(t))}
  <2>1. Words(t) \in Paragraph
    BY <1>3, WordsTyped
  <2>2. PICK n \in Nat : \A w \in Range(Words(t)) : w.id \in 0..n
    BY <2>1, IdsBounded
  <2> DEFINE k == n + words
  <2>3. k \in Nat /\ words \in 0..k /\ \A i \in 0..n : i \in 0..k
    BY <1>2
  <2> HIDE DEF k
  <2>4. ids \in SUBSET (0..k) /\ ids # {}
    BY <2>2, <2>3
  <2>5. words' = Max(ids)
    BY <1>1
  <2> HIDE DEF ids
  <2>6. Max(ids) \in ids
    BY <2>3, <2>4, MaxOf
  <2>7. \A i \in ids : i \in Nat
    BY <2>3, <2>4
  <2> QED BY <2>5, <2>6, <2>7, Zenon
<1>11. /\ UNCHANGED <<pages, locked, disturbed, rowIds>> /\ shareSame /\ At(p, "idle")
       /\ ~story.exists
  BY <1>1 DEF Ready
<1>12. Scalars'
  BY <1>2, <1>4, <1>6, <1>10, <1>11 DEF Scalars, shareSame
<1>13. Controlled(m)
  BY <1>4, <1>8 DEF Controlled
<1>14. Copies(m.pages, rowIds') /\ rowIds <= rowIds' /\ Rows(pages', rowIds')
  BY <1>2, <1>8, <1>11, EmptyCopies
<1>15. Tells(p, m)
  BY <1>8, <1>11 DEF Tells, At, shareSame
<1>16. Effect(p, m)
  <2>1. Grows(p)
    BY <1>9, <1>11 DEF Grows
  <2> QED BY <1>9, <1>12, <1>13, <1>14, <1>15, <2>1 DEF Effect
<1>17. \A q \in Procs \ {p} : req'[q].pc = "idle" /\ req'[q].op \notin {"create", "update"}
  <2>1. \A q \in Procs : req[q].pc = "idle" /\ Controlled(req[q])
    BY <1>1, <1>2 DEF At
  <2> QED BY <1>9, <2>1 DEF Controlled
<1>18. req'[p] = m
  BY <1>9 DEF Moves
<1>19. \A q \in Procs : Appending(q)'
  BY <1>8, <1>17, <1>18 DEF Appending, At
<1>20. \A q \in Procs : Current(req[q])'
  <2>1. \A q \in Procs \ {p} : Current(req[q])'
    BY <1>17 DEF Current
  <2>2. Current(req[p])'
    BY <1>6, <1>8, <1>18 DEF Current
  <2> QED BY <2>1, <2>2
<1>21. StoryAsSaved'
  <2>1. story = NoStory
    BY <1>11 DEF StoryInv
  <2>2. ~disturbed => asked' = NoStory.visibility
    BY <1>11, <2>1 DEF StoryInv, StoryAsSaved, shareSame
  <2>3. disturbed' = disturbed /\ story'.visibility = NoStory.visibility
    BY <1>4, <1>6, <1>11
  <2>4. \E q \in Procs : req'[q].op = "create"
    BY <1>8, <1>18
  <2> QED BY <2>2, <2>3, <2>4 DEF StoryAsSaved
<1>22. StoryInv'
  <2>1. (~story.exists => story = NoStory)'
    BY <1>4, <1>6
  <2> QED BY <1>19, <1>20, <1>21, <2>1 DEF StoryInv
<1> QED BY <1>16, <1>22, Zenon

(* An idle or finished request neither creates nor updates.                *)
LEMMA Unmarked ==
  ASSUME Typing, NEW p \in Procs, NEW q \in Procs, ~Marks(p, q)
  PROVE  \/ req[q].op \notin {"create", "update"}
         \/ req[q].op \in Unaffected(req[p].op)
<1>1. Controlled(req[q])
  BY DEF Typing
<1> QED BY <1>1 DEF Controlled, Marks

LEMMA SaveStoryStep ==
  ASSUME Typing, StoryInv, NEW p \in Procs, SaveStory(p)
  PROVE  (\E m : Effect(p, m)) /\ StoryInv'
<1>1. /\ At(p, "save") /\ StoryUnlocked(p) /\ story' = req[p].story
      /\ asked' = IF req[p].op = "update" THEN story'.visibility ELSE asked
      /\ Commit(p, Done)
      /\ UNCHANGED <<pages, share, locked, words, granted, told, rowIds>>
  BY DEF SaveStory
<1>2. /\ Scalars /\ rowIds \in Nat /\ Rows(pages, rowIds) /\ req[p] \in Request
      /\ \A q \in Procs : Controlled(req[q])
  BY DEF Typing, Scalars
<1>3. /\ req[p].pc = "save" /\ req[p].op \in {"create", "update"} /\ req[p].story.exists
      /\ req[p].op = "create" => req[p].story.status # "PROCESSING"
      /\ req[p].story \in StoryRow
  BY <1>1, <1>2 DEF At, Controlled, Request
<1>4. /\ Moves(p, Done)
      /\ \A q \in Procs \ {p} : req'[q].stale <=> req[q].stale \/ Marks(p, q)
      /\ disturbed' = (disturbed \/ req[p].stale) /\ disturbed' \in BOOLEAN
  BY <1>1, DoneTyped, CommitMoves
<1>5. story'.visibility \in {"PRIVATE", "SHARED"}
  BY <1>1, <1>3 DEF StoryRow
<1>6. Scalars'
  BY <1>1, <1>2, <1>3, <1>4, <1>5 DEF Scalars
<1>7. Copies(Done.pages, rowIds') /\ rowIds <= rowIds' /\ Rows(pages', rowIds')
  BY <1>1, <1>2, DoneTyped
<1>8. Tells(p, Done)
  BY <1>1, <1>3, DoneTyped DEF Tells
<1>9. Effect(p, Done)
  <2>1. Grows(p)
    BY <1>4 DEF Grows
  <2> QED BY <1>4, <1>6, <1>7, <1>8, <2>1, DoneTyped DEF Effect
<1>10. req'[p] = Done /\ \A q \in Procs \ {p} : Same(req'[q], req[q])
  BY <1>4 DEF Moves
<1>11. ASSUME NEW q \in Procs PROVE Appending(q)'
  <2>1. req'[q].pc # "append"
    <3>1. CASE q = p
      BY <1>10, <3>1, DoneTyped
    <3>2. CASE q # p
      <4>1. req[q].pc = "append" => locked = q
        BY DEF StoryInv, Appending, At
      <4>2. locked # q
        BY <1>1, <3>2, PagesAssumption DEF StoryUnlocked
      <4> QED BY <1>10, <3>2, <4>1, <4>2 DEF Same
    <3> QED BY <3>1, <3>2
  <2> QED BY <2>1 DEF Appending, At
<1>12. ASSUME ~disturbed', NEW q \in Procs, ~req'[q].stale PROVE Current(req[q])'
  <2>1. CASE q = p
    BY <1>10, <2>1, DoneTyped DEF Current
  <2>2. CASE q # p
    <3>1. Same(req'[q], req[q]) /\ ~req[q].stale /\ ~Marks(p, q)
      BY <1>4, <1>10, <1>12, <2>2
    <3>2. ~disturbed /\ ~req[p].stale
      BY <1>4, <1>12
    <3>3. Current(req[p]) /\ Current(req[q])
      BY <3>1, <3>2 DEF StoryInv
    <3>4. CASE req[q].op \notin {"create", "update"}
      BY <3>1, <3>4 DEF Current, Same
    <3>5. CASE req[q].op \in Unaffected(req[p].op)
      <4>1. req[p].op = "update" /\ req[q].op # "create"
        BY <1>3, <3>5 DEF Unaffected
      <4>2. story'.exists = story.exists /\ story'.status = story.status
        BY <1>1, <3>3, <4>1 DEF Current
      <4> QED BY <3>1, <3>3, <4>1, <4>2 DEF Current, Same
    <3> QED BY <3>1, <3>4, <3>5, Unmarked
  <2> QED BY <2>1, <2>2
<1>13. StoryAsSaved'
  <2> SUFFICES ASSUME ~disturbed'
               PROVE  /\ story'.visibility = asked'
                      /\ story'.status = "PROCESSING" /\ story'.exists =>
                           \E q \in Procs : req'[q].op = "create"
    BY DEF StoryAsSaved
  <2>1. ~disturbed /\ ~req[p].stale
    BY <1>4
  <2>2. Current(req[p])
    BY <2>1 DEF StoryInv
  <2>3. /\ story.visibility = asked
        /\ story.status = "PROCESSING" /\ story.exists =>
             \E q \in Procs : req[q].op = "create"
    BY <2>1 DEF StoryInv, StoryAsSaved
  <2>4. CASE req[p].op = "create"
    BY <1>1, <1>3, <2>2, <2>3, <2>4 DEF Current
  <2>5. CASE req[p].op = "update"
    <3>1. \A q \in Procs : req[q].op = "create" => req'[q].op = "create"
      BY <1>10, <2>5 DEF Same
    <3> QED BY <1>1, <2>2, <2>3, <2>5, <3>1 DEF Current
  <2> QED BY <1>3, <2>4, <2>5
<1>14. (~story.exists => story = NoStory)'
  BY <1>1, <1>3
<1>15. StoryInv'
  BY <1>11, <1>12, <1>13, <1>14 DEF StoryInv
<1> QED BY <1>9, <1>15, Zenon

LEMMA TellingFinite ==
  Cardinality(Telling) \in Nat /\ IsFiniteSet(Telling)
<1>1. Telling \in SUBSET Procs
  BY DEF Telling
<1>2. IsFiniteSet(Telling)
  BY <1>1, PagesAssumption, FS_Subset
<1> QED BY <1>2, FS_CardinalityType

LEMMA DeleteStoryStep ==
  ASSUME Typing, StoryInv, NEW p \in Procs, DeleteStory(p)
  PROVE  (\E m : Effect(p, m)) /\ StoryInv'
<1>1. /\ Scalars /\ rowIds \in Nat /\ words \in Nat /\ Rows(pages, rowIds)
      /\ req[p] \in Request /\ \A q \in Procs : Controlled(req[q])
  BY DEF Typing, Scalars
<1>2. /\ At(p, "delete") /\ req[p].pc = "delete" /\ req[p].op = "remove"
      /\ UNCHANGED <<locked, words, rowIds>>
  BY <1>1 DEF DeleteStory, At, Controlled
<1>3. Copies(Done.pages, rowIds') /\ rowIds <= rowIds' /\ words' \in Nat
  BY <1>1, <1>2, DoneTyped
<1>4. CASE /\ StoryUnlocked(p)
           /\ story' = NoStory /\ pages' = {} /\ share' = FALSE
           /\ asked' = NoStory.visibility /\ told' = 0 /\ granted' = Cardinality(Telling)
           /\ Commit(p, Done)
  <2>1. /\ Moves(p, Done)
        /\ \A q \in Procs \ {p} : req'[q].stale <=> req[q].stale \/ Marks(p, q)
        /\ disturbed' = (disturbed \/ req[p].stale) /\ disturbed' \in BOOLEAN
    BY <1>4, DoneTyped, CommitMoves
  <2>2. NoStory \in StoryRow /\ NoStory.visibility \in {"PRIVATE", "SHARED"} /\ ~NoStory.exists
    BY DEF NoStory, StoryRow, Text
  <2>3. granted' \in Nat /\ told' \in Nat
    BY <1>4, TellingFinite
  <2>4. Scalars'
    BY <1>1, <1>2, <1>4, <2>1, <2>2, <2>3 DEF Scalars
  <2>5. Rows(pages', rowIds')
    BY <1>4, FS_EmptySet DEF Rows
  <2>6. Tells(p, Done)
    BY <1>2, <1>4, DoneTyped DEF Tells
  <2>7. Effect(p, Done)
    <3>1. Grows(p)
      BY <2>1 DEF Grows
    <3> QED BY <1>3, <2>1, <2>4, <2>5, <2>6, <3>1, DoneTyped DEF Effect
  <2>8. req'[p] = Done /\ \A q \in Procs \ {p} : Same(req'[q], req[q])
    BY <2>1 DEF Moves
  <2>9. ASSUME NEW q \in Procs PROVE Appending(q)'
    <3>1. req'[q].pc # "append"
      <4>1. CASE q = p
        BY <2>8, <4>1, DoneTyped
      <4>2. CASE q # p
        <5>1. req[q].pc = "append" => locked = q
          BY DEF StoryInv, Appending, At
        <5>2. locked # q
          BY <1>4, <4>2, PagesAssumption DEF StoryUnlocked
        <5> QED BY <2>8, <4>2, <5>1, <5>2 DEF Same
      <4> QED BY <4>1, <4>2
    <3> QED BY <3>1 DEF Appending, At
  <2>10. ASSUME NEW q \in Procs, ~req'[q].stale PROVE Current(req[q])'
    <3>1. req'[q].op \notin {"create", "update"}
      <4>1. CASE q = p
        BY <2>8, <4>1, DoneTyped
      <4>2. CASE q # p
        <5>1. Same(req'[q], req[q]) /\ ~Marks(p, q)
          BY <2>1, <2>8, <2>10, <4>2
        <5>2. req[q].op \in Unaffected(req[p].op) => req[q].op \notin {"create", "update"}
          BY <1>2 DEF Unaffected
        <5> QED BY <5>1, <5>2, Unmarked DEF Same
      <4> QED BY <4>1, <4>2
    <3> QED BY <3>1 DEF Current
  <2>11. StoryAsSaved'
    BY <1>4, <2>2 DEF StoryAsSaved
  <2>12. StoryInv'
    BY <1>4, <2>9, <2>10, <2>11 DEF StoryInv
  <2> QED BY <2>7, <2>12, Zenon
<1>5. CASE /\ ~StoryUnlocked(p) /\ Finish(p)
           /\ UNCHANGED <<story, pages, disturbed>> /\ shareSame
  <2>1. Tells(p, Done)
    BY <1>2, <1>5, DoneTyped DEF Tells, shareSame
  <2>2. /\ share' \in BOOLEAN /\ granted' \in Nat /\ told' \in Nat /\ asked' = asked
    BY <1>1, <1>5 DEF Scalars, shareSame
  <2>3. Copies(Done.pages, rowIds) /\ Resume(p, Done)
    BY <1>1, <1>5, DoneTyped DEF Finish
  <2>4. Quiet(p)
    BY <1>2, <1>3, <1>5, <2>1, <2>2, <2>3, DoneTyped, ReadQuiet
  <2>5. PICK m : Effect(p, m) /\ KeepsStory(p, m)
    BY <2>4, Zenon DEF Quiet
  <2>6. Moves(p, m) /\ Grows(p)
    BY <2>5 DEF Effect
  <2>7. StoryInv'
    BY <2>5, <2>6, QuietKeeps
  <2> QED BY <2>5, <2>7, Zenon
<1> QED BY <1>4, <1>5 DEF DeleteStory

-----------------------------------------------------------------------------
(* The invariant, and the theorems.                                        *)

LEMMA NextSteps ==
  ASSUME Typing, StoryInv, NEW p \in Procs,
         \/ Create(p) \/ CreatePages(p) \/ LoadStory(p) \/ SaveStory(p)
         \/ LoadForRemove(p) \/ DeleteStory(p) \/ AppendRead(p) \/ AppendWrite(p)
         \/ FindPage(p) \/ ListForUpdate(p) \/ ListForDelete(p) \/ ReplaceRead(p)
         \/ ReplaceWrite(p) \/ CheckOrder(p) \/ WriteOrder(p) \/ LoadPage(p)
         \/ SaveImage(p) \/ CheckShare(p) \/ InsertShare(p) \/ TellOther(p)
         \/ FindShare(p) \/ RemoveShare(p)
  PROVE  (\E m : Effect(p, m)) /\ StoryInv'
<1>1. CASE Create(p)
  BY <1>1, CreateStep
<1>2. CASE SaveStory(p)
  BY <1>2, SaveStoryStep
<1>3. CASE DeleteStory(p)
  BY <1>3, DeleteStoryStep
<1>4. CASE \/ CreatePages(p) \/ LoadStory(p) \/ LoadForRemove(p) \/ AppendRead(p) \/ AppendWrite(p)
           \/ FindPage(p) \/ ListForUpdate(p) \/ ListForDelete(p) \/ ReplaceRead(p)
           \/ ReplaceWrite(p) \/ CheckOrder(p) \/ WriteOrder(p) \/ LoadPage(p)
           \/ SaveImage(p) \/ CheckShare(p) \/ InsertShare(p) \/ TellOther(p)
           \/ FindShare(p) \/ RemoveShare(p)
  <2>1. At(p, "append") => Alike(req[p].story, story)
    BY DEF StoryInv, Appending
  <2>2. Quiet(p)
    BY <1>4, <2>1, QuietSteps
  <2>3. PICK m : Effect(p, m) /\ KeepsStory(p, m)
    BY <2>2, Zenon DEF Quiet
  <2>4. Moves(p, m) /\ Grows(p)
    BY <2>3 DEF Effect
  <2>5. StoryInv'
    BY <2>3, <2>4, QuietKeeps
  <2> QED BY <2>3, <2>5, Zenon
<1> QED BY <1>1, <1>2, <1>3, <1>4

LEMMA Announced ==
  ASSUME Typing, AnnouncedOnce, NEW p \in Procs, NEW m, Effect(p, m)
  PROVE  AnnouncedOnce'
<1> DEFINE T == {q \in Procs : req[q].pc = "tell"}
           U == {q \in Procs : req'[q].pc = "tell"}
           k == Cardinality(T)
           n == Cardinality(U)
<1>1. Telling = T /\ Telling' = U
  BY DEF Telling, At
<1>2. IsFiniteSet(T) /\ k \in Nat
  BY <1>1, TellingFinite
<1>3. told + k = granted /\ told \in Nat /\ granted \in Nat
  BY <1>1 DEF AnnouncedOnce, Typing, Scalars
<1>4. req'[p] = m /\ \A q \in Procs \ {p} : req'[q].pc = req[q].pc
  BY DEF Effect, Moves, Same
<1>5. CASE req[p].pc # "tell" /\ m.pc # "tell"
  <2>1. U = T
    BY <1>4, <1>5
  <2>2. n = k
    BY <2>1
  <2>3. \/ granted' = granted /\ told' = told
        \/ granted' = k /\ told' = 0
    BY <1>1, <1>5 DEF Effect, Tells
  <2> HIDE DEF k, n
  <2>4. told' + n = granted'
    BY <1>2, <1>3, <2>2, <2>3
  <2> QED BY <1>1, <2>4 DEF AnnouncedOnce, n
<1>6. CASE req[p].pc # "tell" /\ m.pc = "tell"
  <2>1. U = T \cup {p} /\ p \notin T
    BY <1>4, <1>6
  <2>2. n = k + 1
    BY <1>2, <2>1, FS_AddElement
  <2>3. granted' = granted + 1 /\ told' = told
    BY <1>6 DEF Effect, Tells
  <2> HIDE DEF k, n
  <2>4. told' + n = granted'
    BY <1>2, <1>3, <2>2, <2>3
  <2> QED BY <1>1, <2>4 DEF AnnouncedOnce, n
<1>7. CASE req[p].pc = "tell" /\ m.pc # "tell"
  <2>1. U = T \ {p} /\ p \in T
    BY <1>4, <1>7
  <2>2. n = k - 1
    BY <1>2, <2>1, FS_RemoveElement
  <2>3. granted' = granted /\ told' = told + 1
    BY <1>7 DEF Effect, Tells
  <2> HIDE DEF k, n
  <2>4. told' + n = granted'
    BY <1>2, <1>3, <2>2, <2>3
  <2> QED BY <1>1, <2>4 DEF AnnouncedOnce, n
<1> QED BY <1>5, <1>6, <1>7 DEF Effect, Tells

(* Rows, copies and control are typed, the story's row is as it was last   *)
(* saved, and the notifications are those that were due.                   *)
PagesInv == Typing /\ StoryInv /\ AnnouncedOnce

LEMMA PagesInit ==
  ASSUME Init
  PROVE  PagesInv
<1>1. /\ story = NoStory /\ pages = {} /\ share = FALSE /\ locked = None
      /\ req = [p \in Procs |-> Idle] /\ words = 0 /\ rowIds = 0 /\ disturbed = FALSE
      /\ asked = NoStory.visibility /\ granted = 0 /\ told = 0
  BY DEF Init
<1>2. NoStory \in StoryRow /\ NoStory.visibility \in {"PRIVATE", "SHARED"} /\ ~NoStory.exists
  BY DEF NoStory, StoryRow, Text
<1>3. Idle \in Request /\ Idle.op = "none" /\ Idle.pc = "idle" /\ Idle.pages = <<>>
  <2>1. <<>> \in Text /\ <<>> \in Seq(Row) /\ <<>> \in Seq(Text)
    BY DEF Text
  <2> QED BY <1>2, <2>1 DEF Idle, Request, Steps, OpNames
<1>4. \A p \in Procs : req[p] = Idle
  BY <1>1
<1>5. Scalars
  BY <1>1, <1>2 DEF Scalars
<1>6. Rows(pages, rowIds)
  BY <1>1, FS_EmptySet DEF Rows
<1>7. Controlled(Idle)
  BY <1>3 DEF Controlled
<1>8. Copies(Idle.pages, rowIds)
  BY <1>3, <1>5, EmptyCopies DEF Scalars
<1>9. Typing
  BY <1>1, <1>3, <1>4, <1>5, <1>6, <1>7, <1>8 DEF Typing
<1>10. StoryInv
  BY <1>1, <1>2, <1>3, <1>4 DEF StoryInv, Appending, Current, At, StoryAsSaved
<1>11. AnnouncedOnce
  <2>1. Telling = {}
    BY <1>3, <1>4 DEF Telling, At
  <2>2. Cardinality(Telling) = 0
    BY <2>1, FS_EmptySet
  <2> QED BY <1>1, <2>2 DEF AnnouncedOnce
<1> QED BY <1>9, <1>10, <1>11 DEF PagesInv

LEMMA PagesNext ==
  ASSUME PagesInv, [Next]_vars
  PROVE  PagesInv'
<1>1. CASE Next
  <2>1. PICK p \in Procs :
          \/ Create(p) \/ CreatePages(p) \/ LoadStory(p) \/ SaveStory(p)
          \/ LoadForRemove(p) \/ DeleteStory(p) \/ AppendRead(p) \/ AppendWrite(p)
          \/ FindPage(p) \/ ListForUpdate(p) \/ ListForDelete(p) \/ ReplaceRead(p)
          \/ ReplaceWrite(p) \/ CheckOrder(p) \/ WriteOrder(p) \/ LoadPage(p)
          \/ SaveImage(p) \/ CheckShare(p) \/ InsertShare(p) \/ TellOther(p)
          \/ FindShare(p) \/ RemoveShare(p)
    BY <1>1, Zenon DEF Next
  <2>2. (\E m : Effect(p, m)) /\ StoryInv'
    BY <2>1, NextSteps DEF PagesInv
  <2>3. PICK m : Effect(p, m)
    BY <2>2
  <2>4. Typing'
    BY <2>3, TypingStep DEF PagesInv, Effect
  <2>5. AnnouncedOnce'
    BY <2>3, Announced DEF PagesInv
  <2> QED BY <2>2, <2>4, <2>5 DEF PagesInv
<1>2. CASE UNCHANGED vars
  BY <1>2 DEF vars, PagesInv, Typing, Scalars, Rows, Depicted, Copies, Controlled, StoryInv,
              Appending, Current, Alike, At, StoryAsSaved, AnnouncedOnce, Telling
<1> QED BY <1>1, <1>2

(* Whatever requests run beside each other, the invariant holds.           *)
THEOREM PagesInvariant == Spec => []PagesInv
BY PagesInit, PagesNext, PTL DEF Spec

(* The rows of the pages have different ids, and they and the columns of   *)
(* the story and of the share hold what they are declared to.              *)
THEOREM PagesTyped == Spec => []TypeOK
<1>1. ASSUME PagesInv PROVE TypeOK
  <2>1. Scalars /\ Rows(pages, rowIds)
    BY <1>1 DEF PagesInv, Typing
  <2>2. \A r \in pages : /\ DOMAIN r = {"id", "number", "text", "image"}
                         /\ r.id \in 1..rowIds /\ r.number \in Nat \ {0}
                         /\ r.text \in Text /\ r.image \in Text
    BY <2>1 DEF Rows, Row
  <2> QED BY <2>1, <2>2 DEF TypeOK, Scalars, Rows
<1> QED BY <1>1, PagesInvariant, PTL

(* An illustration is of the text that its page has, whoever saved over    *)
(* whom (story.service.ts:905-915).                                        *)
THEOREM ImagesDepictTheirText == Spec => []ImageDepictsText
<1>1. ASSUME PagesInv PROVE ImageDepictsText
  BY <1>1 DEF PagesInv, Typing, Rows, Depicted, ImageDepictsText
<1> QED BY <1>1, PagesInvariant, PTL

(* As long as no request has saved over what it had not seen, the          *)
(* visibility is the one last set and a story in PROCESSING is being       *)
(* created (story.service.ts:116-127, 546, 771, 1148).                     *)
THEOREM StoriesAreAsSaved == Spec => []StoryAsSaved
<1>1. ASSUME PagesInv PROVE StoryAsSaved
  BY <1>1 DEF PagesInv, StoryInv
<1> QED BY <1>1, PagesInvariant, PTL

(* Each share that is granted is announced once, however many requests     *)
(* grant and withdraw it (story.service.ts:1189-1226).                     *)
THEOREM SharesAreAnnouncedOnce == Spec => []AnnouncedOnce
<1>1. ASSUME PagesInv PROVE AnnouncedOnce
  BY <1>1 DEF PagesInv
<1> QED BY <1>1, PagesInvariant, PTL

-----------------------------------------------------------------------------
(* The numbers of the pages.                                               *)

Sequential(s) ==
  /\ \A r, q \in s : r.number = q.number => r = q
  /\ \A r \in s : r.number <= Cardinality(s)

LEMMA SequentialNumbers ==
  ASSUME NEW n \in Nat, NEW s, Rows(s, n), Sequential(s)
  PROVE  /\ {r.number : r \in s} = 1..Cardinality(s) /\ Cardinality(s) \in Nat
         /\ \A r \in s : r.number \in 1..Cardinality(s)
<1> DEFINE k == Cardinality(s)
           f == [r \in s |-> r.number]
<1>1. IsFiniteSet(s) /\ k \in Nat /\ \A r \in s : r.number \in Nat \ {0} /\ r.number <= k
  BY FS_CardinalityType DEF Rows, Row, Sequential
<1> HIDE DEF k
<1>2. \A r \in s : r.number \in 1..k
  BY <1>1
<1>3. f \in Injection(s, 1..k)
  BY <1>2 DEF Injection, IsInjective, Sequential
<1>4. IsFiniteSet(1..k) /\ Cardinality(1..k) = k
  BY <1>1, FS_Interval
<1>5. f \in Surjection(s, 1..k)
  BY <1>3, <1>4, FS_Injection DEF k
<1>6. \A i \in 1..k : \E r \in s : r.number = i
  BY <1>5 DEF Surjection
<1>7. {r.number : r \in s} = 1..k
  BY <1>2, <1>6
<1> QED BY <1>1, <1>2, <1>7 DEF k

(* A list of pages that are numbered 1..n has each at its number.          *)
LEMMA SequentialListed ==
  ASSUME NEW n \in Nat, NEW s, Rows(s, n), Sequential(s), NEW l \in Listed(s)
  PROVE  \A i \in 1..Len(l) : l[i].number = i
<1>1. PICK R : /\ Orders(s, R) /\ InOrder(l, s, R)
               /\ \A q, r \in s : q.number < r.number => <<q, r>> \in R
  BY ListedInOrder, Zenon
<1> DEFINE k == Cardinality(s)
<1>2. /\ k \in Nat /\ \A r \in s : r.number \in 1..k
      /\ \A i \in 1..k : \E r \in s : r.number = i
  <2>1. /\ {r.number : r \in s} = 1..k /\ k \in Nat
        /\ \A r \in s : r.number \in 1..k
    BY SequentialNumbers
  <2> QED BY <2>1
<1>3. /\ Len(l) = k /\ \A i \in 1..Len(l) : l[i] \in s
  BY ListedCopies
<1>4. IsFiniteSet(s)
  BY DEF Rows
<1> HIDE DEF k
<1>5. ASSUME NEW r \in s PROVE Rank(s, R)[r] = r.number - 1
  <2> DEFINE B == {q \in s : <<q, r>> \in R}
             c == r.number
             g == [q \in B |-> q.number]
  <2>1. \A q \in s : <<q, r>> \in R <=> q.number < c
    <3>1. ASSUME NEW q \in s, <<q, r>> \in R PROVE q.number < c
      <4>1. q # r
        BY <1>1, <3>1 DEF Orders
      <4>2. q.number # c
        BY <4>1 DEF Sequential
      <4>3. ~(c < q.number)
        <5> SUFFICES ASSUME c < q.number PROVE FALSE
          OBVIOUS
        <5>1. <<r, q>> \in R
          BY <1>1
        <5>2. <<r, r>> \in R
          BY <1>1, <3>1, <5>1 DEF Orders
        <5> QED BY <1>1, <5>2 DEF Orders
      <4>4. q.number \in Int /\ c \in Int
        BY <1>2
      <4> QED BY <4>2, <4>3, <4>4
    <3> QED BY <1>1, <3>1
  <2>2. c \in 1..k
    BY <1>2
  <2> HIDE DEF c
  <2>3. \A q \in B : q \in s /\ q.number \in 1..(c - 1)
    BY <1>2, <2>1, <2>2
  <2>4. \A q, x \in B : q.number = x.number => q = x
    BY DEF Sequential
  <2>5. \A i \in 1..(c - 1) : \E q \in B : q.number = i
    <3> SUFFICES ASSUME NEW i \in 1..(c - 1) PROVE \E q \in B : q.number = i
      OBVIOUS
    <3>1. i \in 1..k /\ i < c
      BY <1>2, <2>2
    <3>2. PICK q \in s : q.number = i
      BY <1>2, <3>1
    <3>3. q \in B
      BY <2>1, <3>1, <3>2
    <3> QED BY <3>2, <3>3
  <2>6. IsFiniteSet(B)
    <3>1. B \in SUBSET s
      OBVIOUS
    <3> QED BY <1>4, <3>1, FS_Subset
  <2>7. Rank(s, R)[r] = Cardinality(B)
    BY DEF Rank
  <2> HIDE DEF B
  <2>8. g \in Surjection(B, 1..(c - 1)) /\ g \in Injection(B, 1..(c - 1))
    <3>1. g \in [B -> 1..(c - 1)]
      BY <2>3
    <3>2. g \in Surjection(B, 1..(c - 1))
      BY <2>5, <3>1 DEF Surjection
    <3>3. g \in Injection(B, 1..(c - 1))
      BY <2>4, <3>1 DEF Injection, IsInjective
    <3> QED BY <3>2, <3>3
  <2>9. Cardinality(1..(c - 1)) = Cardinality(B)
    BY <2>6, <2>8, FS_Surjection
  <2>10. Cardinality(1..(c - 1)) = c - 1
    <3>1. 1 \in Int /\ c - 1 \in Int
      BY <1>2, <2>2
    <3>2. Cardinality(1..(c - 1)) = IF 1 > c - 1 THEN 0 ELSE (c - 1) - 1 + 1
      BY <3>1, FS_Interval
    <3> QED BY <1>2, <2>2, <3>2
  <2> QED BY <2>7, <2>9, <2>10 DEF c
<1>6. \A i \in 1..k : Rank(s, R)[l[i]] = i - 1
  BY <1>1, <1>3 DEF InOrder, k
<1>7. ASSUME NEW i \in 1..Len(l) PROVE l[i].number = i
  <2>1. l[i] \in s /\ i \in 1..k /\ l[i].number \in 1..k
    BY <1>2, <1>3
  <2>2. l[i].number - 1 = i - 1
    BY <1>5, <1>6, <2>1
  <2> QED BY <1>2, <2>1, <2>2
<1> QED BY <1>7

Known(l, id) == \E i \in 1..Len(l) : l[i].id = id

(* Pages that are written as 1..n, with no other page left, are in order.  *)
LEMMA WrittenInOrder ==
  ASSUME rowIds \in Nat, NEW s, NEW l, Copies(l, rowIds),
         \A i \in 1..Len(l) : l[i].number = i, \A r \in s : Known(l, r.id)
  PROVE  /\ Sequential(Saved(s, l)) /\ Cardinality(Saved(s, l)) = Len(l) /\ Len(l) \in Nat
         /\ \A r : r \in Saved(s, l) <=> \E i \in 1..Len(l) : r = Numbered(l)[i]
<1> DEFINE n == Len(l)
           m == Numbered(l)
           t == Range(m)
<1>1. /\ DOMAIN l = 1..n /\ n \in Nat /\ m \in Seq(Row) /\ Len(m) = n
      /\ \A i \in 1..n : m[i].number = l[i].number
  BY NumberedCopies
<1>2. Saved(s, l) = t
  <2>1. {r \in s : \A i \in DOMAIN l : l[i].id # r.id} = {}
    BY <1>1 DEF Known
  <2> QED BY <2>1 DEF Saved
<1> HIDE DEF m, n
<1>3. \A r : r \in t <=> \E i \in 1..n : r = m[i]
  BY <1>1, SequenceFinite
<1>4. \A i \in 1..n : m[i].number = i
  BY <1>1 DEF n
<1>5. m \in Surjection(1..n, t) /\ m \in Injection(1..n, t)
  <2>1. m \in [1..n -> t]
    <3>1. DOMAIN m = 1..n /\ m = [i \in 1..n |-> m[i]]
      BY <1>1, LenProperties
    <3> DEFINE g(i) == m[i]
    <3>2. m = [i \in 1..n |-> g(i)] /\ \A i \in 1..n : g(i) \in t
      BY <1>3, <3>1
    <3> HIDE DEF g, t
    <3> QED BY <3>2
  <2>2. \A r \in t : \E i \in 1..n : m[i] = r
    BY <1>3
  <2>3. \A i, j \in 1..n : m[i] = m[j] => i = j
    BY <1>4
  <2> QED BY <2>1, <2>2, <2>3 DEF Surjection, Injection, IsInjective
<1> HIDE DEF t
<1>6. IsFiniteSet(1..n) /\ Cardinality(1..n) = n
  BY <1>1, FS_Interval
<1>7. Cardinality(t) = n
  BY <1>5, <1>6, FS_Surjection
<1>8. Sequential(t)
  <2>1. \A r, q \in t : r.number = q.number => r = q
    BY <1>3, <1>4
  <2>2. \A r \in t : r.number <= n
    BY <1>1, <1>3, <1>4
  <2> QED BY <1>7, <2>1, <2>2 DEF Sequential
<1> QED BY <1>1, <1>2, <1>3, <1>7, <1>8 DEF n, m

(* Different rows have different ids.                                      *)
LEMMA KnownFew ==
  ASSUME NEW n \in Nat, NEW s, Rows(s, n), NEW l, Copies(l, n),
         \A i \in 1..Len(l) : \E r \in s : r.id = l[i].id
  PROVE  Len(l) <= Cardinality(s) /\ Cardinality(s) \in Nat /\ Len(l) \in Nat
<1> DEFINE k == Len(l)
           row(i) == CHOOSE r \in s : r.id = l[i].id
           f == [i \in 1..k |-> row(i)]
<1>1. k \in Nat
  BY LenProperties DEF Copies
<1>2. \A i \in 1..k : row(i) \in s /\ row(i).id = l[i].id
  OBVIOUS
<1> HIDE DEF row
<1>3. \A i \in 1..k : l[i].id # 0
  BY <1>2 DEF Rows
<1>4. \A i, j \in 1..k : l[i].id = l[j].id => i = j
  BY <1>3 DEF Copies
<1> HIDE DEF k
<1>5. f \in [1..k -> s] /\ \A i, j \in 1..k : f[i] = f[j] => i = j
  BY <1>2, <1>4
<1>6. f \in Injection(1..k, s)
  BY <1>5 DEF Injection, IsInjective
<1>7. IsFiniteSet(s) /\ Cardinality(s) \in Nat
  BY FS_CardinalityType DEF Rows
<1>8. Cardinality(1..k) <= Cardinality(s)
  BY <1>6, <1>7, FS_Injection
<1>9. Cardinality(1..k) = k
  <2>1. 1 \in Int /\ k \in Int
    BY <1>1
  <2>2. Cardinality(1..k) = IF 1 > k THEN 0 ELSE k - 1 + 1
    BY <2>1, FS_Interval
  <2> QED BY <1>1, <2>2
<1> QED BY <1>1, <1>7, <1>8, <1>9 DEF k

-----------------------------------------------------------------------------
(* What a copy that is not stale says of the rows.                         *)

(* append: the rows, each at its number, then new pages.                   *)
ToAppend(s, l) ==
  /\ \A i \in 1..Len(l) : l[i].number = i
  /\ \A r \in s : Known(l, r.id)
  /\ \A i \in 1..Len(l) : i <= Cardinality(s) => \E r \in s : r.id = l[i].id
  /\ \A i \in 1..Len(l) : i > Cardinality(s) => l[i].id = 0
(* reorder: those that were the rows; others have come after them.         *)
ToReorder(s, l) ==
  /\ \A i \in 1..Len(l) : \E r \in s : r.id = l[i].id
  /\ \A r \in s : r.number <= Len(l) <=> Known(l, r.id)
Holds(s, m) ==
  /\ m.pc = "pages" => s = {}
  /\ m.pc = "append" => ToAppend(s, m.pages)
  /\ m.pc = "replace" => \A r \in s : Known(m.pages, r.id)
  /\ m.pc = "reorder" => ToReorder(s, m.pages)
  /\ m.pc = "image" => \E r \in s : /\ r.id = m.pages[1].id
                                    /\ r.number = m.pages[1].number
(* An append and a reordering beside each other: the pages that are        *)
(* reordered are the first that append writes.                             *)
Together(a, b) ==
  a.pc = "append" /\ b.pc = "reorder" =>
    \A i \in 1..Len(a.pages) : i <= Len(b.pages) <=> Known(b.pages, a.pages[i].id)

Holding == {"pages", "append", "replace", "reorder", "image"}

NumberInv ==
  /\ ~story.exists => pages = {}
  /\ ~disturbed => /\ Sequential(pages)
                   /\ \A p \in Procs : ~req[p].stale => Holds(pages, req[p])
                   /\ \A p, q \in Procs :
                        ~req[p].stale /\ ~req[q].stale => Together(req[p], req[q])

(* What a step has to leave in order.                                      *)
InOrderAfter(p, m) ==
  /\ Sequential(pages')
  /\ \A q \in Procs \ {p} : ~req'[q].stale => Holds(pages', req[q])
  /\ ~m.stale => Holds(pages', m)
  /\ \A q \in Procs \ {p} :
       ~m.stale /\ ~req'[q].stale => Together(m, req[q]) /\ Together(req[q], m)

LEMMA NumberStep ==
  ASSUME NumberInv, NEW p \in Procs, NEW m, Moves(p, m), Grows(p),
         ~story'.exists => pages' = {},
         ~disturbed' => InOrderAfter(p, m)
  PROVE  NumberInv'
<1>1. req'[p] = m /\ \A q \in Procs \ {p} : Same(req'[q], req[q])
  BY DEF Moves
<1>2. ASSUME ~disturbed'
      PROVE  /\ Sequential(pages')
             /\ \A q \in Procs : ~req'[q].stale => Holds(pages', req'[q])
             /\ \A x, y \in Procs :
                  ~req'[x].stale /\ ~req'[y].stale => Together(req'[x], req'[y])
  <2>1. ~disturbed /\ InOrderAfter(p, m)
    BY <1>2 DEF Grows
  <2>2. ASSUME NEW q \in Procs, ~req'[q].stale PROVE Holds(pages', req'[q])
    <3>1. CASE q = p
      BY <1>1, <2>1, <2>2, <3>1 DEF InOrderAfter
    <3>2. CASE q # p
      <4>1. Holds(pages', req[q]) /\ req'[q].pc = req[q].pc /\ req'[q].pages = req[q].pages
        BY <1>1, <2>1, <2>2, <3>2 DEF InOrderAfter, Same
      <4> QED BY <4>1, Zenon DEF Holds
    <3> QED BY <3>1, <3>2
  <2>3. ASSUME NEW x \in Procs, NEW y \in Procs, ~req'[x].stale, ~req'[y].stale
        PROVE  Together(req'[x], req'[y])
    <3>1. \A q \in Procs \ {p} : req'[q].pc = req[q].pc /\ req'[q].pages = req[q].pages
      BY <1>1 DEF Same
    <3>2. CASE x = p /\ y = p
      BY <3>2 DEF Together
    <3>3. CASE x = p /\ y # p
      <4>1. Together(m, req[y])
        BY <1>1, <2>1, <2>3, <3>3 DEF InOrderAfter
      <4>2. req'[x] = m /\ req'[y].pc = req[y].pc /\ req'[y].pages = req[y].pages
        BY <1>1, <3>1, <3>3
      <4> QED BY <4>1, <4>2, Zenon DEF Together
    <3>4. CASE x # p /\ y = p
      <4>1. Together(req[x], m)
        BY <1>1, <2>1, <2>3, <3>4 DEF InOrderAfter
      <4>2. req'[y] = m /\ req'[x].pc = req[x].pc /\ req'[x].pages = req[x].pages
        BY <1>1, <3>1, <3>4
      <4> QED BY <4>1, <4>2, Zenon DEF Together
    <3>5. CASE x # p /\ y # p
      <4>1. ~req[x].stale /\ ~req[y].stale
        BY <2>3, <3>5 DEF Grows
      <4>2. Together(req[x], req[y])
        BY <2>1, <4>1 DEF NumberInv
      <4>3. /\ req'[x].pc = req[x].pc /\ req'[x].pages = req[x].pages
            /\ req'[y].pc = req[y].pc /\ req'[y].pages = req[y].pages
        BY <3>1, <3>5
      <4> QED BY <4>2, <4>3, Zenon DEF Together
    <3> QED BY <3>2, <3>3, <3>4, <3>5
  <2> QED BY <2>1, <2>2, <2>3 DEF InOrderAfter
<1> QED BY <1>2 DEF NumberInv

(* Requests that hold no rows, or rows that are as they were.              *)
LEMMA HoldNothing ==
  ASSUME NEW s, NEW m, m.pc \notin Holding
  PROVE  Holds(s, m) /\ \A x : Together(m, x) /\ Together(x, m)
BY DEF Holds, Together, Holding

LEMMA PlainNumbers ==
  ASSUME NumberInv, NEW p \in Procs, NEW m, Moves(p, m), Grows(p),
         ~story'.exists => pages' = {}, pages' = pages,
         ~m.stale => /\ ~disturbed => Holds(pages, m)
                     /\ \A q \in Procs \ {p} : ~disturbed /\ ~req[q].stale =>
                          Together(m, req[q]) /\ Together(req[q], m)
  PROVE  NumberInv'
<1>1. ASSUME ~disturbed' PROVE InOrderAfter(p, m)
  <2>1. /\ ~disturbed /\ Sequential(pages)
        /\ \A q \in Procs : ~req[q].stale => Holds(pages, req[q])
    BY <1>1 DEF NumberInv, Grows
  <2>2. \A q \in Procs \ {p} : ~req'[q].stale => ~req[q].stale
    BY DEF Grows
  <2> QED BY <2>1, <2>2 DEF InOrderAfter
<1> QED BY <1>1, NumberStep

LEMMA Resumed ==
  ASSUME Typing, NEW p \in Procs, NEW x, Resume(p, x) \/ Commit(p, x)
  PROVE  req'[p] = x
BY DEF Typing, Resume, Commit

(* Steps after which the request holds no rows, and that write none.       *)
LEMMA PlainSteps ==
  ASSUME Typing, NEW p \in Procs,
         \/ LoadStory(p) \/ SaveStory(p) \/ LoadForRemove(p) \/ FindPage(p) \/ ListForUpdate(p)
         \/ ListForDelete(p) \/ CheckShare(p) \/ InsertShare(p) \/ TellOther(p)
         \/ FindShare(p) \/ RemoveShare(p)
  PROVE  /\ req'[p].pc \notin Holding /\ pages' = pages
         /\ story' = story \/ story'.exists
<1>1. \A op, pc : Started(p, op, pc) = [Idle EXCEPT !.op = op, !.pc = pc]
  BY DEF Started
<1>2. \A x : Resume(p, x) \/ Commit(p, x) => req'[p] = x
  BY Resumed
<1>3. Done.pc \notin Holding
  BY DoneTyped DEF Holding
<1>4. CASE LoadStory(p)
  <2>1. PICK v : Resume(p, [Started(p, "update", "save") EXCEPT
                              !.story = [story EXCEPT !.visibility = v]])
    BY <1>4, Zenon DEF LoadStory
  <2>2. req'[p].pc = "save"
    BY <1>2, <2>1 DEF Started, Idle
  <2> QED BY <1>4, <2>2 DEF LoadStory, Holding
<1>5. CASE SaveStory(p)
  <2>1. req'[p] = Done
    BY <1>2, <1>5 DEF SaveStory
  <2>2. story'.exists
    BY <1>5 DEF SaveStory, Typing, Controlled, At
  <2> QED BY <1>3, <1>5, <2>1, <2>2 DEF SaveStory
<1>6. CASE LoadForRemove(p)
  <2>1. req'[p].pc = "delete"
    BY <1>2, <1>6, ZenonT(30) DEF LoadForRemove, Started, Idle
  <2> QED BY <1>6, <2>1 DEF LoadForRemove, Holding
<1>7. CASE FindPage(p)
  <2>1. PICK i, t : Resume(p, [Started(p, "updatePage", "list") EXCEPT !.target = i, !.source = t])
    BY <1>7, Zenon DEF FindPage
  <2>2. req'[p].pc = "list"
    BY <1>2, <2>1 DEF Started, Idle
  <2> QED BY <1>7, <2>2 DEF FindPage, Holding
<1>8. \A op, t : Rewriting(p, op, t).pc = "current"
  BY DEF Rewriting, Started, Idle
<1>9. CASE ListForUpdate(p)
  <2>1. PICK t : Resume(p, Rewriting(p, "updatePage", t))
    BY <1>9, Zenon DEF ListForUpdate
  <2>2. req'[p].pc = "current"
    BY <1>2, <1>8, <2>1
  <2> QED BY <1>9, <2>2 DEF ListForUpdate, Holding
<1>10. CASE ListForDelete(p)
  <2>1. PICK t : Resume(p, Rewriting(p, "deletePage", t))
    BY <1>10, Zenon DEF ListForDelete
  <2>2. req'[p].pc = "current"
    BY <1>2, <1>8, <2>1
  <2> QED BY <1>10, <2>2 DEF ListForDelete, Holding
<1>11. CASE CheckShare(p) \/ FindShare(p)
  <2>1. \E op, pc : Resume(p, Started(p, op, pc)) /\ pc \in {"share", "unshare"}
    BY <1>11 DEF CheckShare, FindShare
  <2>2. \A op, pc : Started(p, op, pc).pc = pc
    BY DEF Started, Idle
  <2>3. req'[p].pc \in {"share", "unshare"}
    BY <1>2, <2>1, <2>2
  <2> QED BY <1>11, <2>3 DEF CheckShare, FindShare, Holding
<1>12. CASE InsertShare(p)
  <2>1. req'[p].pc = "tell" \/ req'[p] = Done
    BY <1>2, <1>12 DEF InsertShare, Finish, Typing, Request
  <2> QED BY <1>3, <1>12, <2>1 DEF InsertShare, Holding
<1>13. CASE TellOther(p) \/ RemoveShare(p)
  <2>1. req'[p] = Done
    BY <1>2, <1>13 DEF TellOther, RemoveShare, Finish
  <2> QED BY <1>3, <1>13, <2>1 DEF TellOther, RemoveShare
<1> QED BY <1>4, <1>5, <1>6, <1>7, <1>9, <1>10, <1>11, <1>12, <1>13

LEMMA CreateNumbers ==
  ASSUME Typing, NumberInv, NEW p \in Procs, NEW m, Effect(p, m), Create(p)
  PROVE  NumberInv'
<1>1. PICK t : /\ pages = {} /\ pages' = pages
               /\ Resume(p, [Started(p, "create", "pages") EXCEPT
                               !.story = story', !.parts = Sections(t)])
  BY Zenon DEF Create
<1>2. Moves(p, m) /\ Grows(p) /\ req'[p] = m
  BY DEF Effect, Moves
<1>3. m.pc = "pages"
  BY <1>1, <1>2, Resumed DEF Started, Idle
<1>4. Holds(pages, m) /\ \A x : Together(m, x) /\ Together(x, m)
  BY <1>1, <1>3 DEF Holds, Together
<1> QED BY <1>1, <1>2, <1>4, PlainNumbers

(* After a commit of create, of remove or of a rewriting, the others that  *)
(* are not stale hold no rows.                                             *)
LEMMA OthersHoldNothing ==
  ASSUME Typing, NEW p \in Procs, NEW x \in Request, Commit(p, x),
         req[p].op \in {"create", "remove", "updatePage", "deletePage"},
         NEW q \in Procs \ {p}, ~req'[q].stale
  PROVE  req[q].pc \notin Holding
<1>1. ~Marks(p, q)
  BY CommitMoves
<1>2. Unaffected(req[p].op) = {}
  BY DEF Unaffected
<1> QED BY <1>1, <1>2 DEF Marks, Holding

LEMMA CreatePagesNumbers ==
  ASSUME Typing, NumberInv, NEW p \in Procs, NEW m, Effect(p, m), CreatePages(p)
  PROVE  NumberInv'
<1> DEFINE l == NewPages(0, req[p].parts)
           x(v) == [req[p] EXCEPT !.pc = "save", !.story.status = v]
<1>1. /\ At(p, "pages") /\ story' = story
      /\ \/ /\ pages' = Saved(pages, l) /\ Commit(p, x("READY")) /\ story.exists
         \/ Resume(p, x("FAILED")) /\ pages' = pages
  BY DEF CreatePages
<1>2. /\ rowIds \in Nat /\ req[p] \in Request /\ Controlled(req[p])
  BY DEF Typing, Scalars
<1>3. Moves(p, m) /\ Grows(p) /\ req'[p] = m
  BY DEF Effect, Moves
<1>4. \A v : x(v).pc = "save"
  BY <1>2 DEF Request
<1> HIDE DEF x
<1>5. m.pc = "save" /\ m \in Request
  BY <1>1, <1>3, <1>4, Resumed DEF Moves
<1>6. m.pc \notin Holding
  BY <1>5 DEF Holding
<1>7. \A s : Holds(s, m) /\ \A y : Together(m, y) /\ Together(y, m)
  BY <1>6, HoldNothing
<1>8. CASE pages' = Saved(pages, l) /\ Commit(p, x("READY")) /\ story.exists
  <2>1. m = x("READY")
    BY <1>3, <1>8, Resumed
  <2>2. Commit(p, m)
    BY <1>8, <2>1
  <2>3. ASSUME ~disturbed' PROVE InOrderAfter(p, m)
    <3>1. ~disturbed /\ ~req[p].stale
      BY <2>2, <2>3 DEF Commit
    <3>2. pages = {}
      BY <1>1, <3>1 DEF NumberInv, Holds, At
    <3>3. /\ Copies(l, rowIds) /\ \A i \in 1..Len(l) : l[i].number = i
      <4>1. req[p].parts \in Seq(Text) /\ 0 \in Nat
        BY <1>2 DEF Request
      <4>2. Copies(l, rowIds) /\ Len(l) \in Nat /\ \A i \in 1..Len(l) : l[i].number = 0 + i
        BY <1>2, <4>1, NewCopies
      <4> HIDE DEF l
      <4> QED BY <4>2
    <3> HIDE DEF l
    <3>4. Sequential(pages')
      <4>1. \A r \in pages : Known(l, r.id)
        BY <3>2
      <4>2. Sequential(Saved(pages, l))
        BY <1>2, <3>3, <4>1, WrittenInOrder
      <4> QED BY <1>8, <4>2, Zenon
    <3>5. ASSUME NEW q \in Procs \ {p}, ~req'[q].stale PROVE req[q].pc \notin Holding
      <4>1. req[p].op = "create"
        BY <1>1, <1>2 DEF At, Controlled
      <4> QED BY <1>5, <2>2, <3>5, <4>1, OthersHoldNothing
    <3>6. \A q \in Procs \ {p} : ~req'[q].stale => Holds(pages', req[q])
      BY <3>5, HoldNothing
    <3> QED BY <1>7, <3>4, <3>6 DEF InOrderAfter
  <2>4. story'.exists
    BY <1>1, <1>8
  <2> QED BY <1>3, <2>3, <2>4, NumberStep
<1>9. CASE Resume(p, x("FAILED")) /\ pages' = pages
  <2>1. ~story'.exists => pages' = {}
    BY <1>1, <1>9 DEF NumberInv
  <2> QED BY <1>3, <1>7, <1>9, <2>1, PlainNumbers
<1> QED BY <1>1, <1>8, <1>9

LEMMA DeleteStoryNumbers ==
  ASSUME Typing, NumberInv, NEW p \in Procs, NEW m, Effect(p, m), DeleteStory(p)
  PROVE  NumberInv'
<1>1. Moves(p, m) /\ Grows(p) /\ req'[p] = m /\ Controlled(req[p])
  BY DEF Effect, Moves, Typing
<1>2. m = Done
  BY <1>1, Resumed DEF DeleteStory, Finish
<1>3. \A s : Holds(s, m) /\ \A y : Together(m, y) /\ Together(y, m)
  BY <1>2, DoneTyped, HoldNothing DEF Holding
<1>4. CASE pages' = {} /\ Commit(p, Done)
  <2>1. ASSUME NEW q \in Procs \ {p}, ~req'[q].stale PROVE req[q].pc \notin Holding
    <3>1. req[p].op = "remove"
      BY <1>1 DEF DeleteStory, At, Controlled
    <3> QED BY <1>4, <2>1, <3>1, DoneTyped, OthersHoldNothing
  <2>2. \A q \in Procs \ {p} : ~req'[q].stale => Holds(pages', req[q])
    BY <2>1, HoldNothing
  <2>3. Sequential(pages')
    BY <1>4 DEF Sequential
  <2>4. InOrderAfter(p, m)
    BY <1>3, <2>2, <2>3 DEF InOrderAfter
  <2> QED BY <1>1, <1>4, <2>4, NumberStep
<1>5. CASE UNCHANGED <<story, pages>>
  <2>1. (~story'.exists => pages' = {}) /\ pages' = pages
    BY <1>5 DEF NumberInv
  <2> QED BY <1>1, <1>3, <2>1, PlainNumbers
<1> QED BY <1>4, <1>5 DEF DeleteStory

LEMMA ReplacedInOrder ==
  ASSUME NEW n \in Nat, NEW m, Copies(m.pages, n), m.parts \in Seq(Text)
  PROVE  /\ Len(Replaced(m)) = Len(m.parts) /\ Len(m.parts) \in Nat
         /\ \A i \in 1..Len(m.parts) : Replaced(m)[i].number = i
         /\ \A i \in 1..Len(m.pages) :
              i <= Len(m.parts) => Replaced(m)[i].id = m.pages[i].id
<1> DEFINE k == Min({Len(m.pages), Len(m.parts)})
           kept == SubSeq(m.pages, 1, k)
           row(i) == [kept[i] EXCEPT !.number = i, !.text = m.parts[i],
                                     !.image = ImageFor(kept[i], m.parts[i])]
           old == [i \in DOMAIN kept |-> row(i)]
           more == SubSeq(m.parts, k + 1, Len(m.parts))
           new == NewPages(k, more)
           b == Len(m.parts)
           a == Len(m.pages)
<1>1. a \in Nat /\ b \in Nat /\ m.pages \in Seq(Row) /\ \A i \in 1..a : m.pages[i] \in Row
  BY LenProperties, ElementOfSeq DEF Copies
<1>2. k \in 0..a /\ k <= b /\ k \in Nat /\ (k = a \/ k = b)
  BY <1>1 DEF Min
<1>3. Replaced(m) = old \o NewPages(Len(kept), SubSeq(m.parts, Len(kept) + 1, Len(m.parts)))
  BY Zenon DEF Replaced
<1> HIDE DEF k
<1>4. kept \in Seq(Row) /\ Len(kept) = k /\ \A i \in 1..k : kept[i] = m.pages[i]
  <2>1. \A i \in 1..k : m.pages[i] \in Row
    BY <1>1, <1>2
  <2> HIDE DEF a, b
  <2> QED BY <1>2, <2>1, SubSeqProperties
<1>5. Replaced(m) = old \o new
  BY <1>3, <1>4, Zenon
<1>6. more \in Seq(Text) /\ Len(more) = b - k
  <2>1. k \in 0..b
    BY <1>1, <1>2
  <2> QED BY <2>1, CutInTwo DEF Cut
<1> HIDE DEF kept, more, a, b
<1>7. /\ Len(new) = b - k
      /\ \A i \in 1..(b - k) : new[i].number = k + i
      /\ new \in Seq(Row)
  <2>1. /\ Copies(new, n) /\ Len(new) = Len(more)
        /\ \A i \in 1..Len(new) : new[i].number = k + i
    BY <1>2, <1>6, NewCopies
  <2> QED BY <1>6, <2>1 DEF Copies
<1>8. old \in Seq(Row) /\ Len(old) = k
  <2>1. Copies(old, n) /\ Len(kept) = k
    <3>1. k <= Len(m.parts) /\ k \in 0..Len(m.pages)
      BY <1>2 DEF a, b
    <3> QED BY <3>1, PartCopies DEF kept
  <2>2. DOMAIN kept = 1..k /\ DOMAIN old = 1..k
    BY <1>4, LenProperties
  <2>3. old \in Seq(Row)
    BY <2>1 DEF Copies
  <2> HIDE DEF old
  <2> QED BY <1>2, <2>2, <2>3, LenProperties
<1>9. \A i \in 1..k : old[i].number = i /\ old[i].id = m.pages[i].id
  <2> SUFFICES ASSUME NEW i \in 1..k PROVE old[i].number = i /\ old[i].id = m.pages[i].id
    OBVIOUS
  <2>1. kept[i] \in Row /\ kept[i] = m.pages[i] /\ i \in DOMAIN kept
    BY <1>1, <1>2, <1>4
  <2>2. old[i] = row(i)
    BY <2>1
  <2>3. row(i).number = i /\ row(i).id = kept[i].id
    BY <2>1 DEF Row
  <2> QED BY <2>1, <2>2, <2>3, Zenon
<1> HIDE DEF old, new
<1> DEFINE all == old \o new
<1>10. /\ Len(all) = k + (b - k)
       /\ \A i \in 1..(k + (b - k)) : all[i] = IF i <= k THEN old[i] ELSE new[i - k]
  <2>1. /\ Len(all) = Len(old) + Len(new)
        /\ \A i \in 1..(Len(old) + Len(new)) :
             all[i] = IF i <= Len(old) THEN old[i] ELSE new[i - Len(old)]
    BY <1>7, <1>8, ConcatProperties
  <2> HIDE DEF all
  <2> QED BY <1>7, <1>8, <2>1
<1> HIDE DEF all
<1>11. Len(all) = b
  BY <1>1, <1>2, <1>10
<1>12. ASSUME NEW i \in 1..b PROVE all[i].number = i
  <2>1. CASE i <= k
    BY <1>1, <1>2, <1>9, <1>10, <2>1
  <2>2. CASE i > k
    <3>1. i - k \in 1..(b - k) /\ k + (i - k) = i
      BY <1>1, <1>2, <2>2
    <3>2. all[i] = new[i - k]
      BY <1>1, <1>2, <1>10, <2>2
    <3> QED BY <1>7, <3>1, <3>2
  <2> QED BY <1>1, <1>2, <2>1, <2>2
<1>13. ASSUME NEW i \in 1..a, i <= b PROVE all[i].id = m.pages[i].id
  <2>1. i \in 1..k /\ i \in 1..(k + (b - k)) /\ i <= k
    BY <1>1, <1>2, <1>13
  <2> QED BY <1>9, <1>10, <2>1
<1>14. Replaced(m) = all
  BY <1>5 DEF all
<1> QED BY <1>1, <1>11, <1>12, <1>13, <1>14 DEF a, b

(* Pages that are not surplus are among those that are written.            *)
LEMMA ReplacedKnown ==
  ASSUME NEW n \in Nat, NEW m, Copies(m.pages, n), m.parts \in Seq(Text),
         NEW s, \A r \in s : Known(m.pages, r.id)
  PROVE  \A r \in {q \in s : q.id \notin Surplus(m.pages, Len(Replaced(m)))} :
           Known(Replaced(m), r.id)
<1> DEFINE l == Replaced(m)
<1>1. /\ Len(l) = Len(m.parts) /\ Len(m.parts) \in Nat
      /\ \A i \in 1..Len(m.pages) : i <= Len(m.parts) => l[i].id = m.pages[i].id
  BY ReplacedInOrder
<1>2. Len(m.pages) \in Nat
  BY LenProperties DEF Copies
<1> HIDE DEF l
<1>3. ASSUME NEW r \in s, r.id \notin Surplus(m.pages, Len(l)) PROVE Known(l, r.id)
  <2>1. PICK i \in 1..Len(m.pages) : m.pages[i].id = r.id
    BY DEF Known
  <2>2. i <= Len(l)
    <3> SUFFICES ASSUME i > Len(l) PROVE FALSE
      BY <1>1, <1>2
    <3>1. i \in (Len(l) + 1)..Len(m.pages)
      BY <1>1, <1>2
    <3> QED BY <1>3, <2>1, <3>1 DEF Surplus
  <2>3. i \in 1..Len(l) /\ l[i].id = r.id
    BY <1>1, <1>2, <2>1, <2>2
  <2> QED BY <2>3 DEF Known
<1> QED BY <1>3 DEF l

LEMMA ReplaceWriteNumbers ==
  ASSUME Typing, NumberInv, NEW p \in Procs, NEW m, Effect(p, m), ReplaceWrite(p)
  PROVE  NumberInv'
<1> DEFINE l == Replaced(req[p])
           gone == Surplus(req[p].pages, Len(l))
           s == {r \in pages : r.id \notin gone}
<1>1. /\ At(p, "replace")
      /\ \/ /\ story.exists /\ pages' = Saved(s, l) /\ Commit(p, Done)
            /\ story' = [story EXCEPT !.text = req[p].source]
         \/ Finish(p) /\ UNCHANGED <<pages, story>>
  BY DEF ReplaceWrite
<1>2. /\ rowIds \in Nat /\ story \in StoryRow /\ req[p] \in Request /\ Controlled(req[p])
      /\ Copies(req[p].pages, rowIds)
  BY DEF Typing, Scalars
<1>3. Moves(p, m) /\ Grows(p) /\ req'[p] = m
  BY DEF Effect, Moves
<1>4. m = Done
  BY <1>1, <1>3, Resumed DEF Finish
<1>5. \A t : Holds(t, m) /\ \A y : Together(m, y) /\ Together(y, m)
  BY <1>4, DoneTyped, HoldNothing DEF Holding
<1>6. CASE /\ story.exists /\ pages' = Saved(s, l) /\ Commit(p, Done)
           /\ story' = [story EXCEPT !.text = req[p].source]
  <2>1. ASSUME ~disturbed' PROVE InOrderAfter(p, m)
    <3>1. ~disturbed /\ ~req[p].stale
      BY <1>6, <2>1 DEF Commit
    <3>2. \A r \in pages : Known(req[p].pages, r.id)
      BY <1>1, <3>1 DEF NumberInv, Holds, At
    <3>3. req[p].parts \in Seq(Text)
      BY <1>2 DEF Request
    <3>4. /\ Copies(l, rowIds) /\ Len(l) \in Nat
          /\ \A i \in 1..Len(l) : l[i].number = i
          /\ \A i \in 1..Len(req[p].pages) : i <= Len(l) => l[i].id = req[p].pages[i].id
      <4>1. Copies(l, rowIds)
        BY <1>2, <3>3, ReplacedCopies
      <4>2. /\ Len(l) = Len(req[p].parts) /\ Len(req[p].parts) \in Nat
            /\ \A i \in 1..Len(req[p].parts) : l[i].number = i
            /\ \A i \in 1..Len(req[p].pages) :
                 i <= Len(req[p].parts) => l[i].id = req[p].pages[i].id
        BY <1>2, <3>3, ReplacedInOrder
      <4> HIDE DEF l
      <4> QED BY <4>1, <4>2
    <3>5. \A r \in s : Known(l, r.id)
      BY <1>2, <3>2, <3>3, ReplacedKnown
    <3> HIDE DEF l
    <3> HIDE DEF s
    <3>6. Sequential(pages')
      <4>1. Sequential(Saved(s, l))
        BY <1>2, <3>4, <3>5, WrittenInOrder
      <4> QED BY <1>6, <4>1, Zenon
    <3>7. ASSUME NEW q \in Procs \ {p}, ~req'[q].stale PROVE req[q].pc \notin Holding
      <4>1. req[p].op \in {"updatePage", "deletePage"}
        BY <1>1, <1>2 DEF At, Controlled
      <4> QED BY <1>6, <3>7, <4>1, DoneTyped, OthersHoldNothing
    <3>8. \A q \in Procs \ {p} : ~req'[q].stale => Holds(pages', req[q])
      BY <3>7, HoldNothing
    <3> QED BY <1>5, <3>6, <3>8 DEF InOrderAfter
  <2>2. story'.exists
    BY <1>2, <1>6 DEF StoryRow
  <2> QED BY <1>3, <2>1, <2>2, NumberStep
<1>7. CASE Finish(p) /\ UNCHANGED <<pages, story>>
  <2>1. (~story'.exists => pages' = {}) /\ pages' = pages
    BY <1>7 DEF NumberInv
  <2> QED BY <1>3, <1>5, <2>1, PlainNumbers
<1> QED BY <1>1, <1>6, <1>7

(* Copies that are read when the rows are in order.                        *)
LEMMA ReadToAppend ==
  ASSUME NEW n \in Nat, NEW s, Rows(s, n), Sequential(s), NEW l \in Listed(s),
         NEW new, Copies(new, n),
         \A i \in 1..Len(new) : new[i].id = 0 /\ new[i].number = Len(l) + i
  PROVE  /\ ToAppend(s, l \o new)
         /\ \A b : Copies(b, n) /\ ToReorder(s, b) =>
              \A i \in 1..Len(l \o new) : i <= Len(b) <=> Known(b, (l \o new)[i].id)
<1> DEFINE k == Cardinality(s)
           u == l \o new
<1>1. /\ Copies(l, n) /\ Len(l) = k /\ k \in Nat
      /\ \A i \in 1..Len(l) : l[i] \in s /\ l[i].id # 0
      /\ \A r \in s : \E i \in 1..Len(l) : r = l[i]
  BY ListedCopies
<1>2. \A i \in 1..Len(l) : l[i].number = i
  BY SequentialListed
<1> HIDE DEF k
<1>3. /\ Len(new) \in Nat /\ Len(u) = k + Len(new)
      /\ \A i \in 1..(k + Len(new)) : u[i] = IF i <= k THEN l[i] ELSE new[i - k]
  <2>1. l \in Seq(Row) /\ new \in Seq(Row) /\ Len(new) \in Nat
    BY LenProperties, <1>1 DEF Copies
  <2>2. /\ Len(u) = Len(l) + Len(new)
        /\ \A i \in 1..(Len(l) + Len(new)) :
             u[i] = IF i <= Len(l) THEN l[i] ELSE new[i - Len(l)]
    BY <2>1, ConcatProperties
  <2> HIDE DEF u
  <2> QED BY <1>1, <2>1, <2>2
<1> HIDE DEF u
<1>4. ASSUME NEW i \in 1..Len(u), i <= k PROVE u[i] = l[i] /\ u[i] \in s /\ u[i].number = i
  BY <1>1, <1>2, <1>3, <1>4
<1>5. ASSUME NEW i \in 1..Len(u), i > k PROVE u[i].id = 0 /\ u[i].number = i
  <2>1. i - k \in 1..Len(new) /\ k + (i - k) = i
    BY <1>1, <1>3, <1>5
  <2>2. u[i] = new[i - k]
    BY <1>1, <1>3, <1>5
  <2> QED BY <1>1, <2>1, <2>2
<1>6. \A r \in s : Known(u, r.id)
  <2> SUFFICES ASSUME NEW r \in s PROVE Known(u, r.id)
    OBVIOUS
  <2>1. PICK i \in 1..Len(l) : r = l[i]
    BY <1>1
  <2>2. i \in 1..Len(u) /\ i <= k
    BY <1>1, <1>3
  <2>3. u[i] = r
    BY <1>4, <2>1, <2>2
  <2> QED BY <2>2, <2>3 DEF Known
<1>7. ToAppend(s, u)
  <2>1. \A i \in 1..Len(u) : u[i].number = i
    <3>1. \A i \in 1..Len(u) : i <= k \/ i > k
      BY <1>1, <1>3
    <3> QED BY <1>4, <1>5, <3>1
  <2>2. \A i \in 1..Len(u) : i <= k => \E r \in s : r.id = u[i].id
    BY <1>4
  <2> QED BY <1>5, <1>6, <2>1, <2>2 DEF ToAppend, k
<1>8. ASSUME NEW b, Copies(b, n), ToReorder(s, b), NEW i \in 1..Len(u)
      PROVE  i <= Len(b) <=> Known(b, u[i].id)
  <2>1. /\ \A j \in 1..Len(b) : \E r \in s : r.id = b[j].id
        /\ \A r \in s : r.number <= Len(b) <=> Known(b, r.id)
    BY <1>8 DEF ToReorder
  <2>2. Len(b) <= k /\ Len(b) \in Nat
    BY <1>8, <2>1, KnownFew DEF k
  <2>3. CASE i <= k
    <3>1. u[i] \in s /\ u[i].number = i
      BY <1>4, <2>3
    <3> QED BY <2>1, <3>1
  <2>4. CASE i > k
    <3>1. u[i].id = 0
      BY <1>5, <2>4
    <3>2. \A r \in s : r.id # 0
      BY DEF Rows
    <3>3. ~Known(b, u[i].id)
      BY <2>1, <3>1, <3>2 DEF Known
    <3> QED BY <1>1, <1>3, <2>2, <2>4, <3>3
  <2> QED BY <1>1, <1>3, <2>3, <2>4
<1> QED BY <1>7, <1>8 DEF u

LEMMA ReadToReorder ==
  ASSUME NEW n \in Nat, NEW s, Rows(s, n), Sequential(s), NEW l \in Listed(s),
         NEW i \in 1..Cardinality(s), NEW j \in 1..Cardinality(s), i # j
  PROVE  LET u == [l EXCEPT ![i] = l[j], ![j] = l[i]]
         IN /\ ToReorder(s, u)
            /\ \A a : ToAppend(s, a) =>
                 \A x \in 1..Len(a) : x <= Len(u) <=> Known(u, a[x].id)
<1> DEFINE k == Cardinality(s)
           u == [l EXCEPT ![i] = l[j], ![j] = l[i]]
           other(x) == IF x = i THEN j ELSE IF x = j THEN i ELSE x
<1>1. /\ Copies(l, n) /\ Len(l) = k /\ k \in Nat /\ DOMAIN l = 1..Len(l)
      /\ \A x \in 1..Len(l) : l[x] \in s /\ l[x].id # 0
      /\ \A r \in s : \E x \in 1..Len(l) : r = l[x]
  BY ListedCopies
<1>2. Len(u) = k
  <2>1. i \in 1..Len(l) /\ j \in 1..Len(l)
    BY <1>1
  <2>2. Len(u) = Len(l)
    BY <1>1, <2>1, SwappedCopies
  <2> HIDE DEF u
  <2> QED BY <1>1, <2>2
<1>3. \A x \in 1..k : u[x] = l[other(x)] /\ other(x) \in 1..k /\ other(other(x)) = x
  BY <1>1
<1> HIDE DEF u, other
<1>4. \A x \in 1..k : u[x] \in s /\ u[x].id # 0
  BY <1>1, <1>3
<1>5. ASSUME NEW r \in s PROVE Known(u, r.id)
  <2>1. PICK x \in 1..k : r = l[x]
    BY <1>1
  <2>2. other(x) \in 1..k /\ u[other(x)] = r
    BY <1>3, <2>1
  <2> QED BY <1>2, <2>2 DEF Known
<1>6. ToReorder(s, u)
  <2>1. \A r \in s : r.number <= k
    BY DEF Sequential
  <2> HIDE DEF k
  <2> QED BY <1>2, <1>4, <1>5, <2>1 DEF ToReorder
<1>7. ASSUME NEW a, ToAppend(s, a), NEW x \in 1..Len(a)
      PROVE  x <= Len(u) <=> Known(u, a[x].id)
  <2>1. CASE x <= k
    <3>1. PICK r \in s : r.id = a[x].id
      BY <1>7, <2>1 DEF ToAppend
    <3> QED BY <1>2, <1>5, <2>1, <3>1, Zenon
  <2>2. CASE x > k
    <3>1. a[x].id = 0
      BY <1>7, <2>2 DEF ToAppend
    <3>2. ~Known(u, a[x].id)
      BY <1>2, <1>4, <3>1 DEF Known
    <3> HIDE DEF k
    <3> QED BY <1>1, <1>2, <2>2, <3>2
  <2>3. x <= k \/ x > k
    BY <1>1
  <2> QED BY <2>1, <2>2, <2>3
<1> QED BY <1>6, <1>7 DEF u

LEMMA AppendReadNumbers ==
  ASSUME Typing, NumberInv, NEW p \in Procs, NEW m, Effect(p, m), AppendRead(p)
  PROVE  NumberInv'
<1>0. PICK l \in Listed(pages) : \E c, parts :
        /\ \E len \in EditLens : parts = Sections(IF l = <<>> THEN story.text \o NewText(len)
                                                  ELSE NewText(len))
        /\ Resume(p, [Started(p, "append", "append") EXCEPT
                        !.story = c, !.pages = l \o NewPages(LastNumber(l), parts)])
  BY Zenon DEF AppendRead
<1>1. PICK c, parts :
        /\ \E len \in EditLens : parts = Sections(IF l = <<>> THEN story.text \o NewText(len)
                                                  ELSE NewText(len))
        /\ Resume(p, [Started(p, "append", "append") EXCEPT
                        !.story = c, !.pages = l \o NewPages(LastNumber(l), parts)])
  BY <1>0, Zenon
<1>2. UNCHANGED <<story, pages>>
  BY DEF AppendRead
<1>3. /\ rowIds \in Nat /\ words \in Nat /\ story \in StoryRow /\ Rows(pages, rowIds)
      /\ \A q \in Procs : Copies(req[q].pages, rowIds)
  BY DEF Typing, Scalars
<1>4. Moves(p, m) /\ Grows(p) /\ req'[p] = m
  BY DEF Effect, Moves
<1>5. parts \in Seq(Text)
  <2>1. PICK len \in EditLens : parts = Sections(IF l = <<>> THEN story.text \o NewText(len)
                                                 ELSE NewText(len))
    BY <1>1
  <2> DEFINE more == NewText(len)
             whole == story.text \o more
             t == IF l = <<>> THEN whole ELSE more
  <2>2. more \in Text /\ story.text \in Text
    BY <1>3, NewTextTyped DEF StoryRow
  <2> HIDE DEF more
  <2>3. whole \in Text
    BY <2>2, WordsConcat
  <2> HIDE DEF whole
  <2>4. t \in Text
    BY <2>2, <2>3
  <2>5. parts = Sections(t)
    BY <2>1 DEF whole, more
  <2> HIDE DEF t
  <2> QED BY <2>4, <2>5, SectionsTyped
<1> DEFINE new == NewPages(Len(l), parts)
           u == l \o new
<1>6. m.pc = "append" /\ m.pages = u
  <2>1. m = [Started(p, "append", "append") EXCEPT
               !.story = c, !.pages = l \o NewPages(LastNumber(l), parts)]
    BY <1>1, <1>4, Resumed
  <2> QED BY <2>1 DEF Started, Idle, LastNumber
<1>7. Len(l) \in Nat
  BY <1>3, ListedCopies
<1>8. /\ Copies(new, rowIds)
      /\ \A i \in 1..Len(new) : new[i].id = 0 /\ new[i].number = Len(l) + i
  BY <1>3, <1>5, <1>7, NewCopies
<1> HIDE DEF new
<1>9. ASSUME ~disturbed
      PROVE  /\ Holds(pages, m)
             /\ \A q \in Procs \ {p} : ~req[q].stale => Together(m, req[q]) /\ Together(req[q], m)
  <2>1. Sequential(pages) /\ \A q \in Procs : ~req[q].stale => Holds(pages, req[q])
    BY <1>9 DEF NumberInv
  <2>2. /\ ToAppend(pages, u)
        /\ \A b : Copies(b, rowIds) /\ ToReorder(pages, b) =>
             \A i \in 1..Len(u) : i <= Len(b) <=> Known(b, u[i].id)
    BY <1>3, <1>8, <2>1, ReadToAppend
  <2> HIDE DEF u
  <2>3. Holds(pages, m)
    BY <1>6, <2>2 DEF Holds
  <2>4. ASSUME NEW q \in Procs \ {p}, ~req[q].stale
        PROVE  Together(m, req[q]) /\ Together(req[q], m)
    <3>1. Holds(pages, req[q]) /\ Copies(req[q].pages, rowIds)
      BY <1>3, <2>1, <2>4
    <3>2. req[q].pc = "reorder" => ToReorder(pages, req[q].pages)
      BY <3>1 DEF Holds
    <3> QED BY <1>6, <2>2, <3>1, <3>2 DEF Together
  <2> QED BY <2>3, <2>4
<1>10. ~story'.exists => pages' = {}
  BY <1>2 DEF NumberInv
<1> QED BY <1>2, <1>4, <1>9, <1>10, PlainNumbers

LEMMA CheckOrderNumbers ==
  ASSUME Typing, NumberInv, NEW p \in Procs, NEW m, Effect(p, m), CheckOrder(p)
  PROVE  NumberInv'
<1>1. PICK l \in Listed(pages), i \in 1..Cardinality(pages), j \in 1..Cardinality(pages) :
        /\ i < j
        /\ Resume(p, [Started(p, "reorder", "reorder") EXCEPT
                        !.pages = [l EXCEPT ![i] = l[j], ![j] = l[i]]])
  BY Zenon DEF CheckOrder
<1>2. UNCHANGED <<story, pages>>
  BY DEF CheckOrder
<1>3. rowIds \in Nat /\ Rows(pages, rowIds)
  BY DEF Typing, Scalars
<1>4. Moves(p, m) /\ Grows(p) /\ req'[p] = m
  BY DEF Effect, Moves
<1> DEFINE u == [l EXCEPT ![i] = l[j], ![j] = l[i]]
<1>5. m.pc = "reorder" /\ m.pages = u
  <2>1. m = [Started(p, "reorder", "reorder") EXCEPT !.pages = u]
    BY <1>1, <1>4, Resumed
  <2> HIDE DEF u
  <2> QED BY <2>1 DEF Started, Idle
<1>6. i # j
  <2>1. Cardinality(pages) \in Nat
    BY <1>3, ListedCopies
  <2> QED BY <1>1, <2>1
<1>7. ASSUME ~disturbed
      PROVE  /\ Holds(pages, m)
             /\ \A q \in Procs \ {p} : ~req[q].stale => Together(m, req[q]) /\ Together(req[q], m)
  <2>1. Sequential(pages) /\ \A q \in Procs : ~req[q].stale => Holds(pages, req[q])
    BY <1>7 DEF NumberInv
  <2>2. /\ ToReorder(pages, u)
        /\ \A a : ToAppend(pages, a) => \A x \in 1..Len(a) : x <= Len(u) <=> Known(u, a[x].id)
    BY <1>3, <1>6, <2>1, ReadToReorder
  <2> HIDE DEF u
  <2>3. Holds(pages, m)
    BY <1>5, <2>2 DEF Holds
  <2>4. ASSUME NEW q \in Procs \ {p}, ~req[q].stale
        PROVE  Together(m, req[q]) /\ Together(req[q], m)
    <3>1. Holds(pages, req[q])
      BY <2>1, <2>4
    <3>2. req[q].pc = "append" => ToAppend(pages, req[q].pages)
      BY <3>1 DEF Holds
    <3> QED BY <1>5, <2>2, <3>2 DEF Together
  <2> QED BY <2>3, <2>4
<1>8. ~story'.exists => pages' = {}
  BY <1>2 DEF NumberInv
<1> QED BY <1>2, <1>4, <1>7, <1>8, PlainNumbers

LEMMA ReplaceReadNumbers ==
  ASSUME Typing, NumberInv, NEW p \in Procs, NEW m, Effect(p, m), ReplaceRead(p)
  PROVE  NumberInv'
<1>1. PICK l \in Listed(pages) : Resume(p, [req[p] EXCEPT !.pc = "replace", !.pages = l])
  BY Zenon DEF ReplaceRead
<1>2. UNCHANGED <<story, pages>>
  BY DEF ReplaceRead
<1>3. rowIds \in Nat /\ Rows(pages, rowIds) /\ req[p] \in Request
  BY DEF Typing, Scalars
<1>4. Moves(p, m) /\ Grows(p) /\ req'[p] = m
  BY DEF Effect, Moves
<1>5. m.pc = "replace" /\ m.pages = l
  <2>1. m = [req[p] EXCEPT !.pc = "replace", !.pages = l]
    BY <1>1, <1>4, Resumed
  <2> QED BY <1>3, <2>1 DEF Request
<1>6. Holds(pages, m)
  <2>1. \A r \in pages : \E i \in 1..Len(l) : r = l[i]
    BY <1>3, ListedCopies
  <2>2. \A r \in pages : Known(l, r.id)
    BY <2>1 DEF Known
  <2> QED BY <1>5, <2>2 DEF Holds
<1>7. \A x : Together(m, x) /\ Together(x, m)
  BY <1>5 DEF Together
<1>8. ~story'.exists => pages' = {}
  BY <1>2 DEF NumberInv
<1> QED BY <1>2, <1>4, <1>6, <1>7, <1>8, PlainNumbers

LEMMA LoadPageNumbers ==
  ASSUME Typing, NumberInv, NEW p \in Procs, NEW m, Effect(p, m), LoadPage(p)
  PROVE  NumberInv'
<1>1. PICK r \in pages : Resume(p, [Started(p, "illustrate", "image") EXCEPT !.pages = <<r>>])
  BY Zenon DEF LoadPage
<1>2. UNCHANGED <<story, pages>>
  BY DEF LoadPage
<1>3. Moves(p, m) /\ Grows(p) /\ req'[p] = m
  BY DEF Effect, Moves
<1>4. m.pc = "image" /\ m.pages[1] = r
  <2> DEFINE l == <<r>>
  <2>1. m = [Started(p, "illustrate", "image") EXCEPT !.pages = l] /\ l[1] = r
    BY <1>1, <1>3, Resumed
  <2> HIDE DEF l
  <2>2. m.pc = "image" /\ m.pages = l
    BY <2>1 DEF Started, Idle
  <2> QED BY <2>1, <2>2, Zenon
<1>5. Holds(pages, m)
  BY <1>4 DEF Holds
<1>6. \A x : Together(m, x) /\ Together(x, m)
  BY <1>4 DEF Together
<1>7. ~story'.exists => pages' = {}
  BY <1>2 DEF NumberInv
<1> QED BY <1>2, <1>3, <1>5, <1>6, <1>7, PlainNumbers

LEMMA AppendWriteNumbers ==
  ASSUME Typing, StoryInv, NumberInv, NEW p \in Procs, NEW m, Effect(p, m), AppendWrite(p)
  PROVE  NumberInv'
<1> DEFINE l == req[p].pages
           new == Numbered(l)
<1>1. /\ At(p, "append") /\ pages' = Saved(pages, l) /\ story' = req[p].story /\ Commit(p, Done)
  BY DEF AppendWrite
<1>2. /\ rowIds \in Nat /\ Rows(pages, rowIds)
      /\ \A q \in Procs : Controlled(req[q]) /\ Copies(req[q].pages, rowIds)
  BY DEF Typing, Scalars
<1>3. Moves(p, m) /\ Grows(p) /\ req'[p] = m
  BY DEF Effect, Moves
<1>4. m = Done
  BY <1>1, <1>3, Resumed
<1>5. \A t : Holds(t, m) /\ \A y : Together(m, y) /\ Together(y, m)
  BY <1>4, DoneTyped, HoldNothing DEF Holding
<1>6. req[p].op = "append" /\ story'.exists /\ req[p].pc = "append"
  BY <1>1, <1>2 DEF Controlled, At
<1>7. ASSUME ~disturbed' PROVE InOrderAfter(p, m)
  <2>1. ~disturbed /\ ~req[p].stale
    BY <1>1, <1>7 DEF Commit
  <2>2. ToAppend(pages, l)
    BY <1>6, <2>1 DEF NumberInv, Holds
  <2>3. Copies(l, rowIds) /\ \A i \in 1..Len(l) : l[i].number = i
    BY <1>2, <2>2 DEF ToAppend
  <2>4. \A r \in pages : Known(l, r.id)
    BY <2>2 DEF ToAppend
  <2>5. /\ Sequential(Saved(pages, l)) /\ Len(l) \in Nat
        /\ \A r : r \in Saved(pages, l) <=> \E i \in 1..Len(l) : r = new[i]
    BY <1>2, <2>3, <2>4, WrittenInOrder
  <2>6. /\ \A i \in 1..Len(l) : /\ new[i].number = l[i].number
                                /\ l[i].id # 0 => new[i] = l[i]
                                /\ l[i].id = 0 => new[i].id \in (rowIds + 1)..(rowIds + Fresh(l))
        /\ Fresh(l) \in 0..Len(l)
    BY <1>2, <2>3, NumberedCopies
  <2> HIDE DEF l, new
  <2>7. Sequential(pages') /\ \A r : r \in pages' <=> \E i \in 1..Len(l) : r = new[i]
    BY <1>1, <2>5, Zenon
  <2>8. ASSUME NEW q \in Procs \ {p}, ~req'[q].stale PROVE Holds(pages', req[q])
    <3>1. req[q].pc \in {"idle", "done"} \/ req[q].op \in {"append", "reorder"}
      BY <1>1, <1>6, <2>8, DoneTyped, CommitMoves DEF Marks, Unaffected
    <3>2. req[q].pc # "append"
      BY <1>1 DEF StoryInv, Appending, At
    <3>3. CASE req[q].pc = "reorder"
      <4> DEFINE b == req[q].pages
      <4>1. ~req[q].stale
        BY <2>8, <1>3 DEF Grows
      <4>2. ToReorder(pages, b) /\ Copies(b, rowIds)
        BY <1>2, <2>1, <3>3, <4>1 DEF NumberInv, Holds
      <4>3. \A i \in 1..Len(l) : i <= Len(b) <=> Known(b, l[i].id)
        <5>1. Together(req[p], req[q])
          BY <2>1, <4>1 DEF NumberInv
        <5> QED BY <1>6, <3>3, <5>1 DEF Together, l
      <4> HIDE DEF b
      <4>4. ASSUME NEW j \in 1..Len(b) PROVE \E r \in pages' : r.id = b[j].id
        <5>1. PICK r \in pages : r.id = b[j].id
          BY <4>2 DEF ToReorder
        <5>2. PICK i \in 1..Len(l) : l[i].id = r.id
          BY <2>4 DEF Known
        <5>3. r.id # 0
          BY <1>2 DEF Rows
        <5>4. new[i] = l[i] /\ new[i] \in pages'
          BY <2>6, <2>7, <5>2, <5>3
        <5> QED BY <5>1, <5>2, <5>4
      <4>5. ASSUME NEW r \in pages' PROVE r.number <= Len(b) <=> Known(b, r.id)
        <5>1. PICK i \in 1..Len(l) : r = new[i]
          BY <2>7
        <5>2. r.number = i
          BY <2>3, <2>6, <5>1
        <5>3. CASE l[i].id # 0
          BY <2>6, <4>3, <5>1, <5>2, <5>3
        <5>4. CASE l[i].id = 0
          <6>1. \A j \in 1..Len(b) : b[j].id \in 0..rowIds /\ b[j].id # 0
            <7>1. \A j \in 1..Len(b) : b[j].id \in 0..rowIds
              BY <4>2 DEF Copies
            <7>2. \A j \in 1..Len(b) : b[j].id # 0
              BY <1>2, <4>2 DEF ToReorder, Rows
            <7> QED BY <7>1, <7>2
          <6>2. r.id > rowIds
            BY <1>2, <2>5, <2>6, <5>1, <5>4
          <6>3. ~Known(b, r.id) /\ ~Known(b, l[i].id)
            BY <1>2, <5>4, <6>1, <6>2 DEF Known
          <6> QED BY <4>3, <5>2, <6>3
        <5> QED BY <5>3, <5>4
      <4>6. ToReorder(pages', b)
        BY <4>4, <4>5 DEF ToReorder
      <4> QED BY <3>3, <4>6 DEF Holds, b
    <3>4. CASE req[q].pc # "reorder"
      <4>1. Controlled(req[q])
        BY <1>2
      <4>2. req[q].pc \notin Holding
        BY <3>1, <3>2, <3>4, <4>1 DEF Controlled, Holding
      <4> QED BY <4>2, HoldNothing
    <3> QED BY <3>3, <3>4
  <2> QED BY <1>5, <2>7, <2>8 DEF InOrderAfter
<1> QED BY <1>3, <1>6, <1>7, NumberStep

(* Rows that keep their ids: what is known of them by id stays known.      *)
LEMMA SameIdsHold ==
  ASSUME NEW n \in Nat, NEW s, Rows(s, n), NEW f \in [s -> Row], \A r \in s : f[r].id = r.id
  PROVE  LET t == {f[r] : r \in s}
         IN /\ Cardinality(t) = Cardinality(s)
            /\ \A l : ToAppend(s, l) => ToAppend(t, l)
            /\ \A l : (\A r \in s : Known(l, r.id)) => \A r \in t : Known(l, r.id)
<1> DEFINE t == {f[r] : r \in s}
<1>1. IsFiniteSet(s) /\ \A r, q \in s : r.id = q.id => r = q
  BY DEF Rows
<1>2. \A r, q \in s : f[r] = f[q] => r = q
  BY <1>1
<1>3. Cardinality(t) = Cardinality(s)
  <2>1. f \in Surjection(s, t) /\ f \in Injection(s, t)
    BY <1>2 DEF Surjection, Injection, IsInjective
  <2> HIDE DEF t
  <2> QED BY <1>1, <2>1, FS_Surjection
<1>4. ASSUME NEW l, \A r \in s : Known(l, r.id) PROVE \A r \in t : Known(l, r.id)
  BY <1>4
<1>5. ASSUME NEW l, ToAppend(s, l) PROVE ToAppend(t, l)
  <2>1. /\ \A i \in 1..Len(l) : l[i].number = i
        /\ \A i \in 1..Len(l) : i <= Cardinality(s) => \E r \in s : r.id = l[i].id
        /\ \A i \in 1..Len(l) : i > Cardinality(s) => l[i].id = 0
    BY <1>5 DEF ToAppend
  <2>2. \A i : (\E r \in s : r.id = i) => \E r \in t : r.id = i
    OBVIOUS
  <2>3. \A r \in t : Known(l, r.id)
    BY <1>4, <1>5 DEF ToAppend
  <2> HIDE DEF t
  <2> QED BY <1>3, <2>1, <2>2, <2>3 DEF ToAppend
<1> QED BY <1>3, <1>4, <1>5 DEF t

LEMMA WriteOrderNumbers ==
  ASSUME Typing, NumberInv, NEW p \in Procs, NEW m, Effect(p, m), WriteOrder(p)
  PROVE  NumberInv'
<1> DEFINE l == req[p].pages
           Position(r) == CHOOSE i \in DOMAIN l : l[i].id = r.id
           new(r) == IF \E i \in DOMAIN l : l[i].id = r.id
                     THEN [r EXCEPT !.number = Position(r)] ELSE r
           f == [r \in pages |-> new(r)]
<1>1. /\ At(p, "reorder") /\ pages' = {new(r) : r \in pages} /\ story' = story
      /\ Commit(p, Done)
  BY DEF WriteOrder
<1>2. /\ rowIds \in Nat /\ Rows(pages, rowIds)
      /\ \A q \in Procs : Controlled(req[q]) /\ Copies(req[q].pages, rowIds)
  BY DEF Typing, Scalars
<1>3. Moves(p, m) /\ Grows(p) /\ req'[p] = m
  BY DEF Effect, Moves
<1>4. m = Done
  BY <1>1, <1>3, Resumed
<1>5. \A t : Holds(t, m) /\ \A y : Together(m, y) /\ Together(y, m)
  BY <1>4, DoneTyped, HoldNothing DEF Holding
<1>6. req[p].op = "reorder" /\ req[p].pc = "reorder"
  BY <1>1, <1>2 DEF Controlled, At
<1>7. Copies(l, rowIds) /\ DOMAIN l = 1..Len(l) /\ Len(l) \in Nat
  <2>1. Copies(l, rowIds)
    BY <1>2
  <2> QED BY <2>1, LenProperties DEF Copies
<1>8. ASSUME NEW r \in pages
      PROVE  /\ new(r) \in Row /\ new(r).id = r.id
             /\ Known(l, r.id) => /\ Position(r) \in 1..Len(l) /\ l[Position(r)].id = r.id
                                  /\ new(r).number = Position(r)
             /\ ~Known(l, r.id) => new(r) = r
  <2>1. r \in Row
    BY <1>2 DEF Rows
  <2> HIDE DEF l
  <2>2. CASE Known(l, r.id)
    <3>1. \E i \in DOMAIN l : l[i].id = r.id
      BY <1>7, <2>2 DEF Known
    <3>2. Position(r) \in DOMAIN l /\ l[Position(r)].id = r.id
      BY <3>1
    <3>3. new(r) = [r EXCEPT !.number = Position(r)]
      BY <3>1
    <3> HIDE DEF Position, new
    <3>4. Position(r) \in 1..Len(l) /\ Position(r) \in Nat \ {0}
      BY <1>7, <3>2
    <3> QED BY <2>1, <2>2, <3>2, <3>3, <3>4 DEF Row
  <2>3. CASE ~Known(l, r.id)
    <3>1. ~\E i \in DOMAIN l : l[i].id = r.id
      BY <1>7, <2>3 DEF Known
    <3> QED BY <2>1, <2>3, <3>1
  <2> QED BY <2>2, <2>3
<1> HIDE DEF new, l, Position
<1>9. f \in [pages -> Row] /\ \A r \in pages : f[r] = new(r) /\ f[r].id = r.id
  BY <1>8
<1>10. pages' = {f[r] : r \in pages}
  BY <1>1, <1>9
<1> HIDE DEF f
<1>11. /\ Cardinality(pages') = Cardinality(pages)
       /\ \A x : ToAppend(pages, x) => ToAppend(pages', x)
       /\ \A x : (\A r \in pages : Known(x, r.id)) => \A r \in pages' : Known(x, r.id)
  <2> DEFINE t == {f[r] : r \in pages}
  <2>1. /\ Cardinality(t) = Cardinality(pages)
        /\ \A x : ToAppend(pages, x) => ToAppend(t, x)
        /\ \A x : (\A r \in pages : Known(x, r.id)) => \A r \in t : Known(x, r.id)
    BY <1>2, <1>9, SameIdsHold
  <2>2. pages' = t
    BY <1>10
  <2> HIDE DEF t
  <2> QED BY <2>1, <2>2, Zenon
<1>12. ASSUME ~disturbed' PROVE InOrderAfter(p, m)
  <2>1. ~disturbed /\ ~req[p].stale
    BY <1>1, <1>12 DEF Commit
  <2>2. /\ \A i \in 1..Len(l) : \E r \in pages : r.id = l[i].id
        /\ \A r \in pages : r.number <= Len(l) <=> Known(l, r.id)
    <3>1. ToReorder(pages, l)
      BY <1>6, <2>1 DEF NumberInv, Holds, l
    <3> QED BY <3>1 DEF ToReorder
  <2>3. Sequential(pages)
    BY <2>1 DEF NumberInv
  <2>4. Len(l) <= Cardinality(pages) /\ Cardinality(pages) \in Nat
    BY <1>2, <1>7, <2>2, KnownFew
  <2>5. \A r \in pages : r.number \in Nat /\ r.number <= Cardinality(pages)
    BY <1>2, <2>3 DEF Rows, Row, Sequential
  <2>6. ASSUME NEW r \in pages, NEW q \in pages, new(r).number = new(q).number PROVE r = q
    <3>1. CASE Known(l, r.id) /\ Known(l, q.id)
      <4>1. r.id = q.id
        BY <1>8, <2>6, <3>1
      <4> QED BY <1>2, <4>1 DEF Rows
    <3>2. CASE ~Known(l, r.id) /\ ~Known(l, q.id)
      <4>1. r.number = q.number
        BY <1>8, <2>6, <3>2
      <4> QED BY <2>3, <4>1 DEF Sequential
    <3>3. CASE Known(l, r.id) /\ ~Known(l, q.id)
      BY <1>7, <1>8, <2>2, <2>5, <2>6, <3>3
    <3>4. CASE ~Known(l, r.id) /\ Known(l, q.id)
      BY <1>7, <1>8, <2>2, <2>5, <2>6, <3>4
    <3> QED BY <3>1, <3>2, <3>3, <3>4
  <2>7. ASSUME NEW r \in pages PROVE new(r).number <= Cardinality(pages)
    <3>1. CASE Known(l, r.id)
      <4>1. new(r).number \in 1..Len(l)
        BY <1>8, <3>1
      <4> QED BY <1>7, <2>4, <4>1
    <3>2. CASE ~Known(l, r.id)
      BY <1>8, <2>5, <3>2
    <3> QED BY <3>1, <3>2
  <2>8. Sequential(pages')
    <3>1. \A x \in pages' : \E r \in pages : x = new(r)
      BY <1>1
    <3>2. \A x, y \in pages' : x.number = y.number => x = y
      BY <2>6, <3>1
    <3>3. \A x \in pages' : x.number <= Cardinality(pages')
      BY <1>11, <2>7, <3>1
    <3> QED BY <3>2, <3>3, Zenon DEF Sequential
  <2>9. ASSUME NEW q \in Procs \ {p}, ~req'[q].stale PROVE Holds(pages', req[q])
    <3>1. \/ req[q].pc \in {"idle", "done"}
          \/ req[q].op \in {"append", "update", "updatePage", "deletePage"}
      BY <1>1, <1>6, <2>9, DoneTyped, CommitMoves DEF Marks, Unaffected
    <3>2. Controlled(req[q])
      BY <1>2
    <3>3. req[q].pc \notin {"pages", "reorder", "image"}
      BY <3>1, <3>2 DEF Controlled
    <3>4. ~req[q].stale
      BY <1>3, <2>9 DEF Grows
    <3>5. Holds(pages, req[q])
      BY <2>1, <3>4 DEF NumberInv
    <3> QED BY <1>11, <3>3, <3>5 DEF Holds
  <2> QED BY <1>5, <2>8, <2>9 DEF InOrderAfter
<1>13. ~story'.exists => pages' = {}
  BY <1>1 DEF NumberInv
<1> QED BY <1>3, <1>12, <1>13, NumberStep

(* The image of a page is saved over its row, which keeps its number.      *)
LEMMA SaveImageNumbers ==
  ASSUME Typing, NumberInv, NEW p \in Procs, NEW m, Effect(p, m), SaveImage(p)
  PROVE  NumberInv'
<1> DEFINE r == req[p].pages[1]
           n == [r EXCEPT !.image = r.text]
           l == <<n>>
<1>1. /\ At(p, "image") /\ story' = story
      /\ IF story.exists THEN pages' = Saved(pages, l) /\ Save(p, Done)
         ELSE Finish(p) /\ UNCHANGED <<pages, disturbed>>
  BY DEF SaveImage
<1>2. /\ rowIds \in Nat /\ Rows(pages, rowIds)
      /\ Controlled(req[p]) /\ Copies(req[p].pages, rowIds)
  BY DEF Typing, Scalars
<1>3. Moves(p, m) /\ Grows(p) /\ req'[p] = m
  BY DEF Effect, Moves
<1>4. m = Done
  BY <1>1, <1>3, Resumed DEF Finish, Save
<1>5. \A t : Holds(t, m) /\ \A y : Together(m, y) /\ Together(y, m)
  BY <1>4, DoneTyped, HoldNothing DEF Holding
<1>6. CASE story.exists
  <2>1. ASSUME ~disturbed' PROVE InOrderAfter(p, m)
    <3>1. ~disturbed /\ ~req[p].stale /\ pages' = Saved(pages, l) /\ Save(p, Done)
      BY <1>1, <1>6, <2>1 DEF Save
    <3>2. PICK x \in pages : x.id = r.id /\ x.number = r.number
      BY <1>1, <3>1 DEF NumberInv, Holds, At
    <3>3. r.id # 0 /\ r \in Row
      <4>1. Len(req[p].pages) = 1 /\ req[p].pc = "image"
        BY <1>1, <1>2 DEF At, Controlled
      <4>2. r.id # 0
        BY <1>2, <4>1 DEF Controlled
      <4>3. r \in Row
        BY <1>2, <4>1, ElementOfSeq DEF Copies
      <4> QED BY <4>2, <4>3
    <3> HIDE DEF r
    <3>4. n \in Row /\ n.id = r.id /\ n.number = r.number
      BY <3>3 DEF Row
    <3> HIDE DEF n
    <3>5. DOMAIN l = 1..1 /\ l[1] = n
      OBVIOUS
    <3>6. \A y : y \in Saved(pages, l) <=> y = n \/ (y \in pages /\ y.id # n.id)
      <4> HIDE DEF l
      <4>1. Numbered(l) = [i \in 1..1 |-> n]
        BY <3>3, <3>4, <3>5 DEF Numbered
      <4>2. Range(Numbered(l)) = {n}
        BY <4>1 DEF Range
      <4> QED BY <3>5, <4>2 DEF Saved
    <3> HIDE DEF l
    <3> DEFINE f == [y \in pages |-> IF y.id = n.id THEN n ELSE y]
    <3>7. \A y \in pages : y \in Row
      BY <1>2 DEF Rows
    <3>8. f \in [pages -> Row] /\ \A y \in pages : f[y] = IF y.id = n.id THEN n ELSE y
      BY <3>4, <3>7
    <3>9. \A y \in pages : y.id = n.id => y = x
      BY <1>2, <3>2, <3>4 DEF Rows
    <3> HIDE DEF f
    <3>10. \A y \in pages : f[y].id = y.id /\ f[y].number = y.number
      BY <3>2, <3>4, <3>8, <3>9
    <3>11. pages' = {f[y] : y \in pages}
      <4>1. \A y \in pages' : \E z \in pages : y = f[z]
        BY <3>1, <3>2, <3>4, <3>6, <3>8
      <4>2. \A z \in pages : f[z] \in pages'
        BY <3>1, <3>6, <3>8
      <4> QED BY <4>1, <4>2
    <3>12. /\ Cardinality(pages') = Cardinality(pages)
           /\ \A y : ToAppend(pages, y) => ToAppend(pages', y)
           /\ \A y : (\A z \in pages : Known(y, z.id)) => \A z \in pages' : Known(y, z.id)
      <4> DEFINE t == {f[y] : y \in pages}
      <4>1. /\ Cardinality(t) = Cardinality(pages)
            /\ \A y : ToAppend(pages, y) => ToAppend(t, y)
            /\ \A y : (\A z \in pages : Known(y, z.id)) => \A z \in t : Known(y, z.id)
        BY <1>2, <3>8, <3>10, SameIdsHold
      <4>2. pages' = t
        BY <3>11
      <4> HIDE DEF t
      <4> QED BY <4>1, <4>2, Zenon
    <3>13. Sequential(pages) /\ \A q \in Procs : ~req[q].stale => Holds(pages, req[q])
      BY <3>1 DEF NumberInv
    <3>14. Sequential(pages')
      <4>1. \A y, z \in pages' : y.number = z.number => y = z
        BY <3>10, <3>11, <3>13 DEF Sequential
      <4>2. \A y \in pages' : y.number <= Cardinality(pages)
        BY <3>10, <3>11, <3>13 DEF Sequential
      <4> QED BY <3>12, <4>1, <4>2, Zenon DEF Sequential
    <3>15. ASSUME NEW q \in Procs \ {p}, ~req'[q].stale PROVE Holds(pages', req[q])
      <4>1. ~req[q].stale
        BY <1>3, <3>15 DEF Grows
      <4>2. Holds(pages, req[q])
        BY <3>13, <4>1
      <4>3. ASSUME req[q].pc = "reorder" PROVE ToReorder(pages', req[q].pages)
        <5>1. ToReorder(pages, req[q].pages)
          BY <4>2, <4>3 DEF Holds
        <5> QED BY <3>10, <3>11, <5>1 DEF ToReorder
      <4>4. ASSUME req[q].pc = "image"
            PROVE  \E y \in pages' : /\ y.id = req[q].pages[1].id
                                     /\ y.number = req[q].pages[1].number
        <5>1. PICK y \in pages : /\ y.id = req[q].pages[1].id
                                 /\ y.number = req[q].pages[1].number
          BY <4>2, <4>4 DEF Holds
        <5> QED BY <3>10, <3>11, <5>1
      <4>5. ASSUME req[q].pc = "pages" PROVE pages' = {}
        BY <3>11, <4>2, <4>5 DEF Holds
      <4> QED BY <3>12, <4>2, <4>3, <4>4, <4>5 DEF Holds
    <3> QED BY <1>5, <3>14, <3>15 DEF InOrderAfter
  <2>2. story'.exists
    BY <1>1, <1>6
  <2> QED BY <1>3, <2>1, <2>2, NumberStep
<1>7. CASE ~story.exists
  <2>1. (~story'.exists => pages' = {}) /\ pages' = pages
    BY <1>1, <1>7 DEF NumberInv
  <2> QED BY <1>3, <1>5, <2>1, PlainNumbers
<1> QED BY <1>6, <1>7

(* Every step leaves the pages in order.                                   *)
LEMMA NumberNext ==
  ASSUME PagesInv, NumberInv, [Next]_vars
  PROVE  NumberInv'
<1>1. CASE Next
  <2>1. PICK p \in Procs :
          \/ Create(p) \/ CreatePages(p) \/ LoadStory(p) \/ SaveStory(p)
          \/ LoadForRemove(p) \/ DeleteStory(p) \/ AppendRead(p) \/ AppendWrite(p)
          \/ FindPage(p) \/ ListForUpdate(p) \/ ListForDelete(p) \/ ReplaceRead(p)
          \/ ReplaceWrite(p) \/ CheckOrder(p) \/ WriteOrder(p) \/ LoadPage(p)
          \/ SaveImage(p) \/ CheckShare(p) \/ InsertShare(p) \/ TellOther(p)
          \/ FindShare(p) \/ RemoveShare(p)
    BY <1>1, Zenon DEF Next
  <2>2. Typing /\ StoryInv
    BY DEF PagesInv
  <2>3. PICK m : Effect(p, m)
    BY <2>1, <2>2, NextSteps
  <2>4. Moves(p, m) /\ Grows(p) /\ req'[p] = m
    BY <2>3 DEF Effect, Moves
  <2>5. CASE \/ LoadStory(p) \/ SaveStory(p) \/ LoadForRemove(p) \/ FindPage(p)
             \/ ListForUpdate(p) \/ ListForDelete(p) \/ CheckShare(p) \/ InsertShare(p)
             \/ TellOther(p) \/ FindShare(p) \/ RemoveShare(p)
    <3>1. /\ m.pc \notin Holding /\ pages' = pages
          /\ story' = story \/ story'.exists
      BY <2>2, <2>4, <2>5, PlainSteps
    <3>2. ~story'.exists => pages' = {}
      BY <3>1 DEF NumberInv
    <3>3. \A s : Holds(s, m) /\ \A y : Together(m, y) /\ Together(y, m)
      BY <3>1, HoldNothing
    <3> QED BY <2>4, <3>1, <3>2, <3>3, PlainNumbers
  <2>6. CASE Create(p)
    BY <2>2, <2>3, <2>6, CreateNumbers
  <2>7. CASE CreatePages(p)
    BY <2>2, <2>3, <2>7, CreatePagesNumbers
  <2>8. CASE DeleteStory(p)
    BY <2>2, <2>3, <2>8, DeleteStoryNumbers
  <2>9. CASE AppendRead(p)
    BY <2>2, <2>3, <2>9, AppendReadNumbers
  <2>10. CASE AppendWrite(p)
    BY <2>2, <2>3, <2>10, AppendWriteNumbers
  <2>11. CASE ReplaceRead(p)
    BY <2>2, <2>3, <2>11, ReplaceReadNumbers
  <2>12. CASE ReplaceWrite(p)
    BY <2>2, <2>3, <2>12, ReplaceWriteNumbers
  <2>13. CASE CheckOrder(p)
    BY <2>2, <2>3, <2>13, CheckOrderNumbers
  <2>14. CASE WriteOrder(p)
    BY <2>2, <2>3, <2>14, WriteOrderNumbers
  <2>15. CASE LoadPage(p)
    BY <2>2, <2>3, <2>15, LoadPageNumbers
  <2>16. CASE SaveImage(p)
    BY <2>2, <2>3, <2>16, SaveImageNumbers
  <2> QED BY <2>1, <2>5, <2>6, <2>7, <2>8, <2>9, <2>10, <2>11, <2>12, <2>13, <2>14, <2>15,
             <2>16
<1>2. CASE UNCHANGED vars
  BY <1>2 DEF vars, NumberInv
<1> QED BY <1>1, <1>2

LEMMA NumberInit ==
  ASSUME Init
  PROVE  NumberInv
<1>1. pages = {} /\ \A p \in Procs : req[p].pc = "idle"
  BY DEF Init, Idle
<1>2. Sequential(pages)
  BY <1>1 DEF Sequential
<1>3. \A p \in Procs : Holds(pages, req[p]) /\ \A x : Together(req[p], x)
  BY <1>1, HoldNothing DEF Holding
<1> QED BY <1>1, <1>2, <1>3 DEF NumberInv

(* Whatever runs beside whatever, the pages of a story are numbered 1..n   *)
(* until a request saves over what it had not seen: appends wait for each  *)
(* other, and a reordering beside an append writes numbers that the append *)
(* writes too (story.service.ts:687-770, 885-922).                         *)
THEOREM PagesNumberedInOrder == Spec => []NumberedInOrder
<1>1. Init => PagesInv /\ NumberInv
  BY PagesInit, NumberInit
<1>2. PagesInv /\ NumberInv /\ [Next]_vars => PagesInv' /\ NumberInv'
  BY PagesNext, NumberNext
<1>3. ASSUME PagesInv, NumberInv PROVE NumberedInOrder
  <2>1. rowIds \in Nat /\ Rows(pages, rowIds)
    BY <1>3 DEF PagesInv, Typing, Scalars
  <2> QED BY <1>3, <2>1, SequentialNumbers DEF NumberInv, NumberedInOrder
<1> QED BY <1>1, <1>2, <1>3, PTL DEF Spec

-----------------------------------------------------------------------------
(* The words on the pages.                                                 *)

(* Words of a text of which n have been used.                              *)
Sound(ws, n) ==
  /\ Ids(ws) \subseteq 0..n
  /\ WordsFit => ~HasLong(ws) /\ Distinct(ws)
Texts(l) == [i \in DOMAIN l |-> l[i].text]
IdsOn(s) == UNION {Ids(Words(r.text)) : r \in s}
(* No word is on two pages.                                                *)
Spread(s, n) ==
  /\ \A r \in s : Sound(Words(r.text), n)
  /\ WordsFit => \A r, q \in s : r.id # q.id => Ids(Words(r.text)) \cap Ids(Words(q.text)) = {}

(* What a copy that is not stale says of the words: s are the pages, st    *)
(* the story.                                                              *)
Carries(s, st, n, m) ==
  /\ m.pc = "pages" => /\ st.status # "READY" /\ Sound(Words(m.story.text), n)
                       /\ m.parts = Sections(m.story.text)
  /\ m.pc = "save" /\ m.op = "create" =>
       /\ Sound(Words(m.story.text), n)
       /\ m.story.status = "READY" => IdsOn(s) = Ids(Words(m.story.text))
  /\ m.pc = "save" /\ m.op = "update" => m.story.text = st.text /\ m.story.status = st.status
  /\ m.pc = "append" =>
       /\ Sound(Words(m.story.text), n) /\ Sound(AllWords(Texts(m.pages)), n)
       /\ m.story.status = "READY" => Ids(AllWords(Texts(m.pages))) = Ids(Words(m.story.text))
  /\ m.pc \in {"current", "replace"} =>
       Sound(Words(m.source), n) /\ m.parts = Sections(m.source)
  /\ m.pc = "image" => \E r \in s : r.id = m.pages[1].id /\ r.text = m.pages[1].text

WordsOn(s, st, n) ==
  /\ Spread(s, n) /\ Sound(Words(st.text), n)
  /\ st.status = "READY" => IdsOn(s) = Ids(Words(st.text))
TextInv ==
  ~disturbed =>
    /\ WordsOn(pages, story, words)
    /\ \A q \in Procs : ~req[q].stale => Carries(pages, story, words, req[q])

LEMMA InIdsOn ==
  ASSUME NEW s
  PROVE  \A x : x \in IdsOn(s) <=> \E r \in s : x \in Ids(Words(r.text))
BY DEF IdsOn

LEMMA SoundMore ==
  ASSUME NEW n \in Nat, NEW k \in Nat, n <= k, NEW ws, Sound(ws, n)
  PROVE  Sound(ws, k)
<1>1. 0..n \subseteq 0..k
  OBVIOUS
<1> QED BY <1>1 DEF Sound

LEMMA SoundConcat ==
  ASSUME NEW k \in Nat, NEW p \in Paragraph, NEW q \in Paragraph, Sound(p, k), Sound(q, k),
         Ids(p) \cap Ids(q) = {}
  PROVE  Sound(p \o q, k) /\ Ids(p \o q) = Ids(p) \cup Ids(q)
<1>1. /\ Ids(p \o q) = Ids(p) \cup Ids(q)
      /\ HasLong(p \o q) <=> HasLong(p) \/ HasLong(q)
      /\ Distinct(p \o q) <=> /\ Distinct(p) /\ Distinct(q) /\ Ids(p) \cap Ids(q) = {}
  BY IdsConcat, LongConcat, DistinctConcat
<1> QED BY <1>1 DEF Sound

LEMMA SoundNothing ==
  ASSUME NEW n
  PROVE  <<>> \in Text /\ Words(<<>>) = <<>> /\ Ids(<<>>) = {} /\ Sound(<<>>, n)
<1>1. Len(<<>>) = 0 /\ 1..0 = {} /\ <<>> \in Text
  BY DEF Text
<1>2. Words(<<>>) = <<>>
  BY FlattenEmpty DEF Words
<1>3. Ids(<<>>) = {} /\ ~HasLong(<<>>) /\ Distinct(<<>>)
  BY <1>1 DEF Ids, HasLong, Distinct
<1> QED BY <1>1, <1>2, <1>3 DEF Sound

(* The pages of a sound text have its words.                               *)
LEMMA SoundSections ==
  ASSUME NEW k \in Nat, NEW t \in Text, Sound(Words(t), k)
  PROVE  /\ Sections(t) \in Seq(Text) /\ AllWords(Sections(t)) \in Paragraph
         /\ Sound(AllWords(Sections(t)), k) /\ Ids(AllWords(Sections(t))) = Ids(Words(t))
<1>1. /\ Sections(t) \in Seq(Text) /\ AllWords(Sections(t)) \in Paragraph
      /\ Ids(AllWords(Sections(t))) = Ids(Words(t))
      /\ ~HasLong(Words(t)) => AllWords(Sections(t)) = Words(t)
  BY SectionsWords
<1>2. Sound(AllWords(Sections(t)), k)
  <2>1. CASE WordsFit
    <3>1. AllWords(Sections(t)) = Words(t)
      BY <1>1, <2>1 DEF Sound
    <3> QED BY <3>1, Zenon
  <2>2. CASE ~WordsFit
    BY <1>1, <2>2 DEF Sound
  <2> QED BY <2>1, <2>2
<1> QED BY <1>1, <1>2

(* A new word.                                                             *)
LEMMA SoundNew ==
  ASSUME words \in Nat, NEW len \in EditLens
  PROVE  /\ NewText(len) \in Text /\ Ids(Words(NewText(len))) = {words + 1}
         /\ Sound(Words(NewText(len)), words + 1)
<1> DEFINE w == [id |-> words + 1, len |-> len, stop |-> TRUE]
           p == <<w>>
           t == <<p>>
<1>1. len \in Nat \ {0}
  BY PagesAssumption
<1>2. w \in Word /\ w.id = words + 1 /\ w.len = len
  BY <1>1 DEF Word
<1>3. NewText(len) = t
  BY DEF NewText
<1>4. NewText(len) \in Text
  BY NewTextTyped
<1> HIDE DEF w
<1>5. /\ p \in Paragraph /\ Len(p) = 1 /\ p[1] = w /\ Ids(p) = {w.id}
      /\ HasLong(p) <=> w.len > MaxChars
  BY <1>2, OneWord
<1> HIDE DEF p
<1>6. Words(NewText(len)) = p
  <2>1. FlattenSeq(t) = p
    BY <1>5, FlattenOne DEF Paragraph
  <2> QED BY <1>3, <2>1, Zenon DEF Words
<1>7. Distinct(p)
  BY <1>5 DEF Distinct
<1>8. WordsFit => ~(w.len > MaxChars)
  <2>1. MaxChars \in Nat
    BY SectionsAssumption
  <2>2. WordsFit => len <= MaxChars
    BY DEF WordsFit
  <2> QED BY <1>1, <1>2, <2>1, <2>2
<1>9. words + 1 \in 0..(words + 1)
  OBVIOUS
<1> QED BY <1>2, <1>4, <1>5, <1>6, <1>7, <1>8, <1>9 DEF Sound

(* The texts of copies.                                                    *)
LEMMA TextsTyped ==
  ASSUME NEW n, NEW l, Copies(l, n)
  PROVE  /\ Texts(l) \in Seq(Text) /\ Len(Texts(l)) = Len(l) /\ Len(l) \in Nat
         /\ \A i \in 1..Len(l) : Texts(l)[i] = l[i].text /\ l[i].text \in Text
<1>1. l \in Seq(Row) /\ Len(l) \in Nat /\ DOMAIN l = 1..Len(l)
  BY LenProperties DEF Copies
<1>2. \A i \in 1..Len(l) : l[i].text \in Text
  <2>1. \A i \in 1..Len(l) : l[i] \in Row
    BY <1>1, ElementOfSeq
  <2> QED BY <2>1 DEF Row
<1> DEFINE T == Text
           g(i) == l[i].text
           x == Texts(l)
<1>3. x = [i \in 1..Len(l) |-> g(i)] /\ \A i \in 1..Len(l) : g(i) \in T
  BY <1>1, <1>2 DEF Texts
<1> HIDE DEF T, g, x
<1>4. x \in Seq(T) /\ Len(x) = Len(l) /\ \A i \in 1..Len(l) : x[i] = g(i)
  BY <1>1, <1>3
<1> QED BY <1>1, <1>2, <1>4, Zenon DEF T, g, x

(* What the words of a list have in common with those of its elements.     *)
LEMMA ListedSound ==
  ASSUME NEW k, NEW l \in Seq(Text)
  PROVE  Sound(AllWords(l), k) <=>
           /\ \A i \in 1..Len(l) : Sound(Words(l[i]), k)
           /\ WordsFit => \A i, j \in 1..Len(l) : i # j =>
                            Ids(Words(l[i])) \cap Ids(Words(l[j])) = {}
<1>1. /\ \A x : x \in Ids(AllWords(l)) <=> \E i \in 1..Len(l) : x \in Ids(Words(l[i]))
      /\ HasLong(AllWords(l)) <=> \E i \in 1..Len(l) : HasLong(Words(l[i]))
      /\ Distinct(AllWords(l)) <=> Apart(l)
  BY WordsOfAll
<1>2. Ids(AllWords(l)) \subseteq 0..k <=> \A i \in 1..Len(l) : Ids(Words(l[i])) \subseteq 0..k
  BY <1>1
<1>3. Apart(l) <=>
        /\ \A i \in 1..Len(l) : Distinct(Words(l[i]))
        /\ \A i, j \in 1..Len(l) : i # j => Ids(Words(l[i])) \cap Ids(Words(l[j])) = {}
  BY DEF Apart
<1>4. CASE WordsFit
  BY <1>1, <1>2, <1>3, <1>4 DEF Sound
<1>5. CASE ~WordsFit
  BY <1>2, <1>5 DEF Sound
<1> QED BY <1>4, <1>5

(* A list of the pages has the words of the pages.                         *)
LEMMA WordsListed ==
  ASSUME NEW n \in Nat, NEW s, Rows(s, n), NEW l \in Listed(s), NEW k, Spread(s, k)
  PROVE  Sound(AllWords(Texts(l)), k) /\ Ids(AllWords(Texts(l))) = IdsOn(s)
<1>1. /\ Copies(l, n) /\ \A i \in 1..Len(l) : l[i] \in s /\ l[i].id # 0
      /\ \A r \in s : \E i \in 1..Len(l) : r = l[i]
  BY ListedCopies
<1> DEFINE t == Texts(l)
<1>2. /\ t \in Seq(Text) /\ Len(t) = Len(l) /\ \A i \in 1..Len(l) : t[i] = l[i].text
  BY <1>1, TextsTyped
<1> HIDE DEF t
<1>3. \A i, j \in 1..Len(l) : i # j => l[i].id # l[j].id
  BY <1>1 DEF Copies
<1>4. \A i \in 1..Len(t) : Sound(Words(t[i]), k)
  BY <1>1, <1>2 DEF Spread
<1>5. ASSUME WordsFit, NEW i \in 1..Len(t), NEW j \in 1..Len(t), i # j
      PROVE  Ids(Words(t[i])) \cap Ids(Words(t[j])) = {}
  <2>1. l[i] \in s /\ l[j] \in s /\ l[i].id # l[j].id
    BY <1>1, <1>2, <1>3, <1>5
  <2>2. Ids(Words(l[i].text)) \cap Ids(Words(l[j].text)) = {}
    BY <1>5, <2>1 DEF Spread
  <2> QED BY <1>2, <2>2
<1>6. Sound(AllWords(t), k)
  BY <1>2, <1>4, <1>5, ListedSound
<1>7. \A x : x \in Ids(AllWords(t)) <=> \E i \in 1..Len(l) : x \in Ids(Words(l[i].text))
  BY <1>2, WordsOfAll
<1>8. \A x : x \in Ids(AllWords(t)) <=> x \in IdsOn(s)
  BY <1>1, <1>7, InIdsOn
<1> QED BY <1>6, <1>8 DEF t

(* Pages that a list is saved as have the words of the list.               *)
LEMMA WordsSaved ==
  ASSUME rowIds \in Nat, NEW l, Copies(l, rowIds), NEW s,
         \A r : r \in s <=> \E i \in 1..Len(l) : r = Numbered(l)[i],
         NEW k, Sound(AllWords(Texts(l)), k)
  PROVE  Spread(s, k) /\ IdsOn(s) = Ids(AllWords(Texts(l)))
<1> DEFINE t == Texts(l)
           m == Numbered(l)
<1>1. /\ t \in Seq(Text) /\ Len(t) = Len(l) /\ \A i \in 1..Len(l) : t[i] = l[i].text
  BY TextsTyped
<1>2. \A i \in 1..Len(l) : m[i].text = l[i].text
  BY NumberedCopies
<1>3. \A i, j \in 1..Len(l) : m[i].id = m[j].id => i = j
  BY NumberedCopies
<1> HIDE DEF t, m
<1>4. /\ \A i \in 1..Len(t) : Sound(Words(t[i]), k)
      /\ WordsFit => \A i, j \in 1..Len(t) : i # j =>
                       Ids(Words(t[i])) \cap Ids(Words(t[j])) = {}
  BY <1>1, ListedSound DEF t
<1>5. \A r \in s : \E i \in 1..Len(t) : r = m[i] /\ r.text = t[i]
  BY <1>1, <1>2 DEF m
<1>6. \A r \in s : Sound(Words(r.text), k)
  BY <1>4, <1>5
<1>7. ASSUME WordsFit, NEW r \in s, NEW q \in s, r.id # q.id
      PROVE  Ids(Words(r.text)) \cap Ids(Words(q.text)) = {}
  <2>1. PICK i \in 1..Len(t) : r = m[i] /\ r.text = t[i]
    BY <1>5
  <2>2. PICK j \in 1..Len(t) : q = m[j] /\ q.text = t[j]
    BY <1>5
  <2>3. i # j
    BY <1>7, <2>1, <2>2
  <2>4. Ids(Words(t[i])) \cap Ids(Words(t[j])) = {}
    BY <1>4, <1>7, <2>3
  <2> QED BY <2>1, <2>2, <2>4
<1>8. \A x : x \in Ids(AllWords(t)) <=> \E i \in 1..Len(t) : x \in Ids(Words(t[i]))
  BY <1>1, WordsOfAll
<1>9. \A i \in 1..Len(t) : \E r \in s : r.text = t[i]
  BY <1>1, <1>2 DEF m
<1>10. \A x : x \in IdsOn(s) <=> x \in Ids(AllWords(t))
  BY <1>5, <1>8, <1>9, InIdsOn
<1> QED BY <1>6, <1>7, <1>10 DEF Spread, t

LEMMA TextsConcat ==
  ASSUME NEW n, NEW a, NEW b, Copies(a, n), Copies(b, n), Copies(a \o b, n)
  PROVE  Texts(a \o b) = Texts(a) \o Texts(b)
<1> DEFINE l == a \o b
           x == Texts(a)
           y == Texts(b)
           z == Texts(l)
           T == Text
<1>1. a \in Seq(Row) /\ b \in Seq(Row)
  BY DEF Copies
<1>2. /\ Len(l) = Len(a) + Len(b)
      /\ \A i \in 1..(Len(a) + Len(b)) : l[i] = IF i <= Len(a) THEN a[i] ELSE b[i - Len(a)]
  BY <1>1, ConcatProperties
<1> HIDE DEF l
<1>3. /\ x \in Seq(T) /\ Len(x) = Len(a) /\ Len(a) \in Nat /\ \A i \in 1..Len(a) : x[i] = a[i].text
      /\ y \in Seq(T) /\ Len(y) = Len(b) /\ Len(b) \in Nat /\ \A i \in 1..Len(b) : y[i] = b[i].text
      /\ z \in Seq(T) /\ Len(z) = Len(l) /\ \A i \in 1..Len(l) : z[i] = l[i].text
  BY TextsTyped DEF l
<1> HIDE DEF x, y, z, T
<1>4. /\ Len(x \o y) = Len(x) + Len(y) /\ x \o y \in Seq(T)
      /\ \A i \in 1..(Len(x) + Len(y)) :
           (x \o y)[i] = IF i <= Len(x) THEN x[i] ELSE y[i - Len(x)]
  <2>1. x \in Seq(T) /\ y \in Seq(T)
    BY <1>3
  <2> QED BY <2>1, ConcatProperties
<1>5. ASSUME NEW i \in 1..Len(z) PROVE z[i] = (x \o y)[i]
  <2>1. CASE i <= Len(a)
    <3>1. i \in 1..Len(a) /\ l[i] = a[i] /\ (x \o y)[i] = x[i]
      BY <1>2, <1>3, <1>4, <2>1
    <3> QED BY <1>3, <3>1
  <2>2. CASE ~(i <= Len(a))
    <3>1. /\ i - Len(a) \in 1..Len(b) /\ l[i] = b[i - Len(a)] /\ (x \o y)[i] = y[i - Len(a)]
          /\ i \in 1..Len(l)
      BY <1>2, <1>3, <1>4, <2>2
    <3>2. y[i - Len(a)] = b[i - Len(a)].text /\ z[i] = l[i].text
      BY <1>3, <3>1
    <3> QED BY <3>1, <3>2, Zenon
  <2> QED BY <2>1, <2>2
<1>6. Len(z) = Len(x \o y)
  BY <1>2, <1>3, <1>4
<1>7. z = x \o y
  BY <1>3, <1>4, <1>5, <1>6, SeqEqual
<1> QED BY <1>7, Zenon DEF x, y, z, l

LEMMA TextsNew ==
  ASSUME NEW n \in Nat, NEW parts \in Seq(Text)
  PROVE  Texts(NewPages(n, parts)) = parts
<1> DEFINE l == NewPages(n, parts)
           T == Text
           x == Texts(l)
<1>1. Copies(l, 0) /\ Len(l) = Len(parts) /\ \A i \in 1..Len(l) : l[i].text = parts[i]
  BY NewCopies
<1> HIDE DEF l
<1>2. x \in Seq(T) /\ Len(x) = Len(l) /\ \A i \in 1..Len(l) : x[i] = l[i].text
  BY <1>1, TextsTyped
<1> HIDE DEF x, T
<1>3. \A i \in 1..Len(x) : x[i] = parts[i]
  BY <1>1, <1>2
<1>4. parts \in Seq(T) /\ Len(x) = Len(parts)
  BY <1>1, <1>2 DEF T
<1>5. x = parts
  BY <1>2, <1>3, <1>4, SeqEqual
<1> QED BY <1>5 DEF x, l

LEMMA TextsReplaced ==
  ASSUME NEW n \in Nat, NEW m, Copies(m.pages, n), m.parts \in Seq(Text)
  PROVE  Texts(Replaced(m)) = m.parts
<1> DEFINE k == Min({Len(m.pages), Len(m.parts)})
           kept == SubSeq(m.pages, 1, k)
           row(i) == [kept[i] EXCEPT !.number = i, !.text = m.parts[i],
                                     !.image = ImageFor(kept[i], m.parts[i])]
           old == [i \in DOMAIN kept |-> row(i)]
           more == SubSeq(m.parts, k + 1, Len(m.parts))
           new == NewPages(k, more)
           first == SubSeq(m.parts, 1, k)
           T == Text
<1>1. /\ Len(m.pages) \in Nat /\ Len(m.parts) \in Nat /\ m.pages \in Seq(Row)
      /\ \A i \in 1..Len(m.pages) : m.pages[i] \in Row
  BY LenProperties, ElementOfSeq DEF Copies
<1>2. k \in 0..Len(m.pages) /\ k <= Len(m.parts) /\ k \in Nat /\ k \in 0..Len(m.parts)
  BY <1>1 DEF Min
<1>3. Replaced(m) = old \o NewPages(Len(kept), SubSeq(m.parts, Len(kept) + 1, Len(m.parts)))
  BY Zenon DEF Replaced
<1> HIDE DEF k
<1>4. kept \in Seq(Row) /\ Len(kept) = k /\ \A i \in 1..k : kept[i] = m.pages[i]
  <2>1. \A i \in 1..k : m.pages[i] \in Row
    BY <1>1, <1>2
  <2> QED BY <1>2, <2>1, SubSeqProperties
<1>5. Replaced(m) = old \o new
  BY <1>3, <1>4, Zenon
<1>6. Copies(old, n) /\ Len(kept) = k
  BY <1>2, PartCopies
<1>7. /\ first \in Seq(T) /\ more \in Seq(T) /\ m.parts = first \o more /\ Len(first) = k
  BY <1>2, CutInTwo DEF Cut
<1>8. Copies(new, n) /\ \A i \in 1..Len(new) : new[i].id = 0
  <2>1. more \in Seq(Text)
    BY <1>7
  <2> HIDE DEF more
  <2> QED BY <1>2, <2>1, NewCopies, ZenonT(30)
<1>9. Texts(new) = more
  BY <1>2, <1>7, TextsNew
<1>10. \A i \in 1..k : first[i] = m.parts[i]
  <2> DEFINE P == m.parts
  <2>1. P \in Seq(Text) /\ \A i \in 1..k : P[i] \in Text
    BY <1>1, <1>2, ElementOfSeq
  <2> HIDE DEF P
  <2>2. \A i \in 1..k : SubSeq(P, 1, k)[i] = P[i]
    BY <1>2, <2>1, SubSeqProperties
  <2> QED BY <2>2 DEF P
<1>11. Texts(old) = first
  <2>1. Texts(old) \in Seq(T) /\ Len(Texts(old)) = Len(old)
        /\ \A i \in 1..Len(old) : Texts(old)[i] = old[i].text
    BY <1>6, TextsTyped
  <2>2. DOMAIN kept = 1..k /\ DOMAIN old = 1..k
    BY <1>4, LenProperties
  <2>3. \A i \in 1..k : old[i].text = m.parts[i]
    <3> SUFFICES ASSUME NEW i \in 1..k PROVE old[i].text = m.parts[i]
      OBVIOUS
    <3>1. kept[i] \in Row /\ i \in DOMAIN kept
      BY <1>1, <1>2, <1>4, <2>2
    <3>2. old[i] = row(i)
      BY <3>1
    <3>3. row(i).text = m.parts[i]
      BY <3>1 DEF Row
    <3> QED BY <3>2, <3>3, Zenon
  <2>4. Len(old) = k
    <3>1. old \in Seq(Row)
      BY <1>6 DEF Copies
    <3> HIDE DEF old
    <3> QED BY <1>2, <2>2, <3>1, LenProperties
  <2> HIDE DEF old, first, T
  <2>5. \A i \in 1..Len(Texts(old)) : Texts(old)[i] = first[i]
    BY <1>10, <2>1, <2>3, <2>4
  <2> QED BY <1>7, <2>1, <2>4, <2>5, SeqEqual
<1> HIDE DEF old, new, first, more
<1>12. Copies(old \o new, n)
  BY <1>6, <1>8, ConcatCopies
<1>13. Texts(old \o new) = Texts(old) \o Texts(new)
  BY <1>6, <1>8, <1>12, TextsConcat
<1> QED BY <1>5, <1>7, <1>9, <1>11, <1>13, Zenon

(* A list in which the page i0 is given another text.                      *)
Edited(l, i0, t) ==
  [i \in DOMAIN l |-> IF l[i].id # i0 THEN l[i] ELSE [l[i] EXCEPT !.text = t]]

LEMMA EditedTexts ==
  ASSUME NEW n \in Nat, NEW s, Rows(s, n), NEW l \in Listed(s), NEW t \in Text, NEW i0
  PROVE  LET e == Edited(l, i0, t)
         IN \E x \in Seq(Text) :
              /\ Len(x) = Len(l)
              /\ \A i \in 1..Len(l) : x[i] = IF l[i].id # i0 THEN l[i].text ELSE t
              /\ Source(e) \in Text /\ Words(Source(e)) = AllWords(x)
<1> DEFINE row(i) == IF l[i].id # i0 THEN l[i] ELSE [l[i] EXCEPT !.text = t]
           e == Edited(l, i0, t)
           x == Texts(e)
           T == Text
<1>1. /\ Copies(l, n) /\ \A i \in 1..Len(l) : l[i] \in s /\ l[i].id # 0
      /\ DOMAIN l = 1..Len(l)
  BY ListedCopies
<1>2. Len(l) \in Nat /\ \A i \in 1..Len(l) : l[i] \in Row
  BY <1>1, LenProperties, ElementOfSeq DEF Copies
<1>3. \A i \in 1..Len(l) : row(i).text = IF l[i].id # i0 THEN l[i].text ELSE t
  BY <1>2 DEF Row
<1>4. e = [i \in 1..Len(l) |-> row(i)]
  BY <1>1 DEF Edited
<1> DEFINE g(i) == row(i).text
<1>5. x = [i \in 1..Len(l) |-> g(i)]
  BY <1>4 DEF Texts
<1>6. \A i \in 1..Len(l) : g(i) \in T
  BY <1>2, <1>3 DEF Row
<1>7. \A i \in 1..Len(l) : g(i) = IF l[i].id # i0 THEN l[i].text ELSE t
  BY <1>3
<1> HIDE DEF g, row, e, T, x
<1>8. x \in Seq(T) /\ Len(x) = Len(l) /\ \A i \in 1..Len(l) : x[i] = g(i)
  BY <1>2, <1>5, <1>6
<1>9. FlattenSeq(x) \in Text /\ Words(FlattenSeq(x)) = AllWords(x)
  BY <1>8, JoinedWords DEF T
<1>10. Source(e) = FlattenSeq(x)
  BY Zenon DEF Source, Texts, x
<1>11. Source(e) \in Text /\ Words(Source(e)) = AllWords(x)
  BY <1>9, <1>10, Zenon
<1>12. \A i \in 1..Len(l) : x[i] = IF l[i].id # i0 THEN l[i].text ELSE t
  BY <1>7, <1>8
<1>13. x \in Seq(Text) /\ Len(x) = Len(l)
  BY <1>8 DEF T
<1> HIDE DEF x
<1> QED BY <1>11, <1>12, <1>13 DEF e

(* If no page has a word of the other text, the words stay sound; in any   *)
(* case they are words of the pages or of that text.                       *)
LEMMA EditedSound ==
  ASSUME NEW n \in Nat, NEW s, Rows(s, n), NEW l \in Listed(s), NEW k, NEW t \in Text, NEW i0
  PROVE  LET e == Edited(l, i0, t)
         IN /\ Source(e) \in Text
            /\ Ids(Words(Source(e))) \subseteq IdsOn(s) \cup Ids(Words(t))
            /\ Spread(s, k) /\ Sound(Words(t), k) /\ IdsOn(s) \cap Ids(Words(t)) = {} =>
                 Sound(Words(Source(e)), k)
<1> DEFINE e == Edited(l, i0, t)
<1>1. PICK x \in Seq(Text) :
        /\ Len(x) = Len(l)
        /\ \A i \in 1..Len(l) : x[i] = IF l[i].id # i0 THEN l[i].text ELSE t
        /\ Source(e) \in Text /\ Words(Source(e)) = AllWords(x)
  BY EditedTexts
<1> HIDE DEF e
<1>2. Copies(l, n) /\ \A i \in 1..Len(l) : l[i] \in s /\ l[i].id # 0
  BY ListedCopies
<1>3. Ids(AllWords(x)) \subseteq IdsOn(s) \cup Ids(Words(t))
  <2>1. \A y : y \in Ids(AllWords(x)) => \E i \in 1..Len(x) : y \in Ids(Words(x[i]))
    BY WordsOfAll
  <2>2. \A i \in 1..Len(x) : (x[i] = l[i].text /\ l[i] \in s) \/ x[i] = t
    BY <1>1, <1>2
  <2> QED BY <2>1, <2>2, InIdsOn
<1>4. ASSUME Spread(s, k), Sound(Words(t), k), IdsOn(s) \cap Ids(Words(t)) = {}
      PROVE  Sound(AllWords(x), k)
  <2>1. \A i \in 1..Len(x) : Sound(Words(x[i]), k)
    <3>1. \A i \in 1..Len(l) : Sound(Words(l[i].text), k)
      BY <1>2, <1>4 DEF Spread
    <3> QED BY <1>1, <1>4, <3>1
  <2>2. ASSUME WordsFit, NEW i \in 1..Len(x), NEW j \in 1..Len(x), i # j
        PROVE  Ids(Words(x[i])) \cap Ids(Words(x[j])) = {}
    <3>1. l[i] \in s /\ l[j] \in s /\ l[i].id # l[j].id
      BY <1>1, <1>2, <2>2 DEF Copies
    <3>2. /\ x[i] = IF l[i].id # i0 THEN l[i].text ELSE t
          /\ x[j] = IF l[j].id # i0 THEN l[j].text ELSE t
      BY <1>1
    <3>3. /\ Ids(Words(l[i].text)) \cap Ids(Words(t)) = {}
          /\ Ids(Words(l[j].text)) \cap Ids(Words(t)) = {}
      BY <1>4, <3>1, InIdsOn
    <3>4. Ids(Words(l[i].text)) \cap Ids(Words(l[j].text)) = {}
      BY <1>4, <2>2, <3>1 DEF Spread
    <3>5. CASE l[i].id # i0 /\ l[j].id # i0
      BY <3>2, <3>4, <3>5
    <3>6. CASE l[i].id # i0 /\ l[j].id = i0
      BY <3>2, <3>3, <3>6
    <3>7. CASE l[i].id = i0 /\ l[j].id # i0
      BY <3>2, <3>3, <3>7
    <3> QED BY <3>1, <3>5, <3>6, <3>7
  <2> QED BY <2>1, <2>2, ListedSound
<1> QED BY <1>1, <1>3, <1>4, Zenon DEF e

-----------------------------------------------------------------------------
(* New words.                                                              *)

(* The words that a request has in anything that it holds.                 *)
Owned(m) ==
  Ids(Words(m.story.text)) \cup Ids(AllWords(Texts(m.pages)))
    \cup Ids(Words(m.source)) \cup Ids(AllWords(m.parts))
Stored == IdsOn(pages) \cup Ids(Words(story.text))

(* The text of an edit is nowhere else until it is put into the list of    *)
(* pages, whatever has become of the page meanwhile.                       *)
Alone(q) ==
  /\ Sound(Words(req[q].source), words)
  /\ Ids(Words(req[q].source)) \cap Stored = {}
  /\ \A x \in Procs \ {q} : Ids(Words(req[q].source)) \cap Owned(req[x]) = {}
FreshInv ==
  /\ Stored \subseteq 0..words
  /\ \A q \in Procs : Owned(req[q]) \subseteq 0..words
  /\ \A q \in Procs : At(q, "list") => Alone(q)

LEMMA OwnedSame ==
  ASSUME NEW a, NEW b, Same(a, b)
  PROVE  Owned(a) = Owned(b)
BY Zenon DEF Same, Owned

(* A step puts words from what the request holds, from the rows or new     *)
(* ones where it likes.                                                    *)
LEMMA FreshStep ==
  ASSUME Typing, FreshInv, NEW p \in Procs, NEW m, Moves(p, m),
         words' \in Nat, words <= words', NEW new \in SUBSET ((words + 1)..words'),
         Owned(m) \subseteq Owned(req[p]) \cup Stored \cup new,
         Stored' \subseteq Owned(req[p]) \cup Stored \cup new,
         m.pc = "list" => /\ Sound(Words(m.source), words') /\ Ids(Words(m.source)) \subseteq new
                          /\ Stored' = Stored
  PROVE  FreshInv'
<1>1. words \in Nat
  BY DEF Typing, Scalars
<1>2. 0..words \subseteq 0..words' /\ new \subseteq 0..words' /\ new \cap 0..words = {}
  BY <1>1
<1>3. req'[p] = m /\ \A q \in Procs \ {p} : Same(req'[q], req[q]) /\ Owned(req'[q]) = Owned(req[q])
  BY OwnedSame DEF Moves
<1>4. /\ Stored \subseteq 0..words
      /\ \A q \in Procs : Owned(req[q]) \subseteq 0..words
      /\ \A q \in Procs : At(q, "list") => Alone(q)
  BY DEF FreshInv
<1>5. Stored' \subseteq 0..words'
  BY <1>2, <1>4
<1>6. \A q \in Procs : Owned(req'[q]) \subseteq 0..words'
  BY <1>2, <1>3, <1>4
<1>7. ASSUME NEW q \in Procs, req'[q].pc = "list"
      PROVE  /\ Sound(Words(req'[q].source), words')
             /\ Ids(Words(req'[q].source)) \cap Stored' = {}
             /\ \A x \in Procs \ {q} : Ids(Words(req'[q].source)) \cap Owned(req'[x]) = {}
  <2>1. CASE q = p
    <3>1. /\ Sound(Words(m.source), words') /\ Ids(Words(m.source)) \subseteq new
          /\ Stored' = Stored
      BY <1>3, <1>7, <2>1
    <3>2. \A x \in Procs \ {q} : Owned(req'[x]) \subseteq 0..words
      BY <1>3, <1>4, <2>1
    <3> QED BY <1>2, <1>3, <1>4, <2>1, <3>1, <3>2
  <2>2. CASE q # p
    <3> DEFINE i == Ids(Words(req[q].source))
    <3>1. req'[q].source = req[q].source /\ req[q].pc = "list"
      BY <1>3, <1>7, <2>2 DEF Same
    <3>2. Alone(q) /\ i \subseteq Owned(req[q])
      BY <1>4, <3>1 DEF At, Owned
    <3>3. Sound(Words(req[q].source), words')
      BY <1>1, <3>2, SoundMore DEF Alone
    <3>4. /\ i \cap Stored = {} /\ i \cap Owned(req[p]) = {} /\ i \cap new = {}
          /\ \A x \in Procs \ {q} : i \cap Owned(req[x]) = {}
      BY <1>2, <1>4, <2>2, <3>2 DEF Alone
    <3> HIDE DEF i
    <3>5. i \cap Stored' = {} /\ i \cap Owned(m) = {}
      BY <3>4
    <3>6. \A x \in Procs \ {q} : i \cap Owned(req'[x]) = {}
      BY <1>3, <3>4, <3>5
    <3> QED BY <3>1, <3>3, <3>5, <3>6 DEF i
  <2> QED BY <2>1, <2>2
<1>8. \A q \in Procs : At(q, "list")' => Alone(q)'
  BY <1>7 DEF At, Alone
<1> QED BY <1>5, <1>6, <1>8 DEF FreshInv

-----------------------------------------------------------------------------
(* A step, and the words.                                                  *)

Carrying == {"pages", "save", "append", "current", "replace", "image"}

LEMMA CarryNothing ==
  ASSUME NEW s, NEW st, NEW n, NEW m, m.pc \notin Carrying
  PROVE  Carries(s, st, n, m)
BY DEF Carries, Carrying

(* Pages of which neither ids nor texts differ.                            *)
Alter(s, t) ==
  /\ \A r \in s : \E q \in t : q.id = r.id /\ q.text = r.text
  /\ \A q \in t : \E r \in s : q.id = r.id /\ q.text = r.text

LEMMA AlterIds ==
  ASSUME NEW s, NEW t, Alter(s, t)
  PROVE  IdsOn(t) = IdsOn(s)
<1>1. \A x : x \in IdsOn(t) <=> \E r \in t : x \in Ids(Words(r.text))
  BY InIdsOn
<1>2. \A x : x \in IdsOn(s) <=> \E r \in s : x \in Ids(Words(r.text))
  BY InIdsOn
<1>3. ASSUME NEW x, NEW r \in t, x \in Ids(Words(r.text))
      PROVE  \E q \in s : x \in Ids(Words(q.text))
  <2>1. PICK q \in s : r.text = q.text
    BY DEF Alter
  <2> QED BY <1>3, <2>1
<1>4. ASSUME NEW x, NEW r \in s, x \in Ids(Words(r.text))
      PROVE  \E q \in t : x \in Ids(Words(q.text))
  <2>1. PICK q \in t : q.text = r.text
    BY DEF Alter
  <2> QED BY <1>4, <2>1
<1> QED BY <1>1, <1>2, <1>3, <1>4

LEMMA WordsKeptOn ==
  ASSUME NEW s, NEW t, Alter(s, t), NEW st, NEW u, u.text = st.text, u.status = st.status,
         NEW n \in Nat, NEW k \in Nat, n <= k
  PROVE  /\ WordsOn(s, st, n) => WordsOn(t, u, k)
         /\ \A m : Carries(s, st, n, m) => Carries(t, u, k, m)
<1>1. IdsOn(t) = IdsOn(s)
  BY AlterIds
<1>2. \A ws : Sound(ws, n) => Sound(ws, k)
  BY SoundMore
<1>3. ASSUME Spread(s, n) PROVE Spread(t, k)
  <2>1. \A r \in t : Sound(Words(r.text), k)
    <3> SUFFICES ASSUME NEW r \in t PROVE Sound(Words(r.text), k)
      OBVIOUS
    <3>1. PICK q \in s : r.text = q.text
      BY DEF Alter
    <3>2. Sound(Words(q.text), n)
      BY <1>3 DEF Spread
    <3> QED BY <1>2, <3>1, <3>2
  <2>2. ASSUME WordsFit, NEW r \in t, NEW q \in t, r.id # q.id
        PROVE  Ids(Words(r.text)) \cap Ids(Words(q.text)) = {}
    <3>1. PICK x \in s : r.id = x.id /\ r.text = x.text
      BY DEF Alter
    <3>2. PICK y \in s : q.id = y.id /\ q.text = y.text
      BY DEF Alter
    <3>3. x.id # y.id
      BY <2>2, <3>1, <3>2
    <3>4. Ids(Words(x.text)) \cap Ids(Words(y.text)) = {}
      BY <1>3, <2>2, <3>3 DEF Spread
    <3> QED BY <3>1, <3>2, <3>4
  <2> QED BY <2>1, <2>2 DEF Spread
<1>4. WordsOn(s, st, n) => WordsOn(t, u, k)
  BY <1>1, <1>2, <1>3 DEF WordsOn
<1>5. ASSUME NEW m, Carries(s, st, n, m) PROVE Carries(t, u, k, m)
  <2>1. m.pc = "pages" => /\ u.status # "READY" /\ Sound(Words(m.story.text), k)
                          /\ m.parts = Sections(m.story.text)
    BY <1>2, <1>5 DEF Carries
  <2>2. m.pc = "save" /\ m.op = "create" =>
          /\ Sound(Words(m.story.text), k)
          /\ m.story.status = "READY" => IdsOn(t) = Ids(Words(m.story.text))
    BY <1>1, <1>2, <1>5 DEF Carries
  <2>3. m.pc = "save" /\ m.op = "update" => m.story.text = u.text /\ m.story.status = u.status
    BY <1>5 DEF Carries
  <2>4. m.pc = "append" =>
          /\ Sound(Words(m.story.text), k) /\ Sound(AllWords(Texts(m.pages)), k)
          /\ m.story.status = "READY" => Ids(AllWords(Texts(m.pages))) = Ids(Words(m.story.text))
    BY <1>2, <1>5 DEF Carries
  <2>5. m.pc \in {"current", "replace"} => Sound(Words(m.source), k) /\ m.parts = Sections(m.source)
    BY <1>2, <1>5 DEF Carries
  <2>6. ASSUME m.pc = "image"
        PROVE  \E r \in t : r.id = m.pages[1].id /\ r.text = m.pages[1].text
    <3>1. PICK x \in s : x.id = m.pages[1].id /\ x.text = m.pages[1].text
      BY <1>5, <2>6 DEF Carries
    <3> QED BY <3>1 DEF Alter
  <2> QED BY <2>1, <2>2, <2>3, <2>4, <2>5, <2>6, Zenon DEF Carries
<1> QED BY <1>4, <1>5

(* What a step has to leave.                                               *)
WordsAfter(p, m) ==
  /\ WordsOn(pages', story', words')
  /\ \A q \in Procs \ {p} : ~req'[q].stale => Carries(pages', story', words', req[q])
  /\ ~m.stale => Carries(pages', story', words', m)

LEMMA CarriesSame ==
  ASSUME NEW s, NEW st, NEW n, NEW a, NEW b, Same(a, b), Carries(s, st, n, b)
  PROVE  Carries(s, st, n, a)
<1>1. /\ a.pc = b.pc /\ a.op = b.op /\ a.story = b.story /\ a.pages = b.pages
      /\ a.source = b.source /\ a.parts = b.parts
  BY DEF Same
<1> QED BY <1>1, Zenon DEF Carries

LEMMA WordsStep ==
  ASSUME TextInv, NEW p \in Procs, NEW m, Moves(p, m), Grows(p),
         ~disturbed' => WordsAfter(p, m)
  PROVE  TextInv'
<1>1. req'[p] = m /\ \A q \in Procs \ {p} : Same(req'[q], req[q])
  BY DEF Moves
<1>2. ASSUME ~disturbed', NEW q \in Procs, ~req'[q].stale
      PROVE  Carries(pages', story', words', req'[q])
  <2>1. CASE q = p
    BY <1>1, <1>2, <2>1 DEF WordsAfter
  <2>2. CASE q # p
    <3>1. Carries(pages', story', words', req[q]) /\ Same(req'[q], req[q])
      BY <1>1, <1>2, <2>2 DEF WordsAfter
    <3> QED BY <3>1, CarriesSame
  <2> QED BY <2>1, <2>2
<1>3. ~disturbed' => WordsOn(pages', story', words')
  BY DEF WordsAfter
<1> QED BY <1>2, <1>3 DEF TextInv

(* A step that leaves the words where they are.                            *)
LEMMA PlainWords ==
  ASSUME Typing, TextInv, NEW p \in Procs, NEW m, Moves(p, m), Grows(p),
         words' \in Nat, words <= words',
         ~disturbed' => /\ Alter(pages, pages')
                        /\ story'.text = story.text /\ story'.status = story.status
                        /\ ~m.stale => Carries(pages', story', words', m)
  PROVE  TextInv'
<1>1. words \in Nat
  BY DEF Typing, Scalars
<1>2. ASSUME ~disturbed' PROVE WordsAfter(p, m)
  <2>1. /\ WordsOn(pages, story, words)
        /\ \A q \in Procs : ~req[q].stale => Carries(pages, story, words, req[q])
    BY <1>2 DEF TextInv, Grows
  <2>2. /\ WordsOn(pages, story, words) => WordsOn(pages', story', words')
        /\ \A x : Carries(pages, story, words, x) => Carries(pages', story', words', x)
    BY <1>1, <1>2, WordsKeptOn
  <2>3. \A q \in Procs \ {p} : ~req'[q].stale => ~req[q].stale
    BY DEF Grows
  <2> QED BY <1>2, <2>1, <2>2, <2>3 DEF WordsAfter
<1> QED BY <1>2, WordsStep

LEMMA AlterNothing ==
  ASSUME NEW s
  PROVE  Alter(s, s)
BY DEF Alter

(* After a commit of create, of remove or of a rewriting, the others that  *)
(* are not stale carry no words.                                           *)
LEMMA OthersCarryNothing ==
  ASSUME Typing, NEW p \in Procs, NEW x \in Request, Commit(p, x),
         req[p].op \in {"create", "remove", "updatePage", "deletePage"},
         NEW q \in Procs \ {p}, ~req'[q].stale, NEW s, NEW st, NEW n
  PROVE  Carries(s, st, n, req[q])
<1>1. ~Marks(p, q)
  BY CommitMoves
<1>2. Unaffected(req[p].op) = {}
  BY DEF Unaffected
<1>3. req[q].pc \notin Carrying
  BY <1>1, <1>2 DEF Marks, Carrying
<1> QED BY <1>3, CarryNothing

-----------------------------------------------------------------------------
(* The steps.                                                              *)

WordsInv == FreshInv /\ TextInv

LEMMA NoList ==
  Texts(<<>>) = <<>> /\ AllWords(<<>>) = <<>> /\ Ids(AllWords(<<>>)) = {}
<1>1. Texts(<<>>) = <<>>
  BY DEF Texts
<1> QED BY <1>1, TextWordsNone, SoundNothing

LEMMA StartedOwns ==
  /\ \A p, op, pc : LET m == Started(p, op, pc)
                    IN /\ m.pc = pc /\ m.op = op /\ m.story = NoStory /\ m.pages = <<>>
                       /\ m.source = <<>> /\ m.parts = <<>>
                       /\ Owned(m) = {}
  /\ Owned(Done) = {} /\ Ids(Words(NoStory.text)) = {}
<1>1. NoStory.text = <<>>
  BY DEF NoStory
<1>2. /\ Idle.story = NoStory /\ Idle.pages = <<>> /\ Idle.source = <<>> /\ Idle.parts = <<>>
      /\ Done.story = NoStory /\ Done.pages = <<>> /\ Done.source = <<>> /\ Done.parts = <<>>
  BY DEF Idle, Done
<1>3. \A m : m.story = NoStory /\ m.pages = <<>> /\ m.source = <<>> /\ m.parts = <<>>
               => Owned(m) = {}
  <2> SUFFICES ASSUME NEW m, m.story = NoStory, m.pages = <<>>, m.source = <<>>, m.parts = <<>>
               PROVE  Owned(m) = {}
    OBVIOUS
  <2>1. Ids(Words(m.story.text)) = {} /\ Ids(Words(m.source)) = {}
    BY <1>1, SoundNothing
  <2>2. Ids(AllWords(Texts(m.pages))) = {} /\ Ids(AllWords(m.parts)) = {}
    BY NoList
  <2> QED BY <2>1, <2>2 DEF Owned
<1>4. \A p, op, pc : LET m == Started(p, op, pc)
                     IN /\ m.pc = pc /\ m.op = op /\ m.story = NoStory /\ m.pages = <<>>
                        /\ m.source = <<>> /\ m.parts = <<>>
  BY <1>2 DEF Started, Idle
<1> QED BY <1>1, <1>2, <1>3, <1>4, SoundNothing

LEMMA ListOwns ==
  ASSUME NEW n, NEW l, Copies(l, n), NEW s, \A i \in 1..Len(l) : l[i] \in s
  PROVE  Ids(AllWords(Texts(l))) \subseteq IdsOn(s)
<1> DEFINE t == Texts(l)
<1>1. t \in Seq(Text) /\ Len(t) = Len(l) /\ \A i \in 1..Len(l) : t[i] = l[i].text
  BY TextsTyped
<1> HIDE DEF t
<1>2. \A x : x \in Ids(AllWords(t)) <=> \E i \in 1..Len(l) : x \in Ids(Words(l[i].text))
  BY <1>1, WordsOfAll
<1>3. \A x : x \in Ids(AllWords(t)) => x \in IdsOn(s)
  BY <1>2, InIdsOn
<1> QED BY <1>3 DEF t

LEMMA SavedOwns ==
  ASSUME rowIds \in Nat, NEW l, Copies(l, rowIds), NEW s
  PROVE  IdsOn(Saved(s, l)) \subseteq IdsOn(s) \cup Ids(AllWords(Texts(l)))
<1> DEFINE t == Texts(l)
           m == Numbered(l)
<1>1. t \in Seq(Text) /\ Len(t) = Len(l) /\ \A i \in 1..Len(l) : t[i] = l[i].text
  BY TextsTyped
<1>2. m \in Seq(Row) /\ Len(m) = Len(l) /\ \A i \in 1..Len(l) : m[i].text = l[i].text
  BY NumberedCopies
<1>3. \A r \in Saved(s, l) : r \in s \/ r \in Range(m)
  BY DEF Saved
<1> HIDE DEF t, m
<1>4. \A r \in Saved(s, l) : r \in s \/ \E i \in 1..Len(l) : r.text = t[i]
  BY <1>1, <1>2, <1>3, SequenceFinite
<1>5. \A x : x \in Ids(AllWords(t)) <=> \E i \in 1..Len(l) : x \in Ids(Words(t[i]))
  BY <1>1, WordsOfAll
<1>6. \A x : x \in IdsOn(Saved(s, l)) => x \in IdsOn(s) \/ x \in Ids(AllWords(t))
  BY <1>4, <1>5, InIdsOn
<1> QED BY <1>6 DEF t

(* A step that reads the rows.                                             *)
LEMMA ReadWords ==
  ASSUME Typing, WordsInv, NEW p \in Procs, NEW m, Moves(p, m), Grows(p),
         UNCHANGED <<story, pages, words>>, m.pc # "list",
         Owned(m) \subseteq Owned(req[p]) \cup Stored,
         ~disturbed' /\ ~m.stale => Carries(pages, story, words, m)
  PROVE  WordsInv'
<1>1. words \in Nat /\ FreshInv /\ TextInv
  BY DEF Typing, Scalars, WordsInv
<1>2. Stored' = Stored
  BY DEF Stored
<1>3. words' \in Nat /\ words <= words'
  BY <1>1
<1>4. FreshInv'
  <2>1. {} \in SUBSET ((words + 1)..words')
    OBVIOUS
  <2>2. /\ Owned(m) \subseteq Owned(req[p]) \cup Stored \cup {}
        /\ Stored' \subseteq Owned(req[p]) \cup Stored \cup {}
    BY <1>2
  <2> QED BY <1>1, <1>3, <2>1, <2>2, FreshStep
<1>5. TextInv'
  BY <1>1, <1>3, AlterNothing, PlainWords
<1> QED BY <1>4, <1>5 DEF WordsInv

LEMMA IdleWords ==
  ASSUME Typing, WordsInv, NEW p \in Procs, NEW m, Effect(p, m),
         \/ LoadForRemove(p) \/ CheckShare(p) \/ InsertShare(p) \/ TellOther(p)
         \/ FindShare(p) \/ RemoveShare(p)
  PROVE  WordsInv'
<1>1. \A x : Resume(p, x) => req'[p] = x
  BY Resumed
<1>2. Moves(p, m) /\ Grows(p) /\ req'[p] = m
  BY DEF Effect, Moves
<1>3. req[p] \in Request
  BY DEF Typing
<1>4. UNCHANGED <<story, pages, words>>
  BY DEF LoadForRemove, CheckShare, InsertShare, TellOther, FindShare, RemoveShare
<1>5. CASE LoadForRemove(p) \/ CheckShare(p) \/ FindShare(p)
  <2>1. \E op, pc : Resume(p, Started(p, op, pc)) /\ pc \in {"delete", "share", "unshare"}
    BY <1>5 DEF LoadForRemove, CheckShare, FindShare
  <2>2. m.pc \notin Carrying \cup {"list"} /\ Owned(m) = {}
    BY <1>1, <1>2, <2>1, StartedOwns DEF Carrying
  <2>3. Carries(pages, story, words, m)
    BY <2>2, CarryNothing
  <2> QED BY <1>2, <1>4, <2>2, <2>3, ReadWords
<1>6. CASE InsertShare(p) \/ TellOther(p) \/ RemoveShare(p)
  <2> DEFINE x == [req[p] EXCEPT !.pc = "tell"]
  <2>1. Resume(p, x) \/ Resume(p, Done)
    BY <1>6 DEF InsertShare, TellOther, RemoveShare, Finish
  <2>2. /\ x.pc = "tell" /\ x.story = req[p].story /\ x.pages = req[p].pages
        /\ x.source = req[p].source /\ x.parts = req[p].parts
    BY <1>3 DEF Request
  <2> HIDE DEF x
  <2>3. Owned(x) = Owned(req[p])
    BY <2>2, Zenon DEF Owned
  <2>4. m.pc \notin Carrying \cup {"list"} /\ Owned(m) \subseteq Owned(req[p])
    BY <1>1, <1>2, <2>1, <2>2, <2>3, DoneTyped, StartedOwns DEF Carrying
  <2>5. Carries(pages, story, words, m)
    BY <2>4, CarryNothing
  <2> QED BY <1>2, <1>4, <2>4, <2>5, ReadWords
<1> QED BY <1>5, <1>6

LEMMA LoadStoryWords ==
  ASSUME Typing, WordsInv, NEW p \in Procs, NEW m, Effect(p, m), LoadStory(p)
  PROVE  WordsInv'
<1>1. PICK v : Resume(p, [Started(p, "update", "save") EXCEPT
                            !.story = [story EXCEPT !.visibility = v]])
  BY Zenon DEF LoadStory
<1>2. UNCHANGED <<story, pages, words>>
  BY DEF LoadStory
<1>3. story \in StoryRow
  BY DEF Typing, Scalars
<1>4. Moves(p, m) /\ Grows(p) /\ req'[p] = m
  BY DEF Effect, Moves
<1> DEFINE c == [story EXCEPT !.visibility = v]
           b == Started(p, "update", "save")
<1>5. c.text = story.text /\ c.status = story.status
  BY <1>3 DEF StoryRow
<1>6. m = [b EXCEPT !.story = c]
  BY <1>1, <1>4, Resumed
<1> HIDE DEF c
<1>7. /\ m.pc = "save" /\ m.op = "update" /\ m.story = c
      /\ m.pages = <<>> /\ m.source = <<>> /\ m.parts = <<>>
  BY <1>6 DEF Started, Idle
<1>8. Owned(m) \subseteq Stored
  <2>1. Owned(m) = Ids(Words(story.text)) \cup Ids(AllWords(Texts(<<>>)))
                     \cup Ids(Words(<<>>)) \cup Ids(AllWords(<<>>))
    BY <1>5, <1>7, Zenon DEF Owned
  <2> QED BY <2>1, NoList, SoundNothing DEF Stored
<1>9. Carries(pages, story, words, m)
  BY <1>5, <1>7 DEF Carries
<1> QED BY <1>2, <1>4, <1>7, <1>8, <1>9, ReadWords

LEMMA FindPageWords ==
  ASSUME Typing, WordsInv, NEW p \in Procs, NEW m, Effect(p, m), FindPage(p)
  PROVE  WordsInv'
<1>1. PICK r \in pages, len \in EditLens :
        Resume(p, [Started(p, "updatePage", "list") EXCEPT
                     !.target = r.id, !.source = NewText(len)])
  BY Zenon DEF FindPage
<1>2. UNCHANGED <<story, pages>> /\ words' = words + 1
  BY DEF FindPage
<1>3. words \in Nat /\ FreshInv /\ TextInv
  BY DEF Typing, Scalars, WordsInv
<1>4. Moves(p, m) /\ Grows(p) /\ req'[p] = m
  BY DEF Effect, Moves
<1> DEFINE t == NewText(len)
           new == {words + 1}
<1>5. Ids(Words(t)) = new /\ Sound(Words(t), words + 1)
  BY <1>3, SoundNew
<1>6. m = [Started(p, "updatePage", "list") EXCEPT !.target = r.id, !.source = t]
  BY <1>1, <1>4, Resumed
<1> HIDE DEF t
<1>7. /\ m.pc = "list" /\ m.source = t /\ m.story = NoStory /\ m.pages = <<>> /\ m.parts = <<>>
  BY <1>6 DEF Started, Idle
<1>8. Owned(m) = new
  <2>1. Owned(m) = Ids(Words(NoStory.text)) \cup Ids(AllWords(Texts(<<>>)))
                     \cup Ids(Words(t)) \cup Ids(AllWords(<<>>))
    BY <1>7, Zenon DEF Owned
  <2> QED BY <1>5, <2>1, NoList, StartedOwns
<1>9. Stored' = Stored
  BY <1>2 DEF Stored
<1>10. FreshInv'
  <2>1. new \in SUBSET ((words + 1)..words') /\ words' \in Nat /\ words <= words'
    BY <1>2, <1>3
  <2>2. /\ Sound(Words(m.source), words') /\ Ids(Words(m.source)) \subseteq new
    BY <1>2, <1>5, <1>7
  <2> HIDE DEF new
  <2>3. /\ Owned(m) \subseteq Owned(req[p]) \cup Stored \cup new
        /\ Stored' \subseteq Owned(req[p]) \cup Stored \cup new
    BY <1>8, <1>9
  <2> QED BY <1>3, <1>4, <1>9, <2>1, <2>2, <2>3, FreshStep
<1>11. TextInv'
  <2>1. Carries(pages', story', words', m)
    BY <1>7, CarryNothing DEF Carrying
  <2>2. words' \in Nat /\ words <= words'
    BY <1>2, <1>3
  <2> QED BY <1>2, <1>3, <1>4, <2>1, <2>2, AlterNothing, PlainWords
<1> QED BY <1>10, <1>11 DEF WordsInv

(* The request has the whole text, and its pages.                          *)
LEMMA RewritingCarries ==
  ASSUME NEW p, NEW op, NEW t \in Text
  PROVE  LET m == Rewriting(p, op, t)
         IN /\ m.pc = "current" /\ Owned(m) = Ids(Words(t))
            /\ \A s, st, n : Sound(Words(t), n) => Carries(s, st, n, m)
<1> DEFINE m == Rewriting(p, op, t)
<1>1. /\ m.pc = "current" /\ m.source = t /\ m.parts = Sections(t)
      /\ m.story = NoStory /\ m.pages = <<>>
  BY DEF Rewriting, Started, Idle
<1> HIDE DEF m
<1>2. \A s, st, n : Sound(Words(t), n) => Carries(s, st, n, m)
  BY <1>1 DEF Carries
<1>3. Owned(m) = Ids(Words(t))
  <2>1. Owned(m) = Ids(Words(NoStory.text)) \cup Ids(AllWords(Texts(<<>>)))
                     \cup Ids(Words(t)) \cup Ids(AllWords(Sections(t)))
    BY <1>1, Zenon DEF Owned
  <2>2. Ids(AllWords(Sections(t))) = Ids(Words(t))
    BY SectionsWords
  <2> QED BY <2>1, <2>2, NoList, StartedOwns
<1> QED BY <1>1, <1>2, <1>3 DEF m

LEMMA ListForUpdateWords ==
  ASSUME Typing, WordsInv, NEW p \in Procs, NEW m, Effect(p, m), ListForUpdate(p)
  PROVE  WordsInv'
<1> DEFINE i0 == req[p].target
           t  == req[p].source
<1>1. PICK l \in Listed(pages) :
        Resume(p, Rewriting(p, "updatePage", Source(Edited(l, i0, t))))
  BY Zenon DEF ListForUpdate, Edited
<1>2. UNCHANGED <<story, pages, words>> /\ At(p, "list")
  BY DEF ListForUpdate
<1>3. rowIds \in Nat /\ Rows(pages, rowIds) /\ t \in Text
  BY DEF Typing, Scalars, Request
<1>4. Moves(p, m) /\ Grows(p) /\ req'[p] = m
  BY DEF Effect, Moves
<1>5. Sound(Words(t), words) /\ Ids(Words(t)) \cap Stored = {}
  BY <1>2 DEF WordsInv, FreshInv, Alone
<1>6. Ids(Words(t)) \subseteq Owned(req[p])
  BY DEF Owned
<1> HIDE DEF t, i0
<1> DEFINE u == Source(Edited(l, i0, t))
<1>7. /\ u \in Text /\ Ids(Words(u)) \subseteq IdsOn(pages) \cup Ids(Words(t))
      /\ Spread(pages, words) /\ Sound(Words(t), words) /\ IdsOn(pages) \cap Ids(Words(t)) = {} =>
           Sound(Words(u), words)
  BY <1>3, EditedSound, Zenon
<1>8. m = Rewriting(p, "updatePage", u)
  BY <1>1, <1>4, Resumed
<1> HIDE DEF u
<1>9. /\ m.pc = "current" /\ Owned(m) = Ids(Words(u))
      /\ \A s, st, n : Sound(Words(u), n) => Carries(s, st, n, m)
  BY <1>7, <1>8, RewritingCarries, Zenon
<1>10. Owned(m) \subseteq Owned(req[p]) \cup Stored
  BY <1>6, <1>7, <1>9 DEF Stored
<1>11. ASSUME ~disturbed' PROVE Carries(pages, story, words, m)
  <2>1. Spread(pages, words)
    BY <1>4, <1>11 DEF Grows, WordsInv, TextInv, WordsOn
  <2>2. IdsOn(pages) \cap Ids(Words(t)) = {}
    BY <1>5 DEF Stored
  <2> QED BY <1>5, <1>7, <1>9, <2>1, <2>2, Zenon
<1> QED BY <1>2, <1>4, <1>9, <1>10, <1>11, ReadWords

LEMMA ListForDeleteWords ==
  ASSUME Typing, WordsInv, NEW p \in Procs, NEW m, Effect(p, m), ListForDelete(p)
  PROVE  WordsInv'
<1>1. PICK r \in pages, l \in Listed(pages) :
        Resume(p, Rewriting(p, "deletePage", Source(Edited(l, r.id, <<>>))))
  BY Zenon DEF ListForDelete, Edited
<1>2. UNCHANGED <<story, pages, words>>
  BY DEF ListForDelete
<1>3. rowIds \in Nat /\ Rows(pages, rowIds)
  BY DEF Typing, Scalars
<1>4. Moves(p, m) /\ Grows(p) /\ req'[p] = m
  BY DEF Effect, Moves
<1> DEFINE u == Source(Edited(l, r.id, <<>>))
<1>5. <<>> \in Text /\ Ids(Words(<<>>)) = {} /\ Sound(Words(<<>>), words)
  BY SoundNothing
<1>6. /\ u \in Text /\ Ids(Words(u)) \subseteq IdsOn(pages) \cup Ids(Words(<<>>))
      /\ /\ Spread(pages, words) /\ Sound(Words(<<>>), words)
         /\ IdsOn(pages) \cap Ids(Words(<<>>)) = {}
         => Sound(Words(u), words)
  BY <1>3, <1>5, EditedSound, Zenon
<1>7. m = Rewriting(p, "deletePage", u)
  BY <1>1, <1>4, Resumed
<1> HIDE DEF u
<1>8. /\ m.pc = "current" /\ Owned(m) = Ids(Words(u))
      /\ \A s, st, n : Sound(Words(u), n) => Carries(s, st, n, m)
  BY <1>6, <1>7, RewritingCarries, Zenon
<1>9. Owned(m) \subseteq Owned(req[p]) \cup Stored
  BY <1>5, <1>6, <1>8 DEF Stored
<1>10. ASSUME ~disturbed' PROVE Carries(pages, story, words, m)
  <2>1. Spread(pages, words)
    BY <1>4, <1>10 DEF Grows, WordsInv, TextInv, WordsOn
  <2>2. IdsOn(pages) \cap Ids(Words(<<>>)) = {}
    BY <1>5
  <2> QED BY <1>5, <1>6, <1>8, <2>1, <2>2, Zenon
<1> QED BY <1>2, <1>4, <1>8, <1>9, <1>10, ReadWords

LEMMA ReplaceReadWords ==
  ASSUME Typing, WordsInv, NEW p \in Procs, NEW m, Effect(p, m), ReplaceRead(p)
  PROVE  WordsInv'
<1>1. PICK l \in Listed(pages) : Resume(p, [req[p] EXCEPT !.pc = "replace", !.pages = l])
  BY Zenon DEF ReplaceRead
<1>2. UNCHANGED <<story, pages, words, disturbed>> /\ req[p].pc = "current"
  BY DEF ReplaceRead, At
<1>3. rowIds \in Nat /\ Rows(pages, rowIds) /\ req[p] \in Request
  BY DEF Typing, Scalars
<1>4. Moves(p, m) /\ Grows(p) /\ req'[p] = m
  BY DEF Effect, Moves
<1>5. /\ m.pc = "replace" /\ m.pages = l /\ m.story = req[p].story
      /\ m.source = req[p].source /\ m.parts = req[p].parts /\ m.stale = req[p].stale
  <2>1. m = [req[p] EXCEPT !.pc = "replace", !.pages = l]
    BY <1>1, <1>4, Resumed
  <2> QED BY <1>3, <2>1 DEF Request
<1>6. Ids(AllWords(Texts(l))) \subseteq IdsOn(pages)
  <2>1. Copies(l, rowIds) /\ \A i \in 1..Len(l) : l[i] \in pages
    BY <1>3, ListedCopies
  <2> QED BY <2>1, ListOwns
<1>7. Owned(m) \subseteq Owned(req[p]) \cup Stored
  <2>1. Owned(m) = Ids(Words(req[p].story.text)) \cup Ids(AllWords(Texts(l)))
                     \cup Ids(Words(req[p].source)) \cup Ids(AllWords(req[p].parts))
    BY <1>5, Zenon DEF Owned
  <2> QED BY <1>6, <2>1 DEF Owned, Stored
<1>8. ASSUME ~disturbed', ~m.stale PROVE Carries(pages, story, words, m)
  <2>1. Carries(pages, story, words, req[p])
    BY <1>2, <1>5, <1>8 DEF WordsInv, TextInv
  <2> QED BY <1>2, <1>5, <2>1 DEF Carries
<1> QED BY <1>2, <1>4, <1>5, <1>7, <1>8, ReadWords

(* A request that has only pages, all of them rows.                        *)
LEMMA CopiesOwned ==
  ASSUME NEW n, NEW m, Copies(m.pages, n), \A i \in 1..Len(m.pages) : m.pages[i] \in pages,
         m.story = NoStory, m.source = <<>>, m.parts = <<>>
  PROVE  Owned(m) \subseteq Stored
<1>1. Ids(AllWords(Texts(m.pages))) \subseteq IdsOn(pages)
  BY ListOwns
<1>2. Owned(m) = Ids(Words(NoStory.text)) \cup Ids(AllWords(Texts(m.pages)))
                   \cup Ids(Words(<<>>)) \cup Ids(AllWords(<<>>))
  BY Zenon DEF Owned
<1> QED BY <1>1, <1>2, NoList, StartedOwns, SoundNothing DEF Stored

LEMMA CheckOrderWords ==
  ASSUME Typing, WordsInv, NEW p \in Procs, NEW m, Effect(p, m), CheckOrder(p)
  PROVE  WordsInv'
<1>1. PICK l \in Listed(pages), i \in 1..Cardinality(pages), j \in 1..Cardinality(pages) :
        /\ i < j
        /\ Resume(p, [Started(p, "reorder", "reorder") EXCEPT
                        !.pages = [l EXCEPT ![i] = l[j], ![j] = l[i]]])
  BY Zenon DEF CheckOrder
<1>2. UNCHANGED <<story, pages, words>>
  BY DEF CheckOrder
<1>3. rowIds \in Nat /\ Rows(pages, rowIds)
  BY DEF Typing, Scalars
<1>4. Moves(p, m) /\ Grows(p) /\ req'[p] = m /\ Copies(m.pages, rowIds')
  BY DEF Effect, Moves
<1> DEFINE u == [l EXCEPT ![i] = l[j], ![j] = l[i]]
<1>5. /\ Len(l) = Cardinality(pages) /\ Len(l) \in Nat /\ DOMAIN l = 1..Len(l)
      /\ Copies(l, rowIds) /\ \A x \in 1..Len(l) : l[x] \in pages
  BY <1>3, ListedCopies
<1>6. i \in 1..Len(l) /\ j \in 1..Len(l)
  BY <1>5
<1>7. Len(u) = Len(l)
  BY <1>5, <1>6, SwappedCopies
<1>8. \A x \in 1..Len(l) : u[x] \in pages
  BY <1>5, <1>6
<1>9. m = [Started(p, "reorder", "reorder") EXCEPT !.pages = u]
  BY <1>1, <1>4, Resumed
<1> HIDE DEF u
<1>10. /\ m.pc = "reorder" /\ m.pages = u
       /\ m.story = NoStory /\ m.source = <<>> /\ m.parts = <<>>
  BY <1>9 DEF Started, Idle
<1>11. Owned(m) \subseteq Stored
  BY <1>4, <1>7, <1>8, <1>10, CopiesOwned
<1>12. Carries(pages, story, words, m)
  BY <1>10, CarryNothing DEF Carrying
<1> QED BY <1>2, <1>4, <1>10, <1>11, <1>12, ReadWords

LEMMA LoadPageWords ==
  ASSUME Typing, WordsInv, NEW p \in Procs, NEW m, Effect(p, m), LoadPage(p)
  PROVE  WordsInv'
<1>1. PICK r \in pages : Resume(p, [Started(p, "illustrate", "image") EXCEPT !.pages = <<r>>])
  BY Zenon DEF LoadPage
<1>2. UNCHANGED <<story, pages, words>>
  BY DEF LoadPage
<1>3. Moves(p, m) /\ Grows(p) /\ req'[p] = m /\ Copies(m.pages, rowIds')
  BY DEF Effect, Moves
<1> DEFINE l == <<r>>
<1>4. Len(l) = 1 /\ l[1] = r
  OBVIOUS
<1>5. m = [Started(p, "illustrate", "image") EXCEPT !.pages = l]
  BY <1>1, <1>3, Resumed
<1> HIDE DEF l
<1>6. /\ m.pc = "image" /\ m.pages = l
      /\ m.story = NoStory /\ m.source = <<>> /\ m.parts = <<>>
  BY <1>5 DEF Started, Idle
<1>7. Owned(m) \subseteq Stored
  <2>1. \A i \in 1..Len(l) : l[i] \in pages
    BY <1>4
  <2> QED BY <1>3, <1>6, <2>1, CopiesOwned
<1>8. Carries(pages, story, words, m)
  <2>1. m.pages[1] = r
    BY <1>4, <1>6
  <2> QED BY <1>6, <2>1 DEF Carries
<1> QED BY <1>2, <1>3, <1>6, <1>7, <1>8, ReadWords

(* An append has the text and the pages with the new word at the end.      *)
LEMMA AppendReadWords ==
  ASSUME Typing, WordsInv, NEW p \in Procs, NEW m, Effect(p, m), AppendRead(p)
  PROVE  WordsInv'
<1> DEFINE whole(len) == story.text \o NewText(len)
<1>1. PICK len \in EditLens, l \in Listed(pages) :
        Resume(p, [Started(p, "append", "append") EXCEPT
          !.story = [story EXCEPT !.text = whole(len)],
          !.pages = l \o NewPages(LastNumber(l),
                                  Sections(IF l = <<>> THEN whole(len) ELSE NewText(len)))])
  BY Zenon DEF AppendRead
<1>2. UNCHANGED <<story, pages>> /\ words' = words + 1
  BY DEF AppendRead
<1>3. /\ rowIds \in Nat /\ words \in Nat /\ story \in StoryRow /\ Rows(pages, rowIds)
      /\ story.text \in Text
  BY DEF Typing, Scalars, StoryRow
<1>4. Moves(p, m) /\ Grows(p) /\ req'[p] = m
  BY DEF Effect, Moves
<1> DEFINE more  == NewText(len)
           text  == whole(len)
           given == IF l = <<>> THEN text ELSE more
           parts == Sections(given)
           new   == NewPages(Len(l), parts)
           u     == l \o new
           c     == [story EXCEPT !.text = text]
           n     == {words + 1}
           k     == words + 1
<1>5. more \in Text /\ Ids(Words(more)) = n /\ Sound(Words(more), k)
  BY <1>3, SoundNew
<1>6. c.text = text /\ c.status = story.status
  BY <1>3 DEF StoryRow
<1>7. m = [Started(p, "append", "append") EXCEPT !.story = c, !.pages = u]
  BY <1>1, <1>4, Resumed, Zenon DEF LastNumber
<1> HIDE DEF u, c
<1>8. /\ m.pc = "append" /\ m.story = c /\ m.pages = u /\ m.source = <<>> /\ m.parts = <<>>
  BY <1>7 DEF Started, Idle
<1> HIDE DEF more
<1>9. /\ text \in Text /\ Words(text) = Words(story.text) \o Words(more)
      /\ Words(story.text) \in Paragraph /\ Words(more) \in Paragraph
  BY <1>3, <1>5, WordsConcat, WordsTyped DEF more
<1> HIDE DEF text
<1>10. Ids(Words(text)) = Ids(Words(story.text)) \cup n
  BY <1>5, <1>9, IdsConcat
<1>11. given \in Text
  BY <1>5, <1>9
<1>12. /\ l = <<>> => given = text
       /\ l # <<>> => given = more
  OBVIOUS
<1> HIDE DEF given
<1>13. /\ parts \in Seq(Text) /\ AllWords(parts) \in Paragraph
       /\ Ids(AllWords(parts)) = Ids(Words(given))
  BY <1>11, SectionsWords
<1>14. Sound(Words(given), k) => Sound(AllWords(parts), k)
  BY <1>3, <1>11, SoundSections
<1> HIDE DEF parts
<1>15. /\ Copies(l, rowIds) /\ Len(l) \in Nat /\ \A i \in 1..Len(l) : l[i] \in pages
  BY <1>3, ListedCopies
<1>16. Copies(new, rowIds) /\ \A i \in 1..Len(new) : new[i].id = 0
  BY <1>3, <1>13, <1>15, NewCopies
<1>17. Texts(new) = parts
  BY <1>13, <1>15, TextsNew
<1> HIDE DEF new
<1>18. Copies(l \o new, rowIds)
  BY <1>3, <1>15, <1>16, ConcatCopies
<1>19. Texts(u) = Texts(l) \o parts
  <2>1. Texts(l \o new) = Texts(l) \o Texts(new)
    BY <1>15, <1>16, <1>18, TextsConcat
  <2> QED BY <1>17, <2>1, Zenon DEF u
<1> DEFINE x == Texts(l)
<1>20. x \in Seq(Text) /\ Ids(AllWords(x)) \subseteq IdsOn(pages)
  BY <1>15, TextsTyped, ListOwns
<1>21. l = <<>> => AllWords(x) = <<>> /\ Ids(AllWords(x)) = {}
  BY NoList
<1>22. AllWords(x) \in Paragraph
  BY <1>20, TextWords
<1> HIDE DEF x
<1>23. AllWords(Texts(u)) = AllWords(x) \o AllWords(parts)
  <2>1. AllWords(x \o parts) = AllWords(x) \o AllWords(parts)
    BY <1>13, <1>20, TextWordsConcat
  <2> QED BY <1>19, <2>1, Zenon DEF x
<1>24. Ids(AllWords(Texts(u))) = Ids(AllWords(x)) \cup Ids(Words(given))
  BY <1>13, <1>22, <1>23, IdsConcat
<1>25. Ids(Words(given)) \subseteq Ids(Words(story.text)) \cup n /\ n \subseteq Ids(Words(given))
  BY <1>5, <1>10, <1>12
<1>26. Owned(m) \subseteq Stored \cup n
  <2>1. Owned(m) = Ids(Words(text)) \cup Ids(AllWords(Texts(u)))
                     \cup Ids(Words(<<>>)) \cup Ids(AllWords(<<>>))
    BY <1>6, <1>8, Zenon DEF Owned
  <2> QED BY <1>10, <1>20, <1>24, <1>25, <2>1, NoList, SoundNothing DEF Stored
<1>27. words' \in Nat /\ words <= words' /\ n \in SUBSET ((words + 1)..words') /\ words' = k
  BY <1>2, <1>3
<1> HIDE DEF n, k
<1>28. FreshInv'
  <2>1. Stored' = Stored
    BY <1>2 DEF Stored
  <2>2. /\ Owned(m) \subseteq Owned(req[p]) \cup Stored \cup n
        /\ Stored' \subseteq Owned(req[p]) \cup Stored \cup n
    BY <1>26, <2>1
  <2> QED BY <1>4, <1>8, <1>27, <2>2, FreshStep, ZenonT(30) DEF WordsInv
<1>29. ASSUME ~disturbed' PROVE Carries(pages', story', words', m)
  <2>1. ~disturbed /\ WordsOn(pages, story, words)
    BY <1>4, <1>29 DEF Grows, WordsInv, TextInv
  <2>2. /\ Spread(pages, words) /\ Sound(Words(story.text), words)
        /\ story.status = "READY" => IdsOn(pages) = Ids(Words(story.text))
    BY <2>1 DEF WordsOn
  <2>3. Sound(AllWords(x), words) /\ Ids(AllWords(x)) = IdsOn(pages)
    BY <1>3, <2>2, WordsListed DEF x
  <2>4. Sound(Words(story.text), k) /\ Sound(AllWords(x), k)
    BY <1>3, <1>27, <2>2, <2>3, SoundMore
  <2>5. 0..words \cap n = {}
    BY <1>3 DEF n
  <2>6. Ids(Words(story.text)) \cap n = {} /\ Ids(AllWords(x)) \cap n = {}
    BY <2>2, <2>3, <2>5 DEF Sound
  <2>7. Sound(Words(text), k)
    BY <1>5, <1>9, <1>27, <2>4, <2>6, SoundConcat
  <2>8. Sound(AllWords(parts), k)
    BY <1>5, <1>12, <1>14, <2>7
  <2>9. Ids(AllWords(x)) \cap Ids(AllWords(parts)) = {}
    BY <1>5, <1>12, <1>13, <1>21, <2>6
  <2>10. Sound(AllWords(Texts(u)), k)
    BY <1>13, <1>22, <1>23, <1>27, <2>4, <2>8, <2>9, SoundConcat
  <2>11. story.status = "READY" => Ids(AllWords(Texts(u))) = Ids(Words(text))
    BY <1>5, <1>10, <1>12, <1>21, <1>24, <2>2, <2>3
  <2> QED BY <1>6, <1>8, <1>27, <2>7, <2>10, <2>11 DEF Carries
<1>30. TextInv'
  BY <1>2, <1>4, <1>27, <1>29, AlterNothing, PlainWords DEF WordsInv
<1> QED BY <1>28, <1>30 DEF WordsInv

(* A text that a story is created with.                                    *)
LEMMA FirstSound ==
  ASSUME words \in Nat, NEW t \in FirstTexts
  PROVE  LET n == Max({words} \cup {w.id : w \in Range(Words(t))})
         IN n \in Nat /\ words <= n /\ t \in Text /\ Sound(Words(t), n)
<1> DEFINE ids == {words} \cup {w.id : w \in Range(Words(t))}
           ws == Words(t)
           n == Max(ids)
<1>1. t \in Text /\ \A i, j \in DOMAIN ws : ws[i].id = ws[j].id => i = j
  BY PagesAssumption
<1>2. ws \in Seq(Word)
  BY <1>1, WordsTyped DEF Paragraph
<1> HIDE DEF ws
<1>3. Len(ws) \in Nat /\ DOMAIN ws = 1..Len(ws) /\ \A i \in 1..Len(ws) : ws[i] \in Word
  BY <1>2, LenProperties, ElementOfSeq
<1>4. \A w : w \in Range(ws) <=> \E i \in 1..Len(ws) : w = ws[i]
  BY <1>2, SequenceFinite
<1>5. PICK b \in Nat : \A w \in Range(ws) : w.id \in 0..b
  BY <1>2, IdsBounded DEF Paragraph
<1> DEFINE k == b + words
<1>6. k \in Nat /\ words \in 0..k /\ \A i \in 0..b : i \in 0..k
  OBVIOUS
<1> HIDE DEF k
<1>7. ids = {words} \cup {w.id : w \in Range(ws)}
  BY DEF ws
<1> HIDE DEF ids
<1>8. ids \in SUBSET (0..k) /\ ids # {} /\ words \in ids
  BY <1>5, <1>6, <1>7
<1>9. n \in ids /\ \A i \in ids : i <= n
  BY <1>6, <1>8, MaxOf
<1> HIDE DEF n
<1>10. n \in Nat /\ words <= n
  BY <1>6, <1>8, <1>9
<1>11. Ids(ws) \subseteq 0..n
  <2>1. \A i \in 1..Len(ws) : ws[i].id \in ids /\ ws[i].id \in Nat
    BY <1>3, <1>4, <1>7 DEF Word
  <2>2. \A i \in 1..Len(ws) : ws[i].id \in 0..n
    BY <1>9, <1>10, <2>1
  <2> QED BY <2>2 DEF Ids
<1>12. Distinct(ws)
  BY <1>1, <1>3 DEF Distinct
<1>13. WordsFit => ~HasLong(ws)
  <2>1. WordsFit => \A w \in Range(ws) : w.len <= MaxChars
    BY DEF WordsFit, ws
  <2>2. MaxChars \in Nat /\ \A i \in 1..Len(ws) : ws[i].len \in Nat
    BY <1>3, SectionsAssumption DEF Word
  <2>3. WordsFit => \A i \in 1..Len(ws) : ~(ws[i].len > MaxChars)
    BY <1>4, <2>1, <2>2
  <2> QED BY <2>3 DEF HasLong
<1>14. Sound(ws, n)
  BY <1>11, <1>12, <1>13 DEF Sound
<1> QED BY <1>1, <1>10, <1>14 DEF n, ids, ws

LEMMA CreateWords ==
  ASSUME Typing, WordsInv, NEW p \in Procs, NEW m, Effect(p, m), Create(p)
  PROVE  WordsInv'
<1>1. PICK t \in FirstTexts :
        /\ pages = {} /\ pages' = pages /\ \A q \in Procs : At(q, "idle")
        /\ story' = [NoStory EXCEPT !.exists = TRUE, !.text = t]
        /\ Resume(p, [Started(p, "create", "pages") EXCEPT !.story = story', !.parts = Sections(t)])
        /\ words' = Max({words} \cup {w.id : w \in Range(Words(t))})
  BY Zenon DEF Create
<1>2. words \in Nat /\ FreshInv /\ TextInv
  BY DEF Typing, Scalars, WordsInv
<1>3. Moves(p, m) /\ Grows(p) /\ req'[p] = m
  BY DEF Effect, Moves
<1>4. words' \in Nat /\ words <= words' /\ t \in Text /\ Sound(Words(t), words')
  BY <1>1, <1>2, FirstSound, Zenon
<1>5. story'.text = t /\ story'.status = "PROCESSING"
  BY <1>1 DEF NoStory
<1> DEFINE parts == Sections(t)
<1>6. m = [Started(p, "create", "pages") EXCEPT !.story = story', !.parts = parts]
  BY <1>1, <1>3, Resumed
<1>7. Ids(AllWords(parts)) = Ids(Words(t))
  BY <1>4, SectionsWords
<1> HIDE DEF parts
<1>8. /\ m.pc = "pages" /\ m.op = "create" /\ m.story = story' /\ m.pages = <<>>
      /\ m.source = <<>> /\ m.parts = parts
  BY <1>6 DEF Started, Idle
<1>9. Owned(m) = Ids(Words(t))
  <2>1. Owned(m) = Ids(Words(t)) \cup Ids(AllWords(Texts(<<>>)))
                     \cup Ids(Words(<<>>)) \cup Ids(AllWords(parts))
    BY <1>5, <1>8, Zenon DEF Owned
  <2> QED BY <1>7, <2>1, NoList, SoundNothing
<1>10. \A q \in Procs \ {p} : /\ req'[q].pc = "idle" /\ req[q].pc = "idle"
                              /\ Owned(req'[q]) = Owned(req[q])
  BY <1>1, <1>3, OwnedSame DEF Moves, Same, At
<1>11. FreshInv'
  <2>1. Stored' = IdsOn(pages') \cup Ids(Words(story'.text))
    BY DEF Stored
  <2>2. IdsOn(pages') = {}
    BY <1>1 DEF IdsOn
  <2>3. 0..words \subseteq 0..words'
    BY <1>2, <1>4
  <2>4. Stored' \subseteq 0..words' /\ Owned(m) \subseteq 0..words'
    BY <1>4, <1>5, <1>9, <2>1, <2>2 DEF Sound
  <2>5. \A q \in Procs : Owned(req'[q]) \subseteq 0..words'
    BY <1>2, <1>3, <1>10, <2>3, <2>4 DEF FreshInv
  <2>6. \A q \in Procs : req'[q].pc # "list"
    BY <1>3, <1>8, <1>10
  <2> QED BY <2>4, <2>5, <2>6 DEF FreshInv, At
<1>12. WordsAfter(p, m)
  <2>1. WordsOn(pages', story', words')
    BY <1>1, <1>4, <1>5 DEF WordsOn, Spread
  <2>2. \A q \in Procs \ {p} : Carries(pages', story', words', req[q])
    BY <1>10, CarryNothing DEF Carrying
  <2>3. Carries(pages', story', words', m)
    BY <1>4, <1>5, <1>8 DEF Carries, parts
  <2> QED BY <2>1, <2>2, <2>3 DEF WordsAfter
<1>13. TextInv'
  BY <1>2, <1>3, <1>12, WordsStep
<1> QED BY <1>11, <1>13 DEF WordsInv

(* A step that leaves the number of words, and no new text in a list.      *)
LEMMA KnownFresh ==
  ASSUME Typing, WordsInv, NEW p \in Procs, NEW m, Moves(p, m), words' = words, m.pc # "list",
         Owned(m) \subseteq Owned(req[p]) \cup Stored,
         Stored' \subseteq Owned(req[p]) \cup Stored
  PROVE  FreshInv'
<1>1. words' \in Nat /\ words <= words' /\ FreshInv
  BY DEF Typing, Scalars, WordsInv
<1>2. {} \in SUBSET ((words + 1)..words')
  OBVIOUS
<1>3. /\ Owned(m) \subseteq Owned(req[p]) \cup Stored \cup {}
      /\ Stored' \subseteq Owned(req[p]) \cup Stored \cup {}
  OBVIOUS
<1> QED BY <1>1, <1>2, <1>3, FreshStep

LEMMA CreatePagesWords ==
  ASSUME Typing, NumberInv, WordsInv, NEW p \in Procs, NEW m, Effect(p, m), CreatePages(p)
  PROVE  WordsInv'
<1> DEFINE parts == req[p].parts
           l == NewPages(0, parts)
           x(v) == [req[p] EXCEPT !.pc = "save", !.story.status = v]
<1>1. /\ req[p].pc = "pages" /\ story' = story /\ words' = words
      /\ \/ pages' = Saved(pages, l) /\ Commit(p, x("READY"))
         \/ Resume(p, x("FAILED")) /\ UNCHANGED <<pages, disturbed>>
  BY DEF CreatePages, At
<1>2. /\ rowIds \in Nat /\ words \in Nat /\ req[p] \in Request /\ req[p].op = "create"
      /\ TextInv /\ words <= words'
  BY <1>1 DEF Typing, Scalars, Controlled, WordsInv
<1>3. Moves(p, m) /\ Grows(p) /\ req'[p] = m /\ m \in Request
  BY DEF Effect, Moves
<1>4. \A v \in {"READY", "FAILED"} :
        /\ x(v).pc = "save" /\ x(v).op = "create" /\ x(v).story.status = v
        /\ x(v).story.text = req[p].story.text /\ x(v).pages = req[p].pages
        /\ x(v).source = req[p].source /\ x(v).parts = parts /\ x(v).stale = req[p].stale
  BY <1>2 DEF Request, StoryRow
<1> HIDE DEF x
<1>5. /\ m.pc = "save" /\ m.op = "create" /\ m.story.text = req[p].story.text
      /\ m.pages = req[p].pages /\ m.source = req[p].source /\ m.parts = parts
      /\ m.stale = req[p].stale
  BY <1>1, <1>3, <1>4, Resumed
<1>6. Owned(m) = Owned(req[p])
  BY <1>5, Zenon DEF Owned
<1>7. parts \in Seq(Text) /\ 0 \in Nat
  BY <1>2 DEF Request
<1>8. /\ Copies(l, rowIds) /\ Len(l) \in Nat /\ \A i \in 1..Len(l) : l[i].number = 0 + i
      /\ Texts(l) = parts
  <2>1. Texts(l) = parts
    BY <1>7, TextsNew
  <2>2. Copies(l, rowIds) /\ Len(l) \in Nat /\ \A i \in 1..Len(l) : l[i].number = 0 + i
    <3>1. rowIds \in Nat /\ 0 \in Nat /\ parts \in Seq(Text)
      BY <1>2, <1>7
    <3> HIDE DEF parts
    <3> QED BY <3>1, NewCopies
  <2> QED BY <2>1, <2>2
<1>9. Ids(AllWords(parts)) \subseteq Owned(req[p])
  BY DEF Owned
<1> HIDE DEF l, parts
<1>10. FreshInv'
  <2>1. IdsOn(Saved(pages, l)) \subseteq IdsOn(pages) \cup Ids(AllWords(parts))
    BY <1>2, <1>8, SavedOwns
  <2>2. Stored' = IdsOn(pages') \cup Ids(Words(story.text))
    BY <1>1 DEF Stored
  <2>3. pages' = Saved(pages, l) \/ pages' = pages
    BY <1>1
  <2>4. Stored' \subseteq Owned(req[p]) \cup Stored
    BY <1>9, <2>1, <2>2, <2>3 DEF Stored
  <2> QED BY <1>1, <1>3, <1>5, <1>6, <2>4, KnownFresh
<1>11. ASSUME ~disturbed, ~req[p].stale
       PROVE  /\ story.status # "READY" /\ Sound(Words(req[p].story.text), words)
              /\ parts = Sections(req[p].story.text) /\ pages = {}
              /\ WordsOn(pages, story, words)
  <2>1. Carries(pages, story, words, req[p]) /\ WordsOn(pages, story, words)
    BY <1>2, <1>11 DEF TextInv
  <2>2. Holds(pages, req[p])
    BY <1>11 DEF NumberInv
  <2> QED BY <1>1, <2>1, <2>2 DEF Carries, Holds, parts
<1>12. CASE pages' = Saved(pages, l) /\ Commit(p, x("READY"))
  <2>1. m = x("READY") /\ Commit(p, m)
    <3>1. m = x("READY")
      BY <1>3, <1>12, Resumed
    <3> QED BY <1>12, <3>1
  <2>2. ASSUME ~disturbed' PROVE WordsAfter(p, m)
    <3>1. ~disturbed /\ ~req[p].stale
      BY <2>1, <2>2 DEF Commit
    <3> DEFINE text == req[p].story.text
    <3>2. text \in Text
      BY <1>2 DEF Request, StoryRow
    <3>3. /\ Sound(AllWords(parts), words) /\ Ids(AllWords(parts)) = Ids(Words(text))
      BY <1>2, <1>11, <3>1, <3>2, SoundSections
    <3>4. \A i \in 1..Len(l) : l[i].number = i
      BY <1>8
    <3>5. \A r \in pages : Known(l, r.id)
      BY <1>11, <3>1
    <3>6. \A r : r \in Saved(pages, l) <=> \E i \in 1..Len(l) : r = Numbered(l)[i]
      BY <1>2, <1>8, <3>4, <3>5, WrittenInOrder
    <3>7. Spread(Saved(pages, l), words) /\ IdsOn(Saved(pages, l)) = Ids(AllWords(parts))
      <4>1. Sound(AllWords(Texts(l)), words)
        BY <1>8, <3>3
      <4> QED BY <1>2, <1>8, <3>6, <4>1, WordsSaved
    <3>8. Spread(pages', words') /\ IdsOn(pages') = Ids(Words(text))
      BY <1>1, <1>12, <3>3, <3>7, Zenon
    <3>9. WordsOn(pages', story', words')
      BY <1>1, <1>11, <3>1, <3>8 DEF WordsOn
    <3>10. Carries(pages', story', words', m)
      BY <1>1, <1>5, <1>11, <3>1, <3>8 DEF Carries
    <3>11. \A q \in Procs \ {p} : ~req'[q].stale => Carries(pages', story', words', req[q])
      BY <1>2, <1>3, <2>1, OthersCarryNothing
    <3> QED BY <3>9, <3>10, <3>11 DEF WordsAfter
  <2>3. TextInv'
    BY <1>2, <1>3, <2>2, WordsStep
  <2> QED BY <1>10, <2>3 DEF WordsInv
<1>13. CASE Resume(p, x("FAILED")) /\ UNCHANGED <<pages, disturbed>>
  <2>1. m.story.status = "FAILED"
    BY <1>3, <1>4, <1>13, Resumed
  <2>2. ASSUME ~disturbed', ~m.stale PROVE Carries(pages', story', words', m)
    <3>1. ~disturbed /\ ~req[p].stale
      BY <1>5, <1>13, <2>2
    <3> QED BY <1>1, <1>5, <1>11, <2>1, <3>1 DEF Carries
  <2>3. Alter(pages, pages') /\ story'.text = story.text /\ story'.status = story.status
    BY <1>1, <1>13, AlterNothing
  <2>4. TextInv'
    BY <1>1, <1>2, <1>3, <2>2, <2>3, PlainWords
  <2> QED BY <1>10, <2>4 DEF WordsInv
<1> QED BY <1>1, <1>12, <1>13

LEMMA SaveStoryWords ==
  ASSUME Typing, WordsInv, NEW p \in Procs, NEW m, Effect(p, m), SaveStory(p)
  PROVE  WordsInv'
<1>1. /\ req[p].pc = "save" /\ story' = req[p].story /\ Commit(p, Done)
      /\ pages' = pages /\ words' = words
  BY DEF SaveStory, At
<1>2. /\ words \in Nat /\ words' \in Nat /\ words <= words' /\ TextInv
      /\ req[p].op \in {"create", "update"}
  BY <1>1 DEF Typing, Scalars, Controlled, WordsInv
<1>3. Moves(p, m) /\ Grows(p) /\ req'[p] = m /\ m \in Request
  BY DEF Effect, Moves
<1>4. m = Done /\ Owned(m) = {} /\ m.pc = "done" /\ Commit(p, m)
  <2>1. m = Done
    BY <1>1, <1>3, Resumed
  <2> QED BY <1>1, <2>1, DoneTyped, StartedOwns
<1>5. FreshInv'
  <2>1. Stored' = IdsOn(pages) \cup Ids(Words(req[p].story.text))
    BY <1>1 DEF Stored
  <2>2. Stored' \subseteq Owned(req[p]) \cup Stored
    BY <2>1 DEF Stored, Owned
  <2> QED BY <1>1, <1>3, <1>4, <2>2, KnownFresh
<1>6. \A s, st, n : Carries(s, st, n, m)
  BY <1>4, CarryNothing DEF Carrying
<1>7. ASSUME ~disturbed'
      PROVE  WordsOn(pages, story, words) /\ Carries(pages, story, words, req[p])
  <2>1. ~disturbed /\ ~req[p].stale
    BY <1>1, <1>7 DEF Commit
  <2> QED BY <1>2, <2>1 DEF TextInv
<1>8. CASE req[p].op = "create"
  <2>1. ASSUME ~disturbed' PROVE WordsAfter(p, m)
    <3>1. WordsOn(pages', story', words')
      BY <1>1, <1>7, <1>8, <2>1 DEF WordsOn, Carries
    <3>2. \A q \in Procs \ {p} : ~req'[q].stale => Carries(pages', story', words', req[q])
      BY <1>3, <1>4, <1>8, OthersCarryNothing
    <3> QED BY <1>6, <3>1, <3>2 DEF WordsAfter
  <2>2. TextInv'
    BY <1>2, <1>3, <2>1, WordsStep
  <2> QED BY <1>5, <2>2 DEF WordsInv
<1>9. CASE req[p].op = "update"
  <2>1. ~disturbed' => story'.text = story.text /\ story'.status = story.status
    BY <1>1, <1>7, <1>9 DEF Carries
  <2>2. Alter(pages, pages')
    BY <1>1, AlterNothing
  <2>3. TextInv'
    BY <1>2, <1>3, <1>6, <2>1, <2>2, PlainWords
  <2> QED BY <1>5, <2>3 DEF WordsInv
<1> QED BY <1>2, <1>8, <1>9

LEMMA DeleteStoryWords ==
  ASSUME Typing, WordsInv, NEW p \in Procs, NEW m, Effect(p, m), DeleteStory(p)
  PROVE  WordsInv'
<1>1. /\ req[p].pc = "delete" /\ words' = words
      /\ \/ story' = NoStory /\ pages' = {} /\ Commit(p, Done)
         \/ Finish(p) /\ UNCHANGED <<story, pages>>
  BY DEF DeleteStory, At
<1>2. /\ words \in Nat /\ words' \in Nat /\ words <= words' /\ TextInv
      /\ req[p].op = "remove"
  BY <1>1 DEF Typing, Scalars, Controlled, WordsInv
<1>3. Moves(p, m) /\ Grows(p) /\ req'[p] = m /\ m \in Request
  BY DEF Effect, Moves
<1>4. m = Done /\ Owned(m) = {} /\ m.pc = "done"
  <2>1. m = Done
    BY <1>1, <1>3, Resumed DEF Finish
  <2> QED BY <2>1, DoneTyped, StartedOwns
<1>5. \A s, st, n : Carries(s, st, n, m)
  BY <1>4, CarryNothing DEF Carrying
<1>6. CASE story' = NoStory /\ pages' = {} /\ Commit(p, Done)
  <2>1. Ids(Words(story'.text)) = {} /\ IdsOn(pages') = {} /\ Stored' = {}
    <3>1. Ids(Words(story'.text)) = {}
      BY <1>6, StartedOwns
    <3>2. IdsOn(pages') = {}
      BY <1>6 DEF IdsOn
    <3>3. Stored' = IdsOn(pages') \cup Ids(Words(story'.text))
      BY DEF Stored
    <3> QED BY <3>1, <3>2, <3>3
  <2>2. FreshInv'
    BY <1>1, <1>3, <1>4, <2>1, KnownFresh
  <2>3. WordsOn(pages', story', words')
    <3>1. NoStory.text = <<>> /\ NoStory.status # "READY"
      BY DEF NoStory
    <3>2. Sound(Words(story'.text), words')
      BY <1>6, <3>1, SoundNothing
    <3> QED BY <1>6, <3>1, <3>2 DEF WordsOn, Spread
  <2>4. \A q \in Procs \ {p} : ~req'[q].stale => Carries(pages', story', words', req[q])
    BY <1>2, <1>3, <1>4, <1>6, OthersCarryNothing
  <2>5. WordsAfter(p, m)
    BY <1>5, <2>3, <2>4 DEF WordsAfter
  <2>6. TextInv'
    BY <1>2, <1>3, <2>5, WordsStep
  <2> QED BY <2>2, <2>6 DEF WordsInv
<1>7. CASE Finish(p) /\ UNCHANGED <<story, pages>>
  <2>1. Owned(m) \subseteq Owned(req[p]) \cup Stored
    BY <1>4
  <2> QED BY <1>1, <1>3, <1>4, <1>5, <1>7, <2>1, ReadWords
<1> QED BY <1>1, <1>6, <1>7

LEMMA AppendWriteWords ==
  ASSUME Typing, StoryInv, NumberInv, WordsInv, NEW p \in Procs, NEW m, Effect(p, m),
         AppendWrite(p)
  PROVE  WordsInv'
<1> DEFINE l == req[p].pages
<1>1. /\ At(p, "append") /\ req[p].pc = "append"
      /\ pages' = Saved(pages, l) /\ story' = req[p].story /\ Commit(p, Done) /\ words' = words
  BY DEF AppendWrite, At
<1>2. /\ rowIds \in Nat /\ words \in Nat /\ TextInv /\ req[p].op = "append"
      /\ \A q \in Procs : Controlled(req[q]) /\ Copies(req[q].pages, rowIds)
  BY <1>1 DEF Typing, Scalars, Controlled, WordsInv
<1>3. Moves(p, m) /\ Grows(p) /\ req'[p] = m /\ m \in Request
  BY DEF Effect, Moves
<1>4. m = Done /\ Owned(m) = {} /\ m.pc = "done" /\ Commit(p, m)
  <2>1. m = Done
    BY <1>1, <1>3, Resumed
  <2> QED BY <1>1, <2>1, DoneTyped, StartedOwns
<1>5. Copies(l, rowIds)
  BY <1>2
<1>6. Ids(AllWords(Texts(l))) \cup Ids(Words(req[p].story.text)) \subseteq Owned(req[p])
  BY DEF Owned
<1>7. ASSUME ~disturbed'
      PROVE  Carries(pages, story, words, req[p]) /\ ToAppend(pages, l)
  <2>1. ~disturbed /\ ~req[p].stale
    BY <1>1, <1>7 DEF Commit
  <2>2. Carries(pages, story, words, req[p]) /\ Holds(pages, req[p])
    BY <1>2, <2>1 DEF TextInv, NumberInv
  <2> QED BY <1>1, <2>2 DEF Holds
<1>8. ASSUME ~disturbed'
      PROVE  /\ Sound(Words(story'.text), words) /\ Sound(AllWords(Texts(l)), words)
             /\ story'.status = "READY" => Ids(AllWords(Texts(l))) = Ids(Words(story'.text))
  BY <1>1, <1>7, <1>8 DEF Carries
<1> HIDE DEF l
<1>9. FreshInv'
  <2>1. IdsOn(Saved(pages, l)) \subseteq IdsOn(pages) \cup Ids(AllWords(Texts(l)))
    BY <1>2, <1>5, SavedOwns
  <2>2. Stored' = IdsOn(Saved(pages, l)) \cup Ids(Words(req[p].story.text))
    BY <1>1, Zenon DEF Stored
  <2>3. Stored' \subseteq Owned(req[p]) \cup Stored
    BY <1>6, <2>1, <2>2 DEF Stored
  <2> QED BY <1>1, <1>3, <1>4, <2>3, KnownFresh
<1>10. ASSUME ~disturbed' PROVE WordsAfter(p, m)
  <2>1. \A r : r \in Saved(pages, l) <=> \E i \in 1..Len(l) : r = Numbered(l)[i]
    <3>1. /\ \A i \in 1..Len(l) : l[i].number = i
          /\ \A r \in pages : Known(l, r.id)
      BY <1>7, <1>10 DEF ToAppend
    <3> QED BY <1>2, <1>5, <3>1, WrittenInOrder
  <2>2. Spread(Saved(pages, l), words) /\ IdsOn(Saved(pages, l)) = Ids(AllWords(Texts(l)))
    BY <1>2, <1>5, <1>8, <1>10, <2>1, WordsSaved
  <2>3. Spread(pages', words') /\ IdsOn(pages') = Ids(AllWords(Texts(l)))
    BY <1>1, <2>2, Zenon
  <2>4. WordsOn(pages', story', words')
    BY <1>1, <1>8, <1>10, <2>3 DEF WordsOn
  <2>5. ASSUME NEW q \in Procs \ {p}, ~req'[q].stale PROVE Carries(pages', story', words', req[q])
    <3>1. req[q].pc \in {"idle", "done"} \/ req[q].op \in {"append", "reorder"}
      BY <1>1, <1>2, <2>5, DoneTyped, CommitMoves DEF Marks, Unaffected
    <3>2. req[q].pc # "append"
      BY <1>1 DEF StoryInv, Appending, At
    <3>3. Controlled(req[q])
      BY <1>2
    <3>4. req[q].pc \notin Carrying
      BY <3>1, <3>2, <3>3 DEF Controlled, Carrying
    <3> QED BY <3>4, CarryNothing
  <2>6. Carries(pages', story', words', m)
    BY <1>4, CarryNothing DEF Carrying
  <2> QED BY <2>4, <2>5, <2>6 DEF WordsAfter
<1>11. TextInv'
  BY <1>2, <1>3, <1>10, WordsStep
<1> QED BY <1>9, <1>11 DEF WordsInv

LEMMA ReplaceWriteWords ==
  ASSUME Typing, NumberInv, WordsInv, NEW p \in Procs, NEW m, Effect(p, m), ReplaceWrite(p)
  PROVE  WordsInv'
<1> DEFINE l == Replaced(req[p])
           s == {r \in pages : r.id \notin Surplus(req[p].pages, Len(l))}
           source == req[p].source
           parts == req[p].parts
<1>1. /\ req[p].pc = "replace" /\ words' = words
      /\ \/ /\ pages' = Saved(s, l) /\ Commit(p, Done)
            /\ story' = [story EXCEPT !.text = source]
         \/ Finish(p) /\ UNCHANGED <<pages, story>>
  BY DEF ReplaceWrite, At
<1>2. /\ rowIds \in Nat /\ words \in Nat /\ words <= words' /\ TextInv
      /\ story \in StoryRow /\ req[p] \in Request
      /\ Copies(req[p].pages, rowIds) /\ req[p].op \in {"updatePage", "deletePage"}
  BY <1>1 DEF Typing, Scalars, Controlled, WordsInv
<1>3. Moves(p, m) /\ Grows(p) /\ req'[p] = m /\ m \in Request
  BY DEF Effect, Moves
<1>4. m = Done /\ Owned(m) = {} /\ m.pc = "done"
  <2>1. m = Done
    BY <1>1, <1>3, Resumed DEF Finish
  <2> QED BY <2>1, DoneTyped, StartedOwns
<1>5. \A t, st, n : Carries(t, st, n, m)
  BY <1>4, CarryNothing DEF Carrying
<1>6. CASE Finish(p) /\ UNCHANGED <<pages, story>>
  <2>1. Owned(m) \subseteq Owned(req[p]) \cup Stored
    BY <1>4
  <2> QED BY <1>1, <1>3, <1>4, <1>5, <1>6, <2>1, ReadWords
<1>7. CASE /\ pages' = Saved(s, l) /\ Commit(p, Done)
           /\ story' = [story EXCEPT !.text = source]
  <2>1. parts \in Seq(Text) /\ source \in Text
    BY <1>2 DEF Request
  <2>2. Copies(l, rowIds)
    BY <1>2, <2>1, ReplacedCopies
  <2>3. Texts(l) = parts
    BY <1>2, <2>1, TextsReplaced
  <2>4. story'.text = source /\ story'.status = story.status
    BY <1>2, <1>7 DEF StoryRow
  <2>5. Ids(AllWords(parts)) \cup Ids(Words(source)) \subseteq Owned(req[p])
    BY DEF Owned
  <2>6. ASSUME ~disturbed'
        PROVE  /\ Sound(Words(source), words) /\ parts = Sections(source)
               /\ \A r \in s : Known(l, r.id)
    <3>1. ~disturbed /\ ~req[p].stale
      BY <1>7, <2>6 DEF Commit
    <3>2. Carries(pages, story, words, req[p]) /\ Holds(pages, req[p])
      BY <1>2, <3>1 DEF TextInv, NumberInv
    <3>3. \A r \in pages : Known(req[p].pages, r.id)
      BY <1>1, <3>2 DEF Holds
    <3>4. \A r \in s : Known(l, r.id)
      BY <1>2, <2>1, <3>3, ReplacedKnown
    <3> QED BY <1>1, <3>2, <3>4 DEF Carries
  <2>7. \A i \in 1..Len(l) : l[i].number = i
    <3>1. Len(l) = Len(parts) /\ \A i \in 1..Len(parts) : l[i].number = i
      BY <1>2, <2>1, ReplacedInOrder
    <3> HIDE DEF l, parts
    <3> QED BY <3>1
  <2>8. IdsOn(s) \subseteq IdsOn(pages)
    <3>1. \A r \in s : r \in pages
      OBVIOUS
    <3> HIDE DEF s
    <3> QED BY <3>1, InIdsOn
  <2> HIDE DEF l, s, source, parts
  <2>9. FreshInv'
    <3>1. IdsOn(Saved(s, l)) \subseteq IdsOn(s) \cup Ids(AllWords(parts))
      BY <1>2, <2>2, <2>3, SavedOwns
    <3>2. Stored' = IdsOn(Saved(s, l)) \cup Ids(Words(source))
      BY <1>7, <2>4, Zenon DEF Stored
    <3>3. /\ Stored' \subseteq Owned(req[p]) \cup Stored
          /\ Owned(m) \subseteq Owned(req[p]) \cup Stored
      BY <1>4, <2>5, <2>8, <3>1, <3>2 DEF Stored
    <3> QED BY <1>1, <1>3, <1>4, <3>3, KnownFresh
  <2>10. ASSUME ~disturbed' PROVE WordsAfter(p, m)
    <3>1. Sound(AllWords(parts), words) /\ Ids(AllWords(parts)) = Ids(Words(source))
      BY <1>2, <2>1, <2>6, <2>10, SoundSections
    <3>2. \A r : r \in Saved(s, l) <=> \E i \in 1..Len(l) : r = Numbered(l)[i]
      BY <1>2, <2>2, <2>6, <2>7, <2>10, WrittenInOrder
    <3>3. Sound(AllWords(Texts(l)), words)
      BY <2>3, <3>1
    <3>4. Spread(Saved(s, l), words) /\ IdsOn(Saved(s, l)) = Ids(AllWords(Texts(l)))
      BY <1>2, <2>2, <3>2, <3>3, WordsSaved
    <3>5. Spread(pages', words') /\ IdsOn(pages') = Ids(Words(source))
      BY <1>1, <1>7, <2>3, <3>1, <3>4, Zenon
    <3>6. WordsOn(pages', story', words')
      BY <1>1, <2>4, <2>6, <2>10, <3>5 DEF WordsOn
    <3>7. \A q \in Procs \ {p} : ~req'[q].stale => Carries(pages', story', words', req[q])
      BY <1>2, <1>3, <1>4, <1>7, OthersCarryNothing
    <3> QED BY <1>5, <3>6, <3>7 DEF WordsAfter
  <2>11. TextInv'
    BY <1>2, <1>3, <2>10, WordsStep
  <2> QED BY <2>9, <2>11 DEF WordsInv
<1> QED BY <1>1, <1>6, <1>7

LEMMA WriteOrderWords ==
  ASSUME Typing, WordsInv, NEW p \in Procs, NEW m, Effect(p, m), WriteOrder(p)
  PROVE  WordsInv'
<1> DEFINE l == req[p].pages
           place(r) == CHOOSE i \in DOMAIN l : l[i].id = r.id
           new(r) == IF \E i \in DOMAIN l : l[i].id = r.id
                     THEN [r EXCEPT !.number = place(r)] ELSE r
<1>1. /\ pages' = {new(r) : r \in pages} /\ story' = story /\ words' = words /\ Commit(p, Done)
  BY DEF WriteOrder
<1>2. /\ words \in Nat /\ words' \in Nat /\ words <= words' /\ TextInv
      /\ \A r \in pages : r \in Row
  BY <1>1 DEF Typing, Scalars, WordsInv, Rows
<1>3. Moves(p, m) /\ Grows(p) /\ req'[p] = m
  BY DEF Effect, Moves
<1>4. Owned(m) = {} /\ m.pc = "done"
  <2>1. m = Done
    BY <1>1, <1>3, Resumed
  <2> QED BY <2>1, DoneTyped, StartedOwns
<1> HIDE DEF l, place
<1>5. \A r \in pages : new(r).id = r.id /\ new(r).text = r.text
  BY <1>2 DEF Row
<1> HIDE DEF new
<1>6. Alter(pages, pages')
  BY <1>1, <1>5 DEF Alter
<1>7. Stored' = Stored
  <2>1. IdsOn(pages') = IdsOn(pages)
    BY <1>6, AlterIds
  <2> QED BY <1>1, <2>1 DEF Stored
<1>8. FreshInv'
  <2>1. Owned(m) \subseteq Owned(req[p]) \cup Stored /\ Stored' \subseteq Owned(req[p]) \cup Stored
    BY <1>4, <1>7
  <2> QED BY <1>1, <1>3, <1>4, <2>1, KnownFresh
<1>9. Carries(pages', story', words', m)
  BY <1>4, CarryNothing DEF Carrying
<1>10. TextInv'
  BY <1>1, <1>2, <1>3, <1>6, <1>9, PlainWords
<1> QED BY <1>8, <1>10 DEF WordsInv

LEMMA SaveImageWords ==
  ASSUME Typing, WordsInv, NEW p \in Procs, NEW m, Effect(p, m), SaveImage(p)
  PROVE  WordsInv'
<1> DEFINE r == req[p].pages[1]
           n == [r EXCEPT !.image = r.text]
           l == <<n>>
<1>1. /\ req[p].pc = "image" /\ story' = story /\ words' = words
      /\ IF story.exists THEN pages' = Saved(pages, l) /\ Save(p, Done)
         ELSE Finish(p) /\ UNCHANGED <<pages, disturbed>>
  BY DEF SaveImage, At
<1>2. /\ words \in Nat /\ words' \in Nat /\ words <= words' /\ TextInv
      /\ Controlled(req[p]) /\ Copies(req[p].pages, rowIds)
  BY <1>1 DEF Typing, Scalars, WordsInv
<1>3. Moves(p, m) /\ Grows(p) /\ req'[p] = m
  BY DEF Effect, Moves
<1>4. Owned(m) = {} /\ m.pc = "done"
  <2>1. m = Done
    BY <1>1, <1>3, Resumed DEF Finish, Save
  <2> QED BY <2>1, DoneTyped, StartedOwns
<1>5. Carries(pages', story', words', m)
  BY <1>4, CarryNothing DEF Carrying
<1>6. Len(req[p].pages) = 1 /\ r.id # 0 /\ r \in Row
  <2>1. Len(req[p].pages) = 1 /\ r.id # 0
    BY <1>1, <1>2 DEF Controlled
  <2>2. r \in Row
    BY <1>2, <2>1, ElementOfSeq DEF Copies
  <2> QED BY <2>1, <2>2
<1>7. CASE ~story.exists
  <2>1. UNCHANGED <<story, pages, words>> /\ Owned(m) \subseteq Owned(req[p]) \cup Stored
    BY <1>1, <1>4, <1>7
  <2>2. Carries(pages, story, words, m)
    BY <1>4, CarryNothing DEF Carrying
  <2> QED BY <1>3, <1>4, <2>1, <2>2, ReadWords
<1>8. CASE story.exists
  <2>1. pages' = Saved(pages, l) /\ Save(p, Done)
    BY <1>1, <1>8
  <2>2. Ids(Words(r.text)) \subseteq Owned(req[p])
    <3> DEFINE x == Texts(req[p].pages)
    <3>1. x \in Seq(Text) /\ x[1] = r.text /\ Len(x) = 1
      <4>1. /\ x \in Seq(Text) /\ Len(x) = Len(req[p].pages)
            /\ \A i \in 1..Len(req[p].pages) : x[i] = req[p].pages[i].text
        BY <1>2, TextsTyped
      <4> HIDE DEF x
      <4> QED BY <1>6, <4>1
    <3> HIDE DEF x, r
    <3>2. \A y : y \in Ids(Words(r.text)) => y \in Ids(AllWords(x))
      BY <3>1, WordsOfAll
    <3> QED BY <3>2 DEF Owned, x
  <2>3. ASSUME ~disturbed' PROVE \E x \in pages : x.id = r.id /\ x.text = r.text
    <3>1. ~disturbed /\ ~req[p].stale
      BY <2>1, <2>3 DEF Save
    <3>2. Carries(pages, story, words, req[p])
      BY <1>2, <3>1 DEF TextInv
    <3> QED BY <1>1, <3>2 DEF Carries
  <2> HIDE DEF r
  <2>4. n \in Row /\ n.id = r.id /\ n.text = r.text
    BY <1>6 DEF Row
  <2> HIDE DEF n
  <2>5. DOMAIN l = 1..1 /\ l[1] = n
    OBVIOUS
  <2>6. \A y : y \in Saved(pages, l) <=> y = n \/ (y \in pages /\ y.id # n.id)
    <3> HIDE DEF l
    <3>1. Numbered(l) = [i \in 1..1 |-> n]
      BY <1>6, <2>4, <2>5 DEF Numbered
    <3>2. Range(Numbered(l)) = {n}
      BY <3>1 DEF Range
    <3> QED BY <2>5, <3>2 DEF Saved
  <2> HIDE DEF l
  <2>7. FreshInv'
    <3>1. \A x : x \in IdsOn(pages') => x \in IdsOn(pages) \/ x \in Ids(Words(r.text))
      BY <2>1, <2>4, <2>6, InIdsOn
    <3>2. Stored' = IdsOn(pages') \cup Ids(Words(story.text))
      BY <1>1 DEF Stored
    <3>3. /\ Stored' \subseteq Owned(req[p]) \cup Stored
          /\ Owned(m) \subseteq Owned(req[p]) \cup Stored
      BY <1>4, <2>2, <3>1, <3>2 DEF Stored
    <3> QED BY <1>1, <1>3, <1>4, <3>3, KnownFresh
  <2>8. ASSUME ~disturbed' PROVE Alter(pages, pages')
    <3>1. PICK x \in pages : x.id = n.id /\ x.text = n.text
      BY <2>3, <2>4, <2>8
    <3>2. \A y \in pages : y.id = n.id => y.text = n.text
      BY <3>1 DEF Typing, Rows
    <3>3. \A y : y \in pages' <=> y = n \/ (y \in pages /\ y.id # n.id)
      BY <2>1, <2>6
    <3> QED BY <3>1, <3>2, <3>3 DEF Alter
  <2>9. TextInv'
    BY <1>1, <1>2, <1>3, <1>5, <2>8, PlainWords
  <2> QED BY <2>7, <2>9 DEF WordsInv
<1> QED BY <1>7, <1>8

LEMMA WordsNext ==
  ASSUME PagesInv, NumberInv, WordsInv, [Next]_vars
  PROVE  WordsInv'
<1>1. CASE Next
  <2>1. PICK p \in Procs :
          \/ Create(p) \/ CreatePages(p) \/ LoadStory(p) \/ SaveStory(p)
          \/ LoadForRemove(p) \/ DeleteStory(p) \/ AppendRead(p) \/ AppendWrite(p)
          \/ FindPage(p) \/ ListForUpdate(p) \/ ListForDelete(p) \/ ReplaceRead(p)
          \/ ReplaceWrite(p) \/ CheckOrder(p) \/ WriteOrder(p) \/ LoadPage(p)
          \/ SaveImage(p) \/ CheckShare(p) \/ InsertShare(p) \/ TellOther(p)
          \/ FindShare(p) \/ RemoveShare(p)
    BY <1>1, Zenon DEF Next
  <2>2. Typing /\ StoryInv
    BY DEF PagesInv
  <2>3. PICK m : Effect(p, m)
    BY <2>1, <2>2, NextSteps
  <2>4. CASE \/ LoadForRemove(p) \/ CheckShare(p) \/ InsertShare(p) \/ TellOther(p)
             \/ FindShare(p) \/ RemoveShare(p)
    BY <2>2, <2>3, <2>4, IdleWords
  <2>5. CASE Create(p)
    BY <2>2, <2>3, <2>5, CreateWords
  <2>6. CASE CreatePages(p)
    BY <2>2, <2>3, <2>6, CreatePagesWords
  <2>7. CASE LoadStory(p)
    BY <2>2, <2>3, <2>7, LoadStoryWords
  <2>8. CASE SaveStory(p)
    BY <2>2, <2>3, <2>8, SaveStoryWords
  <2>9. CASE DeleteStory(p)
    BY <2>2, <2>3, <2>9, DeleteStoryWords
  <2>10. CASE AppendRead(p)
    BY <2>2, <2>3, <2>10, AppendReadWords
  <2>11. CASE AppendWrite(p)
    BY <2>2, <2>3, <2>11, AppendWriteWords
  <2>12. CASE FindPage(p)
    BY <2>2, <2>3, <2>12, FindPageWords
  <2>13. CASE ListForUpdate(p)
    BY <2>2, <2>3, <2>13, ListForUpdateWords
  <2>14. CASE ListForDelete(p)
    BY <2>2, <2>3, <2>14, ListForDeleteWords
  <2>15. CASE ReplaceRead(p)
    BY <2>2, <2>3, <2>15, ReplaceReadWords
  <2>16. CASE ReplaceWrite(p)
    BY <2>2, <2>3, <2>16, ReplaceWriteWords
  <2>17. CASE CheckOrder(p)
    BY <2>2, <2>3, <2>17, CheckOrderWords
  <2>18. CASE WriteOrder(p)
    BY <2>2, <2>3, <2>18, WriteOrderWords
  <2>19. CASE LoadPage(p)
    BY <2>2, <2>3, <2>19, LoadPageWords
  <2>20. CASE SaveImage(p)
    BY <2>2, <2>3, <2>20, SaveImageWords
  <2> QED BY <2>1, <2>4, <2>5, <2>6, <2>7, <2>8, <2>9, <2>10, <2>11, <2>12, <2>13, <2>14,
             <2>15, <2>16, <2>17, <2>18, <2>19, <2>20
<1>2. CASE UNCHANGED vars
  BY <1>2 DEF vars, WordsInv, FreshInv, TextInv, Stored, Alone, At
<1> QED BY <1>1, <1>2

LEMMA WordsInit ==
  ASSUME Init
  PROVE  WordsInv
<1>1. /\ pages = {} /\ story = NoStory /\ words = 0
      /\ \A p \in Procs : /\ req[p].pc = "idle" /\ req[p].story = NoStory /\ req[p].pages = <<>>
                          /\ req[p].source = <<>> /\ req[p].parts = <<>>
  BY DEF Init, Idle
<1>2. NoStory.text = <<>> /\ NoStory.status # "READY"
  BY DEF NoStory
<1>3. Stored = {}
  <2>1. IdsOn(pages) = {}
    BY <1>1 DEF IdsOn
  <2> QED BY <1>1, <2>1, StartedOwns DEF Stored
<1>4. ASSUME NEW p \in Procs PROVE Owned(req[p]) = {} /\ Carries(pages, story, words, req[p])
  <2>1. Owned(req[p]) = Ids(Words(NoStory.text)) \cup Ids(AllWords(Texts(<<>>)))
                          \cup Ids(Words(<<>>)) \cup Ids(AllWords(<<>>))
    BY <1>1, Zenon DEF Owned
  <2>2. Carries(pages, story, words, req[p])
    BY <1>1, CarryNothing DEF Carrying
  <2> QED BY <2>1, <2>2, NoList, StartedOwns, SoundNothing
<1>5. FreshInv
  BY <1>1, <1>3, <1>4 DEF FreshInv, At
<1>6. WordsOn(pages, story, words)
  <2>1. Sound(Words(story.text), words)
    BY <1>1, <1>2, SoundNothing
  <2> QED BY <1>1, <1>2, <2>1 DEF WordsOn, Spread
<1> QED BY <1>4, <1>5, <1>6 DEF WordsInv, TextInv

LEMMA RangeIds ==
  ASSUME NEW t \in Text
  PROVE  /\ {w.id : w \in Range(Words(t))} = Ids(Words(t))
         /\ \A i : (\E w \in Range(Words(t)) : w.id = i) <=> i \in Ids(Words(t))
<1> DEFINE ws == Words(t)
<1>1. ws \in Seq(Word)
  BY WordsTyped DEF Paragraph
<1> HIDE DEF ws
<1>2. \A w : w \in Range(ws) <=> \E i \in 1..Len(ws) : w = ws[i]
  BY <1>1, SequenceFinite
<1>3. \A i : (\E w \in Range(ws) : w.id = i) <=> i \in Ids(ws)
  BY <1>2 DEF Ids
<1>4. {w.id : w \in Range(ws)} = Ids(ws)
  BY <1>3
<1> QED BY <1>3, <1>4 DEF ws

LEMMA WordsShown ==
  ASSUME Typing, TextInv
  PROVE  TextOnPages
<1> DEFINE of(r) == {w.id : w \in Range(Words(r.text))}
           ids == UNION {of(r) : r \in pages}
           with(i) == {r \in pages : \E w \in Range(Words(r.text)) : w.id = i}
<1>1. /\ story.text \in Text
      /\ \A r \in pages : r.text \in Text
      /\ \A r, q \in pages : r.id = q.id => r = q
  BY DEF Typing, Scalars, StoryRow, Rows, Row
<1>2. of(story) = Ids(Words(story.text)) /\ \A r \in pages : of(r) = Ids(Words(r.text))
  BY <1>1, RangeIds
<1>3. \A i, r : r \in with(i) <=> r \in pages /\ i \in Ids(Words(r.text))
  BY <1>1, RangeIds
<1> HIDE DEF of, with
<1>4. \A i : i \in ids <=> \E r \in pages : i \in Ids(Words(r.text))
  BY <1>2
<1>5. ids = IdsOn(pages)
  <2>1. \A i : i \in IdsOn(pages) <=> \E r \in pages : i \in Ids(Words(r.text))
    BY InIdsOn
  <2> HIDE DEF ids
  <2> QED BY <1>4, <2>1
<1> HIDE DEF ids
<1>6. ASSUME story.status = "READY", ~disturbed
      PROVE  /\ ids = of(story)
             /\ WordsFit => \A i \in ids : Cardinality(with(i)) = 1
  <2>1. Spread(pages, words) /\ IdsOn(pages) = Ids(Words(story.text))
    BY <1>6 DEF TextInv, WordsOn
  <2>2. ASSUME WordsFit, NEW i \in ids PROVE Cardinality(with(i)) = 1
    <3>1. PICK r \in pages : i \in Ids(Words(r.text))
      BY <1>4
    <3>2. ASSUME NEW q \in pages, i \in Ids(Words(q.text)) PROVE q = r
      <4>1. q.id # r.id => Ids(Words(q.text)) \cap Ids(Words(r.text)) = {}
        BY <2>1, <2>2 DEF Spread
      <4> QED BY <1>1, <3>1, <3>2, <4>1
    <3>3. with(i) = {r}
      BY <1>3, <3>1, <3>2
    <3> QED BY <3>3, FS_Singleton
  <2> QED BY <1>2, <1>5, <2>1, <2>2
<1> QED BY <1>6 DEF TextOnPages, ids, of, with

(* Whatever runs beside whatever, the pages of a story carry the words of  *)
(* its text until a request saves over what it had not seen, and each of   *)
(* them on one page if they all fit on a page: a continuation is on the    *)
(* pages and in the text, an edit replaces the words of its page, and the  *)
(* pages are split again without losing or doubling a word                 *)
(* (story.service.ts:687-770, 905-922).                                    *)
THEOREM WordsStayOnPages == Spec => []TextOnPages
<1>1. Init => PagesInv /\ NumberInv /\ WordsInv
  BY PagesInit, NumberInit, WordsInit
<1>2. PagesInv /\ NumberInv /\ WordsInv /\ [Next]_vars => PagesInv' /\ NumberInv' /\ WordsInv'
  BY PagesNext, NumberNext, WordsNext
<1>3. PagesInv /\ NumberInv /\ WordsInv => TextOnPages
  BY WordsShown DEF PagesInv, WordsInv
<1> QED BY <1>1, <1>2, <1>3, PTL DEF Spec

=============================================================================
