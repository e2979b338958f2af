--------------------------- MODULE KnowledgeProofs ---------------------------
(***************************************************************************)
(* What is proved of what the agent knows: the index of the code, which    *)
(* builds keep up with the files (CodeIndex), the catalog of APIs, whose   *)
(* answers rest on the APIs as they are (EndpointCatalog), and what is put *)
(* into a prompt of it (PromptBudget).                                     *)
(***************************************************************************)
EXTENDS CodeIndex, EndpointCatalog, PromptBudget, SequenceTheorems, FiniteSetTheorems, WellFoundedInduction, TLAPS

(* Induction over the natural numbers and over sequences, in a form whose  *)
(* hypothesis is a set.                                                    *)
LEMMA Induction ==
  ASSUME NEW S, 0 \in S, \A n \in Nat : n \in S => n + 1 \in S
  PROVE  Nat \subseteq S
  <1> DEFINE T == {n \in Nat : n \notin S}
  <1>1. SUFFICES ASSUME T # {} PROVE FALSE
    OBVIOUS
  <1> HIDE DEF T
  <1>2. T \subseteq Nat
    BY DEF T
  <1>3. PICK m \in T : \A k \in T : ~ (<<k, m>> \in OpToRel(<, Nat))
    BY ONLY <1>1, <1>2, NatLessThanWellFounded, WFMin, Zenon
  <1>4. m \in Nat /\ m # 0 /\ m \notin S
    BY <1>3, <1>2 DEF T
  <1>5. m - 1 \in Nat /\ m - 1 < m
    BY <1>4
  <1>6. m - 1 \notin T
    BY <1>3, <1>4, <1>5, Zenon DEF OpToRel
  <1> QED
    BY <1>4, <1>5, <1>6 DEF T

(* How many numbers there are up to a number.                              *)
LEMMA UpTo ==
  ASSUME NEW n \in Nat
  PROVE  IsFiniteSet(1..n) /\ Cardinality(1..n) = n
  <1>1. 1 \in Int /\ n \in Int
    OBVIOUS
  <1>2. IsFiniteSet(1..n) /\ Cardinality(1..n) = IF 1 > n THEN 0 ELSE n - 1 + 1
    BY ONLY <1>1, FS_Interval, Zenon
  <1>3. (IF 1 > n THEN 0 ELSE n - 1 + 1) = n
    OBVIOUS
  <1> QED
    BY <1>2, <1>3

(* Every sequence is in a set that holds the empty one and is closed under *)
(* Append.                                                                 *)
LEMMA SequenceInduction ==
  ASSUME NEW A, NEW T, <<>> \in T,
         \A s \in Seq(A), x \in A : s \in T => Append(s, x) \in T
  PROVE  Seq(A) \subseteq T
  <1> DEFINE S == {n \in Nat : \A s \in Seq(A) : Len(s) = n => s \in T}
  <1>1. 0 \in S
    BY EmptySeq
  <1>2. ASSUME NEW n \in Nat, n \in S
        PROVE  n + 1 \in S
    <2> SUFFICES ASSUME NEW s \in Seq(A), Len(s) = n + 1
                 PROVE  s \in T
      OBVIOUS
    <2>1. s # <<>>
      OBVIOUS
    <2>2. PICK t \in Seq(A), x \in A : s = Append(t, x)
      BY <2>1, SequenceEmptyOrAppend
    <2>3. Len(t) = n
      BY <2>2
    <2> QED
      BY <1>2, <2>2, <2>3
  <1> HIDE DEF S
  <1>3. Nat \subseteq S
    BY <1>1, <1>2, Induction
  <1> QED
    BY <1>3 DEF S

(* What the elements of a sequence at some positions are.                  *)
LEMMA PickedTable ==
  ASSUME NEW s, Len(s) \in Nat, NEW S
  PROVE  \E g : /\ Picked(s, S) = g[Len(s)]
                /\ g[0] = <<>>
                /\ \A k \in 1..Len(s) :
                     g[k] = IF k \in S THEN Append(g[k - 1], s[k]) ELSE g[k - 1]
  <1> DEFINE Body(g, k) == IF k = 0 THEN <<>>
                           ELSE IF k \in S THEN Append(g[k - 1], s[k])
                           ELSE g[k - 1]
             T == {n \in Nat : \E g : g = [k \in 0..n |-> Body(g, k)]}
  <1>1. 0 \in T
    <2> DEFINE g == [k \in 0..0 |-> <<>>]
    <2>1. g = [k \in 0..0 |-> Body(g, k)]
      OBVIOUS
    <2> QED
      BY <2>1
  <1>2. ASSUME NEW n \in Nat, n \in T
        PROVE  n + 1 \in T
    <2>1. PICK g : g = [k \in 0..n |-> Body(g, k)]
      BY <1>2
    <2> DEFINE h == [k \in 0..n + 1 |-> IF k \in 0..n THEN g[k] ELSE Body(g, k)]
    <2>2. \A k \in 0..n + 1 : k # 0 => k - 1 \in 0..n /\ h[k - 1] = g[k - 1]
      OBVIOUS
    <2>3. \A k \in 0..n : g[k] = Body(g, k)
      BY <2>1
    <2>4. \A k \in 0..n + 1 : h[k] = Body(h, k)
      BY <2>2, <2>3
    <2>5. h = [k \in 0..n + 1 |-> h[k]]
      OBVIOUS
    <2>6. h = [k \in 0..n + 1 |-> Body(h, k)]
      BY <2>4, <2>5
    <2> HIDE DEF h
    <2> QED
      BY <2>6, SMTT(60)
  <1>3. Len(s) \in T
    <2> HIDE DEF T
    <2>1. Nat \subseteq T
      BY <1>1, <1>2, Induction
    <2> QED
      BY <2>1
  <1> DEFINE p == CHOOSE g : g = [k \in 0..Len(s) |-> Body(g, k)]
  <1>4. p = [k \in 0..Len(s) |-> Body(p, k)]
    BY <1>3
  <1>5. Picked(s, S) = p[Len(s)]
    BY DEF Picked
  <1> HIDE DEF p
  <1>6. \A k \in 0..Len(s) : p[k] = Body(p, k)
    BY <1>4
  <1> QED
    BY <1>5, <1>6

(* Nothing is picked from the empty sequence.                              *)
LEMMA PickedEmpty ==
  ASSUME NEW S
  PROVE  Picked(<<>>, S) = <<>>
  BY PickedTable

(* A sequence that grows by an element grows its picks by it if its        *)
(* position is picked, and otherwise leaves them as they are.              *)
LEMMA PickedAppend ==
  ASSUME NEW A, NEW s \in Seq(A), NEW x \in A, NEW S
  PROVE  /\ Len(s) + 1 \in S => Picked(Append(s, x), S) = Append(Picked(s, S), x)
         /\ Len(s) + 1 \notin S => Picked(Append(s, x), S) = Picked(s, S)
  <1> DEFINE t == Append(s, x)
  <1>1. /\ t \in Seq(A) /\ Len(t) = Len(s) + 1 /\ Len(s) \in Nat
        /\ \A k \in 1..Len(s) : t[k] = s[k]
        /\ t[Len(s) + 1] = x
    BY AppendProperties
  <1> HIDE DEF t
  <1>2. PICK g : /\ Picked(s, S) = g[Len(s)]
                 /\ g[0] = <<>>
                 /\ \A k \in 1..Len(s) :
                      g[k] = IF k \in S THEN Append(g[k - 1], s[k]) ELSE g[k - 1]
    BY <1>1, PickedTable
  <1>3. PICK h : /\ Picked(t, S) = h[Len(t)]
                 /\ h[0] = <<>>
                 /\ \A k \in 1..Len(t) :
                      h[k] = IF k \in S THEN Append(h[k - 1], t[k]) ELSE h[k - 1]
    BY <1>1, PickedTable
  <1> DEFINE T == {n \in Nat : n <= Len(s) => h[n] = g[n]}
  <1>4. 0 \in T
    BY <1>2, <1>3
  <1>5. ASSUME NEW n \in Nat, n \in T
        PROVE  n + 1 \in T
    <2> SUFFICES ASSUME n + 1 <= Len(s)
                 PROVE  h[n + 1] = g[n + 1]
      OBVIOUS
    <2>1. n + 1 \in 1..Len(s) /\ n + 1 \in 1..Len(t) /\ (n + 1) - 1 = n
      BY <1>1
    <2>2. h[n] = g[n] /\ t[n + 1] = s[n + 1]
      BY <1>5, <1>1, <2>1
    <2> QED
      BY <1>2, <1>3, <2>1, <2>2
  <1> HIDE DEF T
  <1>6. Len(s) \in T
    BY <1>1, <1>4, <1>5, Induction
  <1>7. h[Len(s)] = g[Len(s)]
    BY <1>1, <1>6 DEF T
  <1>8. h[Len(s) + 1] = IF Len(s) + 1 \in S THEN Append(h[Len(s)], x) ELSE h[Len(s)]
    <2>1. Len(s) + 1 \in 1..Len(t) /\ (Len(s) + 1) - 1 = Len(s)
      BY <1>1
    <2> QED
      BY <1>1, <1>3, <2>1
  <1> QED
    BY <1>1, <1>2, <1>3, <1>7, <1>8 DEF t

(* What is picked from a sequence are elements of it.                      *)
LEMMA PickedTyped ==
  ASSUME NEW A, NEW s \in Seq(A), NEW S
  PROVE  Picked(s, S) \in Seq(A)
  <1> DEFINE T == {t \in Seq(A) : Picked(t, S) \in Seq(A)}
  <1>1. <<>> \in T
    BY PickedEmpty, EmptySeq
  <1>2. ASSUME NEW t \in Seq(A), NEW x \in A, t \in T
        PROVE  Append(t, x) \in T
    <2>1. Append(t, x) \in Seq(A) /\ Append(Picked(t, S), x) \in Seq(A)
      BY <1>2, AppendProperties
    <2> QED
      BY <1>2, <2>1, PickedAppend
  <1> HIDE DEF T
  <1>3. Seq(A) \subseteq T
    BY <1>1, <1>2, SequenceInduction
  <1> QED
    BY <1>3 DEF T

(* What is picked are the elements at the positions, each of them once if  *)
(* it is there once.                                                       *)
LEMMA PickedElements ==
  ASSUME NEW A, NEW s \in Seq(A), NEW S
  PROVE  /\ ToSet(Picked(s, S)) = {s[i] : i \in S \cap DOMAIN s}
         /\ IsInjective(s) => IsInjective(Picked(s, S))
  <1> DEFINE Els(t) == {t[i] : i \in S \cap DOMAIN t}
             T == {t \in Seq(A) : /\ ToSet(Picked(t, S)) = Els(t)
                                  /\ IsInjective(t) => IsInjective(Picked(t, S))}
  <1>1. <<>> \in T
    <2> DEFINE none == <<>>
    <2>1. none \in Seq(A) /\ ToSet(none) = {} /\ Els(none) = {} /\ IsInjective(none)
      BY DEF ToSet, IsInjective
    <2>2. Picked(none, S) = none
      BY PickedEmpty
    <2> HIDE DEF none, Els
    <2> QED
      BY <2>1, <2>2 DEF none
  <1>2. ASSUME NEW t \in Seq(A), NEW x \in A, t \in T
        PROVE  Append(t, x) \in T
    <2> DEFINE u == Append(t, x)
               p == Picked(t, S)
               n == Len(t)
    <2>1. /\ u \in Seq(A) /\ n \in Nat /\ DOMAIN t = 1..n /\ DOMAIN u = 1..n + 1
          /\ \A i \in 1..n : u[i] = t[i]
          /\ u[n + 1] = x
      BY AppendProperties, LenProperties
    <2>2. /\ n + 1 \in S => Picked(u, S) = Append(p, x)
          /\ n + 1 \notin S => Picked(u, S) = p
      BY PickedAppend
    <2>3. p \in Seq(A) /\ ToSet(p) = Els(t) /\ (IsInjective(t) => IsInjective(p))
      BY <1>2, PickedTyped
    <2> HIDE DEF u, p, n, Els, T
    <2>4. Els(u) = Els(t) \cup (IF n + 1 \in S THEN {x} ELSE {})
      <3>1. S \cap DOMAIN u = (S \cap DOMAIN t) \cup (IF n + 1 \in S THEN {n + 1} ELSE {})
        BY <2>1
      <3> QED
        BY <2>1, <3>1 DEF Els
    <2>5. ASSUME NEW q \in Seq(A)
          PROVE  /\ ToSet(Append(q, x)) = ToSet(q) \cup {x}
                 /\ IsInjective(q) /\ x \notin ToSet(q) => IsInjective(Append(q, x))
      <3> DEFINE a == Append(q, x)
                 m == Len(q)
      <3>1. /\ m \in Nat /\ DOMAIN q = 1..m /\ DOMAIN a = 1..m + 1
            /\ \A i \in 1..m : a[i] = q[i]
            /\ a[m + 1] = x
        BY AppendProperties, LenProperties
      <3> HIDE DEF a, m
      <3>2. ToSet(a) = ToSet(q) \cup {x}
        BY <3>1 DEF ToSet
      <3>3. ASSUME IsInjective(q), x \notin ToSet(q)
            PROVE  IsInjective(a)
        <4>1. \A i, j \in 1..m : a[i] = a[j] => i = j
          BY <3>1, <3>3 DEF IsInjective
        <4>2. \A i \in 1..m : a[i] # x
          BY <3>1, <3>3 DEF ToSet
        <4>3. \A i \in 1..m + 1 : i \in 1..m \/ i = m + 1
          BY <3>1
        <4> QED
          BY <3>1, <4>1, <4>2, <4>3 DEF IsInjective
      <3> QED
        BY <3>2, <3>3 DEF a
    <2>6. ToSet(Picked(u, S)) = Els(u)
      BY <2>2, <2>3, <2>4, <2>5
    <2>7. ASSUME IsInjective(u)
          PROVE  IsInjective(Picked(u, S))
      <3>1. IsInjective(t) /\ x \notin ToSet(t)
        <4>1. \A i, j \in 1..n + 1 : u[i] = u[j] => i = j
          BY <2>1, <2>7 DEF IsInjective
        <4>2. \A i \in 1..n : i \in 1..n + 1 /\ n + 1 \in 1..n + 1 /\ i # n + 1
          BY <2>1
        <4> QED
          BY <2>1, <4>1, <4>2 DEF IsInjective, ToSet
      <3>2. Els(t) \subseteq ToSet(t)
        BY DEF Els, ToSet
      <3> QED
        BY <2>2, <2>3, <2>5, <3>1, <3>2
    <2> QED
      BY <2>1, <2>6, <2>7 DEF T, u
  <1> HIDE DEF T
  <1>3. Seq(A) \subseteq T
    BY <1>1, <1>2, SequenceInduction
  <1> QED
    BY <1>3 DEF T

-----------------------------------------------------------------------------
(* An order by three numbers, the first that differs counts.               *)
Less(a, b, c, x, y) ==
  \/ a[x] < a[y]
  \/ a[x] = a[y] /\ b[x] < b[y]
  \/ a[x] = a[y] /\ b[x] = b[y] /\ c[x] < c[y]
Place(S, a, b, c, x) == Cardinality({y \in S : Less(a, b, c, y, x)})
Orders(S, a, b, c) ==
  /\ a \in [S -> Int] /\ b \in [S -> Int] /\ c \in [S -> Int]
  /\ \A x, y \in S : a[x] = a[y] /\ b[x] = b[y] /\ c[x] = c[y] => x = y

(* It has a place for each element of a finite set, and no place is free.  *)
LEMMA Places ==
  ASSUME NEW S, IsFiniteSet(S), NEW a, NEW b, NEW c, Orders(S, a, b, c)
  PROVE  /\ Cardinality(S) \in Nat
         /\ \A x \in S : Place(S, a, b, c, x) \in 0..Cardinality(S) - 1
         /\ \A x, y \in S : Less(a, b, c, x, y) <=> Place(S, a, b, c, x) < Place(S, a, b, c, y)
         /\ \A x, y \in S : Place(S, a, b, c, x) = Place(S, a, b, c, y) => x = y
         /\ \A i \in 1..Cardinality(S) : \E x \in S : Place(S, a, b, c, x) = i - 1
  <1> DEFINE B(x) == {y \in S : Less(a, b, c, y, x)}
             P(x) == Cardinality(B(x))
             n == Cardinality(S)
  <1>1. \A x, y \in S : x # y => Less(a, b, c, x, y) \/ Less(a, b, c, y, x)
    BY DEF Orders, Less
  <1>2. \A x \in S : ~Less(a, b, c, x, x)
    BY DEF Orders, Less
  <1>3. \A x, y, z \in S : Less(a, b, c, x, y) /\ Less(a, b, c, y, z) => Less(a, b, c, x, z)
    BY DEF Orders, Less
  <1>4. n \in Nat
    BY FS_CardinalityType
  <1>5. \A x \in S : IsFiniteSet(B(x)) /\ P(x) \in Nat
    BY FS_Subset, FS_CardinalityType
  <1>6. \A x \in S : P(x) \in 0..n - 1
    <2> SUFFICES ASSUME NEW x \in S
                 PROVE  P(x) \in 0..n - 1
      OBVIOUS
    <2>1. B(x) \in SUBSET S /\ x \in S /\ x \notin B(x)
      BY <1>2
    <2>2. P(x) <= n /\ (n = P(x) => S = B(x))
      BY <2>1, FS_Subset
    <2> QED
      BY <1>4, <1>5, <2>1, <2>2
  <1>7. ASSUME NEW x \in S, NEW y \in S, Less(a, b, c, x, y)
        PROVE  P(x) < P(y)
    <2>1. B(x) \in SUBSET B(y) /\ x \in B(y) /\ x \notin B(x)
      BY <1>2, <1>3, <1>7
    <2>2. P(x) <= P(y) /\ (P(y) = P(x) => B(y) = B(x))
      BY <1>5, <2>1, FS_Subset
    <2> HIDE DEF B
    <2>3. P(x) # P(y)
      BY <2>1, <2>2
    <2> QED
      BY <1>5, <2>2, <2>3
  <1>8. \A x, y \in S : P(x) = P(y) => x = y
    <2> HIDE DEF P
    <2> QED
      BY <1>1, <1>6, <1>7
  <1>9. \A x, y \in S : P(x) < P(y) => Less(a, b, c, x, y)
    <2> HIDE DEF P
    <2>1. ASSUME NEW x \in S, NEW y \in S, P(x) < P(y)
          PROVE  Less(a, b, c, x, y)
      <3>1. x # y /\ ~Less(a, b, c, y, x)
        BY <1>4, <1>6, <1>7, <2>1
      <3> QED
        BY <1>1, <3>1
    <2> QED
      BY <2>1
  <1>10. \A i \in 1..n : \E x \in S : P(x) = i - 1
    <2> DEFINE f == [x \in S |-> P(x)]
    <2> HIDE DEF P
    <2>1. f \in Injection(S, 0..n - 1)
      <3>1. f \in [S -> 0..n - 1]
        BY <1>6
      <3>2. \A x, y \in S : f[x] = f[y] => x = y
        BY <1>8
      <3> QED
        BY <3>1, <3>2 DEF Injection, IsInjective
    <2>2. IsFiniteSet(0..n - 1) /\ Cardinality(0..n - 1) = n
      <3> HIDE DEF n
      <3>1. n - 1 \in Int /\ (IF 0 > n - 1 THEN 0 ELSE (n - 1) - 0 + 1) = n
        BY <1>4
      <3> QED
        BY <3>1, FS_Interval
    <2>3. f \in Surjection(S, 0..n - 1)
      BY <2>1, <2>2, FS_Injection
    <2>4. \A k \in 0..n - 1 : \E x \in S : f[x] = k
      BY <2>3 DEF Surjection
    <2> HIDE DEF n
    <2> SUFFICES ASSUME NEW i \in 1..n
                 PROVE  \E x \in S : P(x) = i - 1
      OBVIOUS
    <2>5. i - 1 \in 0..n - 1
      BY <1>4
    <2> QED
      BY <2>4, <2>5
  <1> QED
    BY <1>4, <1>6, <1>7, <1>8, <1>9, <1>10 DEF Place

(* What has an element at its place is the set in order.                   *)
InOrder(r, S, a, b, c) ==
  /\ r \in Seq(S) /\ Len(r) = Cardinality(S) /\ ToSet(r) = S /\ IsInjective(r)
  /\ \A i, j \in DOMAIN r : i < j <=> Less(a, b, c, r[i], r[j])
  /\ \A i \in DOMAIN r : Place(S, a, b, c, r[i]) = i - 1

Numbers(p, S, n) ==
  /\ p \in [S -> 0..n - 1]
  /\ \A x, y \in S : p[x] = p[y] => x = y
  /\ \A i \in 1..n : \E x \in S : p[x] = i - 1
Follows(r, p, S, n) ==
  /\ r = [i \in 1..n |-> r[i]]
  /\ \A i \in 1..n : \A x \in S : p[x] = i - 1 => r[i] \in S /\ p[r[i]] = i - 1
Lists(r, p, S, n) ==
  /\ r \in Seq(S) /\ Len(r) = n /\ DOMAIN r = 1..n /\ ToSet(r) = S /\ IsInjective(r)
  /\ \A i \in 1..n : r[i] \in S /\ p[r[i]] = i - 1

(* A sequence that puts at each number the element whose number it is      *)
(* lists every element, once, in the order of the numbers.                 *)
LEMMA AtPlaces ==
  ASSUME NEW S, NEW n \in Nat, NEW p, NEW r, Numbers(p, S, n), Follows(r, p, S, n)
  PROVE  Lists(r, p, S, n)
  <1> USE DEF Numbers, Follows
  <1>1. \A i \in 1..n : r[i] \in S /\ p[r[i]] = i - 1
    OBVIOUS
  <1>2. DOMAIN r = 1..n /\ r \in Seq(S) /\ Len(r) = n
    BY <1>1
  <1>3. IsInjective(r)
    <2> SUFFICES ASSUME NEW i \in 1..n, NEW j \in 1..n, r[i] = r[j]
                 PROVE  i = j
      BY <1>2 DEF IsInjective
    <2>1. i - 1 = j - 1
      BY <1>1
    <2> QED
      BY <2>1
  <1>4. ToSet(r) = S
    <2>1. ASSUME NEW x \in S
          PROVE  \E i \in 1..n : r[i] = x
      <3>1. p[x] + 1 \in 1..n /\ p[r[p[x] + 1]] = (p[x] + 1) - 1 /\ r[p[x] + 1] \in S
        BY <1>1
      <3> QED
        BY <3>1
    <2> QED
      BY <1>1, <1>2, <2>1 DEF ToSet
  <1> QED
    BY <1>1, <1>2, <1>3, <1>4 DEF Lists

(* A sequence that puts at each place the element with that many elements  *)
(* before it is in order.                                                  *)
LEMMA RankedIs ==
  ASSUME NEW S, IsFiniteSet(S), NEW a, NEW b, NEW c, Orders(S, a, b, c),
         NEW r, r = [i \in 1..Cardinality(S) |-> r[i]],
         \A i \in 1..Cardinality(S) : \A x \in S : Place(S, a, b, c, x) = i - 1 =>
           r[i] \in S /\ Place(S, a, b, c, r[i]) = i - 1
  PROVE  InOrder(r, S, a, b, c)
  <1> DEFINE n == Cardinality(S)
             p == [x \in S |-> Place(S, a, b, c, x)]
  <1>1. /\ n \in Nat
        /\ \A x \in S : Place(S, a, b, c, x) \in 0..n - 1
        /\ \A x, y \in S : Less(a, b, c, x, y) <=> Place(S, a, b, c, x) < Place(S, a, b, c, y)
        /\ \A x, y \in S : Place(S, a, b, c, x) = Place(S, a, b, c, y) => x = y
        /\ \A i \in 1..n : \E x \in S : Place(S, a, b, c, x) = i - 1
    BY Places
  <1>2. /\ p \in [S -> 0..n - 1]
        /\ \A x \in S : p[x] = Place(S, a, b, c, x)
    BY <1>1
  <1> HIDE DEF n, p
  <1>3. Numbers(p, S, n)
    BY <1>1, <1>2 DEF Numbers
  <1>4. Follows(r, p, S, n)
    BY <1>2 DEF Follows, n
  <1>5. Lists(r, p, S, n)
    BY <1>1, <1>3, <1>4, AtPlaces
  <1>6. /\ r \in Seq(S) /\ Len(r) = n /\ DOMAIN r = 1..n /\ ToSet(r) = S /\ IsInjective(r)
        /\ \A i \in 1..n : r[i] \in S /\ p[r[i]] = i - 1
    BY <1>5 DEF Lists
  <1>7. ASSUME NEW i \in 1..n, NEW j \in 1..n
        PROVE  i < j <=> Less(a, b, c, r[i], r[j])
    <2>1. p[r[i]] = i - 1 /\ p[r[j]] = j - 1 /\ r[i] \in S /\ r[j] \in S
      BY <1>6
    <2>2. n \in Nat
      BY <1>1
    <2>3. i < j <=> p[r[i]] < p[r[j]]
      BY ONLY <2>1, <2>2, i \in 1..n, j \in 1..n
    <2> QED
      BY <1>1, <1>2, <2>1, <2>3
  <1>8. \A i \in 1..n : Place(S, a, b, c, r[i]) = i - 1
    BY <1>2, <1>6
  <1> QED
    BY <1>6, <1>7, <1>8 DEF InOrder, n

(* There is one such sequence.                                             *)
LEMMA OneOrder ==
  ASSUME NEW S, IsFiniteSet(S), NEW a, NEW b, NEW c, Orders(S, a, b, c),
         NEW r, NEW q, InOrder(r, S, a, b, c), InOrder(q, S, a, b, c)
  PROVE  r = q
  <1>1. /\ Len(r) = Len(q) /\ DOMAIN r = 1..Len(r) /\ DOMAIN q = 1..Len(q)
        /\ \A i \in 1..Len(r) : r[i] \in S /\ q[i] \in S
    BY DEF InOrder
  <1>3. \A x, y \in S : Place(S, a, b, c, x) = Place(S, a, b, c, y) => x = y
    BY Places
  <1>4. \A i \in 1..Len(r) : Place(S, a, b, c, r[i]) = i - 1 /\ Place(S, a, b, c, q[i]) = i - 1
    BY <1>1 DEF InOrder
  <1>2. \A i \in 1..Len(r) : r[i] = q[i]
    BY <1>1, <1>3, <1>4
  <1> QED
    BY <1>1, <1>2 DEF InOrder

(* A finite set as a sequence: each element once.                          *)
LEMMA SetToSeqIs ==
  ASSUME NEW S, IsFiniteSet(S)
  PROVE  /\ SetToSeq(S) \in Seq(S) /\ Len(SetToSeq(S)) = Cardinality(S)
         /\ IsInjective(SetToSeq(S)) /\ ToSet(SetToSeq(S)) = S
  <1> DEFINE n == Cardinality(S)
             q == SetToSeq(S)
  <1>1. n \in Nat /\ \E f \in [1..n -> S] : IsInjective(f)
    BY FS_CardinalityType DEF ExistsBijection, Bijection, Injection
  <1>2. q \in [1..n -> S] /\ IsInjective(q)
    BY <1>1 DEF SetToSeq
  <1> HIDE DEF q
  <1>3. q \in Seq(S) /\ Len(q) = n /\ DOMAIN q = 1..n
    BY <1>1, <1>2
  <1>4. q \in Injection(1..n, S) /\ Cardinality(1..n) = n
    BY <1>1, <1>2, UpTo DEF Injection
  <1>5. q \in Surjection(1..n, S)
    BY <1>4, FS_Injection
  <1>6. ToSet(q) = S
    BY <1>2, <1>3, <1>5 DEF ToSet, Surjection
  <1> QED
    BY <1>2, <1>3, <1>6 DEF q

(* The first of different elements, and the others.                        *)
LEMMA HeadAndTailOf ==
  ASSUME NEW A, NEW q \in Seq(A), q # <<>>, IsInjective(q)
  PROVE  /\ Head(q) \in A /\ Tail(q) \in Seq(A)
         /\ ToSet(q) = {Head(q)} \cup ToSet(Tail(q))
         /\ Head(q) \notin ToSet(Tail(q)) /\ IsInjective(Tail(q))
  <1>1. /\ Len(q) \in Nat /\ Len(q) > 0 /\ DOMAIN q = 1..Len(q)
        /\ Head(q) = q[1] /\ Tail(q) \in Seq(A) /\ Len(Tail(q)) = Len(q) - 1
        /\ DOMAIN Tail(q) = 1..Len(q) - 1
        /\ \A i \in 1..Len(q) - 1 : Tail(q)[i] = q[i + 1]
    BY HeadTailProperties
  <1> DEFINE t == Tail(q)
             h == Head(q)
  <1> HIDE DEF t, h
  <1>2. /\ h = q[1] /\ DOMAIN t = 1..Len(q) - 1
        /\ \A i \in 1..Len(q) - 1 : t[i] = q[i + 1]
    BY <1>1 DEF t, h
  <1>3. IsInjective(t) /\ h \notin ToSet(t)
    <2>1. \A i, j \in 1..Len(q) : q[i] = q[j] => i = j
      BY <1>1 DEF IsInjective
    <2>2. \A i \in 1..Len(q) - 1 : i + 1 \in 1..Len(q) /\ 1 \in 1..Len(q) /\ i + 1 # 1
      BY <1>1
    <2>3. \A i \in 1..Len(q) - 1 : t[i] # h
      BY <1>2, <2>1, <2>2
    <2>4. \A i, j \in 1..Len(q) - 1 : t[i] = t[j] => i = j
      <3> SUFFICES ASSUME NEW i \in 1..Len(q) - 1, NEW j \in 1..Len(q) - 1, t[i] = t[j]
                   PROVE  i = j
        OBVIOUS
      <3>1. i + 1 = j + 1
        BY <1>2, <2>1, <2>2
      <3> QED
        BY <3>1
    <2> QED
      BY <1>2, <2>3, <2>4 DEF IsInjective, ToSet
  <1>4. ToSet(q) \subseteq {h} \cup ToSet(t)
    <2> SUFFICES ASSUME NEW i \in 1..Len(q)
                 PROVE  q[i] \in {h} \cup ToSet(t)
      BY <1>1 DEF ToSet
    <2>1. CASE i = 1
      BY <1>2, <2>1
    <2>2. CASE i # 1
      <3>1. i - 1 \in 1..Len(q) - 1 /\ q[i] = t[i - 1]
        BY <1>1, <1>2, <2>2
      <3> QED
        BY <1>2, <3>1 DEF ToSet
    <2> QED
      BY <2>1, <2>2
  <1>5. {h} \cup ToSet(t) \subseteq ToSet(q)
    BY <1>1, <1>2 DEF ToSet
  <1>6. h \in A /\ t \in Seq(A)
    BY <1>1 DEF t, h
  <1> QED
    BY <1>3, <1>4, <1>5, <1>6 DEF t, h

-----------------------------------------------------------------------------
(* The code index.                                                         *)
(* Files as an index holds them.                                           *)
IsReference(r) ==
  r = [name |-> r.name, kind |-> r.kind, member |-> r.member, in |-> r.in,
       target |-> r.target, external |-> r.external]
IsImport(i) == i = [form |-> i.form, from |-> i.from, name |-> i.name, as |-> i.as, file |-> i.file]
IsExport(e) == e = [name |-> e.name, local |-> e.local, from |-> e.from, file |-> e.file]
IsFile(f) ==
  /\ f = [path |-> f.path, symbols |-> f.symbols, references |-> f.references,
          imports |-> f.imports, exports |-> f.exports]
  /\ f.path \in Path
  /\ \A r \in f.references : IsReference(r)
  /\ \A i \in f.imports : IsImport(i)
  /\ f.exports \in Seq(ToSet(f.exports))
  /\ \A k \in DOMAIN f.exports : IsExport(f.exports[k])

(* What is resolved, would be again.                                       *)
Settled(f, paths) ==
  /\ \A i \in f.imports : i.file # Nothing => ResolveSpecifier(i.from, paths) # Nothing
  /\ \A k \in DOMAIN f.exports :
       /\ f.exports[k].from = Nothing => f.exports[k].file = Nothing
       /\ f.exports[k].file # Nothing => ResolveSpecifier(f.exports[k].from, paths) # Nothing

OnePerPath(files) == \A f, g \in files : f.path = g.path => f = g
Sound(files) ==
  /\ OnePerPath(files)
  /\ \A f \in files : IsFile(f) /\ Settled(f, PathsOf(files))

(* The file at a path is the one that has it.                              *)
LEMMA FileAtIs ==
  ASSUME NEW files, OnePerPath(files), NEW f \in files
  PROVE  FileAt(files, f.path) = f
  <1>1. \A g \in files : g.path = f.path => g = f
    BY DEF OnePerPath
  <1> QED
    BY <1>1 DEF FileAt

(* The first of the positions at which something is.                       *)
LEMMA FirstOf ==
  ASSUME NEW F, F \subseteq Nat, F # {}
  PROVE  Min(F) \in F /\ \A y \in F : Min(F) <= y
  <1>1. PICK m \in F : \A k \in F : ~ (<<k, m>> \in OpToRel(<, Nat))
    BY ONLY F \subseteq Nat, F # {}, NatLessThanWellFounded, WFMin, Zenon
  <1>2. \A k \in F : m <= k
    <2> SUFFICES ASSUME NEW k \in F, ~ (m <= k)
                 PROVE  FALSE
      OBVIOUS
    <2>1. k \in Nat /\ m \in Nat /\ k < m
      OBVIOUS
    <2> QED
      BY <1>1, <2>1, Zenon DEF OpToRel
  <1> QED
    BY <1>2 DEF Min

(* What is found is one of those looked for, and it is found if one of     *)
(* them is there.                                                          *)
LEMMA FirstIs ==
  ASSUME NEW ps, DOMAIN ps \subseteq Nat, NEW among
  PROVE  /\ (\E i \in DOMAIN ps : ps[i] \in among) => First(ps, among) \in among
         /\ (\A i \in DOMAIN ps : ps[i] \notin among) => First(ps, among) = Nothing
  <1> DEFINE found == {i \in DOMAIN ps : ps[i] \in among}
  <1>1. found \subseteq Nat
    OBVIOUS
  <1>2. found # {} => Min(found) \in found
    BY <1>1, FirstOf
  <1> QED
    BY <1>2 DEF First

(* Candidates are a sequence.                                              *)
LEMMA CandidatesDomain ==
  ASSUME IndexAssumption, NEW specifier
  PROVE  DOMAIN Candidates(specifier) \subseteq Nat
  <1> DEFINE On(stem) == [i \in DOMAIN Extension |-> [stem |-> stem, ext |-> Extension[i]]]
             one == << [stem |-> specifier.stem, ext |-> specifier.ext] >>
             same == On(specifier.stem)
             inside == On(IndexOf(specifier.stem))
             Whichever == {one[1]} \cup {[stem |-> specifier.stem, ext |-> Extension[i]] : i \in DOMAIN Extension}
                    \cup {[stem |-> IndexOf(specifier.stem), ext |-> Extension[i]] : i \in DOMAIN Extension}
             two == IF specifier.ext \in Emitted \cup {""} THEN same ELSE <<>>
             three == IF specifier.ext = "" THEN inside ELSE <<>>
  <1>1. Len(Extension) \in Nat /\ DOMAIN Extension = 1..Len(Extension)
    BY DEF IndexAssumption
  <1>2. one \in Seq(Whichever)
    OBVIOUS
  <1>3. same \in Seq(Whichever) /\ inside \in Seq(Whichever)
    BY <1>1
  <1>4. Candidates(specifier) = one \o two \o three
    BY DEF Candidates
  <1> HIDE DEF Whichever, one, same, inside
  <1>5. two \in Seq(Whichever) /\ three \in Seq(Whichever)
    <2>1. <<>> \in Seq(Whichever)
      OBVIOUS
    <2> QED
      BY <1>3, <2>1, Zenon
  <1> HIDE DEF two, three
  <1>6. one \o two \o three \in Seq(Whichever)
    BY <1>2, <1>5, ConcatProperties
  <1> QED
    BY <1>4, <1>6

(* A specifier that leads to a file leads to one however many files more   *)
(* there are.                                                              *)
LEMMA ResolvesAmongMore ==
  ASSUME IndexAssumption, NEW specifier, NEW few, NEW many, few \subseteq many, Nothing \notin many,
         ResolveSpecifier(specifier, few) # Nothing
  PROVE  ResolveSpecifier(specifier, many) \in many
  <1> DEFINE ps == Candidates(specifier)
  <1>1. ~IsExternal(specifier) /\ First(ps, few) # Nothing
    BY DEF ResolveSpecifier
  <1>2. DOMAIN ps \subseteq Nat
    BY CandidatesDomain
  <1> HIDE DEF ps
  <1>3. \E i \in DOMAIN ps : ps[i] \in few
    BY <1>1, <1>2, FirstIs
  <1>4. First(ps, many) \in many
    BY <1>2, <1>3, FirstIs
  <1> QED
    BY <1>1, <1>4 DEF ResolveSpecifier, ps

-----------------------------------------------------------------------------
(* What link() does to one file when the files at paths are there: its     *)
(* records of other files are resolved, then its names.                    *)
At(r, paths) ==
  IF ResolveSpecifier(r.from, paths) = Nothing THEN r
  ELSE [r EXCEPT !.file = ResolveSpecifier(r.from, paths)]
Placed(f, paths) ==
  [path |-> f.path, symbols |-> f.symbols, references |-> f.references,
   imports |-> {At(i, paths) : i \in f.imports},
   exports |-> [k \in DOMAIN f.exports |->
                  IF f.exports[k].from = Nothing THEN f.exports[k] ELSE At(f.exports[k], paths)]]
Linked(with, f) ==
  [path |-> f.path, symbols |-> f.symbols,
   references |-> {Resolved(with, f, r) : r \in f.references},
   imports |-> f.imports, exports |-> f.exports]

(* A file but for some of its fields.                                      *)
LEMMA FileWith ==
  ASSUME NEW f, NEW symbols, NEW references, NEW imports, NEW exports,
         f = [path |-> f.path, symbols |-> f.symbols, references |-> f.references,
              imports |-> f.imports, exports |-> f.exports]
  PROVE  /\ [f EXCEPT !.imports = imports, !.exports = exports]
               = [path |-> f.path, symbols |-> f.symbols, references |-> f.references,
                  imports |-> imports, exports |-> exports]
         /\ [f EXCEPT !.references = references]
               = [path |-> f.path, symbols |-> f.symbols, references |-> references,
                  imports |-> f.imports, exports |-> f.exports]
  <1>1. DOMAIN f = {"path", "symbols", "references", "imports", "exports"}
    OBVIOUS
  <1>2. ASSUME NEW g, DOMAIN g = DOMAIN f, g = [k \in DOMAIN g |-> g[k]]
        PROVE  g = [path |-> g.path, symbols |-> g.symbols, references |-> g.references,
                    imports |-> g.imports, exports |-> g.exports]
    BY <1>1, <1>2
  <1> DEFINE a == [f EXCEPT !.imports = imports, !.exports = exports]
             b == [f EXCEPT !.references = references]
  <1>3. /\ DOMAIN a = DOMAIN f /\ a = [k \in DOMAIN a |-> a[k]]
        /\ a.path = f.path /\ a.symbols = f.symbols /\ a.references = f.references
        /\ a.imports = imports /\ a.exports = exports
    BY <1>1
  <1>4. /\ DOMAIN b = DOMAIN f /\ b = [k \in DOMAIN b |-> b[k]]
        /\ b.path = f.path /\ b.symbols = f.symbols /\ b.references = references
        /\ b.imports = f.imports /\ b.exports = f.exports
    BY <1>1
  <1> HIDE DEF a, b
  <1>6. a = [path |-> a.path, symbols |-> a.symbols, references |-> a.references,
             imports |-> a.imports, exports |-> a.exports]
    BY <1>2, <1>3
  <1>7. b = [path |-> b.path, symbols |-> b.symbols, references |-> b.references,
             imports |-> b.imports, exports |-> b.exports]
    BY <1>2, <1>4
  <1> QED
    BY <1>3, <1>4, <1>6, <1>7 DEF a, b

(* Resolving the imports (CodeIndex!WithImports) places the imports and    *)
(* exports of each file, and drops none.                                   *)
LEMMA WithImportsIs ==
  ASSUME NEW files, \A f \in files : IsFile(f)
  PROVE  WithImports(files) = {Placed(f, PathsOf(files)) : f \in files}
  <1> DEFINE I(f) == {At(r, PathsOf(files)) : r \in f.imports}
             E(f) == [i \in DOMAIN f.exports |->
                        IF f.exports[i].from = Nothing THEN f.exports[i]
                        ELSE At(f.exports[i], PathsOf(files))]
             With(f) == [f EXCEPT !.imports = I(f), !.exports = E(f)]
  <1>1. WithImports(files) = {With(f) : f \in files}
    BY DEF WithImports, At
  <1>2. \A f : Placed(f, PathsOf(files)) =
                 [path |-> f.path, symbols |-> f.symbols, references |-> f.references,
                  imports |-> I(f), exports |-> E(f)]
    BY DEF Placed
  <1> HIDE DEF I, E
  <1>3. ASSUME NEW f \in files
        PROVE  With(f) = Placed(f, PathsOf(files))
    <2>1. With(f) = [path |-> f.path, symbols |-> f.symbols, references |-> f.references,
                     imports |-> I(f), exports |-> E(f)]
      <3>1. f = [path |-> f.path, symbols |-> f.symbols, references |-> f.references,
                 imports |-> f.imports, exports |-> f.exports]
        BY DEF IsFile
      <3> QED
        BY <3>1, FileWith, Zenon
    <2> QED
      BY <1>2, <2>1
  <1> HIDE DEF With
  <1> QED
    BY <1>1, <1>3

(* A file is one still when its imports are resolved, and what they lead   *)
(* to they would lead to again.                                            *)
LEMMA PlacedIs ==
  ASSUME NEW f, IsFile(f), NEW paths
  PROVE  /\ IsFile(Placed(f, paths))
         /\ Settled(f, paths) => Settled(Placed(f, paths), paths)
  <1> DEFINE g == Placed(f, paths)
  <1>1. ASSUME NEW i, IsImport(i)
        PROVE  /\ IsImport(At(i, paths)) /\ At(i, paths).from = i.from
               /\ At(i, paths) # i => ResolveSpecifier(i.from, paths) # Nothing
    BY <1>1 DEF IsImport, At
  <1>2. ASSUME NEW e, IsExport(e)
        PROVE  /\ IsExport(At(e, paths)) /\ At(e, paths).from = e.from
               /\ At(e, paths) # e => ResolveSpecifier(e.from, paths) # Nothing
    BY <1>2 DEF IsExport, At
  <1>3. /\ g.path = f.path /\ g.symbols = f.symbols /\ g.references = f.references
        /\ g.imports = {At(i, paths) : i \in f.imports}
        /\ DOMAIN g.exports = DOMAIN f.exports
        /\ \A k \in DOMAIN f.exports :
             g.exports[k] = IF f.exports[k].from = Nothing THEN f.exports[k] ELSE At(f.exports[k], paths)
        /\ g.exports = [k \in DOMAIN f.exports |-> g.exports[k]]
        /\ g = [path |-> g.path, symbols |-> g.symbols, references |-> g.references,
                imports |-> g.imports, exports |-> g.exports]
    BY DEF Placed
  <1> HIDE DEF g
  <1>4. \E n \in Nat : DOMAIN f.exports = 1..n
    BY DEF IsFile
  <1>5. g.exports \in Seq(ToSet(g.exports))
    <2>1. \A k \in DOMAIN g.exports : g.exports[k] \in ToSet(g.exports)
      BY DEF ToSet
    <2> QED
      BY <1>3, <1>4, <2>1
  <1>6. IsFile(g)
    BY <1>1, <1>2, <1>3, <1>5 DEF IsFile
  <1>7. Settled(f, paths) => Settled(g, paths)
    <2> SUFFICES ASSUME Settled(f, paths)
                 PROVE  Settled(g, paths)
      OBVIOUS
    <2>1. \A i \in g.imports : i.file # Nothing => ResolveSpecifier(i.from, paths) # Nothing
      BY <1>1, <1>3 DEF Settled, IsFile
    <2>2. ASSUME NEW k \in DOMAIN g.exports
          PROVE  /\ g.exports[k].from = Nothing => g.exports[k].file = Nothing
                 /\ g.exports[k].file # Nothing => ResolveSpecifier(g.exports[k].from, paths) # Nothing
      BY <1>2, <1>3, <2>2 DEF Settled, IsFile
    <2> QED
      BY <2>1, <2>2 DEF Settled
  <1> QED
    BY <1>6, <1>7 DEF g

(* A reference is one still when its name is resolved.                     *)
LEMMA ResolvedIs ==
  ASSUME NEW files, NEW f, NEW r, IsReference(r)
  PROVE  /\ IsReference(Resolved(files, f, r))
         /\ Resolved(files, f, r).name = r.name /\ Resolved(files, f, r).kind = r.kind
         /\ Resolved(files, f, r).member = r.member /\ Resolved(files, f, r).in = r.in
         /\ r.member => Resolved(files, f, r) = r
         /\ ~r.member /\ Target(files, f, r.name) # Nothing =>
              /\ Resolved(files, f, r).target = Target(files, f, r.name)
              /\ Resolved(files, f, r).external = r.external
         /\ ~r.member /\ Target(files, f, r.name) = Nothing =>
              Resolved(files, f, r).target = r.target
  <1> DEFINE t == Target(files, f, r.name)
  <1> HIDE DEF t
  <1>1. DOMAIN r = {"name", "kind", "member", "in", "target", "external"}
    BY DEF IsReference
  <1>2. ASSUME NEW g, DOMAIN g = DOMAIN r, g = [k \in DOMAIN g |-> g[k]]
        PROVE  IsReference(g)
    BY <1>1, <1>2 DEF IsReference
  <1> DEFINE a == [r EXCEPT !.target = t]
             b == [r EXCEPT !.external = TRUE]
  <1>3. /\ DOMAIN a = DOMAIN r /\ a = [k \in DOMAIN a |-> a[k]]
        /\ a.name = r.name /\ a.kind = r.kind /\ a.member = r.member /\ a.in = r.in
        /\ a.target = t /\ a.external = r.external
    BY <1>1
  <1>4. /\ DOMAIN b = DOMAIN r /\ b = [k \in DOMAIN b |-> b[k]]
        /\ b.name = r.name /\ b.kind = r.kind /\ b.member = r.member /\ b.in = r.in
        /\ b.target = r.target
    BY <1>1
  <1>5. Resolved(files, f, r) = IF r.member THEN r ELSE IF t # Nothing THEN a
                                ELSE IF FromPackage(f, r.name) THEN b ELSE r
    BY DEF Resolved, t
  <1> HIDE DEF a, b
  <1>6. IsReference(a) /\ IsReference(b)
    BY <1>2, <1>3, <1>4
  <1> QED
    BY <1>3, <1>4, <1>5, <1>6 DEF t

(* Linking (CodeIndex!Link) is resolving the imports, then the references  *)
(* of each file.                                                           *)
LEMMA LinkIs ==
  ASSUME NEW files, \A f \in files : IsFile(f)
  PROVE  Link(files) = {Linked(WithImports(files), f) : f \in WithImports(files)}
  <1> DEFINE with == WithImports(files)
             Names(f) == {Resolved(with, f, r) : r \in f.references}
             In(f) == [f EXCEPT !.references = Names(f)]
  <1>1. Link(files) = {In(f) : f \in with}
    BY DEF Link
  <1>2. \A f \in with : IsFile(f)
    BY WithImportsIs, PlacedIs
  <1>3. \A f : Linked(with, f) =
                 [path |-> f.path, symbols |-> f.symbols, references |-> Names(f),
                  imports |-> f.imports, exports |-> f.exports]
    BY DEF Linked
  <1> HIDE DEF with, Names
  <1>4. ASSUME NEW f \in with
        PROVE  In(f) = Linked(with, f)
    <2>1. f = [path |-> f.path, symbols |-> f.symbols, references |-> f.references,
               imports |-> f.imports, exports |-> f.exports]
      BY <1>2 DEF IsFile
    <2>2. In(f) = [path |-> f.path, symbols |-> f.symbols, references |-> Names(f),
                   imports |-> f.imports, exports |-> f.exports]
      BY <2>1, FileWith, Zenon
    <2> QED
      BY <1>3, <2>2
  <1> HIDE DEF In
  <1>5. Link(files) = {Linked(with, f) : f \in with}
    BY <1>1, <1>4
  <1> QED
    BY <1>5 DEF with

(* What is linked has the files it is made of, and what it resolves they   *)
(* would resolve again.                                                    *)
LEMMA LinkedIs ==
  ASSUME NEW with, NEW f, IsFile(f), NEW paths
  PROVE  IsFile(Linked(with, f)) /\ (Settled(f, paths) => Settled(Linked(with, f), paths))
  <1>1. \A r \in f.references : IsReference(Resolved(with, f, r))
    BY ResolvedIs DEF IsFile
  <1>2. IsFile(Linked(with, f))
    BY <1>1 DEF IsFile, Linked
  <1>3. Settled(f, paths) => Settled(Linked(with, f), paths)
    BY DEF Settled, Linked
  <1> QED
    BY <1>2, <1>3

(* Linking keeps an index sound, and its paths.                            *)
LEMMA LinkSound ==
  ASSUME NEW files, Sound(files)
  PROVE  Sound(Link(files)) /\ PathsOf(Link(files)) = PathsOf(files)
  <1> DEFINE with == WithImports(files)
  <1>1. OnePerPath(files) /\ \A f \in files : IsFile(f) /\ Settled(f, PathsOf(files))
    BY DEF Sound
  <1>2. with = {Placed(f, PathsOf(files)) : f \in files}
    BY <1>1, WithImportsIs
  <1>3. Link(files) = {Linked(with, f) : f \in with}
    BY <1>1, LinkIs
  <1> HIDE DEF with
  <1>4. \A f \in with : IsFile(f) /\ Settled(f, PathsOf(files))
    BY <1>1, <1>2, PlacedIs
  <1> DEFINE Before(f) == Placed(f, PathsOf(files))
             Result(f) == Linked(with, f)
             Out(f) == Result(Before(f))
  <1>5. \A f \in files : Out(f).path = f.path
    BY DEF Placed, Linked
  <1>6. Link(files) = {Out(f) : f \in files}
    <2>1. with = {Before(f) : f \in files} /\ Link(files) = {Result(f) : f \in with}
      BY <1>2, <1>3
    <2> HIDE DEF Before, Result
    <2>2. \A f \in files : Before(f) \in with /\ Out(f) \in Link(files)
      BY <2>1
    <2>3. \A g \in Link(files) : \E f \in files : g = Out(f)
      BY <2>1
    <2> HIDE DEF Out
    <2> QED
      BY <2>2, <2>3
  <1> HIDE DEF Out
  <1>7. PathsOf(Link(files)) = PathsOf(files)
    BY <1>5, <1>6 DEF PathsOf
  <1>8. OnePerPath(Link(files))
    BY <1>1, <1>5, <1>6 DEF OnePerPath
  <1>9. \A g \in Link(files) : IsFile(g) /\ Settled(g, PathsOf(files))
    BY <1>3, <1>4, LinkedIs
  <1> QED
    BY <1>7, <1>8, <1>9 DEF Sound

(* What is read of a file leads to no other file yet.                      *)
LEMMA ImageFinite ==
  ASSUME NEW S, IsFiniteSet(S), NEW f, DOMAIN f = S
  PROVE  IsFiniteSet({f[x] : x \in S})
  <1> DEFINE T == {f[x] : x \in S}
             g == [x \in S |-> f[x]]
  <1>1. g \in Surjection(S, T)
    BY DEF Surjection
  <1> HIDE DEF T, g
  <1>2. IsFiniteSet(T)
    BY <1>1, FS_Surjection
  <1> QED
    BY <1>2 DEF T

(* A use the analyzer collects is a reference not resolved yet.            *)
LEMMA UsesAre ==
  ASSUME NEW in, NEW bound, NEW uses
  PROVE  \A r \in Uses(in, bound, uses) : IsReference(r) /\ r.target = Nothing /\ ~r.external
  BY DEF Uses, Reference, IsReference

(* The same of every use of a declaration.                                 *)
LEMMA UsesOfAre ==
  ASSUME NEW p, NEW d
  PROVE  \A r \in UsesOf(p, d) : IsReference(r) /\ r.target = Nothing /\ ~r.external
  <1> DEFINE Own == Uses(IF d.name = "default" THEN File(p) ELSE Id(p, Nothing, d.name),
                         IF d.kind = "function" /\ d.name # "default" THEN d.bound ELSE {}, d.uses)
             Of(m) == Uses(Id(p, IF m.method THEN d.name ELSE Nothing, IF m.method THEN m.name ELSE d.name),
                           IF m.method THEN m.bound ELSE {}, m.uses)
  <1>1. UsesOf(p, d) = Own \cup UNION {Of(m) : m \in d.members}
    BY DEF UsesOf
  <1>2. \A r \in Own : IsReference(r) /\ r.target = Nothing /\ ~r.external
    BY UsesAre
  <1>3. \A m \in d.members : \A r \in Of(m) : IsReference(r) /\ r.target = Nothing /\ ~r.external
    BY UsesAre
  <1> HIDE DEF Own, Of
  <1> QED
    BY <1>1, <1>2, <1>3

(* What the analyzer makes of a file is a file of the index with nothing   *)
(* resolved.                                                               *)
LEMMA AnalyzedIs ==
  ASSUME IndexAssumption, NEW p \in Path, NEW s \in Held
  PROVE  /\ IsFile(Analyzed(p, s)) /\ Analyzed(p, s).path = p
         /\ \A paths : Settled(Analyzed(p, s), paths)
  <1>1. \A r \in References(p, s) : IsReference(r)
    <2> DEFINE Of(d) == UsesOf(p, d)
               I == {Reference(i.as, "import", FALSE, File(p)) : i \in {j \in s.imports : j.form = "named"}}
               E == {Reference(e.local, "export", FALSE, File(p)) :
                       e \in {x \in ToSet(s.exports) : x.name # "*" /\ x.local # Nothing}}
    <2>1. References(p, s) = I \cup E \cup UNION {Of(d) : d \in s.decls}
      BY DEF References
    <2>2. \A r \in I \cup E : IsReference(r)
      BY DEF Reference, IsReference
    <2>3. \A d \in s.decls : \A r \in Of(d) : IsReference(r)
      BY UsesOfAre
    <2> HIDE DEF I, E, Of
    <2> QED
      BY <2>1, <2>2, <2>3
  <1>2. \A i \in Imports(s) : IsImport(i) /\ i.file = Nothing
    BY DEF Imports, Import, IsImport
  <1>3. /\ Exports(s) \in Seq(ToSet(Exports(s)))
        /\ \A k \in DOMAIN Exports(s) : IsExport(Exports(s)[k]) /\ Exports(s)[k].file = Nothing
    <2> DEFINE declared == {d \in s.decls : d.exported}
               Of(d) == Export(IF d.default THEN "default" ELSE d.name, d.name, Nothing)
               D == {Of(d) : d \in declared}
               E == [i \in DOMAIN s.exports |-> Export(s.exports[i].name, s.exports[i].local, s.exports[i].from)]
               A == {e \in D \cup {E[i] : i \in DOMAIN E} : IsExport(e) /\ e.file = Nothing}
    <2>1. Exports(s) = E \o SetToSeq(D)
      BY DEF Exports
    <2>2. IsFiniteSet(declared)
      BY FS_Subset DEF IndexAssumption
    <2>3. IsFiniteSet(D)
      <3> DEFINE f == [d \in declared |-> Of(d)]
      <3>1. DOMAIN f = declared /\ D = {f[d] : d \in declared}
        OBVIOUS
      <3> HIDE DEF f, declared, D
      <3> QED
        BY <2>2, <3>1, ImageFinite
    <2>4. \A name, local, from : /\ IsExport(Export(name, local, from))
                                 /\ Export(name, local, from).file = Nothing
      BY DEF Export, IsExport
    <2>5. Len(s.exports) \in Nat /\ DOMAIN s.exports = 1..Len(s.exports)
      BY DEF IndexAssumption
    <2>6. E \in Seq(A)
      <3>1. \A i \in DOMAIN s.exports : E[i] \in A
        BY <2>4
      <3>2. E = [i \in 1..Len(s.exports) |-> E[i]]
        BY <2>5
      <3> HIDE DEF A, E
      <3> QED
        BY <2>5, <3>1, <3>2
    <2>7. D \subseteq A
      BY <2>4
    <2> HIDE DEF A, E, D
    <2>8. SetToSeq(D) \in Seq(A)
      BY <2>3, <2>7, SetToSeqIs
    <2>9. Exports(s) \in Seq(A)
      BY <2>1, <2>6, <2>8, ConcatProperties
    <2>10. \A k \in DOMAIN Exports(s) : Exports(s)[k] \in A
      BY <2>9
    <2>11. \A k \in DOMAIN Exports(s) : Exports(s)[k] \in ToSet(Exports(s))
      BY DEF ToSet
    <2>12. Exports(s) \in Seq(ToSet(Exports(s)))
      BY <2>9, <2>11
    <2> QED
      BY <2>10, <2>12 DEF A
  <1>4. Analyzed(p, s) = [path |-> p, symbols |-> Symbols(p, s), references |-> References(p, s),
                          imports |-> Imports(s), exports |-> Exports(s)]
    BY DEF Analyzed
  <1> DEFINE f == Analyzed(p, s)
  <1>5. /\ f.path = p /\ f.references = References(p, s) /\ f.imports = Imports(s)
        /\ f.exports = Exports(s)
        /\ f = [path |-> f.path, symbols |-> f.symbols, references |-> f.references,
                imports |-> f.imports, exports |-> f.exports]
    BY <1>4
  <1> HIDE DEF f
  <1>6. IsFile(f)
    BY <1>1, <1>2, <1>3, <1>5 DEF IsFile
  <1>7. \A paths : Settled(f, paths)
    BY <1>2, <1>3, <1>5 DEF Settled
  <1> QED
    BY <1>5, <1>6, <1>7 DEF f

(* A file that is read again takes the place of what it was.               *)
LEMMA SettledAmongMore ==
  ASSUME IndexAssumption, NEW f, NEW few, NEW many, few \subseteq many, Nothing \notin many,
         Settled(f, few)
  PROVE  Settled(f, many)
  <1>1. \A i \in f.imports : i.file # Nothing => ResolveSpecifier(i.from, many) # Nothing
    BY ResolvesAmongMore DEF Settled
  <1>2. \A k \in DOMAIN f.exports :
          /\ f.exports[k].from = Nothing => f.exports[k].file = Nothing
          /\ f.exports[k].file # Nothing => ResolveSpecifier(f.exports[k].from, many) # Nothing
    BY ResolvesAmongMore DEF Settled
  <1> QED
    BY <1>1, <1>2 DEF Settled

(* Reading one file again keeps an index sound.                            *)
LEMMA SoundUpdate ==
  ASSUME IndexAssumption, NEW files, Sound(files), NEW p \in Path, NEW s \in Held
  PROVE  /\ Sound({f \in files : f.path # p} \cup {Analyzed(p, s)})
         /\ PathsOf({f \in files : f.path # p} \cup {Analyzed(p, s)}) \subseteq Path
  <1> DEFINE base == {f \in files : f.path # p} \cup {Analyzed(p, s)}
             P == PathsOf(base)
  <1>1. OnePerPath(files) /\ \A f \in files : IsFile(f) /\ Settled(f, PathsOf(files))
    BY DEF Sound
  <1>2. /\ IsFile(Analyzed(p, s)) /\ Analyzed(p, s).path = p
        /\ \A paths : Settled(Analyzed(p, s), paths)
    BY AnalyzedIs
  <1>3. OnePerPath(base)
    BY <1>1, <1>2 DEF OnePerPath
  <1>4. \A f \in base : IsFile(f)
    BY <1>1, <1>2
  <1>5. P \subseteq Path
    BY <1>4 DEF PathsOf, IsFile
  <1>6. PathsOf(files) \subseteq P
    <2> SUFFICES ASSUME NEW f \in files
                 PROVE  \E g \in base : f.path = g.path
      BY DEF PathsOf
    <2> QED
      BY <1>2
  <1>7. Nothing \notin P
    BY <1>5 DEF IndexAssumption
  <1>8. \A f \in base : Settled(f, P)
    <2> SUFFICES ASSUME NEW f \in base
                 PROVE  Settled(f, P)
      OBVIOUS
    <2> HIDE DEF P
    <2>1. CASE f \in files
      BY <1>1, <1>6, <1>7, <2>1, SettledAmongMore
    <2>2. CASE f = Analyzed(p, s)
      BY <1>2, <2>2
    <2> QED
      BY <2>1, <2>2
  <1> QED
    BY <1>3, <1>4, <1>5, <1>8 DEF Sound

-----------------------------------------------------------------------------
(* What a name stands for depends on what the files declare and hand on,   *)
(* not on what they refer to.                                              *)
Alike(files, others) ==
  /\ OnePerPath(files) /\ OnePerPath(others) /\ PathsOf(files) = PathsOf(others)
  /\ \A f \in files, g \in others : f.path = g.path =>
       f.symbols = g.symbols /\ f.imports = g.imports /\ f.exports = g.exports

(* Indexes that are alike export the same declaration under each name.     *)
LEMMA ExportedAlike ==
  ASSUME NEW files, NEW others, Alike(files, others)
  PROVE  \A name : \A p \in PathsOf(files) \cup {Nothing} :
           Exported(files, p, name) = Exported(others, p, name)
  <1>1. \A p \in PathsOf(files) :
          /\ FileAt(files, p).symbols = FileAt(others, p).symbols
          /\ FileAt(files, p).exports = FileAt(others, p).exports
    <2> SUFFICES ASSUME NEW p \in PathsOf(files)
                 PROVE  /\ FileAt(files, p).symbols = FileAt(others, p).symbols
                        /\ FileAt(files, p).exports = FileAt(others, p).exports
      OBVIOUS
    <2>1. PICK f \in files : f.path = p
      BY DEF PathsOf
    <2>2. PICK g \in others : g.path = p
      BY DEF PathsOf, Alike
    <2>3. FileAt(files, p) = f /\ FileAt(others, p) = g
      BY <2>1, <2>2, FileAtIs DEF Alike
    <2> QED
      BY <2>1, <2>2, <2>3 DEF Alike
  <1>2. ExportsOf(files) = ExportsOf(others)
    BY <1>1 DEF ExportsOf, Alike
  <1>3. Declared(files) = Declared(others)
    BY <1>1 DEF Declared, Alike
  <1> SUFFICES ASSUME NEW p \in PathsOf(files) \cup {Nothing}, NEW name
               PROVE  Exported(files, p, name) = Exported(others, p, name)
    OBVIOUS
  <1>4. ResolveIn(ExportsOf(files), Declared(files), p, name)
          = ResolveIn(ExportsOf(others), Declared(others), p, name)
    BY <1>2, <1>3
  <1> QED
    BY <1>1, <1>4 DEF Exported

(* Indexes that are alike resolve a name in a file to the same             *)
(* declaration.                                                            *)
LEMMA TargetAlike ==
  ASSUME NEW files, NEW others, Alike(files, others),
         NEW f \in files, NEW g \in others, f.path = g.path,
         \A i \in f.imports : i.file \in PathsOf(files) \cup {Nothing}, NEW name
  PROVE  Target(files, f, name) = Target(others, g, name)
  <1>1. f.symbols = g.symbols /\ f.imports = g.imports
    BY DEF Alike
  <1>2. \A i \in f.imports : Exported(files, i.file, i.name) = Exported(others, i.file, i.name)
    BY ExportedAlike
  <1>3. Bindings(files, f) = Bindings(others, g)
    BY <1>1, <1>2 DEF Bindings
  <1> DEFINE B == {b \in Bindings(files, f) : Bound(b) = name}
  <1>4. B \subseteq f.imports /\ B = {b \in Bindings(others, g) : Bound(b) = name}
    BY <1>3 DEF Bindings
  <1> HIDE DEF B
  <1>5. {Exported(files, i.file, i.name) : i \in B} = {Exported(others, i.file, i.name) : i \in B}
    BY <1>2, <1>4
  <1> DEFINE X == {Exported(files, i.file, i.name) : i \in B}
  <1>6. Target(files, f, name) =
          IF X # {} THEN CHOOSE d \in X : TRUE
          ELSE IF \E s \in f.symbols : s.container = Nothing /\ s.name = name
               THEN Id(f.path, Nothing, name) ELSE Nothing
    BY DEF Target, B
  <1>7. Target(others, g, name) =
          IF X # {} THEN CHOOSE d \in X : TRUE
          ELSE IF \E s \in f.symbols : s.container = Nothing /\ s.name = name
               THEN Id(f.path, Nothing, name) ELSE Nothing
    BY <1>1, <1>4, <1>5 DEF Target
  <1> QED
    BY <1>6, <1>7

-----------------------------------------------------------------------------
(* A file with nothing resolved.                                           *)
Forgotten(r) ==
  [name |-> r.name, kind |-> r.kind, member |-> r.member, in |-> r.in, target |-> Nothing,
   external |-> FALSE]
Pending(i) == [form |-> i.form, from |-> i.from, name |-> i.name, as |-> i.as, file |-> Nothing]
Waiting(e) == [name |-> e.name, local |-> e.local, from |-> e.from, file |-> Nothing]

(* Forgetting what linking has found (CodeIndex!Unlinked), field by field. *)
LEMMA UnlinkedIs ==
  ASSUME NEW f, IsFile(f)
  PROVE  Unlinked(f) = [path |-> f.path, symbols |-> f.symbols,
                        references |-> {Forgotten(r) : r \in f.references},
                        imports |-> {Pending(i) : i \in f.imports},
                        exports |-> [k \in DOMAIN f.exports |-> Waiting(f.exports[k])]]
  <1> DEFINE FR(r) == [r EXCEPT !.target = Nothing, !.external = FALSE]
             PI(i) == [i EXCEPT !.file = Nothing]
             R == {FR(r) : r \in f.references}
             I == {PI(i) : i \in f.imports}
             E == [k \in DOMAIN f.exports |-> PI(f.exports[k])]
  <1>1. Unlinked(f) = [f EXCEPT !.references = R, !.imports = I, !.exports = E]
    BY DEF Unlinked
  <1>2. ASSUME NEW r, IsReference(r)
        PROVE  FR(r) = Forgotten(r)
    <2> DEFINE g == FR(r)
    <2>1. DOMAIN r = {"name", "kind", "member", "in", "target", "external"}
      BY <1>2 DEF IsReference
    <2>2. /\ DOMAIN g = DOMAIN r /\ g = [k \in DOMAIN g |-> g[k]]
          /\ g.name = r.name /\ g.kind = r.kind /\ g.member = r.member /\ g.in = r.in
          /\ g.target = Nothing /\ g.external = FALSE
      BY <2>1
    <2> HIDE DEF FR
    <2> QED
      BY <2>1, <2>2 DEF Forgotten
  <1>3. ASSUME NEW i, IsImport(i)
        PROVE  PI(i) = Pending(i)
    <2> DEFINE g == PI(i)
    <2>1. DOMAIN i = {"form", "from", "name", "as", "file"}
      BY <1>3 DEF IsImport
    <2>2. /\ DOMAIN g = DOMAIN i /\ g = [k \in DOMAIN g |-> g[k]]
          /\ g.form = i.form /\ g.from = i.from /\ g.name = i.name /\ g.as = i.as
          /\ g.file = Nothing
      BY <2>1
    <2> HIDE DEF PI
    <2> QED
      BY <2>1, <2>2 DEF Pending
  <1>4. ASSUME NEW e, IsExport(e)
        PROVE  PI(e) = Waiting(e)
    <2> DEFINE g == PI(e)
    <2>1. DOMAIN e = {"name", "local", "from", "file"}
      BY <1>4 DEF IsExport
    <2>2. /\ DOMAIN g = DOMAIN e /\ g = [k \in DOMAIN g |-> g[k]]
          /\ g.name = e.name /\ g.local = e.local /\ g.from = e.from /\ g.file = Nothing
      BY <2>1
    <2> HIDE DEF PI
    <2> QED
      BY <2>1, <2>2 DEF Waiting
  <1> HIDE DEF FR, PI
  <1>5. R = {Forgotten(r) : r \in f.references}
    BY <1>2 DEF IsFile
  <1>6. I = {Pending(i) : i \in f.imports}
    BY <1>3 DEF IsFile
  <1>7. E = [k \in DOMAIN f.exports |-> Waiting(f.exports[k])]
    BY <1>4 DEF IsFile
  <1> HIDE DEF R, I, E
  <1>8. f = [path |-> f.path, symbols |-> f.symbols, references |-> f.references,
             imports |-> f.imports, exports |-> f.exports]
    BY DEF IsFile
  <1>9. ASSUME NEW r, NEW i, NEW e
        PROVE  [f EXCEPT !.references = r, !.imports = i, !.exports = e]
                 = [path |-> f.path, symbols |-> f.symbols, references |-> r, imports |-> i, exports |-> e]
    <2> DEFINE c == [f EXCEPT !.references = r, !.imports = i, !.exports = e]
    <2>1. DOMAIN f = {"path", "symbols", "references", "imports", "exports"}
      BY <1>8
    <2>2. /\ DOMAIN c = DOMAIN f /\ c = [k \in DOMAIN c |-> c[k]]
          /\ c.path = f.path /\ c.symbols = f.symbols /\ c.references = r
          /\ c.imports = i /\ c.exports = e
      BY <2>1
    <2> HIDE DEF c
    <2>3. c = [path |-> c.path, symbols |-> c.symbols, references |-> c.references,
               imports |-> c.imports, exports |-> c.exports]
      BY <2>1, <2>2
    <2> QED
      BY <2>2, <2>3 DEF c
  <1>10. [f EXCEPT !.references = R, !.imports = I, !.exports = E]
           = [path |-> f.path, symbols |-> f.symbols, references |-> R, imports |-> I, exports |-> E]
    BY <1>9, Zenon
  <1> QED
    BY <1>1, <1>5, <1>6, <1>7, <1>10

(* Resolving what was resolved and forgotten gives it back.                *)
LEMMA PlacedAgain ==
  ASSUME NEW f, IsFile(f), NEW paths, Settled(f, paths), Nothing \notin paths,
         NEW u, IsFile(u), u.imports = Placed(f, paths).imports, u.exports = Placed(f, paths).exports
  PROVE  /\ Placed(Unlinked(u), paths).imports = u.imports
         /\ Placed(Unlinked(u), paths).exports = u.exports
  <1>1. /\ Unlinked(u).imports = {Pending(i) : i \in u.imports}
        /\ Unlinked(u).exports = [k \in DOMAIN u.exports |-> Waiting(u.exports[k])]
    BY UnlinkedIs
  <1> DEFINE n == Unlinked(u)
  <1> HIDE DEF n
  <1>2. ASSUME NEW i \in f.imports
        PROVE  At(Pending(At(i, paths)), paths) = At(i, paths)
    <2>1. IsImport(i) /\ (i.file # Nothing => ResolveSpecifier(i.from, paths) # Nothing)
      BY DEF IsFile, Settled
    <2> DEFINE a == At(i, paths)
    <2>2. CASE ResolveSpecifier(i.from, paths) = Nothing
      BY <2>1, <2>2 DEF At, Pending, IsImport
    <2>3. CASE ResolveSpecifier(i.from, paths) # Nothing
      <3> DEFINE p == ResolveSpecifier(i.from, paths)
                 full == [form |-> i.form, from |-> i.from, name |-> i.name, as |-> i.as, file |-> p]
      <3>1. ASSUME NEW j, IsImport(j)
            PROVE  [j EXCEPT !.file = p] =
                     [form |-> j.form, from |-> j.from, name |-> j.name, as |-> j.as, file |-> p]
        <4> DEFINE g == [j EXCEPT !.file = p]
        <4> HIDE DEF p
        <4>1. DOMAIN j = {"form", "from", "name", "as", "file"}
          BY <3>1 DEF IsImport
        <4>2. /\ DOMAIN g = DOMAIN j /\ g = [k \in DOMAIN g |-> g[k]]
              /\ g.form = j.form /\ g.from = j.from /\ g.name = j.name /\ g.as = j.as
              /\ g.file = p
          BY <4>1
        <4> HIDE DEF g
        <4>3. g = [form |-> g.form, from |-> g.from, name |-> g.name, as |-> g.as, file |-> g.file]
          BY <4>1, <4>2
        <4> QED
          BY <4>2, <4>3 DEF g
      <3>2. a = full
        BY <2>1, <2>3, <3>1 DEF At
      <3>3. IsImport(Pending(a)) /\ Pending(a).from = i.from /\ Pending(a).form = i.form
            /\ Pending(a).name = i.name /\ Pending(a).as = i.as
        BY <3>2 DEF Pending, IsImport
      <3>4. At(Pending(a), paths) = full
        BY <2>3, <3>1, <3>3 DEF At
      <3> QED
        BY <3>2, <3>4
    <2> QED
      BY <2>2, <2>3
  <1>3. ASSUME NEW e, IsExport(e), e.file # Nothing => ResolveSpecifier(e.from, paths) # Nothing
        PROVE  At(Waiting(At(e, paths)), paths) = At(e, paths) /\ At(e, paths).from = e.from
    <2> DEFINE a == At(e, paths)
    <2>2. CASE ResolveSpecifier(e.from, paths) = Nothing
      BY <1>3, <2>2 DEF At, Waiting, IsExport
    <2>3. CASE ResolveSpecifier(e.from, paths) # Nothing
      <3> DEFINE p == ResolveSpecifier(e.from, paths)
                 full == [name |-> e.name, local |-> e.local, from |-> e.from, file |-> p]
      <3>1. ASSUME NEW j, IsExport(j)
            PROVE  [j EXCEPT !.file = p] = [name |-> j.name, local |-> j.local, from |-> j.from, file |-> p]
        <4> DEFINE g == [j EXCEPT !.file = p]
        <4> HIDE DEF p
        <4>1. DOMAIN j = {"name", "local", "from", "file"}
          BY <3>1 DEF IsExport
        <4>2. /\ DOMAIN g = DOMAIN j /\ g = [k \in DOMAIN g |-> g[k]]
              /\ g.name = j.name /\ g.local = j.local /\ g.from = j.from /\ g.file = p
          BY <4>1
        <4> HIDE DEF g
        <4>3. g = [name |-> g.name, local |-> g.local, from |-> g.from, file |-> g.file]
          BY <4>1, <4>2
        <4> QED
          BY <4>2, <4>3 DEF g
      <3>2. a = full
        BY <1>3, <2>3, <3>1 DEF At
      <3>3. IsExport(Waiting(a)) /\ Waiting(a).from = e.from /\ Waiting(a).name = e.name
            /\ Waiting(a).local = e.local
        BY <3>2 DEF Waiting, IsExport
      <3>4. At(Waiting(a), paths) = full
        BY <2>3, <3>1, <3>3 DEF At
      <3> QED
        BY <3>2, <3>4
    <2> QED
      BY <2>2, <2>3
  <1>4. Placed(n, paths).imports = u.imports
    <2>1. u.imports = {At(i, paths) : i \in f.imports}
      BY DEF Placed
    <2>2. Placed(n, paths).imports = {At(j, paths) : j \in n.imports}
      BY DEF Placed
    <2>3. n.imports = {Pending(i) : i \in u.imports}
      BY <1>1 DEF n
    <2>4. \A i \in u.imports : At(Pending(i), paths) = i
      BY <1>2, <2>1
    <2> QED
      BY <2>2, <2>3, <2>4
  <1>5. Placed(n, paths).exports = u.exports
    <2>1. /\ DOMAIN u.exports = DOMAIN f.exports
          /\ \A k \in DOMAIN f.exports : u.exports[k] =
               IF f.exports[k].from = Nothing THEN f.exports[k] ELSE At(f.exports[k], paths)
      BY DEF Placed
    <2>2. n.exports = [k \in DOMAIN u.exports |-> Waiting(u.exports[k])]
      BY <1>1 DEF n
    <2>3. Placed(n, paths).exports = [k \in DOMAIN n.exports |->
             IF n.exports[k].from = Nothing THEN n.exports[k] ELSE At(n.exports[k], paths)]
      BY DEF Placed
    <2>4. ASSUME NEW k \in DOMAIN f.exports
          PROVE  (IF Waiting(u.exports[k]).from = Nothing THEN Waiting(u.exports[k])
                  ELSE At(Waiting(u.exports[k]), paths)) = u.exports[k]
      <3> DEFINE e == f.exports[k]
      <3>1. /\ IsExport(e)
            /\ e.from = Nothing => e.file = Nothing
            /\ e.file # Nothing => ResolveSpecifier(e.from, paths) # Nothing
        BY <2>4 DEF IsFile, Settled
      <3>2. u.exports[k] = IF e.from = Nothing THEN e ELSE At(e, paths)
        BY <2>1, <2>4
      <3> HIDE DEF e
      <3>3. CASE e.from = Nothing
        <4>1. Waiting(e) = e /\ Waiting(e).from = Nothing
          BY <3>1, <3>3 DEF Waiting, IsExport
        <4> QED
          BY <3>2, <3>3, <4>1
      <3>4. CASE e.from # Nothing
        <4>1. At(Waiting(At(e, paths)), paths) = At(e, paths) /\ At(e, paths).from = e.from
          BY <1>3, <3>1
        <4>2. Waiting(At(e, paths)).from = e.from
          BY <4>1 DEF Waiting
        <4> QED
          BY <3>2, <3>4, <4>1, <4>2
      <3> QED
        BY <3>3, <3>4
    <2>5. \E m \in Nat : DOMAIN u.exports = 1..m
      BY DEF IsFile
    <2>6. u.exports = [k \in DOMAIN u.exports |-> u.exports[k]]
      BY DEF IsFile
    <2> DEFINE v == Placed(n, paths).exports
    <2>7. DOMAIN v = DOMAIN u.exports /\ v = [k \in DOMAIN v |-> v[k]]
      BY <2>2, <2>3
    <2>8. \A k \in DOMAIN u.exports : v[k] = u.exports[k]
      BY <2>1, <2>2, <2>3, <2>4
    <2> HIDE DEF v
    <2>9. v = u.exports
      BY <2>6, <2>7, <2>8
    <2> QED
      BY <2>9 DEF v
  <1> QED
    BY <1>4, <1>5 DEF n

(* Linking again resolves what linking resolved, and no reference to       *)
(* anything else.                                                          *)
LEMMA LinkingAgain ==
  ASSUME IndexAssumption, NEW base, Sound(base), PathsOf(base) \subseteq Path
  PROVE  \A f \in Link({Unlinked(u) : u \in Link(base)}) :
           LET g == FileAt(Link(base), f.path) IN
           /\ g.imports = f.imports /\ g.exports = f.exports
           /\ \A r \in f.references : r.target # Nothing =>
                \E x \in g.references : [x EXCEPT !.external = FALSE] = r
  <1> DEFINE P == PathsOf(base)
             with == WithImports(base)
             updated == Link(base)
             bare == {Unlinked(u) : u \in updated}
             again == WithImports(bare)
  <1>1. OnePerPath(base) /\ \A f \in base : IsFile(f) /\ Settled(f, P)
    BY DEF Sound
  <1>2. Nothing \notin P
    BY DEF IndexAssumption
  <1>3. with = {Placed(f, P) : f \in base}
    BY <1>1, WithImportsIs
  <1>4. updated = {Linked(with, f) : f \in with}
    BY <1>1, LinkIs
  <1>5. OnePerPath(updated) /\ PathsOf(updated) = P
    BY LinkSound DEF Sound
  <1> HIDE DEF P
  <1> DEFINE A(f) == Placed(f, P)
             U(f) == Linked(with, A(f))
             N(f) == Unlinked(U(f))
             W(f) == Placed(N(f), P)
             R(f) == Linked(again, W(f))
  <1>6. ASSUME NEW f \in base
        PROVE  /\ IsFile(A(f)) /\ IsFile(U(f)) /\ IsFile(N(f)) /\ IsFile(W(f))
               /\ A(f).path = f.path /\ U(f).path = f.path /\ N(f).path = f.path
               /\ W(f).path = f.path /\ R(f).path = f.path
               /\ W(f).symbols = A(f).symbols /\ W(f).imports = A(f).imports
               /\ W(f).exports = A(f).exports
               /\ U(f).imports = A(f).imports /\ U(f).exports = A(f).exports
               /\ R(f).imports = A(f).imports /\ R(f).exports = A(f).exports
    <2>1. IsFile(f) /\ Settled(f, P)
      BY <1>1
    <2>2. IsFile(A(f)) /\ A(f).path = f.path
      BY <2>1, PlacedIs DEF Placed
    <2>3. /\ IsFile(U(f)) /\ U(f).path = f.path /\ U(f).symbols = A(f).symbols
          /\ U(f).imports = A(f).imports /\ U(f).exports = A(f).exports
      <3>1. IsFile(U(f))
        BY <2>2, LinkedIs
      <3> QED
        BY <2>2, <3>1 DEF Linked
    <2> HIDE DEF U
    <2>4. N(f) = [path |-> U(f).path, symbols |-> U(f).symbols,
                  references |-> {Forgotten(r) : r \in U(f).references},
                  imports |-> {Pending(i) : i \in U(f).imports},
                  exports |-> [k \in DOMAIN U(f).exports |-> Waiting(U(f).exports[k])]]
      BY <2>3, UnlinkedIs
    <2>5. W(f).imports = U(f).imports /\ W(f).exports = U(f).exports
      BY <1>2, <2>1, <2>3, PlacedAgain
    <2>6. IsFile(N(f))
      <3> DEFINE n == N(f)
      <3>1. /\ n = [path |-> n.path, symbols |-> n.symbols, references |-> n.references,
                     imports |-> n.imports, exports |-> n.exports]
            /\ n.path = U(f).path /\ n.references = {Forgotten(r) : r \in U(f).references}
            /\ n.imports = {Pending(i) : i \in U(f).imports}
            /\ n.exports = [k \in DOMAIN U(f).exports |-> Waiting(U(f).exports[k])]
        BY <2>4
      <3> HIDE DEF n
      <3>2. \A r \in n.references : IsReference(r)
        BY <3>1 DEF Forgotten, IsReference
      <3>3. \A i \in n.imports : IsImport(i)
        BY <3>1 DEF Pending, IsImport
      <3>4. \A k \in DOMAIN n.exports : IsExport(n.exports[k])
        BY <3>1 DEF Waiting, IsExport
      <3>5. n.exports \in Seq(ToSet(n.exports))
        <4>1. \E m \in Nat : DOMAIN U(f).exports = 1..m
          BY <2>3 DEF IsFile
        <4>2. \A k \in DOMAIN n.exports : n.exports[k] \in ToSet(n.exports)
          BY DEF ToSet
        <4>3. DOMAIN n.exports = DOMAIN U(f).exports /\ n.exports = [k \in DOMAIN n.exports |-> n.exports[k]]
          BY <3>1
        <4> QED
          BY <4>1, <4>2, <4>3
      <3>6. IsFile(n)
        BY <2>3, <3>1, <3>2, <3>3, <3>4, <3>5 DEF IsFile
      <3> QED
        BY <3>6 DEF n
    <2>7. /\ N(f).path = f.path /\ N(f).symbols = A(f).symbols
      BY <2>3, <2>4
    <2> HIDE DEF A, N
    <2>8. IsFile(W(f)) /\ W(f).path = f.path /\ W(f).symbols = A(f).symbols
      BY <2>6, <2>7, PlacedIs DEF Placed
    <2>9. /\ R(f).path = W(f).path /\ R(f).imports = W(f).imports /\ R(f).exports = W(f).exports
      BY DEF Linked
    <2> QED
      BY <2>2, <2>3, <2>5, <2>6, <2>7, <2>8, <2>9
  <1>7. with = {A(f) : f \in base} /\ updated = {U(f) : f \in base} /\ bare = {N(f) : f \in base}
    <2> DEFINE L(f) == Linked(with, f)
               D(f) == Unlinked(f)
    <2>1. with = {A(f) : f \in base} /\ updated = {L(f) : f \in with} /\ bare = {D(f) : f \in updated}
      BY <1>3, <1>4
    <2>2. \A f \in base : U(f) = L(A(f)) /\ N(f) = D(L(A(f)))
      OBVIOUS
    <2> HIDE DEF with, updated, bare, A, U, N, L, D
    <2>3. updated = {U(f) : f \in base}
      BY <2>1, <2>2
    <2>4. bare = {N(f) : f \in base}
      <3>1. \A f \in base : N(f) = D(U(f))
        BY <2>2
      <3>2. \A f \in base : N(f) \in bare
        BY <2>1, <2>3, <3>1
      <3>3. \A n \in bare : \E f \in base : n = N(f)
        BY <2>1, <2>3, <3>1
      <3> QED
        BY <3>2, <3>3
    <2> QED
      BY <2>1, <2>3, <2>4
  <1>8. \A n \in bare : IsFile(n)
    <2> HIDE DEF N, bare
    <2> QED
      BY <1>6, <1>7
  <1>9. PathsOf(bare) = P
    <2> HIDE DEF N, bare, A, U, W, R
    <2>1. \A f \in base : N(f).path = f.path
      BY <1>6
    <2>2. {n.path : n \in bare} = {f.path : f \in base}
      BY <1>7, <2>1
    <2> QED
      BY <2>2 DEF PathsOf, P
  <1>10. again = {W(f) : f \in base} /\ Link(bare) = {R(f) : f \in base}
    <2> DEFINE L(f) == Linked(again, f)
               D(f) == Placed(f, P)
    <2>1. again = {D(n) : n \in bare}
      BY <1>8, <1>9, WithImportsIs
    <2>2. Link(bare) = {L(f) : f \in again}
      BY <1>8, LinkIs
    <2>3. \A f \in base : W(f) = D(N(f)) /\ R(f) = L(W(f))
      OBVIOUS
    <2> HIDE DEF again, bare, N, W, R, L, D
    <2>4. again = {W(f) : f \in base}
      BY <1>7, <2>1, <2>3
    <2>5. Link(bare) = {R(f) : f \in base}
      BY <2>2, <2>3, <2>4
    <2> QED
      BY <2>4, <2>5
  <1>11. Alike(with, again)
    <2> HIDE DEF with, again, A, U, N, W, R
    <2>1. ASSUME NEW f \in base
          PROVE  A(f).path = f.path /\ W(f).path = f.path
      BY <1>6
    <2>2. OnePerPath(with) /\ OnePerPath(again)
      BY <1>1, <1>7, <1>10, <2>1 DEF OnePerPath
    <2>3. PathsOf(with) = PathsOf(again)
      BY <1>7, <1>10, <2>1 DEF PathsOf
    <2>4. ASSUME NEW f \in with, NEW g \in again, f.path = g.path
          PROVE  f.symbols = g.symbols /\ f.imports = g.imports /\ f.exports = g.exports
      <3>1. PICK a \in base : f = A(a)
        BY <1>7
      <3>2. PICK b \in base : g = W(b)
        BY <1>10
      <3>3. a = b
        BY <1>1, <2>1, <2>4, <3>1, <3>2 DEF OnePerPath
      <3> QED
        BY <1>6, <3>1, <3>2, <3>3
    <2> QED
      BY <2>2, <2>3, <2>4 DEF Alike
  <1>12. ASSUME NEW f \in base, NEW name
         PROVE  Target(with, A(f), name) = Target(again, W(f), name)
    <2>1. PathsOf(with) = P
      <3> HIDE DEF with, A, U, N, W, R
      <3>1. {a.path : a \in with} = {b.path : b \in base}
        BY <1>6, <1>7
      <3> QED
        BY <3>1 DEF PathsOf, P
    <2>2. \A i \in A(f).imports : i.file \in P \cup {Nothing}
      <3> SUFFICES ASSUME NEW i \in f.imports
                   PROVE  At(i, P).file \in P \cup {Nothing}
        BY DEF Placed
      <3>1. IsImport(i) /\ (i.file # Nothing => ResolveSpecifier(i.from, P) # Nothing)
        BY <1>1 DEF IsFile, Settled
      <3>2. CASE ResolveSpecifier(i.from, P) = Nothing
        BY <3>1, <3>2 DEF At
      <3>3. CASE ResolveSpecifier(i.from, P) # Nothing
        <4>1. ResolveSpecifier(i.from, P) \in P
          BY <1>2, <3>3, ResolvesAmongMore
        <4>2. At(i, P).file = ResolveSpecifier(i.from, P)
          BY <3>1, <3>3 DEF At, IsImport
        <4> QED
          BY <4>1, <4>2
      <3> QED
        BY <3>2, <3>3
    <2> HIDE DEF with, again, A, U, N, W, R
    <2>3. A(f) \in with /\ W(f) \in again /\ A(f).path = W(f).path
      BY <1>6, <1>7, <1>10
    <2> QED
      BY <1>11, <2>1, <2>2, <2>3, TargetAlike
  <1>13. ASSUME NEW f \in base, NEW r \in R(f).references, r.target # Nothing
         PROVE  \E x \in U(f).references : [x EXCEPT !.external = FALSE] = r
    <2>1. PICK y \in N(f).references : r = Resolved(again, W(f), y)
      BY <1>13 DEF Linked, Placed
    <2>2. PICK x \in U(f).references : y = Forgotten(x)
      BY <1>6, UnlinkedIs
    <2>3. PICK z \in f.references : x = Resolved(with, A(f), z)
      BY DEF Linked, Placed
    <2>4. IsReference(x) /\ IsReference(y) /\ IsReference(z) /\ y.target = Nothing
          /\ y.external = FALSE /\ y.name = x.name /\ y.kind = x.kind /\ y.member = x.member
          /\ y.in = x.in
      BY <1>1, <1>6, <2>2 DEF IsFile, Forgotten, IsReference
    <2> DEFINE t == Target(with, A(f), x.name)
    <2>5. t = Target(again, W(f), x.name)
      BY <1>12
    <2> HIDE DEF with, again, A, U, N, W, R
    <2>6. ~y.member /\ t # Nothing
      BY <1>13, <2>1, <2>4, <2>5, ResolvedIs
    <2>7. x.name = z.name /\ x.member = z.member
      BY <2>3, <2>4, ResolvedIs
    <2>8. x.target = t
      BY <2>3, <2>4, <2>6, <2>7, ResolvedIs
    <2>9. /\ IsReference(r) /\ r.name = x.name /\ r.kind = x.kind /\ r.member = x.member
          /\ r.in = x.in /\ r.target = t /\ r.external = FALSE
      BY <2>1, <2>4, <2>5, <2>6, ResolvedIs
    <2> DEFINE c == [x EXCEPT !.external = FALSE]
    <2>10. /\ c.name = x.name /\ c.kind = x.kind /\ c.member = x.member /\ c.in = x.in
           /\ c.target = x.target /\ c.external = FALSE
           /\ DOMAIN c = DOMAIN x /\ c = [k \in DOMAIN c |-> c[k]]
           /\ DOMAIN x = {"name", "kind", "member", "in", "target", "external"}
      BY <2>4 DEF IsReference
    <2> HIDE DEF c, t
    <2>11. c = [name |-> c.name, kind |-> c.kind, member |-> c.member, in |-> c.in,
                target |-> c.target, external |-> c.external]
      BY <2>10
    <2>12. c = r
      BY <2>8, <2>9, <2>10, <2>11 DEF IsReference
    <2> QED
      BY <2>12 DEF c
  <1>14. ASSUME NEW f \in base
         PROVE  FileAt(updated, f.path) = U(f)
    <2>1. U(f) \in updated /\ U(f).path = f.path
      BY <1>6, <1>7
    <2> HIDE DEF updated, U
    <2> QED
      BY <1>5, <2>1, FileAtIs
  <1> SUFFICES ASSUME NEW h \in Link(bare)
               PROVE  LET g == FileAt(updated, h.path) IN
                      /\ g.imports = h.imports /\ g.exports = h.exports
                      /\ \A r \in h.references : r.target # Nothing =>
                           \E x \in g.references : [x EXCEPT !.external = FALSE] = r
    OBVIOUS
  <1> HIDE DEF bare, updated, with, again, A, U, N, W, R
  <1>15. PICK f \in base : h = R(f)
    BY <1>10
  <1>16. h.path = f.path /\ FileAt(updated, h.path) = U(f)
    BY <1>6, <1>14, <1>15
  <1>17. U(f).imports = h.imports /\ U(f).exports = h.exports
    BY <1>6, <1>15
  <1> QED
    BY <1>13, <1>15, <1>16, <1>17

-----------------------------------------------------------------------------
(* The builds of a session.                                                *)
Of(disks, p) == Analyzed(p, disks[p])
States == {"idle", "reading", "done"}

IndexTypes ==
  /\ disk \in [Path -> Held \cup {Nothing}]
  /\ build = [b \in Builds |-> build[b]]
  /\ \A b \in Builds :
       /\ build[b] = [state |-> build[b].state, todo |-> build[b].todo, got |-> build[b].got]
       /\ build[b].state \in States /\ build[b].todo \in Seq(Path)
  /\ latest = Nothing \/ (latest \in Builds /\ build[latest].state = "done")
  /\ missed = [b \in Builds |-> missed[b]]

(* What a build that no save overtook has read are the readable files it   *)
(* has not missed and need not read any more.                              *)
ReadsWhatIsThere ==
  \A b \in Builds : build[b].state # "idle" /\ b \notin changed =>
    build[b].got = {Of(disk, p) : p \in (Readable \ missed[b]) \ ToSet(build[b].todo)}
DoneReading ==
  \A b \in Builds : /\ build[b].state # "reading" => build[b].todo = <<>>
                    /\ build[b].state = "idle" => build[b].got = {}

(* A build reads every file once.                                          *)
ReadOnce ==
  \A b \in Builds :
    /\ IsInjective(build[b].todo) /\ ToSet(build[b].todo) \cap missed[b] = {}
    /\ \A f \in build[b].got : /\ \E p \in Path, s \in Held : f = Analyzed(p, s)
                               /\ f.path \notin ToSet(build[b].todo)
    /\ OnePerPath(build[b].got)

IndexInv ==
  /\ IndexTypes /\ ReadsWhatIsThere /\ DoneReading /\ ReadOnce
  /\ IndexCatchesUp /\ Sound(index) /\ PathsOf(index) \subseteq Path

(* The index starts with the invariant.                                    *)
LEMMA IndexInitially == ASSUME IndexAssumption, Init PROVE IndexInv
  <1>1. ASSUME NEW b \in Builds
        PROVE  build[b].state = "idle" /\ build[b].todo = <<>> /\ build[b].got = {}
               /\ build[b] = [state |-> build[b].state, todo |-> build[b].todo, got |-> build[b].got]
               /\ missed[b] = {}
    BY DEF Init, Idle
  <1> DEFINE none == <<>>
  <1>6. none \in Seq(Path) /\ IsInjective(none)
    BY DEF IsInjective
  <1>7. \A b \in Builds : build[b].todo = none
    BY <1>1
  <1>2. IndexTypes
    <2>1. disk \in [Path -> Held \cup {Nothing}] /\ latest = Nothing
      BY DEF Init, IndexAssumption
    <2>2. build = [b \in Builds |-> build[b]] /\ missed = [b \in Builds |-> missed[b]]
      BY DEF Init
    <2> HIDE DEF none
    <2> QED
      BY <1>1, <1>6, <1>7, <2>1, <2>2 DEF IndexTypes, States
  <1>3. ReadsWhatIsThere /\ DoneReading
    BY <1>1 DEF ReadsWhatIsThere, DoneReading
  <1>4. ReadOnce
    <2> HIDE DEF none
    <2> QED
      BY <1>1, <1>6, <1>7 DEF ReadOnce, OnePerPath
  <1>5. IndexCatchesUp /\ Sound(index) /\ PathsOf(index) \subseteq Path
    BY DEF Init, IndexCatchesUp, Sound, OnePerPath, PathsOf
  <1> QED
    BY <1>2, <1>3, <1>4, <1>5 DEF IndexInv

(* A save by the user keeps the invariant.                                 *)
LEMMA SaveKeepsIndex ==
  ASSUME IndexAssumption, IndexInv, NEW p \in Path, Save(p)
  PROVE  IndexInv'
  <1>1. UNCHANGED <<build, index, latest, missed>> /\ \A b \in Builds : build[b].state # "idle" => b \in changed'
    BY DEF Save
  <1>2. disk' \in [Path -> Held \cup {Nothing}]
    <2>1. Source \cup {Nothing} \subseteq Held \cup {Nothing}
      BY DEF Held
    <2> QED
      BY <2>1 DEF Save, IndexInv, IndexTypes
  <1>3. IndexTypes'
    BY <1>1, <1>2 DEF IndexInv, IndexTypes
  <1>4. ReadsWhatIsThere' /\ DoneReading'
    BY <1>1 DEF IndexInv, ReadsWhatIsThere, DoneReading
  <1>5. ReadOnce'
    BY <1>1 DEF IndexInv, ReadOnce
  <1>6. IndexCatchesUp'
    <2>1. latest # Nothing => latest \in changed'
      BY <1>1 DEF IndexInv, IndexTypes
    <2> QED
      BY <1>1, <2>1 DEF IndexCatchesUp
  <1>7. Sound(index') /\ PathsOf(index') \subseteq Path
    BY <1>1 DEF IndexInv
  <1> QED
    BY <1>3, <1>4, <1>5, <1>6, <1>7 DEF IndexInv

(* What a step makes of the record of a build.                             *)
BuildIs(b, state, todo, got) ==
  /\ build' = [c \in Builds |-> build'[c]]
  /\ build'[b] = [state |-> state, todo |-> todo, got |-> got]
  /\ \A c \in Builds \ {b} : build'[c] = build[c]

(* A step of a build changes what that build has missed only.              *)
MissedIs(b) ==
  /\ missed' = [c \in Builds |-> missed'[c]]
  /\ \A c \in Builds \ {b} : missed'[c] = missed[c]

(* How one field of a build changes and the others stay.                   *)
LEMMA BuildWith ==
  ASSUME IndexTypes, NEW b \in Builds, NEW state, NEW todo, NEW got
  PROVE  LET r == build[b] IN
         /\ build' = [build EXCEPT ![b].state = state, ![b].todo = todo] => BuildIs(b, state, todo, r.got)
         /\ build' = [build EXCEPT ![b].todo = todo, ![b].got = got] => BuildIs(b, r.state, todo, got)
         /\ build' = [build EXCEPT ![b].state = state] => BuildIs(b, state, r.todo, r.got)
  <1>1. DOMAIN build = Builds /\ DOMAIN build[b] = {"state", "todo", "got"}
    BY DEF IndexTypes
  <1>2. ASSUME NEW x, DOMAIN x = {"state", "todo", "got"}, x = [k \in DOMAIN x |-> x[k]]
        PROVE  x = [state |-> x.state, todo |-> x.todo, got |-> x.got]
    BY <1>2
  <1>3. ASSUME build' = [build EXCEPT ![b].state = state, ![b].todo = todo]
        PROVE  BuildIs(b, state, todo, build[b].got)
    <2> DEFINE x == build'[b]
    <2>1. /\ DOMAIN x = {"state", "todo", "got"} /\ x = [k \in DOMAIN x |-> x[k]]
          /\ x.state = state /\ x.todo = todo /\ x.got = build[b].got
      BY <1>1, <1>3
    <2>2. x = [state |-> x.state, todo |-> x.todo, got |-> x.got]
      BY <1>2, <2>1
    <2>3. /\ build' = [c \in Builds |-> build'[c]]
          /\ \A c \in Builds \ {b} : build'[c] = build[c]
      BY <1>1, <1>3
    <2> QED
      BY <2>1, <2>2, <2>3 DEF BuildIs
  <1>4. ASSUME build' = [build EXCEPT ![b].todo = todo, ![b].got = got]
        PROVE  BuildIs(b, build[b].state, todo, got)
    <2> DEFINE x == build'[b]
    <2>1. /\ DOMAIN x = {"state", "todo", "got"} /\ x = [k \in DOMAIN x |-> x[k]]
          /\ x.state = build[b].state /\ x.todo = todo /\ x.got = got
      BY <1>1, <1>4
    <2>2. x = [state |-> x.state, todo |-> x.todo, got |-> x.got]
      BY <1>2, <2>1
    <2>3. /\ build' = [c \in Builds |-> build'[c]]
          /\ \A c \in Builds \ {b} : build'[c] = build[c]
      BY <1>1, <1>4
    <2> QED
      BY <2>1, <2>2, <2>3 DEF BuildIs
  <1>5. ASSUME build' = [build EXCEPT ![b].state = state]
        PROVE  BuildIs(b, state, build[b].todo, build[b].got)
    <2> DEFINE x == build'[b]
    <2>1. /\ DOMAIN x = {"state", "todo", "got"} /\ x = [k \in DOMAIN x |-> x[k]]
          /\ x.state = state /\ x.todo = build[b].todo /\ x.got = build[b].got
      BY <1>1, <1>5
    <2>2. x = [state |-> x.state, todo |-> x.todo, got |-> x.got]
      BY <1>2, <2>1
    <2>3. /\ build' = [c \in Builds |-> build'[c]]
          /\ \A c \in Builds \ {b} : build'[c] = build[c]
      BY <1>1, <1>5
    <2> QED
      BY <2>1, <2>2, <2>3 DEF BuildIs
  <1> QED
    BY <1>3, <1>4, <1>5

(* The invariant but for what is said of the build that takes the step.    *)
LEMMA OtherBuilds ==
  ASSUME IndexInv, UNCHANGED <<disk, index, latest, changed>>,
         NEW b \in Builds, NEW state \in States, NEW todo \in Seq(Path), NEW got,
         BuildIs(b, state, todo, got), build[b].state # "done",
         MissedIs(b),
         b \notin changed =>
           got = {Of(disk, p) : p \in (Readable \ missed'[b]) \ ToSet(todo)},
         state = "reading", IsInjective(todo), ToSet(todo) \cap missed'[b] = {},
         \A f \in got : (\E p \in Path, s \in Held : f = Analyzed(p, s)) /\ f.path \notin ToSet(todo),
         OnePerPath(got)
  PROVE  IndexInv'
  <1>1. /\ build'[b].state = state /\ build'[b].todo = todo /\ build'[b].got = got
        /\ build'[b] = [state |-> build'[b].state, todo |-> build'[b].todo, got |-> build'[b].got]
        /\ \A c \in Builds \ {b} : build'[c] = build[c]
        /\ build' = [c \in Builds |-> build'[c]]
        /\ missed' = [c \in Builds |-> missed'[c]]
        /\ \A c \in Builds \ {b} : missed'[c] = missed[c]
    BY DEF BuildIs, MissedIs
  <1>2. IndexTypes'
    BY <1>1 DEF IndexInv, IndexTypes
  <1>3. ReadsWhatIsThere'
    BY <1>1 DEF IndexInv, ReadsWhatIsThere, Readable, Of
  <1>4. DoneReading'
    BY <1>1 DEF IndexInv, DoneReading
  <1>5. ReadOnce'
    BY <1>1 DEF IndexInv, ReadOnce
  <1>6. IndexCatchesUp'
    <2>1. latest # Nothing => latest \in Builds \ {b}
      BY DEF IndexInv, IndexTypes
    <2>2. latest # Nothing => missed'[latest] = missed[latest]
      BY <1>1, <2>1
    <2>3. Readable' = Readable
      BY DEF Readable
    <2>4. IndexCatchesUp
      BY DEF IndexInv
    <2> QED
      BY <2>2, <2>3, <2>4 DEF IndexCatchesUp
  <1>7. Sound(index') /\ PathsOf(index') \subseteq Path
    BY DEF IndexInv
  <1> QED
    BY <1>2, <1>3, <1>4, <1>5, <1>6, <1>7 DEF IndexInv

(* Listing the files at the start of a build keeps the invariant.          *)
LEMMA ListKeepsIndex ==
  ASSUME IndexAssumption, IndexInv, NEW b \in Builds, List(b)
  PROVE  IndexInv'
  <1>8. PICK listed \in SUBSET Present :
          /\ build' = [build EXCEPT ![b].state = "reading", ![b].todo = SetToSeq(listed)]
          /\ missed' = [missed EXCEPT ![b] = Present \ listed]
    BY DEF List
  <1> DEFINE q == SetToSeq(listed)
  <1>1. listed \subseteq Path /\ IsFiniteSet(listed)
    BY FS_Subset DEF Present, IndexAssumption
  <1>2. q \in Seq(Path) /\ IsInjective(q) /\ ToSet(q) = listed
    BY <1>1, SetToSeqIs
  <1> HIDE DEF q
  <1>3. /\ build[b].state = "idle" /\ build' = [build EXCEPT ![b].state = "reading", ![b].todo = q]
        /\ UNCHANGED <<disk, index, latest, changed>>
    BY <1>8 DEF List, q
  <1>4. build[b].got = {} /\ IndexTypes
    BY <1>3 DEF IndexInv, DoneReading
  <1>5. BuildIs(b, "reading", q, {})
    BY <1>3, <1>4, BuildWith
  <1>9. missed'[b] = Present \ listed /\ MissedIs(b)
    BY <1>4, <1>8 DEF IndexTypes, MissedIs
  <1>6. {} = {Of(disk, p) : p \in (Readable \ missed'[b]) \ ToSet(q)} /\ ToSet(q) \cap missed'[b] = {}
    BY <1>2, <1>9 DEF Readable, Present
  <1>7. OnePerPath({})
    BY DEF OnePerPath
  <1> QED
    BY <1>2, <1>3, <1>5, <1>6, <1>7, <1>9, OtherBuilds DEF States

(* Reading the next file keeps the invariant: a file read before a save is *)
(* one the save has marked changed.                                        *)
LEMMA ReadKeepsIndex ==
  ASSUME IndexAssumption, IndexInv, NEW b \in Builds, Read(b)
  PROVE  IndexInv'
  <1> DEFINE q == build[b].todo
             p == Head(q)
             New(fails) == IF fails \/ p \notin Readable THEN {} ELSE {Analyzed(p, disk[p])}
  <1>0. PICK fails \in BOOLEAN :
          /\ build' = [build EXCEPT ![b].todo = Tail(q), ![b].got = @ \cup New(fails)]
          /\ missed' = IF fails THEN [missed EXCEPT ![b] = @ \cup {p}] ELSE missed
    BY DEF Read
  <1> DEFINE new == New(fails)
             got == build[b].got \cup new
  <1>1. /\ build[b].state = "reading" /\ q # <<>>
        /\ build' = [build EXCEPT ![b].todo = Tail(q), ![b].got = got]
        /\ UNCHANGED <<disk, index, latest, changed>>
    BY <1>0 DEF Read
  <1>2. IndexTypes /\ q \in Seq(Path) /\ IsInjective(q)
    BY DEF IndexInv, IndexTypes, ReadOnce
  <1> HIDE DEF q
  <1>3. /\ p \in Path /\ Tail(q) \in Seq(Path) /\ ToSet(q) = {p} \cup ToSet(Tail(q))
        /\ p \notin ToSet(Tail(q)) /\ IsInjective(Tail(q))
    BY <1>1, <1>2, HeadAndTailOf
  <1> DEFINE t == Tail(q)
  <1> HIDE DEF got, p, t
  <1>4. BuildIs(b, "reading", t, got)
    BY <1>1, <1>2, BuildWith DEF t
  <1>5. p \in Readable => disk[p] \in Held
    BY <1>2, <1>3 DEF IndexTypes, Readable
  <1>6. \A f \in new : f.path = p /\ \E r \in Path, s \in Held : f = Analyzed(r, s)
    BY <1>3, <1>5, AnalyzedIs
  <1>7. \A f \in build[b].got : (\E r \in Path, s \in Held : f = Analyzed(r, s)) /\ f.path \notin ToSet(q)
    BY DEF IndexInv, ReadOnce, q
  <1>8. OnePerPath(build[b].got)
    BY DEF IndexInv, ReadOnce
  <1>9. \A f \in got : (\E r \in Path, s \in Held : f = Analyzed(r, s)) /\ f.path \notin ToSet(t)
    BY <1>3, <1>6, <1>7 DEF got, t
  <1>10. OnePerPath(got)
    <2> HIDE DEF new
    <2>1. \A f \in build[b].got, g \in new : f.path # g.path
      BY <1>3, <1>6, <1>7
    <2>2. \A f, g \in new : f = g
      BY DEF new
    <2> QED
      BY <1>8, <2>1, <2>2 DEF got, OnePerPath
  <1>13. /\ missed'[b] = IF fails THEN missed[b] \cup {p} ELSE missed[b]
         /\ MissedIs(b)
    BY <1>0, <1>2 DEF IndexTypes, MissedIs
  <1>14. ToSet(q) \cap missed[b] = {}
    BY DEF IndexInv, ReadOnce, q
  <1>11. b \notin changed =>
           got = {Of(disk, r) : r \in (Readable \ missed'[b]) \ ToSet(t)}
    <2> SUFFICES ASSUME b \notin changed
                 PROVE  got = {Of(disk, r) : r \in (Readable \ missed'[b]) \ ToSet(t)}
      OBVIOUS
    <2>1. build[b].got = {Of(disk, r) : r \in (Readable \ missed[b]) \ ToSet(q)}
      BY <1>1 DEF IndexInv, ReadsWhatIsThere, q
    <2>2. new = {Of(disk, r) : r \in IF fails THEN {} ELSE {p} \cap Readable}
      BY <1>3 DEF Of, Readable
    <2>3. (Readable \ missed'[b]) \ ToSet(t)
            = ((Readable \ missed[b]) \ ToSet(q)) \cup IF fails THEN {} ELSE {p} \cap Readable
      BY <1>3, <1>13, <1>14 DEF t
    <2> HIDE DEF new
    <2> QED
      BY <2>1, <2>2, <2>3 DEF got
  <1>12. t \in Seq(Path) /\ IsInjective(t) /\ ToSet(t) \cap missed'[b] = {}
    BY <1>3, <1>13, <1>14 DEF t
  <1> QED
    BY <1>1, <1>4, <1>9, <1>10, <1>11, <1>12, <1>13, OtherBuilds DEF States

(* The end of a build, which links what it read and publishes it, keeps    *)
(* the invariant.                                                          *)
LEMMA FinishKeepsIndex ==
  ASSUME IndexAssumption, IndexInv, NEW b \in Builds, Finish(b)
  PROVE  IndexInv'
  <1> DEFINE got == build[b].got
  <1>1. /\ build[b].state = "reading" /\ build[b].todo = <<>>
        /\ index' = Link(got) /\ latest' = b /\ build' = [build EXCEPT ![b].state = "done"]
        /\ UNCHANGED <<disk, changed, missed>>
    BY DEF Finish
  <1>2. IndexTypes /\ BuildIs(b, "done", <<>>, got)
    BY <1>1, BuildWith DEF IndexInv
  <1>3. /\ build'[b].state = "done" /\ build'[b].todo = <<>> /\ build'[b].got = got
        /\ build'[b] = [state |-> build'[b].state, todo |-> build'[b].todo, got |-> build'[b].got]
        /\ \A c \in Builds \ {b} : build'[c] = build[c]
        /\ build' = [c \in Builds |-> build'[c]]
    BY <1>2 DEF BuildIs
  <1>4. IndexTypes'
    BY <1>1, <1>3 DEF IndexInv, IndexTypes, States
  <1>5. ReadsWhatIsThere'
    BY <1>1, <1>3 DEF IndexInv, ReadsWhatIsThere, Readable, Of
  <1>6. DoneReading'
    BY <1>3 DEF IndexInv, DoneReading
  <1>7. ReadOnce'
    BY <1>1, <1>3 DEF IndexInv, ReadOnce
  <1>8. IndexCatchesUp'
    <2> SUFFICES ASSUME b \notin changed
                 PROVE  got = {Of(disk, p) : p \in Readable \ missed[b]}
      BY <1>1 DEF IndexCatchesUp, Readable, Of
    <2>1. got = {Of(disk, p) : p \in (Readable \ missed[b]) \ ToSet(<<>>)}
      BY <1>1 DEF IndexInv, ReadsWhatIsThere
    <2>2. ToSet(<<>>) = {}
      BY DEF ToSet
    <2> QED
      BY <2>1, <2>2
  <1>9. Sound(got) /\ PathsOf(got) \subseteq Path
    <2>1. \A f \in got : IsFile(f) /\ f.path \in Path /\ \A paths : Settled(f, paths)
      BY AnalyzedIs DEF IndexInv, ReadOnce
    <2>2. OnePerPath(got)
      BY DEF IndexInv, ReadOnce
    <2> HIDE DEF got
    <2> QED
      BY <2>1, <2>2 DEF Sound, PathsOf
  <1>10. Sound(index') /\ PathsOf(index') \subseteq Path
    BY <1>1, <1>9, LinkSound
  <1> QED
    BY <1>4, <1>5, <1>6, <1>7, <1>8, <1>10 DEF IndexInv

(* Every step keeps the invariant.                                         *)
LEMMA NextKeepsIndex ==
  ASSUME IndexAssumption, IndexInv, [Next]_vars
  PROVE  IndexInv'
  <1>1. CASE \E p \in Path : Save(p)
    BY <1>1, SaveKeepsIndex
  <1>2. CASE \E b \in Builds : List(b)
    BY <1>2, ListKeepsIndex
  <1>3. CASE \E b \in Builds : Read(b)
    BY <1>3, ReadKeepsIndex
  <1>4. CASE \E b \in Builds : Finish(b)
    BY <1>4, FinishKeepsIndex
  <1>5. CASE UNCHANGED vars
    BY <1>5 DEF vars, IndexInv, IndexTypes, ReadsWhatIsThere, DoneReading, ReadOnce,
                IndexCatchesUp, Readable, Of
  <1> QED
    BY <1>1, <1>2, <1>3, <1>4, <1>5 DEF Next

(* indexer.ts: however the calls of buildIndex() read while the user saves *)
(* and each other run, the index of the last to end is that of the files,  *)
(* unless a save came between.                                             *)
THEOREM CatchesUp == ASSUME IndexAssumption PROVE Spec => []IndexCatchesUp
  <1>1. Init => IndexInv
    BY IndexInitially
  <1>2. IndexInv /\ [Next]_vars => IndexInv'
    BY NextKeepsIndex
  <1>3. IndexInv => IndexCatchesUp
    BY DEF IndexInv
  <1> QED
    BY <1>1, <1>2, <1>3, PTL DEF Spec

(* Indexer.updateFile(): reading one file again resolves what linking all  *)
(* of them from nothing would resolve.                                     *)
THEOREM LosesNothing == ASSUME IndexAssumption PROVE Spec => []UpdatesLoseNothing
  <1>1. Init => IndexInv
    BY IndexInitially
  <1>2. IndexInv /\ [Next]_vars => IndexInv'
    BY NextKeepsIndex
  <1>3. IndexInv => UpdatesLoseNothing
    <2> SUFFICES ASSUME IndexInv, NEW p \in Readable
                 PROVE  LET updated == Updated(index, p, disk[p])
                            fresh == Link({Unlinked(f) : f \in updated})
                        IN \A f \in fresh :
                             LET g == FileAt(updated, f.path) IN
                             /\ g.imports = f.imports /\ g.exports = f.exports
                             /\ \A r \in f.references : r.target # Nothing =>
                                  \E x \in g.references : [x EXCEPT !.external = FALSE] = r
      BY DEF UpdatesLoseNothing
    <2> DEFINE base == {f \in index : f.path # p} \cup {Analyzed(p, disk[p])}
    <2>1. p \in Path /\ disk[p] \in Held /\ Sound(index)
      BY DEF Readable, IndexInv, IndexTypes
    <2>2. Sound(base) /\ PathsOf(base) \subseteq Path
      BY <2>1, SoundUpdate
    <2>3. Updated(index, p, disk[p]) = Link(base)
      BY DEF Updated
    <2> HIDE DEF base
    <2> QED
      BY <2>2, <2>3, LinkingAgain
  <1> QED
    BY <1>1, <1>2, <1>3, PTL DEF Spec

-----------------------------------------------------------------------------
(* What sequences make one after the other.                                *)
LEMMA FlattenTable ==
  ASSUME NEW A, NEW ss \in Seq(Seq(A)), ss # <<>>
  PROVE  \E g : /\ FlattenSeq(ss) = g[Len(ss)]
                /\ g[1] = ss[1]
                /\ \A k \in 2..Len(ss) : g[k] = g[k - 1] \o ss[k]
  <1> DEFINE Body(g, k) == IF k = 1 THEN ss[k] ELSE g[k - 1] \o ss[k]
             T == {n \in Nat : \E g : g = [k \in 1..n |-> Body(g, k)]}
  <1>1. 0 \in T
    <2> DEFINE g == [k \in 1..0 |-> <<>>]
    <2>1. g = [k \in 1..0 |-> Body(g, k)]
      OBVIOUS
    <2> QED
      BY <2>1
  <1>2. ASSUME NEW n \in Nat, n \in T
        PROVE  n + 1 \in T
    <2>1. PICK g : g = [k \in 1..n |-> Body(g, k)]
      BY <1>2
    <2> DEFINE h == [k \in 1..n + 1 |-> IF k \in 1..n THEN g[k] ELSE Body(g, k)]
    <2>2. \A k \in 1..n + 1 : k # 1 => k - 1 \in 1..n /\ h[k - 1] = g[k - 1]
      OBVIOUS
    <2>3. \A k \in 1..n : g[k] = Body(g, k)
      BY <2>1
    <2>4. \A k \in 1..n + 1 : h[k] = Body(h, k)
      BY <2>2, <2>3
    <2>5. h = [k \in 1..n + 1 |-> h[k]]
      OBVIOUS
    <2>6. h = [k \in 1..n + 1 |-> Body(h, k)]
      BY <2>4, <2>5
    <2> HIDE DEF h
    <2>7. \E f : f = [k \in 1..n + 1 |-> Body(f, k)]
      BY <2>6
    <2> HIDE DEF Body
    <2> QED
      BY <2>7
  <1>3. Len(ss) \in Nat /\ Len(ss) # 0
    BY EmptySeq
  <1>4. Len(ss) \in T
    <2> HIDE DEF T
    <2>1. Nat \subseteq T
      BY <1>1, <1>2, Induction
    <2> QED
      BY <1>3, <2>1
  <1> DEFINE p == CHOOSE g : g = [k \in 1..Len(ss) |-> Body(g, k)]
  <1>5. p = [k \in 1..Len(ss) |-> Body(p, k)]
    BY <1>4
  <1>6. FlattenSeq(ss) = p[Len(ss)]
    BY <1>3 DEF FlattenSeq
  <1> HIDE DEF p
  <1>7. \A k \in 1..Len(ss) : p[k] = Body(p, k)
    BY <1>5
  <1>8. 1 \in 1..Len(ss) /\ \A k \in 2..Len(ss) : k \in 1..Len(ss) /\ k # 1
    BY <1>3
  <1>9. p[1] = ss[1] /\ \A k \in 2..Len(ss) : p[k] = p[k - 1] \o ss[k]
    BY <1>7, <1>8
  <1> QED
    BY <1>6, <1>9

(* How FlattenSeq unfolds from the right.                                  *)
LEMMA FlattenAppend ==
  ASSUME NEW A, NEW ss \in Seq(Seq(A)), NEW x \in Seq(A)
  PROVE  /\ FlattenSeq(<<>>) = <<>>
         /\ FlattenSeq(Append(ss, x)) = IF ss = <<>> THEN x ELSE FlattenSeq(ss) \o x
  <1>1. FlattenSeq(<<>>) = <<>>
    BY DEF FlattenSeq
  <1> DEFINE t == Append(ss, x)
             n == Len(ss)
  <1>2. /\ t \in Seq(Seq(A)) /\ Len(t) = n + 1 /\ n \in Nat /\ t # <<>>
        /\ \A k \in 1..n : t[k] = ss[k]
        /\ t[n + 1] = x
        /\ (ss = <<>> <=> n = 0)
    BY AppendProperties, EmptySeq, LenProperties
  <1> HIDE DEF t, n
  <1>3. PICK h : /\ FlattenSeq(t) = h[Len(t)]
                 /\ h[1] = t[1]
                 /\ \A k \in 2..Len(t) : h[k] = h[k - 1] \o t[k]
    BY <1>2, FlattenTable
  <1>4. CASE ss = <<>>
    BY <1>1, <1>2, <1>3, <1>4 DEF t
  <1>5. CASE ss # <<>>
    <2>1. PICK g : /\ FlattenSeq(ss) = g[n]
                   /\ g[1] = ss[1]
                   /\ \A k \in 2..n : g[k] = g[k - 1] \o ss[k]
      BY <1>5, FlattenTable DEF n
    <2> DEFINE T == {m \in Nat : m \in 1..n => h[m] = g[m]}
    <2>2. 0 \in T
      OBVIOUS
    <2>3. ASSUME NEW m \in Nat, m \in T
          PROVE  m + 1 \in T
      <3> SUFFICES ASSUME m + 1 \in 1..n
                   PROVE  h[m + 1] = g[m + 1]
        OBVIOUS
      <3>1. CASE m = 0
        <4>1. 1 \in 1..n
          BY <1>2, <3>1
        <4> QED
          BY <1>2, <1>3, <2>1, <3>1, <4>1
      <3>2. CASE m # 0
        <4>1. /\ m \in 1..n /\ m + 1 \in 2..n /\ m + 1 \in 2..Len(t) /\ (m + 1) - 1 = m
              /\ m + 1 \in 1..n
          BY <1>2, <3>2
        <4>2. h[m] = g[m] /\ t[m + 1] = ss[m + 1]
          BY <1>2, <2>3, <4>1
        <4> QED
          BY <1>3, <2>1, <4>1, <4>2
      <3> QED
        BY <3>1, <3>2
    <2> HIDE DEF T
    <2>4. n \in T
      BY <1>2, <2>2, <2>3, Induction
    <2>5. n \in 1..n /\ n + 1 \in 2..Len(t) /\ (n + 1) - 1 = n
      BY <1>2, <1>5
    <2>6. h[n] = g[n] /\ h[n + 1] = h[n] \o x
      BY <1>2, <1>3, <2>4, <2>5 DEF T
    <2> QED
      BY <1>1, <1>2, <1>3, <1>5, <2>1, <2>6 DEF t
  <1> QED
    BY <1>4, <1>5

(* All of their elements, each at one position if it is at one position of *)
(* one of them.  k tells elements apart.                                   *)
Apart(ss, k) ==
  \A i, j \in DOMAIN ss : \A x \in DOMAIN ss[i], y \in DOMAIN ss[j] :
    k[ss[i][x]] = k[ss[j][y]] => i = j /\ x = y
Told(s, k) == \A x, y \in DOMAIN s : k[s[x]] = k[s[y]] => x = y
Elements(ss) == UNION {ToSet(ss[i]) : i \in DOMAIN ss}

(* What FlattenSeq holds, and when its elements are told apart by k.       *)
LEMMA FlattenIs ==
  ASSUME NEW A, NEW ss \in Seq(Seq(A)), NEW k
  PROVE  /\ FlattenSeq(ss) \in Seq(A) /\ ToSet(FlattenSeq(ss)) = Elements(ss)
         /\ Apart(ss, k) => Told(FlattenSeq(ss), k)
         /\ Told(FlattenSeq(ss), k) => Apart(ss, k)
  <1> DEFINE Good(s) ==
               /\ FlattenSeq(s) \in Seq(A) /\ ToSet(FlattenSeq(s)) = Elements(s)
               /\ Apart(s, k) => Told(FlattenSeq(s), k)
               /\ Told(FlattenSeq(s), k) => Apart(s, k)
             T == {s \in Seq(Seq(A)) : Good(s)}
  <1>1. <<>> \in T
    <2> DEFINE none == <<>>
    <2>1. /\ none \in Seq(Seq(A)) /\ none \in Seq(A) /\ ToSet(none) = {} /\ Elements(none) = {}
          /\ Told(none, k) /\ Apart(none, k)
      BY DEF ToSet, Elements, Told, Apart
    <2>2. FlattenSeq(none) = none
      BY FlattenAppend
    <2> HIDE DEF none
    <2> QED
      BY <2>1, <2>2 DEF none
  <1>2. ASSUME NEW s \in Seq(Seq(A)), NEW x \in Seq(A), s \in T
        PROVE  Append(s, x) \in T
    <2> DEFINE u == Append(s, x)
               p == FlattenSeq(s)
               n == Len(s)
               q == p \o x
               l == Len(p)
               m == Len(x)
    <2>1. /\ u \in Seq(Seq(A)) /\ n \in Nat /\ DOMAIN s = 1..n /\ DOMAIN u = 1..n + 1
          /\ \A i \in 1..n : u[i] = s[i]
          /\ u[n + 1] = x
      BY AppendProperties, LenProperties
    <2>2. /\ p \in Seq(A) /\ ToSet(p) = Elements(s)
          /\ Apart(s, k) => Told(p, k)
          /\ Told(p, k) => Apart(s, k)
      BY <1>2
    <2>3. FlattenSeq(u) = q
      <3>1. CASE s = <<>>
        <4>1. p = <<>> /\ FlattenSeq(u) = x
          BY <3>1, FlattenAppend
        <4> QED
          BY <4>1
      <3>2. CASE s # <<>>
        BY <3>2, FlattenAppend
      <3> QED
        BY <3>1, <3>2
    <2>4. /\ q \in Seq(A) /\ l \in Nat /\ m \in Nat /\ DOMAIN p = 1..l /\ DOMAIN x = 1..m
          /\ DOMAIN q = 1..l + m
          /\ \A i \in 1..l : q[i] = p[i]
          /\ \A i \in 1..m : q[l + i] = x[i]
      BY <2>2
    <2> HIDE DEF u, p, n, q, l, m, T
    <2>5. ToSet(q) = ToSet(p) \cup ToSet(x)
      <3>1. \A i \in 1..l + m : i \in 1..l \/ (i - l \in 1..m /\ i = l + (i - l))
        BY <2>4
      <3>2. \A i \in 1..l : i \in 1..l + m
        BY <2>4
      <3>3. \A i \in 1..m : l + i \in 1..l + m
        BY <2>4
      <3>4. \A i \in 1..l + m : q[i] \in ToSet(p) \cup ToSet(x)
        BY <2>4, <3>1 DEF ToSet
      <3>5. \A i \in 1..l : p[i] \in ToSet(q)
        BY <2>4, <3>2 DEF ToSet
      <3>6. \A i \in 1..m : x[i] \in ToSet(q)
        BY <2>4, <3>3 DEF ToSet
      <3>7. ToSet(q) \subseteq ToSet(p) \cup ToSet(x)
        BY ONLY <2>4, <3>4, Zenon DEF ToSet
      <3>8. ToSet(p) \subseteq ToSet(q)
        BY ONLY <2>4, <3>5, Zenon DEF ToSet
      <3>9. ToSet(x) \subseteq ToSet(q)
        BY ONLY <2>4, <3>6, Zenon DEF ToSet
      <3> QED
        BY <3>7, <3>8, <3>9
    <2>6. Elements(u) = Elements(s) \cup ToSet(x)
      <3>1. \A i \in 1..n + 1 : i \in 1..n \/ i = n + 1
        BY <2>1
      <3>2. n + 1 \in 1..n + 1 /\ \A i \in 1..n : i \in 1..n + 1
        BY <2>1
      <3> QED
        BY <2>1, <3>1, <3>2 DEF Elements
    <2>7. /\ Told(q, k) <=> /\ Told(p, k) /\ Told(x, k)
                            /\ \A i \in 1..l, j \in 1..m : k[p[i]] # k[x[j]]
      <3>1. \A i \in 1..l : i \in 1..l + m
        BY <2>4
      <3>2. \A i \in 1..m : l + i \in 1..l + m
        BY <2>4
      <3>3. \A i \in 1..l + m : i \in 1..l \/ \E y \in 1..m : i = l + y
        <4>1. \A i \in 1..l + m : i \in 1..l \/ (i - l \in 1..m /\ i = l + (i - l))
          BY <2>4
        <4> QED
          BY <4>1
      <3>4. ASSUME Told(q, k)
            PROVE  /\ Told(p, k) /\ Told(x, k)
                   /\ \A i \in 1..l, j \in 1..m : k[p[i]] # k[x[j]]
        <4>1. \A i, j \in 1..l + m : k[q[i]] = k[q[j]] => i = j
          BY <2>4, <3>4 DEF Told
        <4>2. Told(p, k)
          BY <2>4, <3>1, <4>1 DEF Told
        <4>3. Told(x, k)
          <5> SUFFICES ASSUME NEW i \in 1..m, NEW j \in 1..m, k[x[i]] = k[x[j]]
                       PROVE  i = j
            BY <2>4 DEF Told
          <5>1. k[q[l + i]] = k[q[l + j]] /\ l + i \in 1..l + m /\ l + j \in 1..l + m
            BY <2>4, <3>2
          <5>2. l + i = l + j
            BY ONLY <4>1, <5>1
          <5> QED
            BY <2>4, <5>2
        <4>4. ASSUME NEW i \in 1..l, NEW j \in 1..m
              PROVE  k[p[i]] # k[x[j]]
          <5>1. i # l + j
            BY <2>4
          <5> QED
            BY <2>4, <3>1, <3>2, <4>1, <5>1
        <4> QED
          BY <4>2, <4>3, <4>4
      <3>5. ASSUME Told(p, k), Told(x, k), \A i \in 1..l, j \in 1..m : k[p[i]] # k[x[j]]
            PROVE  Told(q, k)
        <4> SUFFICES ASSUME NEW i \in 1..l + m, NEW j \in 1..l + m, k[q[i]] = k[q[j]]
                     PROVE  i = j
          BY <2>4 DEF Told
        <4>1. /\ \A y, z \in 1..l : k[p[y]] = k[p[z]] => y = z
              /\ \A y, z \in 1..m : k[x[y]] = k[x[z]] => y = z
          BY <2>4, <3>5 DEF Told
        <4>2. CASE i \in 1..l /\ j \in 1..l
          <5>1. q[i] = p[i] /\ q[j] = p[j]
            BY <2>4, <4>2
          <5> QED
            BY <4>1, <4>2, <5>1
        <4>3. ASSUME i \in 1..l, NEW y \in 1..m, j = l + y
              PROVE  FALSE
          <5>1. q[i] = p[i] /\ q[j] = x[y]
            BY <2>4, <4>3
          <5> QED
            BY <3>5, <4>3, <5>1
        <4>4. ASSUME j \in 1..l, NEW y \in 1..m, i = l + y
              PROVE  FALSE
          <5>1. q[j] = p[j] /\ q[i] = x[y]
            BY <2>4, <4>4
          <5> QED
            BY <3>5, <4>4, <5>1
        <4>5. ASSUME NEW y \in 1..m, i = l + y, NEW z \in 1..m, j = l + z
              PROVE  i = j
          <5>1. q[i] = x[y] /\ q[j] = x[z]
            BY <2>4, <4>5
          <5>2. y = z
            BY <4>1, <5>1
          <5> QED
            BY <4>5, <5>2
        <4> QED
          BY <3>3, <4>2, <4>3, <4>4, <4>5
      <3> QED
        BY <3>4, <3>5
    <2>8. Apart(u, k) <=> /\ Apart(s, k) /\ Told(x, k)
                          /\ \A i \in 1..n : \A y \in DOMAIN s[i], z \in DOMAIN x : k[s[i][y]] # k[x[z]]
      <3>1. n + 1 \in 1..n + 1 /\ \A i \in 1..n : i \in 1..n + 1 /\ i # n + 1
        BY <2>1
      <3>2. \A i \in 1..n + 1 : i \in 1..n \/ i = n + 1
        BY <2>1
      <3>3. ASSUME Apart(u, k)
            PROVE  /\ Apart(s, k) /\ Told(x, k)
                   /\ \A i \in 1..n : \A y \in DOMAIN s[i], z \in DOMAIN x : k[s[i][y]] # k[x[z]]
        <4>1. \A i, j \in 1..n + 1 : \A y \in DOMAIN u[i], z \in DOMAIN u[j] :
                k[u[i][y]] = k[u[j][z]] => i = j /\ y = z
          BY <2>1, <3>3 DEF Apart
        <4>2. Apart(s, k)
          <5> SUFFICES ASSUME NEW i \in 1..n, NEW j \in 1..n,
                              NEW y \in DOMAIN s[i], NEW z \in DOMAIN s[j], k[s[i][y]] = k[s[j][z]]
                       PROVE  i = j /\ y = z
            BY <2>1 DEF Apart
          <5>1. /\ i \in 1..n + 1 /\ j \in 1..n + 1
                /\ u[i] = s[i] /\ u[j] = s[j]
            BY <2>1, <3>1
          <5>2. y \in DOMAIN u[i] /\ z \in DOMAIN u[j] /\ k[u[i][y]] = k[u[j][z]]
            BY <5>1
          <5> QED
            BY <4>1, <5>1, <5>2
        <4>3. Told(x, k)
          <5> SUFFICES ASSUME NEW y \in DOMAIN x, NEW z \in DOMAIN x, k[x[y]] = k[x[z]]
                       PROVE  y = z
            BY DEF Told
          <5>1. n + 1 \in 1..n + 1 /\ u[n + 1] = x
            BY <2>1, <3>1
          <5> QED
            BY <4>1, <5>1
        <4>4. ASSUME NEW i \in 1..n, NEW y \in DOMAIN s[i], NEW z \in DOMAIN x, k[s[i][y]] = k[x[z]]
              PROVE  FALSE
          <5>1. /\ i \in 1..n + 1 /\ n + 1 \in 1..n + 1 /\ i # n + 1
                /\ u[i] = s[i] /\ u[n + 1] = x
            BY <2>1, <3>1
          <5>2. y \in DOMAIN u[i] /\ z \in DOMAIN u[n + 1] /\ k[u[i][y]] = k[u[n + 1][z]]
            BY <4>4, <5>1
          <5> QED
            BY <4>1, <5>1, <5>2
        <4> QED
          BY <4>2, <4>3, <4>4
      <3>4. ASSUME Apart(s, k), Told(x, k),
                   \A i \in 1..n : \A y \in DOMAIN s[i], z \in DOMAIN x : k[s[i][y]] # k[x[z]]
            PROVE  Apart(u, k)
        <4> SUFFICES ASSUME NEW i \in 1..n + 1, NEW j \in 1..n + 1,
                            NEW y \in DOMAIN u[i], NEW z \in DOMAIN u[j], k[u[i][y]] = k[u[j][z]]
                     PROVE  i = j /\ y = z
          BY <2>1 DEF Apart
        <4>1. CASE i \in 1..n /\ j \in 1..n
          <5>1. u[i] = s[i] /\ u[j] = s[j]
            BY <2>1, <4>1
          <5>2. \A a, b \in 1..n : \A v \in DOMAIN s[a], w \in DOMAIN s[b] :
                  k[s[a][v]] = k[s[b][w]] => a = b /\ v = w
            BY <2>1, <3>4 DEF Apart
          <5>3. y \in DOMAIN s[i] /\ z \in DOMAIN s[j] /\ k[s[i][y]] = k[s[j][z]]
            BY <5>1
          <5> QED
            BY <4>1, <5>2, <5>3
        <4>2. CASE i \in 1..n /\ j = n + 1
          BY <2>1, <3>4, <4>2
        <4>3. CASE i = n + 1 /\ j \in 1..n
          BY <2>1, <3>4, <4>3
        <4>4. CASE i = n + 1 /\ j = n + 1
          BY <2>1, <3>4, <4>4 DEF Told
        <4> QED
          BY <3>2, <4>1, <4>2, <4>3, <4>4
      <3> QED
        BY <3>3, <3>4
    <2>9. (\A i \in 1..l, j \in 1..m : k[p[i]] # k[x[j]])
            <=> (\A i \in 1..n : \A y \in DOMAIN s[i], z \in DOMAIN x : k[s[i][y]] # k[x[z]])
      <3>1. \A i \in 1..l : \E j \in 1..n : \E y \in DOMAIN s[j] : p[i] = s[j][y]
        <4>1. \A i \in 1..l : p[i] \in Elements(s)
          BY <2>2, <2>4 DEF ToSet
        <4>2. ASSUME NEW i \in 1..l
              PROVE  \E j \in 1..n : \E y \in DOMAIN s[j] : p[i] = s[j][y]
          <5>1. PICK j \in DOMAIN s : p[i] \in ToSet(s[j])
            BY <4>1, <4>2 DEF Elements
          <5>2. PICK y \in DOMAIN s[j] : p[i] = s[j][y]
            BY <5>1 DEF ToSet
          <5> QED
            BY <2>1, <5>1, <5>2
        <4> QED
          BY <4>2
      <3>2. \A j \in 1..n : \A y \in DOMAIN s[j] : \E i \in 1..l : p[i] = s[j][y]
        <4>1. ASSUME NEW j \in 1..n, NEW y \in DOMAIN s[j]
              PROVE  s[j][y] \in ToSet(p)
          <5>1. s[j][y] \in ToSet(s[j])
            BY DEF ToSet
          <5>2. s[j][y] \in Elements(s)
            BY <2>1, <5>1 DEF Elements
          <5> QED
            BY <2>2, <5>2
        <4> QED
          BY <2>4, <4>1 DEF ToSet
      <3>3. ASSUME \A i \in 1..l, j \in 1..m : k[p[i]] # k[x[j]],
                   NEW i \in 1..n, NEW y \in DOMAIN s[i], NEW z \in 1..m
            PROVE  k[s[i][y]] # k[x[z]]
        <4>1. PICK j \in 1..l : p[j] = s[i][y]
          BY <3>2
        <4> QED
          BY <3>3, <4>1
      <3>4. ASSUME \A i \in 1..n : \A y \in DOMAIN s[i], z \in 1..m : k[s[i][y]] # k[x[z]],
                   NEW i \in 1..l, NEW j \in 1..m
            PROVE  k[p[i]] # k[x[j]]
        <4>1. PICK h \in 1..n : \E y \in DOMAIN s[h] : p[i] = s[h][y]
          BY <3>1
        <4> QED
          BY <3>4, <4>1
      <3>5. DOMAIN x = 1..m
        BY <2>4
      <3>6. (\A i \in 1..l, j \in 1..m : k[p[i]] # k[x[j]]) =>
              \A i \in 1..n : \A y \in DOMAIN s[i], z \in 1..m : k[s[i][y]] # k[x[z]]
        BY <3>3, Zenon
      <3>7. (\A i \in 1..n : \A y \in DOMAIN s[i], z \in 1..m : k[s[i][y]] # k[x[z]]) =>
              \A i \in 1..l, j \in 1..m : k[p[i]] # k[x[j]]
        BY <3>4, Zenon
      <3> QED
        BY <3>5, <3>6, <3>7, Zenon
    <2>10. /\ Apart(u, k) => Told(q, k)
           /\ Told(q, k) => Apart(u, k)
      BY <2>2, <2>7, <2>8, <2>9
    <2> QED
      BY <2>1, <2>2, <2>3, <2>4, <2>5, <2>6, <2>10 DEF T, u
  <1> HIDE DEF T
  <1>3. Seq(Seq(A)) \subseteq T
    BY <1>1, <1>2, SequenceInduction
  <1> QED
    BY <1>3 DEF T

-----------------------------------------------------------------------------
(* A bounded set of numbers that is not empty has a greatest element,      *)
(* Max's.                                                                  *)
LEMMA BoundedMax ==
  ASSUME NEW S, S \subseteq Nat, S # {}, NEW m \in Nat, \A y \in S : y <= m
  PROVE  Max(S) \in S /\ \A y \in S : Max(S) >= y
  <1> DEFINE T == {n \in Nat : \A R \in SUBSET Nat :
                     (R # {} /\ \A y \in R : y <= n) => \E x \in R : \A y \in R : x >= y}
  <1>1. 0 \in T
    <2> SUFFICES ASSUME NEW R \in SUBSET Nat, R # {}, \A y \in R : y <= 0
                 PROVE  \E x \in R : \A y \in R : x >= y
      OBVIOUS
    <2>1. \A y \in R : y = 0
      OBVIOUS
    <2> QED
      BY <2>1
  <1>2. ASSUME NEW n \in Nat, n \in T
        PROVE  n + 1 \in T
    <2> SUFFICES ASSUME NEW R \in SUBSET Nat, R # {}, \A y \in R : y <= n + 1
                 PROVE  \E x \in R : \A y \in R : x >= y
      OBVIOUS
    <2>1. CASE n + 1 \in R
      BY <2>1
    <2>2. CASE n + 1 \notin R
      <3>1. \A y \in R : y <= n
        BY <2>2
      <3> QED
        BY <1>2, <3>1
    <2> QED
      BY <2>1, <2>2
  <1> HIDE DEF T
  <1>3. Nat \subseteq T
    BY <1>1, <1>2, Induction
  <1>4. \E x \in S : \A y \in S : x >= y
    BY <1>3 DEF T
  <1> QED
    BY <1>4 DEF Max

-----------------------------------------------------------------------------
(* A fold over the finite set D that takes the element c[S] of what is     *)
(* left: F[<<x, d>>] is what d makes of x.                                 *)
Picks(c, D) == \A S \in SUBSET D : S # {} => c[S] \in S
IsFold(g, T, start, F, c, D) ==
  /\ g \in [SUBSET D -> T]
  /\ \A S \in SUBSET D :
       /\ S = {} => g[S] = start
       /\ S # {} => g[S] = F[<<g[S \ {c[S]}], c[S]>>]

(* What the sets that are left are smaller than, one by one.               *)
LEMMA OneLess ==
  ASSUME NEW D, IsFiniteSet(D), NEW S \in SUBSET D, NEW x \in S
  PROVE  /\ S \ {x} \in SUBSET D /\ x \in D
         /\ Cardinality(S) \in Nat /\ Cardinality(S \ {x}) \in Nat
         /\ Cardinality(S \ {x}) = Cardinality(S) - 1
  <1>1. IsFiniteSet(S)
    BY FS_Subset
  <1>2. Cardinality(S) \in Nat /\ IsFiniteSet(S \ {x}) /\ Cardinality(S \ {x}) = Cardinality(S) - 1
    BY <1>1, FS_RemoveElement, FS_CardinalityType
  <1>3. Cardinality(S \ {x}) \in Nat
    BY <1>2, FS_CardinalityType
  <1> QED
    BY <1>2, <1>3

(* What holds of the start and stays so with each element holds of a fold. *)
LEMMA FoldTyped ==
  ASSUME NEW D, IsFiniteSet(D), NEW c, Picks(c, D), NEW T, NEW g,
         \A S \in SUBSET D : S = {} => g[S] \in T,
         \A S \in SUBSET D : S # {} /\ g[S \ {c[S]}] \in T => g[S] \in T
  PROVE  \A S \in SUBSET D : g[S] \in T
  <1> DEFINE N == {n \in Nat : \A S \in SUBSET D : Cardinality(S) = n => g[S] \in T}
  <1>1. 0 \in N
    <2> SUFFICES ASSUME NEW S \in SUBSET D, Cardinality(S) = 0
                 PROVE  g[S] \in T
      OBVIOUS
    <2>1. IsFiniteSet(S)
      BY FS_Subset
    <2>2. S = {}
      BY <2>1, FS_EmptySet
    <2> QED
      BY <2>2
  <1>2. ASSUME NEW n \in Nat, n \in N
        PROVE  n + 1 \in N
    <2> SUFFICES ASSUME NEW S \in SUBSET D, Cardinality(S) = n + 1
                 PROVE  g[S] \in T
      OBVIOUS
    <2>1. CASE S = {}
      BY <2>1
    <2>2. CASE S # {}
      <3>1. c[S] \in S
        BY <2>2 DEF Picks
      <3>2. S \ {c[S]} \in SUBSET D /\ Cardinality(S \ {c[S]}) = n
        BY <3>1, OneLess
      <3>3. g[S \ {c[S]}] \in T
        BY <1>2, <3>2
      <3> QED
        BY <2>2, <3>3
    <2> QED
      BY <2>1, <2>2
  <1> HIDE DEF N
  <1>3. Nat \subseteq N
    BY <1>1, <1>2, Induction
  <1> SUFFICES ASSUME NEW S \in SUBSET D
               PROVE  g[S] \in T
    OBVIOUS
  <1>4. Cardinality(S) \in Nat
    BY FS_Subset, FS_CardinalityType
  <1> QED
    BY <1>3, <1>4 DEF N

(* The recursion behind a fold has a solution.                             *)
LEMMA FoldExists ==
  ASSUME NEW D, IsFiniteSet(D), NEW c, Picks(c, D),
         NEW T, NEW start \in T, NEW F \in [T \X D -> T]
  PROVE  \E g : IsFold(g, T, start, F, c, D)
  <1> DEFINE Small(n) == {S \in SUBSET D : Cardinality(S) <= n}
             Solves(g, n) ==
               /\ g \in [Small(n) -> T]
               /\ \A S \in Small(n) :
                    /\ S = {} => g[S] = start
                    /\ S # {} => g[S] = F[<<g[S \ {c[S]}], c[S]>>]
             N == {n \in Nat : \E g : Solves(g, n)}
  <1>1. 0 \in N
    <2> DEFINE g == [S \in Small(0) |-> start]
    <2>1. \A S \in Small(0) : S = {}
      <3> SUFFICES ASSUME NEW S \in SUBSET D, Cardinality(S) <= 0
                   PROVE  S = {}
        OBVIOUS
      <3>1. IsFiniteSet(S)
        BY FS_Subset
      <3>2. Cardinality(S) = 0
        BY <3>1, FS_CardinalityType
      <3> QED
        BY <3>1, <3>2, FS_EmptySet
    <2> HIDE DEF Small
    <2>2. Solves(g, 0)
      BY <2>1
    <2> HIDE DEF Solves, g
    <2> QED
      BY <2>2
  <1>2. ASSUME NEW n \in Nat, n \in N
        PROVE  n + 1 \in N
    <2>1. PICK g : Solves(g, n)
      BY <1>2
    <2>2. ASSUME NEW S \in Small(n + 1), S # {}
          PROVE  S \ {c[S]} \in Small(n) /\ c[S] \in D
      <3>1. c[S] \in S /\ S \in SUBSET D
        BY <2>2 DEF Picks
      <3> QED
        BY <3>1, OneLess
    <2>3. \A S \in Small(n) : S \in Small(n + 1)
      <3> SUFFICES ASSUME NEW S \in SUBSET D, Cardinality(S) <= n
                   PROVE  Cardinality(S) <= n + 1
        OBVIOUS
      <3>1. Cardinality(S) \in Nat
        BY FS_Subset, FS_CardinalityType
      <3> QED
        BY <3>1
    <2> DEFINE h == [S \in Small(n + 1) |-> IF S = {} THEN start ELSE F[<<g[S \ {c[S]}], c[S]>>]]
    <2> HIDE DEF Small
    <2>4. \A S \in Small(n) : h[S] = g[S]
      BY <2>1, <2>3
    <2>5. ASSUME NEW S \in Small(n + 1), S # {}
          PROVE  /\ h[S] = F[<<h[S \ {c[S]}], c[S]>>]
                 /\ h[S] \in T
      <3>1. S \ {c[S]} \in Small(n) /\ c[S] \in D
        BY <2>2, <2>5
      <3>2. g[S \ {c[S]}] \in T
        BY <2>1, <3>1
      <3>3. <<g[S \ {c[S]}], c[S]>> \in T \X D
        BY <3>1, <3>2
      <3>4. h[S] = F[<<g[S \ {c[S]}], c[S]>>]
        BY <2>5
      <3> QED
        BY <2>4, <3>1, <3>3, <3>4
    <2>6. \A S \in Small(n + 1) : S = {} => h[S] = start
      OBVIOUS
    <2>7. h = [S \in Small(n + 1) |-> h[S]]
      OBVIOUS
    <2> HIDE DEF h
    <2>8. Solves(h, n + 1)
      BY <2>5, <2>6, <2>7
    <2> HIDE DEF Solves
    <2> QED
      BY <2>8
  <1>3. Cardinality(D) \in N
    <2> HIDE DEF N
    <2>1. Nat \subseteq N
      BY <1>1, <1>2, Induction
    <2>2. Cardinality(D) \in Nat
      BY FS_CardinalityType
    <2> QED
      BY <2>1, <2>2
  <1>4. PICK g : Solves(g, Cardinality(D))
    BY <1>3
  <1>5. Small(Cardinality(D)) = SUBSET D
    <2>1. \A S \in SUBSET D : Cardinality(S) <= Cardinality(D)
      BY FS_Subset
    <2> QED
      BY <2>1
  <1>6. IsFold(g, T, start, F, c, D)
    <2> HIDE DEF Small
    <2> QED
      BY <1>4, <1>5 DEF IsFold
  <1> QED
    BY <1>6

-----------------------------------------------------------------------------
(* What the fields of a record add to a total for one term.                *)
Added(fields, term, total) ==
  FoldSet(LAMBDA f, t : t + Hit(fields[f], term, Weight(f)), total, DOMAIN fields)

(* Adding the score of a hit in one more field stays in every set closed   *)
(* under such additions.                                                   *)
LEMMA AddedIn ==
  ASSUME NEW fields, IsFiniteSet(DOMAIN fields), NEW term, NEW T, NEW total \in T,
         \A t \in T, f \in DOMAIN fields : t + Hit(fields[f], term, Weight(f)) \in T
  PROVE  Added(fields, term, total) \in T
  <1> DEFINE D == DOMAIN fields
             c == [S \in SUBSET D |-> CHOOSE x \in S : TRUE]
             Plus(t, f) == t + Hit(fields[f], term, Weight(f))
             F == [a \in T \X D |-> Plus(a[1], a[2])]
             w == CHOOSE g : g = [S \in SUBSET D |->
                    IF S = {} THEN total
                    ELSE Plus(g[S \ {CHOOSE x \in S : TRUE}], CHOOSE x \in S : TRUE)]
  <1>1. Added(fields, term, total) = w[D]
    BY DEF Added, FoldSet, MapThenFoldSet
  <1>2. Picks(c, D)
    BY DEF Picks
  <1>3. \A t \in T, f \in D : Plus(t, f) \in T
    OBVIOUS
  <1>4. IsFiniteSet(D)
    OBVIOUS
  <1> HIDE DEF Plus, D
  <1>5. F \in [T \X D -> T]
    BY <1>3
  <1>6. PICK g : IsFold(g, T, total, F, c, D)
    <2> HIDE DEF F, c
    <2> QED
      BY <1>2, <1>4, <1>5, FoldExists
  <1>7. ASSUME NEW S \in SUBSET D
        PROVE  g[S] = IF S = {} THEN total
                      ELSE Plus(g[S \ {CHOOSE x \in S : TRUE}], CHOOSE x \in S : TRUE)
    <2>1. CASE S = {}
      BY <1>6, <2>1 DEF IsFold
    <2>2. CASE S # {}
      <3>1. c[S] = (CHOOSE x \in S : TRUE) /\ c[S] \in D
        BY <2>2
      <3>2. S \ {c[S]} \in SUBSET D /\ g[S \ {c[S]}] \in T
        BY <1>6 DEF IsFold
      <3>3. g[S] = F[<<g[S \ {c[S]}], c[S]>>]
        BY <1>6, <2>2 DEF IsFold
      <3>4. g[S] = Plus(g[S \ {c[S]}], c[S])
        <4>1. c[S] \in D
          BY <3>1
        <4> HIDE DEF c
        <4> QED
          BY <3>2, <3>3, <4>1
      <3> QED
        BY <2>2, <3>1, <3>4
    <2> QED
      BY <2>1, <2>2
  <1>8. g = [S \in SUBSET D |-> IF S = {} THEN total
                    ELSE Plus(g[S \ {CHOOSE x \in S : TRUE}], CHOOSE x \in S : TRUE)]
    <2>1. g = [S \in SUBSET D |-> g[S]]
      BY <1>6 DEF IsFold
    <2> QED
      BY <1>7, <2>1
  <1>9. w = [S \in SUBSET D |-> IF S = {} THEN total
                    ELSE Plus(w[S \ {CHOOSE x \in S : TRUE}], CHOOSE x \in S : TRUE)]
    BY <1>8
  <1> HIDE DEF w
  <1>10. \A S \in SUBSET D :
           /\ S = {} => w[S] = total
           /\ S # {} => w[S] = Plus(w[S \ {c[S]}], c[S]) /\ c[S] \in D
    <2>1. \A S \in SUBSET D : S # {} => c[S] = (CHOOSE x \in S : TRUE) /\ c[S] \in D
      OBVIOUS
    <2> HIDE DEF c
    <2> QED
      BY <1>9, <2>1
  <1> HIDE DEF c
  <1>11. \A S \in SUBSET D : S # {} /\ w[S \ {c[S]}] \in T => w[S] \in T
    BY <1>3, <1>10
  <1>12. \A S \in SUBSET D : S = {} => w[S] \in T
    BY <1>10
  <1>13. \A S \in SUBSET D : w[S] \in T
    BY <1>2, <1>4, <1>11, <1>12, FoldTyped
  <1> QED
    BY <1>1, <1>13

(* The score of a record: what starts at nothing and stays so with every   *)
(* hit holds of it.                                                        *)
LEMMA ScoreIn ==
  ASSUME NEW record, IsFiniteSet(DOMAIN record.endpoint.fields), NEW A, NEW terms \in Seq(A),
         NEW T, 0 \in T,
         \A t \in T, i \in DOMAIN terms, f \in DOMAIN record.endpoint.fields :
           t + Hit(record.endpoint.fields[f], terms[i], Weight(f)) \in T
  PROVE  Score(record, terms) \in T
  <1> DEFINE n == Len(terms)
             D == 1..n
             c == [S \in SUBSET D |-> Max(S)]
             Plus(t, i) == Added(record.endpoint.fields, terms[i], t)
             F == [a \in T \X D |-> Plus(a[1], a[2])]
             w == CHOOSE g : g = [S \in SUBSET D |->
                    IF S = {} THEN 0 ELSE Plus(g[S \ {Max(S)}], Max(S))]
  <1>0. n \in Nat /\ DOMAIN terms = D
    BY LenProperties
  <1>1. Score(record, terms) = w[D]
    BY <1>0 DEF Score, FoldLeft, MapThenFoldSet, Added
  <1>2. \A S \in SUBSET D : S # {} => Max(S) \in S
    <2> SUFFICES ASSUME NEW S \in SUBSET D, S # {}
                 PROVE  Max(S) \in S
      OBVIOUS
    <2>1. S \subseteq Nat /\ \A y \in S : y <= n
      BY <1>0
    <2> QED
      BY <1>0, <2>1, BoundedMax
  <1>3. Picks(c, D)
    BY <1>2 DEF Picks
  <1>4. \A t \in T, i \in D : Plus(t, i) \in T
    BY <1>0, AddedIn
  <1>5. IsFiniteSet(D)
    <2>1. 1 \in Int /\ n \in Int
      BY <1>0
    <2> HIDE DEF n
    <2> QED
      BY <2>1, FS_Interval
  <1> HIDE DEF Plus, D
  <1>6. F \in [T \X D -> T]
    <2>1. \A a \in T \X D : a[1] \in T /\ a[2] \in D
      OBVIOUS
    <2>2. \A a \in T \X D : Plus(a[1], a[2]) \in T
      BY <1>4, <2>1
    <2> QED
      BY <2>2
  <1>7. PICK g : IsFold(g, T, 0, F, c, D)
    <2> HIDE DEF F, c
    <2> QED
      BY <1>3, <1>5, <1>6, FoldExists
  <1>8. ASSUME NEW S \in SUBSET D
        PROVE  g[S] = IF S = {} THEN 0 ELSE Plus(g[S \ {Max(S)}], Max(S))
    <2>1. CASE S = {}
      BY <1>7, <2>1 DEF IsFold
    <2>2. CASE S # {}
      <3>1. c[S] = Max(S) /\ c[S] \in D
        BY <1>2, <2>2
      <3>2. S \ {c[S]} \in SUBSET D /\ g[S \ {c[S]}] \in T
        BY <1>7 DEF IsFold
      <3>3. g[S] = F[<<g[S \ {c[S]}], c[S]>>]
        BY <1>7, <2>2 DEF IsFold
      <3>4. g[S] = Plus(g[S \ {c[S]}], c[S])
        <4>1. c[S] \in D
          BY <3>1
        <4> HIDE DEF c
        <4> QED
          BY <3>2, <3>3, <4>1
      <3> QED
        BY <2>2, <3>1, <3>4
    <2> QED
      BY <2>1, <2>2
  <1>9. g = [S \in SUBSET D |-> IF S = {} THEN 0 ELSE Plus(g[S \ {Max(S)}], Max(S))]
    <2>1. g = [S \in SUBSET D |-> g[S]]
      BY <1>7 DEF IsFold
    <2> QED
      BY <1>8, <2>1
  <1>10. w = [S \in SUBSET D |-> IF S = {} THEN 0 ELSE Plus(w[S \ {Max(S)}], Max(S))]
    BY <1>9
  <1> HIDE DEF w
  <1>11. \A S \in SUBSET D :
           /\ S = {} => w[S] = 0
           /\ S # {} => w[S] = Plus(w[S \ {c[S]}], c[S]) /\ c[S] \in D
    <2>1. \A S \in SUBSET D : S # {} => c[S] = Max(S) /\ c[S] \in D
      BY <1>2
    <2> HIDE DEF c
    <2> QED
      BY <1>10, <2>1
  <1> HIDE DEF c
  <1>12. \A S \in SUBSET D : S # {} /\ w[S \ {c[S]}] \in T => w[S] \in T
    BY <1>4, <1>11
  <1>13. \A S \in SUBSET D : S = {} => w[S] \in T
    BY <1>11
  <1>14. \A S \in SUBSET D : w[S] \in T
    BY <1>3, <1>5, <1>12, <1>13, FoldTyped
  <1> QED
    BY <1>1, <1>14

(* A hit counts something or nothing.                                      *)
LEMMA HitCounts ==
  ASSUME NEW tokens, NEW term, NEW field
  PROVE  Hit(tokens, term, Weight(field)) \in Nat
  <1>1. Weight(field) \in {6, 4, 2}
    BY DEF Weight
  <1>2. \A w \in {6, 4, 2} : Hit(tokens, term, w) \in Nat
    <2>1. 6 \div 2 = 3 /\ 4 \div 2 = 2 /\ 2 \div 2 = 1
      OBVIOUS
    <2> QED
      BY <2>1 DEF Hit
  <1> QED
    BY <1>1, <1>2

(* A score counts, and what scores at all was matched on some field.       *)
LEMMA ScoreCounts ==
  ASSUME NEW record, IsFiniteSet(DOMAIN record.endpoint.fields), NEW A, NEW terms \in Seq(A)
  PROVE  /\ Score(record, terms) \in Nat
         /\ Score(record, terms) # 0 => MatchedOn(record, terms) # {}
         /\ Scores(record, terms) => Score(record, terms) # 0 /\ terms # <<>>
  <1>1. Score(record, terms) \in Nat
    <2>1. 0 \in Nat /\ \A t \in Nat, i \in DOMAIN terms, f \in DOMAIN record.endpoint.fields :
            t + Hit(record.endpoint.fields[f], terms[i], Weight(f)) \in Nat
      BY HitCounts
    <2> QED
      BY <2>1, ScoreIn
  <1>2. ASSUME MatchedOn(record, terms) = {}
        PROVE  Score(record, terms) = 0
    <2>1. ASSUME NEW t \in {0}, NEW i \in DOMAIN terms, NEW f \in DOMAIN record.endpoint.fields
          PROVE  t + Hit(record.endpoint.fields[f], terms[i], Weight(f)) \in {0}
      <3> DEFINE hit == Hit(record.endpoint.fields[f], terms[i], Weight(f))
      <3>1. terms[i] \in ToSet(terms)
        BY DEF ToSet
      <3>2. ~(hit > 0) /\ hit \in Nat
        BY <1>2, <3>1, HitCounts DEF MatchedOn
      <3> HIDE DEF hit
      <3>3. t + hit \in {0}
        BY <3>2
      <3> QED
        BY <3>3 DEF hit
    <2>2. Score(record, terms) \in {0}
      BY <2>1, ScoreIn
    <2> QED
      BY <2>2
  <1>3. terms = <<>> => Score(record, terms) = 0
    <2> SUFFICES ASSUME terms = <<>>
                 PROVE  MatchedOn(record, terms) = {}
      BY <1>2
    <2>1. ToSet(terms) = {}
      BY DEF ToSet
    <2> QED
      BY <2>1 DEF MatchedOn
  <1>4. Scores(record, terms) => Score(record, terms) # 0
    <2>1. Len(terms) \in Nat
      OBVIOUS
    <2> QED
      BY <2>1 DEF Scores
  <1> QED
    BY <1>1, <1>2, <1>3, <1>4

-----------------------------------------------------------------------------
(* As many things as their names, if each has a name of its own.           *)
LEMMA AsManyAs ==
  ASSUME NEW S, IsFiniteSet(S), NEW f, f = [x \in S |-> f[x]], NEW T, T = {f[x] : x \in S}
  PROVE  /\ IsFiniteSet(T) /\ Cardinality(T) \in Nat
         /\ (\A x, y \in S : f[x] = f[y] => x = y) => Cardinality(T) = Cardinality(S)
  <1>1. f \in Surjection(S, T)
    BY DEF Surjection
  <1>2. (\A x, y \in S : f[x] = f[y] => x = y) => f \in Injection(S, T)
    BY DEF Injection, IsInjective
  <1> QED
    BY <1>1, <1>2, FS_Surjection, FS_CardinalityType

(* What has an element of a set for each of the numbers up to one is a     *)
(* sequence of them.                                                       *)
LEMMA SequenceOf ==
  ASSUME NEW S, NEW n \in Nat, NEW r, r = [i \in 1..n |-> r[i]], \A i \in 1..n : r[i] \in S
  PROVE  r \in Seq(S) /\ Len(r) = n /\ DOMAIN r = 1..n
  OBVIOUS

(* What lists a set so that what comes before in an order is listed before *)
(* has everything at its place.                                            *)
LEMMA SortedIsInOrder ==
  ASSUME NEW S, IsFiniteSet(S), NEW a, NEW b, NEW c, Orders(S, a, b, c),
         NEW r \in Seq(S), ToSet(r) = S, IsInjective(r),
         \A i, j \in DOMAIN r : Less(a, b, c, r[i], r[j]) => i < j
  PROVE  InOrder(r, S, a, b, c)
  <1> DEFINE n == Len(r)
  <1>1. /\ n \in Nat /\ DOMAIN r = 1..n
        /\ r = [i \in 1..n |-> r[i]]
        /\ \A i \in 1..n : r[i] \in S
    BY LenProperties, ElementOfSeq
  <1>2. \A i, j \in 1..n : r[i] = r[j] => i = j
    BY <1>1 DEF IsInjective
  <1>3. \A x \in S : \E i \in 1..n : r[i] = x
    BY <1>1 DEF ToSet
  <1> HIDE DEF n
  <1>4. IsFiniteSet(1..n) /\ Cardinality(1..n) = n
    BY <1>1, UpTo
  <1>5. S = {r[i] : i \in 1..n}
    BY <1>1, <1>3
  <1>6. Cardinality(S) = n
    <2>1. r = [i \in 1..n |-> r[i]]
      BY <1>1
    <2>2. Cardinality(S) = Cardinality(1..n)
      BY ONLY <2>1, <1>2, <1>4, <1>5, AsManyAs
    <2> QED
      BY <2>2, <1>4
  <1>7. \A i, j \in 1..n : i < j <=> Less(a, b, c, r[i], r[j])
    <2> SUFFICES ASSUME NEW i \in 1..n, NEW j \in 1..n
                 PROVE  i < j <=> Less(a, b, c, r[i], r[j])
      OBVIOUS
    <2>1. Less(a, b, c, r[i], r[j]) => i < j
      BY <1>1
    <2>2. Less(a, b, c, r[j], r[i]) => j < i
      BY <1>1
    <2>3. Less(a, b, c, r[i], r[j]) \/ Less(a, b, c, r[j], r[i]) \/ r[i] = r[j]
      BY <1>1 DEF Orders, Less
    <2> QED
      BY <1>1, <1>2, <2>1, <2>2, <2>3
  <1>8. ASSUME NEW i \in 1..n
        PROVE  Place(S, a, b, c, r[i]) = i - 1
    <2> DEFINE D == 1..i - 1
               f == [j \in D |-> r[j]]
               T == {y \in S : Less(a, b, c, y, r[i])}
    <2>1. D \subseteq 1..n
      BY <1>1
    <2>2. T = {f[j] : j \in D}
      <3>1. \A j \in D : j \in 1..n /\ j < i /\ f[j] = r[j]
        BY <1>1
      <3>2. \A j \in 1..n : j < i => j \in D
        BY <1>1
      <3>3. \A y \in T : \E j \in D : f[j] = y
        <4> SUFFICES ASSUME NEW y \in S, Less(a, b, c, y, r[i])
                     PROVE  \E j \in D : f[j] = y
          OBVIOUS
        <4>1. PICK j \in 1..n : r[j] = y
          BY <1>3
        <4>2. j \in D
          BY <1>7, <3>2, <4>1
        <4> QED
          BY <3>1, <4>1, <4>2
      <3>4. \A j \in D : f[j] \in T
        BY <1>1, <1>7, <3>1
      <3> HIDE DEF T, D
      <3> QED
        BY <3>3, <3>4
    <2>3. IsFiniteSet(D) /\ Cardinality(D) = i - 1
      BY <1>1, UpTo, i - 1 \in Nat
    <2>4. f = [j \in D |-> f[j]] /\ \A x, y \in D : f[x] = f[y] => x = y
      BY <1>2, <2>1
    <2> HIDE DEF D, f, T
    <2>5. Cardinality(T) = i - 1
      BY <2>2, <2>3, <2>4, AsManyAs
    <2> QED
      BY <2>5 DEF Place, T
  <1> QED
    BY <1>1, <1>6, <1>7, <1>8 DEF InOrder, n

-----------------------------------------------------------------------------
(* A sequence sorted by two numbers of its elements, what has both the     *)
(* same as it was.                                                         *)
Keyed(records, k) == [i \in DOMAIN records |-> k[records[i]]]
Where(records) == [i \in DOMAIN records |-> i]
Puts(order, records, a, b) ==
  /\ order = [i \in 1..Cardinality(DOMAIN records) |-> order[i]]
  /\ \A i \in 1..Cardinality(DOMAIN records), x \in DOMAIN records :
       Place(DOMAIN records, Keyed(records, a), Keyed(records, b), Where(records), x) = i - 1
       => /\ order[i] \in DOMAIN records
          /\ Place(DOMAIN records, Keyed(records, a), Keyed(records, b), Where(records), order[i]) = i - 1
By(s, records, a, b) ==
  /\ s \in Seq(ToSet(records)) /\ Len(s) = Len(records) /\ ToSet(s) = ToSet(records)
  /\ \A i, j \in DOMAIN s : (a[s[i]] < a[s[j]] \/ (a[s[i]] = a[s[j]] /\ b[s[i]] < b[s[j]])) => i < j
  /\ Told(records, b) => Told(s, b)

(* Elements put in a sequence by the ranks Ranked gives them are sorted by *)
(* a, then by b.                                                           *)
LEMMA PutIsBy ==
  ASSUME NEW A, NEW records \in Seq(A), NEW a \in [A -> Int], NEW b \in [A -> Int],
         NEW order, Puts(order, records, a, b)
  PROVE  By([i \in DOMAIN records |-> records[order[i]]], records, a, b)
  <1> DEFINE n == Len(records)
             D == DOMAIN records
             ka == Keyed(records, a)
             kb == Keyed(records, b)
             kc == Where(records)
             s == [i \in DOMAIN records |-> records[order[i]]]
  <1>1. n \in Nat /\ D = 1..n /\ \A i \in D : records[i] \in A
    BY LenProperties, ElementOfSeq
  <1>2. IsFiniteSet(D) /\ Cardinality(D) = n
    <2> HIDE DEF n, D
    <2>1. IsFiniteSet(1..n) /\ Cardinality(1..n) = n
      BY <1>1, UpTo
    <2> QED
      BY <1>1, <2>1
  <1>3. /\ \A i \in D : ka[i] = a[records[i]] /\ kb[i] = b[records[i]] /\ kc[i] = i
        /\ ka \in [D -> Int] /\ kb \in [D -> Int] /\ kc \in [D -> Int]
    BY <1>1 DEF Keyed, Where
  <1>4. s = [i \in D |-> records[order[i]]]
    OBVIOUS
  <1>5. /\ order = [i \in 1..Cardinality(D) |-> order[i]]
        /\ \A i \in 1..Cardinality(D) : \A x \in D : Place(D, ka, kb, kc, x) = i - 1 =>
             order[i] \in D /\ Place(D, ka, kb, kc, order[i]) = i - 1
    BY DEF Puts
  <1> DEFINE all == ToSet(records)
  <1>a. /\ \A i \in D : records[i] \in all
        /\ \A x \in all : \E i \in D : x = records[i]
        /\ DOMAIN records = D /\ Len(records) = n
    BY DEF ToSet
  <1> HIDE DEF n, D, ka, kb, kc, s, all
  <1>6. Orders(D, ka, kb, kc)
    BY <1>3 DEF Orders
  <1>7. InOrder(order, D, ka, kb, kc)
    BY <1>2, <1>5, <1>6, RankedIs
  <1>8. /\ DOMAIN order = D /\ \A i \in D : order[i] \in D
        /\ \A i \in D : \E j \in D : order[j] = i
        /\ \A i, j \in D : order[i] = order[j] => i = j
        /\ \A i, j \in D : i < j <=> Less(ka, kb, kc, order[i], order[j])
    <2>1. order \in Seq(D) /\ Len(order) = n /\ ToSet(order) = D /\ IsInjective(order)
      BY <1>2, <1>7 DEF InOrder
    <2>2. DOMAIN order = D
      BY <1>1, <2>1
    <2>3. \A i \in D : order[i] \in D
      BY <2>1, <2>2
    <2>4. \A i \in D : \E j \in D : order[j] = i
      BY <2>1, <2>2 DEF ToSet
    <2>5. \A i, j \in D : order[i] = order[j] => i = j
      BY <2>1, <2>2 DEF IsInjective
    <2> QED
      BY <1>7, <2>2, <2>3, <2>4, <2>5 DEF InOrder
  <1>9. \A i \in D : s[i] = records[order[i]]
    BY <1>4
  <1>10. /\ s \in Seq(all) /\ Len(s) = n /\ DOMAIN s = D
    <2>1. \A i \in D : s[i] \in all
      BY <1>8, <1>9, <1>a
    <2>2. s = [i \in 1..n |-> s[i]] /\ DOMAIN s = D
      BY <1>1, <1>4
    <2>3. \A i \in 1..n : s[i] \in all
      BY <1>1, <2>1
    <2>4. s \in Seq(all)
      BY <1>1, <2>2, <2>3, SequenceOf
    <2> QED
      BY <1>1, <2>2, <2>4
  <1>11. ToSet(s) = all
    <2>1. \A i \in D : s[i] \in all
      BY <1>8, <1>9, <1>a
    <2>2. \A x \in all : \E j \in D : x = s[j]
      <3> SUFFICES ASSUME NEW x \in all
                   PROVE  \E j \in D : x = s[j]
        OBVIOUS
      <3>1. PICK i \in D : x = records[i]
        BY <1>a
      <3>2. PICK j \in D : order[j] = i
        BY <1>8
      <3> QED
        BY <1>9, <3>1, <3>2
    <2>3. ToSet(s) = {s[i] : i \in D}
      BY <1>10 DEF ToSet
    <2> QED
      BY ONLY <2>1, <2>2, <2>3
  <1>12. \A i, j \in D : (a[s[i]] < a[s[j]] \/ (a[s[i]] = a[s[j]] /\ b[s[i]] < b[s[j]])) => i < j
    <2> SUFFICES ASSUME NEW i \in D, NEW j \in D,
                        a[s[i]] < a[s[j]] \/ (a[s[i]] = a[s[j]] /\ b[s[i]] < b[s[j]])
                 PROVE  i < j
      OBVIOUS
    <2>1. /\ order[i] \in D /\ order[j] \in D
          /\ s[i] = records[order[i]] /\ s[j] = records[order[j]]
      BY <1>8, <1>9
    <2>2. /\ ka[order[i]] = a[s[i]] /\ kb[order[i]] = b[s[i]]
          /\ ka[order[j]] = a[s[j]] /\ kb[order[j]] = b[s[j]]
      BY <1>3, <2>1
    <2>3. Less(ka, kb, kc, order[i], order[j])
      BY <2>2 DEF Less
    <2> QED
      BY <1>8, <2>3
  <1>13. Told(records, b) => Told(s, b)
    <2> SUFFICES ASSUME Told(records, b), NEW i \in D, NEW j \in D, b[s[i]] = b[s[j]]
                 PROVE  i = j
      BY <1>10 DEF Told
    <2>1. \A x, y \in D : b[records[x]] = b[records[y]] => x = y
      BY <1>a DEF Told
    <2>2. order[i] \in D /\ order[j] \in D /\ b[records[order[i]]] = b[records[order[j]]]
      BY <1>8, <1>9
    <2>3. order[i] = order[j]
      BY <2>1, <2>2
    <2> QED
      BY <1>8, <2>3
  <1> QED
    BY <1>a, <1>10, <1>11, <1>12, <1>13 DEF By, s, all

-----------------------------------------------------------------------------
(* What an index may hold: an endpoint and the API it is of.               *)
Recorded == UNION {{[spec |-> api.id, endpoint |-> e] : e \in ToSet(api.endpoints)} : api \in Api}
Rows(specs) ==
  [i \in DOMAIN specs |->
    [j \in DOMAIN specs[i].endpoints |->
       [spec |-> specs[i].id, endpoint |-> specs[i].endpoints[j]]]]
IdOf == [r \in Recorded |-> r.endpoint.id]

(* Every record of the catalog holds an endpoint.                          *)
LEMMA RecordedIs ==
  ASSUME CatalogAssumption
  PROVE  /\ \A r \in Recorded : IsEndpoint(r.endpoint)
         /\ IdOf \in [Recorded -> Int]
  <1>1. \A r \in Recorded : IsEndpoint(r.endpoint)
    <2> SUFFICES ASSUME NEW api \in Api, NEW e \in ToSet(api.endpoints)
                 PROVE  IsEndpoint([spec |-> api.id, endpoint |-> e].endpoint)
      BY DEF Recorded
    <2> QED
      BY DEF CatalogAssumption
  <1> QED
    BY <1>1 DEF IdOf, IsEndpoint

(* Every endpoint of every API is in a record.                             *)
LEMMA RecordedHas ==
  ASSUME NEW api \in Api, NEW e \in ToSet(api.endpoints)
  PROVE  [spec |-> api.id, endpoint |-> e] \in Recorded
  <1> DEFINE Its(a) == {[spec |-> a.id, endpoint |-> x] : x \in ToSet(a.endpoints)}
  <1>1. [spec |-> api.id, endpoint |-> e] \in Its(api)
    OBVIOUS
  <1>2. Recorded = UNION {Its(a) : a \in Api}
    BY DEF Recorded
  <1> HIDE DEF Its
  <1> QED
    BY <1>1, <1>2

(* The records of a catalog are those of its APIs, one after the other.    *)
LEMMA RowsTyped ==
  ASSUME CatalogAssumption, NEW specs \in Seq(Api)
  PROVE  /\ Rows(specs) \in Seq(Seq(Recorded)) /\ Len(Rows(specs)) = Len(specs)
         /\ RecordsOf(specs) = FlattenSeq(Rows(specs))
  <1> DEFINE n == Len(specs)
             Row(i) == [j \in DOMAIN specs[i].endpoints |->
                          [spec |-> specs[i].id, endpoint |-> specs[i].endpoints[j]]]
  <1>1. n \in Nat /\ DOMAIN specs = 1..n /\ \A i \in 1..n : specs[i] \in Api
    BY LenProperties, ElementOfSeq
  <1>2. ASSUME NEW i \in 1..n
        PROVE  Row(i) \in Seq(Recorded)
    <2> DEFINE api == specs[i]
               m == Len(api.endpoints)
    <2>1. api \in Api
      BY <1>1
    <2>2. api.endpoints \in Seq(ToSet(api.endpoints))
      BY <2>1 DEF CatalogAssumption
    <2>3. m \in Nat /\ DOMAIN api.endpoints = 1..m
      BY <2>2, LenProperties
    <2>4. \A j \in 1..m : [spec |-> api.id, endpoint |-> api.endpoints[j]] \in Recorded
      <3> SUFFICES ASSUME NEW j \in 1..m
                   PROVE  [spec |-> api.id, endpoint |-> api.endpoints[j]] \in Recorded
        OBVIOUS
      <3>1. api.endpoints[j] \in ToSet(api.endpoints)
        BY <2>3 DEF ToSet
      <3> QED
        BY <2>1, <3>1, RecordedHas
    <2>5. Row(i) = [j \in 1..m |-> [spec |-> api.id, endpoint |-> api.endpoints[j]]]
      BY <2>3
    <2> DEFINE row == Row(i)
    <2>6. row = [j \in 1..m |-> row[j]] /\ \A j \in 1..m : row[j] \in Recorded
      BY <2>4, <2>5
    <2> HIDE DEF row, m
    <2>7. row \in Seq(Recorded)
      BY <2>3, <2>6, SequenceOf
    <2> QED
      BY <2>7 DEF row
  <1>3. Rows(specs) = [i \in 1..n |-> Row(i)]
    BY <1>1 DEF Rows
  <1> HIDE DEF Row
  <1> DEFINE rows == Rows(specs)
  <1>4. rows = [i \in 1..n |-> rows[i]] /\ \A i \in 1..n : rows[i] \in Seq(Recorded)
    BY <1>2, <1>3
  <1> HIDE DEF rows, n
  <1>5. rows \in Seq(Seq(Recorded)) /\ Len(rows) = n
    BY <1>1, <1>4, SequenceOf
  <1> QED
    BY <1>5 DEF rows, n, RecordsOf, Rows

(* The records of a catalog are records.                                   *)
LEMMA RecordsTyped ==
  ASSUME CatalogAssumption, NEW specs \in Seq(Api)
  PROVE  RecordsOf(specs) \in Seq(Recorded) /\ ToSet(RecordsOf(specs)) \subseteq Recorded
  <1>1. RecordsOf(specs) \in Seq(Recorded)
    BY RowsTyped, FlattenIs
  <1>2. ToSet(RecordsOf(specs)) \subseteq Recorded
    BY <1>1, ElementOfSeq DEF ToSet
  <1> QED
    BY <1>1, <1>2

(* In whatever order the APIs were imported the records are the same, and  *)
(* ids that tell them apart do so.                                         *)
LEMMA ReimportedSame ==
  ASSUME CatalogAssumption, NEW specs \in Seq(Api)
  PROVE  /\ Reverse(specs) \in Seq(Api)
         /\ ToSet(Reimported(specs)) = ToSet(RecordsOf(specs))
         /\ UniqueIds(RecordsOf(specs)) =>
              Told(RecordsOf(specs), IdOf) /\ Told(Reimported(specs), IdOf)
  <1> DEFINE n == Len(specs)
             back == Reverse(specs)
             rows == Rows(specs)
             swor == Rows(back)
  <1>1. n \in Nat /\ DOMAIN specs = 1..n /\ \A i \in 1..n : specs[i] \in Api
    BY LenProperties, ElementOfSeq
  <1>2. back = [i \in 1..n |-> specs[(n - i) + 1]]
    BY DEF Reverse
  <1>3. \A i \in 1..n : (n - i) + 1 \in 1..n /\ (n - ((n - i) + 1)) + 1 = i
    BY <1>1
  <1>4. back \in Seq(Api) /\ Len(back) = n /\ DOMAIN back = 1..n
    <2>1. back = [i \in 1..n |-> back[i]] /\ \A i \in 1..n : back[i] \in Api
      BY <1>1, <1>2, <1>3
    <2> HIDE DEF back, n
    <2> QED
      BY <1>1, <2>1, SequenceOf
  <1>5. \A i \in 1..n : swor[i] = rows[(n - i) + 1]
    BY <1>1, <1>2, <1>3, <1>4 DEF Rows
  <1>6. /\ rows \in Seq(Seq(Recorded)) /\ Len(rows) = n
        /\ swor \in Seq(Seq(Recorded)) /\ Len(swor) = n
        /\ RecordsOf(specs) = FlattenSeq(rows)
        /\ Reimported(specs) = FlattenSeq(swor)
    BY <1>4, RowsTyped DEF Reimported
  <1> HIDE DEF n, back, rows, swor
  <1>7. DOMAIN rows = 1..n /\ DOMAIN swor = 1..n
    BY <1>6, LenProperties
  <1>8. Elements(swor) = Elements(rows)
    <2>1. \A i \in 1..n : \E j \in 1..n : swor[i] = rows[j]
      BY <1>3, <1>5
    <2>2. \A i \in 1..n : \E j \in 1..n : rows[i] = swor[j]
      <3> SUFFICES ASSUME NEW i \in 1..n
                   PROVE  \E j \in 1..n : rows[i] = swor[j]
        OBVIOUS
      <3> DEFINE j == (n - i) + 1
      <3>1. j \in 1..n /\ (n - j) + 1 = i
        BY <1>3
      <3>2. swor[j] = rows[i]
        BY <1>5, <3>1
      <3> QED
        BY <3>1, <3>2
    <2>3. \A x : x \in Elements(swor) <=> \E i \in 1..n : x \in ToSet(swor[i])
      BY <1>7 DEF Elements
    <2>4. \A x : x \in Elements(rows) <=> \E i \in 1..n : x \in ToSet(rows[i])
      BY <1>7 DEF Elements
    <2>5. \A x : x \in Elements(swor) <=> x \in Elements(rows)
      BY <2>1, <2>2, <2>3, <2>4, Zenon
    <2> QED
      BY <2>5
  <1>9. Apart(rows, IdOf) => Apart(swor, IdOf)
    <2> SUFFICES ASSUME Apart(rows, IdOf), NEW i \in 1..n, NEW j \in 1..n,
                        NEW x \in DOMAIN swor[i], NEW y \in DOMAIN swor[j],
                        IdOf[swor[i][x]] = IdOf[swor[j][y]]
                 PROVE  i = j /\ x = y
      BY <1>7 DEF Apart
    <2>1. \A a, b \in 1..n : \A v \in DOMAIN rows[a], w \in DOMAIN rows[b] :
            IdOf[rows[a][v]] = IdOf[rows[b][w]] => a = b /\ v = w
      BY <1>7 DEF Apart
    <2> DEFINE a == (n - i) + 1
               b == (n - j) + 1
    <2>2. a \in 1..n /\ b \in 1..n /\ swor[i] = rows[a] /\ swor[j] = rows[b] /\ (a = b => i = j)
      BY <1>1, <1>3, <1>5
    <2> HIDE DEF a, b
    <2>3. a = b /\ x = y
      BY <2>1, <2>2
    <2> QED
      BY <2>2, <2>3
  <1>10. ASSUME UniqueIds(RecordsOf(specs))
         PROVE  Told(RecordsOf(specs), IdOf)
    <2> DEFINE records == RecordsOf(specs)
    <2>1. records \in Seq(Recorded)
      BY RecordsTyped
    <2>2. \A i \in DOMAIN records : records[i] \in Recorded
      BY <2>1, ElementOfSeq
    <2> HIDE DEF records
    <2>3. \A i \in DOMAIN records : IdOf[records[i]] = records[i].endpoint.id
      BY <2>2 DEF IdOf
    <2>4. \A i, j \in DOMAIN records : records[i].endpoint.id = records[j].endpoint.id => i = j
      BY <1>10 DEF UniqueIds, IsInjective, records
    <2>5. Told(records, IdOf)
      BY <2>3, <2>4 DEF Told
    <2> QED
      BY <2>5 DEF records
  <1> QED
    BY <1>4, <1>6, <1>8, <1>9, <1>10, FlattenIs DEF back

-----------------------------------------------------------------------------
(* What the catalog answers is asked of the APIs as they are.              *)
Answers ==
  \/ answer = None
  \/ \E q \in Query : answer = [asked |-> q, found |-> Search(RecordsOf(apis), q), of |-> apis]
  \/ \E r \in Request :
       answer = [asked |-> r, found |-> Match(RecordsOf(apis), r.method, r.path), of |-> apis]
CatalogInv ==
  /\ apis \in Seq(Api)
  /\ cached = None \/ cached = RecordsOf(apis)
  /\ Answers

(* The catalog starts with the invariant.                                  *)
LEMMA CatalogStarts ==
  ASSUME CatalogInit
  PROVE  CatalogInv
  BY EmptySeq DEF CatalogInit, CatalogInv, Answers

(* Every step of the catalog keeps it.                                     *)
LEMMA CatalogKeeps ==
  ASSUME CatalogInv, [CatalogNext]_catalogVars
  PROVE  CatalogInv'
  <1>1. ASSUME NEW api \in Api, ImportApi(api)
        PROVE  CatalogInv'
    <2>1. WithApi(api) \in Seq(Api)
      <3>1. CASE \E i \in DOMAIN apis : apis[i].id = api.id
        <4> DEFINE n == Len(apis)
                   new == [i \in DOMAIN apis |-> IF apis[i].id = api.id THEN api ELSE apis[i]]
        <4>1. n \in Nat /\ DOMAIN apis = 1..n /\ \A i \in 1..n : apis[i] \in Api
          BY LenProperties, ElementOfSeq DEF CatalogInv
        <4>2. new = [i \in 1..n |-> new[i]] /\ \A i \in 1..n : new[i] \in Api
          BY <4>1
        <4> HIDE DEF new, n
        <4>3. new \in Seq(Api)
          BY <4>1, <4>2, SequenceOf
        <4> QED
          BY <3>1, <4>3 DEF new, WithApi
      <3>2. CASE ~ \E i \in DOMAIN apis : apis[i].id = api.id
        BY <3>2, AppendProperties DEF WithApi, CatalogInv
      <3> QED
        BY <3>1, <3>2
    <2> QED
      BY <1>1, <2>1 DEF ImportApi, AfterImport, CatalogInv, Answers
  <1>2. CASE Ask
    <2>1. Endpoints = RecordsOf(apis)
      BY DEF Endpoints, CatalogInv
    <2>2. apis' = apis /\ cached' = RecordsOf(apis)
      BY <1>2, <2>1 DEF Ask
    <2>3. Answers'
      <3>1. CASE \E q \in Query : answer' = [asked |-> q, found |-> Search(Endpoints, q), of |-> apis]
        BY <2>1, <2>2, <3>1 DEF Answers
      <3>2. CASE \E r \in Request :
              answer' = [asked |-> r, found |-> Match(Endpoints, r.method, r.path), of |-> apis]
        BY <2>1, <2>2, <3>2 DEF Answers
      <3> QED
        BY <1>2, <3>1, <3>2 DEF Ask
    <2> QED
      BY <2>2, <2>3 DEF CatalogInv
  <1>3. CASE UNCHANGED catalogVars
    BY <1>3 DEF catalogVars, CatalogInv, Answers
  <1> QED
    BY <1>1, <1>2, <1>3 DEF CatalogNext

-----------------------------------------------------------------------------
(* The order a sort makes is the one by its two numbers.                   *)
LEMMA ChoosePuts ==
  ASSUME NEW A, NEW records \in Seq(A), NEW a, NEW b, NEW order, NEW before,
         order = [i \in 1..Cardinality(DOMAIN records) |->
                    CHOOSE x \in DOMAIN records : Cardinality(before[x]) = i - 1],
         \A x \in DOMAIN records :
           before[x] = {y \in DOMAIN records :
                          Less(Keyed(records, a), Keyed(records, b), Where(records), y, x)}
  PROVE  Puts(order, records, a, b)
  <1> DEFINE D == DOMAIN records
             Pl(x) == Place(D, Keyed(records, a), Keyed(records, b), Where(records), x)
             n == Cardinality(D)
  <1>1. \A x \in D : Cardinality(before[x]) = Pl(x)
    BY DEF Place
  <1>2. order = [i \in 1..n |-> CHOOSE x \in D : Cardinality(before[x]) = i - 1]
    OBVIOUS
  <1> HIDE DEF D, Pl, n
  <1>3. ASSUME NEW i \in 1..n, NEW x \in D, Pl(x) = i - 1
        PROVE  order[i] \in D /\ Pl(order[i]) = i - 1
    <2>1. order[i] = CHOOSE y \in D : Cardinality(before[y]) = i - 1
      BY <1>2
    <2>2. \E y \in D : Cardinality(before[y]) = i - 1
      BY <1>1, <1>3
    <2>3. order[i] \in D /\ Cardinality(before[order[i]]) = i - 1
      BY <2>1, <2>2
    <2> QED
      BY <1>1, <2>3
  <1>4. order = [i \in 1..n |-> order[i]]
    BY <1>2
  <1> HIDE DEF Keyed, Where
  <1> QED
    BY <1>3, <1>4 DEF Puts, D, Pl, n

-----------------------------------------------------------------------------
(* A template and a path that fits it.                                     *)
Segment == [param : BOOLEAN, name : STRING]
Params(template) == {i \in DOMAIN template : template[i].param}

(* What a template is.                                                     *)
LEMMA TemplateTyped ==
  ASSUME NEW t \in Seq(Segment)
  PROVE  /\ Len(t) \in Nat /\ DOMAIN t = 1..Len(t)
         /\ \A i \in DOMAIN t : t[i].param \in BOOLEAN
         /\ IsFiniteSet(Params(t))
  <1>1. Len(t) \in Nat /\ DOMAIN t = 1..Len(t) /\ \A i \in 1..Len(t) : t[i] \in Segment
    BY LenProperties, ElementOfSeq
  <1>2. \A x \in Segment : x.param \in BOOLEAN
    BY DEF Segment
  <1>3. IsFiniteSet(DOMAIN t) /\ Params(t) \in SUBSET DOMAIN t
    BY <1>1, UpTo DEF Params
  <1> HIDE DEF Segment, Params
  <1> QED
    BY <1>1, <1>2, <1>3, FS_Subset

(* What a path asked for is: none of its segments is empty.                *)
LEMMA PathTyped ==
  ASSUME NEW A, "" \notin A, NEW p \in Seq(A)
  PROVE  /\ Len(p) \in Nat /\ DOMAIN p = 1..Len(p) /\ p = [i \in DOMAIN p |-> p[i]]
         /\ \A i \in DOMAIN p : p[i] # ""
  <1>1. /\ Len(p) \in Nat /\ DOMAIN p = 1..Len(p) /\ p = [i \in DOMAIN p |-> p[i]]
        /\ \A i \in DOMAIN p : p[i] \in A
    BY LenProperties, ElementOfSeq
  <1>2. \A i \in DOMAIN p : p[i] # ""
    BY ONLY <1>1, "" \notin A, Zenon
  <1> QED
    BY <1>1, <1>2

(* What it takes for a path to fit a template (matchPath()).               *)
LEMMA MatchesAre ==
  ASSUME NEW t \in Seq(Segment), NEW A, "" \notin A, NEW p \in Seq(A)
  PROVE  MatchPath(t, p) # {} <=>
           /\ Len(t) = Len(p)
           /\ \A i \in DOMAIN p : t[i].param \/ t[i].name = p[i]
  <1>1. DOMAIN t = 1..Len(t) /\ \A i \in DOMAIN t : t[i].param \in BOOLEAN
    BY TemplateTyped
  <1>2. DOMAIN p = 1..Len(p) /\ \A i \in DOMAIN p : p[i] # ""
    BY PathTyped, Zenon
  <1>3. MatchPath(t, p) # {} <=>
          /\ Len(t) = Len(p)
          /\ \A i \in DOMAIN p : IF t[i].param THEN p[i] # "" ELSE t[i].name = p[i]
    BY Zenon DEF MatchPath
  <1>4. Len(t) = Len(p) =>
          ((\A i \in DOMAIN p : IF t[i].param THEN p[i] # "" ELSE t[i].name = p[i])
           <=> \A i \in DOMAIN p : t[i].param \/ t[i].name = p[i])
    BY <1>1, <1>2
  <1> QED
    BY <1>3, <1>4

(* The values of the parameters: as many as there are parameters if they   *)
(* have names of their own, and then they make the path of the template.   *)
LastNamed(t, n) ==
  CHOOSE i \in DOMAIN t :
    /\ t[i].param /\ t[i].name = n
    /\ \A j \in i + 1 .. Len(t) : t[j] # t[i]

(* In a template whose parameters have names of their own, the last        *)
(* parameter of a name is the only one.                                    *)
LEMMA DistinctNames ==
  ASSUME NEW t \in Seq(Segment), Distinct(t)
  PROVE  /\ \A i, j \in Params(t) : t[i].name = t[j].name => i = j
         /\ \A i \in Params(t) : LastNamed(t, t[i].name) = i
  <1>1. \A i, j \in Params(t) : t[i].name = t[j].name => i = j
    BY DEF Distinct, Params
  <1> DEFINE n == Len(t)
  <1>2. n \in Nat /\ DOMAIN t = 1..n
    BY TemplateTyped
  <1> HIDE DEF n
  <1>3. \A i \in 1..n : \A j \in i + 1..n : j \in 1..n /\ j # i
    BY ONLY <1>2
  <1>4. ASSUME NEW i \in Params(t)
        PROVE  LastNamed(t, t[i].name) = i
    <2>1. i \in DOMAIN t /\ t[i].param
      BY DEF Params
    <2>2. \A j \in i + 1..Len(t) : t[j] # t[i]
      <3> SUFFICES ASSUME NEW j \in i + 1..n, t[j] = t[i]
                   PROVE  FALSE
        BY DEF n
      <3>1. j \in DOMAIN t /\ j # i
        BY <1>2, <1>3, <2>1
      <3>2. j \in Params(t) /\ t[j].name = t[i].name
        BY <2>1, <3>1 DEF Params
      <3> QED
        BY <1>1, <3>1, <3>2
    <2>3. \A k \in DOMAIN t : t[k].param /\ t[k].name = t[i].name => k = i
      BY <1>1, <2>1 DEF Params
    <2> QED
      BY <2>1, <2>2, <2>3 DEF LastNamed
  <1> QED
    BY <1>1, <1>4

(* The values captured put back into the template give the path, and there *)
(* is one for every parameter, when the parameters have names of their     *)
(* own.                                                                    *)
LEMMA CapturedIs ==
  ASSUME NEW r, NEW t, t = r.endpoint.path, t \in Seq(Segment),
         NEW A, "" \notin A, NEW p \in Seq(A), MatchPath(t, p) # {}
  PROVE  /\ Cardinality(DOMAIN Captured(r, p)) \in Nat
         /\ Distinct(t) => /\ Cardinality(DOMAIN Captured(r, p)) = Cardinality(Params(t))
                           /\ FillPath(t, Captured(r, p)) = p
  <1>2. DOMAIN t = DOMAIN p /\ \A i \in DOMAIN p : t[i].param \/ t[i].name = p[i]
    <2>1. Len(t) = Len(p) /\ \A i \in DOMAIN p : t[i].param \/ t[i].name = p[i]
      <3>1. MatchPath(t, p) # {} <=>
              /\ Len(t) = Len(p)
              /\ \A i \in DOMAIN p : t[i].param \/ t[i].name = p[i]
        BY ONLY t \in Seq(Segment), "" \notin A, p \in Seq(A), MatchesAre, Zenon
      <3> QED
        BY ONLY <3>1, MatchPath(t, p) # {}, Zenon
    <2> QED
      BY <2>1, TemplateTyped, PathTyped, Zenon
  <1>3. p = [i \in DOMAIN p |-> p[i]]
    BY PathTyped, Zenon
  <1> DEFINE P == Params(t)
             f == [i \in P |-> t[i].name]
             names == {t[i].name : i \in P}
             values == [n \in names |-> p[LastNamed(t, n)]]
  <1>1. Captured(r, p) = values
    <2>1. MatchPath(t, p) = {values}
      BY Zenon DEF MatchPath, Params, LastNamed
    <2> QED
      BY <2>1 DEF Captured
  <1>4. IsFiniteSet(P)
    BY TemplateTyped
  <1>5. /\ f = [i \in P |-> f[i]] /\ names = {f[i] : i \in P} /\ DOMAIN values = names
        /\ \A i \in P : f[i] = t[i].name /\ f[i] \in names
        /\ \A n \in names : values[n] = p[LastNamed(t, n)]
    OBVIOUS
  <1>6. \A i \in DOMAIN t : t[i].param <=> i \in P
    BY DEF Params
  <1> HIDE DEF f, names, values, P
  <1>7. /\ Cardinality(names) \in Nat
        /\ (\A i, j \in P : f[i] = f[j] => i = j) => Cardinality(names) = Cardinality(P)
    BY ONLY <1>4, <1>5, AsManyAs
  <1>8. ASSUME Distinct(t)
        PROVE  /\ \A i, j \in P : f[i] = f[j] => i = j
               /\ FillPath(t, values) = p
    <2>1. /\ \A i, j \in P : t[i].name = t[j].name => i = j
          /\ \A i \in P : LastNamed(t, t[i].name) = i
      BY <1>8, DistinctNames DEF P
    <2>2. \A i, j \in P : f[i] = f[j] => i = j
      BY ONLY <1>5, <2>1
    <2>3. \A i \in P : values[t[i].name] = p[i]
      BY ONLY <1>5, <2>1
    <2>4. \A i \in DOMAIN t : (IF t[i].param THEN values[t[i].name] ELSE t[i].name) = p[i]
      BY ONLY <1>2, <1>6, <2>3
    <2>5. FillPath(t, values) = [i \in DOMAIN p |-> p[i]]
      BY ONLY <1>2, <2>4 DEF FillPath
    <2> QED
      BY <1>3, <2>2, <2>5
  <1> QED
    BY <1>1, <1>5, <1>7, <1>8 DEF P

(* A template that says more has fewer parameters.                         *)
LEMMA RefinesHasFewer ==
  ASSUME NEW t \in Seq(Segment), NEW u \in Seq(Segment), Len(t) = Len(u), Refines(t, u)
  PROVE  Cardinality(Params(t)) < Cardinality(Params(u))
  <1>1. /\ Len(t) \in Nat /\ DOMAIN t = 1..Len(t) /\ DOMAIN u = 1..Len(t)
        /\ \A i \in DOMAIN t : t[i].param \in BOOLEAN /\ u[i].param \in BOOLEAN
        /\ IsFiniteSet(Params(u))
    BY TemplateTyped
  <1>2. Params(t) \in SUBSET Params(u)
    BY <1>1 DEF Refines, Covers, Params
  <1>3. \E i \in Params(u) : i \notin Params(t)
    <2>1. PICK i \in DOMAIN u : ~t[i].param /\ u[i] # t[i]
      BY DEF Refines, Covers
    <2>2. u[i].param
      BY <1>1, <2>1 DEF Refines, Covers
    <2> QED
      BY <2>1, <2>2 DEF Params
  <1>4. IsFiniteSet(Params(u))
    BY <1>1
  <1>5. /\ IsFiniteSet(Params(t)) /\ Cardinality(Params(t)) <= Cardinality(Params(u))
        /\ Cardinality(Params(u)) # Cardinality(Params(t))
    BY <1>2, <1>3, <1>4, FS_Subset
  <1> QED
    BY <1>4, <1>5, FS_CardinalityType

-----------------------------------------------------------------------------
(* A sequence over a set, and its elements.                                *)
LEMMA ElementsIn ==
  ASSUME NEW A, NEW s \in Seq(A)
  PROVE  /\ ToSet(s) \subseteq A
         /\ \A i \in DOMAIN s : s[i] \in A /\ s[i] \in ToSet(s)
         /\ \A B : ToSet(s) \subseteq B => s \in Seq(B)
  <1> DEFINE n == Len(s)
  <1>1. n \in Nat /\ DOMAIN s = 1..n /\ s = [i \in 1..n |-> s[i]]
    BY LenProperties
  <1>2. \A i \in DOMAIN s : s[i] \in A /\ s[i] \in ToSet(s)
    BY ElementOfSeq DEF ToSet
  <1>3. ToSet(s) \subseteq A
    BY <1>2 DEF ToSet
  <1>4. ASSUME NEW B, ToSet(s) \subseteq B
        PROVE  s \in Seq(B)
    <2>1. \A i \in 1..n : s[i] \in B
      BY <1>1, <1>2, <1>4
    <2> HIDE DEF n
    <2> QED
      BY <1>1, <2>1, SequenceOf
  <1> QED
    BY <1>2, <1>3, <1>4

(* The endpoints a request fits, and what match() sorts them by.           *)
FitsRequest(r, method, p) == r.endpoint.method = method /\ MatchPath(r.endpoint.path, p) # {}
Fitting(method, p) == {r \in Recorded : FitsRequest(r, method, p)}
CountOf(method, p) == [r \in Fitting(method, p) |-> Cardinality(DOMAIN Captured(r, p))]
FitId(method, p) == [r \in Fitting(method, p) |-> r.endpoint.id]

(* The keys match() sorts by are numbers.                                  *)
LEMMA FittingIs ==
  ASSUME CatalogAssumption, NEW A, "" \notin A, NEW p \in Seq(A), NEW method
  PROVE  /\ CountOf(method, p) \in [Fitting(method, p) -> Int]
         /\ FitId(method, p) \in [Fitting(method, p) -> Int]
         /\ \A r \in Recorded : r.endpoint.path \in Seq(Segment) /\ r.endpoint.id \in Int
  <1>1. \A r \in Recorded : r.endpoint.path \in Seq(Segment) /\ r.endpoint.id \in Int
    BY RecordedIs DEF IsEndpoint, Segment
  <1>2. ASSUME NEW r \in Fitting(method, p)
        PROVE  Cardinality(DOMAIN Captured(r, p)) \in Int /\ r.endpoint.id \in Int
    <2>1. r \in Recorded /\ MatchPath(r.endpoint.path, p) # {}
      BY DEF Fitting, FitsRequest
    <2> DEFINE t == r.endpoint.path
    <2>2. t = r.endpoint.path /\ t \in Seq(Segment) /\ MatchPath(t, p) # {}
      BY <1>1, <2>1
    <2> HIDE DEF t
    <2>3. Cardinality(DOMAIN Captured(r, p)) \in Nat
      BY <2>2, CapturedIs
    <2>4. \A n \in Nat : n \in Int
      <3> TAKE n \in Nat
      <3> QED
        BY ONLY n \in Nat
    <2> QED
      BY <1>1, <2>1, <2>3, <2>4, Zenon
  <1> QED
    BY <1>1, <1>2 DEF CountOf, FitId

(* What match() answers: every record that fits, the fewest captured       *)
(* values first, then by id.                                               *)
LEMMA MatchIs ==
  ASSUME CatalogAssumption, NEW records \in Seq(Recorded),
         NEW A, "" \notin A, NEW p \in Seq(A), NEW method
  PROVE  \E fits \in Seq(Fitting(method, p)) :
           /\ ToSet(fits) = {r \in ToSet(records) : FitsRequest(r, method, p)}
           /\ By(Match(records, method, p), fits, CountOf(method, p), FitId(method, p))
  <1>0. ToSet(records) \subseteq Recorded
    BY ElementsIn
  <1> DEFINE S == {i \in DOMAIN records : /\ records[i].endpoint.method = method
                                          /\ MatchPath(records[i].endpoint.path, p) # {}}
             fits == Picked(records, S)
             F == Fitting(method, p)
             a == CountOf(method, p)
             b == FitId(method, p)
             D == DOMAIN fits
             Count(r) == Cardinality(DOMAIN Captured(r, p))
             Before(l, r) == \/ Count(l) < Count(r)
                             \/ Count(l) = Count(r) /\ l.endpoint.id < r.endpoint.id
             Bef(i, j) == \/ Before(fits[i], fits[j])
                          \/ ~Before(fits[j], fits[i]) /\ i < j
             order == [i \in 1..Cardinality(D) |->
                         CHOOSE x \in D : Cardinality({y \in D : Bef(y, x)}) = i - 1]
             before == [x \in D |-> {y \in D : Bef(y, x)}]
  <1>1. fits \in Seq(Recorded) /\ ToSet(fits) = {records[i] : i \in S \cap DOMAIN records}
    <2> HIDE DEF S
    <2> QED
      BY PickedTyped, PickedElements
  <1>2. ToSet(fits) = {r \in ToSet(records) : FitsRequest(r, method, p)}
    <2> HIDE DEF fits
    <2>1. S \cap DOMAIN records = {i \in DOMAIN records : FitsRequest(records[i], method, p)}
      BY DEF FitsRequest
    <2> HIDE DEF S
    <2> QED
      BY <1>1, <2>1 DEF ToSet
  <1>3. fits \in Seq(F)
    <2> HIDE DEF fits
    <2>1. ToSet(fits) \subseteq F
      BY <1>0, <1>2 DEF Fitting
    <2> HIDE DEF F
    <2> QED
      BY <1>1, <2>1, ElementsIn
  <1>4. Match(records, method, p) = [i \in DOMAIN fits |-> fits[order[i]]]
    BY Zenon DEF Match, Sorted, Ranked
  <1>5. order = [i \in 1..Cardinality(D) |-> CHOOSE x \in D : Cardinality(before[x]) = i - 1]
    <2>1. \A x \in D : before[x] = {y \in D : Bef(y, x)}
      OBVIOUS
    <2> HIDE DEF before, D, Bef
    <2>2. \A i \in 1..Cardinality(D) :
            (CHOOSE x \in D : Cardinality(before[x]) = i - 1)
            = CHOOSE x \in D : Cardinality({y \in D : Bef(y, x)}) = i - 1
      BY <2>1
    <2> QED
      BY <2>2
  <1>6. \A i \in D : fits[i] \in F
    <2> HIDE DEF fits, F
    <2> QED
      BY <1>3, ElementsIn, Zenon
  <1>7. \A r \in F : a[r] = Count(r) /\ b[r] = r.endpoint.id
    BY DEF CountOf, FitId
  <1>8. a \in [F -> Int] /\ b \in [F -> Int]
    BY FittingIs
  <1> HIDE DEF fits, F, a, b, order, Count
  <1>9. ASSUME NEW x \in D
        PROVE  before[x] = {y \in D : Less(Keyed(fits, a), Keyed(fits, b), Where(fits), y, x)}
    <2>1. ASSUME NEW y \in D
          PROVE  Bef(y, x) <=> Less(Keyed(fits, a), Keyed(fits, b), Where(fits), y, x)
      <3>1. /\ Keyed(fits, a)[x] = a[fits[x]] /\ Keyed(fits, a)[y] = a[fits[y]]
            /\ Keyed(fits, b)[x] = b[fits[x]] /\ Keyed(fits, b)[y] = b[fits[y]]
            /\ Where(fits)[x] = x /\ Where(fits)[y] = y
        BY DEF Keyed, Where
      <3>2. /\ a[fits[x]] = Count(fits[x]) /\ b[fits[x]] = fits[x].endpoint.id
            /\ a[fits[y]] = Count(fits[y]) /\ b[fits[y]] = fits[y].endpoint.id
            /\ a[fits[x]] \in Int /\ a[fits[y]] \in Int /\ b[fits[x]] \in Int /\ b[fits[y]] \in Int
        BY <1>6, <1>7, <1>8
      <3> QED
        BY ONLY <3>1, <3>2 DEF Less, Bef, Before
    <2>2. before[x] = {y \in D : Bef(y, x)}
      OBVIOUS
    <2> HIDE DEF before, Bef, D
    <2> QED
      BY <2>1, <2>2
  <1> HIDE DEF before
  <1>10. Puts(order, fits, a, b)
    BY <1>3, <1>5, <1>9, ChoosePuts
  <1>11. By([i \in DOMAIN fits |-> fits[order[i]]], fits, a, b)
    BY <1>3, <1>8, <1>10, PutIsBy
  <1>12. By(Match(records, method, p), fits, a, b)
    BY <1>4, <1>11
  <1> QED
    BY <1>2, <1>3, <1>12 DEF a, b, F

(* A request is attributed to every endpoint of the catalog as it is whose *)
(* template it is an instance of, with the values that make it one, and a  *)
(* template that says more comes before one that says less.                *)
Attributed(records, request, found) ==
  /\ ToSet(found) = Instances(records, request)
  /\ \A i \in DOMAIN found : Distinct(found[i].endpoint.path) =>
       /\ FillPath(found[i].endpoint.path, Captured(found[i], request.path)) = request.path
       /\ \A j \in {k \in DOMAIN found : Distinct(found[k].endpoint.path)} :
            Refines(found[i].endpoint.path, found[j].endpoint.path) => i < j

(* The answer is every endpoint the request is an instance of, a template  *)
(* that says more before one that says less.                               *)
LEMMA MatchAttributes ==
  ASSUME CatalogAssumption, NEW records \in Seq(Recorded), NEW request \in Request
  PROVE  Attributed(records, request, Match(records, request.method, request.path))
  <1> DEFINE p == request.path
             method == request.method
             found == Match(records, method, p)
             A == STRING \ {""}
             a == CountOf(method, p)
             b == FitId(method, p)
             F == Fitting(method, p)
  <1>1. "" \notin A /\ p \in Seq(A)
    BY DEF CatalogAssumption
  <1> HIDE DEF A
  <1>2. PICK fits \in Seq(F) :
           /\ ToSet(fits) = {r \in ToSet(records) : FitsRequest(r, method, p)}
           /\ By(found, fits, a, b)
    <2> HIDE DEF p, method
    <2> QED
      BY <1>1, MatchIs
  <1>3. \A r \in Recorded : r.endpoint.path \in Seq(Segment)
    <2> HIDE DEF p, method
    <2> QED
      BY <1>1, FittingIs
  <1>4. ToSet(records) \subseteq Recorded
    BY ElementsIn
  <1>5. ToSet(found) = {r \in ToSet(records) : FitsRequest(r, method, p)}
    BY <1>2 DEF By
  <1>6. ASSUME NEW r \in Recorded
        PROVE  FitsRequest(r, method, p) <=>
                 /\ r.endpoint.method = method /\ Len(r.endpoint.path) = Len(p)
                 /\ \A i \in DOMAIN p : r.endpoint.path[i].param \/ r.endpoint.path[i].name = p[i]
    <2> DEFINE t == r.endpoint.path
    <2>1. t \in Seq(Segment)
      BY <1>3
    <2> HIDE DEF t, p
    <2>2. MatchPath(t, p) # {} <=>
            /\ Len(t) = Len(p)
            /\ \A i \in DOMAIN p : t[i].param \/ t[i].name = p[i]
      BY <1>1, <2>1, MatchesAre, Zenon
    <2> QED
      BY <2>2 DEF FitsRequest, t
  <1>7. ToSet(found) = Instances(records, request)
    <2> HIDE DEF found
    <2> QED
      BY <1>4, <1>5, <1>6 DEF Instances
  <1>8. \A i \in DOMAIN found : found[i] \in ToSet(found) /\ found[i] \in F
    BY <1>4, <1>5 DEF ToSet, Fitting
  <1>9. ASSUME NEW i \in DOMAIN found
        PROVE  /\ found[i].endpoint.path \in Seq(Segment)
               /\ Len(found[i].endpoint.path) = Len(p)
               /\ MatchPath(found[i].endpoint.path, p) # {}
    <2> HIDE DEF found, p, method
    <2>1. found[i] \in Recorded /\ FitsRequest(found[i], method, p)
      BY <1>8 DEF Fitting
    <2> QED
      BY <1>3, <1>6, <2>1 DEF FitsRequest
  <1>10. ASSUME NEW i \in DOMAIN found, Distinct(found[i].endpoint.path)
         PROVE  /\ a[found[i]] = Cardinality(Params(found[i].endpoint.path))
                /\ FillPath(found[i].endpoint.path, Captured(found[i], p)) = p
    <2> DEFINE r == found[i]
               t == r.endpoint.path
    <2>1. t = r.endpoint.path /\ t \in Seq(Segment) /\ MatchPath(t, p) # {} /\ Distinct(t)
      BY <1>9, <1>10
    <2>2. a[r] = Cardinality(DOMAIN Captured(r, p))
      BY <1>8 DEF CountOf
    <2> HIDE DEF r, t, p
    <2>3. /\ Cardinality(DOMAIN Captured(r, p)) = Cardinality(Params(t))
          /\ FillPath(t, Captured(r, p)) = p
      BY ONLY <1>1, <2>1, CapturedIs, Zenon
    <2> QED
      BY <2>2, <2>3 DEF r, t
  <1>11. ASSUME NEW i \in DOMAIN found, NEW j \in DOMAIN found,
                Distinct(found[i].endpoint.path), Distinct(found[j].endpoint.path),
                Refines(found[i].endpoint.path, found[j].endpoint.path)
         PROVE  i < j
    <2> HIDE DEF found, p, method, a, b
    <2>1. Cardinality(Params(found[i].endpoint.path)) < Cardinality(Params(found[j].endpoint.path))
      BY <1>9, <1>11, RefinesHasFewer
    <2>2. a[found[i]] < a[found[j]]
      BY <1>10, <1>11, <2>1
    <2> QED
      BY <1>2, <2>2 DEF By
  <1> HIDE DEF found
  <1> QED
    BY <1>7, <1>10, <1>11 DEF Attributed, found

(* The invariant gives the property of requests.                           *)
LEMMA RequestsHold ==
  ASSUME CatalogAssumption, CatalogInv
  PROVE  RequestsAreAttributed
  <1>1. apis \in Seq(Api) /\ Answers
    BY DEF CatalogInv
  <1>2. ASSUME NEW q \in Query,
               answer = [asked |-> q, found |-> Search(RecordsOf(apis), q), of |-> apis]
        PROVE  ~Found("path")
    <2>1. answer.asked = q
      BY <1>2
    <2>2. "path" \notin DOMAIN q
      BY DEF CatalogAssumption
    <2> QED
      BY <2>1, <2>2 DEF Found
  <1>3. ASSUME NEW r \in Request,
               answer = [asked |-> r, found |-> Match(RecordsOf(apis), r.method, r.path), of |-> apis]
        PROVE  RequestsAreAttributed
    <2>1. /\ answer.asked = r /\ answer.of = apis
          /\ answer.found = Match(RecordsOf(apis), r.method, r.path)
      BY <1>3
    <2>2. RecordsOf(apis) \in Seq(Recorded)
      BY <1>1, RecordsTyped
    <2>3. Attributed(RecordsOf(apis), r, Match(RecordsOf(apis), r.method, r.path))
      BY <2>2, MatchAttributes
    <2>4. Attributed(RecordsOf(answer.of), answer.asked, answer.found)
      BY <2>1, <2>3
    <2> QED
      BY <2>4, Zenon DEF Attributed, RequestsAreAttributed
  <1>4. answer = None => ~Found("path")
    BY DEF Found
  <1> QED
    BY <1>1, <1>2, <1>3, <1>4 DEF Answers, RequestsAreAttributed

(* EndpointCatalog.match(): whatever APIs were imported, in whatever order *)
(* and however often again, and whether or not the list of records was     *)
(* cached, a request is attributed to every endpoint whose template it is  *)
(* an instance of and to no other, the captured values make it one, and a  *)
(* template that says more comes before one that says less.                *)
THEOREM RequestsFindTheirEndpoints ==
  ASSUME CatalogAssumption
  PROVE  CatalogSpec => []RequestsAreAttributed
  <1>1. CatalogInit => CatalogInv
    BY CatalogStarts
  <1>2. CatalogInv /\ [CatalogNext]_catalogVars => CatalogInv'
    BY CatalogKeeps
  <1>3. CatalogInv => RequestsAreAttributed
    BY RequestsHold
  <1> QED
    BY <1>1, <1>2, <1>3, PTL DEF CatalogSpec

-----------------------------------------------------------------------------
(* The endpoints a search is about, and what search() sorts them by.       *)
Hits(query, r) == Admits(query, r) /\ Scores(r, query.terms)
NegScore(terms) == [r \in Recorded |-> -Score(r, terms)]

(* Scores are numbers, and a query that scores has matched on a field.     *)
LEMMA ScoresTyped ==
  ASSUME CatalogAssumption, NEW query \in Query
  PROVE  /\ \A r \in Recorded :
              /\ Score(r, query.terms) \in Nat
              /\ Scores(r, query.terms) =>
                   Score(r, query.terms) # 0 /\ query.terms # <<>> /\ MatchedOn(r, query.terms) # {}
         /\ NegScore(query.terms) \in [Recorded -> Int]
         /\ query.limit \in Nat
  <1> DEFINE terms == query.terms
             A == ToSet(terms)
  <1>1. terms \in Seq(A) /\ query.limit \in Nat
    BY DEF CatalogAssumption
  <1>2. \A r \in Recorded : IsFiniteSet(DOMAIN r.endpoint.fields)
    BY RecordedIs DEF IsEndpoint
  <1> HIDE DEF terms, A
  <1>3. ASSUME NEW r \in Recorded
        PROVE  /\ Score(r, terms) \in Nat
               /\ Scores(r, terms) => /\ Score(r, terms) # 0 /\ terms # <<>>
                                      /\ MatchedOn(r, terms) # {}
    <2>1. IsFiniteSet(DOMAIN r.endpoint.fields)
      BY <1>2
    <2> QED
      BY <1>1, <2>1, ScoreCounts
  <1>4. \A r \in Recorded : -Score(r, terms) \in Int
    <2> SUFFICES ASSUME NEW r \in Recorded
                 PROVE  -Score(r, terms) \in Int
      OBVIOUS
    <2>1. Score(r, terms) \in Nat
      BY <1>3
    <2> QED
      BY ONLY <2>1
  <1> QED
    BY <1>1, <1>3, <1>4 DEF NegScore, terms

(* What search() answers: of the records that score, the first by score    *)
(* and id, up to the limit.                                                *)
LEMMA SearchIs ==
  ASSUME CatalogAssumption, NEW records \in Seq(Recorded), NEW query \in Query
  PROVE  \E hits \in Seq(Recorded) : \E sorted :
           /\ ToSet(hits) = {r \in ToSet(records) : Hits(query, r)}
           /\ Told(records, IdOf) => Told(hits, IdOf)
           /\ By(sorted, hits, NegScore(query.terms), IdOf)
           /\ Search(records, query) =
                IF query.terms = <<>> THEN <<>> ELSE Capped(sorted, query.limit)
  <1> DEFINE S == {i \in DOMAIN records : Admits(query, records[i]) /\ Scores(records[i], query.terms)}
             hits == Picked(records, S)
             a == NegScore(query.terms)
             b == IdOf
             D == DOMAIN hits
             Before(l, r) == \/ Score(l, query.terms) > Score(r, query.terms)
                             \/ /\ Score(l, query.terms) = Score(r, query.terms)
                                /\ l.endpoint.id < r.endpoint.id
             Bef(i, j) == \/ Before(hits[i], hits[j])
                          \/ ~Before(hits[j], hits[i]) /\ i < j
             order == [i \in 1..Cardinality(D) |->
                         CHOOSE x \in D : Cardinality({y \in D : Bef(y, x)}) = i - 1]
             before == [x \in D |-> {y \in D : Bef(y, x)}]
             sorted == [i \in DOMAIN hits |-> hits[order[i]]]
  <1>1. /\ hits \in Seq(Recorded) /\ ToSet(hits) = {records[i] : i \in S \cap DOMAIN records}
        /\ IsInjective(records) => IsInjective(hits)
    <2> HIDE DEF S
    <2> QED
      BY PickedTyped, PickedElements
  <1>2. ToSet(hits) = {r \in ToSet(records) : Hits(query, r)}
    <2> HIDE DEF hits
    <2>1. S \cap DOMAIN records = {i \in DOMAIN records : Hits(query, records[i])}
      BY DEF Hits
    <2> HIDE DEF S
    <2> QED
      BY <1>1, <2>1 DEF ToSet
  <1>3. ASSUME Told(records, IdOf)
        PROVE  Told(hits, IdOf)
    <2> HIDE DEF hits
    <2>1. \A x, y \in DOMAIN records : IdOf[records[x]] = IdOf[records[y]] => x = y
      BY <1>3 DEF Told
    <2>2. IsInjective(hits)
      BY <1>1, <2>1 DEF IsInjective
    <2>3. \A i \in DOMAIN hits : \E x \in DOMAIN records : hits[i] = records[x]
      BY <1>2 DEF ToSet
    <2>4. \A i, j \in DOMAIN hits : IdOf[hits[i]] = IdOf[hits[j]] => hits[i] = hits[j]
      BY <2>1, <2>3, Zenon
    <2> QED
      BY <2>2, <2>4 DEF Told, IsInjective
  <1>4. Search(records, query) = IF query.terms = <<>> THEN <<>> ELSE Capped(sorted, query.limit)
    BY Zenon DEF Search, Sorted, Ranked
  <1>5. order = [i \in 1..Cardinality(D) |-> CHOOSE x \in D : Cardinality(before[x]) = i - 1]
    <2>1. \A x \in D : before[x] = {y \in D : Bef(y, x)}
      OBVIOUS
    <2> HIDE DEF before, D, Bef
    <2>2. \A i \in 1..Cardinality(D) :
            (CHOOSE x \in D : Cardinality(before[x]) = i - 1)
            = CHOOSE x \in D : Cardinality({y \in D : Bef(y, x)}) = i - 1
      BY <2>1
    <2> QED
      BY <2>2
  <1>6. \A i \in D : hits[i] \in Recorded
    <2> HIDE DEF hits
    <2> QED
      BY <1>1, ElementsIn, Zenon
  <1>7. \A r \in Recorded : /\ a[r] = -Score(r, query.terms) /\ b[r] = r.endpoint.id
                            /\ Score(r, query.terms) \in Nat
    BY ScoresTyped DEF NegScore, IdOf
  <1>8. a \in [Recorded -> Int] /\ b \in [Recorded -> Int]
    BY ScoresTyped, RecordedIs
  <1> HIDE DEF hits, a, b, order
  <1>9. ASSUME NEW x \in D
        PROVE  before[x] = {y \in D : Less(Keyed(hits, a), Keyed(hits, b), Where(hits), y, x)}
    <2>1. ASSUME NEW y \in D
          PROVE  Bef(y, x) <=> Less(Keyed(hits, a), Keyed(hits, b), Where(hits), y, x)
      <3>1. /\ Keyed(hits, a)[x] = a[hits[x]] /\ Keyed(hits, a)[y] = a[hits[y]]
            /\ Keyed(hits, b)[x] = b[hits[x]] /\ Keyed(hits, b)[y] = b[hits[y]]
            /\ Where(hits)[x] = x /\ Where(hits)[y] = y
        BY DEF Keyed, Where
      <3>2. /\ a[hits[x]] = -Score(hits[x], query.terms) /\ b[hits[x]] = hits[x].endpoint.id
            /\ a[hits[y]] = -Score(hits[y], query.terms) /\ b[hits[y]] = hits[y].endpoint.id
            /\ Score(hits[x], query.terms) \in Nat /\ Score(hits[y], query.terms) \in Nat
            /\ b[hits[x]] \in Int /\ b[hits[y]] \in Int
        BY <1>6, <1>7, <1>8
      <3> QED
        BY ONLY <3>1, <3>2 DEF Less, Bef, Before
    <2>2. before[x] = {y \in D : Bef(y, x)}
      OBVIOUS
    <2> HIDE DEF before, Bef, D
    <2> QED
      BY <2>1, <2>2
  <1> HIDE DEF before
  <1>10. Puts(order, hits, a, b)
    BY <1>1, <1>5, <1>9, ChoosePuts
  <1>11. By(sorted, hits, a, b)
    BY <1>1, <1>8, <1>10, PutIsBy
  <1> HIDE DEF sorted
  <1> QED
    BY <1>1, <1>2, <1>3, <1>4, <1>11 DEF a, b

(* Sorted by score and then by an id of its own, a set is one sequence.    *)
LEMMA OneSorted ==
  ASSUME NEW A, NEW a \in [A -> Int], NEW b \in [A -> Int],
         NEW h \in Seq(A), NEW g \in Seq(A), ToSet(h) = ToSet(g), Told(h, b), Told(g, b),
         NEW s, NEW t, By(s, h, a, b), By(t, g, a, b)
  PROVE  s = t
  <1> DEFINE S == ToSet(h)
             as == [x \in S |-> a[x]]
             bs == [x \in S |-> b[x]]
             n == Len(h)
  <1>1. S \subseteq A
    BY ElementsIn
  <1>2. IsFiniteSet(S)
    <2>1. n \in Nat /\ DOMAIN h = 1..n /\ h = [i \in 1..n |-> h[i]]
      BY LenProperties
    <2>2. S = {h[i] : i \in 1..n}
      BY <2>1 DEF ToSet
    <2> HIDE DEF n, S, as, bs
    <2>3. IsFiniteSet(1..n)
      BY <2>1, UpTo
    <2> DEFINE P == 1..n
    <2>4. IsFiniteSet(P) /\ h = [i \in P |-> h[i]] /\ S = {h[i] : i \in P}
      BY <2>1, <2>2, <2>3
    <2> HIDE DEF P
    <2> QED
      BY <2>4, AsManyAs
  <1>3. as \in [S -> Int] /\ bs \in [S -> Int] /\ \A x \in S : as[x] = a[x] /\ bs[x] = b[x]
    BY <1>1
  <1>4. \A x, y \in S : b[x] = b[y] => x = y
    BY DEF Told, ToSet
  <1>5. ASSUME NEW r, r \in Seq(S), ToSet(r) = S, Told(r, b),
               \A i, j \in DOMAIN r :
                 (a[r[i]] < a[r[j]] \/ (a[r[i]] = a[r[j]] /\ b[r[i]] < b[r[j]])) => i < j
        PROVE  InOrder(r, S, as, bs, bs)
    <2> HIDE DEF S, as, bs
    <2>1. Orders(S, as, bs, bs)
      BY <1>3, <1>4 DEF Orders
    <2>2. IsInjective(r)
      BY <1>5 DEF Told, IsInjective
    <2>3. \A i \in DOMAIN r : r[i] \in S
      BY <1>5, ElementsIn, Zenon
    <2>4. ASSUME NEW i \in DOMAIN r, NEW j \in DOMAIN r, Less(as, bs, bs, r[i], r[j])
          PROVE  i < j
      <3>1. /\ as[r[i]] = a[r[i]] /\ as[r[j]] = a[r[j]] /\ bs[r[i]] = b[r[i]] /\ bs[r[j]] = b[r[j]]
            /\ bs[r[i]] \in Int /\ bs[r[j]] \in Int
        BY <1>3, <2>3
      <3>2. a[r[i]] < a[r[j]] \/ (a[r[i]] = a[r[j]] /\ b[r[i]] < b[r[j]])
        BY <2>4, <3>1 DEF Less
      <3> QED
        BY <1>5, <3>2
    <2> QED
      BY <1>2, <1>5, <2>1, <2>2, <2>4, SortedIsInOrder
  <1>6. Orders(S, as, bs, bs)
    <2> HIDE DEF S, as, bs
    <2> QED
      BY <1>3, <1>4 DEF Orders
  <1>7. InOrder(s, S, as, bs, bs)
    <2> HIDE DEF as, bs
    <2> QED
      BY <1>5 DEF By
  <1>8. InOrder(t, S, as, bs, bs)
    <2> HIDE DEF as, bs
    <2> QED
      BY <1>5 DEF By
  <1> HIDE DEF S, as, bs
  <1> QED
    BY <1>2, <1>6, <1>7, <1>8, OneOrder

(* The first of a sequence, as many as there may be.                       *)
LEMMA CappedIs ==
  ASSUME NEW A, NEW s \in Seq(A), NEW n \in Nat
  PROVE  /\ Len(Capped(s, n)) = (IF Len(s) < n THEN Len(s) ELSE n)
         /\ Capped(s, n) \in Seq(A)
         /\ \A i \in DOMAIN Capped(s, n) : i \in DOMAIN s /\ i <= n /\ Capped(s, n)[i] = s[i]
         /\ \A i \in DOMAIN s : i <= n => i \in DOMAIN Capped(s, n)
  BY DEF Capped

-----------------------------------------------------------------------------
(* A search answers from the catalog as it is: whatever order the APIs     *)
(* were imported in, its best results by score and id, each for a field it *)
(* matched on.                                                             *)
Searched(specs, query, found) ==
  LET records == RecordsOf(specs) IN
  /\ found = Search(records, query)
  /\ UniqueIds(records) => found = Search(Reimported(specs), query)
  /\ \A r \in ToSet(found) : MatchedOn(r, query.terms) # {}
  /\ \A r \in ToSet(records) \ ToSet(found) :
       Admits(query, r) /\ Scores(r, query.terms) =>
         /\ Len(found) = query.limit
         /\ \A f \in ToSet(found) : Score(r, query.terms) <= Score(f, query.terms)

(* Every answer of a search is reproducible from the APIs it was asked of. *)
LEMMA SearchAnswers ==
  ASSUME CatalogAssumption, NEW specs \in Seq(Api), NEW query \in Query
  PROVE  Searched(specs, query, Search(RecordsOf(specs), query))
  <1> DEFINE records == RecordsOf(specs)
             again == Reimported(specs)
             found == Search(records, query)
             terms == query.terms
             limit == query.limit
             a == NegScore(terms)
  <1>1. /\ records \in Seq(Recorded) /\ again \in Seq(Recorded)
        /\ ToSet(records) = ToSet(again)
        /\ UniqueIds(records) => Told(records, IdOf) /\ Told(again, IdOf)
    BY RecordsTyped, ReimportedSame DEF Reimported
  <1>2. /\ \A r \in Recorded :
             /\ Score(r, terms) \in Nat
             /\ Scores(r, terms) => Score(r, terms) # 0 /\ terms # <<>> /\ MatchedOn(r, terms) # {}
        /\ a \in [Recorded -> Int]
        /\ limit \in Nat
        /\ IdOf \in [Recorded -> Int]
    BY ScoresTyped, RecordedIs
  <1> HIDE DEF records, again
  <1>3. PICK hits \in Seq(Recorded) : \E sorted :
           /\ ToSet(hits) = {r \in ToSet(records) : Hits(query, r)}
           /\ Told(records, IdOf) => Told(hits, IdOf)
           /\ By(sorted, hits, a, IdOf)
           /\ found = IF terms = <<>> THEN <<>> ELSE Capped(sorted, limit)
    BY <1>1, SearchIs
  <1>4. PICK sorted :
           /\ ToSet(hits) = {r \in ToSet(records) : Hits(query, r)}
           /\ Told(records, IdOf) => Told(hits, IdOf)
           /\ By(sorted, hits, a, IdOf)
           /\ found = IF terms = <<>> THEN <<>> ELSE Capped(sorted, limit)
    BY <1>3
  <1>5. PICK stih \in Seq(Recorded) : \E detros :
           /\ ToSet(stih) = {r \in ToSet(again) : Hits(query, r)}
           /\ Told(again, IdOf) => Told(stih, IdOf)
           /\ By(detros, stih, a, IdOf)
           /\ Search(again, query) = IF terms = <<>> THEN <<>> ELSE Capped(detros, limit)
    BY <1>1, SearchIs
  <1>6. PICK detros :
           /\ ToSet(stih) = {r \in ToSet(again) : Hits(query, r)}
           /\ Told(again, IdOf) => Told(stih, IdOf)
           /\ By(detros, stih, a, IdOf)
           /\ Search(again, query) = IF terms = <<>> THEN <<>> ELSE Capped(detros, limit)
    BY <1>5
  <1>7. ToSet(records) \subseteq Recorded
    BY <1>1, ElementsIn
  <1> HIDE DEF found, terms, limit, a
  <1>8. ASSUME UniqueIds(records)
        PROVE  found = Search(again, query)
    <2>1. /\ ToSet(hits) = ToSet(stih) /\ Told(hits, IdOf) /\ Told(stih, IdOf)
          /\ By(sorted, hits, a, IdOf) /\ By(detros, stih, a, IdOf)
      BY <1>1, <1>4, <1>6, <1>8
    <2>2. sorted = detros
      BY <1>2, <2>1, OneSorted
    <2> QED
      BY <1>4, <1>6, <2>2
  <1>9. /\ sorted \in Seq(Recorded) /\ ToSet(sorted) = ToSet(hits)
        /\ \A r \in ToSet(sorted) : r \in ToSet(records) /\ Hits(query, r)
    <2>1. sorted \in Seq(ToSet(hits)) /\ ToSet(sorted) = ToSet(hits)
      BY <1>4 DEF By
    <2>2. sorted \in Seq(Recorded)
      BY <1>4, <1>7, <2>1, ElementsIn
    <2> QED
      BY <1>4, <2>1, <2>2
  <1>10. ASSUME terms = <<>>
         PROVE  found = <<>> /\ \A r \in Recorded : ~Scores(r, terms)
    BY <1>2, <1>4, <1>10
  <1>11. ASSUME terms # <<>>
         PROVE  /\ found \in Seq(Recorded)
                /\ Len(found) = (IF Len(sorted) < limit THEN Len(sorted) ELSE limit)
                /\ \A i \in DOMAIN found : i \in DOMAIN sorted /\ i <= limit /\ found[i] = sorted[i]
                /\ \A i \in DOMAIN sorted : i <= limit => i \in DOMAIN found
    <2>1. found = Capped(sorted, limit)
      BY <1>4, <1>11
    <2> QED
      BY <1>2, <1>9, <2>1, CappedIs
  <1>12. \A r \in ToSet(found) : MatchedOn(r, terms) # {}
    <2>1. CASE terms = <<>>
      BY <1>10, <2>1 DEF ToSet
    <2>2. CASE terms # <<>>
      <3>1. \A r \in ToSet(found) : r \in ToSet(sorted)
        BY <1>11, <2>2 DEF ToSet
      <3> QED
        BY <1>2, <1>7, <1>9, <3>1 DEF Hits, terms
    <2> QED
      BY <2>1, <2>2
  <1>13. ASSUME NEW r \in ToSet(records), r \notin ToSet(found), Admits(query, r), Scores(r, terms)
         PROVE  Len(found) = limit /\ \A f \in ToSet(found) : Score(r, terms) <= Score(f, terms)
    <2>1. terms # <<>> /\ r \in Recorded
      BY <1>7, <1>10, <1>13
    <2>2. r \in ToSet(sorted)
      BY <1>4, <1>9, <1>13 DEF Hits, terms
    <2>3. PICK i \in DOMAIN sorted : sorted[i] = r
      BY <2>2 DEF ToSet
    <2>4. ~(i <= limit)
      <3>1. i \in DOMAIN found => found[i] \in ToSet(found)
        BY DEF ToSet
      <3> QED
        BY <1>11, <1>13, <2>1, <2>3, <3>1
    <2>5. Len(sorted) \in Nat /\ DOMAIN sorted = 1..Len(sorted)
      BY <1>9, LenProperties
    <2>6. Len(found) = limit
      <3> DEFINE n == Len(sorted)
      <3>1. n \in Nat /\ i \in 1..n /\ limit \in Nat /\ ~(i <= limit)
            /\ Len(found) = (IF n < limit THEN n ELSE limit)
        BY <1>2, <1>11, <2>1, <2>4, <2>5
      <3> HIDE DEF n
      <3> QED
        BY ONLY <3>1
    <2>7. ASSUME NEW j \in DOMAIN found
          PROVE  Score(r, terms) <= Score(found[j], terms)
      <3>1. j \in DOMAIN sorted /\ j <= limit /\ found[j] = sorted[j]
        BY <1>11, <2>1
      <3>2. j < i
        BY <1>2, <2>4, <2>5, <3>1
      <3>3. ~(a[sorted[i]] < a[sorted[j]])
        <4>1. a[sorted[i]] < a[sorted[j]] => i < j
          BY <1>4, <3>1 DEF By
        <4> QED
          BY <2>5, <3>1, <3>2, <4>1
      <3>4. sorted[j] \in Recorded /\ sorted[i] \in Recorded
        BY <1>9, <3>1, ElementsIn
      <3>5. /\ a[sorted[i]] = -Score(r, terms) /\ a[sorted[j]] = -Score(found[j], terms)
            /\ Score(r, terms) \in Nat /\ Score(found[j], terms) \in Nat
        BY <1>2, <2>3, <3>1, <3>4 DEF a, NegScore
      <3> QED
        BY ONLY <3>3, <3>5
    <2> QED
      BY <2>6, <2>7 DEF ToSet
  <1> QED
    BY <1>8, <1>12, <1>13, Zenon DEF Searched, records, again, found, terms, limit

(* The invariant gives the property of searches.                           *)
LEMMA SearchesHold ==
  ASSUME CatalogAssumption, CatalogInv
  PROVE  SearchesAreReproducible
  <1>1. apis \in Seq(Api) /\ Answers
    BY DEF CatalogInv
  <1>2. ASSUME NEW r \in Request,
               answer = [asked |-> r, found |-> Match(RecordsOf(apis), r.method, r.path), of |-> apis]
        PROVE  ~Found("terms")
    <2>1. answer.asked = r
      BY <1>2
    <2>2. "terms" \notin DOMAIN r
      BY DEF CatalogAssumption
    <2> QED
      BY <2>1, <2>2 DEF Found
  <1>3. ASSUME NEW q \in Query,
               answer = [asked |-> q, found |-> Search(RecordsOf(apis), q), of |-> apis]
        PROVE  SearchesAreReproducible
    <2>1. /\ answer.asked = q /\ answer.of = apis
          /\ answer.found = Search(RecordsOf(apis), q)
      BY <1>3
    <2>2. Searched(apis, q, Search(RecordsOf(apis), q))
      BY <1>1, SearchAnswers
    <2>3. Searched(answer.of, answer.asked, answer.found)
      BY <2>1, <2>2
    <2> QED
      BY <2>3, Zenon DEF Searched, SearchesAreReproducible
  <1>4. answer = None => ~Found("terms")
    BY DEF Found
  <1> QED
    BY <1>1, <1>2, <1>3, <1>4 DEF Answers, SearchesAreReproducible

(* EndpointCatalog.search(): a search answers from the APIs as they are,   *)
(* not from a stale list; the order the APIs were imported in does not     *)
(* show when ids are told apart; every result matched on a field; and      *)
(* nothing that scores is left out unless the limit is reached by results  *)
(* that score as much.                                                     *)
THEOREM SearchesFindTheBest ==
  ASSUME CatalogAssumption
  PROVE  CatalogSpec => []SearchesAreReproducible
  <1>1. CatalogInit => CatalogInv
    BY CatalogStarts
  <1>2. CatalogInv /\ [CatalogNext]_catalogVars => CatalogInv'
    BY CatalogKeeps
  <1>3. CatalogInv => SearchesAreReproducible
    BY SearchesHold
  <1> QED
    BY <1>1, <1>2, <1>3, PTL DEF CatalogSpec

-----------------------------------------------------------------------------
(* What F makes of a sequence from its first element to its last.          *)
Run(F, start, s) ==
  LET run[k \in 0..Len(s)] == IF k = 0 THEN start ELSE F[run[k - 1]][s[k]]
  IN run[Len(s)]

(* A run has a value after each element.                                   *)
LEMMA RunTable ==
  ASSUME NEW F, NEW start, NEW s, Len(s) \in Nat
  PROVE  \E g : /\ Run(F, start, s) = g[Len(s)]
                /\ g[0] = start
                /\ \A k \in 1..Len(s) : g[k] = F[g[k - 1]][s[k]]
  <1> DEFINE Body(g, k) == IF k = 0 THEN start ELSE F[g[k - 1]][s[k]]
             T == {n \in Nat : \E g : g = [k \in 0..n |-> Body(g, k)]}
  <1>1. 0 \in T
    <2> DEFINE g == [k \in 0..0 |-> start]
    <2>1. g = [k \in 0..0 |-> Body(g, k)]
      OBVIOUS
    <2> QED
      BY <2>1
  <1>2. ASSUME NEW n \in Nat, n \in T
        PROVE  n + 1 \in T
    <2>1. PICK g : g = [k \in 0..n |-> Body(g, k)]
      BY <1>2
    <2> DEFINE h == [k \in 0..n + 1 |-> IF k \in 0..n THEN g[k] ELSE Body(g, k)]
    <2>2. \A k \in 0..n + 1 : k # 0 => k - 1 \in 0..n /\ h[k - 1] = g[k - 1]
      OBVIOUS
    <2>3. \A k \in 0..n : g[k] = Body(g, k)
      BY <2>1
    <2>4. \A k \in 0..n + 1 : h[k] = Body(h, k)
      BY <2>2, <2>3
    <2>5. h = [k \in 0..n + 1 |-> h[k]]
      OBVIOUS
    <2>6. h = [k \in 0..n + 1 |-> Body(h, k)]
      BY <2>4, <2>5
    <2> HIDE DEF h
    <2> QED
      BY <2>6, SMTT(60)
  <1>3. Len(s) \in T
    <2> HIDE DEF T
    <2>1. Nat \subseteq T
      BY <1>1, <1>2, Induction
    <2> QED
      BY <2>1
  <1> DEFINE p == CHOOSE g : g = [k \in 0..Len(s) |-> Body(g, k)]
  <1>4. p = [k \in 0..Len(s) |-> Body(p, k)]
    BY <1>3
  <1>5. Run(F, start, s) = p[Len(s)]
    BY DEF Run
  <1> HIDE DEF p
  <1>6. \A k \in 0..Len(s) : p[k] = Body(p, k)
    BY <1>4
  <1>7. p[0] = start /\ \A k \in 1..Len(s) : p[k] = F[p[k - 1]][s[k]]
    BY <1>6
  <1> QED
    BY <1>5, <1>7, Zenon

(* It starts at the start.                                                 *)
LEMMA RunEmpty ==
  ASSUME NEW F, NEW start
  PROVE  Run(F, start, <<>>) = start
  BY RunTable

(* It goes on with each element that is appended.                          *)
LEMMA RunAppend ==
  ASSUME NEW F, NEW start, NEW A, NEW s \in Seq(A), NEW x \in A
  PROVE  Run(F, start, Append(s, x)) = F[Run(F, start, s)][x]
  <1> DEFINE t == Append(s, x)
  <1>3. /\ t \in Seq(A) /\ Len(t) = Len(s) + 1 /\ Len(s) \in Nat
        /\ \A k \in 1..Len(s) : t[k] = s[k]
        /\ t[Len(s) + 1] = x
    BY AppendProperties
  <1> HIDE DEF t
  <1>12. Len(s) \in Nat /\ Len(t) \in Nat
    BY <1>3
  <1>4. PICK g : /\ Run(F, start, s) = g[Len(s)]
                 /\ g[0] = start
                 /\ \A k \in 1..Len(s) : g[k] = F[g[k - 1]][s[k]]
    BY ONLY <1>12, RunTable
  <1>5. PICK h : /\ Run(F, start, t) = h[Len(t)]
                 /\ h[0] = start
                 /\ \A k \in 1..Len(t) : h[k] = F[h[k - 1]][t[k]]
    BY ONLY <1>12, RunTable
  <1> DEFINE T == {n \in Nat : n <= Len(s) => h[n] = g[n]}
  <1>6. 0 \in T
    BY <1>4, <1>5
  <1>7. ASSUME NEW n \in Nat, n \in T
        PROVE  n + 1 \in T
    <2> SUFFICES ASSUME n + 1 <= Len(s)
                 PROVE  h[n + 1] = g[n + 1]
      OBVIOUS
    <2>1. n + 1 \in 1..Len(s) /\ n + 1 \in 1..Len(t) /\ (n + 1) - 1 = n
      BY <1>3
    <2>2. h[n] = g[n] /\ t[n + 1] = s[n + 1]
      BY <1>7, <1>3, <2>1
    <2> QED
      BY <1>4, <1>5, <2>1, <2>2
  <1> HIDE DEF T
  <1>8. Len(s) \in T
    BY <1>3, <1>6, <1>7, Induction
  <1>9. h[Len(s)] = g[Len(s)]
    BY <1>3, <1>8 DEF T
  <1>10. Len(s) + 1 \in 1..Len(t) /\ (Len(s) + 1) - 1 = Len(s)
    BY <1>3
  <1>11. h[Len(s) + 1] = F[h[Len(s)]][x]
    BY <1>3, <1>5, <1>10
  <1> QED
    BY <1>3, <1>4, <1>5, <1>9, <1>11 DEF t

(* A run stays in a set that the start is in and F keeps to.               *)
LEMMA RunTyped ==
  ASSUME NEW A, NEW T, NEW start \in T, NEW F \in [T -> [A -> T]], NEW s \in Seq(A)
  PROVE  Run(F, start, s) \in T
  <1> DEFINE U == {t \in Seq(A) : Run(F, start, t) \in T}
  <1>1. <<>> \in U
    BY RunEmpty, EmptySeq
  <1>2. ASSUME NEW t \in Seq(A), NEW x \in A, t \in U
        PROVE  Append(t, x) \in U
    <2>1. Append(t, x) \in Seq(A) /\ Run(F, start, Append(t, x)) = F[Run(F, start, t)][x]
      BY RunAppend, AppendProperties
    <2>2. Run(F, start, t) \in T
      BY <1>2
    <2> QED
      BY <2>1, <2>2
  <1> HIDE DEF U
  <1>3. Seq(A) \subseteq U
    BY <1>1, <1>2, SequenceInduction
  <1> QED
    BY <1>3 DEF U

(* The greatest of the first numbers is the last.                          *)
LEMMA GreatestPosition ==
  ASSUME NEW n \in Nat
  PROVE  /\ IsFiniteSet(1..n)
         /\ \A S \in SUBSET (1..n) : S # {} => Max(S) \in S
         /\ \A k \in 1..n : Max(1..k) = k /\ (1..k) \ {k} = 1..k - 1
  <1>1. IsFiniteSet(1..n)
    BY UpTo
  <1>2. ASSUME NEW S \in SUBSET (1..n), S # {}
        PROVE  Max(S) \in S /\ \A y \in S : Max(S) >= y
    <2>1. S \subseteq Nat /\ \A y \in S : y <= n
      OBVIOUS
    <2> QED
      BY <1>2, <2>1, BoundedMax
  <1>3. ASSUME NEW k \in 1..n
        PROVE  Max(1..k) = k /\ (1..k) \ {k} = 1..k - 1
    <2>1. (1..k) \in SUBSET (1..n) /\ k \in 1..k /\ 1..k # {}
      OBVIOUS
    <2>2. Max(1..k) \in 1..k /\ Max(1..k) >= k
      BY <1>2, <2>1
    <2> QED
      BY <2>2
  <1> QED
    BY <1>1, <1>2, <1>3

\* What FoldLeft() takes at a set of positions: the last, and then the rest.
Folds(w, F, start, s) ==
  \A S \in SUBSET (1..Len(s)) :
    w[S] = IF S = {} THEN start ELSE F[w[S \ {Max(S)}]][s[Max(S)]]

(* The recursion behind FoldLeft() has a solution.                         *)
LEMMA FoldsExist ==
  ASSUME NEW A, NEW T, NEW start \in T, NEW F \in [T -> [A -> T]], NEW s \in Seq(A)
  PROVE  \E g \in [SUBSET (1..Len(s)) -> T] : Folds(g, F, start, s)
  <1> DEFINE n == Len(s)
             D == 1..n
             c == [S \in SUBSET D |-> Max(S)]
             G == [a \in T \X D |-> F[a[1]][s[a[2]]]]
  <1>1. n \in Nat /\ \A i \in D : s[i] \in A
    BY LenProperties, ElementOfSeq
  <1>2. IsFiniteSet(D) /\ \A S \in SUBSET D : S # {} => Max(S) \in S
    BY <1>1, GreatestPosition
  <1>3. Picks(c, D)
    BY <1>2 DEF Picks
  <1> HIDE DEF D
  <1>4. G \in [T \X D -> T]
    BY <1>1
  <1>5. PICK g : IsFold(g, T, start, G, c, D)
    <2> HIDE DEF G, c
    <2> QED
      BY <1>2, <1>3, <1>4, FoldExists
  <1>6. g \in [SUBSET D -> T]
    BY <1>5 DEF IsFold
  <1>7. ASSUME NEW S \in SUBSET D, S # {}
        PROVE  g[S] = F[g[S \ {Max(S)}]][s[Max(S)]]
    <2>1. c[S] = Max(S) /\ c[S] \in D
      BY <1>2, <1>7
    <2>2. g[S \ {c[S]}] \in T /\ g[S] = G[<<g[S \ {c[S]}], c[S]>>]
      BY <1>5, <1>6, <1>7 DEF IsFold
    <2> HIDE DEF c
    <2>3. G[<<g[S \ {c[S]}], c[S]>>] = F[g[S \ {c[S]}]][s[c[S]]]
      BY <2>1, <2>2
    <2> QED
      BY <2>1, <2>2, <2>3
  <1>8. \A S \in SUBSET D : S = {} => g[S] = start
    BY <1>5 DEF IsFold
  <1>9. Folds(g, F, start, s)
    BY <1>7, <1>8 DEF Folds, D
  <1> QED
    BY <1>6, <1>9 DEF D

(* A solution of it ends as the run does.                                  *)
LEMMA FoldsRun ==
  ASSUME NEW F, NEW start, NEW s, Len(s) \in Nat, NEW w, Folds(w, F, start, s)
  PROVE  w[1..Len(s)] = Run(F, start, s)
  <1>1. PICK g : /\ Run(F, start, s) = g[Len(s)]
                 /\ g[0] = start
                 /\ \A k \in 1..Len(s) : g[k] = F[g[k - 1]][s[k]]
    BY RunTable
  <1> DEFINE n == Len(s)
             D == 1..n
             N == {k \in Nat : k <= n => w[1..k] = g[k]}
  <1>2. /\ \A S \in SUBSET D : S # {} => Max(S) \in S
        /\ \A k \in D : Max(1..k) = k /\ (1..k) \ {k} = 1..k - 1
    BY GreatestPosition
  <1>3. 0 \in N
    <2>1. 1..0 = {} /\ {} \in SUBSET D
      OBVIOUS
    <2> QED
      BY <1>1, <2>1 DEF Folds
  <1>4. ASSUME NEW k \in Nat, k \in N
        PROVE  k + 1 \in N
    <2> SUFFICES ASSUME k + 1 <= n
                 PROVE  w[1..k + 1] = g[k + 1]
      OBVIOUS
    <2>1. k + 1 \in D /\ (k + 1) - 1 = k /\ 1 \in 1..k + 1
      OBVIOUS
    <2>2. (1..k + 1) \in SUBSET D
      OBVIOUS
    <2>3. Max(1..k + 1) = k + 1 /\ (1..k + 1) \ {k + 1} = 1..k
      BY <1>2, <2>1
    <2>4. w[1..k + 1] = F[w[1..k]][s[k + 1]]
      BY <2>1, <2>2, <2>3 DEF Folds
    <2>5. w[1..k] = g[k]
      BY <1>4
    <2> QED
      BY <1>1, <2>1, <2>4, <2>5
  <1> HIDE DEF N
  <1>5. n \in N
    BY <1>3, <1>4, Induction
  <1> QED
    BY <1>1, <1>5 DEF N

(* What is as a solution of it where it has a value in the set that F      *)
(* keeps to is a solution of it.                                           *)
LEMMA FoldsTyped ==
  ASSUME NEW A, NEW T, NEW start \in T, NEW F \in [T -> [A -> T]], NEW s \in Seq(A),
         NEW w, \A S \in SUBSET (1..Len(s)) :
                  /\ S = {} => w[S] = start
                  /\ S # {} /\ w[S \ {Max(S)}] \in T => w[S] = F[w[S \ {Max(S)}]][s[Max(S)]]
  PROVE  Folds(w, F, start, s)
  <1> DEFINE n == Len(s)
             D == 1..n
             c == [S \in SUBSET D |-> Max(S)]
  <1>1. n \in Nat /\ \A i \in D : s[i] \in A
    BY LenProperties, ElementOfSeq
  <1>2. IsFiniteSet(D) /\ \A S \in SUBSET D : S # {} => Max(S) \in S
    BY <1>1, GreatestPosition
  <1>3. Picks(c, D)
    BY <1>2 DEF Picks
  <1>4. \A S \in SUBSET D : S = {} => w[S] \in T
    OBVIOUS
  <1>5. ASSUME NEW S \in SUBSET D, S # {}, w[S \ {c[S]}] \in T
        PROVE  w[S] \in T
    <2>1. c[S] = Max(S) /\ s[Max(S)] \in A
      BY <1>1, <1>2, <1>5
    <2>2. w[S] = F[w[S \ {Max(S)}]][s[Max(S)]]
      BY <1>5, <2>1
    <2>3. w[S \ {Max(S)}] \in T /\ s[Max(S)] \in A
      BY <1>5, <2>1
    <2> QED
      BY ONLY <2>2, <2>3, F \in [T -> [A -> T]]
  <1>6. \A S \in SUBSET D : w[S] \in T
    <2> HIDE DEF c, D
    <2> QED
      BY <1>2, <1>3, <1>4, <1>5, FoldTyped
  <1>7. \A S \in SUBSET D : S \ {Max(S)} \in SUBSET D
    OBVIOUS
  <1> QED
    BY <1>6, <1>7 DEF Folds

-----------------------------------------------------------------------------
\* What an element adds to a number of bytes.
Adds(A) == [n \in Nat |-> [x \in A |-> n + x.bytes]]

(* The bytes of a sequence are what its elements add.                      *)
LEMMA BytesRun ==
  ASSUME NEW A, \A x \in A : x.bytes \in Nat, NEW s \in Seq(A)
  PROVE  Bytes(s) = Run(Adds(A), 0, s)
  <1> DEFINE D == 1..Len(s)
             F == Adds(A)
             Plus(n, i) == n + s[i].bytes
             w == CHOOSE g : g = [S \in SUBSET D |->
                    IF S = {} THEN 0 ELSE Plus(g[S \ {Max(S)}], Max(S))]
  <1>1. /\ Len(s) \in Nat /\ DOMAIN s = D
        /\ \A i \in D : s[i] \in A
        /\ \A S \in SUBSET D : S # {} => Max(S) \in D
    <2>1. Len(s) \in Nat /\ DOMAIN s = D /\ \A i \in D : s[i] \in A
      BY LenProperties, ElementOfSeq
    <2> QED
      BY <2>1, GreatestPosition
  <1>2. Bytes(s) = w[D]
    BY <1>1 DEF Bytes, FoldLeft, MapThenFoldSet
  <1>3. F \in [Nat -> [A -> Nat]]
    BY DEF Adds
  <1>4. \A n \in Nat, i \in D : F[n][s[i]] = Plus(n, i)
    BY <1>1 DEF Adds
  <1> HIDE DEF F, Plus, D
  <1>5. PICK g \in [SUBSET D -> Nat] : Folds(g, F, 0, s)
    BY <1>3, FoldsExist DEF D
  <1>6. ASSUME NEW S \in SUBSET D
        PROVE  g[S] = IF S = {} THEN 0 ELSE Plus(g[S \ {Max(S)}], Max(S))
    <2>1. S \ {Max(S)} \in SUBSET D
      OBVIOUS
    <2>2. g[S \ {Max(S)}] \in Nat
      BY <2>1
    <2>3. g[S] = IF S = {} THEN 0 ELSE F[g[S \ {Max(S)}]][s[Max(S)]]
      BY <1>5 DEF Folds, D
    <2> QED
      BY <1>1, <1>4, <2>2, <2>3
  <1>7. g = [S \in SUBSET D |-> IF S = {} THEN 0 ELSE Plus(g[S \ {Max(S)}], Max(S))]
    <2>1. g = [S \in SUBSET D |-> g[S]]
      OBVIOUS
    <2> QED
      BY <1>6, <2>1
  <1>8. w = [S \in SUBSET D |-> IF S = {} THEN 0 ELSE Plus(w[S \ {Max(S)}], Max(S))]
    BY <1>7
  <1> HIDE DEF w
  <1>9. ASSUME NEW S \in SUBSET D
        PROVE  /\ S = {} => w[S] = 0
               /\ S # {} /\ w[S \ {Max(S)}] \in Nat => w[S] = F[w[S \ {Max(S)}]][s[Max(S)]]
    <2>1. w[S] = IF S = {} THEN 0 ELSE Plus(w[S \ {Max(S)}], Max(S))
      BY <1>8
    <2> QED
      BY <1>1, <1>4, <2>1
  <1>10. Folds(w, F, 0, s)
    BY <1>3, <1>9, FoldsTyped DEF D
  <1> QED
    BY <1>1, <1>2, <1>10, FoldsRun DEF F, D

(* So they start at none, and each element adds its own.                   *)
LEMMA BytesAppend ==
  ASSUME NEW A, \A x \in A : x.bytes \in Nat
  PROVE  /\ Bytes(<<>>) = 0
         /\ \A s \in Seq(A) : Bytes(s) \in Nat
         /\ \A s \in Seq(A), x \in A : Bytes(Append(s, x)) = Bytes(s) + x.bytes
  <1>1. <<>> \in Seq(A) /\ Bytes(<<>>) = 0
    BY BytesRun, RunEmpty, EmptySeq
  <1>2. Adds(A) \in [Nat -> [A -> Nat]]
    BY DEF Adds
  <1>3. \A s \in Seq(A) : Bytes(s) \in Nat
    <2> SUFFICES ASSUME NEW s \in Seq(A)
                 PROVE  Bytes(s) \in Nat
      OBVIOUS
    <2>1. Bytes(s) = Run(Adds(A), 0, s)
      BY BytesRun
    <2>2. Run(Adds(A), 0, s) \in Nat
      BY <1>2, RunTyped
    <2> QED
      BY <2>1, <2>2
  <1>4. ASSUME NEW s \in Seq(A), NEW x \in A
        PROVE  Bytes(Append(s, x)) = Bytes(s) + x.bytes
    <2>1. Append(s, x) \in Seq(A)
      BY AppendProperties
    <2>2. Bytes(Append(s, x)) = Adds(A)[Bytes(s)][x]
      <3>1. Bytes(s) = Run(Adds(A), 0, s) /\ Bytes(Append(s, x)) = Run(Adds(A), 0, Append(s, x))
        BY <2>1, BytesRun
      <3>2. Run(Adds(A), 0, Append(s, x)) = Adds(A)[Run(Adds(A), 0, s)][x]
        BY ONLY s \in Seq(A), x \in A, RunAppend
      <3> QED
        BY <3>1, <3>2
    <2>3. Bytes(s) \in Nat
      BY <1>3
    <2> QED
      BY <2>2, <2>3 DEF Adds
  <1> QED
    BY <1>1, <1>3, <1>4

-----------------------------------------------------------------------------
\* What is taken once an element has been looked at.
Takes(A, most, bytes, first) ==
  [taken \in Seq(A) |-> [x \in A |->
     IF Fits(taken, x, most, bytes, first) THEN Append(taken, x) ELSE taken]]

(* What is taken of a sequence is taken element by element.                *)
LEMMA FilledRun ==
  ASSUME NEW A, NEW s \in Seq(A), NEW most \in Nat, NEW bytes \in Nat, NEW first \in BOOLEAN
  PROVE  Filled(s, most, bytes, first) = Run(Takes(A, most, bytes, first), <<>>, s)
  <1> DEFINE D == 1..Len(s)
             T == Seq(A)
             F == Takes(A, most, bytes, first)
             Take(taken, i) ==
               IF Fits(taken, s[i], most, bytes, first) THEN Append(taken, s[i]) ELSE taken
             w == CHOOSE g : g = [S \in SUBSET D |->
                    IF S = {} THEN <<>> ELSE Take(g[S \ {Max(S)}], Max(S))]
  <1>1. /\ Len(s) \in Nat /\ DOMAIN s = D
        /\ \A i \in D : s[i] \in A
        /\ \A S \in SUBSET D : S # {} => Max(S) \in D
    <2>1. Len(s) \in Nat /\ DOMAIN s = D /\ \A i \in D : s[i] \in A
      BY LenProperties, ElementOfSeq
    <2> QED
      BY <2>1, GreatestPosition
  <1>2. Filled(s, most, bytes, first) = w[D]
    BY <1>1 DEF Filled, FoldLeft, MapThenFoldSet
  <1>3. F \in [T -> [A -> T]] /\ <<>> \in T
    BY AppendProperties, EmptySeq DEF Takes
  <1>4. \A t \in T, i \in D : F[t][s[i]] = Take(t, i)
    BY <1>1 DEF Takes
  <1> HIDE DEF F, Take, D, T
  <1>5. PICK g \in [SUBSET D -> T] : Folds(g, F, <<>>, s)
    BY <1>3, FoldsExist DEF D
  <1>6. ASSUME NEW S \in SUBSET D
        PROVE  g[S] = IF S = {} THEN <<>> ELSE Take(g[S \ {Max(S)}], Max(S))
    <2>1. S \ {Max(S)} \in SUBSET D
      OBVIOUS
    <2>2. g[S \ {Max(S)}] \in T
      BY <2>1
    <2>3. g[S] = IF S = {} THEN <<>> ELSE F[g[S \ {Max(S)}]][s[Max(S)]]
      BY <1>5 DEF Folds, D
    <2> QED
      BY <1>1, <1>4, <2>2, <2>3
  <1>7. g = [S \in SUBSET D |-> IF S = {} THEN <<>> ELSE Take(g[S \ {Max(S)}], Max(S))]
    <2>1. g = [S \in SUBSET D |-> g[S]]
      OBVIOUS
    <2> QED
      BY <1>6, <2>1
  <1>8. w = [S \in SUBSET D |-> IF S = {} THEN <<>> ELSE Take(w[S \ {Max(S)}], Max(S))]
    BY <1>7
  <1> HIDE DEF w
  <1>9. ASSUME NEW S \in SUBSET D
        PROVE  /\ S = {} => w[S] = <<>>
               /\ S # {} /\ w[S \ {Max(S)}] \in T => w[S] = F[w[S \ {Max(S)}]][s[Max(S)]]
    <2>1. w[S] = IF S = {} THEN <<>> ELSE Take(w[S \ {Max(S)}], Max(S))
      BY <1>8
    <2> QED
      BY <1>1, <1>4, <2>1
  <1>10. Folds(w, F, <<>>, s)
    BY <1>3, <1>9, FoldsTyped DEF D
  <1> QED
    BY <1>1, <1>2, <1>10, FoldsRun DEF F, D

(* So nothing is taken of nothing, and an element is taken if it fits.     *)
LEMMA FilledAppend ==
  ASSUME NEW A, NEW most \in Nat, NEW bytes \in Nat, NEW first \in BOOLEAN
  PROVE  /\ Filled(<<>>, most, bytes, first) = <<>>
         /\ \A s \in Seq(A), x \in A :
              LET taken == Filled(s, most, bytes, first) IN
              /\ taken \in Seq(A)
              /\ Filled(Append(s, x), most, bytes, first)
                 = IF Fits(taken, x, most, bytes, first) THEN Append(taken, x) ELSE taken
  <1> DEFINE F == Takes(A, most, bytes, first)
             T == Seq(A)
  <1>1. F \in [T -> [A -> T]] /\ <<>> \in T
    BY AppendProperties, EmptySeq DEF Takes
  <1>2. \A t \in T, x \in A : F[t][x] = IF Fits(t, x, most, bytes, first) THEN Append(t, x) ELSE t
    BY DEF Takes
  <1>3. Filled(<<>>, most, bytes, first) = <<>>
    <2>2. <<>> \in Seq(A)
      BY EmptySeq
    <2>1. Filled(<<>>, most, bytes, first) = Run(F, <<>>, <<>>)
      BY ONLY <2>2, FilledRun DEF F
    <2> HIDE DEF F
    <2> QED
      BY ONLY <2>1, RunEmpty
  <1> HIDE DEF F
  <1>4. ASSUME NEW s \in Seq(A), NEW x \in A
        PROVE  /\ Filled(s, most, bytes, first) \in Seq(A)
               /\ Filled(Append(s, x), most, bytes, first) = F[Filled(s, most, bytes, first)][x]
    <2>1. Append(s, x) \in Seq(A)
      BY AppendProperties
    <2>2. Filled(s, most, bytes, first) = Run(F, <<>>, s)
      BY FilledRun DEF F
    <2>3. Filled(Append(s, x), most, bytes, first) = Run(F, <<>>, Append(s, x))
      BY <2>1, FilledRun DEF F
    <2>4. Run(F, <<>>, Append(s, x)) = F[Run(F, <<>>, s)][x]
      BY ONLY s \in Seq(A), x \in A, RunAppend
    <2>5. Run(F, <<>>, s) \in T
      BY <1>1, RunTyped
    <2> QED
      BY <2>2, <2>3, <2>4, <2>5
  <1> QED
    BY <1>2, <1>3, <1>4

(* A sequence that grows by an element holds it besides what it held.      *)
LEMMA AppendHolds ==
  ASSUME NEW A, NEW s \in Seq(A), NEW x \in A
  PROVE  /\ ToSet(Append(s, x)) = ToSet(s) \cup {x}
         /\ Append(s, x) \in Seq(A) /\ Len(Append(s, x)) = Len(s) + 1
         /\ DOMAIN Append(s, x) = 1..Len(s) + 1 /\ DOMAIN s = 1..Len(s) /\ Len(s) \in Nat
         /\ \A i \in 1..Len(s) : Append(s, x)[i] = s[i]
         /\ Append(s, x)[Len(s) + 1] = x
         /\ IsInjective(Append(s, x)) => IsInjective(s) /\ x \notin ToSet(s)
         /\ IsInjective(s) /\ x \notin ToSet(s) => IsInjective(Append(s, x))
  <1> DEFINE t == Append(s, x)
             n == Len(s)
  <1>1. /\ t \in Seq(A) /\ Len(t) = n + 1 /\ n \in Nat
        /\ DOMAIN t = 1..n + 1 /\ DOMAIN s = 1..n
        /\ \A i \in 1..n : t[i] = s[i]
        /\ t[n + 1] = x
    BY AppendProperties, LenProperties
  <1> HIDE DEF t, n
  <1>2. \A i \in 1..n + 1 : i \in 1..n \/ i = n + 1
    BY <1>1
  <1>3. 1..n \subseteq 1..n + 1 /\ n + 1 \in 1..n + 1 /\ \A i \in 1..n : i # n + 1
    BY <1>1
  <1>4. ToSet(t) = ToSet(s) \cup {x}
    BY <1>1, <1>2, <1>3 DEF ToSet
  <1>5. IsInjective(t) => IsInjective(s) /\ x \notin ToSet(s)
    BY <1>1, <1>3 DEF IsInjective, ToSet
  <1>6. ASSUME IsInjective(s), x \notin ToSet(s)
        PROVE  IsInjective(t)
    <2>1. \A i, j \in 1..n : t[i] = t[j] => i = j
      BY <1>1, <1>6 DEF IsInjective
    <2>2. \A i \in 1..n : t[i] # x
      BY <1>1, <1>6 DEF ToSet
    <2> QED
      BY <1>1, <1>2, <2>1, <2>2 DEF IsInjective
  <1> QED
    BY <1>1, <1>4, <1>5, <1>6 DEF t, n

\* What is taken so far; where nothing is, no one may be.
FilledSoFar(taken, ranked, most, bytes, first) ==
  /\ ToSet(taken) \subseteq ToSet(ranked)
  /\ InBudget(taken, most, bytes, first)
  /\ NothingHasRoom(taken, ToSet(ranked) \ ToSet(taken), most, bytes)
  /\ NothingOvertakes(taken, ranked)
  /\ first /\ taken = <<>> /\ ranked # <<>> => most = 0

(* An element that does not fit is left out for good reason.               *)
LEMMA LeavesOut ==
  ASSUME NEW A, \A x \in A : x.bytes \in Nat, NEW most \in Nat, NEW bytes \in Nat,
         NEW first \in BOOLEAN, NEW r \in Seq(A), NEW x \in A, IsInjective(Append(r, x)),
         NEW taken \in Seq(A), FilledSoFar(taken, r, most, bytes, first),
         ~Fits(taken, x, most, bytes, first)
  PROVE  FilledSoFar(taken, Append(r, x), most, bytes, first)
  <1> DEFINE q == Append(r, x)
             n == Len(r)
  <1>1. /\ ToSet(q) = ToSet(r) \cup {x} /\ x \notin ToSet(r)
        /\ DOMAIN q = 1..n + 1 /\ DOMAIN r = 1..n /\ n \in Nat
        /\ \A i \in 1..n : q[i] = r[i]
        /\ q[n + 1] = x
    BY AppendHolds
  <1>2. Len(taken) \in Nat /\ Bytes(taken) \in Nat /\ x.bytes \in Nat
    BY BytesAppend, LenProperties
  <1>3. x \notin ToSet(taken) /\ ToSet(taken) \subseteq ToSet(q)
    BY <1>1 DEF FilledSoFar
  <1>4. Len(taken) = most \/ Bytes(taken) + x.bytes > bytes
    BY <1>2 DEF Fits, FilledSoFar, InBudget
  <1> HIDE DEF q, n
  <1>5. NothingHasRoom(taken, ToSet(q) \ ToSet(taken), most, bytes)
    BY <1>1, <1>4 DEF FilledSoFar, NothingHasRoom
  <1>6. NothingOvertakes(taken, q)
    <2> SUFFICES ASSUME NEW i \in 1..n + 1, NEW j \in 1..n + 1, i < j,
                        q[i] \notin ToSet(taken), q[j] \in ToSet(taken)
                 PROVE  q[j].bytes < q[i].bytes
      BY <1>1 DEF NothingOvertakes
    <2>1. j # n + 1
      BY <1>1, <1>3
    <2>2. i \in 1..n /\ j \in 1..n
      BY <1>1, <2>1
    <2> QED
      BY <1>1, <2>2 DEF FilledSoFar, NothingOvertakes
  <1>7. ASSUME first, taken = <<>>
        PROVE  most = 0
    <2>1. Len(taken) = 0
      BY <1>7
    <2> QED
      BY <1>7, <2>1 DEF Fits
  <1> QED
    BY <1>3, <1>5, <1>6, <1>7 DEF FilledSoFar, q

(* An element that fits is taken in its turn.                              *)
LEMMA TakesUp ==
  ASSUME NEW A, \A x \in A : x.bytes \in Nat, NEW most \in Nat, NEW bytes \in Nat,
         NEW first \in BOOLEAN, NEW r \in Seq(A), NEW x \in A, IsInjective(Append(r, x)),
         NEW taken \in Seq(A), FilledSoFar(taken, r, most, bytes, first),
         Fits(taken, x, most, bytes, first)
  PROVE  FilledSoFar(Append(taken, x), Append(r, x), most, bytes, first)
  <1> DEFINE q == Append(r, x)
             t == Append(taken, x)
             n == Len(r)
  <1>1. /\ ToSet(q) = ToSet(r) \cup {x} /\ x \notin ToSet(r)
        /\ DOMAIN q = 1..n + 1 /\ DOMAIN r = 1..n /\ n \in Nat
        /\ \A i \in 1..n : q[i] = r[i]
        /\ q[n + 1] = x
    BY AppendHolds
  <1>2. /\ Len(taken) \in Nat /\ Bytes(taken) \in Nat /\ x.bytes \in Nat
        /\ Len(t) = Len(taken) + 1 /\ ToSet(t) = ToSet(taken) \cup {x}
        /\ Bytes(t) = Bytes(taken) + x.bytes
    BY BytesAppend, AppendHolds
  <1>3. \A y \in ToSet(r) : y.bytes \in Nat
    <2>1. \A i \in 1..n : r[i] \in A
      BY ElementOfSeq, <1>1
    <2> QED
      BY <1>1, <2>1 DEF ToSet
  <1>4. taken = <<>> => Len(taken) = 0
    OBVIOUS
  <1>5. t # <<>>
    BY <1>2
  <1> HIDE DEF q, n, t
  <1>6. InBudget(t, most, bytes, first)
    BY <1>2, <1>4 DEF Fits, InBudget
  <1>7. ASSUME NEW y \in ToSet(r) \ ToSet(taken)
        PROVE  Bytes(taken) + y.bytes > bytes /\ x.bytes < y.bytes
    <2>1. Len(taken) = most \/ Bytes(taken) + y.bytes > bytes
      BY <1>7 DEF FilledSoFar, NothingHasRoom
    <2>2. Len(taken) < most
      BY DEF Fits
    <2>3. Bytes(taken) + y.bytes > bytes
      BY <1>2, <2>1, <2>2
    <2>4. ~(first /\ taken = <<>>)
      <3>1. r # <<>>
        BY <1>1, <1>7 DEF ToSet
      <3> QED
        BY <1>2, <2>2, <3>1 DEF FilledSoFar
    <2>5. Bytes(taken) + x.bytes <= bytes
      BY <2>4 DEF Fits
    <2> QED
      BY <1>2, <1>3, <2>3, <2>5
  <1>8. NothingHasRoom(t, ToSet(q) \ ToSet(t), most, bytes)
    BY <1>1, <1>2, <1>3, <1>7 DEF NothingHasRoom
  <1>9. NothingOvertakes(t, q)
    <2> SUFFICES ASSUME NEW i \in 1..n + 1, NEW j \in 1..n + 1, i < j,
                        q[i] \notin ToSet(t), q[j] \in ToSet(t)
                 PROVE  q[j].bytes < q[i].bytes
      BY <1>1 DEF NothingOvertakes
    <2>1. i \in 1..n /\ q[i] = r[i] /\ r[i] \notin ToSet(taken)
      BY <1>1, <1>2
    <2>2. r[i] \in ToSet(r)
      BY <1>1, <2>1 DEF ToSet
    <2>3. CASE j = n + 1
      BY <1>1, <1>7, <2>1, <2>2, <2>3
    <2>4. CASE j # n + 1
      <3>1. j \in 1..n /\ q[j] = r[j]
        BY <1>1, <2>4
      <3>2. r[j] \in ToSet(r)
        BY <1>1, <3>1 DEF ToSet
      <3>3. r[j] \in ToSet(taken)
        BY <1>1, <1>2, <3>1, <3>2
      <3> QED
        BY <1>1, <2>1, <3>1, <3>3 DEF FilledSoFar, NothingOvertakes
    <2> QED
      BY <2>3, <2>4
  <1>10. ToSet(t) \subseteq ToSet(q)
    BY <1>1, <1>2 DEF FilledSoFar
  <1> QED
    BY <1>5, <1>6, <1>8, <1>9, <1>10 DEF FilledSoFar, q, t

(* So what is taken of a ranking is in budget, and what is left out has no *)
(* room and made room for nothing that ranks below it and is as large.     *)
LEMMA FilledIs ==
  ASSUME NEW A, \A x \in A : x.bytes \in Nat, NEW most \in Nat, NEW bytes \in Nat,
         NEW first \in BOOLEAN, NEW ranked \in Seq(A), IsInjective(ranked)
  PROVE  FilledSoFar(Filled(ranked, most, bytes, first), ranked, most, bytes, first)
  <1> DEFINE Got(r) == Filled(r, most, bytes, first)
             T == {r \in Seq(A) : IsInjective(r) => FilledSoFar(Got(r), r, most, bytes, first)}
  <1>1. <<>> \in T
    <2>1. Got(<<>>) = <<>> /\ <<>> \in Seq(A)
      BY FilledAppend, EmptySeq
    <2>2. Bytes(<<>>) = 0
      BY BytesAppend
    <2>3. ToSet(<<>>) = {} /\ Len(<<>>) = 0 /\ DOMAIN <<>> = {}
      BY DEF ToSet
    <2> HIDE DEF Got
    <2>4. FilledSoFar(<<>>, <<>>, most, bytes, first)
      BY <2>2, <2>3 DEF FilledSoFar, InBudget, NothingHasRoom, NothingOvertakes
    <2> QED
      BY <2>1, <2>4
  <1>2. ASSUME NEW r \in Seq(A), NEW x \in A, r \in T
        PROVE  Append(r, x) \in T
    <2>1. Append(r, x) \in Seq(A) /\ (IsInjective(Append(r, x)) => IsInjective(r))
      BY AppendHolds
    <2>2. /\ Got(r) \in Seq(A)
          /\ Got(Append(r, x)) = IF Fits(Got(r), x, most, bytes, first) THEN Append(Got(r), x) ELSE Got(r)
      BY ONLY r \in Seq(A), x \in A, FilledAppend DEF Got
    <2> HIDE DEF Got
    <2> SUFFICES ASSUME IsInjective(Append(r, x))
                 PROVE  FilledSoFar(Got(Append(r, x)), Append(r, x), most, bytes, first)
      BY <2>1
    <2>3. FilledSoFar(Got(r), r, most, bytes, first)
      BY <1>2, <2>1
    <2>4. CASE Fits(Got(r), x, most, bytes, first)
      BY <2>2, <2>3, <2>4, TakesUp
    <2>5. CASE ~Fits(Got(r), x, most, bytes, first)
      BY <2>2, <2>3, <2>5, LeavesOut
    <2> QED
      BY <2>4, <2>5
  <1> HIDE DEF T
  <1>3. Seq(A) \subseteq T
    BY <1>1, <1>2, SequenceInduction
  <1> QED
    BY <1>3 DEF T

-----------------------------------------------------------------------------
(* Choosing for each place the element that has as many before it puts a   *)
(* set in order.                                                           *)
LEMMA ChosenInOrder ==
  ASSUME NEW S, IsFiniteSet(S), NEW a, NEW b, NEW c, Orders(S, a, b, c), NEW r, NEW before,
         r = [i \in 1..Cardinality(S) |-> CHOOSE x \in S : Cardinality(before[x]) = i - 1],
         \A x \in S : before[x] = {y \in S : Less(a, b, c, y, x)}
  PROVE  InOrder(r, S, a, b, c)
  <1> DEFINE Pl(x) == Place(S, a, b, c, x)
             n == Cardinality(S)
  <1>1. \A x \in S : Cardinality(before[x]) = Pl(x)
    BY DEF Place
  <1>2. r = [i \in 1..n |-> CHOOSE x \in S : Cardinality(before[x]) = i - 1]
    OBVIOUS
  <1> HIDE DEF Pl, n
  <1>3. ASSUME NEW i \in 1..n, NEW x \in S, Pl(x) = i - 1
        PROVE  r[i] \in S /\ Pl(r[i]) = i - 1
    <2>1. r[i] = CHOOSE y \in S : Cardinality(before[y]) = i - 1
      BY <1>2
    <2>2. \E y \in S : Cardinality(before[y]) = i - 1
      BY <1>1, <1>3
    <2>3. r[i] \in S /\ Cardinality(before[r[i]]) = i - 1
      BY <2>1, <2>2
    <2> QED
      BY <1>1, <2>3
  <1>4. r = [i \in 1..n |-> r[i]]
    BY <1>2
  <1> QED
    BY <1>3, <1>4, RankedIs DEF Pl, n

(* What something scores, for each that scores.                            *)
Scoring(S, score) == {e \in {[of |-> s, score |-> score[s]] : s \in S} : e.score > 0}

\* Each that scores once, those that score more before those that score less.
ByScore(ranked, S, score) ==
  /\ ranked \in Seq(S) /\ IsInjective(ranked)
  /\ ToSet(ranked) = {s \in S : score[s] > 0}
  /\ \A i, j \in DOMAIN ranked : score[ranked[i]] > score[ranked[j]] => i < j

(* In an order of what scores, each element stands once, those that score  *)
(* more before those that score less.                                      *)
LEMMA ScoredInOrder ==
  ASSUME NEW S, NEW score \in [S -> Int], NEW a, NEW b, NEW c, NEW order,
         \A e \in Scoring(S, score) : a[e] = -e.score,
         InOrder(order, Scoring(S, score), a, b, c),
         NEW ranked, ranked = [i \in DOMAIN order |-> order[i].of]
  PROVE  ByScore(ranked, S, score)
  <1> DEFINE E == Scoring(S, score)
             n == Len(order)
  <1>1. \A e \in E : e.of \in S /\ e.score = score[e.of] /\ score[e.of] > 0
    BY DEF Scoring
  <1>2. \A x, y \in E : x.of = y.of => x = y
    BY DEF Scoring
  <1>3. ASSUME NEW s \in S, score[s] > 0
        PROVE  \E e \in E : e.of = s
    <2> DEFINE e == [of |-> s, score |-> score[s]]
    <2>1. e \in E
      BY <1>3 DEF Scoring
    <2> QED
      BY <2>1
  <1>4. /\ n \in Nat /\ DOMAIN order = 1..n /\ ToSet(order) = E /\ IsInjective(order)
        /\ \A i \in 1..n : order[i] \in E
    BY LenProperties, ElementOfSeq DEF InOrder
  <1>5. \A i, j \in 1..n : -order[i].score < -order[j].score => i < j
    BY <1>4 DEF InOrder, Less
  <1> HIDE DEF E, n
  <1>6. DOMAIN ranked = 1..n /\ \A i \in 1..n : ranked[i] = order[i].of /\ ranked[i] \in S
    BY <1>1, <1>4
  <1>7. ranked \in Seq(S) /\ Len(ranked) = n
    BY <1>4, <1>6
  <1>8. IsInjective(ranked)
    BY <1>2, <1>4, <1>6 DEF IsInjective
  <1>9. ToSet(ranked) = {s \in S : score[s] > 0}
    <2>1. \A s \in ToSet(ranked) : s \in S /\ score[s] > 0
      BY <1>1, <1>4, <1>6 DEF ToSet
    <2>2. ASSUME NEW s \in S, score[s] > 0
          PROVE  s \in ToSet(ranked)
      <3>1. PICK e \in E : e.of = s
        BY <1>3, <2>2
      <3>2. PICK i \in 1..n : order[i] = e
        BY <1>4 DEF ToSet
      <3> QED
        BY <1>6, <3>1, <3>2 DEF ToSet
    <2> QED
      BY <2>1, <2>2
  <1>10. ASSUME NEW i \in 1..n, NEW j \in 1..n, score[ranked[i]] > score[ranked[j]]
         PROVE  i < j
    <2>1. /\ order[i].score = score[ranked[i]] /\ order[j].score = score[ranked[j]]
          /\ score[ranked[i]] \in Int /\ score[ranked[j]] \in Int
      BY <1>1, <1>4, <1>6
    <2> QED
      BY <1>5, <1>10, <2>1
  <1> QED
    BY <1>6, <1>7, <1>8, <1>9, <1>10 DEF ByScore

-----------------------------------------------------------------------------
(* A skill's score counts what it has to do with the run; one that is      *)
(* asked for has at least a thousand, one that always applies has some,    *)
(* and one for what the project lacks has none.                            *)
LEMMA SkillScoreCounts ==
  ASSUME NEW s, IsSkill(s), NEW context
  PROVE  /\ SkillScore(s, context) \in Nat
         /\ s.name \in context.requested => SkillScore(s, context) >= 1000
         /\ s.always /\ s.requires = {} => SkillScore(s, context) > 0
         /\ NotFor(s, context) => SkillScore(s, context) = 0
  <1> DEFINE hits == Cardinality({i \in DOMAIN s.words : s.words[i] \in context.terms})
             asked == IF s.name \in context.requested THEN 1000 ELSE 0
             always == IF s.always THEN 500 ELSE 0
             has == Cardinality(s.requires \cap context.dependencies)
             task == IF context.task \in s.tasks THEN 30 ELSE 0
             exts == Cardinality(s.extensions \cap context.extensions)
             keys == Cardinality(s.keywords \cap context.terms)
             said == IF hits < 3 THEN hits ELSE 3
  <1>1. has \in Nat /\ exts \in Nat /\ keys \in Nat /\ hits \in Nat
    <2>1. /\ IsFiniteSet(s.requires \cap context.dependencies)
          /\ IsFiniteSet(s.extensions \cap context.extensions)
          /\ IsFiniteSet(s.keywords \cap context.terms)
          /\ IsFiniteSet({i \in DOMAIN s.words : s.words[i] \in context.terms})
      BY FS_Subset DEF IsSkill
    <2> QED
      BY <2>1, FS_CardinalityType
  <1>2. asked \in {0, 1000} /\ always \in {0, 500} /\ task \in {0, 30}
    OBVIOUS
  <1>3. said \in Nat
    BY <1>1
  <1>4. SkillScore(s, context)
        = IF NotFor(s, context) THEN 0
          ELSE asked + always + 60 * has + task + 20 * exts + 8 * keys + 4 * said
    BY DEF SkillScore
  <1>5. /\ s.name \in context.requested => asked = 1000 /\ ~NotFor(s, context)
        /\ s.always /\ s.requires = {} => always = 500 /\ ~NotFor(s, context)
    BY DEF NotFor
  <1> HIDE DEF has, exts, keys, hits, asked, always, task, said
  <1> QED
    BY <1>1, <1>2, <1>3, <1>4, <1>5

\* Skills with names of their own.
AreSkills(skills) ==
  /\ IsFiniteSet(skills)
  /\ \A s \in skills : IsSkill(s)
  /\ \A s, t \in skills : s.name = t.name => s = t

(* The ranking of skills has each that scores once, by score.              *)
LEMMA RankedSkillsAre ==
  ASSUME NEW skills, AreSkills(skills), NEW context
  PROVE  ByScore(RankedSkills(skills, context), skills, [s \in skills |-> SkillScore(s, context)])
  <1> DEFINE score == [s \in skills |-> SkillScore(s, context)]
             S == Scoring(skills, score)
             Before(l, r) == \/ l.score > r.score
                             \/ l.score = r.score /\ l.of.bytes < r.of.bytes
                             \/ /\ l.score = r.score /\ l.of.bytes = r.of.bytes
                                /\ l.of.name < r.of.name
             scored == {[of |-> s, score |-> SkillScore(s, context)] : s \in skills}
             P == {e \in scored : e.score > 0}
             a == [e \in S |-> -e.score]
             b == [e \in S |-> e.of.bytes]
             c == [e \in S |-> e.of.name]
             before == [x \in S |-> {y \in S : Before(y, x)}]
             order == [i \in 1..Cardinality(P) |->
                         CHOOSE x \in P : Cardinality({y \in P : Before(y, x)}) = i - 1]
             ranked == [i \in DOMAIN order |-> order[i].of]
  <1>1. RankedSkills(skills, context) = ranked
    BY Zenon DEF RankedSkills, Ranked
  <1>2. \A s \in skills : score[s] = SkillScore(s, context) /\ score[s] \in Nat
    BY SkillScoreCounts DEF AreSkills
  <1>3. score \in [skills -> Int]
    BY <1>2
  <1>4. P = S
    BY DEF Scoring
  <1>5. \A e \in S : /\ e.of \in skills /\ e.score = score[e.of] /\ e.score \in Nat
                     /\ e = [of |-> e.of, score |-> score[e.of]]
                     /\ e.of.bytes \in Int /\ e.of.name \in Int
    <2> HIDE DEF score
    <2> QED
      BY <1>2 DEF Scoring, AreSkills, IsSkill
  <1>6. IsFiniteSet(S)
    <2>1. IsFiniteSet({[of |-> s, score |-> score[s]] : s \in skills})
      <3> DEFINE f == [s \in skills |-> [of |-> s, score |-> score[s]]]
      <3> HIDE DEF score
      <3>1. IsFiniteSet({f[s] : s \in skills})
        BY ImageFinite DEF AreSkills
      <3>2. {f[s] : s \in skills} = {[of |-> s, score |-> score[s]] : s \in skills}
        OBVIOUS
      <3> QED
        BY <3>1, <3>2
    <2> HIDE DEF score
    <2> QED
      BY <2>1, FS_Subset DEF Scoring
  <1>7. order = [i \in 1..Cardinality(S) |-> CHOOSE x \in S : Cardinality(before[x]) = i - 1]
    <2>1. \A x \in S : before[x] = {y \in S : Before(y, x)}
      OBVIOUS
    <2>2. order = [i \in 1..Cardinality(S) |->
                     CHOOSE x \in S : Cardinality({y \in S : Before(y, x)}) = i - 1]
      <3> HIDE DEF P, S, Before
      <3> QED
        BY ONLY <1>4 DEF order
    <2> HIDE DEF before, S, Before, order, P
    <2>3. \A i \in 1..Cardinality(S) :
            (CHOOSE x \in S : Cardinality(before[x]) = i - 1)
            = CHOOSE x \in S : Cardinality({y \in S : Before(y, x)}) = i - 1
      BY <2>1
    <2> QED
      BY <2>2, <2>3
  <1> HIDE DEF order, score, S
  <1>8. Orders(S, a, b, c)
    <2>1. a \in [S -> Int] /\ b \in [S -> Int] /\ c \in [S -> Int]
      BY <1>5
    <2>2. \A x, y \in S : c[x] = c[y] => x = y
      <3>1. \A x, y \in S : x.of.name = y.of.name => x.of = y.of
        BY <1>5 DEF AreSkills
      <3> QED
        BY <1>5, <3>1
    <2> HIDE DEF a, b, c
    <2> QED
      BY <2>1, <2>2 DEF Orders
  <1>9. \A x \in S : before[x] = {y \in S : Less(a, b, c, y, x)}
    <2>1. ASSUME NEW x \in S, NEW y \in S
          PROVE  Before(y, x) <=> Less(a, b, c, y, x)
      <3>1. a[x] = -x.score /\ a[y] = -y.score /\ b[x] = x.of.bytes /\ b[y] = y.of.bytes
            /\ c[x] = x.of.name /\ c[y] = y.of.name /\ x.score \in Nat /\ y.score \in Nat
        BY <1>5
      <3> QED
        BY ONLY <3>1 DEF Less, Before
    <2>2. \A x \in S : before[x] = {y \in S : Before(y, x)}
      OBVIOUS
    <2> HIDE DEF before, Before, a, b, c
    <2> QED
      BY <2>1, <2>2
  <1> HIDE DEF before, b, c
  <1>10. InOrder(order, S, a, b, c)
    <2> HIDE DEF a
    <2> QED
      BY <1>6, <1>7, <1>8, <1>9, ChosenInOrder
  <1>11. ByScore(ranked, skills, score)
    <2>1. InOrder(order, Scoring(skills, score), a, b, c)
      BY <1>10 DEF S
    <2>3. \A e \in Scoring(skills, score) : a[e] = -e.score
      BY DEF S
    <2>2. ranked = [i \in DOMAIN order |-> order[i].of]
      OBVIOUS
    <2> HIDE DEF ranked, a, Before, P
    <2> QED
      BY ONLY <1>3, <2>1, <2>2, <2>3, ScoredInOrder
  <1> QED
    BY <1>1, <1>11 DEF score

-----------------------------------------------------------------------------
\* What a registry is once a skill is added.
AddsSkill(A) == [skills \in SUBSET A |-> [x \in A |-> AddSkill(skills, x)]]

(* Skills are added to the registry one by one.                            *)
LEMMA RegistryRun ==
  ASSUME NEW A, NEW s \in Seq(A)
  PROVE  Registry(s) = Run(AddsSkill(A), {}, s)
  <1> DEFINE D == 1..Len(s)
             T == SUBSET A
             F == AddsSkill(A)
             Add(skills, i) == AddSkill(skills, s[i])
             w == CHOOSE g : g = [S \in SUBSET D |->
                    IF S = {} THEN {} ELSE Add(g[S \ {Max(S)}], Max(S))]
  <1>1. /\ Len(s) \in Nat /\ DOMAIN s = D
        /\ \A i \in D : s[i] \in A
        /\ \A S \in SUBSET D : S # {} => Max(S) \in D
    <2>1. Len(s) \in Nat /\ DOMAIN s = D /\ \A i \in D : s[i] \in A
      BY LenProperties, ElementOfSeq
    <2> QED
      BY <2>1, GreatestPosition
  <1>2. Registry(s) = w[D]
    BY <1>1 DEF Registry, FoldLeft, MapThenFoldSet
  <1>3. F \in [T -> [A -> T]] /\ {} \in T
    BY DEF AddsSkill, AddSkill
  <1>4. \A t \in T, i \in D : F[t][s[i]] = Add(t, i)
    BY <1>1 DEF AddsSkill
  <1> HIDE DEF F, Add, D, T
  <1>5. PICK g \in [SUBSET D -> T] : Folds(g, F, {}, s)
    BY <1>3, FoldsExist DEF D
  <1>6. ASSUME NEW S \in SUBSET D
        PROVE  g[S] = IF S = {} THEN {} ELSE Add(g[S \ {Max(S)}], Max(S))
    <2>1. S \ {Max(S)} \in SUBSET D
      OBVIOUS
    <2>2. g[S \ {Max(S)}] \in T
      BY <2>1
    <2>3. g[S] = IF S = {} THEN {} ELSE F[g[S \ {Max(S)}]][s[Max(S)]]
      BY <1>5 DEF Folds, D
    <2> QED
      BY <1>1, <1>4, <2>2, <2>3
  <1>7. g = [S \in SUBSET D |-> IF S = {} THEN {} ELSE Add(g[S \ {Max(S)}], Max(S))]
    <2>1. g = [S \in SUBSET D |-> g[S]]
      OBVIOUS
    <2> QED
      BY <1>6, <2>1
  <1>8. w = [S \in SUBSET D |-> IF S = {} THEN {} ELSE Add(w[S \ {Max(S)}], Max(S))]
    BY <1>7
  <1> HIDE DEF w
  <1>9. ASSUME NEW S \in SUBSET D
        PROVE  /\ S = {} => w[S] = {}
               /\ S # {} /\ w[S \ {Max(S)}] \in T => w[S] = F[w[S \ {Max(S)}]][s[Max(S)]]
    <2>1. w[S] = IF S = {} THEN {} ELSE Add(w[S \ {Max(S)}], Max(S))
      BY <1>8
    <2> QED
      BY <1>1, <1>4, <2>1
  <1>10. Folds(w, F, {}, s)
    BY <1>3, <1>9, FoldsTyped DEF D
  <1> QED
    BY <1>1, <1>2, <1>10, FoldsRun DEF F, D

(* So it starts empty, and each skill is added to what it was.             *)
LEMMA RegistryAppend ==
  ASSUME NEW A
  PROVE  /\ Registry(<<>>) = {}
         /\ \A s \in Seq(A), x \in A : Registry(Append(s, x)) = AddSkill(Registry(s), x)
  <1> DEFINE F == AddsSkill(A)
             T == SUBSET A
  <1>1. F \in [T -> [A -> T]] /\ {} \in T
    BY DEF AddsSkill, AddSkill
  <1>2. \A t \in T, x \in A : F[t][x] = AddSkill(t, x)
    BY DEF AddsSkill
  <1>3. Registry(<<>>) = {}
    <2>1. <<>> \in Seq(A)
      BY EmptySeq
    <2>2. Registry(<<>>) = Run(F, {}, <<>>)
      BY ONLY <2>1, RegistryRun DEF F
    <2> HIDE DEF F
    <2> QED
      BY ONLY <2>2, RunEmpty
  <1> HIDE DEF F
  <1>4. ASSUME NEW s \in Seq(A), NEW x \in A
        PROVE  Registry(Append(s, x)) = AddSkill(Registry(s), x)
    <2>1. Append(s, x) \in Seq(A)
      BY AppendProperties
    <2>2. Registry(s) = Run(F, {}, s)
      BY RegistryRun DEF F
    <2>3. Registry(Append(s, x)) = Run(F, {}, Append(s, x))
      BY <2>1, RegistryRun DEF F
    <2>4. Run(F, {}, Append(s, x)) = F[Run(F, {}, s)][x]
      BY ONLY s \in Seq(A), x \in A, RunAppend
    <2>5. Run(F, {}, s) \in T
      BY <1>1, RunTyped
    <2> QED
      BY <1>2, <2>2, <2>3, <2>4, <2>5
  <1> QED
    BY <1>3, <1>4

\* The skills added under a name, the project's own of them, and the one of them
\* that stands for it.
AddedAs(added, n) == {i \in DOMAIN added : added[i].name = n}
OwnAs(added, n) == {i \in AddedAs(added, n) : added[i].source = "project"}
Stands(added, n) == Max(IF OwnAs(added, n) # {} THEN OwnAs(added, n) ELSE AddedAs(added, n))
NamesOf(added) == {s.name : s \in ToSet(added)}

(* The one that stands for a name has it, and is the project's own if      *)
(* there is one.                                                           *)
LEMMA StandsIs ==
  ASSUME NEW A, NEW r \in Seq(A), NEW n \in NamesOf(r)
  PROVE  /\ Stands(r, n) \in DOMAIN r /\ r[Stands(r, n)].name = n
         /\ OwnAs(r, n) # {} <=> r[Stands(r, n)].source = "project"
  <1> DEFINE S == IF OwnAs(r, n) # {} THEN OwnAs(r, n) ELSE AddedAs(r, n)
  <1>1. DOMAIN r = 1..Len(r) /\ Len(r) \in Nat
    BY LenProperties
  <1>2. AddedAs(r, n) # {}
    BY DEF NamesOf, ToSet, AddedAs
  <1>3. S \in SUBSET (1..Len(r)) /\ S # {}
    BY <1>1, <1>2 DEF AddedAs, OwnAs
  <1>4. Max(S) \in S
    <2> HIDE DEF S
    <2> QED
      BY <1>1, <1>3, GreatestPosition
  <1>5. Stands(r, n) = Max(S)
    BY DEF Stands
  <1>6. Stands(r, n) \in AddedAs(r, n) /\ (OwnAs(r, n) # {} => Stands(r, n) \in OwnAs(r, n))
    BY <1>4, <1>5 DEF OwnAs
  <1> QED
    BY <1>6 DEF AddedAs, OwnAs

(* What is added last stands for its name, unless the project has its own; *)
(* the other names keep what stands for them.                              *)
LEMMA StandsAppend ==
  ASSUME NEW A, NEW r \in Seq(A), NEW x \in A, x.source \in {"project", "shipped"}
  PROVE  LET q == Append(r, x) IN
         /\ NamesOf(q) = NamesOf(r) \cup {x.name}
         /\ \A n : n # x.name => Stands(q, n) = Stands(r, n)
         /\ IF x.source = "shipped" /\ OwnAs(r, x.name) # {}
            THEN Stands(q, x.name) = Stands(r, x.name)
            ELSE Stands(q, x.name) = Len(r) + 1
  <1> DEFINE q == Append(r, x)
             k == Len(r)
  <1>1. /\ ToSet(q) = ToSet(r) \cup {x}
        /\ DOMAIN q = 1..k + 1 /\ DOMAIN r = 1..k /\ k \in Nat
        /\ \A i \in 1..k : q[i] = r[i]
        /\ q[k + 1] = x
    BY AppendHolds
  <1> HIDE DEF q, k
  <1>2. /\ \A i \in 1..k + 1 : i \in 1..k \/ i = k + 1
        /\ \A i \in 1..k : i \in 1..k + 1 /\ i # k + 1 /\ i <= k + 1
        /\ k + 1 \in 1..k + 1
    BY <1>1
  <1>3. NamesOf(q) = NamesOf(r) \cup {x.name}
    BY <1>1 DEF NamesOf
  <1>4. ASSUME NEW n, n # x.name
        PROVE  Stands(q, n) = Stands(r, n)
    <2>1. AddedAs(q, n) = AddedAs(r, n)
      BY <1>1, <1>2, <1>4 DEF AddedAs
    <2>2. OwnAs(q, n) = OwnAs(r, n)
      BY <1>1, <1>2, <2>1 DEF OwnAs, AddedAs
    <2> QED
      BY <2>1, <2>2 DEF Stands
  <1>5. AddedAs(q, x.name) = AddedAs(r, x.name) \cup {k + 1}
    BY <1>1, <1>2 DEF AddedAs
  <1>6. OwnAs(q, x.name) = OwnAs(r, x.name) \cup (IF x.source = "project" THEN {k + 1} ELSE {})
    BY <1>1, <1>2, <1>5 DEF OwnAs, AddedAs
  <1>7. \A S \in SUBSET (1..k + 1) : k + 1 \in S => Max(S) = k + 1
    <2> SUFFICES ASSUME NEW S \in SUBSET (1..k + 1), k + 1 \in S
                 PROVE  Max(S) = k + 1
      OBVIOUS
    <2>1. S \subseteq Nat /\ \A y \in S : y <= k + 1
      BY <1>1
    <2>2. Max(S) \in S /\ Max(S) >= k + 1
      BY <1>1, <2>1, BoundedMax
    <2>3. Max(S) \in Nat /\ Max(S) <= k + 1
      BY <2>1, <2>2
    <2> QED
      BY <1>1, <2>2, <2>3
  <1>8. AddedAs(r, x.name) \subseteq 1..k /\ OwnAs(r, x.name) \subseteq 1..k
    BY <1>1 DEF AddedAs, OwnAs
  <1>9. CASE x.source = "shipped" /\ OwnAs(r, x.name) # {}
    <2>1. OwnAs(q, x.name) = OwnAs(r, x.name)
      BY <1>6, <1>9
    <2>2. Stands(q, x.name) = Stands(r, x.name)
      BY <1>9, <2>1 DEF Stands
    <2> QED
      BY <1>3, <1>4, <1>9, <2>2 DEF q, k
  <1>10. CASE ~(x.source = "shipped" /\ OwnAs(r, x.name) # {})
    <2> DEFINE S == IF OwnAs(q, x.name) # {} THEN OwnAs(q, x.name) ELSE AddedAs(q, x.name)
    <2>1. S \in SUBSET (1..k + 1) /\ k + 1 \in S
      BY <1>2, <1>5, <1>6, <1>8, <1>10
    <2>2. Max(S) = k + 1
      <3> HIDE DEF S
      <3> QED
        BY <1>7, <2>1
    <2>3. Stands(q, x.name) = k + 1
      BY <2>2 DEF Stands
    <2> QED
      BY <1>3, <1>4, <1>10, <2>3 DEF q, k
  <1> QED
    BY <1>9, <1>10

(* The registry has for each name what stands for it.                      *)
LEMMA RegistryIs ==
  ASSUME NEW A, \A x \in A : x.source \in {"project", "shipped"}, NEW added \in Seq(A)
  PROVE  Registry(added) = {added[Stands(added, n)] : n \in NamesOf(added)}
  <1> DEFINE Standing(r) == {r[Stands(r, n)] : n \in NamesOf(r)}
             T == {r \in Seq(A) : Registry(r) = Standing(r)}
  <1>1. <<>> \in T
    <2>1. NamesOf(<<>>) = {}
      BY DEF NamesOf, ToSet
    <2> QED
      BY <2>1, RegistryAppend, EmptySeq
  <1>2. ASSUME NEW r \in Seq(A), NEW x \in A, r \in T
        PROVE  Append(r, x) \in T
    <2> DEFINE q == Append(r, x)
               k == Len(r)
    <2>1. /\ q \in Seq(A) /\ DOMAIN r = 1..k
          /\ \A i \in 1..k : q[i] = r[i]
          /\ q[k + 1] = x
      BY AppendHolds
    <2>2. /\ NamesOf(q) = NamesOf(r) \cup {x.name}
          /\ \A n : n # x.name => Stands(q, n) = Stands(r, n)
          /\ IF x.source = "shipped" /\ OwnAs(r, x.name) # {}
             THEN Stands(q, x.name) = Stands(r, x.name)
             ELSE Stands(q, x.name) = k + 1
      BY StandsAppend
    <2>3. \A n \in NamesOf(r) :
            /\ Stands(r, n) \in 1..k /\ r[Stands(r, n)].name = n
            /\ OwnAs(r, n) # {} <=> r[Stands(r, n)].source = "project"
      BY <2>1, StandsIs
    <2>4. Registry(r) = Standing(r)
      BY <1>2
    <2>5. Registry(q) = AddSkill(Standing(r), x)
      BY <2>4, RegistryAppend
    <2>6. OwnAs(r, x.name) # {} => x.name \in NamesOf(r)
      BY DEF OwnAs, AddedAs, NamesOf, ToSet
    <2> HIDE DEF q, k
    <2>7. CASE x.source = "shipped" /\ OwnAs(r, x.name) # {}
      <3>1. \E s \in Standing(r) : s.name = x.name /\ s.source = "project" /\ x.source = "shipped"
        BY <2>3, <2>6, <2>7
      <3>2. AddSkill(Standing(r), x) = Standing(r)
        BY <3>1 DEF AddSkill
      <3>3. NamesOf(q) = NamesOf(r)
        BY <2>2, <2>6, <2>7
      <3>4. \A n \in NamesOf(r) : q[Stands(q, n)] = r[Stands(r, n)]
        BY <2>1, <2>2, <2>3, <2>7
      <3>5. Standing(q) = Standing(r)
        BY <3>3, <3>4
      <3> QED
        BY <2>1, <2>5, <3>2, <3>5 DEF q
    <2>8. CASE ~(x.source = "shipped" /\ OwnAs(r, x.name) # {})
      <3>1. ~\E s \in Standing(r) : s.name = x.name /\ s.source = "project" /\ x.source = "shipped"
        BY <2>3, <2>8
      <3>2. AddSkill(Standing(r), x) = {s \in Standing(r) : s.name # x.name} \cup {x}
        <4> HIDE DEF Standing
        <4> QED
          BY <3>1 DEF AddSkill
      <3>3. {s \in Standing(r) : s.name # x.name} = {r[Stands(r, n)] : n \in NamesOf(r) \ {x.name}}
        BY <2>3
      <3>4. q[Stands(q, x.name)] = x
        BY <2>1, <2>2, <2>8
      <3>5. \A n \in NamesOf(r) \ {x.name} : q[Stands(q, n)] = r[Stands(r, n)]
        BY <2>1, <2>2, <2>3
      <3>6. Standing(q) = {r[Stands(r, n)] : n \in NamesOf(r) \ {x.name}} \cup {x}
        BY <2>2, <3>4, <3>5
      <3> QED
        BY <2>1, <2>5, <3>2, <3>3, <3>6 DEF q
    <2> QED
      BY <2>7, <2>8
  <1> HIDE DEF T
  <1>3. Seq(A) \subseteq T
    BY <1>1, <1>2, SequenceInduction
  <1> QED
    BY <1>3 DEF T

(* The skills of a registry have names of their own.                       *)
LEMMA RegistryNames ==
  ASSUME NEW A, \A x \in A : IsSkill(x), NEW added \in Seq(A)
  PROVE  /\ AreSkills(Registry(added)) /\ Registry(added) \subseteq A
         /\ Registry(added) = {added[Stands(added, n)] : n \in NamesOf(added)}
  <1> DEFINE N == NamesOf(added)
             f == [n \in N |-> added[Stands(added, n)]]
             R == {added[Stands(added, n)] : n \in N}
  <1>1. Registry(added) = R
    BY RegistryIs DEF IsSkill
  <1>2. \A n \in N : f[n] \in A /\ f[n].name = n
    <2>1. \A n \in N : Stands(added, n) \in DOMAIN added /\ added[Stands(added, n)].name = n
      BY StandsIs
    <2>2. \A i \in DOMAIN added : added[i] \in A
      BY ElementsIn
    <2> QED
      BY <2>1, <2>2
  <1>3. IsFiniteSet(N)
    <2>1. /\ Len(added) \in Nat /\ DOMAIN added = 1..Len(added)
      BY LenProperties
    <2>2. IsFiniteSet(DOMAIN added)
      BY <2>1, UpTo
    <2> DEFINE g == [i \in DOMAIN added |-> added[i].name]
    <2>3. IsFiniteSet({g[i] : i \in DOMAIN added})
      BY <2>2, ImageFinite
    <2>4. N = {g[i] : i \in DOMAIN added}
      BY DEF NamesOf, ToSet
    <2> QED
      BY <2>3, <2>4
  <1>4. R = {f[n] : n \in N}
    OBVIOUS
  <1> HIDE DEF f, N
  <1>5. IsFiniteSet({f[n] : n \in N})
    <2>1. DOMAIN f = N
      BY DEF f
    <2> QED
      BY <1>3, <2>1, ImageFinite
  <1>6. AreSkills(R) /\ R \subseteq A
    <2> HIDE DEF R
    <2>1. \A s, t \in R : s.name = t.name => s = t
      BY <1>2, <1>4
    <2> QED
      BY <1>2, <1>4, <1>5, <2>1 DEF AreSkills
  <1> QED
    BY <1>1, <1>6 DEF N

-----------------------------------------------------------------------------
(* Whatever skills are added, in any order, and whatever a run is about:   *)
(* the registry and what select() gives the run are as SkillsApply says.   *)
THEOREM SkillsAreApplicable ==
  ASSUME NEW A, \A s \in A : IsSkill(s), NEW added \in Seq(A), NEW context,
         NEW most \in Nat, NEW bytes \in Nat
  PROVE  SkillsApply(added, context, most, bytes)
  <1> DEFINE skills == Registry(added)
             score == [s \in skills |-> SkillScore(s, context)]
             ranked == RankedSkills(skills, context)
             taken == SelectSkills(skills, context, most, bytes)
             all(n) == {i \in DOMAIN added : added[i].name = n}
             own(n) == {i \in all(n) : added[i].source = "project"}
  <1>1. AreSkills(skills) /\ skills \subseteq A
    BY RegistryNames
  <1>2. skills = {added[Max(IF own(n) # {} THEN own(n) ELSE all(n))] : n \in {s.name : s \in ToSet(added)}}
    <2>1. skills = {added[Stands(added, n)] : n \in NamesOf(added)}
      BY RegistryNames
    <2> HIDE DEF skills
    <2> QED
      BY <2>1, Zenon DEF Stands, NamesOf, OwnAs, AddedAs
  <1>3. ByScore(ranked, skills, score)
    <2> HIDE DEF skills
    <2> QED
      BY <1>1, RankedSkillsAre
  <1>4. taken = Filled(ranked, most, bytes, TRUE)
    BY DEF SelectSkills
  <1> HIDE DEF skills, ranked, taken
  <1>5. /\ ranked \in Seq(skills) /\ IsInjective(ranked)
        /\ ToSet(ranked) = {s \in skills : SkillScore(s, context) > 0}
    <2>1. \A s \in skills : score[s] = SkillScore(s, context)
      OBVIOUS
    <2> HIDE DEF score
    <2> QED
      BY <1>3, <2>1 DEF ByScore
  <1>6. ASSUME NEW i \in DOMAIN ranked, NEW j \in DOMAIN ranked,
               SkillScore(ranked[i], context) > SkillScore(ranked[j], context)
        PROVE  i < j
    <2>1. ranked[i] \in skills /\ ranked[j] \in skills
      BY <1>5, ElementsIn
    <2>2. score[ranked[i]] > score[ranked[j]]
      BY <1>6, <2>1
    <2> HIDE DEF score
    <2> QED
      BY <1>3, <2>2 DEF ByScore
  <1>7. \A s \in skills : s.bytes \in Nat /\ IsSkill(s) /\ s \in A
    BY <1>1 DEF AreSkills, IsSkill
  <1>8. FilledSoFar(taken, ranked, most, bytes, TRUE)
    BY <1>4, <1>5, <1>7, FilledIs
  <1>9. \A s \in skills :
          /\ SkillScore(s, context) \in Nat
          /\ s.name \in context.requested => SkillScore(s, context) >= 1000
          /\ s.always /\ s.requires = {} => SkillScore(s, context) > 0
          /\ NotFor(s, context) => SkillScore(s, context) = 0
    BY <1>7, SkillScoreCounts, SMTT(30)
  <1>10. /\ InBudget(taken, most, bytes, TRUE)
         /\ NothingHasRoom(taken, ToSet(ranked) \ ToSet(taken), most, bytes)
         /\ NothingOvertakes(taken, ranked)
         /\ ToSet(taken) \subseteq ToSet(ranked)
    BY <1>8 DEF FilledSoFar
  <1>11. \A s \in ToSet(taken) :
           s.requires \cap context.dependencies # {} \/ s.requires = {} \/ s.name \in context.requested
    <2> SUFFICES ASSUME NEW s \in ToSet(taken)
                 PROVE  ~NotFor(s, context)
      BY DEF NotFor
    <2>1. s \in skills /\ SkillScore(s, context) > 0
      BY <1>5, <1>10
    <2> QED
      BY <1>9, <2>1
  <1>12. \A s \in skills :
           s.name \in context.requested \/ (s.always /\ s.requires = {}) => s \in ToSet(ranked)
    <2> SUFFICES ASSUME NEW s \in skills,
                        s.name \in context.requested \/ (s.always /\ s.requires = {})
                 PROVE  SkillScore(s, context) > 0
      BY <1>5
    <2> QED
      BY <1>9
  <1>13. ASSUME NEW i \in DOMAIN ranked, NEW j \in DOMAIN ranked,
                ranked[i].name \in context.requested, ranked[j].name \notin context.requested,
                SkillScore(ranked[j], context) < 1000
         PROVE  i < j
    <2>1. ranked[i] \in skills /\ ranked[j] \in skills
      BY <1>5, ElementsIn
    <2>2. SkillScore(ranked[i], context) >= 1000 /\ SkillScore(ranked[j], context) < 1000
      BY <1>9, <1>13, <2>1
    <2>3. SkillScore(ranked[i], context) \in Nat /\ SkillScore(ranked[j], context) \in Nat
      BY <1>9, <2>1
    <2> QED
      BY <1>6, <2>2, <2>3
  <1>14. \A i, j \in DOMAIN ranked :
           /\ ranked[i].name \in context.requested /\ ranked[j].name \notin context.requested
           /\ SkillScore(ranked[j], context) < 1000
           => i < j
    BY <1>13
  <1> QED
    BY ONLY <1>2, <1>10, <1>11, <1>12, <1>14, Zenon DEF SkillsApply, skills, ranked, taken

-----------------------------------------------------------------------------
\* What the calls in A make entries of, and the stores of such entries.
EntriesOf(A) == {Entry(op, t) : op \in A, t \in Int}
StoresOf(A) == UNION {[D -> EntriesOf(A)] : D \in SUBSET (Scope \X Int)}

\* When what a call puts was first believed.
Since(entries, op) ==
  IF op.do = "remember" /\ <<op.scope, op.key>> \in DOMAIN entries
  THEN entries[<<op.scope, op.key>>].created ELSE op.at
Believed(op) == op.do \in {"remember", "hydrate"} /\ op.valid /\ ~op.credential

(* A call puts its entry, drops some, or leaves the store as it is.        *)
LEMMA StepIs ==
  ASSUME NEW entries, NEW op, IsOp(op)
  PROVE  /\ Believed(op) => Step(entries, op) = Put(entries, Entry(op, Since(entries, op)))
         /\ op.do \in {"remember", "hydrate"} /\ ~Believed(op) => Step(entries, op) = entries
         /\ op.do = "forget" => Step(entries, op) = Without(entries, {<<op.scope, op.key>>})
         /\ op.do = "forgetScope" =>
              Step(entries, op) = Without(entries, {id \in DOMAIN entries : id[1] = op.scope})
  <1>1. CASE op.do = "remember"
    <2>1. Step(entries, op) = Remember(entries, op)
      BY <1>1 DEF Step
    <2> QED
      BY <1>1, <2>1 DEF IsOp, Believed, Since, Remember
  <1>2. CASE op.do = "hydrate"
    <2>1. Step(entries, op) = Hydrate(entries, op)
      BY <1>2 DEF Step
    <2> QED
      BY <1>2, <2>1 DEF IsOp, Believed, Since, Hydrate
  <1>3. CASE op.do = "forget"
    BY <1>3 DEF Step, Forget, Believed
  <1>4. CASE op.do = "forgetScope"
    BY <1>4 DEF Step, ForgetScope, Believed
  <1> QED
    BY <1>1, <1>2, <1>3, <1>4 DEF IsOp

(* A store stays one.                                                      *)
LEMMA StepTyped ==
  ASSUME NEW A, \A op \in A : IsOp(op), NEW op \in A, NEW entries \in StoresOf(A)
  PROVE  Step(entries, op) \in StoresOf(A)
  <1> DEFINE E == EntriesOf(A)
             id == <<op.scope, op.key>>
  <1>1. PICK D \in SUBSET (Scope \X Int) : entries \in [D -> E]
    BY DEF StoresOf
  <1>2. IsOp(op) /\ id \in Scope \X Int
    BY DEF IsOp
  <1>3. \A e \in E : e.created \in Int
    BY DEF EntriesOf, Entry
  <1>4. Since(entries, op) \in Int
    BY <1>1, <1>2, <1>3 DEF Since, IsOp
  <1>5. Entry(op, Since(entries, op)) \in E
    BY <1>4 DEF EntriesOf
  <1>6. ASSUME NEW f, NEW C \in SUBSET (Scope \X Int), f \in [C -> E]
        PROVE  f \in StoresOf(A)
    BY <1>6 DEF StoresOf
  <1>7. ASSUME NEW e \in E, e.scope = op.scope, e.key = op.key
        PROVE  Put(entries, e) \in StoresOf(A)
    <2>1. DOMAIN entries = D /\ \A x \in D : entries[x] \in E
      BY <1>1
    <2> HIDE DEF E
    <2>2. Put(entries, e) \in [D \cup {id} -> E]
      BY <1>7, <2>1 DEF Put
    <2>3. D \cup {id} \in SUBSET (Scope \X Int)
      BY <1>2
    <2> QED
      BY <1>6, <2>2, <2>3 DEF E
  <1>8. ASSUME NEW gone
        PROVE  Without(entries, gone) \in StoresOf(A)
    <2>1. DOMAIN entries = D /\ \A x \in D : entries[x] \in E
      BY <1>1
    <2> HIDE DEF E
    <2>2. Without(entries, gone) \in [D \ gone -> E]
      BY <2>1 DEF Without
    <2> QED
      BY <1>6, <2>2 DEF E
  <1>9. Entry(op, Since(entries, op)).scope = op.scope /\ Entry(op, Since(entries, op)).key = op.key
    BY DEF Entry
  <1>10. CASE Believed(op)
    BY <1>2, <1>5, <1>7, <1>9, <1>10, StepIs
  <1>11. CASE op.do \in {"remember", "hydrate"} /\ ~Believed(op)
    BY <1>2, <1>11, StepIs
  <1>12. CASE op.do = "forget"
    BY <1>2, <1>8, <1>12, StepIs
  <1>13. CASE op.do = "forgetScope"
    BY <1>2, <1>8, <1>13, StepIs
  <1> QED
    BY <1>2, <1>10, <1>11, <1>12, <1>13 DEF IsOp

\* What a store is once a call is made.
Steps(A) == [entries \in StoresOf(A) |-> [op \in A |-> Step(entries, op)]]

(* The calls are made one by one.                                          *)
LEMMA AfterRun ==
  ASSUME NEW A, \A op \in A : IsOp(op), NEW s \in Seq(A)
  PROVE  After(s) = Run(Steps(A), NoEntries, s)
  <1> DEFINE D == 1..Len(s)
             T == StoresOf(A)
             F == Steps(A)
             Do(entries, i) == Step(entries, s[i])
             w == CHOOSE g : g = [S \in SUBSET D |->
                    IF S = {} THEN NoEntries ELSE Do(g[S \ {Max(S)}], Max(S))]
  <1>1. /\ Len(s) \in Nat /\ DOMAIN s = D
        /\ \A i \in D : s[i] \in A
        /\ \A S \in SUBSET D : S # {} => Max(S) \in D
    <2>1. Len(s) \in Nat /\ DOMAIN s = D /\ \A i \in D : s[i] \in A
      BY LenProperties, ElementOfSeq
    <2> QED
      BY <2>1, GreatestPosition
  <1>2. After(s) = w[D]
    BY <1>1 DEF After, FoldLeft, MapThenFoldSet
  <1>3. F \in [T -> [A -> T]]
    <2> HIDE DEF T
    <2>1. \A t \in T, op \in A : Step(t, op) \in T
      BY StepTyped DEF T
    <2> QED
      BY <2>1 DEF Steps, T
  <1>14. NoEntries \in T
    <2>1. NoEntries \in [{} -> EntriesOf(A)]
      BY DEF NoEntries
    <2> QED
      BY <2>1 DEF StoresOf
  <1>4. \A t \in T, i \in D : F[t][s[i]] = Do(t, i)
    BY <1>1 DEF Steps
  <1> HIDE DEF F, Do, D, T
  <1>5. PICK g \in [SUBSET D -> T] : Folds(g, F, NoEntries, s)
    BY <1>3, <1>14, FoldsExist DEF D
  <1>6. ASSUME NEW S \in SUBSET D
        PROVE  g[S] = IF S = {} THEN NoEntries ELSE Do(g[S \ {Max(S)}], Max(S))
    <2>1. S \ {Max(S)} \in SUBSET D
      OBVIOUS
    <2>2. g[S \ {Max(S)}] \in T
      BY <2>1
    <2>3. g[S] = IF S = {} THEN NoEntries ELSE F[g[S \ {Max(S)}]][s[Max(S)]]
      BY <1>5 DEF Folds, D
    <2> QED
      BY <1>1, <1>4, <2>2, <2>3
  <1>7. g = [S \in SUBSET D |-> IF S = {} THEN NoEntries ELSE Do(g[S \ {Max(S)}], Max(S))]
    <2>1. g = [S \in SUBSET D |-> g[S]]
      OBVIOUS
    <2> QED
      BY <1>6, <2>1
  <1>8. w = [S \in SUBSET D |-> IF S = {} THEN NoEntries ELSE Do(w[S \ {Max(S)}], Max(S))]
    BY <1>7
  <1> HIDE DEF w
  <1>9. ASSUME NEW S \in SUBSET D
        PROVE  /\ S = {} => w[S] = NoEntries
               /\ S # {} /\ w[S \ {Max(S)}] \in T => w[S] = F[w[S \ {Max(S)}]][s[Max(S)]]
    <2>1. w[S] = IF S = {} THEN NoEntries ELSE Do(w[S \ {Max(S)}], Max(S))
      BY <1>8
    <2> QED
      BY <1>1, <1>4, <2>1
  <1>10. Folds(w, F, NoEntries, s)
    BY <1>3, <1>9, <1>14, FoldsTyped DEF D
  <1> QED
    BY <1>1, <1>2, <1>10, FoldsRun DEF F, D

(* So a store starts empty, and each call is made on what it was.          *)
LEMMA AfterAppend ==
  ASSUME NEW A, \A op \in A : IsOp(op)
  PROVE  /\ After(<<>>) = NoEntries
         /\ \A s \in Seq(A) : After(s) \in StoresOf(A)
         /\ \A s \in Seq(A), op \in A : After(Append(s, op)) = Step(After(s), op)
  <1> DEFINE F == Steps(A)
             T == StoresOf(A)
  <1>1. F \in [T -> [A -> T]]
    <2> HIDE DEF T
    <2>1. \A t \in T, op \in A : Step(t, op) \in T
      BY StepTyped DEF T
    <2> QED
      BY <2>1 DEF Steps, T
  <1>5. NoEntries \in T
    <2>1. NoEntries \in [{} -> EntriesOf(A)]
      BY DEF NoEntries
    <2> QED
      BY <2>1 DEF StoresOf
  <1> HIDE DEF T
  <1>2. \A t \in T, op \in A : F[t][op] = Step(t, op)
    BY DEF Steps, T
  <1> HIDE DEF F
  <1>3. After(<<>>) = NoEntries
    <2>1. <<>> \in Seq(A)
      BY EmptySeq
    <2>2. After(<<>>) = Run(F, NoEntries, <<>>)
      BY <2>1, AfterRun DEF F
    <2> QED
      BY ONLY <2>2, RunEmpty
  <1>6. \A s \in Seq(A) : After(s) \in T
    <2> SUFFICES ASSUME NEW s \in Seq(A)
                 PROVE  After(s) \in T
      OBVIOUS
    <2>1. After(s) = Run(F, NoEntries, s)
      BY AfterRun DEF F
    <2>2. Run(F, NoEntries, s) \in T
      BY <1>1, <1>5, RunTyped
    <2> QED
      BY <2>1, <2>2
  <1>4. ASSUME NEW s \in Seq(A), NEW op \in A
        PROVE  After(Append(s, op)) = Step(After(s), op)
    <2>1. Append(s, op) \in Seq(A)
      BY AppendProperties
    <2>2. After(s) = Run(F, NoEntries, s)
      BY AfterRun DEF F
    <2>3. After(Append(s, op)) = Run(F, NoEntries, Append(s, op))
      BY <2>1, AfterRun DEF F
    <2>4. Run(F, NoEntries, Append(s, op)) = F[Run(F, NoEntries, s)][op]
      BY ONLY s \in Seq(A), op \in A, RunAppend
    <2> QED
      BY <1>2, <1>6, <2>2, <2>3, <2>4
  <1> QED
    BY <1>3, <1>4, <1>6 DEF T

(* What is picked rests on the positions a sequence has.                   *)
LEMMA PickedSame ==
  ASSUME NEW A, NEW s \in Seq(A), NEW S, NEW R, \A i \in DOMAIN s : i \in S <=> i \in R
  PROVE  Picked(s, S) = Picked(s, R)
  <1> DEFINE n == Len(s)
  <1>1. n \in Nat /\ DOMAIN s = 1..n
    BY LenProperties
  <1>2. PICK g : /\ Picked(s, S) = g[Len(s)]
                 /\ g[0] = <<>>
                 /\ \A k \in 1..Len(s) :
                      g[k] = IF k \in S THEN Append(g[k - 1], s[k]) ELSE g[k - 1]
    BY <1>1, PickedTable
  <1>3. PICK h : /\ Picked(s, R) = h[Len(s)]
                 /\ h[0] = <<>>
                 /\ \A k \in 1..Len(s) :
                      h[k] = IF k \in R THEN Append(h[k - 1], s[k]) ELSE h[k - 1]
    BY <1>1, PickedTable
  <1> DEFINE T == {m \in Nat : m <= n => h[m] = g[m]}
  <1>4. 0 \in T
    BY <1>2, <1>3
  <1>5. ASSUME NEW m \in Nat, m \in T
        PROVE  m + 1 \in T
    <2> SUFFICES ASSUME m + 1 <= n
                 PROVE  h[m + 1] = g[m + 1]
      OBVIOUS
    <2>1. m + 1 \in 1..n /\ (m + 1) - 1 = m /\ h[m] = g[m]
      BY <1>1, <1>5
    <2>2. m + 1 \in S <=> m + 1 \in R
      BY <1>1, <2>1
    <2> QED
      BY <1>2, <1>3, <2>1, <2>2
  <1> HIDE DEF T
  <1>6. n \in T
    BY <1>1, <1>4, <1>5, Induction
  <1> QED
    BY <1>1, <1>2, <1>3, <1>6 DEF T

(* The calls outside a scope, once one more is made.                       *)
LEMMA OutsideAppend ==
  ASSUME NEW A, NEW ops \in Seq(A), NEW op \in A, NEW scope
  PROVE  Outside(Append(ops, op), scope)
         = IF op.scope # scope THEN Append(Outside(ops, scope), op) ELSE Outside(ops, scope)
  <1> DEFINE q == Append(ops, op)
             n == Len(ops)
             S == {i \in DOMAIN ops : ops[i].scope # scope}
             R == {i \in DOMAIN q : q[i].scope # scope}
  <1>1. /\ DOMAIN q = 1..n + 1 /\ DOMAIN ops = 1..n /\ n \in Nat
        /\ \A i \in 1..n : q[i] = ops[i]
        /\ q[n + 1] = op
    BY AppendHolds
  <1> HIDE DEF q, n
  <1>2. \A i \in DOMAIN ops : i \in S <=> i \in R
    BY <1>1
  <1>3. n + 1 \in R <=> op.scope # scope
    BY <1>1
  <1> HIDE DEF S, R
  <1>4. Picked(ops, S) = Picked(ops, R)
    BY <1>2, PickedSame
  <1>5. /\ n + 1 \in R => Picked(q, R) = Append(Picked(ops, R), op)
        /\ n + 1 \notin R => Picked(q, R) = Picked(ops, R)
    BY PickedAppend DEF q, n
  <1> QED
    BY <1>3, <1>4, <1>5 DEF Outside, S, R, q

(* Dropping a scope undoes what the calls on it did, and nothing else.     *)
LEMMA DropsStep ==
  ASSUME NEW op, IsOp(op), NEW entries, NEW scope
  PROVE  ForgetScope(Step(entries, op), scope)
         = IF op.scope = scope THEN ForgetScope(entries, scope) ELSE Step(ForgetScope(entries, scope), op)
  <1> DEFINE id == <<op.scope, op.key>>
             kept == ForgetScope(entries, scope)
  <1>1. id[1] = op.scope
    OBVIOUS
  <1>2. CASE Believed(op)
    <2>1. CASE op.scope = scope
      <3> DEFINE e == Entry(op, Since(entries, op))
      <3>1. e.scope = op.scope /\ e.key = op.key
        BY DEF Entry
      <3>2. Step(entries, op) = Put(entries, e)
        BY <1>2, StepIs
      <3> HIDE DEF e
      <3>3. ForgetScope(Put(entries, e), scope) = ForgetScope(entries, scope)
        BY <1>1, <2>1, <3>1 DEF ForgetScope, Without, Put
      <3> QED
        BY <2>1, <3>2, <3>3
    <2>2. CASE op.scope # scope
      <3> DEFINE e == Entry(op, Since(entries, op))
      <3>1. e.scope = op.scope /\ e.key = op.key
        BY DEF Entry
      <3>2. Step(entries, op) = Put(entries, e)
        BY <1>2, StepIs
      <3>3. Since(kept, op) = Since(entries, op)
        BY <1>1, <2>2 DEF Since, ForgetScope, Without
      <3>4. Step(kept, op) = Put(kept, e)
        <4> HIDE DEF kept
        <4>1. Step(kept, op) = Put(kept, Entry(op, Since(kept, op)))
          BY <1>2, StepIs
        <4> QED
          BY <3>3, <4>1
      <3> HIDE DEF e
      <3>5. ForgetScope(Put(entries, e), scope) = Put(kept, e)
        BY <1>1, <2>2, <3>1 DEF ForgetScope, Without, Put
      <3> QED
        BY <2>2, <3>2, <3>4, <3>5
    <2> QED
      BY <2>1, <2>2
  <1>3. CASE op.do \in {"remember", "hydrate"} /\ ~Believed(op)
    <2>1. Step(entries, op) = entries /\ Step(kept, op) = kept
      BY <1>3, StepIs
    <2> QED
      BY <2>1
  <1>4. CASE op.do = "forget"
    <2>1. Step(entries, op) = Without(entries, {id}) /\ Step(kept, op) = Without(kept, {id})
      BY <1>4, StepIs
    <2>2. ForgetScope(Without(entries, {id}), scope)
          = IF op.scope = scope THEN kept ELSE Without(kept, {id})
      BY <1>1 DEF ForgetScope, Without
    <2> QED
      BY <2>1, <2>2
  <1>5. CASE op.do = "forgetScope"
    <2>1. Step(entries, op) = ForgetScope(entries, op.scope) /\ Step(kept, op) = ForgetScope(kept, op.scope)
      BY <1>5, StepIs DEF ForgetScope
    <2>2. ForgetScope(ForgetScope(entries, op.scope), scope)
          = IF op.scope = scope THEN kept ELSE ForgetScope(kept, op.scope)
      BY DEF ForgetScope, Without
    <2> QED
      BY <2>1, <2>2
  <1> QED
    BY <1>2, <1>3, <1>4, <1>5 DEF IsOp

(* So a scope that is dropped leaves no trace.                             *)
LEMMA ScopesLeaveNoTrace ==
  ASSUME NEW A, \A op \in A : IsOp(op), NEW ops \in Seq(A), NEW scope
  PROVE  ForgetScope(After(ops), scope) = After(Outside(ops, scope))
  <1> DEFINE Kept(s) == ForgetScope(After(s), scope)
             T == {s \in Seq(A) : Outside(s, scope) \in Seq(A) /\ Kept(s) = After(Outside(s, scope))}
  <1>1. <<>> \in T
    <2>1. Outside(<<>>, scope) = <<>> /\ <<>> \in Seq(A)
      BY PickedEmpty, EmptySeq DEF Outside
    <2>2. After(<<>>) = NoEntries
      BY AfterAppend
    <2>3. ForgetScope(NoEntries, scope) = NoEntries
      BY DEF ForgetScope, Without, NoEntries
    <2> QED
      BY <2>1, <2>2, <2>3
  <1>2. ASSUME NEW s \in Seq(A), NEW op \in A, s \in T
        PROVE  Append(s, op) \in T
    <2> DEFINE q == Append(s, op)
               o == Outside(s, scope)
    <2>1. q \in Seq(A) /\ After(q) = Step(After(s), op)
      BY AfterAppend, AppendProperties
    <2>2. Outside(q, scope) = IF op.scope # scope THEN Append(o, op) ELSE o
      BY OutsideAppend
    <2>3. o \in Seq(A) /\ Kept(s) = After(o)
      BY <1>2
    <2>4. Append(o, op) \in Seq(A) /\ After(Append(o, op)) = Step(After(o), op)
      BY <2>3, AfterAppend, AppendProperties
    <2>5. Kept(q) = IF op.scope = scope THEN Kept(s) ELSE Step(Kept(s), op)
      BY <2>1, DropsStep
    <2> HIDE DEF q, o, Kept
    <2> QED
      BY <2>1, <2>2, <2>3, <2>4, <2>5 DEF q
  <1> HIDE DEF T
  <1>3. Seq(A) \subseteq T
    BY <1>1, <1>2, SequenceInduction
  <1> QED
    BY <1>3 DEF T

\* The call i is the last word on the entry: later ones on its scope that count
\* neither drop the scope nor are about its key.
LastSaid(ops, entries, id, i) ==
  /\ i \in DOMAIN ops
  /\ ops[i].scope = id[1] /\ ops[i].key = id[2] /\ ops[i].value = entries[id].value
  /\ ops[i].do \in {"remember", "hydrate"} /\ ~ops[i].credential
  /\ \A j \in i + 1 .. Len(ops) :
       ops[j].scope = id[1] /\ ops[j].valid /\ ~ops[j].credential =>
         ops[j].do # "forgetScope" /\ ops[j].key # id[2]
\* An entry is where its scope and key say, and there are finitely many.
InPlace(entries) ==
  /\ IsFiniteSet(DOMAIN entries)
  /\ \A id \in DOMAIN entries :
       /\ id \in Scope \X Int /\ entries[id].scope = id[1] /\ entries[id].key = id[2]
       /\ entries[id].bytes \in Nat /\ entries[id].updated \in Int

(* A call leaves entries in their places.                                  *)
LEMMA StepInPlace ==
  ASSUME NEW entries, InPlace(entries), NEW op, IsOp(op)
  PROVE  InPlace(Step(entries, op))
  <1> DEFINE id == <<op.scope, op.key>>
             e == Entry(op, Since(entries, op))
  <1>1. id \in Scope \X Int /\ id[1] = op.scope /\ id[2] = op.key
    BY DEF IsOp
  <1>2. CASE Believed(op)
    <2>1. Step(entries, op) = Put(entries, e)
      BY <1>2, StepIs
    <2>2. /\ e.scope = op.scope /\ e.key = op.key /\ e.bytes = op.bytes /\ e.updated = op.at
      BY DEF Entry
    <2> HIDE DEF e
    <2>3. /\ DOMAIN Put(entries, e) = DOMAIN entries \cup {id}
          /\ Put(entries, e)[id] = e
          /\ \A x \in DOMAIN entries : x # id => Put(entries, e)[x] = entries[x]
      BY <2>2 DEF Put
    <2>4. IsFiniteSet(DOMAIN entries \cup {id})
      BY FS_AddElement DEF InPlace
    <2> HIDE DEF id
    <2>5. InPlace(Put(entries, e))
      BY <1>1, <2>2, <2>3, <2>4 DEF InPlace, IsOp
    <2> QED
      BY <2>1, <2>5
  <1>3. CASE op.do \in {"remember", "hydrate"} /\ ~Believed(op)
    BY <1>3, StepIs
  <1>4. ASSUME NEW gone
        PROVE  InPlace(Without(entries, gone))
    <2>1. /\ DOMAIN Without(entries, gone) = DOMAIN entries \ gone
          /\ \A x \in DOMAIN entries \ gone : Without(entries, gone)[x] = entries[x]
      BY DEF Without
    <2>2. IsFiniteSet(DOMAIN entries \ gone)
      BY FS_Subset DEF InPlace
    <2> QED
      BY <2>1, <2>2 DEF InPlace
  <1>5. CASE op.do = "forget"
    BY <1>4, <1>5, StepIs
  <1>6. CASE op.do = "forgetScope"
    BY <1>4, <1>6, StepIs
  <1> QED
    BY <1>2, <1>3, <1>5, <1>6 DEF IsOp

(* What a call leaves in the store was last said by a call before it, or   *)
(* is said by this one.                                                    *)
LEMMA StepSaid ==
  ASSUME NEW A, \A x \in A : IsOp(x), NEW ops \in Seq(A), NEW op \in A,
         NEW entries, InPlace(entries),
         \A id \in DOMAIN entries : \E i \in DOMAIN ops : LastSaid(ops, entries, id, i),
         NEW id \in DOMAIN Step(entries, op)
  PROVE  \E i \in DOMAIN Append(ops, op) : LastSaid(Append(ops, op), Step(entries, op), id, i)
  <1> DEFINE q == Append(ops, op)
             n == Len(ops)
             own == <<op.scope, op.key>>
             after == Step(entries, op)
  <1>1. /\ DOMAIN q = 1..n + 1 /\ DOMAIN ops = 1..n /\ n \in Nat /\ Len(q) = n + 1
        /\ \A i \in 1..n : q[i] = ops[i]
        /\ q[n + 1] = op
    BY AppendHolds
  <1>2. IsOp(op) /\ own[1] = op.scope /\ own[2] = op.key
    OBVIOUS
  <1> HIDE DEF q, n
  <1>3. ASSUME id \in DOMAIN entries, after[id] = entries[id],
               op.scope = id[1] /\ op.valid /\ ~op.credential =>
                 op.do # "forgetScope" /\ op.key # id[2]
        PROVE  \E i \in DOMAIN q : LastSaid(q, after, id, i)
    <2>1. PICK i \in DOMAIN ops : LastSaid(ops, entries, id, i)
      BY <1>3
    <2>2. i \in 1..n /\ i \in DOMAIN q /\ q[i] = ops[i]
      BY <1>1
    <2>3. \A j \in i + 1 .. n + 1 : (j \in i + 1 .. n /\ q[j] = ops[j]) \/ (j = n + 1 /\ q[j] = op)
      BY <1>1, <2>2
    <2> HIDE DEF after
    <2>4. LastSaid(q, after, id, i)
      BY <1>1, <1>3, <2>1, <2>2, <2>3 DEF LastSaid
    <2> QED
      BY <2>2, <2>4
  <1>4. \A x \in DOMAIN entries : x = <<x[1], x[2]>>
    BY DEF InPlace
  <1>5. CASE Believed(op)
    <2> DEFINE e == Entry(op, Since(entries, op))
    <2>1. after = Put(entries, e)
      BY <1>2, <1>5, StepIs
    <2>2. e.scope = op.scope /\ e.key = op.key /\ e.value = op.value
      BY DEF Entry
    <2> HIDE DEF e
    <2>3. /\ DOMAIN after = DOMAIN entries \cup {own}
          /\ after[own] = e
          /\ \A x \in DOMAIN entries : x # own => after[x] = entries[x]
      BY <2>1, <2>2 DEF Put
    <2>4. CASE id = own
      <3>1. \A j \in (n + 1) + 1 .. n + 1 : FALSE
        BY <1>1
      <3> HIDE DEF after, own
      <3>2. LastSaid(q, after, own, n + 1)
        BY <1>1, <1>2, <1>5, <2>2, <2>3, <3>1 DEF LastSaid, Believed
      <3> QED
        BY <1>1, <2>4, <3>2 DEF q, after
    <2>5. CASE id # own
      <3>1. id \in DOMAIN entries /\ after[id] = entries[id]
        BY <2>3, <2>5
      <3>2. ~(op.scope = id[1] /\ op.key = id[2])
        BY <1>4, <2>5, <3>1
      <3>3. op.do # "forgetScope"
        BY <1>5 DEF Believed
      <3> QED
        BY <1>3, <3>1, <3>2, <3>3 DEF q
    <2> QED
      BY <2>4, <2>5
  <1>6. CASE op.do \in {"remember", "hydrate"} /\ ~Believed(op)
    <2>1. after = entries
      BY <1>2, <1>6, StepIs
    <2>2. ~(op.valid /\ ~op.credential)
      BY <1>6 DEF Believed
    <2> QED
      BY <1>3, <2>1, <2>2 DEF q
  <1>7. CASE op.do = "forget"
    <2>1. after = Without(entries, {own})
      BY <1>2, <1>7, StepIs
    <2>2. id \in DOMAIN entries /\ id # own /\ after[id] = entries[id]
      BY <2>1 DEF Without
    <2>3. ~(op.scope = id[1] /\ op.key = id[2])
      BY <1>4, <2>2
    <2> QED
      BY <1>3, <1>7, <2>2, <2>3 DEF q
  <1>8. CASE op.do = "forgetScope"
    <2> DEFINE gone == {x \in DOMAIN entries : x[1] = op.scope}
    <2>1. after = Without(entries, gone)
      BY <1>2, <1>8, StepIs
    <2>2. id \in DOMAIN entries /\ id \notin gone /\ after[id] = entries[id]
      <3> HIDE DEF gone
      <3> QED
        BY <2>1 DEF Without
    <2>3. op.scope # id[1]
      BY <2>2
    <2> QED
      BY <1>3, <2>2, <2>3 DEF q
  <1> QED
    BY <1>2, <1>5, <1>6, <1>7, <1>8 DEF IsOp

(* So what a store holds was last said so.                                 *)
LEMMA AfterSaid ==
  ASSUME NEW A, \A x \in A : IsOp(x), NEW ops \in Seq(A)
  PROVE  /\ InPlace(After(ops))
         /\ \A id \in DOMAIN After(ops) : \E i \in DOMAIN ops : LastSaid(ops, After(ops), id, i)
  <1> DEFINE Good(s) == /\ InPlace(After(s))
                        /\ \A id \in DOMAIN After(s) : \E i \in DOMAIN s : LastSaid(s, After(s), id, i)
             T == {s \in Seq(A) : Good(s)}
  <1>1. <<>> \in T
    <2>1. After(<<>>) = NoEntries /\ <<>> \in Seq(A)
      BY AfterAppend, EmptySeq
    <2>2. DOMAIN NoEntries = {}
      BY DEF NoEntries
    <2> QED
      BY <2>1, <2>2, FS_EmptySet DEF InPlace
  <1>2. ASSUME NEW s \in Seq(A), NEW op \in A, s \in T
        PROVE  Append(s, op) \in T
    <2>1. Append(s, op) \in Seq(A) /\ After(Append(s, op)) = Step(After(s), op)
      BY AfterAppend, AppendProperties
    <2>2. Good(s)
      BY <1>2
    <2>3. InPlace(Step(After(s), op))
      BY <2>2, StepInPlace
    <2>4. \A id \in DOMAIN Step(After(s), op) :
            \E i \in DOMAIN Append(s, op) : LastSaid(Append(s, op), Step(After(s), op), id, i)
      BY <2>2, StepSaid
    <2> QED
      BY <2>1, <2>3, <2>4
  <1> HIDE DEF T
  <1>3. Seq(A) \subseteq T
    BY <1>1, <1>2, SequenceInduction
  <1> QED
    BY <1>3 DEF T

(* What is in effect for a key is an entry of that key.                    *)
LEMMA HeadRecalled ==
  ASSUME NEW entries, InPlace(entries), NEW key \in Keys(entries)
  PROVE  \E id \in DOMAIN entries : id[2] = key /\ Head(RecallAll(entries, key)) = entries[id]
  <1> DEFINE P == ScopePrecedence
             S == {i \in DOMAIN P : <<P[i], key>> \in DOMAIN entries}
             holding == Picked(P, S)
             all == RecallAll(entries, key)
  <1>1. P \in Seq(Scope) /\ \A scope \in Scope : \E i \in DOMAIN P : P[i] = scope
    BY DEF ScopePrecedence, Scope
  <1>2. PICK id \in DOMAIN entries : id[2] = key /\ id = <<id[1], key>> /\ id[1] \in Scope
    BY DEF Keys, InPlace
  <1>3. \E i \in S : <<P[i], key>> \in DOMAIN entries
    BY <1>1, <1>2
  <1>4. all = [i \in DOMAIN holding |-> entries[<<holding[i], key>>]]
    BY DEF RecallAll
  <1> HIDE DEF P
  <1>5. holding \in Seq(Scope) /\ ToSet(holding) = {P[i] : i \in S \cap DOMAIN P}
    <2> HIDE DEF S
    <2> QED
      BY <1>1, PickedTyped, PickedElements
  <1>6. \A s \in ToSet(holding) : <<s, key>> \in DOMAIN entries
    BY <1>5
  <1> HIDE DEF S, holding
  <1>7. ToSet(holding) # {}
    BY <1>3, <1>5 DEF S
  <1>8. DOMAIN holding = 1..Len(holding) /\ Len(holding) \in Nat /\ Len(holding) # 0
    BY <1>5, <1>7, LenProperties DEF ToSet
  <1>9. 1 \in DOMAIN holding /\ holding[1] \in ToSet(holding)
    BY <1>8 DEF ToSet
  <1>10. Head(all) = all[1]
    BY <1>4, <1>8
  <1>11. all[1] = entries[<<holding[1], key>>]
    BY <1>4, <1>9
  <1> DEFINE x == <<holding[1], key>>
  <1>12. x \in DOMAIN entries /\ x[2] = key
    BY <1>6, <1>9
  <1> QED
    BY <1>10, <1>11, <1>12

(* What is in effect are entries with keys of their own.                   *)
LEMMA EffectiveIs ==
  ASSUME NEW entries, InPlace(entries)
  PROVE  /\ IsFiniteSet(Effective(entries))
         /\ \A x \in Effective(entries) : x.bytes \in Nat /\ x.updated \in Int /\ x.key \in Int
         /\ \A x, y \in Effective(entries) : x.key = y.key => x = y
  <1> DEFINE K == Keys(entries)
             f == [key \in K |-> Head(RecallAll(entries, key))]
             g == [id \in DOMAIN entries |-> id[2]]
  <1>1. IsFiniteSet(K)
    <2>1. IsFiniteSet({g[id] : id \in DOMAIN entries})
      <3>1. DOMAIN g = DOMAIN entries /\ IsFiniteSet(DOMAIN entries)
        BY DEF InPlace
      <3> HIDE DEF g
      <3> QED
        BY <3>1, ImageFinite
    <2>2. K = {g[id] : id \in DOMAIN entries}
      BY DEF Keys
    <2> QED
      BY <2>1, <2>2
  <1>2. Effective(entries) = {f[key] : key \in K}
    BY DEF Effective
  <1>3. \A key \in K : \E id \in DOMAIN entries : id[2] = key /\ f[key] = entries[id]
    BY HeadRecalled
  <1>4. DOMAIN f = K
    OBVIOUS
  <1> HIDE DEF f, g, K
  <1>5. \A key \in K : /\ f[key].key = key /\ f[key].key \in Int
                       /\ f[key].bytes \in Nat /\ f[key].updated \in Int
    BY <1>3 DEF InPlace
  <1>6. IsFiniteSet({f[key] : key \in K})
    BY <1>1, <1>4, ImageFinite
  <1> QED
    BY <1>2, <1>5, <1>6

(* The ranking of what is in effect has each once, the latest first.       *)
LEMMA RankedEntriesAre ==
  ASSUME NEW S, IsFiniteSet(S),
         \A x \in S : x.updated \in Int /\ x.key \in Int,
         \A x, y \in S : x.key = y.key => x = y
  PROVE  LET ranked == Ranked(S, LAMBDA l, r : l.updated > r.updated
                                               \/ (l.updated = r.updated /\ l.key < r.key))
         IN /\ ranked \in Seq(S) /\ ToSet(ranked) = S
            /\ \A i, j \in DOMAIN ranked : i < j => ranked[i].updated >= ranked[j].updated
  <1> DEFINE Before(l, r) == l.updated > r.updated \/ (l.updated = r.updated /\ l.key < r.key)
             a == [x \in S |-> -x.updated]
             b == [x \in S |-> x.key]
             before == [x \in S |-> {y \in S : Before(y, x)}]
             order == [i \in 1..Cardinality(S) |->
                         CHOOSE x \in S : Cardinality({y \in S : Before(y, x)}) = i - 1]
  <1>1. Ranked(S, LAMBDA l, r : l.updated > r.updated \/ (l.updated = r.updated /\ l.key < r.key))
        = order
    BY Zenon DEF Ranked
  <1>2. order = [i \in 1..Cardinality(S) |-> CHOOSE x \in S : Cardinality(before[x]) = i - 1]
    <2>1. \A x \in S : before[x] = {y \in S : Before(y, x)}
      OBVIOUS
    <2> HIDE DEF before, Before
    <2>2. \A i \in 1..Cardinality(S) :
            (CHOOSE x \in S : Cardinality(before[x]) = i - 1)
            = CHOOSE x \in S : Cardinality({y \in S : Before(y, x)}) = i - 1
      BY <2>1
    <2> QED
      BY <2>2
  <1> HIDE DEF order
  <1>3. Orders(S, a, b, b)
    <2>1. a \in [S -> Int] /\ b \in [S -> Int] /\ \A x, y \in S : b[x] = b[y] => x = y
      OBVIOUS
    <2> HIDE DEF a, b
    <2> QED
      BY <2>1 DEF Orders
  <1>4. \A x \in S : before[x] = {y \in S : Less(a, b, b, y, x)}
    <2>1. ASSUME NEW x \in S, NEW y \in S
          PROVE  Before(y, x) <=> Less(a, b, b, y, x)
      <3>1. /\ a[x] = -x.updated /\ a[y] = -y.updated /\ b[x] = x.key /\ b[y] = y.key
            /\ x.updated \in Int /\ y.updated \in Int /\ x.key \in Int /\ y.key \in Int
        OBVIOUS
      <3> QED
        BY ONLY <3>1 DEF Less, Before
    <2>2. \A x \in S : before[x] = {y \in S : Before(y, x)}
      OBVIOUS
    <2> HIDE DEF before, Before, a, b
    <2> QED
      BY <2>1, <2>2
  <1> HIDE DEF before
  <1>5. InOrder(order, S, a, b, b)
    <2> HIDE DEF a, b
    <2> QED
      BY <1>2, <1>3, <1>4, ChosenInOrder
  <1>6. order \in Seq(S) /\ ToSet(order) = S
    BY <1>5 DEF InOrder
  <1>7. ASSUME NEW i \in DOMAIN order, NEW j \in DOMAIN order, i < j
        PROVE  order[i].updated >= order[j].updated
    <2>1. Less(a, b, b, order[i], order[j])
      <3> HIDE DEF a, b
      <3> QED
        BY <1>5, <1>7 DEF InOrder
    <2>2. order[i] \in S /\ order[j] \in S
      BY <1>6, ElementsIn
    <2>3. /\ a[order[i]] = -order[i].updated /\ a[order[j]] = -order[j].updated
          /\ order[i].updated \in Int /\ order[j].updated \in Int
      BY <2>2
    <2> QED
      BY ONLY <2>1, <2>3 DEF Less
  <1> QED
    BY <1>1, <1>6, <1>7

(* What is told of it is in budget and no older than what is not told.     *)
LEMMA RenderIs ==
  ASSUME NEW entries, InPlace(entries), NEW most \in Nat, NEW chars \in Nat
  PROVE  LET told == Render(entries, most, chars) IN
         /\ InBudget(told, most, chars, TRUE)
         /\ \A x \in ToSet(told), y \in Effective(entries) \ ToSet(told) : x.updated >= y.updated
  <1> DEFINE S == Effective(entries)
             ranked == Ranked(S, LAMBDA l, r : l.updated > r.updated
                                               \/ (l.updated = r.updated /\ l.key < r.key))
             k == Len(ranked)
             fitting == {n \in 0..k : n <= most /\ (n <= 1 \/ Bytes(SubSeq(ranked, 1, n)) <= chars)}
             n == CHOOSE n \in fitting : \A m \in fitting : m <= n
             told == SubSeq(ranked, 1, n)
  <1>1. Render(entries, most, chars) = told
    BY Zenon DEF Render
  <1>2. /\ IsFiniteSet(S)
        /\ \A x \in S : x.bytes \in Nat /\ x.updated \in Int /\ x.key \in Int
        /\ \A x, y \in S : x.key = y.key => x = y
    BY EffectiveIs
  <1> HIDE DEF S
  <1>3. /\ ranked \in Seq(S) /\ ToSet(ranked) = S
        /\ \A i, j \in DOMAIN ranked : i < j => ranked[i].updated >= ranked[j].updated
    BY ONLY <1>2, RankedEntriesAre
  <1> HIDE DEF ranked
  <1>4. k \in Nat /\ DOMAIN ranked = 1..k
    BY <1>3, LenProperties
  <1>5. n \in fitting
    <2>1. fitting \subseteq Nat /\ 0 \in fitting /\ \A y \in fitting : y <= k
      BY <1>4
    <2> HIDE DEF fitting
    <2>2. Max(fitting) \in fitting /\ \A y \in fitting : Max(fitting) >= y
      BY <1>4, <2>1, BoundedMax
    <2> QED
      BY <2>2
  <1> HIDE DEF n
  <1>6. n \in 0..k /\ n <= most /\ (n <= 1 \/ Bytes(told) <= chars)
    BY <1>5
  <1>7. /\ DOMAIN told = 1..n /\ Len(told) = n /\ \A i \in 1..n : told[i] = ranked[i]
    BY <1>3, <1>4, <1>6
  <1>8. told = <<>> => Bytes(told) = 0
    BY <1>2, BytesAppend
  <1>9. n = 0 => told = <<>>
    BY <1>7
  <1> HIDE DEF told
  <1>10. InBudget(told, most, chars, TRUE)
    BY <1>6, <1>7, <1>8, <1>9 DEF InBudget
  <1>11. ASSUME NEW x \in ToSet(told), NEW y \in S \ ToSet(told)
         PROVE  x.updated >= y.updated
    <2>1. PICK i \in 1..n : x = ranked[i]
      BY <1>7 DEF ToSet
    <2>2. PICK j \in 1..k : y = ranked[j]
      BY <1>3, <1>4 DEF ToSet
    <2>3. j \notin 1..n
      BY <1>7, <1>11, <2>2 DEF ToSet
    <2>4. i \in 1..k /\ i < j
      BY <1>4, <1>6, <2>3
    <2> QED
      BY <1>3, <1>4, <2>1, <2>2, <2>4
  <1> QED
    BY <1>1, <1>10, <1>11 DEF S

(* Whatever calls are made on the store, in any order: what it holds and   *)
(* what a prompt is told of it are as MemoryIsScoped says.                 *)
THEOREM MemoriesAreScoped ==
  ASSUME NEW A, \A op \in A : IsOp(op), NEW ops \in Seq(A), NEW most \in Nat, NEW chars \in Nat
  PROVE  MemoryIsScoped(ops, most, chars)
  <1> DEFINE entries == After(ops)
             told == Render(entries, most, chars)
  <1>1. ForgetScope(entries, "task") = After(Outside(ops, "task"))
    BY ScopesLeaveNoTrace
  <1>2. /\ InPlace(entries)
        /\ \A id \in DOMAIN entries : \E i \in DOMAIN ops : LastSaid(ops, entries, id, i)
    BY AfterSaid
  <1> HIDE DEF entries
  <1>3. /\ InBudget(told, most, chars, TRUE)
        /\ \A x \in ToSet(told), y \in Effective(entries) \ ToSet(told) : x.updated >= y.updated
    BY <1>2, RenderIs
  <1>4. ASSUME NEW id \in DOMAIN entries, NEW i \in DOMAIN ops, LastSaid(ops, entries, id, i)
        PROVE  <<ops[i].scope, ops[i].key, ops[i].value>> = id \o <<entries[id].value>>
    <2> DEFINE v == entries[id].value
    <2>1. id = <<id[1], id[2]>>
      BY <1>2 DEF InPlace
    <2>2. ops[i].scope = id[1] /\ ops[i].key = id[2] /\ ops[i].value = v
      BY <1>4 DEF LastSaid
    <2> HIDE DEF v
    <2>3. <<id[1], id[2]>> \o <<v>> = <<id[1], id[2], v>>
      <3> DEFINE B == {id[1], id[2], v}
      <3>1. <<id[1], id[2]>> \in Seq(B) /\ v \in B
        OBVIOUS
      <3>2. Append(<<id[1], id[2]>>, v) = <<id[1], id[2]>> \o <<v>>
        BY <3>1, AppendIsConcat
      <3>3. Append(<<id[1], id[2]>>, v) = <<id[1], id[2], v>>
        <4> DEFINE s == <<id[1], id[2]>>
                   u == <<id[1], id[2], v>>
        <4>1. Len(s) = 2 /\ s[1] = id[1] /\ s[2] = id[2]
          OBVIOUS
        <4>2. u \in Seq(B) /\ Len(u) = 3 /\ u[1] = id[1] /\ u[2] = id[2] /\ u[3] = v
          OBVIOUS
        <4> HIDE DEF s, u
        <4>3. /\ Append(s, v) \in Seq(B) /\ Len(Append(s, v)) = 3
              /\ Append(s, v)[1] = id[1] /\ Append(s, v)[2] = id[2] /\ Append(s, v)[3] = v
          <5>1. s \in Seq(B)
            BY <3>1 DEF s
          <5>2. v \in B
            OBVIOUS
          <5> HIDE DEF B
          <5>3. /\ Append(s, v) \in Seq(B) /\ Len(Append(s, v)) = Len(s) + 1
                /\ \A k \in 1..Len(s) : Append(s, v)[k] = s[k]
                /\ Append(s, v)[Len(s) + 1] = v
            BY ONLY <5>1, <5>2, AppendHolds
          <5> QED
            BY ONLY <4>1, <5>3
        <4>4. Append(s, v) = u
          <5> HIDE DEF B
          <5>1. \A k \in 1..3 : k = 1 \/ k = 2 \/ k = 3
            OBVIOUS
          <5>2. \A k \in 1..Len(u) : Append(s, v)[k] = u[k]
            BY ONLY <4>2, <4>3, <5>1
          <5> QED
            BY ONLY <4>2, <4>3, <5>2, SeqEqual
        <4> QED
          BY <4>4 DEF s, u
      <3> QED
        BY <3>2, <3>3
    <2> QED
      BY <2>1, <2>2, <2>3 DEF v
  <1>5. \A id \in DOMAIN entries : \E i \in DOMAIN ops :
          /\ <<ops[i].scope, ops[i].key, ops[i].value>> = id \o <<entries[id].value>>
          /\ ops[i].do \in {"remember", "hydrate"} /\ ~ops[i].credential
          /\ \A j \in i + 1 .. Len(ops) : ops[j].scope = id[1] /\ ops[j].valid /\ ~ops[j].credential =>
               ops[j].do # "forgetScope" /\ ops[j].key # id[2]
    BY <1>2, <1>4 DEF LastSaid
  <1> HIDE DEF told
  <1> QED
    BY <1>1, <1>3, <1>5, Zenon DEF MemoryIsScoped, entries, told

-----------------------------------------------------------------------------
(* A term weighs something in a declaration just when it is found there.   *)
LEMMA FieldWeightIs ==
  ASSUME NEW symbol, NEW term
  PROVE  /\ FieldWeight(symbol, term) \in 0..6
         /\ FieldWeight(symbol, term) > 0
            <=> Overlaps(symbol.name \cup symbol.path \cup symbol.doc \cup symbol.signature, term)
  <1> DEFINE a == Overlaps(symbol.name, term)
             b == Overlaps(symbol.path, term)
             c == Overlaps(symbol.doc, term)
             d == Overlaps(symbol.signature, term)
  <1>1. /\ Overlaps(symbol.name \cup symbol.path, term) <=> a \/ b
        /\ Overlaps(symbol.name \cup symbol.path \cup symbol.doc, term) <=> a \/ b \/ c
        /\ Overlaps(symbol.name \cup symbol.path \cup symbol.doc \cup symbol.signature, term)
           <=> a \/ b \/ c \/ d
    BY DEF Overlaps
  <1> HIDE DEF a, b, c, d
  <1>2. CASE a
    <2>1. FieldWeight(symbol, term) = 6
      BY <1>1, <1>2 DEF FieldWeight, a, b, c, d
    <2> QED
      BY <1>1, <1>2, <2>1
  <1>3. CASE ~a /\ b
    <2>1. FieldWeight(symbol, term) = 3
      BY <1>1, <1>3 DEF FieldWeight, a, b, c, d
    <2> QED
      BY <1>1, <1>3, <2>1
  <1>4. CASE ~a /\ ~b /\ c
    <2>1. FieldWeight(symbol, term) = 2
      BY <1>1, <1>4 DEF FieldWeight, a, b, c, d
    <2> QED
      BY <1>1, <1>4, <2>1
  <1>5. CASE ~a /\ ~b /\ ~c /\ d
    <2>1. FieldWeight(symbol, term) = 1
      BY <1>1, <1>5 DEF FieldWeight, a, b, c, d
    <2> QED
      BY <1>1, <1>5, <2>1
  <1>6. CASE ~a /\ ~b /\ ~c /\ ~d
    <2>1. FieldWeight(symbol, term) = 0
      BY <1>1, <1>6 DEF FieldWeight, a, b, c, d
    <2> QED
      BY <1>1, <1>6, <2>1
  <1> QED
    BY <1>2, <1>3, <1>4, <1>5, <1>6

\* What the terms weigh in a declaration, and what one more adds.
TextWeight(symbol, terms) == FoldLeft(LAMBDA n, t : n + FieldWeight(symbol, t), 0, terms)
Weighs(symbol, A) == [n \in Nat |-> [t \in A |-> n + FieldWeight(symbol, t)]]

(* The terms are weighed one by one.                                       *)
LEMMA TextRun ==
  ASSUME NEW symbol, NEW A, NEW s \in Seq(A)
  PROVE  TextWeight(symbol, s) = Run(Weighs(symbol, A), 0, s)
  <1> DEFINE D == 1..Len(s)
             F == Weighs(symbol, A)
             Plus(n, i) == n + FieldWeight(symbol, s[i])
             w == CHOOSE g : g = [S \in SUBSET D |->
                    IF S = {} THEN 0 ELSE Plus(g[S \ {Max(S)}], Max(S))]
  <1>1. /\ Len(s) \in Nat /\ DOMAIN s = D
        /\ \A i \in D : s[i] \in A
        /\ \A S \in SUBSET D : S # {} => Max(S) \in D
    <2>1. Len(s) \in Nat /\ DOMAIN s = D /\ \A i \in D : s[i] \in A
      BY LenProperties, ElementOfSeq
    <2> QED
      BY <2>1, GreatestPosition
  <1>2. TextWeight(symbol, s) = w[D]
    BY <1>1 DEF TextWeight, FoldLeft, MapThenFoldSet
  <1>3. F \in [Nat -> [A -> Nat]]
    <2>1. ASSUME NEW n \in Nat, NEW t \in A
          PROVE  n + FieldWeight(symbol, t) \in Nat
      <3>1. FieldWeight(symbol, t) \in 0..6
        BY FieldWeightIs
      <3> QED
        BY <3>1
    <2> QED
      BY <2>1 DEF Weighs
  <1>4. \A n \in Nat, i \in D : F[n][s[i]] = Plus(n, i)
    BY <1>1 DEF Weighs
  <1> HIDE DEF F, Plus, D
  <1>5. PICK g \in [SUBSET D -> Nat] : Folds(g, F, 0, s)
    BY <1>3, FoldsExist DEF D
  <1>6. ASSUME NEW S \in SUBSET D
        PROVE  g[S] = IF S = {} THEN 0 ELSE Plus(g[S \ {Max(S)}], Max(S))
    <2>1. S \ {Max(S)} \in SUBSET D
      OBVIOUS
    <2>2. g[S \ {Max(S)}] \in Nat
      BY <2>1
    <2>3. g[S] = IF S = {} THEN 0 ELSE F[g[S \ {Max(S)}]][s[Max(S)]]
      BY <1>5 DEF Folds, D
    <2> QED
      BY <1>1, <1>4, <2>2, <2>3
  <1>7. g = [S \in SUBSET D |-> IF S = {} THEN 0 ELSE Plus(g[S \ {Max(S)}], Max(S))]
    <2>1. g = [S \in SUBSET D |-> g[S]]
      OBVIOUS
    <2> QED
      BY <1>6, <2>1
  <1>8. w = [S \in SUBSET D |-> IF S = {} THEN 0 ELSE Plus(w[S \ {Max(S)}], Max(S))]
    BY <1>7
  <1> HIDE DEF w
  <1>9. ASSUME NEW S \in SUBSET D
        PROVE  /\ S = {} => w[S] = 0
               /\ S # {} /\ w[S \ {Max(S)}] \in Nat => w[S] = F[w[S \ {Max(S)}]][s[Max(S)]]
    <2>1. w[S] = IF S = {} THEN 0 ELSE Plus(w[S \ {Max(S)}], Max(S))
      BY <1>8
    <2> QED
      BY <1>1, <1>4, <2>1
  <1>10. Folds(w, F, 0, s)
    BY <1>3, <1>9, FoldsTyped DEF D
  <1> QED
    BY <1>1, <1>2, <1>10, FoldsRun DEF F, D

(* They weigh at most six each, and something just when one is found.      *)
LEMMA TextWeightIs ==
  ASSUME NEW symbol, NEW A, NEW terms \in Seq(A)
  PROVE  /\ TextWeight(symbol, terms) \in Nat
         /\ TextWeight(symbol, terms) <= 6 * Len(terms)
         /\ TextWeight(symbol, terms) > 0
            <=> \E t \in ToSet(terms) :
                  Overlaps(symbol.name \cup symbol.path \cup symbol.doc \cup symbol.signature, t)
  <1> DEFINE F == Weighs(symbol, A)
             W(s) == TextWeight(symbol, s)
             Has(t) == Overlaps(symbol.name \cup symbol.path \cup symbol.doc \cup symbol.signature, t)
             T == {s \in Seq(A) : /\ W(s) \in Nat /\ W(s) <= 6 * Len(s)
                                  /\ W(s) > 0 <=> \E t \in ToSet(s) : Has(t)}
  <1>1. F \in [Nat -> [A -> Nat]]
    <2>1. ASSUME NEW n \in Nat, NEW t \in A
          PROVE  n + FieldWeight(symbol, t) \in Nat
      <3>1. FieldWeight(symbol, t) \in 0..6
        BY FieldWeightIs
      <3> QED
        BY <3>1
    <2> QED
      BY <2>1 DEF Weighs
  <1>2. \A n \in Nat, t \in A : F[n][t] = n + FieldWeight(symbol, t)
    BY DEF Weighs
  <1> HIDE DEF F
  <1>3. W(<<>>) = 0 /\ <<>> \in Seq(A)
    <2>1. <<>> \in Seq(A)
      BY EmptySeq
    <2>2. W(<<>>) = Run(F, 0, <<>>)
      BY ONLY <2>1, TextRun DEF F
    <2>3. Run(F, 0, <<>>) = 0
      BY ONLY RunEmpty
    <2> QED
      BY <2>1, <2>2, <2>3
  <1>4. ASSUME NEW s \in Seq(A), NEW t \in A
        PROVE  W(s) \in Nat /\ W(Append(s, t)) = W(s) + FieldWeight(symbol, t)
    <2>1. Append(s, t) \in Seq(A)
      BY AppendProperties
    <2>2. W(s) = Run(F, 0, s)
      BY ONLY s \in Seq(A), TextRun DEF F
    <2>3. W(Append(s, t)) = Run(F, 0, Append(s, t))
      BY ONLY <2>1, TextRun DEF F
    <2>4. Run(F, 0, Append(s, t)) = F[Run(F, 0, s)][t]
      BY ONLY s \in Seq(A), t \in A, RunAppend
    <2>5. Run(F, 0, s) \in Nat
      BY <1>1, RunTyped
    <2> QED
      BY <1>2, <2>2, <2>3, <2>4, <2>5
  <1> HIDE DEF W
  <1>5. <<>> \in T
    <2>1. ToSet(<<>>) = {} /\ Len(<<>>) = 0
      BY DEF ToSet
    <2> QED
      BY <1>3, <2>1
  <1>6. ASSUME NEW s \in Seq(A), NEW t \in A, s \in T
        PROVE  Append(s, t) \in T
    <2>1. /\ Append(s, t) \in Seq(A) /\ Len(Append(s, t)) = Len(s) + 1 /\ Len(s) \in Nat
          /\ ToSet(Append(s, t)) = ToSet(s) \cup {t}
      BY AppendHolds
    <2>2. FieldWeight(symbol, t) \in 0..6 /\ (FieldWeight(symbol, t) > 0 <=> Has(t))
      BY FieldWeightIs
    <2>3. W(s) \in Nat /\ W(Append(s, t)) = W(s) + FieldWeight(symbol, t)
      BY <1>4
    <2> HIDE DEF Has
    <2>4. W(s) <= 6 * Len(s) /\ (W(s) > 0 <=> \E u \in ToSet(s) : Has(u))
      BY <1>6
    <2>5. W(Append(s, t)) \in Nat /\ W(Append(s, t)) <= 6 * (Len(s) + 1)
      BY <2>1, <2>2, <2>3, <2>4
    <2>6. W(Append(s, t)) > 0 <=> W(s) > 0 \/ FieldWeight(symbol, t) > 0
      BY <2>2, <2>3
    <2>7. W(Append(s, t)) > 0 <=> \E u \in ToSet(Append(s, t)) : Has(u)
      BY <2>1, <2>2, <2>4, <2>6
    <2> QED
      BY <2>1, <2>5, <2>7
  <1> HIDE DEF T
  <1>7. Seq(A) \subseteq T
    BY <1>5, <1>6, SequenceInduction
  <1> QED
    BY <1>7 DEF T, W

-----------------------------------------------------------------------------
\* What is met after each round.
MetBy(code, files, n, g) ==
  /\ Met(code, files, n) = g[n]
  /\ g[0] = files
  /\ \A k \in 1..n : g[k] = g[k - 1] \cup Neighbours(code, g[k - 1])

(* Files are met in rounds, each from the files met before it.             *)
LEMMA MetTable ==
  ASSUME NEW code, NEW files, NEW n \in Nat
  PROVE  \E g : MetBy(code, files, n, g)
  <1> DEFINE Body(g, k) == IF k = 0 THEN files ELSE g[k - 1] \cup Neighbours(code, g[k - 1])
             T == {m \in Nat : \E g : g = [k \in 0..m |-> Body(g, k)]}
  <1>1. 0 \in T
    <2> DEFINE g == [k \in 0..0 |-> files]
    <2>1. g = [k \in 0..0 |-> Body(g, k)]
      OBVIOUS
    <2> QED
      BY <2>1
  <1>2. ASSUME NEW m \in Nat, m \in T
        PROVE  m + 1 \in T
    <2>1. PICK g : g = [k \in 0..m |-> Body(g, k)]
      BY <1>2
    <2> DEFINE h == [k \in 0..m + 1 |-> IF k \in 0..m THEN g[k] ELSE Body(g, k)]
    <2>2. \A k \in 0..m + 1 : k # 0 => k - 1 \in 0..m /\ h[k - 1] = g[k - 1]
      OBVIOUS
    <2>3. \A k \in 0..m : g[k] = Body(g, k)
      BY <2>1
    <2>4. \A k \in 0..m + 1 : h[k] = Body(h, k)
      BY <2>2, <2>3
    <2>5. h = [k \in 0..m + 1 |-> h[k]]
      OBVIOUS
    <2>6. h = [k \in 0..m + 1 |-> Body(h, k)]
      BY <2>4, <2>5
    <2> HIDE DEF h
    <2> QED
      BY <2>6, SMTT(60)
  <1>3. n \in T
    <2> HIDE DEF T
    <2>1. Nat \subseteq T
      BY <1>1, <1>2, Induction
    <2> QED
      BY <2>1
  <1> DEFINE p == CHOOSE g : g = [k \in 0..n |-> Body(g, k)]
  <1>4. p = [k \in 0..n |-> Body(p, k)]
    BY <1>3
  <1>5. Met(code, files, n) = p[n]
    BY DEF Met
  <1> HIDE DEF p
  <1>6. \A k \in 0..n : p[k] = Body(p, k)
    BY <1>4
  <1>7. p[0] = files /\ \A k \in 1..n : p[k] = p[k - 1] \cup Neighbours(code, p[k - 1])
    <2>1. 0 \in 0..n /\ \A k \in 1..n : k \in 0..n /\ k # 0
      OBVIOUS
    <2> QED
      BY <1>6, <2>1, Zenon
  <1> QED
    BY <1>5, <1>7, Zenon DEF MetBy

\* An import of one file by the other.
Joined(code, f, g) == {<<f, g>>, <<g, f>>} \cap code.imports # {}
\* The files a question names, and those a walk of so many steps leads to.
Reached(code, files, n) == files \cup {f \in code.files : Walk(code, files, f, n)}

(* A walk goes on with one more step along an import.                      *)
LEMMA WalksOn ==
  ASSUME NEW code, ImportsAmongFiles(code), NEW files, NEW n \in Nat,
         NEW f \in Reached(code, files, n), NEW g \in code.files, Joined(code, f, g)
  PROVE  Walk(code, files, g, n + 1)
  <1>1. f \in code.files
    BY DEF Joined, ImportsAmongFiles
  <1>2. CASE f \in files
    <2> DEFINE w == [i \in 0..1 |-> IF i = 0 THEN f ELSE g]
    <2>1. w \in [0..1 -> code.files] /\ w[0] = f /\ w[1] = g
      BY <1>1
    <2> HIDE DEF w
    <2>2. \A i \in 1..1 : {<<w[i - 1], w[i]>>, <<w[i], w[i - 1]>>} \cap code.imports # {}
      <3> SUFFICES ASSUME NEW i \in 1..1
                   PROVE  Joined(code, w[i - 1], w[i])
        BY DEF Joined
      <3>1. i = 1 /\ i - 1 = 0
        OBVIOUS
      <3> QED
        BY <2>1, <3>1
    <2>3. 1 \in 1..n + 1
      OBVIOUS
    <2> QED
      BY <1>2, <2>1, <2>2, <2>3 DEF Walk
  <1>3. CASE f \notin files
    <2>5. PICK k \in 1..n : \E w \in [0..k -> code.files] :
            /\ w[0] \in files /\ w[k] = f
            /\ \A i \in 1..k : {<<w[i - 1], w[i]>>, <<w[i], w[i - 1]>>} \cap code.imports # {}
      BY <1>3 DEF Reached, Walk
    <2>1. PICK w \in [0..k -> code.files] :
            /\ w[0] \in files /\ w[k] = f
            /\ \A i \in 1..k : {<<w[i - 1], w[i]>>, <<w[i], w[i - 1]>>} \cap code.imports # {}
      BY <2>5
    <2> DEFINE v == [i \in 0..k + 1 |-> IF i \in 0..k THEN w[i] ELSE g]
    <2>2. /\ v \in [0..k + 1 -> code.files]
          /\ \A i \in 0..k : v[i] = w[i]
          /\ v[k + 1] = g
      OBVIOUS
    <2> HIDE DEF v
    <2>3. v[0] \in files /\ k + 1 \in 1..n + 1
      BY <2>1, <2>2
    <2>4. ASSUME NEW i \in 1..k + 1
          PROVE  Joined(code, v[i - 1], v[i])
      <3>1. CASE i \in 1..k
        <4>1. i \in 0..k /\ i - 1 \in 0..k
          BY <3>1
        <4> QED
          BY <2>1, <2>2, <3>1, <4>1 DEF Joined
      <3>2. CASE i = k + 1
        <4>1. i - 1 = k /\ k \in 0..k
          BY <3>2
        <4> QED
          BY <2>1, <2>2, <3>2, <4>1
      <3> QED
        BY <3>1, <3>2
    <2> QED
      BY <2>2, <2>3, <2>4 DEF Walk, Joined
  <1> QED
    BY <1>2, <1>3

(* A walk comes from a file that a shorter one leads to.                   *)
LEMMA WalkedFrom ==
  ASSUME NEW code, NEW files, NEW n \in Nat, NEW g, Walk(code, files, g, n + 1)
  PROVE  \E f \in Reached(code, files, n) : Joined(code, f, g)
  <1>6. PICK k \in 1..n + 1 : \E w \in [0..k -> code.files] :
          /\ w[0] \in files /\ w[k] = g
          /\ \A i \in 1..k : {<<w[i - 1], w[i]>>, <<w[i], w[i - 1]>>} \cap code.imports # {}
    BY DEF Walk
  <1>1. PICK w \in [0..k -> code.files] :
          /\ w[0] \in files /\ w[k] = g
          /\ \A i \in 1..k : {<<w[i - 1], w[i]>>, <<w[i], w[i - 1]>>} \cap code.imports # {}
    BY <1>6
  <1>2. k \in 1..k /\ k - 1 \in 0..k
    OBVIOUS
  <1>3. Joined(code, w[k - 1], g)
    BY <1>1, <1>2 DEF Joined
  <1>4. CASE k = 1
    <2>1. k - 1 = 0
      BY <1>4
    <2> QED
      BY <1>1, <1>3, <2>1 DEF Reached
  <1>5. CASE k # 1
    <2> DEFINE v == [i \in 0..k - 1 |-> w[i]]
    <2>1. /\ k - 1 \in 1..n /\ k - 1 \in 0..k - 1 /\ 0 \in 0..k - 1
          /\ \A i \in 0..k - 1 : i \in 0..k
          /\ \A i \in 1..k - 1 : i \in 1..k /\ i \in 0..k - 1 /\ i - 1 \in 0..k - 1
      BY <1>5
    <2>2. v \in [0..k - 1 -> code.files] /\ \A i \in 0..k - 1 : v[i] = w[i]
      BY <2>1
    <2> HIDE DEF v
    <2>3. v[0] \in files /\ v[k - 1] = w[k - 1]
      BY <1>1, <2>1, <2>2
    <2>4. ASSUME NEW i \in 1..k - 1
          PROVE  {<<v[i - 1], v[i]>>, <<v[i], v[i - 1]>>} \cap code.imports # {}
      <3>1. v[i] = w[i] /\ v[i - 1] = w[i - 1] /\ i \in 1..k
        BY <2>1, <2>2
      <3> QED
        BY <1>1, <3>1
    <2>6. Walk(code, files, w[k - 1], n) /\ w[k - 1] \in code.files
      BY <1>2, <2>1, <2>2, <2>3, <2>4 DEF Walk
    <2> QED
      BY <1>3, <2>6 DEF Reached
  <1> QED
    BY <1>4, <1>5

(* What is met after n rounds is what a walk of at most n steps leads to.  *)
LEMMA MetIs ==
  ASSUME NEW code, ImportsAmongFiles(code), NEW files, NEW n \in Nat
  PROVE  Met(code, files, n) = Reached(code, files, n)
  <1>5. PICK g : MetBy(code, files, n, g)
    BY MetTable
  <1>1. /\ Met(code, files, n) = g[n]
        /\ g[0] = files
        /\ \A k \in 1..n : g[k] = g[k - 1] \cup Neighbours(code, g[k - 1])
    BY <1>5 DEF MetBy
  <1> DEFINE T == {k \in Nat : k <= n => g[k] = Reached(code, files, k)}
  <1>2. 0 \in T
    <2>1. ~ \E f : Walk(code, files, f, 0)
      BY DEF Walk
    <2> QED
      BY <1>1, <2>1 DEF Reached
  <1>3. ASSUME NEW k \in Nat, k \in T
        PROVE  k + 1 \in T
    <2> SUFFICES ASSUME k + 1 <= n
                 PROVE  g[k + 1] = Reached(code, files, k + 1)
      OBVIOUS
    <2>1. k + 1 \in 1..n /\ (k + 1) - 1 = k /\ g[k] = Reached(code, files, k)
      BY <1>3
    <2>2. g[k + 1] = Reached(code, files, k) \cup Neighbours(code, Reached(code, files, k))
      BY <1>1, <2>1
    <2>3. Neighbours(code, Reached(code, files, k))
          = {h \in code.files : \E f \in Reached(code, files, k) : Joined(code, f, h)}
      BY DEF Neighbours, Joined
    <2>4. \A f : Walk(code, files, f, k) => Walk(code, files, f, k + 1)
      BY DEF Walk
    <2>5. \A h \in code.files :
            (\E f \in Reached(code, files, k) : Joined(code, f, h)) <=> Walk(code, files, h, k + 1)
      BY WalksOn, WalkedFrom
    <2> QED
      BY <2>2, <2>3, <2>4, <2>5 DEF Reached
  <1> HIDE DEF T
  <1>4. n \in T
    BY <1>2, <1>3, Induction
  <1> QED
    BY <1>1, <1>4 DEF T

(* A file is met at most once, and at all when it is not named and a walk  *)
(* leads to it.                                                            *)
LEMMA HopsAre ==
  ASSUME NEW code, ImportsAmongFiles(code), NEW query, query.depth \in Nat, NEW file \in code.files
  PROVE  /\ Hops(code, query, file) = {} \/ \E n \in 1..query.depth : Hops(code, query, file) = {n}
         /\ Hops(code, query, file) # {}
            <=> file \notin query.files /\ Walk(code, query.files, file, query.depth)
  <1> DEFINE d == query.depth
             H == Hops(code, query, file)
             In(n) == file \in Reached(code, query.files, n)
  <1>1. H = {n \in 1..d : In(n) /\ ~In(n - 1)}
    <2>1. \A n \in 1..d : n \in Nat /\ n - 1 \in Nat
      OBVIOUS
    <2>2. \A n \in Nat : Met(code, query.files, n) = Reached(code, query.files, n)
      BY MetIs
    <2> QED
      BY <2>1, <2>2 DEF Hops
  <1>2. \A m, n \in Nat : m <= n /\ In(m) => In(n)
    <2>1. \A m, n \in Nat : m <= n /\ Walk(code, query.files, file, m) => Walk(code, query.files, file, n)
      BY DEF Walk
    <2> QED
      BY <2>1 DEF Reached
  <1>3. In(0) <=> file \in query.files
    BY DEF Reached, Walk
  <1>4. In(d) <=> file \in query.files \/ Walk(code, query.files, file, d)
    BY DEF Reached
  <1> HIDE DEF H, In
  <1>5. ASSUME NEW m \in H, NEW n \in H
        PROVE  m = n
    <2>1. m \in 1..d /\ n \in 1..d /\ In(m) /\ ~In(m - 1) /\ In(n) /\ ~In(n - 1)
      BY <1>1
    <2>2. m \in Nat /\ n \in Nat /\ m - 1 \in Nat /\ n - 1 \in Nat
      BY <2>1
    <2>3. ~(m <= n - 1) /\ ~(n <= m - 1)
      BY <1>2, <2>1, <2>2
    <2> QED
      BY <2>2, <2>3
  <1>6. ASSUME H # {}
        PROVE  In(d) /\ ~In(0)
    <2>1. PICK n \in 1..d : In(n) /\ ~In(n - 1)
      BY <1>1, <1>6
    <2>2. n \in Nat /\ n - 1 \in Nat /\ d \in Nat /\ n <= d /\ 0 <= n - 1
      BY <2>1
    <2> QED
      BY <1>2, <2>1, <2>2
  <1>7. ASSUME In(d), ~In(0)
        PROVE  H # {}
    <2> DEFINE T == {n \in Nat : n <= d /\ H = {} => ~In(n)}
    <2>1. 0 \in T
      BY <1>7
    <2>2. ASSUME NEW n \in Nat, n \in T
          PROVE  n + 1 \in T
      <3> SUFFICES ASSUME n + 1 <= d, H = {}
                   PROVE  ~In(n + 1)
        OBVIOUS
      <3>1. n + 1 \in 1..d /\ (n + 1) - 1 = n /\ ~In(n)
        BY <2>2
      <3> QED
        BY <1>1, <3>1
    <2> HIDE DEF T
    <2>3. d \in T
      BY <2>1, <2>2, Induction
    <2> QED
      BY <1>7, <2>3 DEF T
  <1>8. H = {} \/ \E n \in 1..d : H = {n}
    <2> SUFFICES ASSUME H # {}
                 PROVE  \E n \in 1..d : H = {n}
      OBVIOUS
    <2>1. PICK n \in 1..d : n \in H
      BY <1>1
    <2> QED
      BY <1>5, <2>1
  <1>9. H # {} <=> file \notin query.files /\ Walk(code, query.files, file, d)
    BY <1>3, <1>4, <1>6, <1>7
  <1> QED
    BY <1>8, <1>9 DEF H

-----------------------------------------------------------------------------
(* The unit of a score is large enough for every share to count.           *)
LEMMA UnitIs ==
  ASSUME NEW query, IsQuestion(query)
  PROVE  /\ Len(query.terms) \in Nat /\ Unit(query) \in Nat
         /\ Unit(query) >= 12 /\ Unit(query) >= 12 * Len(query.terms)
         /\ ExpandedBy(query, 1) = 8 * Unit(query)
         /\ \A n \in 1..4 : ExpandedBy(query, n) \in Nat /\ ExpandedBy(query, n) > 0
                            /\ ExpandedBy(query, n) <= 8 * Unit(query)
  <1> DEFINE l == Len(query.terms)
             u == Unit(query)
  <1>1. l \in Nat /\ (query.terms # <<>> => l >= 1) /\ (query.terms = <<>> => l = 0)
    <2>1. query.terms \in Seq(ToSet(query.terms))
      BY DEF IsQuestion
    <2> QED
      BY ONLY <2>1, EmptySeq, LenProperties
  <1>2. u = 12 * IF query.terms = <<>> THEN 1 ELSE l
    BY DEF Unit
  <1> HIDE DEF l, u
  <1>3. u \in Nat /\ u >= 12 /\ u >= 12 * l
    BY <1>1, <1>2
  <1>4. \A n \in 1..4 : ExpandedBy(query, n) = (8 * u) \div n
    BY DEF ExpandedBy, u
  <1>5. /\ (8 * u) \div 1 = 8 * u
        /\ (8 * u) \div 2 = 4 * u
        /\ (8 * u) \div 4 = 2 * u
    BY <1>3
  <1>6. (8 * u) \div 3 \in Nat /\ (8 * u) \div 3 > 0 /\ (8 * u) \div 3 <= 8 * u
    BY <1>3
  <1>7. \A n \in 1..4 : n = 1 \/ n = 2 \/ n = 3 \/ n = 4
    OBVIOUS
  <1>8. \A n \in 1..4 : /\ ExpandedBy(query, n) \in Nat /\ ExpandedBy(query, n) > 0
                        /\ ExpandedBy(query, n) <= 8 * u
    BY <1>3, <1>4, <1>5, <1>6, <1>7
  <1>9. ExpandedBy(query, 1) = 8 * u
    BY <1>4, <1>5
  <1> QED
    BY <1>1, <1>3, <1>8, <1>9 DEF l, u

\* What the hops at which a file is met add to a score.
ExpandedSum(query, hops) == FoldSet(LAMBDA n, total : total + ExpandedBy(query, n), 0, hops)

(* A file that is not met adds nothing.                                    *)
LEMMA NothingExpanded ==
  ASSUME NEW query
  PROVE  ExpandedSum(query, {}) = 0
  <1> DEFINE Body(g, S) == IF S = {} THEN 0
                           ELSE g[S \ {CHOOSE x \in S : TRUE}] + ExpandedBy(query, CHOOSE x \in S : TRUE)
             w == CHOOSE g : g = [S \in SUBSET {} |-> Body(g, S)]
  <1>1. ExpandedSum(query, {}) = w[{}]
    BY DEF ExpandedSum, FoldSet, MapThenFoldSet
  <1>2. \E g : g = [S \in SUBSET {} |-> Body(g, S)]
    <2> DEFINE g == [S \in SUBSET {} |-> 0]
    <2>1. \A S \in SUBSET {} : Body(g, S) = 0
      OBVIOUS
    <2> HIDE DEF Body
    <2>2. g = [S \in SUBSET {} |-> Body(g, S)]
      BY <2>1
    <2> QED
      BY <2>2
  <1>3. w = [S \in SUBSET {} |-> Body(w, S)]
    BY <1>2
  <1> HIDE DEF w
  <1>4. w[{}] = Body(w, {})
    BY <1>3
  <1> QED
    BY <1>1, <1>4

(* A file that is met at a hop adds the share of the hop.                  *)
LEMMA OnceExpanded ==
  ASSUME NEW query, NEW n, ExpandedBy(query, n) \in Nat
  PROVE  ExpandedSum(query, {n}) = ExpandedBy(query, n)
  <1> DEFINE Body(g, S) == IF S = {} THEN 0
                           ELSE g[S \ {CHOOSE x \in S : TRUE}] + ExpandedBy(query, CHOOSE x \in S : TRUE)
             w == CHOOSE g : g = [S \in SUBSET {n} |-> Body(g, S)]
  <1>1. ExpandedSum(query, {n}) = w[{n}]
    BY DEF ExpandedSum, FoldSet, MapThenFoldSet
  <1>2. /\ (CHOOSE x \in {n} : TRUE) = n
        /\ {n} \ {n} = {} /\ {n} # {}
        /\ \A S \in SUBSET {n} : S = {} \/ S = {n}
    OBVIOUS
  <1>3. \E g : g = [S \in SUBSET {n} |-> Body(g, S)]
    <2> DEFINE g == [S \in SUBSET {n} |-> IF S = {} THEN 0 ELSE ExpandedBy(query, n)]
    <2>1. g[{}] = 0
      OBVIOUS
    <2>2. Body(g, {n}) = g[{}] + ExpandedBy(query, n) /\ Body(g, {}) = 0
      BY <1>2
    <2>3. \A S \in SUBSET {n} : Body(g, S) = IF S = {} THEN 0 ELSE ExpandedBy(query, n)
      BY <1>2, <2>1, <2>2
    <2>4. g = [S \in SUBSET {n} |-> Body(g, S)]
      <3> HIDE DEF Body
      <3> QED
        BY <2>3
    <2> QED
      BY <2>4
  <1>4. w = [S \in SUBSET {n} |-> Body(w, S)]
    BY <1>3
  <1> HIDE DEF w
  <1>5. w[{}] = Body(w, {}) /\ w[{n}] = Body(w, {n})
    BY <1>4
  <1>6. w[{n}] = w[{}] + ExpandedBy(query, n) /\ w[{}] = 0
    BY <1>2, <1>5
  <1> QED
    BY <1>1, <1>6

(* What a file near the named ones adds.                                   *)
LEMMA ExpandedIs ==
  ASSUME NEW code, IsCode(code), NEW query, IsQuestion(query), NEW file \in code.files
  PROVE  /\ ExpandedSum(query, Hops(code, query, file)) \in Nat
         /\ ExpandedSum(query, Hops(code, query, file)) <= 8 * Unit(query)
         /\ ExpandedSum(query, Hops(code, query, file)) > 0
            <=> file \notin query.files /\ Walk(code, query.files, file, query.depth)
  <1> DEFINE H == Hops(code, query, file)
             x == ExpandedSum(query, H)
  <1>1. /\ H = {} \/ \E n \in 1..query.depth : H = {n}
        /\ H # {} <=> file \notin query.files /\ Walk(code, query.files, file, query.depth)
    <2>1. ImportsAmongFiles(code) /\ query.depth \in Nat
      BY DEF IsCode, IsQuestion
    <2> QED
      BY <2>1, HopsAre
  <1>2. /\ Unit(query) \in Nat
        /\ \A n \in 1..4 : ExpandedBy(query, n) \in Nat /\ ExpandedBy(query, n) > 0
                           /\ ExpandedBy(query, n) <= 8 * Unit(query)
    BY UnitIs
  <1> HIDE DEF H
  <1>3. CASE H = {}
    <2>1. x = 0
      BY <1>3, NothingExpanded
    <2> QED
      BY <1>1, <1>2, <1>3, <2>1 DEF H
  <1>4. CASE H # {}
    <2>1. PICK n \in 1..4 : H = {n}
      BY <1>1, <1>4 DEF IsQuestion
    <2>2. x = ExpandedBy(query, n)
      BY <1>2, <2>1, OnceExpanded
    <2> HIDE DEF x
    <2>3. x \in Nat /\ x > 0 /\ x <= 8 * Unit(query)
      BY <1>2, <2>2
    <2> QED
      BY <1>1, <1>4, <2>3 DEF x, H
  <1> QED
    BY <1>3, <1>4

(* What a declaration scores: something just when the question has to do   *)
(* with it, and more when the question names it than when it only shares   *)
(* its words or is near what is named.                                     *)
LEMMA ScoreIs ==
  ASSUME NEW code, IsCode(code), NEW query, IsQuestion(query), NEW s \in code.symbols
  PROVE  /\ RetrievalScore(code, query, s) \in Nat
         /\ RetrievalScore(code, query, s) > 0
            <=> \/ Named(query, s) \/ UsesNamed(code, query, s)
                \/ Near(code, query, s) /\ s.file \notin query.files
                \/ Says(query, s)
         /\ Named(query, s) => RetrievalScore(code, query, s) >= 40 * Unit(query)
         /\ ~Named(query, s) /\ ~UsesNamed(code, query, s)
            => RetrievalScore(code, query, s) <= 17 * Unit(query)
  <1> DEFINE u == Unit(query)
             l == Len(query.terms)
             Users == {i \in DOMAIN code.uses : code.uses[i].from = s.id /\ code.uses[i].to \in query.symbols}
             users == Cardinality(Users)
             weight == TextWeight(s, query.terms)
             shares == ExpandedSum(query, Hops(code, query, s.file))
             asked == IF s.id \in query.symbols THEN 100 * u ELSE 0
             filed == IF ~s.inner /\ s.file \in query.files THEN 40 * u ELSE 0
             near == IF s.inner \/ ~s.exported THEN 0 ELSE shares
             text == IF s.inner THEN 0 ELSE weight * (IF s.exported THEN 18 ELSE 12)
             using == 8 * u * users
  <1>1. /\ s.inner \in BOOLEAN /\ s.exported \in BOOLEAN /\ s.file \in code.files
        /\ IsFiniteSet(DOMAIN code.uses) /\ query.terms \in Seq(ToSet(query.terms))
    BY DEF IsCode, IsQuestion
  <1>2. u \in Nat /\ u >= 12 /\ l \in Nat /\ u >= 12 * l /\ ExpandedBy(query, 1) = 8 * u
    BY UnitIs
  <1>3. /\ shares \in Nat /\ shares <= 8 * u
        /\ shares > 0 <=> s.file \notin query.files /\ Walk(code, query.files, s.file, query.depth)
    BY <1>1, ExpandedIs
  <1>4. /\ weight \in Nat /\ weight <= 6 * l
        /\ weight > 0 <=> \E t \in ToSet(query.terms) :
                            Overlaps(s.name \cup s.path \cup s.doc \cup s.signature, t)
    BY <1>1, TextWeightIs
  <1>5. users \in Nat /\ (users > 0 <=> UsesNamed(code, query, s))
    <2>1. IsFiniteSet(Users)
      BY <1>1, FS_Subset
    <2>2. Users # {} <=> UsesNamed(code, query, s)
      BY DEF UsesNamed, ToSet
    <2> HIDE DEF Users
    <2>3. users \in Nat /\ (users = 0 <=> Users = {})
      BY <2>1, FS_CardinalityType, FS_EmptySet
    <2> QED
      BY <2>2, <2>3
  <1>6. RetrievalScore(code, query, s) = asked + ExpandedBy(query, 1) * users + filed + near + text
    BY DEF RetrievalScore, SeedScore, TextScore, TextWeight, ExpandedSum, SeedSymbol, SeedFile
  <1> HIDE DEF u, l, users, weight, shares, Users
  <1>7. using \in Nat /\ (using > 0 <=> users > 0)
    <2>1. CASE users = 0
      BY <1>2, <2>1
    <2>2. CASE users # 0
      <3>1. users - 1 \in Nat
        BY <1>5, <2>2
      <3>2. 8 * u * (users - 1) \in Nat /\ using = 8 * u * (users - 1) + 8 * u
        BY <1>2, <1>5, <3>1
      <3> QED
        BY <1>2, <1>5, <2>2, <3>2
    <2> QED
      BY <2>1, <2>2
  <1>8. /\ asked \in Nat /\ (asked > 0 <=> s.id \in query.symbols)
        /\ s.id \in query.symbols => asked >= 40 * u
        /\ s.id \notin query.symbols => asked = 0
    BY <1>2
  <1>9. /\ filed \in Nat /\ (filed > 0 <=> ~s.inner /\ s.file \in query.files)
        /\ ~s.inner /\ s.file \in query.files => filed >= 40 * u
        /\ ~(~s.inner /\ s.file \in query.files) => filed = 0
    BY <1>2
  <1>10. near \in Nat /\ near <= 8 * u /\ (near > 0 <=> Near(code, query, s) /\ s.file \notin query.files)
    <2>1. /\ s.inner \/ ~s.exported => near = 0
          /\ ~s.inner /\ s.exported => near = shares
      OBVIOUS
    <2>2. Near(code, query, s) <=> ~s.inner /\ s.exported /\ Walk(code, query.files, s.file, query.depth)
      BY DEF Near
    <2> HIDE DEF near
    <2>3. near \in Nat /\ near <= 8 * u
      BY <1>1, <1>2, <1>3, <2>1
    <2>4. near > 0 <=> ~s.inner /\ s.exported /\ shares > 0
      BY <1>1, <1>3, <2>1
    <2> QED
      BY <1>3, <2>2, <2>3, <2>4
  <1>11. text \in Nat /\ text <= 9 * u /\ (text > 0 <=> Says(query, s))
    <2>1. /\ weight * 18 \in Nat /\ weight * 12 \in Nat /\ weight * 18 <= 9 * u /\ weight * 12 <= 9 * u
          /\ weight * 18 > 0 <=> weight > 0
          /\ weight * 12 > 0 <=> weight > 0
      BY <1>2, <1>4
    <2>2. text \in Nat /\ text <= 9 * u /\ (text > 0 <=> ~s.inner /\ weight > 0)
      BY <1>1, <1>2, <2>1
    <2> HIDE DEF text
    <2> QED
      BY <1>4, <2>2 DEF Says
  <1>12. RetrievalScore(code, query, s) = asked + using + filed + near + text
    BY <1>2, <1>5, <1>6
  <1>13. Named(query, s) <=> s.id \in query.symbols \/ (~s.inner /\ s.file \in query.files)
    BY DEF Named
  <1> HIDE DEF asked, using, filed, near, text
  <1>14. /\ RetrievalScore(code, query, s) \in Nat
         /\ RetrievalScore(code, query, s) > 0
            <=> asked > 0 \/ using > 0 \/ filed > 0 \/ near > 0 \/ text > 0
         /\ RetrievalScore(code, query, s) >= asked
         /\ RetrievalScore(code, query, s) >= filed
         /\ asked = 0 /\ using = 0 /\ filed = 0 => RetrievalScore(code, query, s) <= 17 * u
    BY <1>2, <1>7, <1>8, <1>9, <1>10, <1>11, <1>12
  <1>15. Named(query, s) => RetrievalScore(code, query, s) >= 40 * u
    BY <1>2, <1>8, <1>9, <1>13, <1>14
  <1>16. ~Named(query, s) /\ ~UsesNamed(code, query, s) => RetrievalScore(code, query, s) <= 17 * u
    BY <1>5, <1>7, <1>8, <1>9, <1>13, <1>14
  <1>17. RetrievalScore(code, query, s) > 0
         <=> \/ Named(query, s) \/ UsesNamed(code, query, s)
             \/ Near(code, query, s) /\ s.file \notin query.files
             \/ Says(query, s)
    BY <1>5, <1>7, <1>8, <1>9, <1>10, <1>11, <1>13, <1>14
  <1> QED
    BY <1>14, <1>15, <1>16, <1>17 DEF u

(* The ranking of declarations has each that scores once, by score.        *)
LEMMA RankedSymbolsAre ==
  ASSUME NEW code, IsCode(code), NEW query, IsQuestion(query)
  PROVE  ByScore(RankedSymbols(code, query), code.symbols,
                 [s \in code.symbols |-> RetrievalScore(code, query, s)])
  <1> DEFINE symbols == code.symbols
             score == [s \in symbols |-> RetrievalScore(code, query, s)]
             S == Scoring(symbols, score)
             Before(l, r) == l.score > r.score \/ (l.score = r.score /\ l.of.id < r.of.id)
             scored == {[of |-> s, score |-> RetrievalScore(code, query, s)] : s \in symbols}
             P == {e \in scored : e.score > 0}
             a == [e \in S |-> -e.score]
             b == [e \in S |-> e.of.id]
             c == [e \in S |-> e.of.id]
             before == [x \in S |-> {y \in S : Before(y, x)}]
             order == [i \in 1..Cardinality(P) |->
                         CHOOSE x \in P : Cardinality({y \in P : Before(y, x)}) = i - 1]
             ranked == [i \in DOMAIN order |-> order[i].of]
  <1>1. RankedSymbols(code, query) = ranked
    BY Zenon DEF RankedSymbols, Ranked
  <1>2. \A s \in symbols : score[s] = RetrievalScore(code, query, s) /\ score[s] \in Nat
    BY ScoreIs
  <1>12. /\ IsFiniteSet(symbols) /\ \A s \in symbols : s.id \in Int
         /\ \A s, t \in symbols : s.id = t.id => s = t
    BY DEF IsCode
  <1> HIDE DEF symbols
  <1>3. score \in [symbols -> Int]
    BY <1>2
  <1>4. P = S
    BY DEF Scoring
  <1>5. \A e \in S : /\ e.of \in symbols /\ e.score = score[e.of] /\ e.score \in Nat
                     /\ e = [of |-> e.of, score |-> score[e.of]]
                     /\ e.of.id \in Int
    <2> HIDE DEF score
    <2> QED
      BY <1>2, <1>12 DEF Scoring
  <1>6. IsFiniteSet(S)
    <2>1. IsFiniteSet({[of |-> s, score |-> score[s]] : s \in symbols})
      <3> DEFINE f == [s \in symbols |-> [of |-> s, score |-> score[s]]]
      <3> HIDE DEF score
      <3>1. IsFiniteSet({f[s] : s \in symbols})
        BY <1>12, ImageFinite
      <3>2. {f[s] : s \in symbols} = {[of |-> s, score |-> score[s]] : s \in symbols}
        OBVIOUS
      <3> QED
        BY <3>1, <3>2
    <2> HIDE DEF score
    <2> QED
      BY <2>1, FS_Subset DEF Scoring
  <1>7. order = [i \in 1..Cardinality(S) |-> CHOOSE x \in S : Cardinality(before[x]) = i - 1]
    <2>1. \A x \in S : before[x] = {y \in S : Before(y, x)}
      OBVIOUS
    <2>2. order = [i \in 1..Cardinality(S) |->
                     CHOOSE x \in S : Cardinality({y \in S : Before(y, x)}) = i - 1]
      <3> HIDE DEF P, S, Before
      <3> QED
        BY ONLY <1>4 DEF order
    <2> HIDE DEF before, S, Before, order, P
    <2>3. \A i \in 1..Cardinality(S) :
            (CHOOSE x \in S : Cardinality(before[x]) = i - 1)
            = CHOOSE x \in S : Cardinality({y \in S : Before(y, x)}) = i - 1
      BY <2>1
    <2> QED
      BY <2>2, <2>3
  <1> HIDE DEF order, score, S
  <1>8. Orders(S, a, b, c)
    <2>1. a \in [S -> Int] /\ b \in [S -> Int] /\ c \in [S -> Int]
      BY <1>5
    <2>2. \A x, y \in S : c[x] = c[y] => x = y
      <3>1. \A x, y \in S : x.of.id = y.of.id => x.of = y.of
        BY <1>5, <1>12
      <3> QED
        BY <1>5, <3>1
    <2> HIDE DEF a, b, c
    <2> QED
      BY <2>1, <2>2 DEF Orders
  <1>9. \A x \in S : before[x] = {y \in S : Less(a, b, c, y, x)}
    <2>1. ASSUME NEW x \in S, NEW y \in S
          PROVE  Before(y, x) <=> Less(a, b, c, y, x)
      <3>1. a[x] = -x.score /\ a[y] = -y.score /\ b[x] = x.of.id /\ b[y] = y.of.id
            /\ c[x] = x.of.id /\ c[y] = y.of.id /\ x.score \in Nat /\ y.score \in Nat
        BY <1>5
      <3> QED
        BY ONLY <3>1 DEF Less, Before
    <2>2. \A x \in S : before[x] = {y \in S : Before(y, x)}
      OBVIOUS
    <2> HIDE DEF before, Before, a, b, c
    <2> QED
      BY <2>1, <2>2
  <1> HIDE DEF before, b, c
  <1>10. InOrder(order, S, a, b, c)
    <2> HIDE DEF a
    <2> QED
      BY <1>6, <1>7, <1>8, <1>9, ChosenInOrder
  <1>11. ByScore(ranked, symbols, score)
    <2>1. InOrder(order, Scoring(symbols, score), a, b, c)
      BY <1>10 DEF S
    <2>3. \A e \in Scoring(symbols, score) : a[e] = -e.score
      BY DEF S
    <2>2. ranked = [i \in DOMAIN order |-> order[i].of]
      OBVIOUS
    <2> HIDE DEF ranked, a, Before, P
    <2> QED
      BY ONLY <1>3, <2>1, <2>2, <2>3, ScoredInOrder
  <1> QED
    BY <1>1, <1>11 DEF score, symbols

(* A question about any index gets the declarations it has to do with,     *)
(* within its budget, those it names before those that only share its      *)
(* words (retrieve()).  The shares of a score are whole up to four hops.   *)
THEOREM RetrievalsAreRelevant ==
  ASSUME NEW code, IsCode(code), NEW query, IsQuestion(query)
  PROVE  RetrievalIsRelevant(code, query)
  <1> DEFINE score == [s \in code.symbols |-> RetrievalScore(code, query, s)]
             ranked == RankedSymbols(code, query)
             items == Retrieve(code, query)
             Fit(s) == \/ Named(query, s) \/ UsesNamed(code, query, s)
                       \/ Near(code, query, s) /\ s.file \notin query.files
                       \/ Says(query, s)
  <1>1. ByScore(ranked, code.symbols, score)
    BY RankedSymbolsAre
  <1>2. items = Filled(ranked, query.maxItems, query.maxBytes, FALSE)
    BY DEF Retrieve
  <1> HIDE DEF ranked, items
  <1>3. \A s \in code.symbols : score[s] = RetrievalScore(code, query, s)
    OBVIOUS
  <1> HIDE DEF score
  <1>4. /\ ranked \in Seq(code.symbols) /\ IsInjective(ranked)
        /\ ToSet(ranked) = {s \in code.symbols : RetrievalScore(code, query, s) > 0}
    BY <1>1, <1>3 DEF ByScore
  <1>5. /\ \A s \in code.symbols : s.bytes \in Nat
        /\ query.maxItems \in Nat /\ query.maxBytes \in Nat
    BY DEF IsCode, IsQuestion
  <1>6. FilledSoFar(items, ranked, query.maxItems, query.maxBytes, FALSE)
    BY <1>2, <1>4, <1>5, FilledIs
  <1>7. /\ InBudget(items, query.maxItems, query.maxBytes, FALSE)
        /\ NothingHasRoom(items, ToSet(ranked) \ ToSet(items), query.maxItems, query.maxBytes)
        /\ NothingOvertakes(items, ranked)
    BY <1>6 DEF FilledSoFar
  <1>8. ToSet(ranked) = {s \in code.symbols : Fit(s)}
    <2>1. \A s \in code.symbols : RetrievalScore(code, query, s) > 0 <=> Fit(s)
      BY ScoreIs
    <2> HIDE DEF Fit
    <2> QED
      BY <1>4, <2>1
  <1>9. ASSUME NEW i \in DOMAIN ranked, NEW j \in DOMAIN ranked, Named(query, ranked[i]),
               ~Named(query, ranked[j]), ~UsesNamed(code, query, ranked[j])
        PROVE  i < j
    <2>1. ranked[i] \in code.symbols /\ ranked[j] \in code.symbols
      BY <1>4, ElementsIn
    <2>2. Unit(query) \in Nat /\ Unit(query) >= 12
      BY UnitIs
    <2>3. /\ RetrievalScore(code, query, ranked[i]) \in Nat
          /\ RetrievalScore(code, query, ranked[j]) \in Nat
          /\ RetrievalScore(code, query, ranked[i]) >= 40 * Unit(query)
          /\ RetrievalScore(code, query, ranked[j]) <= 17 * Unit(query)
      BY <1>9, <2>1, ScoreIs
    <2>4. score[ranked[i]] > score[ranked[j]]
      BY <1>3, <2>1, <2>2, <2>3
    <2> QED
      BY <1>1, <2>4 DEF ByScore
  <1> QED
    BY <1>7, <1>8, <1>9 DEF RetrievalIsRelevant, ranked, items
=============================================================================
