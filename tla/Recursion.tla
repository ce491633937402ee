----------------------------- MODULE Recursion -----------------------------
(***************************************************************************)
(* Induction and recursion over intervals of natural numbers and over      *)
(* sequences, without an operator for a parameter: the property is a set,  *)
(* the step a function.                                                    *)
(***************************************************************************)
EXTENDS Naturals, Sequences, SequencesExt, SequenceTheorems, WellFoundedInduction, TLAPS

(* A set that 0 is in, and n + 1 with every n, holds all numbers: the      *)
(* least one it did not hold would have a predecessor in it.               *)
LEMMA SetInduction ==
    ASSUME NEW T, 0 \in T, \A n \in Nat : n \in T => n + 1 \in T
    PROVE  \A n \in Nat : n \in T
<1>. DEFINE R == OpToRel(<, Nat)
            C == Nat \ T
<1>. SUFFICES ASSUME C # {} PROVE FALSE
  OBVIOUS
<1>1. IsWellFoundedOn(R, Nat)
  BY NatLessThanWellFounded
<1>2. \A x, y \in Nat : x < y => <<x, y>> \in R
  BY DEF OpToRel
<1>. HIDE DEF R
<1>3. C \subseteq Nat
  OBVIOUS
<1>4. PICK x \in C : \A y \in C : ~(<<y, x>> \in R)
  BY <1>1, <1>3, WFMin
<1>5. x \in Nat /\ x # 0
  OBVIOUS
<1>6. x - 1 \in Nat /\ x - 1 < x /\ (x - 1) + 1 = x
  BY <1>5
<1>7. <<x - 1, x>> \in R
  BY <1>2, <1>5, <1>6
<1>8. x - 1 \in T
  BY <1>4, <1>6, <1>7
<1>9. QED
  BY <1>6, <1>8

(* The function that starts with c at m and goes on with e. *)
Recursive(g, m, n, V, c, e) ==
    /\ g \in [m..n -> V]
    /\ \A i \in m..n : g[i] = IF i = m THEN c ELSE e[i][g[i-1]]

(* There is one on every interval. *)
LEMMA IntervalRecursion ==
    ASSUME NEW m \in Nat, NEW V, NEW c \in V, NEW e \in [Nat -> [V -> V]]
    PROVE  \A n \in Nat : n >= m => \E g : Recursive(g, m, n, V, c, e)
<1>. DEFINE T == {k \in Nat : \E g : Recursive(g, m, m + k, V, c, e)}
<1>1. 0 \in T
  <2>1. Recursive([i \in m..m |-> c], m, m, V, c, e)
    BY DEF Recursive
  <2>2. m + 0 = m
    OBVIOUS
  <2>3. QED
    BY <2>1, <2>2
<1>2. ASSUME NEW k \in Nat, k \in T PROVE k + 1 \in T
  <2>. DEFINE n == m + k
  <2>0. n \in Nat /\ m <= n /\ m + (k + 1) = n + 1
    OBVIOUS
  <2>1. PICK g : Recursive(g, m, n, V, c, e)
    BY <1>2
  <2>. HIDE DEF n
  <2>2. /\ g \in [m..n -> V] /\ g[n] \in V /\ e[n + 1][g[n]] \in V
        /\ \A i \in m..n : g[i] = IF i = m THEN c ELSE e[i][g[i-1]]
    BY <2>0, <2>1 DEF Recursive
  <2>. DEFINE h == [i \in m..n+1 |-> IF i <= n THEN g[i] ELSE e[n + 1][g[n]]]
  <2>3. h \in [m..n+1 -> V]
    BY <2>0, <2>2
  <2>4. ASSUME NEW i \in m..n+1
        PROVE  h[i] = IF i = m THEN c ELSE e[i][h[i-1]]
    <3>1. CASE i <= n
      <4>1. i \in m..n /\ h[i] = g[i]
        BY <2>0, <3>1
      <4>2. i # m => h[i-1] = g[i-1]
        BY <2>0, <3>1
      <4>3. QED
        BY <2>2, <4>1, <4>2
    <3>2. CASE i = n + 1
      <4>1. h[i] = e[i][g[n]] /\ h[i-1] = g[n] /\ i # m
        BY <2>0, <3>2
      <4>2. QED
        BY <4>1
    <3>3. QED
      BY <2>0, <3>1, <3>2
  <2>5. Recursive(h, m, n + 1, V, c, e)
    <3>. HIDE DEF h
    <3>. QED BY <2>3, <2>4 DEF Recursive
  <2>6. QED
    BY <2>0, <2>5
<1>. HIDE DEF T
<1>3. \A k \in Nat : k \in T
  BY <1>1, <1>2, SetInduction
<1>4. QED
  <2>. SUFFICES ASSUME NEW n \in Nat, n >= m
                PROVE  \E g : Recursive(g, m, n, V, c, e)
    OBVIOUS
  <2>1. n - m \in Nat /\ m + (n - m) = n
    OBVIOUS
  <2>2. n - m \in T
    BY <1>3, <2>1
  <2>3. QED
    BY <2>1, <2>2 DEF T
(* The step repeated any number of times, beginning with c. *)
Iterates(g, V, c, step) ==
    /\ g \in [Nat -> V]
    /\ g[0] = c
    /\ \A n \in Nat : g[n + 1] = step[g[n]]

LEMMA Iteration ==
    ASSUME NEW V, NEW c \in V, NEW step \in [V -> V]
    PROVE  \E g : Iterates(g, V, c, step)
<1>. DEFINE e == [n \in Nat |-> step]
            R(h, n) == Recursive(h, 0, n, V, c, e)
            one == [n \in Nat |-> CHOOSE h : R(h, n)]
            g == [n \in Nat |-> one[n][n]]
<1>1. e \in [Nat -> [V -> V]] /\ \A n \in Nat : e[n] = step
  OBVIOUS
<1>. HIDE DEF e
<1>2. ASSUME NEW n \in Nat PROVE R(one[n], n)
  <2>1. \E h : R(h, n)
    BY <1>1, 0 \in Nat, n >= 0, IntervalRecursion
  <2>. HIDE DEF R
  <2>2. R(CHOOSE h : R(h, n), n)
    BY <2>1
  <2>3. QED
    BY <2>2
<1>. HIDE DEF one
<1>3. ASSUME NEW n \in Nat
      PROVE  /\ one[n] \in [0..n -> V] /\ one[n][0] = c
             /\ \A i \in 1..n : one[n][i] = step[one[n][i-1]]
  <2>1. Recursive(one[n], 0, n, V, c, e)
    BY <1>2
  <2>2. /\ one[n] \in [0..n -> V]
        /\ \A i \in 0..n : one[n][i] = IF i = 0 THEN c ELSE e[i][one[n][i-1]]
    BY <2>1 DEF Recursive
  <2>3. 0 \in 0..n /\ \A i \in 1..n : i \in 0..n /\ i # 0 /\ i \in Nat
    OBVIOUS
  <2>4. QED
    BY <1>1, <2>2, <2>3
<1>4. ASSUME NEW n \in Nat PROVE one[n + 1][n] = one[n][n]
  <2>. DEFINE I == {i \in Nat : i <= n => one[n + 1][i] = one[n][i]}
  <2>1. 0 \in I
    BY <1>3
  <2>2. ASSUME NEW i \in Nat, i \in I PROVE i + 1 \in I
    <3>. DEFINE k == i + 1
    <3>. SUFFICES ASSUME k <= n PROVE one[n + 1][k] = one[n][k]
      OBVIOUS
    <3>1. /\ k \in 1..n /\ k \in 1..n+1 /\ k - 1 = i /\ n + 1 \in Nat
          /\ one[n + 1][i] = one[n][i]
      BY <2>2
    <3>. HIDE DEF k
    <3>2. QED
      BY <1>3, <3>1
  <2>. HIDE DEF I
  <2>3. n \in I
    BY <2>1, <2>2, SetInduction
  <2>4. QED
    BY <2>3 DEF I
<1>5. g \in [Nat -> V]
  <2>1. ASSUME NEW n \in Nat PROVE one[n][n] \in V
    BY <1>3, n \in 0..n
  <2>2. QED
    BY <2>1
<1>6. g[0] = c
  BY <1>3
<1>7. ASSUME NEW n \in Nat PROVE g[n + 1] = step[g[n]]
  <2>1. n + 1 \in Nat /\ n + 1 \in 1..n+1 /\ (n + 1) - 1 = n
    OBVIOUS
  <2>2. one[n + 1][n + 1] = step[one[n + 1][n]]
    BY <1>3, <2>1
  <2>3. QED
    BY <1>4, <2>1, <2>2
<1>. HIDE DEF g
<1>8. QED
  BY <1>5, <1>6, <1>7 DEF Iterates

-----------------------------------------------------------------------------

(* A set that the empty sequence is in, and Append(s, x) with every s,     *)
(* holds all sequences.                                                    *)
LEMMA SeqInduction ==
    ASSUME NEW S, NEW T, <<>> \in T,
           \A s \in Seq(S), x \in S : s \in T => Append(s, x) \in T
    PROVE  \A s \in Seq(S) : s \in T
<1>. DEFINE N == {n \in Nat : \A s \in Seq(S) : Len(s) = n => s \in T}
<1>1. 0 \in N
  OBVIOUS
<1>2. ASSUME NEW n \in Nat, n \in N PROVE n + 1 \in N
  <2>. SUFFICES ASSUME NEW s \in Seq(S), Len(s) = n + 1 PROVE s \in T
    OBVIOUS
  <2>1. s # <<>>
    OBVIOUS
  <2>2. PICK t \in Seq(S), x \in S : s = Append(t, x)
    BY <2>1, SequenceEmptyOrAppend
  <2>3. Len(t) = n
    BY <2>2
  <2>4. QED
    BY <1>2, <2>2, <2>3
<1>. HIDE DEF N
<1>3. \A n \in Nat : n \in N
  BY <1>1, <1>2, SetInduction
<1>4. QED
  BY <1>3 DEF N

(* The images of the elements of s, put together up to each of them. *)
IsConcat(h, img, s) ==
    /\ h[0] = <<>>
    /\ \A n \in 1..Len(s) : h[n] = h[n-1] \o img[s[n]]

LEMMA ConcatFunction ==
    ASSUME NEW S, NEW T, NEW img \in [S -> Seq(T)], NEW s \in Seq(S)
    PROVE  \E h \in [0..Len(s) -> Seq(T)] : IsConcat(h, img, s)
<1>. DEFINE N == Len(s)
            V == Seq(T)
            Add(n, x) == IF n \in 1..N THEN x \o img[s[n]] ELSE x
            e == [n \in Nat |-> [x \in V |-> Add(n, x)]]
<1>1. N \in Nat /\ \A n \in 1..N : img[s[n]] \in V
  OBVIOUS
<1>2. ASSUME NEW n \in Nat, NEW x \in V PROVE Add(n, x) \in V
  BY <1>1, ConcatProperties
<1>. HIDE DEF V, N, Add
<1>3. e \in [Nat -> [V -> V]]
  BY <1>2
<1>4. <<>> \in V
  BY DEF V
<1>. HIDE DEF e
<1>5. PICK g : Recursive(g, 0, N, V, <<>>, e)
  BY <1>1, <1>3, <1>4, 0 \in Nat, N >= 0, IntervalRecursion
<1>6. g \in [0..N -> V]
  BY <1>5 DEF Recursive
<1>7. g[0] = <<>>
  BY <1>1, <1>5, 0 \in 0..N DEF Recursive
<1>8. ASSUME NEW n \in 1..N PROVE g[n] = g[n-1] \o img[s[n]]
  <2>1. n \in Nat /\ n \in 0..N /\ n - 1 \in 0..N /\ n # 0 /\ g[n-1] \in V
    BY <1>1, <1>6
  <2>2. g[n] = e[n][g[n-1]]
    BY <1>5, <2>1 DEF Recursive
  <2>3. e[n] = [x \in V |-> Add(n, x)]
    BY <2>1 DEF e
  <2>4. e[n][g[n-1]] = Add(n, g[n-1])
    BY <2>1, <2>3
  <2>5. QED
    BY <2>2, <2>4 DEF Add
<1>9. QED
  BY <1>6, <1>7, <1>8 DEF IsConcat, N, V

(* Sequences that begin alike have images that do. *)
LEMMA ConcatUnique ==
    ASSUME NEW img, NEW s, NEW t, NEW g, NEW h,
           IsConcat(g, img, s), IsConcat(h, img, t),
           NEW N \in Nat, Len(s) \in Nat, Len(t) \in Nat,
           N <= Len(s), N <= Len(t), \A n \in 1..N : s[n] = t[n]
    PROVE  g[N] = h[N]
<1>. DEFINE I == {n \in Nat : n <= N => g[n] = h[n]}
<1>1. 0 \in I
  BY DEF IsConcat
<1>2. ASSUME NEW n \in Nat, n \in I PROVE n + 1 \in I
  <2>. SUFFICES ASSUME n + 1 <= N PROVE g[n + 1] = h[n + 1]
    OBVIOUS
  <2>. DEFINE m == n + 1
  <2>1. /\ m \in 1..N /\ m \in 1..Len(s) /\ m \in 1..Len(t)
        /\ m - 1 = n /\ g[n] = h[n]
    BY <1>2
  <2>. HIDE DEF m
  <2>2. g[m] = h[m]
    BY <2>1 DEF IsConcat
  <2>3. QED
    BY <2>2 DEF m
<1>. HIDE DEF I
<1>3. N \in I
  BY <1>1, <1>2, SetInduction
<1>4. QED
  BY <1>3 DEF I

(* The images of all elements of s, put together. *)
Flat(img, s) == (CHOOSE h : IsConcat(h, img, s))[Len(s)]

LEMMA FlatIs ==
    ASSUME NEW img, NEW s, Len(s) \in Nat, NEW h, IsConcat(h, img, s)
    PROVE  Flat(img, s) = h[Len(s)]
<1>. DEFINE g == CHOOSE f : IsConcat(f, img, s)
<1>1. IsConcat(g, img, s)
  OBVIOUS
<1>. HIDE DEF g
<1>2. g[Len(s)] = h[Len(s)]
  BY <1>1, ConcatUnique
<1>3. QED
  BY <1>2 DEF Flat, g

LEMMA FlatEmpty ==
    ASSUME NEW img
    PROVE  Flat(img, <<>>) = <<>>
<1>. DEFINE h == [n \in {0} |-> <<>>]
            g == CHOOSE f : IsConcat(f, img, <<>>)
<1>1. IsConcat(h, img, <<>>)
  BY DEF IsConcat
<1>. HIDE DEF h
<1>2. IsConcat(g, img, <<>>)
  BY <1>1
<1>. HIDE DEF g
<1>3. g[0] = <<>>
  BY <1>2 DEF IsConcat
<1>4. Flat(img, <<>>) = g[Len(<<>>)] /\ Len(<<>>) = 0
  BY DEF Flat, g
<1>5. QED
  BY <1>3, <1>4

LEMMA FlatAppend ==
    ASSUME NEW S, NEW T, NEW img \in [S -> Seq(T)]
    PROVE  \A s \in Seq(S), x \in S :
               Flat(img, Append(s, x)) = Flat(img, s) \o img[x]
<1>. SUFFICES ASSUME NEW s \in Seq(S), NEW x \in S
              PROVE  Flat(img, Append(s, x)) = Flat(img, s) \o img[x]
  OBVIOUS
<1>. DEFINE t == Append(s, x)
            N == Len(s)
<1>1. /\ t \in Seq(S) /\ Len(t) = N + 1 /\ t[N + 1] = x
      /\ N \in Nat /\ \A n \in 1..N : s[n] = t[n]
  OBVIOUS
<1>. HIDE DEF t
<1>2. PICK g \in [0..Len(s) -> Seq(T)] : IsConcat(g, img, s)
  BY ConcatFunction
<1>3. PICK h : IsConcat(h, img, t)
  BY <1>1, ConcatFunction
<1>4. g[N] = h[N]
  <2>1. N \in Nat /\ Len(s) \in Nat /\ Len(t) \in Nat /\ N <= Len(s) /\ N <= Len(t)
    BY <1>1
  <2>2. \A n \in 1..N : s[n] = t[n]
    BY <1>1
  <2>. HIDE DEF N
  <2>3. QED
    BY <1>2, <1>3, <2>1, <2>2, ConcatUnique
<1>5. Flat(img, s) = g[N] /\ Flat(img, t) = h[N + 1]
  <2>1. Flat(img, s) = g[Len(s)]
    BY <1>1, <1>2, FlatIs
  <2>2. Len(t) \in Nat
    BY <1>1
  <2>3. Flat(img, t) = h[Len(t)]
    BY <1>3, <2>2, FlatIs
  <2>4. QED
    BY <1>1, <2>1, <2>3
<1>6. N + 1 \in 1..Len(t) /\ (N + 1) - 1 = N /\ N \in 0..N
  BY <1>1
<1>7. h[N + 1] = h[N] \o img[x]
  BY <1>1, <1>3, <1>6 DEF IsConcat
<1>8. g[N] \in Seq(T)
  BY <1>2, <1>6
<1>9. QED
  BY <1>4, <1>5, <1>7, <1>8 DEF t

LEMMA FlatType ==
    ASSUME NEW S, NEW T, NEW img \in [S -> Seq(T)]
    PROVE  \A s \in Seq(S) : Flat(img, s) \in Seq(T)
<1>. SUFFICES ASSUME NEW s \in Seq(S) PROVE Flat(img, s) \in Seq(T)
  OBVIOUS
<1>1. PICK g \in [0..Len(s) -> Seq(T)] : IsConcat(g, img, s)
  BY ConcatFunction
<1>2. Flat(img, s) = g[Len(s)] /\ Len(s) \in 0..Len(s)
  BY <1>1, FlatIs
<1>3. QED
  BY <1>1, <1>2

LEMMA ConcatAppend ==
    ASSUME NEW S, NEW s \in Seq(S), NEW t \in Seq(S), NEW x \in S
    PROVE  s \o Append(t, x) = Append(s \o t, x)
<1>1. /\ Append(t, x) = t \o <<x>> /\ <<x>> \in Seq(S)
      /\ s \o t \in Seq(S) /\ Append(s \o t, x) = (s \o t) \o <<x>>
  OBVIOUS
<1>2. QED
  BY <1>1, ConcatAssociative

(* The images of a concatenation are the concatenation of the images. *)
LEMMA FlatConcat ==
    ASSUME NEW S, NEW T, NEW img \in [S -> Seq(T)]
    PROVE  \A s, t \in Seq(S) :
               Flat(img, s \o t) = Flat(img, s) \o Flat(img, t)
<1>. SUFFICES ASSUME NEW s \in Seq(S)
              PROVE  \A t \in Seq(S) :
                         Flat(img, s \o t) = Flat(img, s) \o Flat(img, t)
  OBVIOUS
<1>. DEFINE I == {t \in Seq(S) : Flat(img, s \o t) = Flat(img, s) \o Flat(img, t)}
<1>0. Flat(img, s) \in Seq(T)
  BY FlatType
<1>1. <<>> \in I
  <2>1. s \o <<>> = s /\ Flat(img, s) \o <<>> = Flat(img, s)
    BY <1>0, ConcatEmptySeq
  <2>2. Flat(img, <<>>) = <<>>
    BY FlatEmpty
  <2>3. <<>> \in Seq(S)
    OBVIOUS
  <2>4. QED
    BY <2>1, <2>2, <2>3
<1>2. ASSUME NEW t \in Seq(S), NEW x \in S, t \in I PROVE Append(t, x) \in I
  <2>1. /\ s \o t \in Seq(S) /\ Append(t, x) \in Seq(S)
        /\ s \o Append(t, x) = Append(s \o t, x)
    BY ConcatAppend
  <2>2. /\ Flat(img, Append(s \o t, x)) = Flat(img, s \o t) \o img[x]
        /\ Flat(img, Append(t, x)) = Flat(img, t) \o img[x]
        /\ Flat(img, t) \in Seq(T)
    BY <2>1, FlatAppend, FlatType
  <2>3. Flat(img, s \o t) = Flat(img, s) \o Flat(img, t)
    BY <1>2
  <2>4. img[x] \in Seq(T)
    OBVIOUS
  <2>5. (Flat(img, s) \o Flat(img, t)) \o img[x]
           = Flat(img, s) \o (Flat(img, t) \o img[x])
    BY <1>0, <2>2, <2>4, ConcatAssociative, SMTT(60)
  <2>6. QED
    BY <2>1, <2>2, <2>3, <2>5
<1>. HIDE DEF I
<1>3. \A t \in Seq(S) : t \in I
  BY <1>1, <1>2, SeqInduction
<1>4. QED
  BY <1>3 DEF I

LEMMA FlatOne ==
    ASSUME NEW S, NEW T, NEW img \in [S -> Seq(T)], NEW x \in S
    PROVE  Flat(img, <<x>>) = img[x]
<1>1. <<>> \in Seq(S) /\ Append(<<>>, x) = <<x>> /\ img[x] \in Seq(T)
  OBVIOUS
<1>2. Flat(img, <<x>>) = Flat(img, <<>>) \o img[x]
  BY <1>1, FlatAppend
<1>3. <<>> \o img[x] = img[x]
  BY <1>1, ConcatEmptySeq
<1>4. QED
  BY <1>2, <1>3, FlatEmpty

(* A sequence all of whose elements are their own images is its own image. *)
LEMMA FlatSame ==
    ASSUME NEW S, NEW img \in [S -> Seq(S)], NEW U \in SUBSET S,
           \A x \in U : img[x] = <<x>>
    PROVE  \A s \in Seq(U) : Flat(img, s) = s
<1>. DEFINE I == {s \in Seq(U) : Flat(img, s) = s}
<1>1. <<>> \in I
  BY FlatEmpty
<1>2. ASSUME NEW s \in Seq(U), NEW x \in U, s \in I PROVE Append(s, x) \in I
  <2>1. s \in Seq(S)
    BY SeqMonotonic
  <2>2. Flat(img, Append(s, x)) = Flat(img, s) \o img[x]
    BY <2>1, FlatAppend
  <2>3. Append(s, x) = s \o <<x>> /\ Append(s, x) \in Seq(U)
    OBVIOUS
  <2>4. QED
    BY <1>2, <2>2, <2>3
<1>. HIDE DEF I
<1>3. \A s \in Seq(U) : s \in I
  BY <1>1, <1>2, SeqInduction
<1>4. QED
  BY <1>3 DEF I

(* Images of images. *)
LEMMA FlatOfFlat ==
    ASSUME NEW S, NEW g \in [S -> Seq(S)]
    PROVE  \A f, h \in [S -> Seq(S)] :
               (\A x \in S : h[x] = Flat(g, f[x])) =>
                   \A s \in Seq(S) : Flat(g, Flat(f, s)) = Flat(h, s)
<1>0. \A a, b \in Seq(S) : Flat(g, a \o b) = Flat(g, a) \o Flat(g, b)
  BY FlatConcat
<1>. SUFFICES ASSUME NEW f \in [S -> Seq(S)], NEW h \in [S -> Seq(S)],
                     \A x \in S : h[x] = Flat(g, f[x])
              PROVE  \A s \in Seq(S) : Flat(g, Flat(f, s)) = Flat(h, s)
  OBVIOUS
<1>. DEFINE I == {s \in Seq(S) : Flat(g, Flat(f, s)) = Flat(h, s)}
<1>1. <<>> \in I
  BY FlatEmpty
<1>2. ASSUME NEW s \in Seq(S), NEW x \in S, s \in I PROVE Append(s, x) \in I
  <2>1. /\ Flat(f, s) \in Seq(S) /\ f[x] \in Seq(S)
        /\ Flat(f, Append(s, x)) = Flat(f, s) \o f[x]
    BY FlatAppend, FlatType
  <2>2. Flat(g, Flat(f, s) \o f[x]) = Flat(g, Flat(f, s)) \o Flat(g, f[x])
    BY <1>0, <2>1
  <2>3. Flat(h, Append(s, x)) = Flat(h, s) \o h[x]
    BY FlatAppend
  <2>4. Append(s, x) \in Seq(S)
    OBVIOUS
  <2>5. QED
    BY <1>2, <2>1, <2>2, <2>3, <2>4
<1>. HIDE DEF I
<1>3. \A s \in Seq(S) : s \in I
  BY <1>1, <1>2, SeqInduction
<1>4. QED
  BY <1>3 DEF I

-----------------------------------------------------------------------------
(* Sequences of sequences put together. *)

LEMMA FlattenEmpty == FlattenSeq(<<>>) = <<>>
BY DEF FlattenSeq

LEMMA FlattenIs ==
    ASSUME NEW T, NEW a \in Seq(Seq(T))
    PROVE  FlattenSeq(a) = Flat([x \in Seq(T) |-> x], a)
<1>. DEFINE N == Len(a)
            id == [x \in Seq(T) |-> x]
            F(g) == [i \in 1..N |-> IF i = 1 THEN a[i] ELSE g[i-1] \o a[i]]
            flatten == CHOOSE g : g = F(g)
<1>1. CASE a = <<>>
  BY <1>1, FlattenEmpty, FlatEmpty
<1>2. CASE a # <<>>
  <2>1. N \in Nat /\ N # 0 /\ \A k \in 1..N : a[k] \in Seq(T)
    BY <1>2
  <2>2. FlattenSeq(a) = flatten[N]
    BY <2>1 DEF FlattenSeq
  <2>3. id \in [Seq(T) -> Seq(T)]
    OBVIOUS
  <2>4. PICK h \in [0..N -> Seq(T)] : IsConcat(h, id, a)
    BY <2>3, ConcatFunction
  <2>5. Flat(id, a) = h[N]
    BY <2>1, <2>4, FlatIs
  <2>. DEFINE g == [k \in 1..N |-> h[k]]
  <2>6. h[0] = <<>> /\ \A k \in 1..N : h[k] = h[k-1] \o a[k]
    BY <2>1, <2>4 DEF IsConcat
  <2>. HIDE DEF N, id
  <2>7. ASSUME NEW k \in 1..N PROVE g[k] = IF k = 1 THEN a[k] ELSE g[k-1] \o a[k]
    <3>1. CASE k = 1
      <4>0. 1 \in 1..N /\ 1 - 1 = 0
        BY <2>1
      <4>1. a[1] \in Seq(T) /\ h[1] = h[1-1] \o a[1]
        BY <2>1, <2>6, <4>0
      <4>2. h[1] = a[1]
        BY <2>6, <4>0, <4>1, ConcatEmptySeq
      <4>3. QED
        BY <3>1, <4>2
    <3>2. CASE k # 1
      <4>1. k - 1 \in 1..N
        BY <2>1, <3>2
      <4>2. QED
        BY <2>6, <3>2, <4>1
    <3>3. QED
      BY <3>1, <3>2
  <2>8. g = F(g)
    BY <2>7
  <2>9. flatten = F(flatten)
    BY <2>8
  <2>. HIDE DEF flatten
  <2>10. \A k \in 1..N : flatten[k] = IF k = 1 THEN a[k] ELSE flatten[k-1] \o a[k]
    BY <2>9
  <2>. DEFINE I == {k \in Nat : k \in 1..N => flatten[k] = h[k]}
  <2>11. 0 \in I
    OBVIOUS
  <2>12. ASSUME NEW k \in Nat, k \in I PROVE k + 1 \in I
    <3>. DEFINE l == k + 1
    <3>. SUFFICES ASSUME l \in 1..N PROVE flatten[l] = h[l]
      OBVIOUS
    <3>1. l - 1 = k /\ (l # 1 => k \in 1..N) /\ h[l] = g[l]
      BY <2>1
    <3>. HIDE DEF l
    <3>2. l # 1 => flatten[k] = h[k] /\ g[k] = h[k]
      BY <2>12, <3>1
    <3>. HIDE DEF g
    <3>3. QED
      BY <2>7, <2>10, <3>1, <3>2
  <2>. HIDE DEF I
  <2>13. N \in I
    BY <2>1, <2>11, <2>12, SetInduction
  <2>14. flatten[N] = h[N]
    BY <2>1, <2>13 DEF I
  <2>15. QED
    BY <2>2, <2>5, <2>14 DEF id
<1>3. QED
  BY <1>1, <1>2

LEMMA FlattenAppend ==
    ASSUME NEW T
    PROVE  \A a \in Seq(Seq(T)), x \in Seq(T) :
              /\ FlattenSeq(a) \in Seq(T)
              /\ FlattenSeq(Append(a, x)) = FlattenSeq(a) \o x
<1>. SUFFICES ASSUME NEW a \in Seq(Seq(T)), NEW x \in Seq(T)
              PROVE  /\ FlattenSeq(a) \in Seq(T)
                     /\ FlattenSeq(Append(a, x)) = FlattenSeq(a) \o x
  OBVIOUS
<1>. DEFINE id == [y \in Seq(T) |-> y]
<1>1. id \in [Seq(T) -> Seq(T)] /\ id[x] = x /\ Append(a, x) \in Seq(Seq(T))
  OBVIOUS
<1>2. FlattenSeq(a) = Flat(id, a) /\ FlattenSeq(Append(a, x)) = Flat(id, Append(a, x))
  BY <1>1, FlattenIs
<1>. HIDE DEF id
<1>3. Flat(id, a) \in Seq(T)
  BY <1>1, FlatType
<1>4. Flat(id, Append(a, x)) = Flat(id, a) \o id[x]
  BY <1>1, FlatAppend
<1>5. QED
  BY <1>1, <1>2, <1>3, <1>4

(* One element more. *)
LEMMA FlattenStep ==
    ASSUME NEW T, NEW m \in Nat, NEW a \in [1..m+1 -> Seq(T)]
    PROVE  /\ FlattenSeq([k \in 1..m |-> a[k]]) \in Seq(T)
           /\ FlattenSeq(a) = FlattenSeq([k \in 1..m |-> a[k]]) \o a[m+1]
           /\ FlattenSeq(a) \in Seq(T)
<1>. DEFINE b == [k \in 1..m |-> a[k]]
<1>1. b \in Seq(Seq(T)) /\ a[m+1] \in Seq(T) /\ a \in Seq(Seq(T))
  OBVIOUS
<1>2. Append(b, a[m+1]) = a
  <2>1. /\ Len(b) = m /\ Len(a) = m + 1
        /\ Len(Append(b, a[m+1])) = m + 1
    BY <1>1
  <2>2. ASSUME NEW k \in 1..m+1 PROVE Append(b, a[m+1])[k] = a[k]
    BY <1>1, <2>1
  <2>3. Append(b, a[m+1]) \in Seq(Seq(T))
    BY <1>1
  <2>. HIDE DEF b
  <2>4. QED
    BY <1>1, <2>1, <2>2, <2>3, SeqEqual
<1>. HIDE DEF b
<1>3. QED
  BY <1>1, <1>2, FlattenAppend DEF b
-----------------------------------------------------------------------------

(* A nonempty set of indices has a last one. *)
LEMMA LastIndex ==
    ASSUME NEW n \in Nat, NEW J \in SUBSET (1..n), J # {}
    PROVE  \E i \in J : \A j \in J : j <= i
<1>. DEFINE I == {m \in Nat : \A K \in SUBSET (1..m) :
                     K # {} => \E i \in K : \A j \in K : j <= i}
<1>1. 0 \in I
  <2>1. 1..0 = {}
    OBVIOUS
  <2>2. QED
    BY <2>1
<1>2. ASSUME NEW m \in Nat, m \in I PROVE m + 1 \in I
  <2>. SUFFICES ASSUME NEW K \in SUBSET (1..m+1), K # {}
                PROVE  \E i \in K : \A j \in K : j <= i
    OBVIOUS
  <2>1. CASE m + 1 \in K
    BY <2>1
  <2>2. CASE m + 1 \notin K
    <3>1. K \in SUBSET (1..m)
      BY <2>2
    <3>2. QED
      BY <1>2, <3>1
  <2>3. QED
    BY <2>1, <2>2
<1>. HIDE DEF I
<1>3. n \in I
  BY <1>1, <1>2, SetInduction
<1>4. QED
  BY <1>3 DEF I

(* And a first one. *)
LEMMA FirstIndex ==
    ASSUME NEW n \in Nat, NEW J \in SUBSET (1..n), J # {}
    PROVE  \E i \in J : \A j \in J : i <= j
<1>. DEFINE R == OpToRel(<, Nat)
<1>1. IsWellFoundedOn(R, Nat)
  BY NatLessThanWellFounded
<1>2. \A x, y \in Nat : x < y => <<x, y>> \in R
  BY DEF OpToRel
<1>. HIDE DEF R
<1>3. J \subseteq Nat
  OBVIOUS
<1>4. PICK x \in J : \A y \in J : ~(<<y, x>> \in R)
  BY <1>1, <1>3, WFMin
<1>5. \A y \in J : x \in Nat /\ y \in Nat /\ ~(y < x)
  BY <1>2, <1>3, <1>4
<1>6. \A y \in J : x <= y
  BY <1>5
<1>7. QED
  BY <1>6
=============================================================================
