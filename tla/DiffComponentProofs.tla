------------------------ MODULE DiffComponentProofs ------------------------
(***************************************************************************)
(* diff-component for any manifests, replacements and edits, and for any   *)
(* number of commands.                                                     *)
(***************************************************************************)
EXTENDS DiffComponent, Recursion, SequenceTheorems, FiniteSetTheorems, TLAPS

Texts == Seq(Atoms)

(* What one replacement makes of an atom. *)
Image(ref, to) == [a \in Atoms |-> IF a = ref THEN to ELSE <<a>>]

LEMMA ImageType ==
    ASSUME NEW ref, NEW to \in Texts
    PROVE  Image(ref, to) \in [Atoms -> Seq(Atoms)]
<1>1. \A a \in Atoms : <<a>> \in Seq(Atoms)
  OBVIOUS
<1>2. QED
  BY <1>1 DEF Image, Texts

(* str::replace puts the images of the atoms together. *)
LEMMA SubstituteIsFlat ==
    ASSUME NEW text \in Texts, NEW ref, NEW to \in Texts
    PROVE  Substitute(text, ref, to) = Flat(Image(ref, to), text)
<1>. DEFINE N == Len(text)
            img == Image(ref, to)
            F(f) == [i \in 0..N |->
                        IF i = 0 THEN <<>>
                        ELSE f[i-1] \o IF text[i] = ref THEN to ELSE <<text[i]>>]
            done == CHOOSE f : f = F(f)
<1>1. Substitute(text, ref, to) = done[N]
  BY DEF Substitute
<1>2. N \in Nat /\ text \in Seq(Atoms) /\ \A n \in 1..N : text[n] \in Atoms
  BY DEF Texts
<1>3. img \in [Atoms -> Seq(Atoms)]
  BY ImageType
<1>4. \A n \in 1..N : img[text[n]] = IF text[n] = ref THEN to ELSE <<text[n]>>
  BY <1>2 DEF Image
<1>. HIDE DEF img
<1>5. PICK h \in [0..N -> Seq(Atoms)] : IsConcat(h, img, text)
  BY <1>2, <1>3, ConcatFunction
<1>6. h = F(h)
  <2>1. h[0] = <<>> /\ \A n \in 1..N : h[n] = h[n-1] \o img[text[n]]
    BY <1>5 DEF IsConcat
  <2>. HIDE DEF N
  <2>2. ASSUME NEW n \in 0..N
        PROVE  h[n] = IF n = 0 THEN <<>>
                      ELSE h[n-1] \o IF text[n] = ref THEN to ELSE <<text[n]>>
    <3>1. CASE n = 0
      BY <2>1, <3>1
    <3>2. CASE n # 0
      <4>1. n \in 1..N
        BY <1>2, <3>2
      <4>2. QED
        BY <1>4, <2>1, <3>2, <4>1
    <3>3. QED
      BY <3>1, <3>2
  <2>3. QED
    BY <1>5, <2>2
<1>7. done = F(done)
  BY <1>6
<1>. HIDE DEF done
<1>8. IsConcat(done, img, text)
  <2>. HIDE DEF N
  <2>1. \A n \in 0..N : done[n] = IF n = 0 THEN <<>>
                      ELSE done[n-1] \o IF text[n] = ref THEN to ELSE <<text[n]>>
    BY <1>7
  <2>2. 0 \in 0..N /\ \A n \in 1..N : n \in 0..N /\ n # 0
    BY <1>2
  <2>3. done[0] = <<>>
    BY <2>1, <2>2
  <2>4. \A n \in 1..N : done[n] = done[n-1] \o img[text[n]]
    BY <1>4, <2>1, <2>2
  <2>5. QED
    BY <2>3, <2>4 DEF IsConcat, N
<1>9. Flat(img, text) = done[N]
  BY <1>2, <1>8, FlatIs
<1>10. QED
  BY <1>1, <1>9 DEF img

LEMMA SubstituteType ==
    ASSUME NEW text \in Texts, NEW ref, NEW to \in Texts
    PROVE  Substitute(text, ref, to) \in Texts
<1>. DEFINE img == Image(ref, to)
<1>1. img \in [Atoms -> Seq(Atoms)]
  BY ImageType
<1>. HIDE DEF img
<1>2. Flat(img, text) \in Texts
  BY <1>1, FlatType DEF Texts
<1>3. QED
  BY <1>2, SubstituteIsFlat DEF img

(* The keys and the texts of the replacements. *)
IsMap(map) == map \in [DOMAIN map -> Texts] /\ DOMAIN map \subseteq Refs

(* The texts between the replacements. *)
IsReplacing(f, text, map, ord) ==
    /\ f \in [0..Len(ord) -> Texts]
    /\ f[0] = text
    /\ \A n \in 1..Len(ord) : f[n] = Substitute(f[n-1], ord[n], map[ord[n]])

LEMMA ReplacingFunction ==
    ASSUME NEW text \in Texts, NEW map, IsMap(map), NEW ord \in Seq(DOMAIN map)
    PROVE  \E f : /\ IsReplacing(f, text, map, ord)
                  /\ ReplaceFunc(text, map, ord) = f[Len(ord)]
<1>. DEFINE N == Len(ord)
            F(f) == [i \in 0..N |->
                        IF i = 0 THEN text
                        ELSE Substitute(f[i-1], ord[i], map[ord[i]])]
            replacement == CHOOSE f : f = F(f)
            Step(n, x) == IF n \in 1..N THEN Substitute(x, ord[n], map[ord[n]])
                          ELSE x
            e == [n \in Nat |-> [x \in Texts |-> Step(n, x)]]
<1>1. ReplaceFunc(text, map, ord) = replacement[N]
  BY DEF ReplaceFunc
<1>2. N \in Nat /\ \A n \in 1..N : map[ord[n]] \in Texts
  BY DEF IsMap
<1>3. ASSUME NEW n \in Nat, NEW x \in Texts PROVE Step(n, x) \in Texts
  BY <1>2, SubstituteType
<1>. HIDE DEF Step
<1>4. e \in [Nat -> [Texts -> Texts]]
  BY <1>3
<1>. HIDE DEF e, N
<1>5. PICK g : Recursive(g, 0, N, Texts, text, e)
  BY <1>2, <1>4, 0 \in Nat, N >= 0, IntervalRecursion
<1>6. g \in [0..N -> Texts]
  BY <1>5 DEF Recursive
<1>7. ASSUME NEW n \in 0..N
      PROVE  g[n] = IF n = 0 THEN text
                    ELSE Substitute(g[n-1], ord[n], map[ord[n]])
  <2>1. g[n] = IF n = 0 THEN text ELSE e[n][g[n-1]]
    BY <1>5 DEF Recursive
  <2>2. ASSUME n # 0
        PROVE  e[n][g[n-1]] = Substitute(g[n-1], ord[n], map[ord[n]])
    <3>1. n - 1 \in 0..N /\ g[n-1] \in Texts /\ n \in Nat /\ n \in 1..N
      BY <1>2, <1>6, <2>2
    <3>2. e[n] = [x \in Texts |-> Step(n, x)]
      BY <3>1 DEF e
    <3>3. e[n][g[n-1]] = Step(n, g[n-1])
      BY <3>1, <3>2
    <3>4. QED
      BY <3>1, <3>3 DEF Step
  <2>3. QED
    BY <2>1, <2>2
<1>8. g = F(g)
  BY <1>6, <1>7
<1>9. replacement = F(replacement)
  BY <1>8
<1>. HIDE DEF replacement
<1>10. \A n \in 0..N : replacement[n] = IF n = 0 THEN text
                     ELSE Substitute(replacement[n-1], ord[n], map[ord[n]])
  BY <1>9
<1>11. 0 \in 0..N /\ \A n \in 1..N : n \in 0..N /\ n # 0 /\ n - 1 \in 0..N
  BY <1>2
<1>12. replacement[0] = text
  BY <1>10, <1>11
<1>13. \A n \in 1..N :
          replacement[n] = Substitute(replacement[n-1], ord[n], map[ord[n]])
  BY <1>10, <1>11
<1>14. \A n \in 0..N : replacement[n] \in Texts
  <2>. DEFINE I == {n \in Nat : n <= N => replacement[n] \in Texts}
  <2>1. 0 \in I
    BY <1>12
  <2>2. ASSUME NEW n \in Nat, n \in I PROVE n + 1 \in I
    <3>. SUFFICES ASSUME n + 1 <= N PROVE replacement[n + 1] \in Texts
      OBVIOUS
    <3>. DEFINE m == n + 1
    <3>1. m \in 1..N /\ m - 1 = n /\ replacement[n] \in Texts
      BY <1>2, <2>2
    <3>. HIDE DEF m
    <3>2. replacement[m] \in Texts
      BY <1>2, <1>13, <3>1, SubstituteType
    <3>3. QED
      BY <3>2 DEF m
  <2>. HIDE DEF I
  <2>3. \A n \in Nat : n \in I
    BY <2>1, <2>2, SetInduction
  <2>4. QED
    BY <1>2, <2>3 DEF I
<1>15. replacement \in [0..N -> Texts]
  BY <1>9, <1>14
<1>16. IsReplacing(replacement, text, map, ord)
  BY <1>12, <1>13, <1>15 DEF IsReplacing, N
<1>17. QED
  BY <1>1, <1>16 DEF N

(* A text without the reference stays as it is. *)
LEMMA SubstituteUntouched ==
    ASSUME NEW text \in Texts, NEW ref, NEW to \in Texts, ref \notin Elems(text)
    PROVE  Substitute(text, ref, to) = text
<1>. DEFINE img == Image(ref, to)
            U == Elems(text)
<1>1. img \in [Atoms -> Seq(Atoms)]
  BY ImageType
<1>2. U \in SUBSET Atoms /\ text \in Seq(U)
  <2>1. text \in [1..Len(text) -> Atoms] /\ Len(text) \in Nat
    BY DEF Texts
  <2>2. text \in [1..Len(text) -> U]
    BY <2>1 DEF Elems
  <2>3. QED
    BY <2>1, <2>2, SeqDef DEF Elems
<1>3. \A a \in U : img[a] = <<a>>
  BY <1>2 DEF Image
<1>. HIDE DEF img, U
<1>4. Flat(img, text) = text
  BY <1>1, <1>2, <1>3, FlatSame
<1>5. QED
  BY <1>4, SubstituteIsFlat DEF img

(* replace_func leaves a text without any of the references as it is. *)
LEMMA ReplaceUntouched ==
    ASSUME NEW text \in Texts, NEW map, IsMap(map), NEW ord \in Seq(DOMAIN map),
           Elems(text) \cap DOMAIN map = {}
    PROVE  ReplaceFunc(text, map, ord) = text
<1>. DEFINE N == Len(ord)
<1>1. PICK f : /\ IsReplacing(f, text, map, ord)
               /\ ReplaceFunc(text, map, ord) = f[N]
  BY ReplacingFunction
<1>2. /\ N \in Nat /\ f[0] = text
      /\ \A n \in 1..N : /\ f[n] = Substitute(f[n-1], ord[n], map[ord[n]])
                         /\ ord[n] \in DOMAIN map /\ map[ord[n]] \in Texts
  BY <1>1 DEF IsReplacing, IsMap
<1>. HIDE DEF N
<1>. DEFINE I == {n \in Nat : n <= N => f[n] = text}
<1>3. 0 \in I
  BY <1>2
<1>4. ASSUME NEW n \in Nat, n \in I PROVE n + 1 \in I
  <2>. SUFFICES ASSUME n + 1 <= N PROVE f[n + 1] = text
    OBVIOUS
  <2>. DEFINE m == n + 1
  <2>1. m \in 1..N /\ m - 1 = n /\ f[n] = text
    BY <1>2, <1>4
  <2>. HIDE DEF m
  <2>2. f[m] = Substitute(text, ord[m], map[ord[m]]) /\ map[ord[m]] \in Texts
    BY <1>2, <2>1
  <2>3. ord[m] \notin Elems(text)
    BY <1>2, <2>1
  <2>4. f[m] = text
    BY <2>2, <2>3, SubstituteUntouched
  <2>5. QED
    BY <2>4 DEF m
<1>. HIDE DEF I
<1>5. N \in I
  BY <1>2, <1>3, <1>4, SetInduction
<1>6. QED
  BY <1>1, <1>2, <1>5 DEF I

(* What the replacement of some references at once makes of an atom. *)
AtOnce(map, done) == [a \in Atoms |-> IF a \in done THEN map[a] ELSE <<a>>]

(***************************************************************************)
(* When no text contains a reference, replace_func amounts to replacing    *)
(* all references it goes through at once.                                 *)
(***************************************************************************)
LEMMA ReplaceAtOnce ==
    ASSUME NEW text \in Texts, NEW map, IsMap(map), NEW ord \in Seq(DOMAIN map),
           DOMAIN map \subseteq Atoms,
           \A r \in DOMAIN map : Elems(map[r]) \cap DOMAIN map = {}
    PROVE  ReplaceFunc(text, map, ord) = Flat(AtOnce(map, Elems(ord)), text)
<1>. DEFINE N == Len(ord)
            Until(n) == {ord[j] : j \in 1..n}
            img(n) == AtOnce(map, Until(n))
<1>1. PICK f : /\ IsReplacing(f, text, map, ord)
               /\ ReplaceFunc(text, map, ord) = f[N]
  BY ReplacingFunction
<1>2. /\ N \in Nat /\ f[0] = text
      /\ \A n \in 1..N : /\ f[n] = Substitute(f[n-1], ord[n], map[ord[n]])
                         /\ ord[n] \in DOMAIN map /\ map[ord[n]] \in Texts
      /\ Until(N) = Elems(ord)
  BY <1>1 DEF IsReplacing, IsMap, Elems
<1>3. ASSUME NEW n \in Nat, n <= N
      PROVE  Until(n) \subseteq DOMAIN map /\ img(n) \in [Atoms -> Seq(Atoms)]
  <2>1. Until(n) \subseteq DOMAIN map
    BY <1>2, <1>3
  <2>2. \A a \in Atoms : <<a>> \in Seq(Atoms)
    OBVIOUS
  <2>3. \A a \in Until(n) : map[a] \in Seq(Atoms)
    BY <2>1 DEF IsMap, Texts
  <2>. HIDE DEF Until
  <2>4. QED
    BY <2>1, <2>2, <2>3 DEF AtOnce
<1>. HIDE DEF N
<1>. DEFINE I == {n \in Nat : n <= N => f[n] = Flat(img(n), text)}
<1>4. 0 \in I
  <2>1. Until(0) = {}
    OBVIOUS
  <2>2. img(0) \in [Atoms -> Seq(Atoms)] /\ \A a \in Atoms : img(0)[a] = <<a>>
    BY <1>2, <1>3, <2>1 DEF AtOnce
  <2>. HIDE DEF img
  <2>3. text \in Seq(Atoms) /\ Atoms \in SUBSET Atoms
    BY DEF Texts
  <2>4. Flat(img(0), text) = text
    BY <2>2, <2>3, FlatSame
  <2>5. QED
    BY <1>2, <2>4
<1>5. ASSUME NEW n \in Nat, n \in I PROVE n + 1 \in I
  <2>. SUFFICES ASSUME n + 1 <= N PROVE f[n + 1] = Flat(img(n + 1), text)
    OBVIOUS
  <2>. DEFINE m == n + 1
              r == ord[m]
              to == map[r]
              g == Image(r, to)
  <2>1. m \in 1..N /\ m \in Nat /\ m <= N /\ n <= N /\ m - 1 = n
    BY <1>2
  <2>2. f[n] = Flat(img(n), text)
    BY <1>5, <2>1
  <2>3. Until(m) = Until(n) \cup {r}
    BY <2>1
  <2>. HIDE DEF m
  <2>4. f[m] = Substitute(f[n], r, to) /\ r \in DOMAIN map /\ to \in Texts
    BY <1>2, <2>1
  <2>5. /\ img(n) \in [Atoms -> Seq(Atoms)] /\ img(m) \in [Atoms -> Seq(Atoms)]
        /\ Until(n) \subseteq DOMAIN map
    BY <1>3, <2>1
  <2>6. g \in [Atoms -> Seq(Atoms)]
    BY <2>4, ImageType
  <2>7. ASSUME NEW a \in Atoms PROVE img(m)[a] = Flat(g, img(n)[a])
    <3>1. CASE a \in Until(n)
      <4>1. img(m)[a] = map[a] /\ img(n)[a] = map[a]
        BY <2>3, <3>1 DEF AtOnce
      <4>2. map[a] \in Texts /\ r \notin Elems(map[a])
        BY <2>4, <2>5, <3>1 DEF IsMap
      <4>. HIDE DEF img, Until, r, to
      <4>3. Substitute(map[a], r, to) = map[a]
        BY <2>4, <4>2, SubstituteUntouched
      <4>4. Substitute(map[a], r, to) = Flat(g, map[a])
        BY <2>4, <4>2, SubstituteIsFlat
      <4>5. QED
        BY <4>1, <4>3, <4>4
    <3>2. CASE a \notin Until(n)
      <4>1. img(n)[a] = <<a>> /\ img(m)[a] = g[a]
        BY <2>3, <2>4, <3>2 DEF AtOnce, Image
      <4>. HIDE DEF img, Until, g
      <4>2. Flat(g, <<a>>) = g[a]
        BY <2>6, FlatOne
      <4>3. QED
        BY <4>1, <4>2
    <3>3. QED
      BY <3>1, <3>2
  <2>. DEFINE p == img(n)
              q == img(m)
  <2>8. Flat(p, text) \in Texts
    <3>. HIDE DEF p
    <3>. QED BY <2>5, FlatType DEF Texts, p
  <2>9. Substitute(Flat(p, text), r, to) = Flat(g, Flat(p, text))
    <3>. HIDE DEF p, r, to
    <3>. QED BY <2>4, <2>8, SubstituteIsFlat
  <2>10. Flat(g, Flat(p, text)) = Flat(q, text)
    <3>1. /\ p \in [Atoms -> Seq(Atoms)] /\ q \in [Atoms -> Seq(Atoms)]
          /\ \A a \in Atoms : q[a] = Flat(g, p[a])
      BY <2>5, <2>7
    <3>2. text \in Seq(Atoms)
      BY DEF Texts
    <3>. HIDE DEF p, q, g
    <3>3. \A u, v \in [Atoms -> Seq(Atoms)] :
             (\A x \in Atoms : v[x] = Flat(g, u[x])) =>
                 \A s \in Seq(Atoms) : Flat(g, Flat(u, s)) = Flat(v, s)
      BY ONLY <2>6, FlatOfFlat
    <3>4. \A s \in Seq(Atoms) : Flat(g, Flat(p, s)) = Flat(q, s)
      BY ONLY <3>1, <3>3
    <3>5. QED
      BY <3>2, <3>4
  <2>11. QED
    BY <2>2, <2>4, <2>9, <2>10 DEF m
<1>. HIDE DEF I
<1>6. N \in I
  BY <1>2, <1>4, <1>5, SetInduction
<1>7. f[N] = Flat(img(N), text)
  BY <1>2, <1>6 DEF I
<1>8. QED
  BY <1>1, <1>2, <1>7
-----------------------------------------------------------------------------

(* The pairs of parse_tripplet_replacements make a finite map. *)
LEMMA ReplacementsMap ==
    ASSUME NEW opts \in Seq(Options)
    PROVE  /\ IsMap(Replacements(opts))
           /\ IsFiniteSet(DOMAIN Replacements(opts))
<1>. DEFINE N == Len(opts)
            D == {From(opts[i]) : i \in 1..N}
            IsLast(r, i) == /\ From(opts[i]) = r
                            /\ \A j \in i+1..N : From(opts[j]) # r
            map == Replacements(opts)
<1>1. N \in Nat /\ \A i \in 1..N : opts[i] \in Options
  OBVIOUS
<1>2. \A o \in Options : From(o) \in Refs /\ To(o) \in Texts
  BY DiffTypes, EmptySeq DEF Options, From, To, Texts
<1>3. map = [r \in D |-> To(opts[CHOOSE i \in 1..N : IsLast(r, i)])]
  BY DEF Replacements
<1>4. DOMAIN map = D /\ D \subseteq Refs
  BY <1>1, <1>2, <1>3
<1>5. ASSUME NEW r \in D PROVE To(opts[CHOOSE i \in 1..N : IsLast(r, i)]) \in Texts
  <2>. DEFINE J == {i \in 1..N : From(opts[i]) = r}
  <2>1. J \in SUBSET (1..N) /\ J # {}
    OBVIOUS
  <2>2. PICK i \in J : \A j \in J : j <= i
    <3>. HIDE DEF J, N
    <3>. QED BY <1>1, <2>1, LastIndex
  <2>3. ASSUME NEW j \in i+1..N PROVE From(opts[j]) # r
    <3>1. j \in 1..N /\ ~(j <= i)
      BY <1>1, <2>1
    <3>2. QED
      BY <2>2, <3>1
  <2>4. i \in 1..N /\ IsLast(r, i)
    BY <2>3
  <2>. HIDE DEF IsLast
  <2>5. (CHOOSE j \in 1..N : IsLast(r, j)) \in 1..N
    BY <2>4
  <2>6. QED
    BY <1>1, <1>2, <2>5
<1>6. IsMap(map)
  BY <1>3, <1>4, <1>5 DEF IsMap
<1>7. IsFiniteSet(D)
  <2>. DEFINE g == [i \in 1..N |-> From(opts[i])]
  <2>1. g \in Surjection(1..N, D)
    BY DEF Surjection
  <2>2. IsFiniteSet(1..N)
    BY <1>1, FS_Interval
  <2>. HIDE DEF g, D, N
  <2>3. QED
    BY <2>1, <2>2, FS_Surjection
<1>8. QED
  BY <1>4, <1>6, <1>7

LEMMA NoMapIs == IsMap(NoMap) /\ IsFiniteSet(DOMAIN NoMap) /\ DOMAIN NoMap = {}
<1>1. DOMAIN NoMap = {}
  BY DEF NoMap
<1>2. QED
  BY <1>1, FS_EmptySet DEF NoMap, IsMap

(* An order goes through every key of the map. *)
LEMMA OrderIs ==
    ASSUME NEW map, IsFiniteSet(DOMAIN map), NEW ord \in Orders(map)
    PROVE  ord \in Seq(DOMAIN map) /\ Elems(ord) = DOMAIN map
<1>. DEFINE D == DOMAIN map
            n == Cardinality(D)
<1>1. n \in Nat
  BY FS_CardinalityType
<1>2. ord \in [1..n -> D] /\ ord \in Injection(1..n, D)
  BY DEF Orders, Injection
<1>3. Cardinality(1..n) = n
  <2>. HIDE DEF n
  <2>. QED BY <1>1, FS_Interval
<1>4. ord \in Surjection(1..n, D)
  <2>. DEFINE S == 1..n
  <2>1. ord \in Injection(S, D) /\ IsFiniteSet(D) /\ Cardinality(S) = Cardinality(D)
    BY <1>2, <1>3
  <2>. HIDE DEF S, D, n
  <2>2. ord \in Surjection(S, D)
    BY <2>1, FS_Injection
  <2>3. QED
    BY <2>2 DEF S
<1>. HIDE DEF n
<1>5. ord \in Seq(D) /\ Len(ord) = n
  BY <1>1, <1>2
<1>6. \A r \in D : \E i \in 1..n : ord[i] = r
  BY <1>4 DEF Surjection
<1>7. QED
  BY <1>2, <1>5, <1>6 DEF Elems

LEMMA ElemsAppend ==
    ASSUME NEW S, NEW s \in Seq(S), NEW x \in S
    PROVE  Elems(Append(s, x)) = Elems(s) \cup {x}
<1>. DEFINE t == Append(s, x)
            n == Len(s)
<1>1. /\ n \in Nat /\ Len(t) = n + 1 /\ t[n + 1] = x
      /\ \A i \in 1..n : t[i] = s[i]
  BY AppendProperties
<1>2. 1..n + 1 = (1..n) \cup {n + 1}
  BY <1>1
<1>. HIDE DEF t, n
<1>3. Elems(t) = {t[i] : i \in 1..n + 1} /\ Elems(s) = {s[i] : i \in 1..n}
  BY <1>1 DEF Elems, n
<1>4. QED
  BY <1>1, <1>2, <1>3 DEF t

LEMMA ElemsEmpty == Elems(<<>>) = {}
<1>1. Len(<<>>) = 0 /\ 1..0 = {}
  OBVIOUS
<1>2. QED
  BY <1>1 DEF Elems

LEMMA ElemsType ==
    ASSUME NEW S, NEW s \in Seq(S)
    PROVE  Elems(s) \subseteq S
BY DEF Elems

(* What find_files_missing_in_manifests pushes for a file. *)
Report(files, map, ord) ==
    [f \in Actions |-> IF ReplaceFunc(Key(f), map, ord) \in Keys(files)
                       THEN <<>> ELSE <<f>>]

LEMMA ReportType ==
    ASSUME NEW files, NEW map, NEW ord
    PROVE  Report(files, map, ord) \in [Actions -> Seq(Actions)]
<1>1. \A f \in Actions : <<f>> \in Seq(Actions)
  OBVIOUS
<1>2. QED
  BY <1>1 DEF Report

LEMMA MissingIsFlat ==
    ASSUME NEW sample \in Seq(Actions), NEW files, NEW map, NEW ord
    PROVE  FindMissing(sample, files, map, ord) = Flat(Report(files, map, ord), sample)
<1>. DEFINE N == Len(sample)
            img == Report(files, map, ord)
            Listed(x) == ReplaceFunc(Key(x), map, ord) \in Keys(files)
            F(f) == [i \in 0..N |->
                        IF i = 0 THEN <<>>
                        ELSE IF Listed(sample[i]) THEN f[i-1]
                        ELSE Append(f[i-1], sample[i])]
            missing_files == CHOOSE f : f = F(f)
<1>1. FindMissing(sample, files, map, ord) = missing_files[N]
  BY DEF FindMissing
<1>2. N \in Nat /\ \A n \in 1..N : sample[n] \in Actions
  OBVIOUS
<1>3. img \in [Actions -> Seq(Actions)]
  BY ReportType
<1>4. \A n \in 1..N : img[sample[n]] = IF Listed(sample[n]) THEN <<>>
                                      ELSE <<sample[n]>>
  BY <1>2 DEF Report
<1>. HIDE DEF img, Listed
<1>5. ASSUME NEW n \in 1..N, NEW s \in Seq(Actions)
      PROVE  s \o img[sample[n]] = IF Listed(sample[n]) THEN s
                                   ELSE Append(s, sample[n])
  <2>1. s \o <<>> = s /\ s \o <<sample[n]>> = Append(s, sample[n])
    BY <1>2, ConcatEmptySeq, AppendIsConcat
  <2>2. QED
    BY <1>4, <2>1
<1>6. PICK h \in [0..N -> Seq(Actions)] : IsConcat(h, img, sample)
  BY <1>3, ConcatFunction
<1>7. h[0] = <<>> /\ \A n \in 1..N : h[n] = h[n-1] \o img[sample[n]]
  BY <1>6 DEF IsConcat
<1>. HIDE DEF N
<1>8. h = F(h)
  <2>1. ASSUME NEW n \in 0..N
        PROVE  h[n] = IF n = 0 THEN <<>>
                      ELSE IF Listed(sample[n]) THEN h[n-1]
                      ELSE Append(h[n-1], sample[n])
    <3>1. CASE n = 0
      BY <1>7, <3>1
    <3>2. CASE n # 0
      <4>1. n \in 1..N /\ n - 1 \in 0..N
        BY <1>2, <3>2
      <4>2. h[n-1] \in Seq(Actions) /\ h[n] = h[n-1] \o img[sample[n]]
        BY <1>6, <1>7, <4>1
      <4>3. QED
        BY <1>5, <3>2, <4>1, <4>2
    <3>3. QED
      BY <3>1, <3>2
  <2>2. QED
    BY <1>6, <2>1
<1>9. missing_files = F(missing_files)
  BY <1>8
<1>. HIDE DEF missing_files
<1>10. \A n \in 0..N : missing_files[n] =
                      IF n = 0 THEN <<>>
                      ELSE IF Listed(sample[n]) THEN missing_files[n-1]
                      ELSE Append(missing_files[n-1], sample[n])
  BY <1>9
<1>11. 0 \in 0..N /\ \A n \in 1..N : n \in 0..N /\ n # 0
  BY <1>2
<1>. DEFINE I == {n \in Nat : n <= N => missing_files[n] = h[n]}
<1>12. 0 \in I
  BY <1>7, <1>10, <1>11
<1>13. ASSUME NEW n \in Nat, n \in I PROVE n + 1 \in I
  <2>. SUFFICES ASSUME n + 1 <= N PROVE missing_files[n + 1] = h[n + 1]
    OBVIOUS
  <2>. DEFINE m == n + 1
  <2>1. m \in 1..N /\ m - 1 = n /\ n \in 0..N /\ missing_files[n] = h[n]
    BY <1>2, <1>13
  <2>. HIDE DEF m
  <2>2. h[n] \in Seq(Actions) /\ h[m] = h[n] \o img[sample[m]]
    BY <1>6, <1>7, <2>1
  <2>3. missing_files[m] = IF Listed(sample[m]) THEN missing_files[n]
                           ELSE Append(missing_files[n], sample[m])
    BY <1>10, <1>11, <2>1
  <2>4. missing_files[m] = h[m]
    BY <1>5, <2>1, <2>2, <2>3
  <2>5. QED
    BY <2>4 DEF m
<1>. HIDE DEF I
<1>14. N \in I
  BY <1>2, <1>12, <1>13, SetInduction
<1>15. missing_files[N] = h[N]
  BY <1>2, <1>14 DEF I
<1>16. Flat(img, sample) = h[N]
  BY <1>2, <1>6, FlatIs DEF N
<1>17. QED
  BY <1>1, <1>15, <1>16 DEF img

(* It reports the files of the sample manifest that no manifest lists. *)
LEMMA MissingIs ==
    ASSUME NEW sample \in Seq(Actions), NEW files, NEW map, NEW ord
    PROVE  /\ FindMissing(sample, files, map, ord) \in Seq(Actions)
           /\ Elems(FindMissing(sample, files, map, ord)) =
                {f \in Elems(sample) :
                    ReplaceFunc(Key(f), map, ord) \notin Keys(files)}
<1>. DEFINE img == Report(files, map, ord)
            Unlisted(x) == ReplaceFunc(Key(x), map, ord) \notin Keys(files)
            I == {s \in Seq(Actions) :
                    Elems(Flat(img, s)) = {f \in Elems(s) : Unlisted(f)}}
<1>1. img \in [Actions -> Seq(Actions)]
  BY ReportType
<1>2. \A x \in Actions : img[x] = IF Unlisted(x) THEN <<x>> ELSE <<>>
  BY DEF Report
<1>. HIDE DEF img, Unlisted
<1>3. <<>> \in I
  BY FlatEmpty, ElemsEmpty
<1>4. ASSUME NEW s \in Seq(Actions), NEW x \in Actions, s \in I
      PROVE  Append(s, x) \in I
  <2>1. Flat(img, Append(s, x)) = Flat(img, s) \o img[x]
    BY <1>1, FlatAppend
  <2>2. Flat(img, s) \in Seq(Actions)
    BY <1>1, FlatType
  <2>3. Elems(Append(s, x)) = Elems(s) \cup {x}
    BY ElemsAppend
  <2>4. Elems(Flat(img, s)) = {f \in Elems(s) : Unlisted(f)}
    BY <1>4
  <2>5. Append(s, x) \in Seq(Actions)
    OBVIOUS
  <2>6. CASE Unlisted(x)
    <3>1. Flat(img, Append(s, x)) = Append(Flat(img, s), x)
      BY <1>2, <2>1, <2>2, <2>6, AppendIsConcat
    <3>2. Elems(Append(Flat(img, s), x)) = Elems(Flat(img, s)) \cup {x}
      BY <2>2, ElemsAppend
    <3>3. QED
      BY <2>3, <2>4, <2>5, <2>6, <3>1, <3>2
  <2>7. CASE ~Unlisted(x)
    <3>1. Flat(img, Append(s, x)) = Flat(img, s)
      BY <1>2, <2>1, <2>2, <2>7, ConcatEmptySeq
    <3>2. QED
      BY <2>3, <2>4, <2>5, <2>7, <3>1
  <2>8. QED
    BY <2>6, <2>7
<1>. HIDE DEF I
<1>5. sample \in I
  BY <1>3, <1>4, SeqInduction
<1>6. Flat(img, sample) \in Seq(Actions)
  BY <1>1, FlatType
<1>7. QED
  BY <1>5, <1>6, MissingIsFlat DEF I, img, Unlisted

-----------------------------------------------------------------------------

LEMMA KeyType ==
    ASSUME NEW f \in Actions
    PROVE  Key(f) \in Texts
BY DiffTypes DEF Actions, Key, Texts

LEMMA ParsedContents ==
    ASSUME NEW c \in Contents
    PROVE  Parses(c) <=> c \in Seq(Actions)
BY DiffTypes DEF Contents, Parses

(* The output manifest, if it parses, lists the paths. *)
LEMMA LinesType ==
    ASSUME NEW fs \in Seq(Actions)
    PROVE  /\ Lines(fs) \in Contents
           /\ fs # <<>> /\ (\A g \in Elems(fs) : Elems(g.path) \cap Spaces = {}) =>
                /\ Lines(fs) \in Seq(Actions)
                /\ Elems(Lines(fs)) =
                     {[path |-> f.path, orig |-> None] : f \in Elems(fs)}
<1>. DEFINE N == Len(fs)
            L == [i \in 1..N |-> [path |-> fs[i].path, orig |-> None]]
<1>1. N \in Nat /\ \A i \in 1..N : fs[i] \in Actions
  OBVIOUS
<1>2. \A i \in 1..N : [path |-> fs[i].path, orig |-> None] \in Actions
  BY <1>1 DEF Actions
<1>3. L \in Seq(Actions) /\ Len(L) = N
  BY <1>1, <1>2
<1>4. Lines(fs) \in {Malformed, L}
  BY DEF Lines
<1>5. Lines(fs) \in Contents
  BY <1>3, <1>4 DEF Contents
<1>6. ASSUME fs # <<>>, \A g \in Elems(fs) : Elems(g.path) \cap Spaces = {}
      PROVE  /\ Lines(fs) = L
             /\ Elems(L) = {[path |-> f.path, orig |-> None] : f \in Elems(fs)}
  <2>1. \A i \in 1..N : fs[i] \in Elems(fs)
    BY DEF Elems
  <2>2. Lines(fs) = L
    BY <1>6, <2>1 DEF Lines, Blanks
  <2>3. Elems(L) = {L[i] : i \in 1..N} /\ Elems(fs) = {fs[i] : i \in 1..N}
    BY <1>3 DEF Elems
  <2>. DEFINE Row(f) == [path |-> f.path, orig |-> None]
  <2>4. \A i \in 1..N : L[i] = Row(fs[i])
    OBVIOUS
  <2>. HIDE DEF L, N, Row
  <2>5. Elems(L) = {Row(f) : f \in Elems(fs)}
    BY <2>3, <2>4
  <2>6. QED
    BY <2>2, <2>5 DEF Row
<1>7. QED
  BY <1>3, <1>5, <1>6

(* What the output manifest reads as, line by line. *)
LEMMA LinesRead ==
    ASSUME NEW fs \in Seq(Actions)
    PROVE  \/ Lines(fs) = Malformed /\ (fs = <<>> \/ Blanks(fs))
           \/ /\ Parses(Lines(fs))
              /\ Len(Lines(fs)) = Len(fs)
              /\ \A i \in 1..Len(fs) : Lines(fs)[i].path = fs[i].path
<1>. SUFFICES ASSUME ~(fs = <<>> \/ Blanks(fs))
              PROVE  /\ Parses(Lines(fs))
                     /\ Len(Lines(fs)) = Len(fs)
                     /\ \A i \in 1..Len(fs) : Lines(fs)[i].path = fs[i].path
  BY DEF Lines
<1>. DEFINE N == Len(fs)
            L == [i \in 1..N |-> [path |-> fs[i].path, orig |-> None]]
<1>1. N \in Nat /\ Lines(fs) = L
  BY DEF Lines
<1>2. \A i \in 1..N : fs[i] \in Actions
  OBVIOUS
<1>3. \A i \in 1..N : [path |-> fs[i].path, orig |-> None] \in Actions
  BY <1>2 DEF Actions
<1>4. L \in Seq(Actions) /\ Len(L) = N
  BY <1>1, <1>3
<1>5. Parses(L)
  BY <1>4, ParsedContents DEF Contents
<1>6. QED
  BY <1>1, <1>4, <1>5

(* The beginning of the report. *)
LEMMA PrefixType ==
    ASSUME NEW fs \in Seq(Actions), NEW n \in 0..Len(fs)
    PROVE  SubSeq(fs, 1, n) \in Seq(Actions)
OBVIOUS

LEMMA CutLine == [path |-> CutPath, orig |-> None] \in Actions
BY DEF Actions

-----------------------------------------------------------------------------
(* The inductive invariant.  A command runs, or its reports still hold. *)
Running == pc # "idle" \/ result = "ok"

(* The map and the order in which the command goes through it. *)
ArgsInv ==
    /\ args.output \in Files \cup {None}
    /\ args.replacements # None => args.replacements \in Seq(Options)
    /\ pc # "idle" => result = "none"
    /\ pc \in {"open", "write"} => args.output # None
    /\ pc \in {"parse", "open"} => k = 1
    /\ Running => order \in Orders(Map)

(* The reports are those of the sample manifest as it still is: only the   *)
(* command's own output replaces it before the next command or edit.       *)
Compared ==
    /\ Parses(disk[Sample])
    /\ missing = FindMissing(disk[Sample], parsed, Map, order)
    /\ removed = FindRemoved(disk[Sample], parsed, Map, order)

ReportInv ==
    /\ pc = "open" => Compared
    /\ (pc = "write" \/ result = "ok") /\ args.output # Sample => Compared

(* The file actions of the manifests that parse, without the output's. *)
CoveredBut ==
    UNION {Elems(disk[m]) :
             m \in {n \in Manifests \ {args.output} : Parses(disk[n])}}

Replaced == IF Parses(old) THEN Elems(old) ELSE {}

(* Where the actions of the manifests are found, and what is written. *)
OutputInv ==
    /\ pc \in {"parse", "open"} => parsed \subseteq Covered
    /\ pc = "write" \/ (result = "ok" /\ args.output # None) =>
         parsed \subseteq CoveredBut \cup Replaced
    /\ pc = "write" => disk[args.output] = Lines(SubSeq(missing, 1, k - 1))
    /\ result = "ok" /\ args.output # None => disk[args.output] = Lines(missing)

(* What a command writes reads back, also what is being written. *)
OriginInv ==
    /\ OutputReadsBack
    /\ pc = "write" => origin[args.output] = Cut(missing)

(* A manifest that did not parse is still there. *)
FaultInv ==
    /\ pc = "parse" => \A m \in queue : disk[m] # NotThere
    /\ (pc = "parse" /\ bad) \/ result = "panic" =>
         \E m \in Manifests : disk[m] = Malformed

DiffInv ==
    TypeOK /\ ArgsInv /\ ReportInv /\ OutputInv /\ OriginInv /\ FaultInv

LEMMA OriginTypes ==
    ASSUME NEW fs \in Seq(Actions)
    PROVE  ByHand \in Origins /\ Cut(fs) \in Origins /\ Whole(fs) \in Origins
<1>1. <<>> \in Seq(Actions)
  OBVIOUS
<1>2. QED
  BY <1>1 DEF ByHand, Cut, Whole, Origins

LEMMA TypeStep ==
    ASSUME TypeOK, ArgsInv, [Next]_vars
    PROVE  TypeOK'
<1>. USE DEF TypeOK
<1>1. ASSUME NEW f \in Files, NEW c \in Edits[scenario], Edit(f, c)
      PROVE  TypeOK'
  <2>1. c \in Contents
    BY DiffTypes
  <2>2. ByHand \in Origins
    BY OriginTypes
  <2>3. QED
    BY <1>1, <2>1, <2>2 DEF Edit
<1>2. ASSUME NEW a \in Arguments[scenario], ReadDir(a) PROVE TypeOK'
  BY <1>2 DEF ReadDir
<1>3. ASSUME NEW m \in Manifests, ParseManifest(m) PROVE TypeOK'
  <2>1. Parses(disk[m]) => Elems(disk[m]) \subseteq Actions
    <3>1. disk[m] \in Contents
      BY DEF Files
    <3>2. QED
      BY <3>1, ParsedContents, ElemsType
  <2>2. QED
    BY <1>3, <2>1 DEF ParseManifest
<1>4. CASE SampleError
  BY <1>4 DEF SampleError, End
<1>5. CASE UnwrapPanics
  BY <1>5 DEF UnwrapPanics, End
<1>6. CASE Compare
  <2>1. disk[Sample] \in Seq(Actions)
    BY <1>6, ParsedContents DEF Compare, Files
  <2>2. missing' \in Seq(Actions)
    BY <1>6, <2>1, MissingIs DEF Compare
  <2>3. removed' \subseteq parsed
    BY <1>6 DEF Compare, FindRemoved
  <2>4. k = 1 /\ 1 \in 1..Len(missing') + 1
    BY <1>6, <2>2 DEF Compare, ArgsInv
  <2>5. /\ UNCHANGED <<scenario, disk, queue, parsed, k, origin>>
        /\ pc' \in {"idle", "open"} /\ result' \in {"ok", result}
    BY <1>6 DEF Compare, End
  <2>6. QED
    BY <2>2, <2>3, <2>4, <2>5
<1>7. CASE OpenOutput
  <2>1. Cut(missing) \in Origins
    BY OriginTypes
  <2>2. QED
    BY <1>7, <2>1 DEF OpenOutput, Contents
<1>8. CASE WriteAction
  <2>1. k \in 0..Len(missing) /\ k + 1 \in 1..Len(missing) + 1
    BY <1>8 DEF WriteAction
  <2>2. Lines(SubSeq(missing, 1, k)) \in Contents
    BY <2>1, PrefixType, LinesType
  <2>3. QED
    BY <1>8, <2>1, <2>2 DEF WriteAction
<1>9. CASE Done
  <2>1. Whole(missing) \in Origins
    BY OriginTypes
  <2>2. QED
    BY <1>9, <2>1 DEF Done, End
<1>10. CASE Interrupted
  <2>. DEFINE cut == [path |-> CutPath, orig |-> None]
  <2>1. k - 1 \in 0..Len(missing)
    OBVIOUS
  <2>2. SubSeq(missing, 1, k - 1) \in Seq(Actions)
    BY <2>1, PrefixType
  <2>3. Append(SubSeq(missing, 1, k - 1), cut) \in Seq(Actions)
    BY <2>2, CutLine
  <2>4. Lines(Append(SubSeq(missing, 1, k - 1), cut)) \in Contents
    BY <2>3, LinesType
  <2>5. disk' \in [Files -> Contents]
    BY <1>10, <2>4 DEF Interrupted, Contents
  <2>6. QED
    BY <1>10, <2>5 DEF Interrupted, End
<1>11. CASE UNCHANGED vars
  BY <1>11 DEF vars
<1>12. QED
  BY <1>1, <1>2, <1>3, <1>4, <1>5, <1>6, <1>7, <1>8, <1>9, <1>10, <1>11
     DEF Next, Proceed

LEMMA ArgsStep ==
    ASSUME TypeOK, ArgsInv, [Next]_vars
    PROVE  ArgsInv'
<1>. USE DEF ArgsInv, Running, Map
<1>1. ASSUME NEW f \in Files, NEW c \in Edits[scenario], Edit(f, c)
      PROVE  ArgsInv'
  BY <1>1 DEF Edit
<1>2. ASSUME NEW a \in Arguments[scenario], ReadDir(a) PROVE ArgsInv'
  <2>1. /\ a.replacements # None => a.replacements \in Seq(Options)
        /\ a.output \in Files \cup {None}
    BY DiffTypes DEF TypeOK
  <2>2. QED
    BY <1>2, <2>1 DEF ReadDir
<1>3. ASSUME NEW m \in Manifests, ParseManifest(m) PROVE ArgsInv'
  BY <1>3 DEF ParseManifest
<1>4. CASE SampleError
  BY <1>4 DEF SampleError, End
<1>5. CASE UnwrapPanics
  BY <1>5 DEF UnwrapPanics, End
<1>6. CASE Compare
  BY <1>6 DEF Compare, End
<1>7. CASE OpenOutput
  BY <1>7 DEF OpenOutput
<1>8. CASE WriteAction
  BY <1>8 DEF WriteAction
<1>9. CASE Done
  BY <1>9 DEF Done, End
<1>10. CASE Interrupted
  BY <1>10 DEF Interrupted, End
<1>11. CASE UNCHANGED vars
  BY <1>11 DEF vars
<1>12. QED
  BY <1>1, <1>2, <1>3, <1>4, <1>5, <1>6, <1>7, <1>8, <1>9, <1>10, <1>11
     DEF Next, Proceed

LEMMA ReportStep ==
    ASSUME TypeOK, ArgsInv, ReportInv, [Next]_vars
    PROVE  ReportInv'
<1>. USE DEF ReportInv
<1>1. ASSUME NEW f \in Files, NEW c \in Edits[scenario], Edit(f, c)
      PROVE  ReportInv'
  BY <1>1 DEF Edit
<1>2. ASSUME NEW a \in Arguments[scenario], ReadDir(a) PROVE ReportInv'
  BY <1>2 DEF ReadDir
<1>3. ASSUME NEW m \in Manifests, ParseManifest(m) PROVE ReportInv'
  BY <1>3 DEF ParseManifest, ArgsInv
<1>4. CASE SampleError
  BY <1>4 DEF SampleError, End
<1>5. CASE UnwrapPanics
  BY <1>5 DEF UnwrapPanics, End
<1>6. CASE Compare
  <2>1. Compared'
    BY <1>6 DEF Compare, Compared, Map
  <2>2. QED
    BY <2>1
<1>7. ASSUME UNCHANGED <<disk, args, order, parsed, missing, removed>>
      PROVE  Compared => Compared'
  BY <1>7 DEF Compared, Map
<1>8. ASSUME NEW c, disk' = [disk EXCEPT ![args.output] = c],
             args.output # Sample,
             UNCHANGED <<args, order, parsed, missing, removed>>
      PROVE  Compared => Compared'
  <2>1. disk'[Sample] = disk[Sample]
    BY <1>8 DEF TypeOK, Files
  <2>2. QED
    BY <1>8, <2>1 DEF Compared, Map
<1>9. CASE OpenOutput
  <2>1. args.output # Sample => Compared'
    BY <1>8, <1>9 DEF OpenOutput
  <2>2. pc' = "write" /\ result' # "ok" /\ args' = args
    BY <1>9 DEF OpenOutput, ArgsInv
  <2>3. QED
    BY <2>1, <2>2
<1>10. CASE WriteAction
  <2>1. args.output # Sample => Compared'
    BY <1>8, <1>10 DEF WriteAction
  <2>2. pc' = "write" /\ args' = args
    BY <1>10 DEF WriteAction
  <2>3. QED
    BY <2>1, <2>2
<1>11. CASE Done
  <2>1. args.output # Sample => Compared'
    BY <1>7, <1>11 DEF Done
  <2>2. pc' = "idle" /\ args' = args
    BY <1>11 DEF Done, End
  <2>3. QED
    BY <2>1, <2>2
<1>12. CASE Interrupted
  BY <1>12 DEF Interrupted, End
<1>13. CASE UNCHANGED vars
  BY <1>7, <1>13 DEF vars
<1>14. QED
  BY <1>1, <1>2, <1>3, <1>4, <1>5, <1>6, <1>9, <1>10, <1>11, <1>12, <1>13
     DEF Next, Proceed

LEMMA OutputStep ==
    ASSUME TypeOK, ArgsInv, OutputInv, [Next]_vars
    PROVE  OutputInv'
<1>. USE DEF OutputInv
<1>1. ASSUME NEW f \in Files, NEW c \in Edits[scenario], Edit(f, c)
      PROVE  OutputInv'
  BY <1>1 DEF Edit
<1>2. ASSUME NEW a \in Arguments[scenario], ReadDir(a) PROVE OutputInv'
  BY <1>2 DEF ReadDir
<1>3. ASSUME NEW m \in Manifests, ParseManifest(m) PROVE OutputInv'
  <2>1. parsed' \subseteq Covered
    BY <1>3 DEF ParseManifest, Covered
  <2>2. Covered' = Covered
    BY <1>3 DEF ParseManifest, Covered
  <2>3. pc' = "parse" /\ result' # "ok"
    BY <1>3 DEF ParseManifest, ArgsInv
  <2>4. QED
    BY <2>1, <2>2, <2>3
<1>4. CASE SampleError
  BY <1>4 DEF SampleError, End
<1>5. CASE UnwrapPanics
  BY <1>5 DEF UnwrapPanics, End
<1>6. CASE Compare
  <2>1. parsed' \subseteq Covered'
    BY <1>6 DEF Compare, Covered
  <2>2. /\ pc' \in {"open", "idle"} /\ args' = args
        /\ result' = "ok" => args.output = None
    BY <1>6 DEF Compare, End, ArgsInv
  <2>3. QED
    BY <2>1, <2>2
<1>7. ASSUME NEW c, disk' = [disk EXCEPT ![args.output] = c], args' = args
      PROVE  /\ CoveredBut' = CoveredBut
             /\ args.output # None => disk'[args.output] = c
  <2>1. \A m \in Manifests \ {args.output} : disk'[m] = disk[m]
    BY <1>7 DEF TypeOK, Files
  <2>2. args.output # None => disk'[args.output] = c
    BY <1>7 DEF TypeOK, ArgsInv
  <2>3. QED
    BY <1>7, <2>1, <2>2 DEF CoveredBut
<1>8. CASE OpenOutput
  <2>1. /\ pc = "open" /\ pc' = "write" /\ result' # "ok" /\ old' = disk[args.output]
        /\ disk' = [disk EXCEPT ![args.output] = Malformed]
        /\ UNCHANGED <<args, parsed, missing, k>>
    BY <1>8 DEF OpenOutput, ArgsInv
  <2>2. CoveredBut' = CoveredBut /\ disk'[args.output] = Malformed
    BY <1>7, <2>1 DEF ArgsInv
  <2>3. Replaced' = IF Parses(disk[args.output]) THEN Elems(disk[args.output]) ELSE {}
    BY <2>1 DEF Replaced
  <2>4. Covered \subseteq CoveredBut \cup Replaced'
    BY <2>3 DEF Covered, CoveredBut
  <2>5. Lines(SubSeq(missing, 1, k - 1)) = Malformed
    <3>1. k - 1 = 0
      BY <2>1 DEF ArgsInv
    <3>2. SubSeq(missing, 1, 0) = <<>>
      BY SubSeqEmpty
    <3>3. QED
      BY <3>1, <3>2 DEF Lines
  <2>6. QED
    BY <2>1, <2>2, <2>4, <2>5
<1>9. CASE WriteAction
  <2>1. /\ pc = "write" /\ pc' = "write" /\ result' # "ok" /\ k' = k + 1
        /\ disk' = [disk EXCEPT ![args.output] = Lines(SubSeq(missing, 1, k))]
        /\ UNCHANGED <<args, parsed, missing, old>>
    BY <1>9 DEF WriteAction, ArgsInv
  <2>2. /\ CoveredBut' = CoveredBut
        /\ disk'[args.output] = Lines(SubSeq(missing, 1, k))
    BY <1>7, <2>1 DEF ArgsInv
  <2>3. Replaced' = Replaced
    BY <2>1 DEF Replaced
  <2>4. k' - 1 = k
    BY <2>1 DEF TypeOK
  <2>5. QED
    BY <2>1, <2>2, <2>3, <2>4
<1>10. CASE Done
  <2>1. /\ pc = "write" /\ pc' = "idle" /\ k > Len(missing)
        /\ UNCHANGED <<disk, args, parsed, missing, old>>
    BY <1>10 DEF Done, End
  <2>2. CoveredBut' = CoveredBut /\ Replaced' = Replaced
    BY <2>1 DEF CoveredBut, Replaced
  <2>3. k - 1 = Len(missing)
    BY <2>1 DEF TypeOK
  <2>4. SubSeq(missing, 1, Len(missing)) = missing
    BY SubSeqFull DEF TypeOK
  <2>5. QED
    BY <2>1, <2>2, <2>3, <2>4
<1>11. CASE Interrupted
  BY <1>11 DEF Interrupted, End
<1>12. CASE UNCHANGED vars
  BY <1>12 DEF vars, Covered, CoveredBut, Replaced
<1>13. QED
  BY <1>1, <1>2, <1>3, <1>4, <1>5, <1>6, <1>8, <1>9, <1>10, <1>11, <1>12
     DEF Next, Proceed

(* What was written of the missing files reads back as a beginning of them. *)
LEMMA WrittenReadsBack ==
    ASSUME NEW fs \in Seq(Actions), NEW n \in 0..Len(fs)
    PROVE  /\ ReadsBack(Lines(SubSeq(fs, 1, n)), Cut(fs))
           /\ n = Len(fs) => ReadsBack(Lines(SubSeq(fs, 1, n)), Whole(fs))
<1>. DEFINE gs == SubSeq(fs, 1, n)
            c == Lines(gs)
<1>1. /\ gs \in Seq(Actions) /\ Len(gs) = n /\ n <= Len(fs)
      /\ \A i \in 1..n : gs[i] = fs[i]
  OBVIOUS
<1>2. n = Len(fs) => gs = fs
  BY SubSeqFull
<1>. HIDE DEF gs
<1>3. \/ c = Malformed /\ (gs = <<>> \/ Blanks(gs))
      \/ /\ Parses(c) /\ Len(c) = n
         /\ \A i \in 1..n : c[i].path = fs[i].path
  BY <1>1, LinesRead
<1>. HIDE DEF c
<1>4. ReadsBack(c, Cut(fs))
  BY <1>1, <1>3 DEF ReadsBack, Cut
<1>5. n = Len(fs) => ReadsBack(c, Whole(fs))
  BY <1>1, <1>2, <1>3 DEF ReadsBack, Whole
<1>6. QED
  BY <1>4, <1>5 DEF c, gs

(* Cut short in the middle of a line, only its last path differs. *)
LEMMA CutReadsBack ==
    ASSUME NEW fs \in Seq(Actions), NEW n \in 0..Len(fs), n < Len(fs)
    PROVE  ReadsBack(Lines(Append(SubSeq(fs, 1, n),
                                  [path |-> CutPath, orig |-> None])), Cut(fs))
<1>. DEFINE line == [path |-> CutPath, orig |-> None]
            hs == SubSeq(fs, 1, n)
            gs == Append(hs, line)
            c == Lines(gs)
<1>1. line \in Actions /\ line.path = CutPath
  BY CutLine
<1>2. /\ hs \in Seq(Actions) /\ Len(hs) = n /\ n + 1 <= Len(fs)
      /\ \A i \in 1..n : hs[i] = fs[i]
  OBVIOUS
<1>. HIDE DEF line, hs
<1>3. /\ gs \in Seq(Actions) /\ Len(gs) = n + 1 /\ gs[n + 1] = line
      /\ \A i \in 1..n : gs[i] = hs[i]
  BY <1>1, <1>2, AppendProperties
<1>. HIDE DEF gs
<1>4. \/ c = Malformed
      \/ /\ Parses(c) /\ Len(c) = n + 1
         /\ \A i \in 1..n + 1 : c[i].path = gs[i].path
  BY <1>3, LinesRead
<1>5. \A i \in 1..n + 1 : i = n + 1 \/ i \in 1..n
  OBVIOUS
<1>. HIDE DEF c
<1>6. ReadsBack(c, Cut(fs))
  BY <1>1, <1>2, <1>3, <1>4, <1>5 DEF ReadsBack, Cut
<1>7. QED
  BY <1>6 DEF c, gs, hs, line

LEMMA OriginStep ==
    ASSUME TypeOK, ArgsInv, OutputInv, OriginInv, [Next]_vars
    PROVE  OriginInv'
<1>. DEFINE Fine(c, o) == o.by # "hand" => ReadsBack(c, o)
            g == args.output
            Others == \A f \in Files : f # g => /\ disk'[f] = disk[f]
                                                /\ origin'[f] = origin[f]
<1>1. \A f \in Files : Fine(disk[f], origin[f])
  BY DEF OriginInv, OutputReadsBack
<1>2. OutputReadsBack' <=> \A f \in Files : Fine(disk'[f], origin'[f])
  BY DEF OutputReadsBack
<1>. HIDE DEF Fine
<1>3. ASSUME UNCHANGED <<disk, origin>>, pc' # "write" PROVE OriginInv'
  BY <1>1, <1>2, <1>3 DEF OriginInv
<1>4. ASSUME NEW f \in Files, NEW c \in Edits[scenario], Edit(f, c)
      PROVE  OriginInv'
  <2>1. /\ pc' # "write" /\ origin'[f] = ByHand
        /\ \A h \in Files \ {f} : disk'[h] = disk[h] /\ origin'[h] = origin[h]
    BY <1>4 DEF Edit, TypeOK
  <2>2. Fine(disk'[f], ByHand)
    BY DEF Fine, ByHand
  <2>3. QED
    BY <1>1, <1>2, <2>1, <2>2 DEF OriginInv
<1>5. ASSUME NEW a \in Arguments[scenario], ReadDir(a) PROVE OriginInv'
  BY <1>3, <1>5 DEF ReadDir
<1>6. ASSUME NEW m \in Manifests, ParseManifest(m) PROVE OriginInv'
  BY <1>3, <1>6 DEF ParseManifest
<1>7. CASE SampleError
  BY <1>3, <1>7 DEF SampleError, End
<1>8. CASE UnwrapPanics
  BY <1>3, <1>8 DEF UnwrapPanics, End
<1>9. CASE Compare
  <2>1. UNCHANGED <<disk, origin>> /\ pc' \in {"idle", "open"}
    BY <1>9 DEF Compare, End
  <2>2. QED
    BY <1>3, <2>1
<1>10. ASSUME pc \in {"open", "write"} PROVE g \in Files
  BY <1>10 DEF ArgsInv
<1>11. ASSUME Others, Fine(disk'[g], origin'[g]) PROVE OutputReadsBack'
  BY <1>1, <1>2, <1>11
<1>12. missing \in Seq(Actions) /\ k \in 1..Len(missing) + 1
  BY DEF TypeOK
<1>13. pc = "write" => origin[g] = Cut(missing)
  BY DEF OriginInv
<1>14. CASE OpenOutput
  <2>1. /\ UNCHANGED <<args, missing>>
        /\ disk'[g] = Malformed /\ origin'[g] = Cut(missing) /\ Others
    BY <1>10, <1>14 DEF OpenOutput, TypeOK
  <2>2. Fine(Malformed, Cut(missing))
    BY DEF Fine, ReadsBack, Cut
  <2>3. OutputReadsBack'
    BY <1>11, <2>1, <2>2
  <2>4. QED
    BY <2>1, <2>3 DEF OriginInv, Cut
<1>15. CASE WriteAction
  <2>1. /\ UNCHANGED <<args, missing, origin>> /\ pc = "write"
        /\ disk'[g] = Lines(SubSeq(missing, 1, k)) /\ Others
        /\ k \in 0..Len(missing)
    BY <1>10, <1>12, <1>15 DEF WriteAction, TypeOK
  <2>2. Fine(Lines(SubSeq(missing, 1, k)), Cut(missing))
    BY <1>12, <2>1, WrittenReadsBack DEF Fine
  <2>3. OutputReadsBack'
    BY <1>11, <1>13, <2>1, <2>2
  <2>4. QED
    BY <1>13, <2>1, <2>3 DEF OriginInv, Cut
<1>16. CASE Done
  <2>1. /\ pc' = "idle" /\ pc = "write" /\ origin'[g] = Whole(missing)
        /\ disk' = disk /\ Others /\ k - 1 = Len(missing)
        /\ Len(missing) \in 0..Len(missing)
    BY <1>10, <1>12, <1>16 DEF Done, End, TypeOK
  <2>2. disk[g] = Lines(SubSeq(missing, 1, Len(missing)))
    BY <2>1 DEF OutputInv
  <2>3. Fine(disk[g], Whole(missing))
    BY <1>12, <2>1, <2>2, WrittenReadsBack DEF Fine
  <2>4. OutputReadsBack'
    BY <1>11, <2>1, <2>3
  <2>5. QED
    BY <2>1, <2>4 DEF OriginInv
<1>17. CASE Interrupted
  <2>. DEFINE line == [path |-> CutPath, orig |-> None]
              cut == Lines(Append(SubSeq(missing, 1, k - 1), line))
  <2>1. pc' = "idle" /\ origin' = origin
    BY <1>17 DEF Interrupted, End
  <2>2. CASE disk' = disk
    BY <1>3, <2>1, <2>2
  <2>3. ASSUME NEW c \in {Malformed, cut}, pc = "write", k <= Len(missing),
               disk' = [disk EXCEPT ![g] = c]
        PROVE  OriginInv'
    <3>1. disk'[g] = c /\ Others
      BY <1>10, <2>1, <2>3 DEF TypeOK
    <3>2. k - 1 \in 0..Len(missing) /\ k - 1 < Len(missing)
      BY <1>12, <2>3
    <3>3. ReadsBack(cut, Cut(missing))
      BY <1>12, <3>2, CutReadsBack
    <3>4. ReadsBack(Malformed, Cut(missing))
      BY DEF ReadsBack, Cut
    <3>. HIDE DEF cut
    <3>5. Fine(c, Cut(missing))
      BY <2>3, <3>3, <3>4 DEF Fine
    <3>6. OutputReadsBack'
      BY <1>11, <1>13, <2>1, <2>3, <3>1, <3>5
    <3>7. QED
      BY <2>1, <3>6 DEF OriginInv
  <2>4. QED
    BY <1>17, <2>2, <2>3 DEF Interrupted
<1>18. CASE UNCHANGED vars
  BY <1>1, <1>2, <1>13, <1>18 DEF vars, OriginInv, Cut
<1>19. QED
  BY <1>4, <1>5, <1>6, <1>7, <1>8, <1>9, <1>14, <1>15, <1>16, <1>17, <1>18
     DEF Next, Proceed

LEMMA FaultStep ==
    ASSUME TypeOK, ArgsInv, FaultInv, [Next]_vars
    PROVE  FaultInv'
<1>. USE DEF FaultInv
<1>1. ASSUME NEW f \in Files, NEW c \in Edits[scenario], Edit(f, c)
      PROVE  FaultInv'
  BY <1>1 DEF Edit
<1>2. ASSUME NEW a \in Arguments[scenario], ReadDir(a) PROVE FaultInv'
  BY <1>2 DEF ReadDir
<1>3. ASSUME NEW m \in Manifests, ParseManifest(m) PROVE FaultInv'
  <2>1. disk[m] # NotThere /\ disk' = disk /\ result' = "none"
    BY <1>3 DEF ParseManifest, ArgsInv
  <2>2. CASE Parses(disk[m])
    BY <1>3, <2>1, <2>2 DEF ParseManifest
  <2>3. CASE ~Parses(disk[m])
    BY <1>3, <2>1, <2>3 DEF ParseManifest, Parses
  <2>4. QED
    BY <2>2, <2>3
<1>4. CASE SampleError
  BY <1>4 DEF SampleError, End
<1>5. CASE UnwrapPanics
  BY <1>5 DEF UnwrapPanics, End
<1>6. CASE Compare
  BY <1>6 DEF Compare, End, ArgsInv
<1>7. CASE OpenOutput
  BY <1>7 DEF OpenOutput, ArgsInv
<1>8. CASE WriteAction
  BY <1>8 DEF WriteAction, ArgsInv
<1>9. CASE Done
  BY <1>9 DEF Done, End
<1>10. CASE Interrupted
  BY <1>10 DEF Interrupted, End
<1>11. CASE UNCHANGED vars
  BY <1>11 DEF vars
<1>12. QED
  BY <1>1, <1>2, <1>3, <1>4, <1>5, <1>6, <1>7, <1>8, <1>9, <1>10, <1>11
     DEF Next, Proceed

LEMMA DiffInvInit == Init => DiffInv
<1>. SUFFICES ASSUME Init PROVE DiffInv
  OBVIOUS
<1>1. TypeOK
  <2>1. <<>> \in Seq(Actions)
    OBVIOUS
  <2>2. ByHand \in Origins
    BY <2>1, OriginTypes
  <2>3. QED
    BY <2>1, <2>2, DiffTypes DEF Init, TypeOK
<1>2. OriginInv
  BY DEF Init, OriginInv, OutputReadsBack, ByHand
<1>3. QED
  BY <1>1, <1>2 DEF Init, DiffInv, ArgsInv, Running, ReportInv, OutputInv, FaultInv

LEMMA DiffInvariant == Spec => []DiffInv
<1>1. DiffInv /\ [Next]_vars => DiffInv'
  BY TypeStep, ArgsStep, ReportStep, OutputStep, OriginStep, FaultStep DEF DiffInv
<1>2. QED
  BY <1>1, DiffInvInit, PTL DEF Spec

(* The map and the order of a command, as the lemmas about them ask. *)
LEMMA MapIs ==
    ASSUME ArgsInv
    PROVE  /\ IsMap(Map) /\ IsFiniteSet(DOMAIN Map)
           /\ args.replacements = None => DOMAIN Map = {}
<1>1. CASE args.replacements = None
  BY <1>1, NoMapIs DEF Map
<1>2. CASE args.replacements # None
  <2>1. args.replacements \in Seq(Options)
    BY <1>2 DEF ArgsInv
  <2>2. Map = Replacements(args.replacements)
    BY <1>2 DEF Map
  <2>3. QED
    BY <1>2, <2>1, <2>2, ReplacementsMap
<1>3. QED
  BY <1>1, <1>2

(* The reports, and the keys that no replacement changes. *)
LEMMA ReportsAre ==
    ASSUME DiffInv, Compared, Running
    PROVE  LET R(x) == ReplaceFunc(x, Map, order)
           IN  /\ disk[Sample] \in Seq(Actions)
               /\ Elems(missing) = {f \in Elems(disk[Sample]) :
                                       R(Key(f)) \notin Keys(parsed)}
               /\ removed = {f \in parsed :
                                /\ R(Key(f)) \notin Keys(Elems(disk[Sample]))
                                /\ f.orig \notin Existing}
               /\ \A f \in Actions : Elems(Key(f)) \cap DOMAIN Map = {} =>
                                         R(Key(f)) = Key(f)
<1>1. disk[Sample] \in Seq(Actions)
  BY ParsedContents DEF DiffInv, TypeOK, Compared, Files
<1>2. Elems(missing) = {f \in Elems(disk[Sample]) :
                           ReplaceFunc(Key(f), Map, order) \notin Keys(parsed)}
  BY <1>1, MissingIs DEF Compared
<1>3. removed = {f \in parsed :
                   /\ ReplaceFunc(Key(f), Map, order)
                        \notin Keys(Elems(disk[Sample]))
                   /\ f.orig \notin Existing}
  BY DEF Compared, FindRemoved
<1>4. IsMap(Map) /\ order \in Seq(DOMAIN Map)
  <2>1. IsMap(Map) /\ IsFiniteSet(DOMAIN Map) /\ order \in Orders(Map)
    BY MapIs DEF DiffInv, ArgsInv
  <2>2. QED
    BY <2>1, OrderIs
<1>5. ASSUME NEW f \in Actions, Elems(Key(f)) \cap DOMAIN Map = {}
      PROVE  ReplaceFunc(Key(f), Map, order) = Key(f)
  BY <1>4, <1>5, KeyType, ReplaceUntouched
<1>6. QED
  BY <1>1, <1>2, <1>3, <1>5

-----------------------------------------------------------------------------

(* The variables of diff_component are typed. *)
THEOREM DiffTypeCorrect == Spec => []TypeOK
<1>1. DiffInv => TypeOK
  BY DEF DiffInv
<1>2. QED
  BY <1>1, DiffInvariant, PTL

LEMMA InvImpliesReportsAgree == DiffInv => ReportsAgree
<1>. SUFFICES ASSUME DiffInv, result = "ok", args.output # Sample
              PROVE  ReportsAgree
  BY DEF ReportsAgree
<1>. DEFINE R(x) == ReplaceFunc(x, Map, order)
            sample == Elems(disk[Sample])
            Same(key) == Elems(key) \cap DOMAIN Map = {}
<1>1. Compared /\ Running
  BY DEF DiffInv, ReportInv, Running
<1>2. /\ disk[Sample] \in Seq(Actions)
      /\ Elems(missing) = {f \in sample : R(Key(f)) \notin Keys(parsed)}
      /\ removed = {f \in parsed : /\ R(Key(f)) \notin Keys(sample)
                                   /\ f.orig \notin Existing}
      /\ \A f \in Actions : Same(Key(f)) => R(Key(f)) = Key(f)
  BY <1>1, ReportsAre
<1>3. sample \subseteq Actions /\ parsed \subseteq Actions
  BY <1>2, ElemsType DEF DiffInv, TypeOK
<1>4. args.replacements = None => \A key : Same(key)
  BY MapIs DEF DiffInv
<1>. HIDE DEF R, sample, Same
<1>5. ASSUME NEW key \in Keys(sample) \cap Keys(parsed), Same(key)
      PROVE  key \notin Keys(Elems(missing)) \cup Keys(removed)
  BY <1>2, <1>3, <1>5 DEF Keys
<1>6. ASSUME args.replacements = None
      PROVE  Keys(Elems(missing)) \cap Keys(removed) = {}
  BY <1>2, <1>3, <1>4, <1>6 DEF Keys
<1>7. ASSUME args.replacements = None, missing = <<>>, removed = {}
      PROVE  /\ Keys(sample) \subseteq Keys(parsed)
             /\ Keys(parsed) \subseteq Keys(sample) \cup Existing
  <2>1. Elems(missing) = {}
    BY <1>7, ElemsEmpty
  <2>2. \A f \in sample : Key(f) \in Keys(parsed)
    BY <1>2, <1>3, <1>4, <1>7, <2>1
  <2>3. ASSUME NEW f \in parsed PROVE Key(f) \in Keys(sample) \cup Existing
    <3>1. Key(f) \in Keys(sample) \/ f.orig \in Existing
      BY <1>2, <1>3, <1>4, <1>7
    <3>2. f.orig \in Existing => Key(f) = f.orig
      BY DiffTypes DEF Key
    <3>3. QED
      BY <3>1, <3>2
  <2>4. QED
    BY <2>2, <2>3 DEF Keys
<1>8. QED
  BY <1>5, <1>6, <1>7 DEF ReportsAgree, sample, Same

(***************************************************************************)
(* The two reports of diff_component agree with the manifests and with     *)
(* each other, but for the files whose key holds a replaced reference.     *)
(***************************************************************************)
THEOREM ReportsAgreeWithManifests == Spec => []ReportsAgree
BY DiffInvariant, InvImpliesReportsAgree, PTL

LEMMA InvImpliesCovered == DiffInv => CoveredAfterwards
<1>. SUFFICES ASSUME DiffInv, result = "ok", args.output \in Manifests,
                     args.replacements = None, NEW f \in Elems(disk[Sample])
              PROVE  \/ Key(f) \in Keys(Covered)
                     \/ Parses(old) /\ Key(f) \in Keys(Elems(old))
                     \/ f \in Elems(missing) /\ f.orig # None
                     \/ \E g \in Elems(missing) : Elems(g.path) \cap Spaces # {}
  BY DEF CoveredAfterwards
<1>1. args.output # Sample /\ args.output # None
  BY DiffTypes DEF Files
<1>2. Compared /\ Running
  BY <1>1 DEF DiffInv, ReportInv, Running
<1>3. DOMAIN Map = {}
  BY MapIs DEF DiffInv
<1>4. /\ disk[Sample] \in Seq(Actions)
      /\ Elems(missing) = {x \in Elems(disk[Sample]) :
                            ReplaceFunc(Key(x), Map, order) \notin Keys(parsed)}
      /\ \A x \in Actions : ReplaceFunc(Key(x), Map, order) = Key(x)
  BY <1>2, <1>3, ReportsAre
<1>5. f \in Actions
  BY <1>4, ElemsType
<1>6. CASE f \notin Elems(missing)
  <2>1. Key(f) \in Keys(parsed)
    BY <1>4, <1>5, <1>6
  <2>2. parsed \subseteq CoveredBut \cup Replaced
    BY <1>1 DEF DiffInv, OutputInv
  <2>3. CoveredBut \subseteq Covered
    BY DEF CoveredBut, Covered
  <2>4. Key(f) \in Keys(Covered) \/ Key(f) \in Keys(Replaced)
    BY <2>1, <2>2, <2>3 DEF Keys
  <2>5. Key(f) \in Keys(Replaced) => Parses(old) /\ Key(f) \in Keys(Elems(old))
    BY DEF Keys, Replaced
  <2>6. QED
    BY <2>4, <2>5
<1>7. CASE /\ f \in Elems(missing) /\ f.orig = None
           /\ \A g \in Elems(missing) : Elems(g.path) \cap Spaces = {}
  <2>. DEFINE line == [path |-> f.path, orig |-> None]
  <2>1. missing \in Seq(Actions) /\ missing # <<>>
    BY <1>7, ElemsEmpty DEF DiffInv, TypeOK
  <2>2. disk[args.output] = Lines(missing)
    BY <1>1 DEF DiffInv, OutputInv
  <2>3. /\ disk[args.output] \in Seq(Actions)
        /\ line \in Elems(disk[args.output])
    BY <1>7, <2>1, <2>2, LinesType
  <2>4. Parses(disk[args.output])
    BY <2>3, ParsedContents DEF Contents
  <2>5. line \in Covered
    BY <2>3, <2>4 DEF Covered
  <2>6. Key(line) = Key(f)
    BY <1>7 DEF Key
  <2>. HIDE DEF line
  <2>7. QED
    BY <2>5, <2>6 DEF Keys
<1>8. QED
  BY <1>6, <1>7

(***************************************************************************)
(* After a command that wrote its output manifest into the component       *)
(* directory, the only files of the sample manifest that no manifest lists *)
(* are those the old output manifest listed and those whose line, path=    *)
(* without the original path and without quotes, does not stand for them.  *)
(***************************************************************************)
THEOREM OutputCoversSample == Spec => []CoveredAfterwards
BY DiffInvariant, InvImpliesCovered, PTL

(* Two orders of a map without references in its texts. *)
LEMMA SameReplaced ==
    ASSUME NEW map, IsMap(map), IsFiniteSet(DOMAIN map),
           \A r \in DOMAIN map : Elems(map[r]) \cap DOMAIN map = {},
           NEW p \in Orders(map), NEW q \in Orders(map), NEW text \in Texts
    PROVE  ReplaceFunc(text, map, p) = ReplaceFunc(text, map, q)
<1>1. /\ p \in Seq(DOMAIN map) /\ Elems(p) = DOMAIN map
      /\ q \in Seq(DOMAIN map) /\ Elems(q) = DOMAIN map
  BY OrderIs
<1>2. DOMAIN map \subseteq Atoms
  BY DiffTypes DEF IsMap
<1>3. ReplaceFunc(text, map, p) = Flat(AtOnce(map, Elems(p)), text)
  BY <1>1, <1>2, ReplaceAtOnce
<1>4. ReplaceFunc(text, map, q) = Flat(AtOnce(map, Elems(q)), text)
  BY <1>1, <1>2, ReplaceAtOnce
<1>5. QED
  BY <1>1, <1>3, <1>4

LEMMA InvImpliesOrderIrrelevant == DiffInv => OrderIrrelevant
<1>. SUFFICES ASSUME DiffInv, pc = "open",
                     \A r \in DOMAIN Map : Elems(Map[r]) \cap DOMAIN Map = {},
                     NEW ord \in Orders(Map)
              PROVE  /\ missing = FindMissing(disk[Sample], parsed, Map, ord)
                     /\ removed = FindRemoved(disk[Sample], parsed, Map, ord)
  BY DEF OrderIrrelevant
<1>1. Compared /\ order \in Orders(Map)
  BY DEF DiffInv, ReportInv, ArgsInv, Running
<1>2. IsMap(Map) /\ IsFiniteSet(DOMAIN Map)
  BY MapIs DEF DiffInv
<1>3. ASSUME NEW f \in Actions
      PROVE  ReplaceFunc(Key(f), Map, ord) = ReplaceFunc(Key(f), Map, order)
  BY <1>1, <1>2, KeyType, SameReplaced
<1>4. disk[Sample] \in Seq(Actions) /\ parsed \subseteq Actions
  BY <1>1, ParsedContents DEF DiffInv, TypeOK, Compared, Files
<1>5. Report(parsed, Map, ord) = Report(parsed, Map, order)
  BY <1>3 DEF Report
<1>6. missing = FindMissing(disk[Sample], parsed, Map, ord)
  BY <1>1, <1>4, <1>5, MissingIsFlat DEF Compared
<1>7. removed = FindRemoved(disk[Sample], parsed, Map, ord)
  BY <1>1, <1>3, <1>4 DEF Compared, FindRemoved
<1>8. QED
  BY <1>6, <1>7

(***************************************************************************)
(* The order in which the HashMap of the replacements is iterated changes  *)
(* no report unless the text of a replacement holds a reference that is    *)
(* replaced too.                                                           *)
(***************************************************************************)
THEOREM OrderChangesNothing == Spec => []OrderIrrelevant
BY DiffInvariant, InvImpliesOrderIrrelevant, PTL

(***************************************************************************)
(* Whatever a command has written into a file reads back, until somebody   *)
(* edits the file, as the missing files of that command, or as a beginning *)
(* of them when it was stopped; it fails to parse only when the command    *)
(* was stopped, had nothing to write or wrote a path with a blank.         *)
(***************************************************************************)
THEOREM WrittenManifestReadsBack == Spec => []OutputReadsBack
<1>1. DiffInv => OutputReadsBack
  BY DEF DiffInv, OriginInv
<1>2. QED
  BY <1>1, DiffInvariant, PTL

LEMMA InvImpliesPanicHasCause == DiffInv => PanicHasCause
<1>. SUFFICES ASSUME DiffInv, result = "panic"
              PROVE  \E m \in Manifests :
                        /\ disk[m] = Malformed
                        /\ \/ origin[m].by \in {"hand", "cut"}
                           \/ origin[m].actions = <<>>
                           \/ Blanks(origin[m].actions)
  BY DEF PanicHasCause
<1>1. PICK m \in Manifests : disk[m] = Malformed
  BY DEF DiffInv, FaultInv
<1>2. m \in Files /\ ~Parses(disk[m])
  BY <1>1 DEF Files, Parses
<1>3. origin[m].by # "hand" => ReadsBack(disk[m], origin[m])
  BY <1>2 DEF DiffInv, OriginInv, OutputReadsBack
<1>4. QED
  BY <1>1, <1>2, <1>3 DEF ReadsBack

(***************************************************************************)
(* unwrap() panics only over a manifest that somebody else left malformed, *)
(* that a stopped command left, or that a command truncated although       *)
(* nothing was missing or wrote with an unquoted blank.                    *)
(***************************************************************************)
THEOREM PanicsHaveCause == Spec => []PanicHasCause
BY DiffInvariant, InvImpliesPanicHasCause, PTL
=============================================================================
