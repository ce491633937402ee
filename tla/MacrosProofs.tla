---------------------------- MODULE MacrosProofs ----------------------------
(***************************************************************************)
(* For any scripts, words and macros: the script that is returned has the  *)
(* words and the values of the script that was given, line by line and in  *)
(* their order.                                                            *)
(***************************************************************************)
EXTENDS Macros, Recursion, SequenceTheorems, TLAPS

(* What the parts of a line are put together from. *)
Pieces == Tokens \cup Outputs \cup [kind : {"value"}, name : Names]

(* The parts of the line up to each of its tokens. *)
IsPartsOf(f, line) ==
    /\ f[0] = <<>>
    /\ \A n \in 1..Len(line) :
          f[n] = IF IsBlank(line[n]) THEN f[n-1]
                 ELSE Append(f[n-1], line[n])

(* There is such a function, and Parts is its last value. *)
LEMMA PartsFunction ==
    ASSUME NEW line \in Seq(Pieces)
    PROVE  \E f : IsPartsOf(f, line) /\ Parts(line) = f[Len(line)]
<1>. DEFINE N == Len(line)
            V == Seq(Pieces)
            F(f) == [n \in 0..N |->
                        IF n = 0 THEN <<>>
                        ELSE IF IsBlank(line[n]) THEN f[n-1]
                        ELSE Append(f[n-1], line[n])]
            parts == CHOOSE f : f = F(f)
<1>1. Parts(line) = parts[N]
  BY DEF Parts
<1>2. N \in Nat /\ \A n \in 1..N : line[n] \in Pieces
  OBVIOUS
<1>. DEFINE Add(n, x) == IF n \in 1..N /\ ~IsBlank(line[n])
                         THEN Append(x, line[n]) ELSE x
            e == [n \in Nat |-> [x \in V |-> Add(n, x)]]
<1>3. ASSUME NEW n \in Nat, NEW x \in V PROVE Add(n, x) \in V
  BY <1>2
<1>. HIDE DEF V, N, Add
<1>4. e \in [Nat -> [V -> V]]
  BY <1>3
<1>5. <<>> \in V
  BY DEF V
<1>. HIDE DEF e
<1>6. PICK g : Recursive(g, 0, N, V, <<>>, e)
  BY <1>2, <1>4, <1>5, 0 \in Nat, N >= 0, IntervalRecursion
<1>7. g \in [0..N -> V]
  BY <1>6 DEF Recursive
<1>8. ASSUME NEW n \in 0..N
      PROVE  g[n] = IF n = 0 THEN <<>>
                    ELSE IF IsBlank(line[n]) THEN g[n-1]
                    ELSE Append(g[n-1], line[n])
  <2>1. g[n] = IF n = 0 THEN <<>> ELSE e[n][g[n-1]]
    BY <1>6 DEF Recursive
  <2>2. ASSUME n # 0
        PROVE  e[n][g[n-1]] = IF IsBlank(line[n]) THEN g[n-1]
                              ELSE Append(g[n-1], line[n])
    <3>1. n - 1 \in 0..N /\ g[n-1] \in V /\ n \in Nat /\ n \in 1..N
      BY <1>2, <1>7, <2>2
    <3>2. e[n] = [x \in V |-> Add(n, x)]
      BY <3>1 DEF e
    <3>3. e[n][g[n-1]] = Add(n, g[n-1])
      BY <3>1, <3>2
    <3>4. QED
      BY <3>1, <3>3 DEF Add
  <2>3. QED
    BY <2>1, <2>2
<1>9. g = F(g)
  BY <1>7, <1>8
<1>10. parts = F(parts)
  BY <1>9
<1>. HIDE DEF parts
<1>11. \A n \in 0..N : parts[n] = IF n = 0 THEN <<>>
                                  ELSE IF IsBlank(line[n]) THEN parts[n-1]
                                  ELSE Append(parts[n-1], line[n])
  BY <1>10
<1>12. 0 \in 0..N /\ \A n \in 1..N : n \in 0..N /\ n # 0
  BY <1>2
<1>13. parts[0] = <<>>
  BY <1>11, <1>12
<1>14. \A n \in 1..N : parts[n] = IF IsBlank(line[n]) THEN parts[n-1]
                                  ELSE Append(parts[n-1], line[n])
  BY <1>11, <1>12
<1>15. IsPartsOf(parts, line)
  BY <1>13, <1>14 DEF IsPartsOf, N
<1>16. QED
  BY <1>1, <1>15 DEF N

(* Lines that begin with the same tokens begin with the same parts. *)
LEMMA SameParts ==
    ASSUME NEW s, NEW t, NEW f, NEW g, IsPartsOf(f, s), IsPartsOf(g, t),
           NEW N \in Nat, Len(s) \in Nat, Len(t) \in Nat,
           N <= Len(s), N <= Len(t), \A n \in 1..N : s[n] = t[n]
    PROVE  f[N] = g[N]
<1>. DEFINE S == {n \in Nat : n <= N => f[n] = g[n]}
<1>1. 0 \in S
  BY DEF IsPartsOf
<1>2. ASSUME NEW n \in Nat, n \in S PROVE n + 1 \in S
  <2>. SUFFICES ASSUME n + 1 <= N PROVE f[n + 1] = g[n + 1]
    OBVIOUS
  <2>1. /\ f[n] = g[n] /\ (n + 1) - 1 = n
        /\ n + 1 \in 1..N /\ n + 1 \in 1..Len(s) /\ n + 1 \in 1..Len(t)
    BY <1>2
  <2>. DEFINE k == n + 1
  <2>. HIDE DEF k
  <2>2. /\ k \in 1..N /\ k \in 1..Len(s) /\ k \in 1..Len(t)
        /\ f[k-1] = g[k-1]
    BY <2>1 DEF k
  <2>3. f[k] = g[k]
    BY <2>2 DEF IsPartsOf
  <2>4. QED
    BY <2>3 DEF k
<1>. HIDE DEF S
<1>3. N \in S
  BY <1>1, <1>2, SetInduction
<1>4. QED
  BY <1>3 DEF S

LEMMA PartsEmpty == Parts(<<>>) = <<>>
<1>1. <<>> \in Seq(Pieces) /\ Len(<<>>) = 0
  OBVIOUS
<1>2. QED
  BY <1>1, PartsFunction DEF IsPartsOf

(* One more token: its parts come last, and a blank has none. *)
LEMMA PartsAppend ==
    ASSUME NEW s \in Seq(Pieces), NEW x \in Pieces
    PROVE  Parts(Append(s, x)) = IF IsBlank(x) THEN Parts(s)
                                 ELSE Append(Parts(s), x)
<1>. DEFINE t == Append(s, x)
            N == Len(s)
<1>1. /\ t \in Seq(Pieces) /\ Len(t) = N + 1 /\ t[N + 1] = x
      /\ N \in Nat /\ \A n \in 1..N : s[n] = t[n]
  OBVIOUS
<1>. HIDE DEF t
<1>2. PICK f : IsPartsOf(f, s) /\ Parts(s) = f[Len(s)]
  BY PartsFunction
<1>3. PICK g : IsPartsOf(g, t) /\ Parts(t) = g[Len(t)]
  BY <1>1, PartsFunction
<1>4. f[N] = g[N]
  BY <1>1, <1>2, <1>3, SameParts
<1>5. N + 1 \in 1..Len(t) /\ (N + 1) - 1 = N
  BY <1>1
<1>6. g[N + 1] = IF IsBlank(x) THEN g[N] ELSE Append(g[N], x)
  BY <1>1, <1>3, <1>5 DEF IsPartsOf
<1>7. QED
  BY <1>1, <1>2, <1>3, <1>4, <1>6 DEF t
-----------------------------------------------------------------------------

(* The line up to its first n tokens, with the macros replaced. *)
Prefix(line, n) == SubSeq(Substituted(line), 1, n)

(***************************************************************************)
(* The inductive invariant: the lines before the i-th have their parts in  *)
(* return_string, the i-th has those of its first c - 1 tokens in          *)
(* replaced_line.                                                          *)
(***************************************************************************)
ExpandInv ==
    /\ TypeOK
    /\ Len(return_string) = i - 1
    /\ i <= Len(raw_string) =>
          Parts(replaced_line) = Parts(Prefix(raw_string[i], c - 1))
    /\ \A l \in 1..i-1 :
          Parts(return_string[l]) = Parts(Substituted(raw_string[l]))
    /\ status = "ok" => i > Len(raw_string)

(* What Substituted makes of a line. *)
LEMMA SubstitutedLine ==
    ASSUME NEW line \in Seq(Tokens)
    PROVE  /\ Substituted(line) \in Seq(Pieces)
           /\ Len(Substituted(line)) = Len(line)
           /\ \A j \in 1..Len(line) :
                 Substituted(line)[j] = IF line[j].kind = "macro"
                                        THEN Value(line[j].name) ELSE line[j]
<1>1. ASSUME NEW t \in Tokens
      PROVE  (IF t.kind = "macro" THEN Value(t.name) ELSE t) \in Pieces
  <2>1. CASE t.kind = "macro"
    <3>1. t.name \in Names
      BY <2>1 DEF Tokens
    <3>2. QED
      BY <2>1, <3>1 DEF Pieces, Value
  <2>2. CASE t.kind # "macro"
    BY <2>2 DEF Pieces
  <2>3. QED
    BY <2>1, <2>2
<1>. DEFINE Sub(j) == IF line[j].kind = "macro" THEN Value(line[j].name)
                      ELSE line[j]
<1>2. \A j \in 1..Len(line) : Sub(j) \in Pieces
  BY <1>1
<1>3. Substituted(line) = [j \in 1..Len(line) |-> Sub(j)] /\ Len(line) \in Nat
  BY DEF Substituted
<1>. HIDE DEF Sub
<1>4. /\ Substituted(line) \in Seq(Pieces)
      /\ Len(Substituted(line)) = Len(line)
      /\ \A j \in 1..Len(line) : Substituted(line)[j] = Sub(j)
  BY <1>2, <1>3
<1>5. QED
  BY <1>4 DEF Sub

(* The prefix of a line, one token longer, and the whole line. *)
LEMMA PrefixStep ==
    ASSUME NEW line \in Seq(Tokens), NEW n \in 1..Len(line)
    PROVE  /\ Prefix(line, n - 1) \in Seq(Pieces)
           /\ Substituted(line)[n] \in Pieces
           /\ Prefix(line, n) = Append(Prefix(line, n - 1), Substituted(line)[n])
<1>. DEFINE s == Substituted(line)
<1>1. s \in Seq(Pieces) /\ n \in 1..Len(s) /\ s[n] \in Pieces
  BY SubstitutedLine
<1>. HIDE DEF s
<1>. DEFINE p == SubSeq(s, 1, n - 1)
            q == SubSeq(s, 1, n)
<1>2. /\ p \in Seq(Pieces) /\ Len(p) = n - 1
      /\ \A j \in 1..n-1 : p[j] = s[j]
  BY <1>1
<1>3. /\ q \in Seq(Pieces) /\ Len(q) = n
      /\ \A j \in 1..n : q[j] = s[j]
  BY <1>1
<1>. HIDE DEF p, q
<1>4. q = Append(p, s[n])
  <2>. DEFINE r == Append(p, s[n])
  <2>1. /\ r \in Seq(Pieces) /\ Len(r) = n
        /\ \A j \in 1..n : r[j] = IF j = n THEN s[n] ELSE p[j]
    BY <1>1, <1>2
  <2>. HIDE DEF r
  <2>2. \A j \in 1..n : q[j] = r[j]
    BY <1>1, <1>2, <1>3, <2>1
  <2>3. q = r
    BY <1>3, <2>1, <2>2, SeqEqual
  <2>4. QED
    BY <2>3 DEF r
<1>5. QED
  BY <1>1, <1>2, <1>4 DEF Prefix, s, p, q

LEMMA PrefixEnds ==
    ASSUME NEW line \in Seq(Tokens)
    PROVE  /\ Prefix(line, 0) = <<>>
           /\ Prefix(line, Len(line)) = Substituted(line)
<1>1. /\ Substituted(line) \in Seq(Pieces)
      /\ Len(Substituted(line)) = Len(line) /\ Len(line) \in Nat
  BY SubstitutedLine
<1>2. QED
  BY <1>1, SubSeqFull, SubSeqEmpty DEF Prefix

(* Outputs are pieces, and so are the lines made of them. *)
LEMMA OutputLines == Outputs \subseteq Pieces /\ Seq(Outputs) \subseteq Seq(Pieces)
  BY SeqMonotonic DEF Pieces

(* trim_end takes a blank off at most. *)
LEMMA TrimmedParts ==
    ASSUME NEW s \in Seq(Outputs)
    PROVE  TrimEnd(s) \in Seq(Outputs) /\ Parts(TrimEnd(s)) = Parts(s)
<1>1. CASE s # <<>> /\ Last(s) = Blank
  <2>. DEFINE f == Front(s)
  <2>1. f \in Seq(Outputs) /\ Blank \in Outputs /\ s = Append(f, Blank)
    <3>1. Len(s) \in Nat /\ Len(s) >= 1 /\ s[Len(s)] = Blank
      BY <1>1 DEF Last
    <3>2. /\ f \in Seq(Outputs) /\ Len(f) = Len(s) - 1
          /\ \A j \in 1..Len(s)-1 : f[j] = s[j]
      <4>. DEFINE k == Len(s) - 1
      <4>1. k \in Nat /\ k <= Len(s)
        BY <3>1
      <4>2. f = SubSeq(s, 1, k)
        BY DEF Front
      <4>. HIDE DEF k, f
      <4>3. /\ f \in Seq(Outputs) /\ Len(f) = k
            /\ \A j \in 1..k : f[j] = s[j]
        BY <4>1, <4>2
      <4>4. QED
        BY <4>3 DEF k
    <3>. HIDE DEF f
    <3>3. Blank \in Outputs
      BY DEF Blank, Outputs
    <3>. DEFINE r == Append(f, Blank)
    <3>4. /\ r \in Seq(Outputs) /\ Len(r) = Len(s)
          /\ \A j \in 1..Len(s) : r[j] = IF j = Len(s) THEN Blank ELSE f[j]
      BY <3>1, <3>2, <3>3
    <3>. HIDE DEF r
    <3>5. \A j \in 1..Len(s) : r[j] = s[j]
      BY <3>1, <3>2, <3>4
    <3>6. r = s
      <4>1. Len(r) = Len(s) /\ r \in Seq(Outputs) /\ s \in Seq(Outputs)
        BY <3>4
      <4>2. QED
        BY <3>5, <4>1, SeqEqual
    <3>7. QED
      BY <3>2, <3>3, <3>6 DEF r
  <2>2. TrimEnd(s) = f
    BY <1>1 DEF TrimEnd
  <2>. HIDE DEF f
  <2>3. Parts(s) = Parts(f)
    <3>1. f \in Seq(Pieces) /\ Blank \in Pieces
      BY <2>1, OutputLines
    <3>2. IsBlank(Blank)
      BY DEF Blank, IsBlank
    <3>3. QED
      BY <2>1, <3>1, <3>2, PartsAppend
  <2>4. QED
    BY <2>1, <2>2, <2>3
<1>2. CASE ~(s # <<>> /\ Last(s) = Blank)
  BY <1>2 DEF TrimEnd
<1>3. QED
  BY <1>1, <1>2

(* The token that is looked at. *)
LEMMA TokenAtHand ==
    ASSUME TypeOK, i <= Len(raw_string), c <= Len(Line)
    PROVE  /\ i \in 1..Len(raw_string) /\ Line \in Seq(Tokens)
           /\ c \in 1..Len(Line) /\ Token \in Tokens
<1>1. i \in 1..Len(raw_string)
  BY DEF TypeOK
<1>2. Line \in Seq(Tokens)
  BY <1>1 DEF TypeOK, Line
<1>3. c \in 1..Len(Line)
  BY <1>1, <1>2 DEF TypeOK, Line
<1>4. QED
  BY <1>1, <1>2, <1>3 DEF Token

(* A token is put to replaced_line as pieces with the parts it has. *)
LEMMA PushExpand ==
    ASSUME ExpandInv, AtToken, NEW piece \in Seq(Outputs), Push(piece),
           Parts(replaced_line \o piece) =
               IF IsBlank(Substituted(Line)[c]) THEN Parts(replaced_line)
               ELSE Append(Parts(replaced_line), Substituted(Line)[c])
    PROVE  ExpandInv'
<1>1. /\ i \in 1..Len(raw_string) /\ Line \in Seq(Tokens)
      /\ c \in 1..Len(Line)
  BY TokenAtHand DEF ExpandInv, AtToken
<1>2. /\ replaced_line' = replaced_line \o piece /\ c' = c + 1
      /\ UNCHANGED <<raw_string, i, return_string, status>>
  BY DEF Push
<1>3. replaced_line' \in Seq(Outputs)
  BY <1>2, ConcatProperties DEF ExpandInv, TypeOK
<1>4. c' \in 1..Len(raw_string[i])+1 /\ c' - 1 = c
  BY <1>1, <1>2 DEF Line
<1>5. TypeOK'
  BY <1>2, <1>3, <1>4 DEF ExpandInv, TypeOK
<1>6. Parts(replaced_line') = Parts(Prefix(raw_string[i], c))
  <2>. DEFINE p == Prefix(Line, c - 1)
              x == Substituted(Line)[c]
  <2>1. p \in Seq(Pieces) /\ x \in Pieces /\ Prefix(Line, c) = Append(p, x)
    BY <1>1, PrefixStep
  <2>2. Parts(replaced_line) = Parts(p)
    BY <1>1 DEF ExpandInv, Line
  <2>. HIDE DEF p
  <2>3. Parts(Append(p, x)) = IF IsBlank(x) THEN Parts(p)
                              ELSE Append(Parts(p), x)
    BY <2>1, PartsAppend
  <2>4. QED
    BY <1>2, <2>1, <2>2, <2>3 DEF Line
<1>7. QED
  BY <1>2, <1>4, <1>5, <1>6 DEF ExpandInv

(* A word and the blank behind it. *)
LEMMA AddTextExpand ==
    ASSUME ExpandInv, AddText
    PROVE  ExpandInv'
<1>1. /\ AtToken /\ Token \in Tokens /\ Token.kind = "word"
      /\ Push(<<Token, Blank>>) /\ Line \in Seq(Tokens) /\ c \in 1..Len(Line)
  BY TokenAtHand DEF AddText, AtToken, ExpandInv
<1>2. Token \in Outputs /\ Blank \in Outputs /\ IsBlank(Blank)
      /\ ~IsBlank(Token)
  BY <1>1 DEF Tokens, Outputs, Blank, IsBlank
<1>3. Substituted(Line)[c] = Token
  BY <1>1, SubstitutedLine DEF Token
<1>. DEFINE r == replaced_line
            t == Token
            b == Blank
<1>4. r \in Seq(Outputs) /\ t \in Outputs /\ b \in Outputs
  BY <1>2 DEF ExpandInv, TypeOK
<1>. HIDE DEF r, t, b
<1>5. <<t, b>> \in Seq(Outputs) /\ r \o <<t, b>> = Append(Append(r, t), b)
  BY <1>4
<1>6. Parts(Append(Append(r, t), b)) = Append(Parts(r), t)
  <2>1. r \in Seq(Pieces) /\ t \in Pieces /\ b \in Pieces
    BY <1>4, OutputLines
  <2>2. Append(r, t) \in Seq(Pieces)
    BY <2>1
  <2>3. Parts(Append(Append(r, t), b)) = Parts(Append(r, t))
    BY <1>2, <2>1, <2>2, PartsAppend DEF b
  <2>4. QED
    BY <1>2, <2>1, <2>3, PartsAppend DEF t
<1>7. QED
  BY <1>1, <1>2, <1>3, <1>5, <1>6, PushExpand DEF r, t, b

(* Blanks leave nothing. *)
LEMMA SkipBlankExpand ==
    ASSUME ExpandInv, SkipBlank
    PROVE  ExpandInv'
<1>1. /\ AtToken /\ IsBlank(Token) /\ Push(<<>>)
      /\ Line \in Seq(Tokens) /\ c \in 1..Len(Line)
  BY TokenAtHand DEF SkipBlank, AtToken, ExpandInv
<1>2. Substituted(Line)[c] = Token
  BY <1>1, SubstitutedLine DEF Token, IsBlank
<1>3. <<>> \in Seq(Outputs) /\ replaced_line \o <<>> = replaced_line
  BY DEF ExpandInv, TypeOK
<1>4. QED
  BY <1>1, <1>2, <1>3, PushExpand

(* The value of a macro, in its place. *)
LEMMA AddValueExpand ==
    ASSUME ExpandInv, AddValue
    PROVE  ExpandInv'
<1>. DEFINE r == replaced_line
            v == Value(Token.name)
<1>1. /\ AtToken /\ Token.kind = "macro" /\ Token.name \in Defined
      /\ Push(<<v>>) /\ Line \in Seq(Tokens) /\ c \in 1..Len(Line)
  BY TokenAtHand DEF AddValue, AtToken, ExpandInv
<1>2. v \in Outputs /\ ~IsBlank(v)
  BY <1>1 DEF Outputs, Value, IsBlank
<1>3. Substituted(Line)[c] = v
  BY <1>1, SubstitutedLine DEF Token
<1>4. r \in Seq(Outputs)
  BY DEF ExpandInv, TypeOK
<1>. HIDE DEF r, v
<1>5. <<v>> \in Seq(Outputs) /\ r \o <<v>> = Append(r, v)
  BY <1>2, <1>4
<1>6. Parts(Append(r, v)) = Append(Parts(r), v)
  BY <1>2, <1>4, OutputLines, PartsAppend
<1>7. QED
  BY <1>1, <1>2, <1>3, <1>5, <1>6, PushExpand DEF r

(* A line that is done. *)
LEMMA EndLineExpand ==
    ASSUME ExpandInv, EndLine
    PROVE  ExpandInv'
<1>1. /\ i \in 1..Len(raw_string) /\ Line \in Seq(Tokens)
      /\ c = Len(Line) + 1 /\ Len(raw_string) \in Nat
      /\ raw_string \in Seq(Seq(Tokens))
      /\ replaced_line \in Seq(Outputs)
      /\ return_string \in Seq(Seq(Outputs)) /\ Len(return_string) = i - 1
  BY DEF EndLine, ExpandInv, TypeOK, Line
<1>. DEFINE t == TrimEnd(replaced_line)
<1>2. t \in Seq(Outputs) /\ Parts(t) = Parts(replaced_line)
  BY <1>1, TrimmedParts
<1>3. Parts(t) = Parts(Substituted(Line))
  <2>1. c - 1 = Len(Line)
    BY <1>1
  <2>2. Parts(replaced_line) = Parts(Prefix(Line, c - 1))
    BY <1>1 DEF ExpandInv, Line
  <2>3. QED
    BY <1>1, <1>2, <2>1, <2>2, PrefixEnds
<1>4. /\ return_string' = Append(return_string, t) /\ replaced_line' = <<>>
      /\ i' = i + 1 /\ c' = 1 /\ UNCHANGED <<raw_string, status>>
      /\ status = "running"
  BY DEF EndLine
<1>. HIDE DEF t
<1>5. /\ return_string' \in Seq(Seq(Outputs)) /\ Len(return_string') = i
      /\ return_string'[i] = t
      /\ \A l \in 1..i-1 : return_string'[l] = return_string[l]
  BY <1>1, <1>2, <1>4
<1>6. ASSUME NEW l \in 1..i
      PROVE  Parts(return_string'[l]) = Parts(Substituted(raw_string[l]))
  <2>1. CASE l = i
    BY <1>3, <1>5, <2>1 DEF Line
  <2>2. CASE l # i
    <3>1. l \in 1..i-1
      BY <1>1, <2>2
    <3>2. QED
      BY <1>5, <3>1 DEF ExpandInv
  <2>3. QED
    BY <2>1, <2>2
<1>7. i' \in 1..Len(raw_string)+1 /\ i' - 1 = i
  BY <1>1, <1>4
<1>8. ASSUME i' <= Len(raw_string)
      PROVE  /\ c' \in 1..Len(raw_string[i'])+1
             /\ Parts(replaced_line') = Parts(Prefix(raw_string[i'], c' - 1))
  <2>1. raw_string[i'] \in Seq(Tokens)
    BY <1>1, <1>7, <1>8
  <2>2. Prefix(raw_string[i'], 0) = <<>>
    BY <2>1, PrefixEnds
  <2>3. c' - 1 = 0
    BY <1>4
  <2>4. QED
    BY <1>4, <2>1, <2>2, <2>3
<1>9. TypeOK'
  BY <1>1, <1>4, <1>5, <1>7, <1>8 DEF TypeOK, ExpandInv
<1>10. QED
  BY <1>4, <1>5, <1>6, <1>7, <1>8, <1>9 DEF ExpandInv

LEMMA InitExpand == Init => ExpandInv
<1>. SUFFICES ASSUME Init PROVE ExpandInv
  OBVIOUS
<1>1. raw_string \in Seq(Seq(Tokens)) /\ Len(raw_string) \in Nat
  BY MacrosTypes DEF Init
<1>2. i = 1 /\ c = 1 /\ c - 1 = 0 /\ replaced_line = <<>>
      /\ return_string = <<>> /\ status = "running"
  BY DEF Init
<1>3. ASSUME i <= Len(raw_string)
      PROVE  /\ c \in 1..Len(raw_string[i])+1
             /\ Prefix(raw_string[i], c - 1) = <<>>
  <2>1. raw_string[i] \in Seq(Tokens)
    BY <1>1, <1>2, <1>3
  <2>2. QED
    BY <1>2, <2>1, PrefixEnds
<1>4. TypeOK
  BY <1>1, <1>2, <1>3 DEF TypeOK
<1>5. QED
  BY <1>2, <1>3, <1>4 DEF ExpandInv

LEMMA NextExpand == ExpandInv /\ [Next]_vars => ExpandInv'
<1>. SUFFICES ASSUME ExpandInv, [Next]_vars PROVE ExpandInv'
  OBVIOUS
<1>1. CASE LineFails \/ MacroMissing \/ Panics
  BY <1>1 DEF LineFails, MacroMissing, Panics, ExpandInv, TypeOK
<1>2. CASE Return
  BY <1>2 DEF Return, ExpandInv, TypeOK
<1>3. CASE UNCHANGED vars
  BY <1>3 DEF vars, ExpandInv, TypeOK
<1>4. QED
  BY <1>1, <1>2, <1>3, AddTextExpand, SkipBlankExpand, AddValueExpand,
     EndLineExpand DEF Next

(* The script that is returned holds values of defined macros only. *)
THEOREM MacrosTypeCorrect == Spec => []TypeOK
<1>1. ExpandInv => TypeOK
  BY DEF ExpandInv
<1>2. QED
  BY <1>1, InitExpand, NextExpand, PTL DEF Spec

(***************************************************************************)
(* For any script: no word and no value of a macro is lost, doubled, moved *)
(* or carried over into another line.                                      *)
(***************************************************************************)
THEOREM ExpansionKeepsParts == Spec => []NothingLost
<1>1. ExpandInv => NothingLost
  <2>. SUFFICES ASSUME ExpandInv, status = "ok" 
                PROVE  /\ Len(return_string) = Len(raw_string)
                       /\ \A l \in DOMAIN raw_string :
                             Parts(return_string[l])
                                 = Parts(Substituted(raw_string[l]))
    BY DEF NothingLost
  <2>1. /\ Len(raw_string) \in Nat /\ i - 1 = Len(raw_string)
        /\ DOMAIN raw_string = 1..Len(raw_string)
    BY DEF ExpandInv, TypeOK
  <2>2. QED
    BY <2>1 DEF ExpandInv
<1>2. QED
  BY <1>1, InitExpand, NextExpand, PTL DEF Spec
-----------------------------------------------------------------------------

(* Among the first k tokens a macro stands behind a word, or in front of a *)
(* blank that another of these tokens follows, or more than a blank stands *)
(* in front of one of them.                                                *)
Misplaced(line, k) ==
    \E j \in 1..k :
        \/ line[j].kind = "macro" /\ j > 1 /\ line[j-1].kind = "word"
        \/ line[j].kind = "macro" /\ j + 2 <= k /\ IsBlank(line[j+1])
        \/ line[j].kind = "blanks" /\ j + 1 <= k

(* As long as that is not so, out is the line itself: it is ahead by the   *)
(* blank behind a word, or behind by a blank after a macro.                *)
KeptLen(line, k) ==
    IF k = 0 THEN 0
    ELSE IF line[k].kind = "word" THEN k + 1
    ELSE IF IsBlank(line[k]) /\ line[k-1].kind = "macro" THEN k - 1
    ELSE k

Kept(line, k, out) ==
    /\ Len(out) = KeptLen(line, k)
    /\ \A j \in 1..Len(out) :
          out[j] = IF j <= k /\ ~IsBlank(line[j]) THEN Substituted(line)[j]
                   ELSE Blank

(* From then on it differs at a place that no trimming takes away. *)
Diverged(line, k, out) ==
    \E d \in 1..k :
        /\ d <= Len(out)
        /\ out[d] # Substituted(line)[d]
        /\ \E e \in d..Len(out) : out[e] # Blank
        /\ \E e \in d..k : ~IsBlank(line[e])

Known(line, k) ==
    \A j \in 1..k : line[j].kind \in {"word", "blank", "blanks", "macro"}

(* out has become of the first k tokens of the line. *)
SpacedOK(line, k, out) ==
    /\ Known(line, k)
    /\ Misplaced(line, k) => Diverged(line, k, out)
    /\ ~Misplaced(line, k) => Kept(line, k, out)

(* The inductive invariant for the blanks. *)
SpacedInv ==
    /\ ExpandInv
    /\ raw_string \in Scripts
    /\ i <= Len(raw_string) => SpacedOK(raw_string[i], c - 1, replaced_line)
    /\ \A l \in 1..i-1 :
          WellSpaced(raw_string[l])
              <=> return_string[l] = Trimmed(Substituted(raw_string[l]))

(* A line and what Substituted makes of its blanks. *)
LEMMA LineFacts ==
    ASSUME NEW line, IsLine(line)
    PROVE  /\ line \in Seq(Tokens) /\ Len(line) \in Nat /\ Len(line) >= 1
           /\ Len(Substituted(line)) = Len(line)
           /\ Substituted(line) \in Seq(Pieces)
           /\ ~IsBlank(line[1])
           /\ \A j \in 1..Len(line) :
                 /\ IsBlank(line[j]) <=> IsBlank(Substituted(line)[j])
                 /\ Substituted(line)[j] = Blank <=> line[j].kind = "blank"
           /\ \A j \in 1..Len(line)-1 : ~(/\ line[j].kind = "word"
                                          /\ line[j+1].kind = "word")
           /\ \A j \in 1..Len(line)-1 : ~(IsBlank(line[j]) /\ IsBlank(line[j+1]))
<1>1. line \in Seq(Tokens) /\ Len(line) \in Nat /\ Len(line) >= 1
  BY DEF IsLine
<1>2. ASSUME NEW t \in Tokens
      PROVE  t.kind = "blank" <=> t = Blank
  BY DEF Tokens, Blank
<1>3. \A nm : Value(nm) # Blank /\ ~IsBlank(Value(nm))
  <2>1. \A nm : Value(nm).kind = "value" /\ Blank.kind = "blank"
    BY DEF Value, Blank
  <2>2. QED
    BY <2>1 DEF IsBlank
<1>4. ASSUME NEW j \in 1..Len(line)
      PROVE  /\ IsBlank(line[j]) <=> IsBlank(Substituted(line)[j])
             /\ Substituted(line)[j] = Blank <=> line[j].kind = "blank"
  <2>1. line[j] \in Tokens
    BY <1>1
  <2>2. Substituted(line)[j] = IF line[j].kind = "macro"
                               THEN Value(line[j].name) ELSE line[j]
    BY <1>1, SubstitutedLine
  <2>3. CASE line[j].kind = "macro"
    BY <1>3, <2>2, <2>3 DEF IsBlank
  <2>4. CASE line[j].kind # "macro"
    BY <1>2, <2>1, <2>2, <2>4
  <2>5. QED
    BY <2>3, <2>4
<1>5. QED
  BY <1>1, <1>4, SubstitutedLine DEF IsLine

(* What is misplaced among some tokens is so among more of them. *)
LEMMA MisplacedStays ==
    ASSUME NEW line, NEW k \in Nat, k >= 1, Misplaced(line, k - 1)
    PROVE  Misplaced(line, k)
<1>1. PICK j \in 1..k-1 :
          \/ line[j].kind = "macro" /\ j > 1 /\ line[j-1].kind = "word"
          \/ line[j].kind = "macro" /\ j + 2 <= k - 1 /\ IsBlank(line[j+1])
          \/ line[j].kind = "blanks" /\ j + 1 <= k - 1
  BY DEF Misplaced
<1>2. /\ j \in 1..k /\ (j + 2 <= k - 1 => j + 2 <= k)
      /\ j + 1 <= k - 1 => j + 1 <= k
  OBVIOUS
<1>3. QED
  BY <1>1, <1>2 DEF Misplaced

(* What becomes misplaced with the k-th token. *)
LEMMA MisplacedNow ==
    ASSUME NEW line, NEW k \in Nat, k >= 1,
           Misplaced(line, k), ~Misplaced(line, k - 1)
    PROVE  \/ line[k].kind = "macro" /\ k > 1 /\ line[k-1].kind = "word"
           \/ k > 2 /\ line[k-2].kind = "macro" /\ IsBlank(line[k-1])
           \/ k > 1 /\ line[k-1].kind = "blanks"
<1>1. PICK j \in 1..k :
          \/ line[j].kind = "macro" /\ j > 1 /\ line[j-1].kind = "word"
          \/ line[j].kind = "macro" /\ j + 2 <= k /\ IsBlank(line[j+1])
          \/ line[j].kind = "blanks" /\ j + 1 <= k
  BY DEF Misplaced
<1>2. ~(j \in 1..k-1 /\ \/ line[j].kind = "macro" /\ j > 1 /\ line[j-1].kind = "word"
                        \/ line[j].kind = "macro" /\ j + 2 <= k - 1 /\ IsBlank(line[j+1])
                        \/ line[j].kind = "blanks" /\ j + 1 <= k - 1)
  BY DEF Misplaced
<1>3. CASE line[j].kind = "macro" /\ j > 1 /\ line[j-1].kind = "word"
  <2>1. j = k
    BY <1>2, <1>3
  <2>2. QED
    BY <1>3, <2>1
<1>4. CASE line[j].kind = "macro" /\ j + 2 <= k /\ IsBlank(line[j+1])
  <2>1. j + 2 = k
    BY <1>2, <1>4
  <2>2. k - 2 = j /\ k - 1 = j + 1 /\ k > 2
    BY <2>1
  <2>3. QED
    BY <1>4, <2>2
<1>5. CASE line[j].kind = "blanks" /\ j + 1 <= k
  <2>1. j + 1 = k
    BY <1>2, <1>5
  <2>2. k - 1 = j /\ k > 1
    BY <2>1
  <2>3. QED
    BY <1>5, <2>2
<1>6. QED
  BY <1>1, <1>3, <1>4, <1>5

(* What differs goes on differing: out only grows. *)
LEMMA DivergedStays ==
    ASSUME NEW line, NEW k \in Nat, k >= 1, NEW out, NEW out2,
           Len(out) \in Nat, Len(out2) \in Nat, Len(out) <= Len(out2),
           \A j \in 1..Len(out) : out2[j] = out[j],
           Diverged(line, k - 1, out)
    PROVE  Diverged(line, k, out2)
<1>1. PICK d \in 1..k-1 :
          /\ d <= Len(out)
          /\ out[d] # Substituted(line)[d]
          /\ \E e \in d..Len(out) : out[e] # Blank
          /\ \E e \in d..k-1 : ~IsBlank(line[e])
  BY DEF Diverged
<1>2. PICK e \in d..Len(out) : out[e] # Blank
  BY <1>1
<1>3. PICK e1 \in d..k-1 : ~IsBlank(line[e1])
  BY <1>1
<1>4. /\ d \in 1..k /\ d \in 1..Len(out) /\ d <= Len(out2)
      /\ e \in 1..Len(out) /\ e \in d..Len(out2) /\ e1 \in d..k
  BY <1>1
<1>5. out2[d] = out[d] /\ out2[e] = out[e]
  BY <1>4
<1>6. QED
  BY <1>1, <1>2, <1>3, <1>4, <1>5 DEF Diverged

(* The first token that something is misplaced with makes out differ. *)
LEMMA Diverges ==
    ASSUME NEW line, IsLine(line), NEW k \in 1..Len(line), NEW out, NEW out2,
           Len(out) \in Nat, Len(out2) \in Nat, Len(out) < Len(out2),
           \A j \in 1..Len(out) : out2[j] = out[j],
           out2[Len(out) + 1] = Substituted(line)[k], ~IsBlank(line[k]),
           Misplaced(line, k), ~Misplaced(line, k - 1), Kept(line, k - 1, out)
    PROVE  Diverged(line, k, out2)
<1>. DEFINE sub == Substituted(line)
<1>1. /\ k \in Nat /\ k >= 1 /\ Len(line) \in Nat /\ k <= Len(line)
      /\ line[k].kind # "blank"
  BY LineFacts DEF IsBlank
<1>2. sub[k] # Blank /\ ~IsBlank(sub[k])
  BY <1>1, LineFacts
<1>3. \/ line[k].kind = "macro" /\ k > 1 /\ line[k-1].kind = "word"
      \/ k > 2 /\ line[k-2].kind = "macro" /\ IsBlank(line[k-1])
      \/ k > 1 /\ line[k-1].kind = "blanks"
  BY <1>1, MisplacedNow
<1>4. CASE k > 1 /\ line[k-1].kind = "word"
  <2>1. k - 1 # 0 /\ (k - 1) + 1 = k
    BY <1>1, <1>4
  <2>2. Len(out) = k
    BY <1>4, <2>1 DEF Kept, KeptLen
  <2>3. out[k] = Blank
    BY <1>1, <2>2 DEF Kept
  <2>4. out2[k] = Blank /\ out2[k + 1] = sub[k]
    BY <1>1, <2>2, <2>3
  <2>5. /\ k <= Len(out2) /\ k + 1 \in k..Len(out2) /\ k \in k..k
        /\ k \in 1..k
    BY <1>1, <2>2
  <2>6. QED
    BY <1>2, <2>4, <2>5 DEF Diverged
<1>5. CASE k > 2 /\ line[k-2].kind = "macro" /\ IsBlank(line[k-1])
  <2>1. /\ k - 1 # 0 /\ (k - 1) - 1 = k - 2 /\ k - 1 \in 1..Len(line)
        /\ line[k-1].kind # "word"
    BY <1>1, <1>5 DEF IsBlank
  <2>2. Len(out) = k - 2
    <3>1. Len(out) = (k - 1) - 1
      BY <1>5, <2>1 DEF Kept, KeptLen
    <3>2. QED
      BY <2>1, <3>1
  <2>3. out2[k-1] = sub[k] /\ Len(out) + 1 = k - 1
    BY <1>1, <2>2
  <2>4. IsBlank(sub[k-1])
    BY <1>5, <2>1, LineFacts
  <2>5. /\ k - 1 \in 1..k /\ k - 1 <= Len(out2)
        /\ k - 1 \in (k-1)..Len(out2) /\ k \in (k-1)..k
    BY <1>1, <2>1, <2>3
  <2>6. out2[k-1] # sub[k-1] /\ out2[k-1] # Blank
    BY <1>2, <2>3, <2>4
  <2>7. QED
    BY <2>5, <2>6 DEF Diverged
<1>6. CASE /\ k > 1 /\ line[k-1].kind = "blanks"
           /\ ~(k > 2 /\ line[k-2].kind = "macro")
  <2>1. /\ k - 1 # 0 /\ (k - 1) - 1 = k - 2 /\ k - 1 \in 1..Len(line)
        /\ line[k-1].kind # "word" /\ line[k-1].kind # "blank"
        /\ IsBlank(line[k-1])
    BY <1>1, <1>6 DEF IsBlank
  <2>2. k # 2
    BY <2>1, LineFacts
  <2>3. Len(out) = k - 1
    BY <1>1, <1>6, <2>1, <2>2 DEF Kept, KeptLen
  <2>4. out[k-1] = Blank
    BY <1>1, <2>1, <2>3 DEF Kept
  <2>5. sub[k-1] # Blank
    BY <2>1, LineFacts
  <2>6. out2[k-1] = Blank /\ out2[k] = sub[k]
    BY <1>1, <2>1, <2>3, <2>4
  <2>7. /\ k - 1 \in 1..k /\ k - 1 <= Len(out2)
        /\ k \in (k-1)..Len(out2) /\ k \in (k-1)..k
    BY <1>1, <2>1, <2>3
  <2>8. QED
    BY <1>2, <2>5, <2>6, <2>7 DEF Diverged
<1>7. QED
  BY <1>3, <1>4, <1>5, <1>6 DEF IsBlank

(* A line that keeps its blanks: what stands before a word or a macro. *)
LEMMA KeptBefore ==
    ASSUME NEW line, IsLine(line), NEW k \in 1..Len(line),
           Known(line, k), line[k].kind \in {"word", "macro"},
           ~Misplaced(line, k), NEW out, Kept(line, k - 1, out)
    PROVE  /\ Len(out) = k - 1
           /\ \A j \in 1..k-1 : out[j] = Substituted(line)[j]
<1>1. k \in Nat /\ k >= 1 /\ Len(line) \in Nat /\ k <= Len(line)
  BY LineFacts
<1>2. Len(out) = k - 1
  <2>1. CASE k = 1
    BY <2>1 DEF Kept, KeptLen
  <2>2. CASE k # 1
    <3>1. /\ k - 1 # 0 /\ k - 1 \in 1..k /\ k - 1 \in 1..Len(line)-1
          /\ k > 1 /\ (k - 1) + 1 = k /\ k \in 1..k
      BY <1>1, <2>2
    <3>2. line[k-1].kind # "word"
      <4>1. CASE line[k].kind = "word"
        BY <3>1, <4>1, LineFacts
      <4>2. CASE line[k].kind = "macro"
        BY <3>1, <4>2 DEF Misplaced
      <4>3. QED
        BY <4>1, <4>2
    <3>3. ~(IsBlank(line[k-1]) /\ line[(k-1)-1].kind = "macro")
      <4>. SUFFICES ASSUME IsBlank(line[k-1]),
                           line[(k-1)-1].kind = "macro"
                    PROVE  FALSE
        OBVIOUS
      <4>1. k - 1 # 1
        BY LineFacts
      <4>. DEFINE j == (k - 1) - 1
      <4>2. j \in 1..k /\ j + 2 <= k /\ j + 1 = k - 1
        BY <1>1, <3>1, <4>1
      <4>. HIDE DEF j
      <4>3. line[j].kind = "macro" /\ IsBlank(line[j+1])
        BY <4>2 DEF j
      <4>4. QED
        BY <4>2, <4>3 DEF Misplaced
    <3>4. QED
      BY <3>1, <3>2, <3>3 DEF Kept, KeptLen
  <2>3. QED
    BY <2>1, <2>2
<1>3. ASSUME NEW j \in 1..k-1 PROVE out[j] = Substituted(line)[j]
  <2>1. /\ j \in 1..k /\ j + 1 <= k /\ j <= k - 1 /\ j \in 1..Len(out)
        /\ j \in 1..Len(line)
    BY <1>1, <1>2
  <2>2. line[j].kind # "blanks"
    BY <2>1 DEF Misplaced
  <2>3. IsBlank(line[j]) => Substituted(line)[j] = Blank
    BY <2>1, <2>2, LineFacts DEF IsBlank
  <2>4. QED
    BY <2>1, <2>3 DEF Kept
<1>4. QED
  BY <1>2, <1>3

(* What a token becomes. *)
Piece(t) ==
    IF t.kind = "word" THEN <<t, Blank>>
    ELSE IF IsBlank(t) THEN <<>>
    ELSE <<Value(t.name)>>

(* One more token. *)
LEMMA SpacedStep ==
    ASSUME NEW line, IsLine(line), NEW k \in 1..Len(line),
           NEW out \in Seq(Outputs), SpacedOK(line, k - 1, out),
           line[k].kind \in {"word", "blank", "blanks", "macro"},
           line[k].kind = "macro" => line[k].name \in Defined
    PROVE  SpacedOK(line, k, out \o Piece(line[k]))
<1>. DEFINE sub == Substituted(line)
            t == line[k]
            out2 == out \o Piece(t)
            N == Len(out)
<1>1. /\ k \in Nat /\ k >= 1 /\ Len(line) \in Nat /\ k <= Len(line)
      /\ N \in Nat /\ t \in Tokens
      /\ sub[k] = IF t.kind = "macro" THEN Value(t.name) ELSE t
  BY LineFacts, SubstitutedLine
<1>2. Known(line, k)
  BY <1>1 DEF SpacedOK, Known
<1>3. Len(out2) \in Nat /\ N <= Len(out2) /\ \A j \in 1..N : out2[j] = out[j]
  <2>1. Piece(t) \in Seq(Outputs)
    <3>1. CASE t.kind = "word"
      BY <1>1, <3>1 DEF Piece, Outputs, Tokens, Blank
    <3>2. CASE IsBlank(t)
      BY <3>2 DEF Piece, IsBlank
    <3>3. CASE t.kind = "macro"
      BY <3>3 DEF Piece, Outputs, Value, IsBlank
    <3>4. QED
      BY <3>1, <3>2, <3>3 DEF IsBlank
  <2>. HIDE DEF t
  <2>2. QED
    BY <2>1
<1>4. t.kind = "word" =>
          Len(out2) = N + 2 /\ out2[N + 1] = t /\ out2[N + 2] = Blank
  <2>. SUFFICES ASSUME t.kind = "word"
                PROVE  Len(out2) = N + 2 /\ out2[N + 1] = t
                       /\ out2[N + 2] = Blank
    OBVIOUS
  <2>1. out2 = out \o <<t, Blank>>
    BY DEF Piece
  <2>. HIDE DEF out2, t
  <2>2. QED
    BY <2>1
<1>5. t.kind = "macro" => Len(out2) = N + 1 /\ out2[N + 1] = Value(t.name)
  <2>. SUFFICES ASSUME t.kind = "macro"
                PROVE  Len(out2) = N + 1 /\ out2[N + 1] = Value(t.name)
    OBVIOUS
  <2>1. out2 = out \o <<Value(t.name)>>
    BY DEF Piece, IsBlank
  <2>. HIDE DEF out2, t
  <2>2. QED
    BY <2>1
<1>6. IsBlank(t) => out2 = out
  BY DEF Piece, IsBlank
<1>. HIDE DEF t, out2
<1>7. CASE Misplaced(line, k - 1)
  <2>1. Diverged(line, k - 1, out)
    BY <1>7 DEF SpacedOK
  <2>2. Misplaced(line, k) /\ Diverged(line, k, out2)
    BY <1>1, <1>3, <1>7, <2>1, MisplacedStays, DivergedStays
  <2>3. QED
    BY <1>2, <2>2 DEF SpacedOK, out2, t
<1>8. CASE ~Misplaced(line, k - 1) /\ Misplaced(line, k)
  <2>1. Kept(line, k - 1, out)
    BY <1>8 DEF SpacedOK
  <2>2. ~IsBlank(t)
    <3>. SUFFICES ASSUME IsBlank(t) PROVE FALSE
      OBVIOUS
    <3>1. t.kind # "macro"
      BY DEF IsBlank
    <3>2. k > 1 /\ IsBlank(line[k-1])
      BY <1>1, <1>8, <3>1, MisplacedNow DEF IsBlank, t
    <3>3. k - 1 \in 1..Len(line)-1 /\ (k - 1) + 1 = k
      BY <1>1, <3>2
    <3>4. QED
      BY <3>2, <3>3, LineFacts DEF t
  <2>3. N < Len(out2) /\ out2[N + 1] = sub[k]
    BY <1>1, <1>4, <1>5, <2>2 DEF t, IsBlank
  <2>4. Diverged(line, k, out2)
    BY <1>1, <1>3, <1>8, <2>1, <2>2, <2>3, Diverges DEF t
  <2>5. QED
    BY <1>2, <1>8, <2>4 DEF SpacedOK, out2, t
<1>9. CASE ~Misplaced(line, k)
  <2>1. ~Misplaced(line, k - 1)
    BY <1>1, <1>9, MisplacedStays
  <2>2. Kept(line, k - 1, out)
    BY <2>1 DEF SpacedOK
  <2>3. ASSUME ~IsBlank(t), NEW j \in 1..k, IsBlank(line[j]) PROVE sub[j] = Blank
    <3>1. j # k /\ j + 1 <= k /\ j \in 1..Len(line)
      BY <1>1, <2>3 DEF t
    <3>2. line[j].kind = "blank"
      BY <1>9, <2>3, <3>1 DEF Misplaced, IsBlank
    <3>3. QED
      BY <3>1, <3>2, LineFacts
  <2>4. Kept(line, k, out2)
    <3>1. CASE t.kind = "word"
      <4>1. N = k - 1 /\ \A j \in 1..k-1 : out[j] = sub[j]
        BY <1>2, <1>9, <2>2, <3>1, KeptBefore DEF t
      <4>2. Len(out2) = k + 1 /\ out2[k] = sub[k] /\ out2[k + 1] = Blank
        <5>1. N + 1 = k /\ N + 2 = k + 1 /\ sub[k] = t
          BY <1>1, <3>1, <4>1
        <5>2. QED
          BY <1>4, <3>1, <5>1
      <4>3. KeptLen(line, k) = k + 1
        BY <1>1, <3>1 DEF KeptLen, t
      <4>4. ASSUME NEW j \in 1..k+1
            PROVE  out2[j] = IF j <= k THEN sub[j] ELSE Blank
        <5>1. CASE j \in 1..k-1
          BY <1>1, <1>3, <4>1, <5>1
        <5>2. CASE j = k \/ j = k + 1
          BY <1>1, <4>2, <5>2
        <5>3. QED
          BY <1>1, <5>1, <5>2
      <4>5. \A j \in 1..k : IsBlank(line[j]) => sub[j] = Blank
        BY <2>3, <3>1 DEF IsBlank
      <4>6. QED
        BY <4>2, <4>3, <4>4, <4>5 DEF Kept
    <3>2. CASE t.kind = "macro"
      <4>1. N = k - 1 /\ \A j \in 1..k-1 : out[j] = sub[j]
        BY <1>2, <1>9, <2>2, <3>2, KeptBefore DEF t
      <4>2. Len(out2) = k /\ out2[k] = sub[k]
        <5>1. N + 1 = k /\ sub[k] = Value(t.name)
          BY <1>1, <3>2, <4>1
        <5>2. QED
          BY <1>5, <3>2, <5>1
      <4>3. KeptLen(line, k) = k
        BY <1>1, <3>2 DEF KeptLen, IsBlank, t
      <4>4. ASSUME NEW j \in 1..k PROVE out2[j] = sub[j]
        <5>1. CASE j \in 1..k-1
          BY <1>1, <1>3, <4>1, <5>1
        <5>2. CASE j = k
          BY <4>2, <5>2
        <5>3. QED
          BY <1>1, <5>1, <5>2
      <4>5. \A j \in 1..k : IsBlank(line[j]) => sub[j] = Blank
        BY <2>3, <3>2 DEF IsBlank
      <4>6. QED
        BY <1>1, <4>2, <4>3, <4>4, <4>5 DEF Kept
    <3>3. CASE IsBlank(t)
      <4>1. k # 1
        BY <3>3, LineFacts DEF t
      <4>2. /\ k - 1 # 0 /\ k - 1 \in 1..Len(line)-1 /\ (k - 1) + 1 = k
            /\ k - 1 \in 1..k-1 /\ k # 0
        BY <1>1, <4>1
      <4>3. ~IsBlank(line[k-1])
        BY <3>3, <4>2, LineFacts DEF t
      <4>4. line[k-1].kind \in {"word", "macro"}
        BY <4>2, <4>3 DEF SpacedOK, Known, IsBlank
      <4>5. t.kind # "word"
        BY <3>3 DEF IsBlank
      <4>6. CASE line[k-1].kind = "word"
        <5>1. N = k /\ KeptLen(line, k) = k
          BY <1>1, <2>2, <4>2, <4>5, <4>6 DEF Kept, KeptLen, t
        <5>2. ASSUME NEW j \in 1..k
              PROVE  out[j] = IF ~IsBlank(line[j]) THEN sub[j] ELSE Blank
          <6>1. j \in 1..Len(out) /\ (j <= k - 1 \/ j = k)
            BY <1>1, <5>1
          <6>2. QED
            BY <1>1, <2>2, <3>3, <6>1 DEF Kept, t
        <5>3. QED
          BY <1>1, <1>6, <3>3, <5>1, <5>2 DEF Kept
      <4>7. CASE line[k-1].kind = "macro"
        <5>1. N = k - 1 /\ KeptLen(line, k) = k - 1
          BY <1>1, <2>2, <3>3, <4>2, <4>3, <4>5, <4>7 DEF Kept, KeptLen, t
        <5>2. ASSUME NEW j \in 1..k-1
              PROVE  out[j] = IF ~IsBlank(line[j]) THEN sub[j] ELSE Blank
          BY <1>1, <2>2, <5>1 DEF Kept
        <5>3. QED
          BY <1>1, <1>6, <3>3, <5>1, <5>2 DEF Kept
      <4>8. QED
        BY <4>4, <4>6, <4>7
    <3>4. QED
      BY <3>1, <3>2, <3>3 DEF t, IsBlank
  <2>5. QED
    BY <1>2, <1>9, <2>4 DEF SpacedOK, out2, t
<1>10. QED
  BY <1>7, <1>8, <1>9

(* The last token of a line that is no blank. *)
LastPart(line) ==
    IF IsBlank(line[Len(line)]) THEN Len(line) - 1 ELSE Len(line)

LEMMA TrimmedLine ==
    ASSUME NEW line, IsLine(line)
    PROVE  /\ LastPart(line) \in 1..Len(line)
           /\ ~IsBlank(line[LastPart(line)])
           /\ \A j \in 1..Len(line) :
                 ~IsBlank(line[j]) => j <= LastPart(line)
           /\ Trimmed(Substituted(line)) =
                 SubSeq(Substituted(line), 1, LastPart(line))
<1>. DEFINE sub == Substituted(line)
            N == Len(line)
            L == LastPart(line)
            S == {j \in DOMAIN sub : ~IsBlank(sub[j])}
<1>1. /\ N \in Nat /\ N >= 1 /\ sub \in Seq(Pieces) /\ Len(sub) = N
      /\ DOMAIN sub = 1..N /\ ~IsBlank(line[1])
      /\ \A j \in 1..N : IsBlank(line[j]) <=> IsBlank(sub[j])
  BY LineFacts
<1>2. L \in 1..N /\ ~IsBlank(line[L]) /\ \A j \in 1..N : ~IsBlank(line[j]) => j <= L
  <2>1. CASE IsBlank(line[N])
    <3>1. L = N - 1 /\ N # 1
      BY <1>1, <2>1 DEF LastPart
    <3>2. N - 1 \in 1..N /\ N - 1 \in 1..N-1 /\ (N - 1) + 1 = N
      BY <1>1, <3>1
    <3>3. ~IsBlank(line[N - 1])
      BY <2>1, <3>2, LineFacts
    <3>4. QED
      BY <1>1, <2>1, <3>1, <3>2, <3>3
  <2>2. CASE ~IsBlank(line[N])
    <3>1. L = N
      BY <2>2 DEF LastPart
    <3>2. QED
      BY <1>1, <2>2, <3>1
  <2>3. QED
    BY <2>1, <2>2
<1>. HIDE DEF sub, L, N
<1>3. 1 \in S /\ \A h \in S : 1 <= h
  BY <1>1
<1>4. L \in S /\ \A h \in S : L >= h
  BY <1>1, <1>2
<1>5. (CHOOSE j \in S : \A h \in S : j <= h) = 1
  <2>. DEFINE a == CHOOSE j \in S : \A h \in S : j <= h
  <2>1. a \in S /\ \A h \in S : a <= h
    <3>. HIDE DEF S
    <3>. QED BY <1>3
  <2>. HIDE DEF a
  <2>2. a \in Nat /\ a <= 1 /\ 1 <= a
    BY <1>1, <1>3, <2>1
  <2>3. a = 1
    BY <2>2
  <2>4. QED
    BY <2>3 DEF a
<1>6. (CHOOSE j \in S : \A h \in S : j >= h) = L
  <2>. DEFINE a == CHOOSE j \in S : \A h \in S : j >= h
  <2>1. a \in S /\ \A h \in S : a >= h
    <3>. HIDE DEF S
    <3>. QED BY <1>4
  <2>. HIDE DEF a
  <2>2. a \in Nat /\ a >= L /\ L >= a /\ L \in Nat
    BY <1>1, <1>2, <1>4, <2>1
  <2>3. a = L
    BY <2>2
  <2>4. QED
    BY <2>3 DEF a
<1>7. Trimmed(sub) = SubSeq(sub, 1, L)
  BY <1>5, <1>6 DEF Trimmed
<1>8. QED
  BY <1>2, <1>7 DEF sub, N, L

(* What trim_end leaves. *)
LEMMA TrimEndFacts ==
    ASSUME NEW out \in Seq(Outputs)
    PROVE  /\ TrimEnd(out) \in Seq(Outputs)
           /\ Len(TrimEnd(out)) =
                 IF Len(out) >= 1 /\ out[Len(out)] = Blank THEN Len(out) - 1
                 ELSE Len(out)
           /\ \A j \in 1..Len(TrimEnd(out)) : TrimEnd(out)[j] = out[j]
<1>. DEFINE N == Len(out)
<1>1. N \in Nat /\ (out # <<>> <=> N >= 1)
  OBVIOUS
<1>2. CASE N >= 1 /\ out[N] = Blank
  <2>. DEFINE k == N - 1
  <2>1. TrimEnd(out) = SubSeq(out, 1, k)
    BY <1>1, <1>2 DEF TrimEnd, Last, Front
  <2>2. k \in Nat /\ k <= N
    BY <1>1, <1>2
  <2>. HIDE DEF k
  <2>3. /\ SubSeq(out, 1, k) \in Seq(Outputs) /\ Len(SubSeq(out, 1, k)) = k
        /\ \A j \in 1..k : SubSeq(out, 1, k)[j] = out[j]
    BY <2>2
  <2>4. QED
    BY <1>2, <2>1, <2>3 DEF k
<1>3. CASE ~(N >= 1 /\ out[N] = Blank)
  BY <1>1, <1>3 DEF TrimEnd, Last
<1>4. QED
  BY <1>2, <1>3

(* WellSpaced says that nothing of the line is misplaced. *)
LEMMA WellSpacedLine ==
    ASSUME NEW line, IsLine(line)
    PROVE  WellSpaced(line) <=> ~Misplaced(line, Len(line))
<1>. DEFINE N == Len(line)
<1>1. N \in Nat /\ DOMAIN line = 1..N
  BY LineFacts
<1>. HIDE DEF N
<1>2. \A j \in 1..N : (j < N - 1 <=> j + 2 <= N) /\ (j < N <=> j + 1 <= N)
  BY <1>1
<1>3. QED
  BY <1>1, <1>2 DEF WellSpaced, Misplaced, N

(* A line that is done. *)
LEMMA SpacedEnd ==
    ASSUME NEW line, IsLine(line), NEW out \in Seq(Outputs),
           SpacedOK(line, Len(line), out)
    PROVE  WellSpaced(line) <=> TrimEnd(out) = Trimmed(Substituted(line))
<1>. DEFINE sub == Substituted(line)
            N == Len(line)
            L == LastPart(line)
            r == TrimEnd(out)
            t == Trimmed(sub)
<1>1. /\ N \in Nat /\ N >= 1 /\ L \in 1..N /\ Len(sub) = N
      /\ sub \in Seq(Pieces) /\ ~IsBlank(line[L])
      /\ \A j \in 1..N : ~IsBlank(line[j]) => j <= L
      /\ \A j \in 1..N : sub[j] = Blank <=> line[j].kind = "blank"
  BY LineFacts, TrimmedLine
<1>2. t \in Seq(Pieces) /\ Len(t) = L /\ \A j \in 1..L : t[j] = sub[j]
  <2>1. t = SubSeq(sub, 1, L)
    BY TrimmedLine
  <2>. HIDE DEF t, sub, L
  <2>2. QED
    BY <1>1, <2>1
<1>3. /\ r \in Seq(Outputs) /\ \A j \in 1..Len(r) : r[j] = out[j]
      /\ Len(r) = IF Len(out) >= 1 /\ out[Len(out)] = Blank
                  THEN Len(out) - 1 ELSE Len(out)
      /\ Len(out) \in Nat /\ Len(r) \in Nat
  BY TrimEndFacts
<1>4. r \in Seq(Pieces)
  BY <1>3, OutputLines
<1>. HIDE DEF r, t, sub, N, L
<1>5. CASE Misplaced(line, N)
  <2>1. PICK d \in 1..N : /\ d <= Len(out) /\ out[d] # sub[d]
                          /\ \E e \in d..Len(out) : out[e] # Blank
                          /\ \E e \in d..N : ~IsBlank(line[e])
    BY <1>5 DEF SpacedOK, Diverged, N, sub
  <2>2. d <= L
    <3>1. PICK e \in d..N : ~IsBlank(line[e])
      BY <2>1
    <3>2. QED
      BY <1>1, <3>1
  <2>3. d <= Len(r)
    <3>1. PICK e \in d..Len(out) : out[e] # Blank
      BY <2>1
    <3>2. QED
      BY <1>3, <3>1
  <2>4. d \in 1..L /\ d \in 1..Len(r)
    BY <1>1, <1>3, <2>2, <2>3
  <2>5. r[d] # t[d]
    BY <1>2, <1>3, <2>1, <2>4
  <2>6. QED
    BY <1>5, <2>5, WellSpacedLine DEF N, r, t, sub
<1>6. CASE ~Misplaced(line, N)
  <2>1. /\ Len(out) = KeptLen(line, N)
        /\ \A j \in 1..Len(out) :
              out[j] = IF j <= N /\ ~IsBlank(line[j]) THEN sub[j] ELSE Blank
    BY <1>6 DEF SpacedOK, Kept, N, sub
  <2>2. Len(r) = L
    <3>1. CASE line[N].kind = "word"
      <4>1. Len(out) = N + 1 /\ L = N
        BY <1>1, <2>1, <3>1 DEF KeptLen, LastPart, IsBlank, L, N
      <4>2. out[N + 1] = Blank
        BY <1>1, <2>1, <4>1
      <4>3. QED
        BY <1>1, <1>3, <4>1, <4>2
    <3>2. CASE IsBlank(line[N]) /\ line[N-1].kind = "macro"
      <4>1. Len(out) = N - 1 /\ L = N - 1
        BY <1>1, <2>1, <3>2 DEF KeptLen, LastPart, IsBlank, L, N
      <4>2. out[N - 1] = sub[L] /\ sub[L] # Blank
        BY <1>1, <2>1, <4>1 DEF IsBlank
      <4>3. QED
        BY <1>1, <1>3, <4>1, <4>2
    <3>3. CASE IsBlank(line[N]) /\ line[N-1].kind # "macro"
      <4>1. Len(out) = N /\ L = N - 1
        BY <1>1, <2>1, <3>3 DEF KeptLen, LastPart, IsBlank, L, N
      <4>2. out[N] = Blank
        BY <1>1, <2>1, <3>3, <4>1
      <4>3. QED
        BY <1>1, <1>3, <4>1, <4>2
    <3>4. CASE line[N].kind # "word" /\ ~IsBlank(line[N])
      <4>1. Len(out) = N /\ L = N
        BY <1>1, <2>1, <3>4 DEF KeptLen, LastPart, L, N
      <4>2. out[N] # Blank
        BY <1>1, <2>1, <3>4, <4>1 DEF IsBlank
      <4>3. QED
        BY <1>1, <1>3, <4>1, <4>2
    <3>5. QED
      BY <3>1, <3>2, <3>3, <3>4
  <2>3. ASSUME NEW j \in 1..L PROVE r[j] = t[j]
    <3>1. j \in 1..Len(r) /\ j \in 1..Len(out) /\ j <= N /\ j \in 1..N
      BY <1>1, <1>3, <2>2
    <3>2. IsBlank(line[j]) => sub[j] = Blank
      <4>. SUFFICES ASSUME IsBlank(line[j]) PROVE line[j].kind = "blank"
        BY <1>1, <3>1
      <4>1. j # L
        BY <1>1
      <4>2. j + 1 <= N
        BY <1>1, <4>1
      <4>3. QED
        BY <1>6, <3>1, <4>2 DEF Misplaced, IsBlank
    <3>3. QED
      BY <1>2, <1>3, <2>1, <3>1, <3>2
  <2>4. r = t
    BY <1>2, <1>4, <2>2, <2>3, SeqEqual
  <2>5. QED
    BY <1>6, <2>4, WellSpacedLine DEF N, r, t, sub
<1>7. QED
  BY <1>5, <1>6

(* The lines of a script are lines. *)
LEMMA ScriptLines ==
    ASSUME SpacedInv, NEW l \in 1..Len(raw_string)
    PROVE  IsLine(raw_string[l])
<1>1. l \in DOMAIN raw_string
  BY DEF SpacedInv, ExpandInv, TypeOK
<1>2. QED
  BY <1>1, MacrosTypes DEF SpacedInv

(* A token is put to replaced_line. *)
LEMMA PushSpaced ==
    ASSUME SpacedInv, ExpandInv', AtToken, Push(Piece(Token)),
           Token.kind \in {"word", "blank", "blanks", "macro"},
           Token.kind = "macro" => Token.name \in Defined
    PROVE  SpacedInv'
<1>1. /\ i \in 1..Len(raw_string) /\ c \in 1..Len(Line) /\ c \in Nat
      /\ Len(Line) \in Nat
  BY TokenAtHand DEF SpacedInv, ExpandInv, AtToken
<1>2. IsLine(Line)
  BY <1>1, ScriptLines DEF Line
<1>3. /\ SpacedOK(Line, c - 1, replaced_line) /\ replaced_line \in Seq(Outputs)
      /\ raw_string \in Scripts
  BY <1>1 DEF SpacedInv, ExpandInv, TypeOK, Line
<1>4. SpacedOK(Line, c, replaced_line \o Piece(Line[c]))
  BY <1>1, <1>2, <1>3, SpacedStep DEF Token
<1>5. /\ replaced_line' = replaced_line \o Piece(Line[c]) /\ c' = c + 1
      /\ UNCHANGED <<raw_string, i, return_string>> /\ c' - 1 = c
  BY <1>1 DEF Push, Token
<1>6. SpacedOK(raw_string'[i'], c' - 1, replaced_line')
  BY <1>4, <1>5 DEF Line
<1>7. \A l \in 1..i'-1 :
          WellSpaced(raw_string'[l])
              <=> return_string'[l] = Trimmed(Substituted(raw_string'[l]))
  BY <1>5 DEF SpacedInv
<1>8. QED
  BY <1>3, <1>5, <1>6, <1>7 DEF SpacedInv

(* A new line, of which nothing is done. *)
LEMMA SpacedStart ==
    ASSUME NEW line
    PROVE  SpacedOK(line, 0, <<>>)
  BY DEF SpacedOK, Known, Misplaced, Kept, KeptLen

LEMMA EndLineSpaced ==
    ASSUME SpacedInv, ExpandInv', EndLine
    PROVE  SpacedInv'
<1>1. /\ i \in 1..Len(raw_string) /\ Line \in Seq(Tokens)
      /\ c = Len(Line) + 1 /\ Len(Line) \in Nat
      /\ replaced_line \in Seq(Outputs) /\ Len(raw_string) \in Nat
      /\ return_string \in Seq(Seq(Outputs)) /\ Len(return_string) = i - 1
  BY DEF EndLine, SpacedInv, ExpandInv, TypeOK, Line
<1>2. IsLine(Line) /\ c - 1 = Len(Line)
  BY <1>1, ScriptLines DEF Line
<1>3. SpacedOK(Line, Len(Line), replaced_line)
  BY <1>1, <1>2 DEF SpacedInv, Line
<1>. DEFINE t == TrimEnd(replaced_line)
<1>4. t \in Seq(Outputs)
  BY <1>1, TrimEndFacts
<1>5. WellSpaced(Line) <=> t = Trimmed(Substituted(Line))
  BY <1>1, <1>2, <1>3, SpacedEnd
<1>6. /\ return_string' = Append(return_string, t) /\ replaced_line' = <<>>
      /\ i' = i + 1 /\ c' = 1 /\ raw_string' = raw_string
  BY DEF EndLine
<1>. HIDE DEF t
<1>7. /\ return_string'[i] = t
      /\ \A l \in 1..i-1 : return_string'[l] = return_string[l]
  BY <1>1, <1>4, <1>6
<1>8. i' - 1 = i /\ c' - 1 = 0
  BY <1>1, <1>6
<1>9. ASSUME NEW l \in 1..i
      PROVE  WellSpaced(raw_string[l])
                 <=> return_string'[l] = Trimmed(Substituted(raw_string[l]))
  <2>1. CASE l = i
    BY <1>5, <1>7, <2>1 DEF Line
  <2>2. CASE l # i
    <3>1. l \in 1..i-1
      BY <1>1, <2>2
    <3>2. QED
      BY <1>7, <3>1 DEF SpacedInv
  <2>3. QED
    BY <2>1, <2>2
<1>10. SpacedOK(raw_string'[i'], c' - 1, replaced_line')
  BY <1>6, <1>8, SpacedStart
<1>11. QED
  BY <1>6, <1>8, <1>9, <1>10 DEF SpacedInv

LEMMA InitSpaced == Init => SpacedInv
<1>. SUFFICES ASSUME Init PROVE SpacedInv
  OBVIOUS
<1>1. i = 1 /\ c - 1 = 0 /\ i - 1 = 0 /\ replaced_line = <<>>
      /\ raw_string \in Scripts
  BY DEF Init
<1>2. SpacedOK(raw_string[i], c - 1, replaced_line)
  BY <1>1, SpacedStart
<1>3. QED
  BY <1>1, <1>2, InitExpand DEF SpacedInv

LEMMA NextSpaced == SpacedInv /\ [Next]_vars => SpacedInv'
<1>. SUFFICES ASSUME SpacedInv, [Next]_vars PROVE SpacedInv'
  OBVIOUS
<1>0. ExpandInv'
  BY NextExpand DEF SpacedInv
<1>1. CASE LineFails \/ MacroMissing \/ Panics \/ Return
  BY <1>0, <1>1 DEF LineFails, MacroMissing, Panics, Return, SpacedInv
<1>2. CASE UNCHANGED vars
  BY <1>0, <1>2 DEF vars, SpacedInv
<1>3. CASE AddText
  BY <1>0, <1>3, PushSpaced DEF AddText, Piece
<1>4. CASE SkipBlank
  BY <1>0, <1>4, PushSpaced DEF SkipBlank, Piece, IsBlank
<1>5. CASE AddValue
  BY <1>0, <1>5, PushSpaced DEF AddValue, Piece, IsBlank
<1>6. CASE EndLine
  BY <1>0, <1>6, EndLineSpaced
<1>7. QED
  BY <1>1, <1>2, <1>3, <1>4, <1>5, <1>6 DEF Next

(***************************************************************************)
(* For any script: a line comes out with the blanks it had if and only if  *)
(* only single blanks separate its tokens and no macro in it stands behind *)
(* a word or in front of a blank that something follows.                   *)
(***************************************************************************)
THEOREM BlanksKeptExactly == Spec => []BlanksKeptIfWellSpaced
<1>1. SpacedInv => BlanksKeptIfWellSpaced
  <2>. SUFFICES ASSUME SpacedInv, status = "ok", NEW l \in DOMAIN raw_string
                PROVE  WellSpaced(raw_string[l])
                           <=> return_string[l]
                                   = Trimmed(Substituted(raw_string[l]))
    BY DEF BlanksKeptIfWellSpaced
  <2>1. l \in 1..i-1
    BY DEF SpacedInv, ExpandInv, TypeOK
  <2>2. QED
    BY <2>1 DEF SpacedInv
<1>2. QED
  BY <1>1, InitSpaced, NextSpaced, PTL DEF Spec
=============================================================================
