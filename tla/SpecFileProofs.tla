--------------------------- MODULE SpecFileProofs ---------------------------
(***************************************************************************)
(* Reading a spec file, for any file: what the grammar takes line by line, *)
(* and the loop makes of the pairs, agrees with the layout of the file.    *)
(***************************************************************************)
EXTENDS SpecFile, Recursion, SequenceTheorems, TLAPS

(***************************************************************************)
(* The layout of the file f, as the properties have it.                    *)
(***************************************************************************)
Run(f, h, i) == h <= i /\ \A j \in h..i : f[j].kind # "blank"

Headed(f, h, i) ==
    /\ h < i
    /\ Run(f, h, i)
    /\ f[h].kind = "header"
    /\ \A g \in 1..h-1 : f[g].kind = "header" => ~Run(f, g, h)

(* A header stands before line i in its paragraph. *)
Under(f, i) == \E h \in 1..i-1 : f[h].kind = "header" /\ Run(f, h, i)

(* The grammar makes the pair p of line i and, for a section, those that   *)
(* follow it.                                                              *)
Makes(f, i, p) ==
    /\ ~Under(f, i)
    /\ p.rule = "variable" =>
         f[i].kind = "variable" /\ f[i].name = p.name /\ f[i].text = p.text
    /\ p.rule = "section" =>
         /\ f[i].kind = "header" /\ f[i].name = p.name
         /\ p.body # <<>> /\ i + Len(p.body) <= Len(f)
         /\ \A j \in 1..Len(p.body) :
              p.body[j] = f[i+j] /\ f[i+j].kind \notin {"blank", "bad"}
    /\ p.rule \notin {"variable", "section"} => f[i].kind = "empty"

(* The last line of the pair p made of line i. *)
End(i, p) == IF p.rule = "section" THEN i + Len(p.body) ELSE i

(* The pair number k is made of line org[k]; but for a multiline variable  *)
(* no line up to m that is not blank is left out.                          *)
Origins(f, ps, m, org) ==
    /\ \A k \in 1..Len(ps) : Makes(f, org[k], ps[k]) /\ End(org[k], ps[k]) <= m
    /\ \A k, l \in 1..Len(ps) : k < l => End(org[k], ps[k]) < org[l]
    /\ \A i \in 1..m :
         \/ f[i].kind = "blank"
         \/ \E k \in 1..Len(ps) :
              \/ ps[k].rule = "multiline_variable"
              \/ org[k] <= i /\ i <= End(org[k], ps[k])

(***************************************************************************)
(* What the grammar has done: the pairs are made of the lines before pos,  *)
(* and no header stands before pos in its paragraph, unless the line is    *)
(* one that the grammar refuses.                                           *)
(***************************************************************************)
GrammarInv ==
    /\ \E org \in [1..Len(pairs) -> 1..pos-1] :
         Origins(lines, pairs, pos - 1, org)
    /\ status = "grammar" /\ pos <= Len(lines) =>
         ~Under(lines, pos) \/ lines[pos].kind = "bad"
    /\ status \in {"pairs", "ok", "panic"} => pos = Len(lines) + 1
    /\ status = "ok" => n = Len(pairs) + 1
    /\ status = "grammar" => n = 1

(* The pairs among the first m that set v. *)
Sets(ps, v, m) == {k \in 1..m : ps[k].rule = "variable" /\ ps[k].name = v}

HasText(body) == \E j \in 1..Len(body) : IsText(body[j])

(* The loop goes on after the pair p. *)
Passed(p) ==
    \/ p.rule = "variable"
    \/ p.rule = "section" /\ (p.name \in Sections \/ ~HasText(p.body))

LoopInv ==
    /\ \A k \in 1..n-1 : Passed(pairs[k])
    /\ status = "panic" => n <= Len(pairs) /\ ~Passed(pairs[n])

(* Every variable has the text of the last pair that sets it. *)
VariableInv ==
    /\ \A v \in KnownVariables :
         LET S == Sets(pairs, v, n - 1) IN
         /\ S = {} => fields[v] = NoText
         /\ \A k \in S : (\A l \in S : l <= k) => fields[v] = pairs[k].text
    /\ \A v \in VariableNames \ KnownVariables :
         LET S == Sets(pairs, v, n - 1) IN
         /\ v \in DOMAIN variables <=> S # {}
         /\ \A k \in S : (\A l \in S : l <= k) => variables[v] = pairs[k].text

(* What the section s has of the pair p. *)
Share(s, p) ==
    IF p.rule # "section" \/ p.name # s THEN <<>>
    ELSE IF s = "files" THEN WithoutComments(p.body)
    ELSE Joined(WithoutComments(p.body))

(* The shares of the first m pairs. *)
Shares(s, ps, m) == FlattenSeq([k \in 1..m |-> Share(s, ps[k])])

ContentInv ==
    /\ \A s \in TextSections : content[s] = Shares(s, pairs, n - 1)
    /\ files = Shares("files", pairs, n - 1)

SpecInv == TypeOK /\ GrammarInv /\ LoopInv /\ VariableInv /\ ContentInv

-----------------------------------------------------------------------------
(* Lines and layout. *)

LEMMA LineIs ==
    ASSUME NEW l \in Lines
    PROVE  /\ l.kind \in {"blank", "bad", "header", "empty", "variable",
                          "comment", "text"}
           /\ l.kind = "header" => l.name \in SectionNames
           /\ l.kind = "variable" => l.name \in VariableNames /\ l.text \in Texts
BY DEF Lines

LEMMA PairIs ==
    ASSUME NEW p \in Pairs
    PROVE  /\ p.rule \in {"variable", "section", "empty_variable",
                          "multiline_variable"}
           /\ p.rule = "variable" => p.name \in VariableNames /\ p.text \in Texts
           /\ p.rule = "section" => p.name \in SectionNames /\ p.body \in Seq(Lines)
BY DEF Pairs

(* The first line that is not taken. *)
LEMMA BeyondIs ==
    ASSUME lines \in Seq(Lines), NEW i \in 1..Len(lines)+1,
           NEW taken \in SUBSET DOMAIN lines
    PROVE  LET j == Beyond(i, taken)
           IN  /\ j \in i..Len(lines)+1
               /\ i..j-1 \subseteq taken
               /\ j \notin taken
<1>. DEFINE N == Len(lines) + 1
            J == {j \in i..N : j \notin taken}
<1>1. N \in Nat /\ N \notin taken /\ i \in 1..N /\ i \in Nat
  OBVIOUS
<1>2. N \in J /\ J \in SUBSET (1..N)
  BY <1>1
<1>. HIDE DEF J
<1>3. PICK j \in J : \A k \in J : j <= k
  BY <1>1, <1>2, FirstIndex
<1>4. j \in i..N /\ j \notin taken
  BY <1>3 DEF J
<1>5. ASSUME NEW k \in i..j-1 PROVE k \in taken
  <2>1. k \in i..N /\ ~(j <= k)
    BY <1>1, <1>4
  <2>2. QED
    BY <1>3, <2>1 DEF J
<1>6. \E l \in i..N : i..l-1 \subseteq taken /\ l \notin taken
  BY <1>4, <1>5
<1>7. QED
  BY <1>6 DEF Beyond

(* A line has one heading at most. *)
LEMMA HeadedUnique ==
    ASSUME NEW f, NEW i \in Nat, NEW g \in 1..i, NEW h \in 1..i,
           Headed(f, g, i), Headed(f, h, i)
    PROVE  g = h
<1>1. ASSUME NEW x \in 1..i, NEW y \in 1..i, x < y, Headed(f, x, i), Headed(f, y, i)
      PROVE  FALSE
  <2>1. x \in 1..y-1 /\ f[x].kind = "header" /\ Run(f, x, i)
    BY <1>1 DEF Headed
  <2>2. Run(f, x, y)
    BY <1>1, <2>1 DEF Run
  <2>3. QED
    BY <1>1, <2>1, <2>2 DEF Headed
<1>2. g < h \/ h < g \/ g = h
  OBVIOUS
<1>3. QED
  BY <1>1, <1>2

LEMMA UnderIsHeaded ==
    ASSUME NEW f, NEW i \in Nat
    PROVE  Under(f, i) <=> \E h \in 1..i : Headed(f, h, i)
<1>1. ASSUME NEW h \in 1..i, Headed(f, h, i) PROVE Under(f, i)
  BY <1>1 DEF Headed, Under
<1>2. ASSUME Under(f, i) PROVE \E h \in 1..i : Headed(f, h, i)
  <2>. DEFINE J == {h \in 1..i : h < i /\ f[h].kind = "header" /\ Run(f, h, i)}
  <2>1. J # {} /\ J \in SUBSET (1..i)
    BY <1>2 DEF Under
  <2>. HIDE DEF J
  <2>2. PICK h \in J : \A k \in J : h <= k
    BY <2>1, FirstIndex
  <2>3. h \in 1..i /\ h < i /\ f[h].kind = "header" /\ Run(f, h, i)
    BY <2>2 DEF J
  <2>4. ASSUME NEW g \in 1..h-1, f[g].kind = "header", Run(f, g, h) PROVE FALSE
    <3>1. g \in 1..i /\ g < i /\ ~(h <= g)
      BY <2>3
    <3>2. ASSUME NEW j \in g..i PROVE f[j].kind # "blank"
      <4>1. j \in g..h \/ j \in h..i
        BY <2>3
      <4>2. QED
        BY <2>3, <2>4, <4>1 DEF Run
    <3>3. Run(f, g, i)
      BY <3>1, <3>2 DEF Run
    <3>4. QED
      BY <2>2, <2>4, <3>1, <3>3 DEF J
  <2>5. QED
    BY <2>3, <2>4 DEF Headed
<1>3. QED
  BY <1>1, <1>2

(* The lines of the paragraph behind a first header are headed by it. *)
LEMMA HeadedBehind ==
    ASSUME NEW f, NEW h \in Nat \ {0}, NEW i \in Nat, h < i,
           f[h].kind = "header", ~Under(f, h), \A j \in h+1..i : f[j].kind # "blank"
    PROVE  Headed(f, h, i)
<1>1. ASSUME NEW j \in h..i PROVE f[j].kind # "blank"
  <2>1. j = h \/ j \in h+1..i
    OBVIOUS
  <2>2. QED
    BY <2>1
<1>2. Run(f, h, i)
  BY <1>1 DEF Run
<1>3. QED
  BY <1>2 DEF Headed, Under

LEMMA UnderNext ==
    ASSUME NEW f, NEW i \in Nat, ~Under(f, i), f[i].kind # "header"
    PROVE  ~Under(f, i + 1)
<1>. SUFFICES ASSUME NEW h \in 1..i, f[h].kind = "header", Run(f, h, i + 1)
              PROVE  FALSE
  BY DEF Under
<1>1. h \in 1..i-1
  OBVIOUS
<1>2. Run(f, h, i)
  BY <1>1 DEF Run
<1>3. QED
  BY <1>1, <1>2 DEF Under

LEMMA UnderBlank ==
    ASSUME NEW f, NEW i \in Nat, f[i].kind = "blank"
    PROVE  ~Under(f, i)
<1>1. ASSUME NEW h \in 1..i-1 PROVE ~Run(f, h, i)
  <2>1. i \in h..i
    OBVIOUS
  <2>2. QED
    BY <2>1 DEF Run
<1>2. QED
  BY <1>1 DEF Under

-----------------------------------------------------------------------------
(* The grammar. *)

LEMMA OriginsBlank ==
    ASSUME NEW f, NEW ps, NEW m \in Nat, Len(ps) \in Nat,
           NEW org \in [1..Len(ps) -> 1..m],
           Origins(f, ps, m, org), f[m+1].kind = "blank",
           \A k \in 1..Len(ps) : End(org[k], ps[k]) \in Nat
    PROVE  org \in [1..Len(ps) -> 1..m+1] /\ Origins(f, ps, m + 1, org)
<1>1. org \in [1..Len(ps) -> 1..m+1]
  OBVIOUS
<1>2. \A k \in 1..Len(ps) : End(org[k], ps[k]) <= m + 1
  BY DEF Origins
<1>3. \A i \in 1..m+1 : i \in 1..m \/ i = m + 1
  OBVIOUS
<1>4. QED
  BY <1>1, <1>2, <1>3 DEF Origins

(* The pair p of line m + 1 and those up to e. *)
LEMMA OriginsAdd ==
    ASSUME NEW f, NEW ps \in Seq(Pairs), NEW m \in Nat,
           NEW org \in [1..Len(ps) -> 1..m], Origins(f, ps, m, org),
           NEW p \in Pairs, Makes(f, m + 1, p),
           NEW e \in Nat, m + 1 <= e, End(m + 1, p) <= e,
           p.rule = "multiline_variable" \/ e = End(m + 1, p)
    PROVE  \E o \in [1..Len(Append(ps, p)) -> 1..e] : Origins(f, Append(ps, p), e, o)
<1>. DEFINE N == Len(ps)
            qs == Append(ps, p)
            o == [k \in 1..N+1 |-> IF k = N + 1 THEN m + 1 ELSE org[k]]
<1>1. /\ N \in Nat /\ Len(qs) = N + 1 /\ qs[N+1] = p
      /\ \A k \in 1..N : qs[k] = ps[k]
  BY AppendProperties
<1>2. \A k \in 1..N+1 : k \in 1..N \/ k = N + 1
  BY <1>1
<1>3. \A k \in 1..N : k # N + 1 /\ k \in 1..N+1 /\ org[k] \in 1..m
  BY <1>1
<1>. HIDE DEF N, qs
<1>4. \A k \in 1..N : o[k] = org[k] /\ qs[k] = ps[k]
  BY <1>1, <1>3
<1>5. o[N+1] = m + 1 /\ qs[N+1] = p /\ N + 1 \in 1..N+1
  BY <1>1
<1>6. o \in [1..N+1 -> 1..e]
  BY <1>1, <1>2, <1>3
<1>. HIDE DEF o
<1>7. \A k \in 1..N : /\ Makes(f, org[k], ps[k]) /\ End(org[k], ps[k]) <= m
                      /\ End(org[k], ps[k]) \in Int
  <2>1. ASSUME NEW k \in 1..N PROVE End(org[k], ps[k]) \in Int
    <3>1. ps[k] \in Pairs
      BY DEF N
    <3>2. ps[k].rule = "section" => Len(ps[k].body) \in Nat
      BY <3>1, PairIs
    <3>3. QED
      BY <1>3, <3>2 DEF End
  <2>2. QED
    BY <2>1 DEF Origins, N
<1>8. ASSUME NEW k \in 1..N+1
      PROVE  Makes(f, o[k], qs[k]) /\ End(o[k], qs[k]) <= e
  <2>1. CASE k \in 1..N
    BY <1>4, <1>7, <2>1
  <2>2. CASE k = N + 1
    BY <1>5, <2>2
  <2>3. QED
    BY <1>2, <2>1, <2>2
<1>9. ASSUME NEW k \in 1..N+1, NEW l \in 1..N+1, k < l
      PROVE  End(o[k], qs[k]) < o[l]
  <2>1. k \in 1..N
    BY <1>1, <1>9
  <2>2. CASE l \in 1..N
    BY <1>4, <1>9, <2>1, <2>2 DEF Origins, N
  <2>3. CASE l = N + 1
    BY <1>4, <1>5, <1>7, <2>1, <2>3
  <2>4. QED
    BY <1>2, <2>2, <2>3
<1>10. ASSUME NEW i \in 1..e
       PROVE  \/ f[i].kind = "blank"
              \/ \E k \in 1..N+1 :
                   \/ qs[k].rule = "multiline_variable"
                   \/ o[k] <= i /\ i <= End(o[k], qs[k])
  <2>1. CASE i \in 1..m
    <3>1. \/ f[i].kind = "blank"
          \/ \E k \in 1..N : \/ ps[k].rule = "multiline_variable"
                             \/ org[k] <= i /\ i <= End(org[k], ps[k])
      BY <2>1 DEF Origins, N
    <3>2. QED
      BY <1>3, <1>4, <3>1
  <2>2. CASE i \notin 1..m
    BY <1>5, <2>2
  <2>3. QED
    BY <2>1, <2>2
<1>11. Origins(f, qs, e, o)
  BY <1>1, <1>8, <1>9, <1>10 DEF Origins
<1>12. QED
  BY <1>1, <1>6, <1>11 DEF qs

LEMMA NothingRead ==
    ASSUME NEW ps
    PROVE  /\ \A v : Sets(ps, v, 0) = {}
           /\ \A s : Shares(s, ps, 0) = <<>>
<1>1. \A v : Sets(ps, v, 0) = {}
  BY DEF Sets
<1>2. ASSUME NEW s PROVE [k \in 1..0 |-> Share(s, ps[k])] = <<>>
  OBVIOUS
<1>3. QED
  BY <1>1, <1>2, FlattenEmpty DEF Shares

LEMMA SpecInvHoldsInitially == Init => SpecInv
<1>. SUFFICES ASSUME Init PROVE SpecInv
  OBVIOUS
<1>1. TypeOK
  <2>1. lines \in Seq(Lines) /\ Len(lines) \in Nat
    BY SpecFileTypes DEF Init
  <2>2. pos \in 1..Len(lines)+1 /\ pairs \in Seq(Pairs) /\ Len(pairs) = 0
    BY <2>1 DEF Init
  <2>3. n \in 1..Len(pairs)+1 /\ fields \in [KnownVariables -> Texts \cup {NoText}]
    BY <2>2 DEF Init
  <2>4. \E D \in SUBSET (VariableNames \ KnownVariables) : variables \in [D -> Texts]
    <3>1. variables \in [{} -> Texts]
      BY DEF Init
    <3>2. {} \in SUBSET (VariableNames \ KnownVariables)
      OBVIOUS
    <3>3. QED
      BY <3>1, <3>2
  <2>5. content \in [TextSections -> Seq(Lines \cup {NewLine})] /\ files \in Seq(Lines)
    BY DEF Init
  <2>6. status = "grammar"
    BY DEF Init
  <2>7. QED
    BY <2>1, <2>2, <2>3, <2>4, <2>5, <2>6 DEF TypeOK
<1>2. /\ pos = 1 /\ n = 1 /\ pairs = <<>> /\ status = "grammar"
      /\ pos - 1 = 0 /\ n - 1 = 0 /\ Len(pairs) = 0
  BY DEF Init
<1>3. GrammarInv
  <2>1. ~Under(lines, 1)
    BY DEF Under
  <2>. DEFINE org == [k \in 1..0 |-> 0]
  <2>2. org \in [1..0 -> 1..0]
    OBVIOUS
  <2>3. Origins(lines, pairs, 0, org)
    BY <1>2 DEF Origins
  <2>. HIDE DEF org
  <2>4. QED
    BY <1>2, <2>1, <2>2, <2>3 DEF GrammarInv
<1>4. LoopInv
  BY <1>2 DEF LoopInv
<1>5. VariableInv
  <2>1. \A v : Sets(pairs, v, n - 1) = {}
    BY <1>2, NothingRead
  <2>2. \A v \in KnownVariables : fields[v] = NoText
    BY DEF Init
  <2>3. DOMAIN variables = {}
    BY DEF Init
  <2>4. QED
    BY <2>1, <2>2, <2>3 DEF VariableInv
<1>6. ContentInv
  <2>1. \A s : Shares(s, pairs, n - 1) = <<>>
    BY <1>2, NothingRead
  <2>2. files = <<>> /\ \A s \in TextSections : content[s] = <<>>
    BY DEF Init
  <2>3. QED
    BY <2>1, <2>2 DEF ContentInv
<1>7. QED
  BY <1>1, <1>3, <1>4, <1>5, <1>6 DEF SpecInv

(* The loop has not begun. *)
LEMMA BeforeLoop ==
    ASSUME SpecInv, status = "grammar", status' \in {"grammar", "error", "pairs"},
           UNCHANGED <<n, spec>>
    PROVE  LoopInv' /\ VariableInv' /\ ContentInv'
<1>1. n = 1 /\ n' = 1 /\ n - 1 = 0 /\ n' - 1 = 0
  BY DEF SpecInv, GrammarInv
<1>2. /\ fields' = fields /\ variables' = variables
      /\ content' = content /\ files' = files
  BY DEF spec
<1>3. /\ \A v : Sets(pairs, v, 0) = {} /\ Sets(pairs', v, 0) = {}
      /\ \A s : Shares(s, pairs, 0) = <<>> /\ Shares(s, pairs', 0) = <<>>
  BY NothingRead
<1>4. LoopInv'
  BY <1>1 DEF LoopInv
<1>5. VariableInv'
  <2>1. /\ \A v \in KnownVariables : fields[v] = NoText
        /\ \A v \in VariableNames \ KnownVariables : v \notin DOMAIN variables
    BY <1>1, <1>3 DEF SpecInv, VariableInv
  <2>2. QED
    BY <1>1, <1>2, <1>3, <2>1 DEF VariableInv
<1>6. ContentInv'
  BY <1>1, <1>2, <1>3 DEF SpecInv, ContentInv
<1>7. QED
  BY <1>4, <1>5, <1>6

LEMMA YieldStep ==
    ASSUME SpecInv, AtLine, NEW p \in Pairs, p.rule = "section" => p.body # <<>>,
           NEW next \in Nat, Yield(p, next), Makes(lines, pos, p),
           pos + 1 <= next, next <= Len(lines) + 1, End(pos, p) <= next - 1,
           p.rule = "multiline_variable" \/ next - 1 = End(pos, p),
           next <= Len(lines) => ~Under(lines, next) \/ lines[next].kind = "bad"
    PROVE  SpecInv'
<1>1. /\ TypeOK /\ GrammarInv /\ status = "grammar" /\ n = 1
      /\ pos \in Nat /\ pos <= Len(lines) /\ Len(lines) \in Nat
      /\ pairs \in Seq(Pairs) /\ Len(pairs) \in Nat
  BY DEF SpecInv, AtLine, TypeOK, GrammarInv
<1>2. /\ pairs' = Append(pairs, p) /\ pos' = next /\ lines' = lines /\ n' = n
      /\ status' = status /\ UNCHANGED spec
      /\ fields' = fields /\ variables' = variables
      /\ content' = content /\ files' = files
  BY DEF Yield, spec
<1>3. /\ Append(pairs, p) \in Seq(Pairs)
      /\ Len(Append(pairs, p)) = Len(pairs) + 1
      /\ \A k \in 1..Len(pairs) : Append(pairs, p)[k] = pairs[k]
      /\ Append(pairs, p)[Len(pairs) + 1] = p
  BY <1>1, AppendProperties
<1>4. ASSUME NEW k \in 1..Len(pairs)+1
      PROVE  Append(pairs, p)[k].rule = "section" => Append(pairs, p)[k].body # <<>>
  <2>1. CASE k \in 1..Len(pairs)
    BY <1>1, <1>3, <2>1 DEF TypeOK
  <2>2. CASE k = Len(pairs) + 1
    BY <1>3, <2>2
  <2>3. QED
    BY <1>1, <2>1, <2>2
<1>5. TypeOK'
  BY <1>1, <1>2, <1>3, <1>4 DEF TypeOK
<1>6. \E o \in [1..Len(pairs') -> 1..pos'-1] : Origins(lines', pairs', pos' - 1, o)
  <2>. DEFINE m == pos - 1
              e == next - 1
  <2>1. m \in Nat /\ m + 1 = pos /\ e \in Nat /\ m + 1 <= e
    BY <1>1, <1>5 DEF TypeOK, SpecInv
  <2>2. PICK org \in [1..Len(pairs) -> 1..m] : Origins(lines, pairs, m, org)
    BY <1>1 DEF GrammarInv
  <2>3. Makes(lines, m + 1, p) /\ End(m + 1, p) <= e
    BY <2>1
  <2>4. p.rule = "multiline_variable" \/ e = End(m + 1, p)
    BY <2>1
  <2>. HIDE DEF m, e
  <2>5. \E o \in [1..Len(Append(pairs, p)) -> 1..e] :
           Origins(lines, Append(pairs, p), e, o)
    BY <1>1, <2>1, <2>2, <2>3, <2>4, OriginsAdd
  <2>6. QED
    BY <1>2, <2>5 DEF e
<1>7. GrammarInv'
  BY <1>1, <1>2, <1>6 DEF GrammarInv
<1>8. QED
  BY <1>1, <1>2, <1>5, <1>7, BeforeLoop DEF SpecInv

LEMMA TakeVariableStep == SpecInv /\ TakeVariable => SpecInv'
<1>. SUFFICES ASSUME SpecInv, TakeVariable PROVE SpecInv'
  OBVIOUS
<1>. DEFINE p == [rule |-> "variable", name |-> Line.name, text |-> Line.text]
<1>1. /\ AtLine /\ Line.kind = "variable" /\ Yield(p, pos + 1)
      /\ lines \in Seq(Lines) /\ pos \in 1..Len(lines) /\ Len(lines) \in Nat
  BY DEF TakeVariable, AtLine, SpecInv, TypeOK
<1>2. Line \in Lines /\ Line = lines[pos]
  BY <1>1 DEF Line
<1>3. p \in Pairs /\ p.rule = "variable"
  BY <1>1, <1>2, LineIs DEF Pairs
<1>4. ~Under(lines, pos)
  BY <1>1, <1>2 DEF SpecInv, GrammarInv, AtLine
<1>5. Makes(lines, pos, p)
  BY <1>1, <1>2, <1>4 DEF Makes
<1>6. ~Under(lines, pos + 1)
  BY <1>1, <1>2, <1>4, UnderNext
<1>7. End(pos, p) = pos
  BY DEF End
<1>. HIDE DEF p
<1>8. QED
  BY <1>1, <1>3, <1>5, <1>6, <1>7, YieldStep

LEMMA TakeMultilineStep == SpecInv /\ TakeMultilineVariable => SpecInv'
<1>. SUFFICES ASSUME SpecInv, TakeMultilineVariable PROVE SpecInv'
  OBVIOUS
<1>. DEFINE p == [rule |-> "multiline_variable"]
            e == Beyond(pos + 1, WordLines)
<1>1. /\ AtLine /\ Line.kind = "empty" /\ Yield(p, e) /\ IsMultiline(pos)
      /\ lines \in Seq(Lines) /\ pos \in 1..Len(lines) /\ Len(lines) \in Nat
  BY DEF TakeMultilineVariable, AtLine, SpecInv, TypeOK
<1>2. Line = lines[pos]
  BY DEF Line
<1>3. p \in Pairs /\ p.rule = "multiline_variable"
  BY DEF Pairs
<1>4. ~Under(lines, pos)
  BY <1>1, <1>2 DEF SpecInv, GrammarInv, AtLine
<1>5. Makes(lines, pos, p)
  BY <1>1, <1>2, <1>4 DEF Makes
<1>6. /\ WordLines \in SUBSET DOMAIN lines
      /\ pos + 1 \in 1..Len(lines)+1
  BY <1>1 DEF WordLines
<1>7. e \in pos+1..Len(lines)+1
  BY <1>1, <1>6, BeyondIs
<1>8. e > pos + 1 /\ e <= Len(lines) /\ IsBlank(e)
  BY <1>1 DEF IsMultiline
<1>. HIDE DEF e
<1>9. e \in Nat /\ ~Under(lines, e)
  BY <1>1, <1>7, <1>8, UnderBlank DEF IsBlank
<1>10. End(pos, p) = pos
  BY DEF End
<1>. HIDE DEF p
<1>11. QED
  BY <1>1, <1>3, <1>5, <1>7, <1>8, <1>9, <1>10, YieldStep

LEMMA TakeEmptyStep == SpecInv /\ TakeEmptyVariable => SpecInv'
<1>. SUFFICES ASSUME SpecInv, TakeEmptyVariable PROVE SpecInv'
  OBVIOUS
<1>. DEFINE p == [rule |-> "empty_variable"]
<1>1. /\ AtLine /\ Line.kind = "empty" /\ Yield(p, pos + 1)
      /\ lines \in Seq(Lines) /\ pos \in 1..Len(lines) /\ Len(lines) \in Nat
  BY DEF TakeEmptyVariable, AtLine, SpecInv, TypeOK
<1>2. Line = lines[pos]
  BY DEF Line
<1>3. p \in Pairs /\ p.rule = "empty_variable"
  BY DEF Pairs
<1>4. ~Under(lines, pos)
  BY <1>1, <1>2 DEF SpecInv, GrammarInv, AtLine
<1>5. Makes(lines, pos, p)
  BY <1>1, <1>2, <1>4 DEF Makes
<1>6. ~Under(lines, pos + 1)
  BY <1>1, <1>2, <1>4, UnderNext
<1>7. End(pos, p) = pos
  BY DEF End
<1>. HIDE DEF p
<1>8. QED
  BY <1>1, <1>3, <1>5, <1>6, <1>7, YieldStep

(* A section ends before a blank line, a bad one or at the end. *)
LEMMA TakeSectionStep == SpecInv /\ TakeSection => SpecInv'
<1>. SUFFICES ASSUME SpecInv, TakeSection PROVE SpecInv'
  OBVIOUS
<1>. DEFINE e == Beyond(pos + 1, SectionLines)
            body == SubSeq(lines, pos + 1, e - 1)
            p == [rule |-> "section", name |-> Line.name, body |-> body]
<1>1. /\ AtLine /\ Line.kind = "header" /\ Yield(p, e) /\ e > pos + 1
      /\ lines \in Seq(Lines) /\ pos \in 1..Len(lines) /\ Len(lines) \in Nat
  BY DEF TakeSection, AtLine, SpecInv, TypeOK
<1>2. Line \in Lines /\ Line = lines[pos]
  BY <1>1 DEF Line
<1>3. ~Under(lines, pos)
  BY <1>1, <1>2 DEF SpecInv, GrammarInv, AtLine
<1>4. SectionLines \in SUBSET DOMAIN lines /\ pos + 1 \in 1..Len(lines)+1
  BY <1>1 DEF SectionLines
<1>5. /\ e \in pos+1..Len(lines)+1 /\ pos+1..e-1 \subseteq SectionLines
      /\ e \notin SectionLines
  BY <1>1, <1>4, BeyondIs
<1>. HIDE DEF e
<1>6. e \in Nat /\ e - 1 <= Len(lines) /\ pos + 1 <= e - 1 /\ pos + 1 \in Nat
  BY <1>1, <1>5
<1>7. /\ body \in Seq(Lines) /\ Len(body) = (e - 1) - pos
      /\ \A j \in 1..Len(body) : body[j] = lines[pos + j]
  BY <1>1, <1>6
<1>. HIDE DEF body
<1>8. body # <<>>
  <2>1. pos \in Nat
    BY <1>1
  <2>2. Len(body) # 0
    BY <1>6, <1>7, <2>1
  <2>3. QED
    BY <2>2
<1>9. p \in Pairs /\ p.rule = "section" /\ p.body = body /\ p.name = Line.name
  BY <1>1, <1>2, <1>7, LineIs DEF Pairs
<1>10. End(pos, p) = e - 1
  BY <1>1, <1>6, <1>7 DEF End
<1>11. Makes(lines, pos, p)
  <2>1. ASSUME NEW j \in 1..Len(body)
        PROVE  body[j] = lines[pos+j] /\ lines[pos+j].kind \notin {"blank", "bad"}
    <3>1. pos + j \in pos+1..e-1
      BY <1>1, <1>6, <1>7
    <3>2. QED
      BY <1>5, <1>7, <3>1 DEF SectionLines
  <2>2. pos + Len(body) <= Len(lines)
    BY <1>1, <1>6, <1>7
  <2>. HIDE DEF p
  <2>3. QED
    BY <1>1, <1>2, <1>3, <1>8, <1>9, <2>1, <2>2 DEF Makes
<1>12. e <= Len(lines) => ~Under(lines, e) \/ lines[e].kind = "bad"
  <2>. SUFFICES ASSUME e <= Len(lines), lines[e].kind # "bad" PROVE ~Under(lines, e)
    OBVIOUS
  <2>1. e \in DOMAIN lines
    BY <1>1, <1>6
  <2>2. lines[e].kind = "blank"
    BY <1>5, <2>1 DEF SectionLines
  <2>3. QED
    BY <1>6, <2>2, UnderBlank
<1>. HIDE DEF p
<1>13. QED
  BY <1>1, <1>6, <1>8, <1>9, <1>10, <1>11, <1>12, YieldStep

LEMMA SkipBlankStep == SpecInv /\ SkipBlank => SpecInv'
<1>. SUFFICES ASSUME SpecInv, SkipBlank PROVE SpecInv'
  OBVIOUS
<1>1. /\ AtLine /\ lines[pos].kind = "blank" /\ pos' = pos + 1
      /\ lines' = lines /\ pairs' = pairs /\ n' = n /\ status' = status
      /\ UNCHANGED spec /\ status = "grammar" /\ pos <= Len(lines)
  BY DEF SkipBlank, IsBlank, AtLine
<1>2. /\ TypeOK /\ lines \in Seq(Lines) /\ pos \in 1..Len(lines)
      /\ Len(lines) \in Nat /\ pairs \in Seq(Pairs) /\ Len(pairs) \in Nat
  BY <1>1 DEF SpecInv, TypeOK
<1>3. TypeOK'
  BY <1>1, <1>2 DEF TypeOK, spec
<1>. DEFINE m == pos - 1
<1>4. m \in Nat /\ m + 1 = pos /\ pos' - 1 = m + 1
  BY <1>1, <1>2
<1>5. PICK org \in [1..Len(pairs) -> 1..m] : Origins(lines, pairs, m, org)
  BY DEF SpecInv, GrammarInv
<1>. HIDE DEF m
<1>6. ASSUME NEW k \in 1..Len(pairs) PROVE End(org[k], pairs[k]) \in Nat
  <2>1. pairs[k] \in Pairs /\ org[k] \in Nat
    BY <1>2, <1>4
  <2>2. pairs[k].rule = "section" => Len(pairs[k].body) \in Nat
    BY <2>1, PairIs
  <2>3. QED
    BY <2>1, <2>2 DEF End
<1>7. org \in [1..Len(pairs) -> 1..m+1] /\ Origins(lines, pairs, m + 1, org)
  BY <1>1, <1>2, <1>4, <1>5, <1>6, OriginsBlank
<1>8. ~Under(lines, pos + 1)
  BY <1>1, <1>2, UnderBlank, UnderNext
<1>9. GrammarInv'
  <2>1. \E o \in [1..Len(pairs') -> 1..pos'-1] : Origins(lines', pairs', pos' - 1, o)
    BY <1>1, <1>4, <1>7
  <2>2. QED
    BY <1>1, <1>8, <2>1 DEF GrammarInv, SpecInv
<1>10. QED
  BY <1>1, <1>3, <1>9, BeforeLoop DEF SpecInv

LEMMA GrammarEndStep == SpecInv /\ (GrammarFails \/ GrammarDone) => SpecInv'
<1>. SUFFICES ASSUME SpecInv, GrammarFails \/ GrammarDone PROVE SpecInv'
  OBVIOUS
<1>1. /\ status = "grammar" /\ lines' = lines /\ pos' = pos /\ pairs' = pairs
      /\ n' = n /\ UNCHANGED spec
      /\ \/ status' = "error"
         \/ status' = "pairs" /\ pos > Len(lines)
  BY DEF GrammarFails, GrammarDone
<1>2. TypeOK'
  BY <1>1 DEF SpecInv, TypeOK, spec
<1>3. pos \in 1..Len(lines)+1 /\ Len(lines) \in Nat
  BY DEF SpecInv, TypeOK
<1>4. GrammarInv'
  BY <1>1, <1>3 DEF SpecInv, GrammarInv
<1>5. QED
  BY <1>1, <1>2, <1>4, BeforeLoop DEF SpecInv

-----------------------------------------------------------------------------
(* The lines of a section. *)

LEMMA WithoutCommentsAppend ==
    /\ WithoutComments(<<>>) = <<>>
    /\ \A b \in Seq(Lines), x \in Lines :
         /\ WithoutComments(b) \in Seq(Lines)
         /\ WithoutComments(Append(b, x)) =
              WithoutComments(b) \o IF IsText(x) THEN <<x>> ELSE <<>>
<1>. DEFINE E(y) == IF IsText(y) THEN <<y>> ELSE <<>>
<1>1. WithoutComments(<<>>) = <<>>
  <2>1. [i \in DOMAIN <<>> |-> E(<<>>[i])] = <<>>
    OBVIOUS
  <2>2. QED
    BY <2>1, FlattenEmpty DEF WithoutComments
<1>2. ASSUME NEW b \in Seq(Lines), NEW x \in Lines
      PROVE  /\ WithoutComments(b) \in Seq(Lines)
             /\ WithoutComments(Append(b, x)) = WithoutComments(b) \o E(x)
  <2>. DEFINE c == Append(b, x)
              m == Len(b)
              a == [i \in 1..m+1 |-> E(c[i])]
  <2>1. /\ c \in Seq(Lines) /\ Len(c) = m + 1 /\ m \in Nat /\ c[m+1] = x
        /\ DOMAIN c = 1..m+1 /\ DOMAIN b = 1..m
        /\ \A i \in 1..m : c[i] = b[i] /\ i \in 1..m+1
        /\ \A i \in 1..m+1 : c[i] \in Lines
    BY AppendProperties
  <2>2. \A y \in Lines : E(y) \in Seq(Lines)
    OBVIOUS
  <2>. HIDE DEF c, m, E
  <2>3. a \in [1..m+1 -> Seq(Lines)] /\ a[m+1] = E(x)
    BY <2>1, <2>2
  <2>4. [k \in 1..m |-> a[k]] = [i \in 1..m |-> E(b[i])]
    BY <2>1
  <2>. HIDE DEF a
  <2>5. /\ FlattenSeq([k \in 1..m |-> a[k]]) \in Seq(Lines)
        /\ FlattenSeq(a) = FlattenSeq([k \in 1..m |-> a[k]]) \o a[m+1]
    BY <2>1, <2>3, FlattenStep
  <2>6. WithoutComments(b) = FlattenSeq([i \in 1..m |-> E(b[i])])
    BY <2>1 DEF WithoutComments, E
  <2>7. WithoutComments(c) = FlattenSeq(a)
    BY <2>1 DEF WithoutComments, E, a
  <2>8. QED
    BY <2>3, <2>4, <2>5, <2>6, <2>7 DEF c
<1>3. QED
  BY <1>1, <1>2

LEMMA JoinedAppend ==
    /\ Joined(<<>>) = <<>>
    /\ \A b \in Seq(Lines), x \in Lines :
         /\ Joined(b) \in Seq(Lines \cup {NewLine})
         /\ Joined(Append(b, x)) =
              Joined(b) \o IF b = <<>> THEN <<x>> ELSE <<NewLine, x>>
<1>. DEFINE E(i, y) == IF i = 1 THEN <<y>> ELSE <<NewLine, y>>
            T == Lines \cup {NewLine}
<1>1. Joined(<<>>) = <<>>
  <2>1. [i \in DOMAIN <<>> |-> E(i, <<>>[i])] = <<>>
    OBVIOUS
  <2>2. QED
    BY <2>1, FlattenEmpty DEF Joined
<1>2. ASSUME NEW b \in Seq(Lines), NEW x \in Lines
      PROVE  /\ Joined(b) \in Seq(T)
             /\ Joined(Append(b, x)) = Joined(b) \o IF b = <<>> THEN <<x>>
                                                    ELSE <<NewLine, x>>
  <2>. DEFINE c == Append(b, x)
              m == Len(b)
              a == [i \in 1..m+1 |-> E(i, c[i])]
  <2>1. /\ c \in Seq(Lines) /\ Len(c) = m + 1 /\ m \in Nat /\ c[m+1] = x
        /\ DOMAIN c = 1..m+1 /\ DOMAIN b = 1..m
        /\ \A i \in 1..m : c[i] = b[i] /\ i \in 1..m+1
        /\ \A i \in 1..m+1 : c[i] \in Lines
        /\ b = <<>> <=> m + 1 = 1
    BY AppendProperties
  <2>2. ASSUME NEW i \in Nat, NEW y \in Lines PROVE E(i, y) \in Seq(T)
    <3>1. y \in T /\ NewLine \in T
      OBVIOUS
    <3>. HIDE DEF T
    <3>2. <<y>> \in Seq(T) /\ <<NewLine, y>> \in Seq(T)
      BY <3>1
    <3>3. QED
      BY <3>2
  <2>3. E(m+1, x) = IF b = <<>> THEN <<x>> ELSE <<NewLine, x>>
    BY <2>1
  <2>. HIDE DEF c, m, E, T
  <2>4. a \in [1..m+1 -> Seq(T)] /\ a[m+1] = E(m+1, x)
    BY <2>1, <2>2
  <2>5. [k \in 1..m |-> a[k]] = [i \in 1..m |-> E(i, b[i])]
    BY <2>1
  <2>. HIDE DEF a
  <2>6. /\ FlattenSeq([k \in 1..m |-> a[k]]) \in Seq(T)
        /\ FlattenSeq(a) = FlattenSeq([k \in 1..m |-> a[k]]) \o a[m+1]
    BY <2>1, <2>4, FlattenStep
  <2>7. Joined(b) = FlattenSeq([i \in 1..m |-> E(i, b[i])])
    BY <2>1 DEF Joined, E
  <2>8. Joined(c) = FlattenSeq(a)
    BY <2>1 DEF Joined, E, a
  <2>9. QED
    BY <2>3, <2>4, <2>5, <2>6, <2>7, <2>8 DEF c
<1>3. QED
  BY <1>1, <1>2

(* A section without text is one of nothing but comments. *)
LEMMA TextsOfSection ==
    \A b \in Seq(Lines) : /\ WithoutComments(b) \in Seq(Lines)
                          /\ WithoutComments(b) = <<>> <=> ~HasText(b)
<1>. DEFINE W(b) == WithoutComments(b)
            I == {b \in Seq(Lines) : W(b) \in Seq(Lines) /\ (W(b) = <<>> <=> ~HasText(b))}
<1>1. <<>> \in I
  <2>1. W(<<>>) = <<>> /\ <<>> \in Seq(Lines)
    BY WithoutCommentsAppend
  <2>2. ~HasText(<<>>)
    BY DEF HasText
  <2>. HIDE DEF W
  <2>3. QED
    BY <2>1, <2>2
<1>2. ASSUME NEW b \in Seq(Lines), NEW x \in Lines, b \in I PROVE Append(b, x) \in I
  <2>. DEFINE c == Append(b, x)
  <2>1. W(c) = W(b) \o IF IsText(x) THEN <<x>> ELSE <<>>
    BY WithoutCommentsAppend
  <2>2. W(b) \in Seq(Lines) /\ (W(b) = <<>> <=> ~HasText(b))
    BY <1>2
  <2>3. /\ c \in Seq(Lines) /\ Len(c) = Len(b) + 1 /\ c[Len(b) + 1] = x
        /\ \A i \in 1..Len(b) : c[i] = b[i] /\ i \in 1..Len(c)
        /\ \A i \in 1..Len(c) : i \in 1..Len(b) \/ i = Len(b) + 1
        /\ Len(b) + 1 \in 1..Len(c)
    BY AppendProperties
  <2>. HIDE DEF c, W
  <2>4. HasText(c) <=> HasText(b) \/ IsText(x)
    BY <2>3 DEF HasText
  <2>5. CASE IsText(x)
    <3>1. W(c) = W(b) \o <<x>>
      BY <2>1, <2>5
    <3>2. W(c) \in Seq(Lines) /\ W(c) # <<>>
      BY <2>2, <3>1
    <3>3. QED
      BY <2>3, <2>4, <2>5, <3>2 DEF c
  <2>6. CASE ~IsText(x)
    <3>1. W(c) = W(b) \o <<>>
      BY <2>1, <2>6
    <3>2. W(c) = W(b)
      BY <2>2, <3>1, ConcatEmptySeq
    <3>3. QED
      BY <2>2, <2>3, <2>4, <2>6, <3>2 DEF c
  <2>7. QED
    BY <2>5, <2>6
<1>. HIDE DEF I
<1>3. \A b \in Seq(Lines) : b \in I
  BY <1>1, <1>2, SeqInduction
<1>4. QED
  BY <1>3 DEF I

LEMMA JoinedType ==
    ASSUME NEW b \in Seq(Lines)
    PROVE  Joined(b) \in Seq(Lines \cup {NewLine})
<1>1. CASE b = <<>>
  <2>1. Joined(b) = <<>>
    BY <1>1, JoinedAppend
  <2>2. QED
    BY <2>1
<1>2. CASE b # <<>>
  <2>1. b[1] \in Lines
    BY <1>2
  <2>2. QED
    BY <2>1, JoinedAppend
<1>3. QED
  BY <1>1, <1>2

LEMMA ShareType ==
    ASSUME NEW s, NEW p \in Pairs
    PROVE  /\ Share(s, p) \in Seq(Lines \cup {NewLine})
           /\ s = "files" => Share(s, p) \in Seq(Lines)
<1>1. CASE p.rule # "section" \/ p.name # s
  <2>1. Share(s, p) = <<>>
    BY <1>1 DEF Share
  <2>2. QED
    BY <2>1
<1>2. CASE ~(p.rule # "section" \/ p.name # s)
  <2>. DEFINE w == WithoutComments(p.body)
  <2>1. p.body \in Seq(Lines)
    BY <1>2, PairIs
  <2>2. w \in Seq(Lines)
    BY <2>1, TextsOfSection
  <2>3. w \in Seq(Lines \cup {NewLine})
    BY <2>2, SeqMonotonic
  <2>4. Joined(w) \in Seq(Lines \cup {NewLine})
    BY <2>2, JoinedType
  <2>5. Share(s, p) = IF s = "files" THEN w ELSE Joined(w)
    BY <1>2 DEF Share
  <2>6. QED
    BY <2>2, <2>3, <2>4, <2>5
<1>3. QED
  BY <1>1, <1>2

LEMMA SharesStep ==
    ASSUME NEW s, NEW ps \in Seq(Pairs), NEW m \in Nat, m + 1 <= Len(ps)
    PROVE  Shares(s, ps, m + 1) = Shares(s, ps, m) \o Share(s, ps[m+1])
<1>. DEFINE T == Lines \cup {NewLine}
            a == [k \in 1..m+1 |-> Share(s, ps[k])]
<1>1. \A k \in 1..m+1 : ps[k] \in Pairs
  OBVIOUS
<1>2. a \in [1..m+1 -> Seq(T)]
  BY <1>1, ShareType
<1>3. /\ a[m+1] = Share(s, ps[m+1])
      /\ [k \in 1..m |-> a[k]] = [k \in 1..m |-> Share(s, ps[k])]
  OBVIOUS
<1>4. FlattenSeq(a) = FlattenSeq([k \in 1..m |-> a[k]]) \o a[m+1]
  <2>. HIDE DEF a, T
  <2>1. QED
    BY <1>2, FlattenStep
<1>5. QED
  BY <1>3, <1>4 DEF Shares

LEMMA SetsStep ==
    ASSUME NEW ps, NEW v, NEW m \in Nat
    PROVE  Sets(ps, v, m + 1) =
             IF ps[m+1].rule = "variable" /\ ps[m+1].name = v
               THEN Sets(ps, v, m) \cup {m + 1} ELSE Sets(ps, v, m)
<1>1. \A k : k \in 1..m+1 <=> k \in 1..m \/ k = m + 1
  OBVIOUS
<1>2. QED
  BY <1>1 DEF Sets

-----------------------------------------------------------------------------
(* The loop over the pairs. *)

LEMMA AtPairIs ==
    ASSUME SpecInv, AtPair
    PROVE  /\ pairs \in Seq(Pairs) /\ Len(pairs) \in Nat /\ n \in 1..Len(pairs)
           /\ n \in Nat /\ n - 1 \in Nat /\ (n - 1) + 1 = n
           /\ Pair \in Pairs /\ Pair = pairs[n] /\ status = "pairs"
           /\ (Pair.rule = "section" => Pair.body \in Seq(Lines))
<1>1. /\ pairs \in Seq(Pairs) /\ Len(pairs) \in Nat /\ n \in 1..Len(pairs)
      /\ status = "pairs"
  BY DEF SpecInv, TypeOK, AtPair
<1>2. Pair = pairs[n] /\ pairs[n] \in Pairs
  BY <1>1 DEF Pair
<1>3. QED
  BY <1>1, <1>2, PairIs

LEMMA SharesNext ==
    ASSUME SpecInv, AtPair
    PROVE  \A s : Shares(s, pairs, n) = Shares(s, pairs, n - 1) \o Share(s, Pair)
<1>. DEFINE m == n - 1
<1>1. m \in Nat /\ m + 1 = n /\ m + 1 <= Len(pairs) /\ pairs \in Seq(Pairs)
      /\ Pair = pairs[m+1]
  BY AtPairIs
<1>. HIDE DEF m
<1>2. \A s : Shares(s, pairs, m + 1) = Shares(s, pairs, m) \o Share(s, pairs[m+1])
  BY <1>1, SharesStep
<1>3. QED
  BY <1>1, <1>2 DEF m

LEMMA SetsNext ==
    ASSUME SpecInv, AtPair
    PROVE  \A v : Sets(pairs, v, n) = IF Pair.rule = "variable" /\ Pair.name = v
                                        THEN Sets(pairs, v, n - 1) \cup {n}
                                        ELSE Sets(pairs, v, n - 1)
<1>. DEFINE m == n - 1
<1>1. m \in Nat /\ m + 1 = n /\ Pair = pairs[m+1]
  BY AtPairIs
<1>. HIDE DEF m
<1>2. \A v : Sets(pairs, v, m + 1) =
             IF pairs[m+1].rule = "variable" /\ pairs[m+1].name = v
               THEN Sets(pairs, v, m) \cup {m + 1} ELSE Sets(pairs, v, m)
  BY <1>1, SetsStep
<1>3. QED
  BY <1>1, <1>2 DEF m

LEMMA AfterPair ==
    ASSUME SpecInv, AtPair, UNCHANGED <<lines, pos, pairs, status>>, n' = n + 1,
           Passed(Pair), TypeOK', VariableInv', ContentInv'
    PROVE  SpecInv'
<1>1. /\ n \in Nat /\ n' - 1 = n /\ Pair = pairs[n] /\ status = "pairs"
      /\ n \in 1..Len(pairs)
  BY AtPairIs
<1>2. GrammarInv'
  BY <1>1 DEF SpecInv, GrammarInv
<1>3. \A k \in 1..n : k \in 1..n-1 \/ k = n
  BY <1>1
<1>4. LoopInv'
  BY <1>1, <1>3 DEF SpecInv, LoopInv
<1>5. QED
  BY <1>2, <1>4 DEF SpecInv

LEMMA SameVariables ==
    ASSUME SpecInv, AtPair, Pair.rule # "variable", n' = n + 1,
           UNCHANGED <<pairs, fields, variables>>
    PROVE  VariableInv'
<1>1. n' - 1 = n
  BY AtPairIs
<1>2. \A v : Sets(pairs, v, n) = Sets(pairs, v, n - 1)
  BY SetsNext
<1>3. QED
  BY <1>1, <1>2 DEF SpecInv, VariableInv

(* What a section s holds stays as it is if the pair is not its own. *)
LEMMA SameContent ==
    ASSUME SpecInv, AtPair, NEW s \in Sections,
           Pair.rule # "section" \/ Pair.name # s
    PROVE  Shares(s, pairs, n) = IF s = "files" THEN files ELSE content[s]
<1>. DEFINE c == IF s = "files" THEN files ELSE content[s]
<1>1. Shares(s, pairs, n - 1) = c
  BY DEF SpecInv, ContentInv, Sections
<1>2. c \in Seq(Lines) \/ c \in Seq(Lines \cup {NewLine})
  BY DEF SpecInv, TypeOK, Sections
<1>3. Shares(s, pairs, n) = Shares(s, pairs, n - 1) \o Share(s, Pair)
  BY SharesNext
<1>4. Share(s, Pair) = <<>>
  BY DEF Share
<1>. HIDE DEF c
<1>5. c \o <<>> = c
  BY <1>2, ConcatEmptySeq
<1>6. QED
  BY <1>1, <1>3, <1>4, <1>5 DEF c

LEMMA SetVariableStep == SpecInv /\ SetVariable => SpecInv'
<1>. SUFFICES ASSUME SpecInv, SetVariable PROVE SpecInv'
  OBVIOUS
<1>. DEFINE v0 == Pair.name
<1>1. /\ AtPair /\ Pair.rule = "variable" /\ n' = n + 1
      /\ UNCHANGED <<lines, pos, pairs, content, files, status>>
      /\ IF v0 \in KnownVariables
           THEN /\ fields' = [fields EXCEPT ![v0] = Pair.text]
                /\ UNCHANGED variables
           ELSE /\ variables' = [v \in DOMAIN variables \cup {v0} |->
                                   IF v = v0 THEN Pair.text ELSE variables[v]]
                /\ UNCHANGED fields
  BY DEF SetVariable
<1>2. /\ Pair \in Pairs /\ Pair = pairs[n] /\ n \in Nat /\ n \in 1..Len(pairs)
      /\ n' - 1 = n /\ Len(pairs) \in Nat
  BY <1>1, AtPairIs
<1>3. v0 \in VariableNames /\ Pair.text \in Texts
  BY <1>1, <1>2, PairIs
<1>4. \A v : Sets(pairs, v, n) = IF v0 = v THEN Sets(pairs, v, n - 1) \cup {n}
                                 ELSE Sets(pairs, v, n - 1)
  BY <1>1, SetsNext
<1>5. \A v : \A k \in Sets(pairs, v, n - 1) : k \in Nat /\ k < n
  BY <1>2 DEF Sets
<1>6. TypeOK /\ VariableInv /\ fields \in [KnownVariables -> Texts \cup {NoText}]
  BY DEF SpecInv, TypeOK
<1>7. Passed(Pair)
  BY <1>1 DEF Passed
<1>. HIDE DEF v0
<1>8. \E D \in SUBSET (VariableNames \ KnownVariables) : variables' \in [D -> Texts]
  <2>1. PICK D \in SUBSET (VariableNames \ KnownVariables) : variables \in [D -> Texts]
    BY <1>6 DEF TypeOK
  <2>2. CASE v0 \in KnownVariables
    BY <1>1, <2>1, <2>2
  <2>3. CASE v0 \notin KnownVariables
    <3>. DEFINE C == D \cup {v0}
    <3>1. C \in SUBSET (VariableNames \ KnownVariables)
      BY <1>3, <2>3
    <3>2. variables' \in [C -> Texts]
      BY <1>1, <1>3, <2>1, <2>3
    <3>3. QED
      BY <3>1, <3>2
  <2>4. QED
    BY <2>2, <2>3
<1>9. fields' \in [KnownVariables -> Texts \cup {NoText}]
  <2>1. CASE v0 \in KnownVariables
    BY <1>1, <1>3, <1>6, <2>1
  <2>2. CASE v0 \notin KnownVariables
    BY <1>1, <1>6, <2>2
  <2>3. QED
    BY <2>1, <2>2
<1>10. TypeOK'
  BY <1>1, <1>2, <1>6, <1>8, <1>9 DEF TypeOK
<1>11. ASSUME NEW v \in KnownVariables
       PROVE  LET S == Sets(pairs, v, n) IN
              /\ S = {} => fields'[v] = NoText
              /\ \A k \in S : (\A l \in S : l <= k) => fields'[v] = pairs[k].text
  <2>1. CASE v = v0
    <3>1. n \in Sets(pairs, v, n) /\ fields'[v] = pairs[n].text
      BY <1>1, <1>2, <1>4, <1>6, <2>1
    <3>2. ASSUME NEW k \in Sets(pairs, v, n), n <= k PROVE k = n
      BY <1>2, <1>4, <1>5, <3>2
    <3>3. QED
      BY <3>1, <3>2
  <2>2. CASE v # v0
    <3>1. Sets(pairs, v, n) = Sets(pairs, v, n - 1) /\ fields'[v] = fields[v]
      BY <1>1, <1>4, <1>6, <2>2
    <3>2. QED
      BY <1>6, <3>1 DEF VariableInv
  <2>3. QED
    BY <2>1, <2>2
<1>12. ASSUME NEW v \in VariableNames \ KnownVariables
       PROVE  LET S == Sets(pairs, v, n) IN
              /\ v \in DOMAIN variables' <=> S # {}
              /\ \A k \in S : (\A l \in S : l <= k) => variables'[v] = pairs[k].text
  <2>1. CASE v = v0
    <3>1. /\ n \in Sets(pairs, v, n) /\ variables'[v] = pairs[n].text
          /\ v \in DOMAIN variables'
      BY <1>1, <1>2, <1>4, <2>1
    <3>2. ASSUME NEW k \in Sets(pairs, v, n), n <= k PROVE k = n
      BY <1>2, <1>4, <1>5, <3>2
    <3>3. QED
      BY <3>1, <3>2
  <2>2. CASE v # v0
    <3>1. Sets(pairs, v, n) = Sets(pairs, v, n - 1)
      BY <1>4, <2>2
    <3>2. v \in DOMAIN variables' <=> v \in DOMAIN variables
      BY <1>1, <2>2
    <3>3. v \in DOMAIN variables => variables'[v] = variables[v]
      BY <1>1, <2>2
    <3>4. QED
      BY <1>6, <3>1, <3>2, <3>3 DEF VariableInv
  <2>3. QED
    BY <2>1, <2>2
<1>13. VariableInv'
  BY <1>1, <1>2, <1>11, <1>12 DEF VariableInv
<1>14. ContentInv'
  <2>1. \A s \in Sections : Shares(s, pairs, n) = IF s = "files" THEN files ELSE content[s]
    BY <1>1, SameContent
  <2>2. "files" \in Sections /\ \A s \in TextSections : s \in Sections /\ s # "files"
    BY DEF Sections, TextSections
  <2>3. QED
    BY <1>1, <1>2, <2>1, <2>2 DEF ContentInv
<1>15. QED
  BY <1>1, <1>7, <1>10, <1>13, <1>14, AfterPair

LEMMA AddTextSectionStep == SpecInv /\ AddTextSection => SpecInv'
<1>. SUFFICES ASSUME SpecInv, AddTextSection PROVE SpecInv'
  OBVIOUS
<1>. DEFINE t == Pair.name
            x == Joined(SectionTexts)
<1>1. /\ AtPair /\ Pair.rule = "section" /\ t \in TextSections /\ n' = n + 1
      /\ UNCHANGED <<lines, pos, pairs, fields, variables, files, status>>
      /\ content' = [content EXCEPT ![t] = @ \o x]
  BY DEF AddTextSection
<1>2. n' - 1 = n /\ n \in 1..Len(pairs) /\ Pair.body \in Seq(Lines)
  BY <1>1, AtPairIs
<1>3. t \in Sections /\ t # "files"
  BY <1>1 DEF Sections, TextSections
<1>4. Share(t, Pair) = x
  BY <1>1, <1>3 DEF Share, SectionTexts
<1>5. x \in Seq(Lines \cup {NewLine})
  BY <1>2, TextsOfSection, JoinedType DEF SectionTexts
<1>6. Passed(Pair)
  BY <1>1, <1>3 DEF Passed
<1>7. content \in [TextSections -> Seq(Lines \cup {NewLine})]
  BY DEF SpecInv, TypeOK
<1>8. Shares(t, pairs, n) = content[t] \o x
  <2>1. Shares(t, pairs, n) = Shares(t, pairs, n - 1) \o Share(t, Pair)
    BY <1>1, SharesNext
  <2>2. Shares(t, pairs, n - 1) = content[t]
    BY <1>1 DEF SpecInv, ContentInv
  <2>3. QED
    BY <1>4, <2>1, <2>2
<1>9. /\ \A s \in TextSections \ {t} : Shares(s, pairs, n) = content[s]
      /\ Shares("files", pairs, n) = files
  <2>1. "files" \in Sections /\ \A s \in TextSections : s \in Sections /\ s # "files"
    BY DEF Sections, TextSections
  <2>2. \A s \in Sections : t # s =>
           Shares(s, pairs, n) = IF s = "files" THEN files ELSE content[s]
    BY <1>1, SameContent
  <2>3. QED
    BY <1>3, <2>1, <2>2
<1>. HIDE DEF t, x
<1>10. content' \in [TextSections -> Seq(Lines \cup {NewLine})]
  <2>1. content[t] \o x \in Seq(Lines \cup {NewLine})
    BY <1>1, <1>5, <1>7, ConcatProperties
  <2>2. QED
    BY <1>1, <1>7, <2>1
<1>11. TypeOK'
  BY <1>1, <1>2, <1>10 DEF SpecInv, TypeOK
<1>12. VariableInv'
  BY <1>1, SameVariables
<1>13. ContentInv'
  <2>1. ASSUME NEW s \in TextSections PROVE content'[s] = Shares(s, pairs, n)
    <3>1. content'[s] = IF s = t THEN content[t] \o x ELSE content[s]
      BY <1>1, <1>7
    <3>2. QED
      BY <1>8, <1>9, <3>1
  <2>2. QED
    BY <1>1, <1>2, <1>9, <2>1 DEF ContentInv
<1>14. QED
  BY <1>1, <1>6, <1>11, <1>12, <1>13, AfterPair

LEMMA AddFilesStep == SpecInv /\ AddFiles => SpecInv'
<1>. SUFFICES ASSUME SpecInv, AddFiles PROVE SpecInv'
  OBVIOUS
<1>. DEFINE x == SectionTexts
<1>1. /\ AtPair /\ Pair.rule = "section" /\ Pair.name = "files" /\ n' = n + 1
      /\ UNCHANGED <<lines, pos, pairs, fields, variables, content, status>>
      /\ files' = files \o x
  BY DEF AddFiles
<1>2. n' - 1 = n /\ n \in 1..Len(pairs) /\ Pair.body \in Seq(Lines)
  BY <1>1, AtPairIs
<1>3. Share("files", Pair) = x
  BY <1>1 DEF Share, SectionTexts
<1>4. x \in Seq(Lines)
  BY <1>2, TextsOfSection DEF SectionTexts
<1>5. Passed(Pair)
  BY <1>1 DEF Passed, Sections
<1>6. Shares("files", pairs, n) = files \o x
  <2>1. Shares("files", pairs, n) = Shares("files", pairs, n - 1) \o Share("files", Pair)
    BY <1>1, SharesNext
  <2>2. Shares("files", pairs, n - 1) = files
    BY DEF SpecInv, ContentInv
  <2>3. QED
    BY <1>3, <2>1, <2>2
<1>7. \A s \in TextSections : Shares(s, pairs, n) = content[s]
  <2>1. \A s \in TextSections : s \in Sections /\ s # "files"
    BY DEF Sections, TextSections
  <2>2. \A s \in Sections : Pair.name # s =>
           Shares(s, pairs, n) = IF s = "files" THEN files ELSE content[s]
    BY <1>1, SameContent
  <2>3. QED
    BY <1>1, <2>1, <2>2
<1>. HIDE DEF x
<1>8. files' \in Seq(Lines)
  BY <1>1, <1>4, ConcatProperties DEF SpecInv, TypeOK
<1>9. TypeOK'
  BY <1>1, <1>2, <1>8 DEF SpecInv, TypeOK
<1>10. VariableInv'
  BY <1>1, SameVariables
<1>11. ContentInv'
  BY <1>1, <1>2, <1>6, <1>7 DEF ContentInv
<1>12. QED
  BY <1>1, <1>5, <1>9, <1>10, <1>11, AfterPair

LEMMA SkipCommentsStep == SpecInv /\ SkipComments => SpecInv'
<1>. SUFFICES ASSUME SpecInv, SkipComments PROVE SpecInv'
  OBVIOUS
<1>1. /\ AtPair /\ Pair.rule = "section" /\ Pair.name \notin Sections
      /\ SectionTexts = <<>> /\ n' = n + 1
      /\ UNCHANGED <<lines, pos, pairs, fields, variables, content, files, status>>
  BY DEF SkipComments, spec
<1>2. n' - 1 = n /\ n \in 1..Len(pairs) /\ Pair.body \in Seq(Lines)
  BY <1>1, AtPairIs
<1>3. ~HasText(Pair.body)
  BY <1>1, <1>2, TextsOfSection DEF SectionTexts
<1>4. Passed(Pair)
  BY <1>1, <1>3 DEF Passed
<1>5. TypeOK'
  BY <1>1, <1>2 DEF SpecInv, TypeOK
<1>6. VariableInv'
  BY <1>1, SameVariables
<1>7. ContentInv'
  <2>1. "files" \in Sections /\ \A s \in TextSections : s \in Sections /\ s # "files"
    BY DEF Sections, TextSections
  <2>2. \A s \in Sections : Pair.name # s =>
           Shares(s, pairs, n) = IF s = "files" THEN files ELSE content[s]
    BY <1>1, SameContent
  <2>3. QED
    BY <1>1, <1>2, <2>1, <2>2 DEF ContentInv
<1>8. QED
  BY <1>1, <1>4, <1>5, <1>6, <1>7, AfterPair

LEMMA PanicsStep == SpecInv /\ Panics => SpecInv'
<1>. SUFFICES ASSUME SpecInv, Panics PROVE SpecInv'
  OBVIOUS
<1>1. /\ AtPair /\ status' = "panic"
      /\ UNCHANGED <<lines, pos, pairs, n, fields, variables, content, files>>
      /\ \/ Pair.rule \in {"empty_variable", "multiline_variable"}
         \/ /\ Pair.rule = "section" /\ Pair.name \notin Sections
            /\ SectionTexts # <<>>
  BY DEF Panics, spec
<1>2. /\ Pair = pairs[n] /\ n \in 1..Len(pairs) /\ status = "pairs"
      /\ Pair.rule = "section" => Pair.body \in Seq(Lines)
  BY <1>1, AtPairIs
<1>3. ~Passed(Pair)
  <2>1. Pair.rule = "section" /\ SectionTexts # <<>> => HasText(Pair.body)
    BY <1>2, TextsOfSection DEF SectionTexts
  <2>2. QED
    BY <1>1, <2>1 DEF Passed
<1>4. TypeOK' /\ VariableInv' /\ ContentInv'
  BY <1>1 DEF SpecInv, TypeOK, VariableInv, ContentInv
<1>5. GrammarInv'
  BY <1>1, <1>2 DEF SpecInv, GrammarInv
<1>6. LoopInv'
  BY <1>1, <1>2, <1>3 DEF SpecInv, LoopInv
<1>7. QED
  BY <1>4, <1>5, <1>6 DEF SpecInv

LEMMA ReturnStep == SpecInv /\ Return => SpecInv'
<1>. SUFFICES ASSUME SpecInv, Return PROVE SpecInv'
  OBVIOUS
<1>1. /\ status = "pairs" /\ status' = "ok" /\ n > Len(pairs)
      /\ UNCHANGED <<lines, pos, pairs, n, fields, variables, content, files>>
  BY DEF Return, spec
<1>2. n = Len(pairs) + 1
  <2>1. n \in 1..Len(pairs)+1 /\ Len(pairs) \in Nat
    BY DEF SpecInv, TypeOK
  <2>2. QED
    BY <1>1, <2>1
<1>3. TypeOK' /\ VariableInv' /\ ContentInv' /\ LoopInv'
  BY <1>1 DEF SpecInv, TypeOK, VariableInv, ContentInv, LoopInv
<1>4. GrammarInv'
  BY <1>1, <1>2 DEF SpecInv, GrammarInv
<1>5. QED
  BY <1>3, <1>4 DEF SpecInv

LEMMA SpecInvIsInductive == SpecInv /\ [Next]_vars => SpecInv'
<1>. SUFFICES ASSUME SpecInv, [Next]_vars PROVE SpecInv'
  OBVIOUS
<1>1. CASE UNCHANGED vars
  BY <1>1 DEF vars, SpecInv, TypeOK, GrammarInv, LoopInv, VariableInv, ContentInv
<1>2. CASE Next
  BY <1>2, TakeVariableStep, TakeMultilineStep, TakeEmptyStep, TakeSectionStep,
     SkipBlankStep, GrammarEndStep, SetVariableStep, AddTextSectionStep,
     AddFilesStep, SkipCommentsStep, PanicsStep, ReturnStep DEF Next
<1>3. QED
  BY <1>1, <1>2

LEMMA SpecInvariant == Spec => []SpecInv
<1>1. QED
  BY SpecInvHoldsInitially, SpecInvIsInductive, PTL DEF Spec

-----------------------------------------------------------------------------
(* The pairs and the layout. *)

LEMMA LayoutIs ==
    ASSUME NEW i \in Nat
    PROVE  /\ \A h : HeadedBy(h, i) <=> Headed(lines, h, i)
           /\ TopLevel(i) <=> ~Under(lines, i)
<1>1. \A h : HeadedBy(h, i) <=> Headed(lines, h, i)
  BY DEF HeadedBy, Headed, Paragraph, Run, IsBlank
<1>2. QED
  BY <1>1, UnderIsHeaded DEF TopLevel

LEMMA BodyHeaded ==
    ASSUME NEW f, NEW i \in Nat \ {0}, NEW p \in Pairs, Makes(f, i, p),
           p.rule = "section", NEW j \in 1..Len(p.body)
    PROVE  Headed(f, i, i + j)
<1>1. p.body \in Seq(Lines) /\ Len(p.body) \in Nat /\ j \in Nat
  BY PairIs
<1>2. ASSUME NEW k \in i+1..i+j PROVE f[k].kind # "blank"
  <2>1. k - i \in 1..Len(p.body) /\ i + (k - i) = k
    BY <1>1
  <2>2. QED
    BY <2>1 DEF Makes
<1>3. f[i].kind = "header" /\ ~Under(f, i) /\ i < i + j /\ i + j \in Nat
  BY <1>1 DEF Makes
<1>4. QED
  BY <1>2, <1>3, HeadedBehind

(* Without an empty variable, every line is blank, the origin of a pair or *)
(* in the body of the section it is in by the layout.                      *)
LEMMA Coverage ==
    ASSUME NEW f \in Seq(Lines), NEW ps \in Seq(Pairs),
           NEW org \in [1..Len(ps) -> 1..Len(f)],
           Origins(f, ps, Len(f), org),
           \A k \in 1..Len(ps) : ps[k].rule \in {"variable", "section"},
           NEW i \in 1..Len(f)
    PROVE  /\ ~Under(f, i) /\ f[i].kind # "blank" =>
                \E k \in 1..Len(ps) : org[k] = i
           /\ Under(f, i) =>
                \E k \in 1..Len(ps) :
                    /\ ps[k].rule = "section" /\ Headed(f, org[k], i)
                    /\ i - org[k] \in 1..Len(ps[k].body)
<1>1. Under(f, i) => f[i].kind # "blank"
  BY UnderBlank
<1>2. ASSUME f[i].kind # "blank"
      PROVE  \E k \in 1..Len(ps) : org[k] <= i /\ i <= End(org[k], ps[k])
  <2>1. \E k \in 1..Len(ps) : \/ ps[k].rule = "multiline_variable"
                              \/ org[k] <= i /\ i <= End(org[k], ps[k])
    BY <1>2 DEF Origins
  <2>2. \A k \in 1..Len(ps) : ps[k].rule # "multiline_variable"
    OBVIOUS
  <2>3. QED
    BY <2>1, <2>2
<1>3. ASSUME NEW k \in 1..Len(ps), org[k] <= i, i <= End(org[k], ps[k])
      PROVE  \/ org[k] = i /\ ~Under(f, i)
             \/ /\ ps[k].rule = "section" /\ Headed(f, org[k], i)
                /\ i - org[k] \in 1..Len(ps[k].body) /\ Under(f, i)
  <2>1. org[k] \in Nat \ {0} /\ ps[k] \in Pairs /\ Makes(f, org[k], ps[k])
    BY DEF Origins
  <2>2. CASE org[k] = i
    BY <2>1, <2>2 DEF Makes
  <2>3. CASE org[k] # i
    <3>1. ps[k].rule = "section" /\ i <= org[k] + Len(ps[k].body)
      BY <1>3, <2>1, <2>3 DEF End
    <3>2. Len(ps[k].body) \in Nat
      BY <2>1, <3>1, PairIs
    <3>. DEFINE j == i - org[k]
    <3>3. j \in 1..Len(ps[k].body) /\ org[k] + j = i
      BY <1>3, <2>1, <2>3, <3>1, <3>2
    <3>. HIDE DEF j
    <3>4. Headed(f, org[k], i)
      BY <2>1, <3>1, <3>3, BodyHeaded
    <3>5. Under(f, i)
      BY <1>3, <2>1, <3>4, UnderIsHeaded
    <3>6. QED
      BY <3>1, <3>3, <3>4, <3>5 DEF j
  <2>4. QED
    BY <2>2, <2>3
<1>4. ASSUME ~Under(f, i), f[i].kind # "blank"
      PROVE  \E k \in 1..Len(ps) : org[k] = i
  BY <1>2, <1>3, <1>4
<1>5. ASSUME Under(f, i)
      PROVE  \E k \in 1..Len(ps) : /\ ps[k].rule = "section" /\ Headed(f, org[k], i)
                                   /\ i - org[k] \in 1..Len(ps[k].body)
  BY <1>1, <1>2, <1>3, <1>5
<1>6. QED
  BY <1>4, <1>5

(* What is known once all pairs have been looked at. *)
LEMMA AllRead ==
    ASSUME SpecInv, status = "ok"
    PROVE  /\ lines \in Seq(Lines) /\ pairs \in Seq(Pairs)
           /\ Len(lines) \in Nat /\ Len(pairs) \in Nat /\ n - 1 = Len(pairs)
           /\ \A k \in 1..Len(pairs) : Passed(pairs[k])
           /\ \A k \in 1..Len(pairs) : pairs[k].rule \in {"variable", "section"}
           /\ \E org \in [1..Len(pairs) -> 1..Len(lines)] :
                 Origins(lines, pairs, Len(lines), org)
<1>1. /\ lines \in Seq(Lines) /\ pairs \in Seq(Pairs)
      /\ Len(lines) \in Nat /\ Len(pairs) \in Nat
  BY DEF SpecInv, TypeOK
<1>2. n - 1 = Len(pairs) /\ pos - 1 = Len(lines)
  BY <1>1 DEF SpecInv, GrammarInv
<1>3. \A k \in 1..Len(pairs) : Passed(pairs[k])
  BY <1>2 DEF SpecInv, LoopInv
<1>4. \A k \in 1..Len(pairs) : pairs[k].rule \in {"variable", "section"}
  BY <1>3 DEF Passed
<1>5. \E org \in [1..Len(pairs) -> 1..Len(lines)] :
         Origins(lines, pairs, Len(lines), org)
  BY <1>2 DEF SpecInv, GrammarInv
<1>6. QED
  BY <1>1, <1>2, <1>3, <1>4, <1>5

(***************************************************************************)
(* Every variable of the parser keeps its type, for any spec file, and no  *)
(* section is without lines.                                               *)
(***************************************************************************)
THEOREM SpecFileTypeCorrect == Spec => []TypeOK
<1>1. SpecInv => TypeOK
  BY DEF SpecInv
<1>2. QED
  BY <1>1, SpecInvariant, PTL

(***************************************************************************)
(* Whatever stands in a spec file that parse accepts, a variable has the   *)
(* last text that is given to it outside of sections, and none else: the   *)
(* pairs come in the order of their lines, and only lines outside of       *)
(* sections make pairs of their own.                                       *)
(***************************************************************************)
THEOREM LastSettingTaken == Spec => []LastSettingWins
<1>1. SpecInv => LastSettingWins
  <2>. SUFFICES ASSUME SpecInv, status = "ok", NEW v \in VariableNames
                PROVE  LET S     == Settings(v)
                           final == lines[CHOOSE i \in S : \A j \in S : j <= i].text
                       IN  IF v \in KnownVariables
                             THEN fields[v] = IF S = {} THEN NoText ELSE final
                             ELSE /\ v \in DOMAIN variables <=> S # {}
                                  /\ S # {} => variables[v] = final
    BY DEF LastSettingWins
  <2>. DEFINE S == Settings(v)
              K == Sets(pairs, v, Len(pairs))
              last == CHOOSE i \in S : \A j \in S : j <= i
  <2>1. /\ lines \in Seq(Lines) /\ pairs \in Seq(Pairs)
        /\ Len(lines) \in Nat /\ Len(pairs) \in Nat /\ n - 1 = Len(pairs)
        /\ \A k \in 1..Len(pairs) : pairs[k].rule \in {"variable", "section"}
    BY AllRead
  <2>2. PICK org \in [1..Len(pairs) -> 1..Len(lines)] :
           Origins(lines, pairs, Len(lines), org)
    BY AllRead
  <2>3. ASSUME NEW k \in K
        PROVE  /\ k \in 1..Len(pairs) /\ org[k] \in S
               /\ lines[org[k]].text = pairs[k].text
    <3>1. k \in 1..Len(pairs) /\ pairs[k].rule = "variable" /\ pairs[k].name = v
      BY DEF Sets
    <3>2. org[k] \in 1..Len(lines) /\ Makes(lines, org[k], pairs[k])
      BY <2>2, <3>1 DEF Origins
    <3>3. /\ ~Under(lines, org[k]) /\ lines[org[k]].kind = "variable"
          /\ lines[org[k]].name = v /\ lines[org[k]].text = pairs[k].text
      BY <3>1, <3>2 DEF Makes
    <3>4. TopLevel(org[k])
      BY <2>1, <3>2, <3>3, LayoutIs
    <3>5. QED
      BY <2>1, <3>1, <3>2, <3>3, <3>4 DEF Settings
  <2>4. ASSUME NEW i \in S PROVE \E k \in K : org[k] = i
    <3>1. /\ i \in 1..Len(lines) /\ TopLevel(i) /\ lines[i].kind = "variable"
          /\ lines[i].name = v
      BY <2>1 DEF Settings
    <3>2. ~Under(lines, i)
      BY <2>1, <3>1, LayoutIs
    <3>3. PICK k \in 1..Len(pairs) : org[k] = i
      BY <2>1, <2>2, <3>1, <3>2, Coverage
    <3>4. Makes(lines, i, pairs[k]) /\ pairs[k].rule \in {"variable", "section"}
      BY <2>1, <2>2, <3>3 DEF Origins
    <3>5. pairs[k].rule = "variable" /\ pairs[k].name = v
      BY <3>1, <3>4 DEF Makes
    <3>6. QED
      BY <3>3, <3>5 DEF Sets
  <2>5. S = {} <=> K = {}
    BY <2>3, <2>4
  <2>6. S \in SUBSET (1..Len(lines))
    BY <2>1 DEF Settings
  <2>7. ASSUME S # {}
        PROVE  \E k \in K : (\A l \in K : l <= k) /\ lines[last].text = pairs[k].text
    <3>. HIDE DEF S, K
    <3>1. \E i \in S : \A j \in S : j <= i
      BY <2>1, <2>6, <2>7, LastIndex
    <3>2. last \in S /\ \A j \in S : j <= last
      BY <3>1
    <3>. HIDE DEF last
    <3>3. PICK k \in K : org[k] = last
      BY <2>4, <3>2
    <3>4. ASSUME NEW l \in K PROVE l <= k
      <4>1. /\ l \in 1..Len(pairs) /\ k \in 1..Len(pairs)
            /\ org[l] \in S /\ org[l] <= org[k]
        BY <2>3, <3>2, <3>3
      <4>2. ~(k < l)
        <5>. SUFFICES ASSUME k < l PROVE FALSE
          OBVIOUS
        <5>1. End(org[k], pairs[k]) < org[l]
          BY <2>2, <4>1 DEF Origins
        <5>2. pairs[k].rule = "variable"
          BY <3>3 DEF K, Sets
        <5>3. End(org[k], pairs[k]) = org[k]
          BY <5>2 DEF End
        <5>4. org[k] \in Nat /\ org[l] \in Nat
          BY <2>2, <4>1
        <5>5. QED
          BY <4>1, <5>1, <5>3, <5>4
      <4>3. QED
        BY <2>1, <4>1, <4>2
    <3>5. lines[last].text = pairs[k].text
      BY <2>3, <3>3
    <3>6. QED
      BY <3>4, <3>5
  <2>8. CASE v \in KnownVariables
    <3>1. /\ K = {} => fields[v] = NoText
          /\ \A k \in K : (\A l \in K : l <= k) => fields[v] = pairs[k].text
      BY <2>1, <2>8 DEF SpecInv, VariableInv
    <3>. HIDE DEF S, K, last
    <3>2. fields[v] = IF S = {} THEN NoText ELSE lines[last].text
      BY <2>5, <2>7, <3>1
    <3>3. QED
      BY <2>8, <3>2 DEF S, last
  <2>9. CASE v \notin KnownVariables
    <3>1. /\ v \in DOMAIN variables <=> K # {}
          /\ \A k \in K : (\A l \in K : l <= k) => variables[v] = pairs[k].text
      BY <2>1, <2>9 DEF SpecInv, VariableInv
    <3>. HIDE DEF S, K, last
    <3>2. /\ v \in DOMAIN variables <=> S # {}
          /\ S # {} => variables[v] = lines[last].text
      BY <2>5, <2>7, <3>1
    <3>3. QED
      BY <2>9, <3>2 DEF S, last
  <2>10. QED
    BY <2>8, <2>9
<1>2. QED
  BY <1>1, SpecInvariant, PTL

(***************************************************************************)
(* parse panics exactly for the files that the layout gives an empty       *)
(* variable or text in a section of an unknown name: it never returns a    *)
(* spec without them, and no line inside a known section makes it panic.   *)
(***************************************************************************)
THEOREM PanicsExplained == Spec => []PanicExplained
<1>. DEFINE Bad == \E i \in DOMAIN lines :
                     \/ lines[i].kind = "empty" /\ TopLevel(i)
                     \/ /\ IsText(lines[i])
                        /\ \E s \in SectionNames \ Sections : InSection(i, s)
<1>1. ASSUME SpecInv, status = "ok", Bad PROVE FALSE
  <2>1. /\ lines \in Seq(Lines) /\ pairs \in Seq(Pairs)
        /\ Len(lines) \in Nat /\ Len(pairs) \in Nat
        /\ \A k \in 1..Len(pairs) : Passed(pairs[k])
        /\ \A k \in 1..Len(pairs) : pairs[k].rule \in {"variable", "section"}
    BY <1>1, AllRead
  <2>2. PICK org \in [1..Len(pairs) -> 1..Len(lines)] :
           Origins(lines, pairs, Len(lines), org)
    BY <1>1, AllRead
  <2>3. PICK i \in 1..Len(lines) :
           \/ lines[i].kind = "empty" /\ TopLevel(i)
           \/ /\ IsText(lines[i])
              /\ \E s \in SectionNames \ Sections : InSection(i, s)
    BY <1>1, <2>1
  <2>4. CASE lines[i].kind = "empty" /\ TopLevel(i)
    <3>1. ~Under(lines, i)
      BY <2>1, <2>4, LayoutIs
    <3>2. PICK k \in 1..Len(pairs) : org[k] = i
      BY <2>1, <2>2, <2>4, <3>1, Coverage
    <3>3. Makes(lines, i, pairs[k]) /\ pairs[k].rule \in {"variable", "section"}
      BY <2>1, <2>2, <3>2 DEF Origins
    <3>4. QED
      BY <2>4, <3>3 DEF Makes
  <2>5. CASE /\ IsText(lines[i])
             /\ \E s \in SectionNames \ Sections : InSection(i, s)
    <3>1. PICK h \in 1..i : Headed(lines, h, i) /\ lines[h].name \notin Sections
      BY <2>1, <2>5, LayoutIs DEF InSection
    <3>2. Under(lines, i)
      BY <2>1, <3>1, UnderIsHeaded
    <3>3. PICK k \in 1..Len(pairs) :
             /\ pairs[k].rule = "section" /\ Headed(lines, org[k], i)
             /\ i - org[k] \in 1..Len(pairs[k].body)
      BY <2>1, <2>2, <3>2, Coverage
    <3>4. pairs[k] \in Pairs /\ org[k] \in 1..Len(lines)
      BY <2>1, <2>2
    <3>5. org[k] = h
      <4>1. org[k] \in 1..i
        BY <3>3, <3>4 DEF Headed
      <4>2. QED
        BY <2>1, <3>1, <3>3, <4>1, HeadedUnique
    <3>. DEFINE j == i - org[k]
    <3>6. j \in 1..Len(pairs[k].body) /\ org[k] + j = i
      BY <2>1, <3>3, <3>4
    <3>. HIDE DEF j
    <3>7. Makes(lines, org[k], pairs[k])
      BY <2>2 DEF Origins
    <3>8. pairs[k].name \notin Sections /\ pairs[k].body[j] = lines[i]
      BY <3>1, <3>3, <3>5, <3>6, <3>7 DEF Makes
    <3>9. HasText(pairs[k].body)
      BY <2>5, <3>6, <3>8 DEF HasText
    <3>10. Passed(pairs[k])
      BY <2>1
    <3>11. QED
      BY <3>3, <3>8, <3>9, <3>10 DEF Passed
  <2>6. QED
    BY <2>3, <2>4, <2>5
<1>2. ASSUME SpecInv, status = "panic" PROVE Bad
  <2>1. /\ lines \in Seq(Lines) /\ pairs \in Seq(Pairs) /\ n \in 1..Len(pairs)
        /\ Len(lines) \in Nat /\ Len(pairs) \in Nat /\ DOMAIN lines = 1..Len(lines)
    BY <1>2 DEF SpecInv, TypeOK, LoopInv
  <2>2. pos - 1 = Len(lines)
    BY <1>2, <2>1 DEF SpecInv, GrammarInv
  <2>3. PICK org \in [1..Len(pairs) -> 1..Len(lines)] :
           Origins(lines, pairs, Len(lines), org)
    BY <1>2, <2>2 DEF SpecInv, GrammarInv
  <2>. DEFINE p == pairs[n]
              i == org[n]
  <2>4. /\ p \in Pairs /\ i \in 1..Len(lines) /\ Makes(lines, i, p) /\ ~Passed(p)
    <3>1. p \in Pairs /\ i \in 1..Len(lines)
      BY <2>1, <2>3
    <3>2. Makes(lines, i, p)
      BY <2>1, <2>3 DEF Origins
    <3>3. ~Passed(p)
      BY <1>2 DEF SpecInv, LoopInv
    <3>4. QED
      BY <3>1, <3>2, <3>3
  <2>. HIDE DEF p, i
  <2>5. CASE p.rule \notin {"variable", "section"}
    <3>1. lines[i].kind = "empty" /\ ~Under(lines, i)
      BY <2>4, <2>5 DEF Makes
    <3>2. TopLevel(i)
      BY <2>1, <2>4, <3>1, LayoutIs
    <3>3. QED
      BY <2>1, <2>4, <3>1, <3>2
  <2>6. CASE p.rule = "section"
    <3>1. p.name \notin Sections /\ HasText(p.body) /\ p.name \in SectionNames
      BY <2>4, <2>6, PairIs DEF Passed
    <3>2. PICK j \in 1..Len(p.body) : IsText(p.body[j])
      BY <3>1 DEF HasText
    <3>3. Len(p.body) \in Nat
      BY <2>4, <2>6, PairIs
    <3>4. /\ p.body[j] = lines[i+j] /\ i + Len(p.body) <= Len(lines)
          /\ lines[i].name = p.name
      BY <2>4, <2>6 DEF Makes
    <3>5. i + j \in 1..Len(lines) /\ i + j \in Nat /\ i \in 1..i+j /\ i \in Nat \ {0}
      BY <2>1, <2>4, <3>3, <3>4
    <3>6. Headed(lines, i, i + j)
      BY <2>4, <2>6, <3>5, BodyHeaded
    <3>7. HeadedBy(i, i + j)
      BY <3>5, <3>6, LayoutIs
    <3>8. InSection(i + j, p.name)
      BY <3>4, <3>5, <3>7 DEF InSection
    <3>9. QED
      BY <2>1, <3>1, <3>2, <3>4, <3>5, <3>8
  <2>7. p.rule # "variable"
    BY <2>4 DEF Passed
  <2>8. QED
    BY <2>5, <2>6, <2>7
<1>3. SpecInv => PanicExplained
  <2>. HIDE DEF Bad
  <2>. SUFFICES ASSUME SpecInv, status \in {"ok", "panic"}
                PROVE  status = "panic" <=> Bad
    BY DEF PanicExplained, Bad
  <2>1. QED
    BY <1>1, <1>2
<1>4. QED
  BY <1>3, SpecInvariant, PTL

-----------------------------------------------------------------------------
(* The text of a section, line by line. *)

In(f, i, s) == \E h \in 1..i : Headed(f, h, i) /\ f[h].name = s

Follows(f, i) ==
    \E h, j \in 1..i-1 : Headed(f, h, i) /\ Headed(f, h, j) /\ IsText(f[j])

(* What line i gives to the section s. *)
Part(f, s, sep, i) ==
    IF ~In(f, i, s) \/ ~IsText(f[i]) THEN <<>>
    ELSE IF Follows(f, i) THEN sep \o <<f[i]>>
    ELSE <<f[i]>>

(* What the first m lines give to it. *)
Upto(f, s, sep, m) == FlattenSeq([i \in 1..m |-> Part(f, s, sep, i)])

(* What separates the lines of the section s, and its text from a body. *)
Sep(s)      == IF s = "files" THEN <<>> ELSE <<NewLine>>
Piece(s, b) == IF s = "files" THEN WithoutComments(b) ELSE Joined(WithoutComments(b))

LEMMA TextOfIs ==
    ASSUME lines \in Seq(Lines), NEW s, NEW sep
    PROVE  TextOf(s, sep) = Upto(lines, s, sep, Len(lines))
<1>1. DOMAIN lines = 1..Len(lines)
  OBVIOUS
<1>2. ASSUME NEW i \in 1..Len(lines)
      PROVE  (InSection(i, s) <=> In(lines, i, s)) /\ (FollowsText(i) <=> Follows(lines, i))
  <2>1. \A h, j \in 1..i : HeadedBy(h, j) <=> Headed(lines, h, j)
    BY LayoutIs
  <2>2. i \in 1..i /\ \A j \in 1..i-1 : j \in 1..i
    OBVIOUS
  <2>3. InSection(i, s) <=> In(lines, i, s)
    BY <2>1, <2>2 DEF InSection, In
  <2>4. FollowsText(i) <=> Follows(lines, i)
    BY <2>1, <2>2 DEF FollowsText, Follows
  <2>5. QED
    BY <2>3, <2>4
<1>3. [i \in 1..Len(lines) |-> Part(lines, s, sep, i)] =
      [i \in 1..Len(lines) |->
          IF ~InSection(i, s) \/ ~IsText(lines[i]) THEN <<>>
          ELSE IF FollowsText(i) THEN sep \o <<lines[i]>>
          ELSE <<lines[i]>>]
  BY <1>2 DEF Part
<1>4. QED
  BY <1>1, <1>3 DEF TextOf, Upto

LEMMA UptoStep ==
    ASSUME NEW f \in Seq(Lines), NEW s, NEW sep \in Seq(Lines \cup {NewLine}),
           NEW m \in Nat, m + 1 <= Len(f)
    PROVE  /\ Upto(f, s, sep, m) \in Seq(Lines \cup {NewLine})
           /\ Upto(f, s, sep, m + 1) = Upto(f, s, sep, m) \o Part(f, s, sep, m + 1)
           /\ Upto(f, s, sep, m + 1) \in Seq(Lines \cup {NewLine})
<1>. DEFINE T == Lines \cup {NewLine}
            a == [i \in 1..m+1 |-> Part(f, s, sep, i)]
<1>1. ASSUME NEW i \in 1..m+1 PROVE Part(f, s, sep, i) \in Seq(T)
  <2>1. f[i] \in T
    OBVIOUS
  <2>. HIDE DEF T
  <2>2. <<>> \in Seq(T) /\ <<f[i]>> \in Seq(T) /\ sep \o <<f[i]>> \in Seq(T)
    BY <2>1, ConcatProperties DEF T
  <2>3. QED
    BY <2>2 DEF Part
<1>. HIDE DEF T
<1>2. a \in [1..m+1 -> Seq(T)]
  BY <1>1
<1>3. /\ a[m+1] = Part(f, s, sep, m + 1)
      /\ [k \in 1..m |-> a[k]] = [k \in 1..m |-> Part(f, s, sep, k)]
  OBVIOUS
<1>. HIDE DEF a
<1>4. /\ FlattenSeq([k \in 1..m |-> a[k]]) \in Seq(T)
      /\ FlattenSeq(a) = FlattenSeq([k \in 1..m |-> a[k]]) \o a[m+1]
      /\ FlattenSeq(a) \in Seq(T)
  BY <1>2, FlattenStep
<1>5. QED
  BY <1>3, <1>4 DEF Upto, T, a

LEMMA UptoType ==
    ASSUME NEW f \in Seq(Lines), NEW s, NEW sep \in Seq(Lines \cup {NewLine}),
           NEW m \in Nat, m <= Len(f)
    PROVE  Upto(f, s, sep, m) \in Seq(Lines \cup {NewLine})
<1>1. CASE m = 0
  <2>1. [i \in 1..0 |-> Part(f, s, sep, i)] = <<>>
    OBVIOUS
  <2>2. Upto(f, s, sep, m) = <<>>
    BY <1>1, <2>1, FlattenEmpty DEF Upto
  <2>3. QED
    BY <2>2
<1>2. CASE m # 0
  <2>1. m - 1 \in Nat /\ (m - 1) + 1 = m
    BY <1>2
  <2>2. QED
    BY <2>1, UptoStep
<1>3. QED
  BY <1>1, <1>2

(* Lines that give nothing. *)
LEMMA UptoSame ==
    ASSUME NEW f \in Seq(Lines), NEW s, NEW sep \in Seq(Lines \cup {NewLine}),
           NEW a \in Nat, NEW b \in Nat, a <= b, b <= Len(f),
           \A i \in a+1..b : Part(f, s, sep, i) = <<>>
    PROVE  Upto(f, s, sep, b) = Upto(f, s, sep, a)
<1>. DEFINE U(m) == Upto(f, s, sep, m)
            I == {k \in Nat : a + k <= b => U(a + k) = U(a)}
<1>1. 0 \in I
  <2>1. a + 0 = a
    OBVIOUS
  <2>2. QED
    BY <2>1
<1>2. ASSUME NEW k \in Nat, k \in I PROVE k + 1 \in I
  <2>. DEFINE m == a + k
  <2>. SUFFICES ASSUME a + (k + 1) <= b PROVE U(a + (k + 1)) = U(a)
    OBVIOUS
  <2>1. /\ m \in Nat /\ m + 1 <= Len(f) /\ m + 1 \in a+1..b /\ a + (k + 1) = m + 1
        /\ m <= b
    OBVIOUS
  <2>2. U(m) = U(a)
    BY <1>2, <2>1
  <2>. HIDE DEF m
  <2>3. U(m) \in Seq(Lines \cup {NewLine}) /\ U(m + 1) = U(m) \o Part(f, s, sep, m + 1)
    BY <2>1, UptoStep
  <2>4. Part(f, s, sep, m + 1) = <<>>
    BY <2>1
  <2>. HIDE DEF U
  <2>5. U(m) \o <<>> = U(m)
    BY <2>3, ConcatEmptySeq
  <2>6. QED
    BY <2>1, <2>2, <2>3, <2>4, <2>5
<1>. HIDE DEF I
<1>3. b - a \in I
  BY <1>1, <1>2, SetInduction
<1>4. a + (b - a) = b
  OBVIOUS
<1>5. U(a + (b - a)) = U(a)
  BY <1>3, <1>4 DEF I
<1>6. QED
  BY <1>4, <1>5

LEMMA TwoLines == \A a, c : <<a>> \o <<c>> = <<a, c>>
<1>. SUFFICES ASSUME NEW a, NEW c PROVE <<a>> \o <<c>> = <<a, c>>
  OBVIOUS
<1>. DEFINE T == {a, c}
<1>1. <<a>> \in Seq(T) /\ <<c>> \in Seq(T) /\ <<a, c>> \in Seq(T)
  OBVIOUS
<1>2. /\ Len(<<a>>) = 1 /\ Len(<<c>>) = 1 /\ Len(<<a, c>>) = 2
      /\ <<a>>[1] = a /\ <<c>>[1] = c /\ <<a, c>>[1] = a /\ <<a, c>>[2] = c
  OBVIOUS
<1>. DEFINE p == <<a>>
            q == <<c>>
            r == <<a, c>>
<1>. HIDE DEF p, q, r, T
<1>3. /\ p \o q \in Seq(T) /\ Len(p \o q) = 2
      /\ (p \o q)[1] = p[1] /\ (p \o q)[2] = q[1]
  <2>1. p \in Seq(T) /\ q \in Seq(T) /\ Len(p) = 1 /\ Len(q) = 1
    BY <1>1, <1>2 DEF p, q
  <2>2. QED
    BY <2>1, ConcatProperties
<1>4. r \in Seq(T) /\ Len(r) = 2 /\ r[1] = p[1] /\ r[2] = q[1]
  BY <1>1, <1>2 DEF p, q, r
<1>5. \A k \in 1..2 : (p \o q)[k] = r[k]
  BY <1>3, <1>4
<1>6. p \o q = r
  BY <1>3, <1>4, <1>5, SeqEqual
<1>7. QED
  BY <1>6 DEF p, q, r

LEMMA PieceAppend ==
    ASSUME NEW s
    PROVE  /\ Piece(s, <<>>) = <<>>
           /\ \A b \in Seq(Lines), x \in Lines :
                Piece(s, Append(b, x)) =
                  Piece(s, b) \o IF ~IsText(x) THEN <<>>
                                 ELSE IF HasText(b) THEN Sep(s) \o <<x>> ELSE <<x>>
<1>1. Piece(s, <<>>) = <<>>
  BY WithoutCommentsAppend, JoinedAppend DEF Piece
<1>2. ASSUME NEW b \in Seq(Lines), NEW x \in Lines
      PROVE  Piece(s, Append(b, x)) =
                Piece(s, b) \o IF ~IsText(x) THEN <<>>
                               ELSE IF HasText(b) THEN Sep(s) \o <<x>> ELSE <<x>>
  <2>. DEFINE w == WithoutComments(b)
              v == WithoutComments(Append(b, x))
  <2>1. w \in Seq(Lines) /\ (w = <<>> <=> ~HasText(b))
    BY TextsOfSection
  <2>2. v = w \o IF IsText(x) THEN <<x>> ELSE <<>>
    BY WithoutCommentsAppend
  <2>3. Joined(w) \in Seq(Lines \cup {NewLine})
    BY <2>1, JoinedType
  <2>4. Piece(s, Append(b, x)) = (IF s = "files" THEN v ELSE Joined(v))
        /\ Piece(s, b) = IF s = "files" THEN w ELSE Joined(w)
    BY DEF Piece
  <2>. HIDE DEF w, v
  <2>5. CASE ~IsText(x)
    <3>1. v = w
      BY <2>1, <2>2, <2>5, ConcatEmptySeq
    <3>2. w \o <<>> = w /\ Joined(w) \o <<>> = Joined(w)
      BY <2>1, <2>3, ConcatEmptySeq
    <3>3. QED
      BY <2>4, <2>5, <3>1, <3>2
  <2>6. CASE IsText(x)
    <3>1. v = w \o <<x>> /\ v = Append(w, x)
      BY <2>1, <2>2, <2>6
    <3>2. Joined(v) = Joined(w) \o IF w = <<>> THEN <<x>> ELSE <<NewLine, x>>
      BY <2>1, <3>1, JoinedAppend
    <3>3. <<>> \o <<x>> = <<x>> /\ <<NewLine>> \o <<x>> = <<NewLine, x>>
      <4>1. <<x>> \in Seq({NewLine, x}) /\ <<NewLine>> \in Seq({NewLine, x})
        OBVIOUS
      <4>2. <<>> \o <<x>> = <<x>>
        BY <4>1, ConcatEmptySeq
      <4>3. <<NewLine>> \o <<x>> = <<NewLine, x>>
        BY TwoLines
      <4>4. QED
        BY <4>2, <4>3
    <3>4. CASE s = "files"
      BY <2>4, <2>6, <3>1, <3>3, <3>4 DEF Sep
    <3>5. CASE s # "files"
      BY <2>1, <2>4, <2>6, <3>2, <3>3, <3>5 DEF Sep
    <3>6. QED
      BY <3>4, <3>5
  <2>7. QED
    BY <2>5, <2>6
<1>3. QED
  BY <1>1, <1>2

LEMMA SepType == \A s : Sep(s) \in Seq(Lines \cup {NewLine})
<1>. DEFINE T == Lines \cup {NewLine}
<1>1. <<>> \in Seq(T) /\ <<NewLine>> \in Seq(T)
  OBVIOUS
<1>2. QED
  BY <1>1 DEF Sep

(* What the first j lines of the body of p give to the section s. *)
Given(s, p, j) == IF p.name = s THEN Piece(s, SubSeq(p.body, 1, j)) ELSE <<>>

(* A line outside of sections gives nothing. *)
LEMMA PartOutside ==
    ASSUME NEW f, NEW s, NEW sep, NEW i \in Nat, ~Under(f, i)
    PROVE  Part(f, s, sep, i) = <<>>
BY UnderIsHeaded DEF Part, In

(* Line j + 1 of the body of p gives to s what its section makes of it. *)
GivesLine(f, i, p, s, j) ==
    Part(f, s, Sep(s), i + (j + 1)) =
        IF p.name # s \/ ~IsText(p.body[j+1]) THEN <<>>
        ELSE IF HasText(SubSeq(p.body, 1, j)) THEN Sep(s) \o <<p.body[j+1]>>
        ELSE <<p.body[j+1]>>

LEMMA PartInside ==
    ASSUME NEW f, NEW i \in Nat \ {0}, NEW p \in Pairs, Makes(f, i, p),
           p.rule = "section", NEW s, NEW j \in Nat, j < Len(p.body)
    PROVE  GivesLine(f, i, p, s, j)
<1>. DEFINE b == SubSeq(p.body, 1, j)
            m == i + (j + 1)
<1>1. /\ p.body \in Seq(Lines) /\ Len(p.body) \in Nat /\ j + 1 \in 1..Len(p.body)
      /\ m \in Nat /\ i \in 1..m /\ i \in 1..m-1
  BY PairIs
<1>2. /\ Len(b) = j /\ \A l \in 1..j : b[l] = p.body[l] /\ l \in 1..Len(p.body)
  BY <1>1
<1>3. /\ f[m] = p.body[j+1] /\ f[i].name = p.name
      /\ \A l \in 1..Len(p.body) : p.body[l] = f[i+l]
  BY <1>1 DEF Makes
<1>4. \A l \in 1..Len(p.body) : Headed(f, i, i + l)
  BY BodyHeaded
<1>. HIDE DEF b
<1>5. Headed(f, i, m)
  BY <1>1, <1>4
<1>6. \A h \in 1..m : Headed(f, h, m) => h = i
  BY <1>1, <1>5, HeadedUnique
<1>7. In(f, m, s) <=> p.name = s
  BY <1>1, <1>3, <1>5, <1>6 DEF In
<1>8. ASSUME HasText(b) PROVE Follows(f, m)
  <2>1. PICK l \in 1..j : IsText(b[l])
    BY <1>2, <1>8 DEF HasText
  <2>2. /\ i + l \in 1..m-1 /\ IsText(f[i+l]) /\ Headed(f, i, i + l)
    BY <1>1, <1>2, <1>3, <1>4, <2>1
  <2>3. QED
    BY <1>1, <1>5, <2>2 DEF Follows
<1>9. ASSUME Follows(f, m) PROVE HasText(b)
  <2>1. PICK h \in 1..m-1, k \in 1..m-1 :
           Headed(f, h, m) /\ Headed(f, h, k) /\ IsText(f[k])
    BY <1>9 DEF Follows
  <2>2. h \in 1..m
    BY <1>1, <2>1
  <2>3. h = i /\ i < k
    BY <1>6, <2>1, <2>2 DEF Headed
  <2>. DEFINE l == k - i
  <2>4. l \in 1..j /\ i + l = k
    BY <1>1, <2>1, <2>3
  <2>. HIDE DEF l
  <2>5. b[l] = f[k]
    BY <1>2, <1>3, <2>4
  <2>6. QED
    BY <1>2, <2>1, <2>4, <2>5 DEF HasText
<1>10. QED
  <2>. HIDE DEF m
  <2>1. Part(f, s, Sep(s), m) =
          IF p.name # s \/ ~IsText(p.body[j+1]) THEN <<>>
          ELSE IF HasText(b) THEN Sep(s) \o <<p.body[j+1]>> ELSE <<p.body[j+1]>>
    BY <1>3, <1>7, <1>8, <1>9 DEF Part
  <2>2. QED
    BY <2>1 DEF b, m, GivesLine

(* The lines of p up to line j of its body add Given to u. *)
Adds(f, i, p, s, u, j) == Upto(f, s, Sep(s), i + j) = u \o Given(s, p, j)

(* One line more of a body. *)
LEMMA BodyStep ==
    ASSUME NEW f \in Seq(Lines), NEW i \in Nat \ {0}, NEW p \in Pairs,
           Makes(f, i, p), p.rule = "section", NEW s, NEW j \in Nat, j < Len(p.body),
           NEW u \in Seq(Lines \cup {NewLine}),
           Adds(f, i, p, s, u, j)
    PROVE  Adds(f, i, p, s, u, j + 1)
<1>. DEFINE T == Lines \cup {NewLine}
            b == SubSeq(p.body, 1, j)
            x == p.body[j+1]
            m == i + j
            y == IF ~IsText(x) THEN <<>>
                 ELSE IF HasText(b) THEN Sep(s) \o <<x>> ELSE <<x>>
            z == Part(f, s, Sep(s), i + (j + 1))
<1>1. p.body \in Seq(Lines) /\ Len(p.body) \in Nat /\ i + Len(p.body) <= Len(f)
  BY PairIs DEF Makes
<1>2. m \in Nat /\ m + 1 <= Len(f) /\ m + 1 = i + (j + 1)
  BY <1>1
<1>3. b \in Seq(Lines) /\ x \in Lines /\ SubSeq(p.body, 1, j + 1) = Append(b, x)
  <2>1. b \in Seq(Lines) /\ x \in Lines /\ Len(b) = j
    BY <1>1
  <2>2. SubSeq(p.body, 1, j + 1) \in Seq(Lines) /\ Append(b, x) \in Seq(Lines)
    BY <1>1, <2>1
  <2>3. Len(SubSeq(p.body, 1, j + 1)) = j + 1 /\ Len(Append(b, x)) = j + 1
    BY <1>1, <2>1
  <2>4. ASSUME NEW k \in 1..j+1 PROVE SubSeq(p.body, 1, j + 1)[k] = Append(b, x)[k]
    BY <1>1, <2>1
  <2>. HIDE DEF b, x
  <2>5. QED
    BY <2>1, <2>2, <2>3, <2>4, SeqEqual
<1>4. z = IF p.name # s \/ ~IsText(x) THEN <<>>
          ELSE IF HasText(b) THEN Sep(s) \o <<x>> ELSE <<x>>
  <2>1. GivesLine(f, i, p, s, j)
    BY PartInside
  <2>2. QED
    BY <2>1 DEF GivesLine
<1>5. Given(s, p, j) = (IF p.name = s THEN Piece(s, b) ELSE <<>>)
      /\ Given(s, p, j + 1) = IF p.name = s THEN Piece(s, Append(b, x)) ELSE <<>>
  BY <1>3 DEF Given
<1>6. Piece(s, Append(b, x)) = Piece(s, b) \o y
  BY <1>3, PieceAppend
<1>7. Upto(f, s, Sep(s), i + (j + 1)) = Upto(f, s, Sep(s), i + j) \o z
  <2>1. Upto(f, s, Sep(s), m + 1) =
          Upto(f, s, Sep(s), m) \o Part(f, s, Sep(s), m + 1)
    <3>. HIDE DEF m
    <3>1. QED
      BY <1>2, SepType, UptoStep
  <2>2. QED
    BY <1>2, <2>1
<1>8. y \in Seq(T)
  <2>1. x \in T /\ Sep(s) \in Seq(T)
    BY <1>3, SepType
  <2>. HIDE DEF T, x
  <2>2. <<>> \in Seq(T) /\ <<x>> \in Seq(T)
    BY <2>1
  <2>3. Sep(s) \o <<x>> \in Seq(T)
    BY <2>1, <2>2, ConcatProperties
  <2>4. QED
    BY <2>2, <2>3
<1>9. Piece(s, b) \in Seq(T)
  <2>1. WithoutComments(b) \in Seq(Lines)
    BY <1>3, TextsOfSection
  <2>2. WithoutComments(b) \in Seq(T) /\ Joined(WithoutComments(b)) \in Seq(T)
    BY <2>1, JoinedType, SeqMonotonic
  <2>3. QED
    BY <2>2 DEF Piece
<1>10. u \in Seq(T) /\ <<>> \in Seq(T)
  OBVIOUS
<1>. SUFFICES Upto(f, s, Sep(s), i + (j + 1)) = u \o Given(s, p, j + 1)
  BY DEF Adds
<1>10a. Upto(f, s, Sep(s), i + j) = u \o Given(s, p, j)
  BY DEF Adds
<1>. HIDE DEF T, b, x, y, z
<1>11. z = IF p.name # s THEN <<>> ELSE y
  BY <1>4 DEF y
<1>12. CASE p.name = s
  <2>1. (u \o Piece(s, b)) \o y = u \o (Piece(s, b) \o y)
    BY <1>8, <1>9, <1>10, ConcatAssociative, SMTT(60)
  <2>2. QED
    BY <1>5, <1>6, <1>7, <1>11, <1>12, <1>10a, <2>1
<1>13. CASE p.name # s
  <2>1. u \o <<>> = u
    BY <1>10, ConcatEmptySeq
  <2>2. QED
    BY <1>5, <1>7, <1>11, <1>13, <1>10a, <2>1
<1>14. QED
  BY <1>12, <1>13

(* The lines of a pair give its share. *)
LEMMA PairUpto ==
    ASSUME NEW f \in Seq(Lines), NEW i \in Nat \ {0}, i <= Len(f), NEW p \in Pairs,
           Makes(f, i, p), p.rule \in {"variable", "section"}, NEW s
    PROVE  Upto(f, s, Sep(s), End(i, p)) = Upto(f, s, Sep(s), i - 1) \o Share(s, p)
<1>. DEFINE T == Lines \cup {NewLine}
            U(m) == Upto(f, s, Sep(s), m)
<1>1. Sep(s) \in Seq(T)
  BY SepType
<1>2. i - 1 \in Nat /\ (i - 1) + 1 = i /\ Len(f) \in Nat /\ i \in Nat /\ i + 0 = i
  OBVIOUS
<1>3. U(i) = U(i - 1) /\ U(i) \in Seq(T)
  <2>1. ~Under(f, i)
    BY DEF Makes
  <2>2. Part(f, s, Sep(s), i) = <<>>
    BY <2>1, PartOutside
  <2>3. /\ U(i - 1) \in Seq(T) /\ U((i - 1) + 1) = U(i - 1) \o Part(f, s, Sep(s), (i - 1) + 1)
        /\ U((i - 1) + 1) \in Seq(T)
    BY <1>1, <1>2, UptoStep
  <2>. HIDE DEF U, T
  <2>4. U(i - 1) \o <<>> = U(i - 1)
    BY <2>3, ConcatEmptySeq
  <2>5. QED
    BY <1>2, <2>2, <2>3, <2>4
<1>4. U(i) \o <<>> = U(i)
  BY <1>3, ConcatEmptySeq
<1>5. CASE p.rule = "variable"
  <2>1. End(i, p) = i /\ Share(s, p) = <<>>
    BY <1>5 DEF End, Share
  <2>2. QED
    BY <1>3, <1>4, <2>1
<1>6. CASE p.rule = "section"
  <2>. DEFINE u == U(i)
              I == {j \in Nat : j <= Len(p.body) => Adds(f, i, p, s, u, j)}
  <2>1. p.body \in Seq(Lines) /\ Len(p.body) \in Nat
    BY <1>6, PairIs
  <2>2. 0 \in I
    <3>1. SubSeq(p.body, 1, 0) = <<>>
      BY <2>1
    <3>2. Given(s, p, 0) = <<>>
      BY <3>1, PieceAppend DEF Given
    <3>3. QED
      BY <1>2, <1>4, <3>2 DEF Adds
  <2>3. u \in Seq(Lines \cup {NewLine})
    BY <1>3
  <2>. HIDE DEF u
  <2>4. ASSUME NEW j \in Nat, j \in I PROVE j + 1 \in I
    <3>. SUFFICES ASSUME j + 1 <= Len(p.body)
                  PROVE  Adds(f, i, p, s, u, j + 1)
      OBVIOUS
    <3>1. j < Len(p.body) /\ Adds(f, i, p, s, u, j)
      BY <2>1, <2>4
    <3>2. QED
      BY <1>6, <2>3, <3>1, BodyStep
  <2>. HIDE DEF I
  <2>5. Len(p.body) \in I
    BY <2>1, <2>2, <2>4, SetInduction
  <2>6. Upto(f, s, Sep(s), i + Len(p.body)) = u \o Given(s, p, Len(p.body))
    <3>1. Len(p.body) <= Len(p.body)
      BY <2>1
    <3>2. QED
      BY <2>5, <3>1 DEF I, Adds
  <2>7. SubSeq(p.body, 1, Len(p.body)) = p.body
    BY <2>1
  <2>8. Share(s, p) = Given(s, p, Len(p.body))
    BY <1>6, <2>7 DEF Share, Piece, Given
  <2>9. End(i, p) = i + Len(p.body)
    BY <1>6 DEF End
  <2>10. QED
    BY <1>3, <2>6, <2>8, <2>9 DEF u
<1>7. QED
  BY <1>5, <1>6

(* The lines of all pairs give their shares: what is between them is blank. *)
LEMMA LayoutIsShares ==
    ASSUME NEW f \in Seq(Lines), NEW ps \in Seq(Pairs), NEW s,
           NEW org \in [1..Len(ps) -> 1..Len(f)], Origins(f, ps, Len(f), org),
           \A k \in 1..Len(ps) : ps[k].rule \in {"variable", "section"}
    PROVE  Upto(f, s, Sep(s), Len(f)) = Shares(s, ps, Len(ps))
<1>. DEFINE N == Len(ps)
            M == Len(f)
            E(k) == IF k = 0 THEN 0 ELSE End(org[k], ps[k])
            U(m) == Upto(f, s, Sep(s), m)
<1>1. N \in Nat /\ M \in Nat /\ Sep(s) \in Seq(Lines \cup {NewLine})
  BY SepType
<1>2. ASSUME NEW k \in 1..N
      PROVE  /\ ps[k] \in Pairs /\ ps[k].rule \in {"variable", "section"}
             /\ org[k] \in Nat \ {0} /\ org[k] <= M /\ org[k] \in Nat /\ k # 0
             /\ Makes(f, org[k], ps[k]) /\ E(k) = End(org[k], ps[k])
             /\ E(k) \in Nat /\ org[k] <= E(k) /\ E(k) <= M
  <2>1. /\ ps[k] \in Pairs /\ ps[k].rule \in {"variable", "section"} /\ k # 0
        /\ org[k] \in 1..M
    BY <1>1
  <2>2. Makes(f, org[k], ps[k]) /\ End(org[k], ps[k]) <= M
    BY DEF Origins
  <2>3. ps[k].rule = "section" => Len(ps[k].body) \in Nat
    BY <2>1, PairIs
  <2>4. org[k] \in Nat \ {0} /\ org[k] <= M /\ org[k] \in Nat
    BY <1>1, <2>1
  <2>5. End(org[k], ps[k]) \in Nat /\ org[k] <= End(org[k], ps[k])
    BY <2>1, <2>3, <2>4 DEF End
  <2>6. QED
    BY <2>1, <2>2, <2>4, <2>5
<1>3. \A k, l \in 1..N : k < l => E(k) < org[l]
  BY <1>2 DEF Origins
<1>4. \A i \in 1..M : f[i].kind # "blank" => \E k \in 1..N : org[k] <= i /\ i <= E(k)
  <2>1. \A k \in 1..N : ps[k].rule # "multiline_variable"
    BY <1>2
  <2>2. QED
    BY <1>2, <2>1 DEF Origins
<1>5. ASSUME NEW i \in 1..M, f[i].kind = "blank" PROVE Part(f, s, Sep(s), i) = <<>>
  BY <1>1, <1>5, UnderBlank, PartOutside
<1>6. E(0) = 0
  OBVIOUS
<1>. HIDE DEF N, M, E
(* Before the pair k + 1, and behind the last. *)
<1>7. ASSUME NEW k \in Nat, k <= N, NEW m \in Nat, E(k) <= m, m <= M,
             k < N => m < org[k+1]
      PROVE  E(k) \in Nat /\ U(m) = U(E(k))
  <2>1. E(k) \in Nat
    BY <1>1, <1>2, <1>6, <1>7
  <2>2. ASSUME NEW i \in E(k)+1..m PROVE f[i].kind = "blank"
    <3>. SUFFICES ASSUME f[i].kind # "blank" PROVE FALSE
      OBVIOUS
    <3>1. i \in 1..M /\ i \in Nat /\ E(k) < i /\ i <= m
      BY <1>1, <1>7, <2>1
    <3>2. PICK l \in 1..N : org[l] <= i /\ i <= E(l)
      BY <1>4, <3>1
    <3>3. E(l) \in Nat /\ org[l] \in Nat
      BY <1>2
    <3>4. CASE l <= k
      <4>1. k \in 1..N
        BY <1>1, <1>7, <3>4
      <4>2. org[k] \in Nat /\ org[k] <= E(k)
        BY <1>2, <4>1
      <4>3. CASE l = k
        BY <2>1, <3>1, <3>2, <4>3
      <4>4. CASE l # k
        <5>1. l < k
          BY <1>1, <3>4, <4>1, <4>4
        <5>2. E(l) < org[k]
          BY <1>3, <4>1, <5>1
        <5>3. QED
          BY <2>1, <3>1, <3>2, <3>3, <4>2, <5>2
      <4>5. QED
        BY <4>3, <4>4
    <3>5. CASE k < l
      <4>1. k < N /\ k + 1 \in 1..N
        BY <1>1, <3>5
      <4>2. E(k+1) \in Nat /\ org[k+1] \in Nat /\ org[k+1] <= E(k+1) /\ m < org[k+1]
        BY <1>2, <1>7, <4>1
      <4>3. CASE l = k + 1
        BY <1>7, <3>1, <3>2, <4>2, <4>3
      <4>4. CASE l # k + 1
        <5>1. k + 1 < l
          BY <1>1, <3>5, <4>4
        <5>2. E(k+1) < org[l]
          BY <1>3, <4>1, <5>1
        <5>3. QED
          BY <1>7, <3>1, <3>2, <3>3, <4>2, <5>2
      <4>5. QED
        BY <4>3, <4>4
    <3>6. QED
      BY <1>1, <3>4, <3>5
  <2>3. \A i \in E(k)+1..m : Part(f, s, Sep(s), i) = <<>>
    <3>1. \A i \in E(k)+1..m : i \in 1..M
      BY <1>1, <1>7, <2>1
    <3>2. QED
      BY <1>5, <2>2, <3>1
  <2>. DEFINE e == E(k)
  <2>4. e \in Nat /\ e <= m /\ m <= Len(f) /\ \A i \in e+1..m : Part(f, s, Sep(s), i) = <<>>
    BY <1>7, <2>1, <2>3 DEF M
  <2>. HIDE DEF e
  <2>5. Upto(f, s, Sep(s), m) = Upto(f, s, Sep(s), e)
    BY <1>1, <2>4, UptoSame
  <2>6. QED
    BY <2>1, <2>5 DEF e
<1>. DEFINE I == {k \in Nat : k <= N => U(E(k)) = Shares(s, ps, k)}
<1>9. 0 \in I
  <2>1. [i \in 1..0 |-> Part(f, s, Sep(s), i)] = <<>>
    OBVIOUS
  <2>2. U(0) = <<>>
    BY <2>1, FlattenEmpty DEF Upto
  <2>3. QED
    BY <1>6, <2>2, NothingRead
<1>10. ASSUME NEW k \in Nat, k \in I PROVE k + 1 \in I
  <2>. SUFFICES ASSUME k + 1 <= N PROVE U(E(k+1)) = Shares(s, ps, k + 1)
    OBVIOUS
  <2>1. k <= N /\ k < N /\ k + 1 \in 1..N /\ U(E(k)) = Shares(s, ps, k)
    BY <1>1, <1>10
  <2>. DEFINE o == org[k+1]
              p == ps[k+1]
              m == o - 1
  <2>2. /\ p \in Pairs /\ p.rule \in {"variable", "section"}
        /\ o \in Nat \ {0} /\ o <= M /\ o \in Nat
        /\ Makes(f, o, p) /\ E(k+1) = End(o, p)
    BY <1>2, <2>1
  <2>3. E(k) <= m /\ E(k) \in Nat
    <3>1. CASE k = 0
      BY <1>6, <2>2, <3>1
    <3>2. CASE k # 0
      <4>1. k \in 1..N /\ k < k + 1
        BY <1>1, <2>1, <3>2
      <4>2. E(k) < o /\ E(k) \in Nat
        BY <1>2, <1>3, <2>1, <4>1
      <4>3. QED
        BY <2>2, <4>2
    <3>3. QED
      BY <3>1, <3>2
  <2>4. m \in Nat /\ m <= M /\ m < o
    BY <1>1, <2>2
  <2>5. U(m) = U(E(k))
    BY <1>7, <2>1, <2>3, <2>4
  <2>6. Upto(f, s, Sep(s), End(o, p)) = Upto(f, s, Sep(s), o - 1) \o Share(s, p)
    <3>. HIDE DEF o, p
    <3>1. QED
      BY <2>2, PairUpto DEF M
  <2>7. Shares(s, ps, k + 1) = Shares(s, ps, k) \o Share(s, p)
    BY <2>1, SharesStep DEF N
  <2>. HIDE DEF o, p
  <2>8. QED
    BY <2>1, <2>2, <2>5, <2>6, <2>7
<1>. HIDE DEF I
<1>11. N \in I
  BY <1>1, <1>9, <1>10, SetInduction
<1>12. N <= N /\ M <= M /\ ~(N < N)
  BY <1>1
<1>13. U(E(N)) = Shares(s, ps, N)
  BY <1>11, <1>12 DEF I
<1>14. E(N) <= M
  BY <1>1, <1>2, <1>6
<1>15. U(M) = U(E(N))
  BY <1>1, <1>7, <1>12, <1>14
<1>16. QED
  BY <1>13, <1>15 DEF N, M

(***************************************************************************)
(* Every section of a spec that is read holds the lines the layout of the  *)
(* file gives it, once and in their order, for any file: the sections and  *)
(* variables the grammar takes cover every line that is not blank, and     *)
(* parse makes of each section what its lines give.                        *)
(***************************************************************************)
THEOREM SectionsFollowLayout == Spec => []SectionsByLayout
<1>1. ASSUME SpecInv PROVE SectionsByLayout
  <2>. SUFFICES ASSUME status = "ok"
                PROVE  /\ \A s \in TextSections : content[s] = TextOf(s, <<NewLine>>)
                       /\ files = TextOf("files", <<>>)
    BY DEF SectionsByLayout
  <2>1. /\ lines \in Seq(Lines) /\ pairs \in Seq(Pairs) /\ n - 1 = Len(pairs)
        /\ \A k \in 1..Len(pairs) : pairs[k].rule \in {"variable", "section"}
    BY <1>1, AllRead
  <2>2. PICK org \in [1..Len(pairs) -> 1..Len(lines)] :
               Origins(lines, pairs, Len(lines), org)
    BY <1>1, AllRead
  <2>3. \A s : Upto(lines, s, Sep(s), Len(lines)) = Shares(s, pairs, Len(pairs))
    BY <2>1, <2>2, LayoutIsShares
  <2>4. \A s : TextOf(s, Sep(s)) = Shares(s, pairs, n - 1)
    BY <2>1, <2>3, TextOfIs
  <2>5. Sep("files") = <<>> /\ \A s \in TextSections : Sep(s) = <<NewLine>>
    BY DEF Sep, TextSections
  <2>6. QED
    BY <1>1, <2>4, <2>5 DEF SpecInv, ContentInv
<1>2. QED
  BY <1>1, SpecInvariant, PTL
=============================================================================
