----------------------- MODULE MakefileIncludeProofs -----------------------
(***************************************************************************)
(* What reading a makefile with its includes guarantees for any files,     *)
(* directories, makefiles and stack size.                                  *)
(***************************************************************************)
EXTENDS MakefileInclude, Recursion, TLAPS

(* Every variable of vs has one value, and replaces others. *)
One(w) == Len(w.values) = 1 /\ w.mode = "Set"
AllHaveOne(vs) == \A v \in Vars : vs[v] # None => One(vs[v])

(* A makefile as parse_single_file makes it of the files t: the directory  *)
(* is that of the file, its includes are lines of it.                      *)
Read(t, mk) ==
    /\ mk \in MakefileOf
    /\ mk.dir = DirOf[mk.file] \/ mk.file = Root
    /\ \A i \in 1..Len(mk.includes) :
          \E j \in 1..Len(t[mk.file]) :
             t[mk.file][j].kind = "include" /\ t[mk.file][j].name = mk.includes[i]
    /\ AllHaveOne(mk.variables)

(* A call of parse_all, with the makefiles its includes lead to. *)
FrameOK(t, f) ==
    /\ f \in Frames
    /\ Read(t, f.own)
    /\ AllHaveOne(f.final)
    /\ f.m # 0
    /\ f.n <= Len(f.own.includes) + 1
    /\ f.n # 0 /\ f.own.includes # <<>> => f.own.dir # None
    /\ Len(f.kids) < f.n \/ f.kids = <<>>
    /\ \A i \in 1..Len(f.kids) :
          /\ Read(t, f.kids[i])
          /\ f.kids[i].file = Canon[f.own.dir][f.own.includes[i]]

(* Every include before the n-th is among the makefiles read. *)
Settled(f) == f.n # 0 => Len(f.kids) = f.n - 1

(* parse_included_makefiles has returned to the call. *)
AllRead(f) == f.n > Len(f.own.includes) /\ Settled(f)

(* The calls on the stack: all but the last have read their includes. *)
StackOK(t, st) ==
    /\ st \in Seq(Frames)
    /\ Len(st) <= StackLimit
    /\ \A s \in 1..Len(st) : FrameOK(t, st[s])
    /\ \A s \in 1..Len(st)-1 : AllRead(st[s])

(* The call at the top: where the process is while it reads its includes,  *)
(* and the include that parse_single_file is at.                           *)
TopOK ==
    /\ status = "all" => Settled(Top)
    /\ status = "all" /\ Top.n \in 1..Len(Top.own.includes)
          => cwd = Top.own.dir
    /\ status = "parse" =>
          /\ cwd = Top.own.dir
          /\ Top.n >= 2
          /\ Len(Top.kids) = Top.n - 2
          /\ cur.file = Canon[cwd][Top.own.includes[Top.n - 1]]

(* The inductive invariant. *)
ReadInv ==
    /\ tree \in Trees
    /\ TypeOK
    /\ Read(tree, cur)
    /\ AllHaveOne(result)
    /\ StackOK(tree, stack)
    /\ status \notin {"parse", "error"} => stack # <<>>
    /\ stack # <<>> => TopOK

-----------------------------------------------------------------------------
(* The files, the lines of the one being read, and the stack.              *)

(* The lines of a file have their types. *)
LEMMA TreeLines ==
    ASSUME NEW t \in Trees, NEW f \in Files
    PROVE  /\ t[f] \in Seq(Lines)
           /\ \A i \in 1..Len(t[f]) :
                /\ t[f][i] \in Lines
                /\ t[f][i].kind \in {"set", "add", "define"}
                      => t[f][i].name \in Vars
                /\ t[f][i].kind = "include" => t[f][i].name \in Includes
  BY TreeTypes

(* merge keeps the types, and every variable its one value. *)
LEMMA MergeHasOne ==
    ASSUME NEW a \in VarMaps, NEW b \in VarMaps,
           AllHaveOne(a), AllHaveOne(b)
    PROVE  Merge(a, b) \in VarMaps /\ AllHaveOne(Merge(a, b))
<1>1. ASSUME NEW v \in Vars
      PROVE  /\ Merge(a, b)[v] \in Variables \cup {None}
             /\ Merge(a, b)[v] # None => One(Merge(a, b)[v])
  <2>1. /\ a[v] \in Variables \cup {None} /\ b[v] \in Variables \cup {None}
        /\ a[v] # None => One(a[v])
        /\ b[v] # None => One(b[v])
    BY DEF VarMaps, AllHaveOne
  <2>2. Merge(a, b)[v] = IF b[v] = None THEN a[v] ELSE b[v]
    BY <2>1 DEF Merge, One
  <2>3. QED
    BY <2>1, <2>2
<1>2. Merge(a, b) = [v \in Vars |-> Merge(a, b)[v]]
  BY DEF Merge
<1>3. QED
  BY <1>1, <1>2 DEF VarMaps, AllHaveOne

(* A makefile that parse_single_file has just opened. *)
LEMMA FreshRead ==
    ASSUME NEW t \in Trees, NEW f \in Files, NEW d \in Dirs \cup {None},
           d = DirOf[f] \/ f = Root
    PROVE  Read(t, Fresh(f, d))
<1>1. NoVars \in VarMaps /\ AllHaveOne(NoVars)
  BY DEF NoVars, VarMaps, AllHaveOne
<1>2. QED
  BY <1>1 DEF Read, Fresh, MakefileOf

(* The stack with the call at the top replaced by f: st2 has the calls of  *)
(* st, down to the n-th, with f in its place.                              *)
Replaced(st, n, f, st2) ==
    /\ st2 \in Seq(Frames)
    /\ Len(st2) = n
    /\ \A s \in 1..n : st2[s] = IF s = n THEN f ELSE st[s]

LEMMA ReplaceTop ==
    ASSUME NEW st \in Seq(Frames), NEW n \in 1..Len(st), NEW f \in Frames
    PROVE  /\ n = Len(st) => Replaced(st, n, f, [st EXCEPT ![n] = f])
           /\ Replaced(st, n, f, [SubSeq(st, 1, n) EXCEPT ![n] = f])
<1>1. n = Len(st) => Replaced(st, n, f, [st EXCEPT ![n] = f])
  BY ExceptSeq DEF Replaced
<1>2. Replaced(st, n, f, [SubSeq(st, 1, n) EXCEPT ![n] = f])
  <2>. DEFINE low == SubSeq(st, 1, n)
  <2>1. /\ low \in Seq(Frames)
        /\ Len(low) = n
        /\ \A s \in 1..n : low[s] = st[s]
    OBVIOUS
  <2>. HIDE DEF low
  <2>2. n \in 1..Len(low)
    BY <2>1
  <2>3. /\ [low EXCEPT ![n] = f] \in Seq(Frames)
        /\ Len([low EXCEPT ![n] = f]) = Len(low)
        /\ \A s \in 1..Len(low) :
              [low EXCEPT ![n] = f][s] = IF s = n THEN f ELSE low[s]
    BY <2>1, <2>2, ExceptSeq
  <2>4. Replaced(st, n, f, [low EXCEPT ![n] = f])
    BY <2>1, <2>3 DEF Replaced
  <2>5. QED
    BY <2>4 DEF low
<1>3. QED
  BY <1>1, <1>2

(* Such a stack is in order if f is: at the same height or below. *)
LEMMA ReplacedOK ==
    ASSUME NEW t, NEW st, StackOK(t, st), NEW n \in 1..Len(st),
           NEW f, FrameOK(t, f), NEW st2, Replaced(st, n, f, st2)
    PROVE  StackOK(t, st2) /\ Len(st2) = n /\ st2[Len(st2)] = f
<1>1. /\ st \in Seq(Frames) /\ Len(st) \in Nat /\ n \in Nat /\ n >= 1
      /\ n <= Len(st) /\ Len(st) <= StackLimit /\ StackLimit \in Nat
  BY TreeTypes DEF StackOK
<1>2. /\ st2 \in Seq(Frames) /\ Len(st2) = n
      /\ \A s \in 1..n : st2[s] = IF s = n THEN f ELSE st[s]
  BY DEF Replaced
<1>3. ASSUME NEW s \in 1..Len(st2) PROVE FrameOK(t, st2[s])
  BY <1>1, <1>2 DEF StackOK
<1>4. ASSUME NEW s \in 1..Len(st2)-1 PROVE AllRead(st2[s])
  BY <1>1, <1>2 DEF StackOK
<1>5. QED
  BY <1>1, <1>2, <1>3, <1>4 DEF StackOK

(* A call is put on top of the one that makes it. *)
LEMMA PushedOK ==
    ASSUME NEW t, NEW st, StackOK(t, st), Len(st) < StackLimit,
           st # <<>> => AllRead(st[Len(st)]), NEW f, FrameOK(t, f)
    PROVE  /\ StackOK(t, Append(st, f)) /\ Len(Append(st, f)) = Len(st) + 1
           /\ \A s \in 1..Len(st) : Append(st, f)[s] = st[s]
           /\ Append(st, f)[Len(st) + 1] = f
<1>. DEFINE st2 == Append(st, f)
<1>1. st \in Seq(Frames) /\ Len(st) \in Nat /\ f \in Frames
  BY DEF StackOK, FrameOK
<1>2. /\ st2 \in Seq(Frames)
      /\ Len(st2) = Len(st) + 1
      /\ \A s \in 1..Len(st) : st2[s] = st[s]
      /\ st2[Len(st) + 1] = f
  BY <1>1
<1>. HIDE DEF st2
<1>3. ASSUME NEW s \in 1..Len(st2) PROVE FrameOK(t, st2[s])
  BY <1>1, <1>2 DEF StackOK
<1>4. ASSUME NEW s \in 1..Len(st2)-1 PROVE AllRead(st2[s])
  BY <1>1, <1>2 DEF StackOK
<1>5. StackLimit \in Nat
  BY TreeTypes
<1>6. StackOK(t, st2)
  BY <1>1, <1>2, <1>3, <1>4, <1>5 DEF StackOK
<1>7. QED
  BY <1>2, <1>6 DEF st2

-----------------------------------------------------------------------------
(* The invariant, action by action. *)

(* The line parse_string is at. *)
LEMMA LineTypes ==
    ASSUME ReadInv, at <= Len(Content)
    PROVE  /\ Content \in Seq(Lines) /\ at \in 1..Len(Content)
           /\ Line \in Lines
           /\ Line.kind \in {"set", "add", "define"} => Line.name \in Vars
           /\ Line.kind = "include" => Line.name \in Includes
<1>1. tree \in Trees /\ cur.file \in Files /\ at \in Nat \ {0}
  BY DEF ReadInv, TypeOK, MakefileOf
<1>2. at \in 1..Len(tree[cur.file]) /\ tree[cur.file] \in Seq(Lines)
  BY <1>1, TreeLines DEF Content
<1>3. QED
  BY <1>1, <1>2, TreeLines DEF Content, Line

(* The call of parse_all in progress. *)
LEMMA TopTypes ==
    ASSUME ReadInv, stack # <<>>
    PROVE  /\ Len(stack) \in Nat /\ Len(stack) \in 1..Len(stack)
           /\ Len(stack) <= StackLimit
           /\ FrameOK(tree, Top) /\ Top \in Frames /\ Top.n \in Nat
           /\ Read(tree, Top.own) /\ Top.own \in MakefileOf
           /\ Top.kids \in Seq(MakefileOf) /\ TopOK
<1>1. /\ stack \in Seq(Frames) /\ Len(stack) \in 1..Len(stack)
      /\ Len(stack) \in Nat /\ Len(stack) <= StackLimit
  BY DEF ReadInv, TypeOK, StackOK
<1>2. FrameOK(tree, Top)
  BY <1>1 DEF ReadInv, StackOK, Top
<1>3. QED
  BY <1>1, <1>2 DEF FrameOK, Read, Frames, ReadInv

(* parse_string goes on in the same makefile. *)
LEMMA ParseGoesOn ==
    ASSUME ReadInv, status = "parse", UNCHANGED <<tree, cwd, stack, result, status>>,
           Read(tree, cur'), cur'.file = cur.file, at' \in Nat \ {0}
    PROVE  ReadInv'
<1>1. TypeOK'
  BY DEF ReadInv, TypeOK, Read
<1>2. stack # <<>> => TopOK'
  BY DEF ReadInv, TopOK, Top
<1>3. QED
  BY <1>1, <1>2 DEF ReadInv

(* A variable of the makefile gets a value. *)
LEMMA SetKeepsRead ==
    ASSUME ReadInv, NEW v \in Vars, NEW w \in Variables, One(w),
           cur' = [cur EXCEPT !.variables[v] = w]
    PROVE  Read(tree, cur') /\ cur'.file = cur.file
<1>1. /\ cur \in MakefileOf /\ Read(tree, cur)
      /\ cur.variables \in VarMaps /\ AllHaveOne(cur.variables)
  BY DEF ReadInv, TypeOK, Read, MakefileOf
<1>. DEFINE vs == [cur.variables EXCEPT ![v] = w]
<1>2. vs \in VarMaps /\ AllHaveOne(vs)
  BY <1>1 DEF VarMaps, AllHaveOne
<1>. HIDE DEF vs
<1>3. cur' = [cur EXCEPT !.variables = vs]
  BY <1>1 DEF vs, MakefileOf
<1>4. /\ cur' \in MakefileOf /\ cur'.file = cur.file /\ cur'.dir = cur.dir
      /\ cur'.includes = cur.includes /\ cur'.variables = vs
  BY <1>1, <1>2, <1>3 DEF MakefileOf
<1>5. QED
  BY <1>1, <1>2, <1>4 DEF Read

LEMMA ParseVariableInv == ASSUME ReadInv, ParseVariable PROVE ReadInv'
<1>1. /\ Line \in Lines /\ Line.name \in Vars /\ at \in Nat
  BY LineTypes DEF ParseVariable
<1>. DEFINE w == [values |-> <<<<Line.text>>>>, mode |-> "Set"]
<1>2. w \in Variables /\ One(w)
  BY <1>1 DEF Variables, Lines, One
<1>3. cur' = [cur EXCEPT !.variables[Line.name] = w]
  BY DEF ParseVariable, ParsedVariable, PairMode
<1>. HIDE DEF w
<1>4. Read(tree, cur') /\ cur'.file = cur.file
  BY <1>1, <1>2, <1>3, SetKeepsRead
<1>5. QED
  BY <1>1, <1>4, ParseGoesOn DEF ParseVariable

LEMMA ParseDefineInv == ASSUME ReadInv, ParseDefine PROVE ReadInv'
<1>1. /\ Content \in Seq(Lines) /\ at \in 1..Len(Content)
      /\ Line.name \in Vars
  BY LineTypes DEF ParseDefine
<1>2. PICK j \in Endefs :
        /\ cur' = [cur EXCEPT !.variables[Line.name] =
                     [values |-> <<[i \in 1..j-at-1 |-> Content[at+i].text]>>,
                      mode   |-> "Set"]]
        /\ at' = j + 1
  BY DEF ParseDefine
<1>3. j \in Nat /\ j >= at + 2 /\ j <= Len(Content)
  BY <1>1 DEF Endefs
<1>. DEFINE body == [i \in 1..j-at-1 |-> Content[at+i].text]
            w    == [values |-> <<body>>, mode |-> "Set"]
<1>4. body \in Seq(Texts \cup {None})
  <2>1. j-at-1 \in Nat
    BY <1>1, <1>3
  <2>2. ASSUME NEW i \in 1..j-at-1 PROVE Content[at+i].text \in Texts \cup {None}
    <3>1. at + i \in 1..Len(Content)
      BY <1>1, <1>3, <2>1
    <3>2. Content[at+i] \in Lines
      BY <1>1, <3>1
    <3>3. QED
      BY <3>2 DEF Lines
  <2>3. QED
    BY <2>1, <2>2
<1>. HIDE DEF body
<1>5. w \in Variables /\ One(w)
  BY <1>4 DEF Variables, One
<1>6. cur' = [cur EXCEPT !.variables[Line.name] = w]
  BY <1>2 DEF body
<1>. HIDE DEF w
<1>7. Read(tree, cur') /\ cur'.file = cur.file
  BY <1>1, <1>5, <1>6, SetKeepsRead
<1>8. QED
  BY <1>2, <1>3, <1>7, ParseGoesOn DEF ParseDefine

LEMMA ParseIncludeInv == ASSUME ReadInv, ParseInclude PROVE ReadInv'
<1>1. /\ at \in 1..Len(Content) /\ at \in Nat /\ Line.kind = "include"
      /\ Line.name \in Includes
  BY LineTypes DEF ParseInclude
<1>2. Read(tree, cur) /\ cur \in MakefileOf /\ cur.includes \in Seq(Includes)
  BY DEF ReadInv, Read, MakefileOf
<1>3. /\ cur' \in MakefileOf /\ cur'.file = cur.file /\ cur'.dir = cur.dir
      /\ cur'.includes = Append(cur.includes, Line.name)
      /\ cur'.variables = cur.variables
  <2>. DEFINE is == Append(cur.includes, Line.name)
  <2>1. is \in Seq(Includes)
    BY <1>1, <1>2
  <2>2. cur' = [cur EXCEPT !.includes = is]
    BY <1>2 DEF ParseInclude, MakefileOf
  <2>3. QED
    <3>. HIDE DEF is
    <3>1. /\ cur' \in MakefileOf /\ cur'.file = cur.file
          /\ cur'.dir = cur.dir /\ cur'.includes = is
          /\ cur'.variables = cur.variables
      BY <1>2, <2>1, <2>2 DEF MakefileOf
    <3>2. QED
      BY <3>1 DEF is
<1>4. ASSUME NEW i \in 1..Len(cur'.includes)
      PROVE  \E j \in 1..Len(tree[cur.file]) :
                /\ tree[cur.file][j].kind = "include"
                /\ tree[cur.file][j].name = cur'.includes[i]
  <2>1. CASE i \in 1..Len(cur.includes)
    <3>1. cur'.includes[i] = cur.includes[i]
      BY <1>1, <1>2, <1>3, <2>1
    <3>2. QED
      BY <1>2, <2>1, <3>1 DEF Read
  <2>2. CASE i = Len(cur.includes) + 1
    <3>1. cur'.includes[i] = Line.name
      BY <1>1, <1>2, <1>3, <2>2
    <3>2. QED
      BY <1>1, <3>1 DEF Line, Content
  <2>3. QED
    BY <1>1, <1>2, <1>3, <2>1, <2>2
<1>5. Read(tree, cur')
  BY <1>2, <1>3, <1>4 DEF Read
<1>6. QED
  BY <1>1, <1>3, <1>5, ParseGoesOn DEF ParseInclude

LEMMA PassOverInv ==
    ASSUME ReadInv, SkipComment \/ ParseTarget PROVE ReadInv'
<1>1. /\ status = "parse" /\ at <= Len(Content)
      /\ cur' = cur /\ UNCHANGED <<tree, cwd, stack, result, status>>
  BY DEF SkipComment, ParseTarget, AtTarget
<1>2. at' \in Nat \ {0}
  BY <1>1, LineTypes DEF SkipComment, ParseTarget, Colons
<1>3. QED
  BY <1>1, <1>2, ParseGoesOn DEF ReadInv

(* The command ends with an error. *)
LEMMA FailsInv ==
    ASSUME ReadInv, ParseFails \/ ChangeDirFails \/ IncludeNotFound
    PROVE  ReadInv'
<1>1. status' = "error" /\ UNCHANGED <<tree, cwd, cur, at, stack, result>>
  BY DEF ParseFails, ChangeDirFails, IncludeNotFound
<1>2. QED
  BY <1>1 DEF ReadInv, TypeOK, TopOK

(* A step that replaces the call at the top, or the one below it, by f,    *)
(* where f agrees with what else changes.                                  *)
LEMMA TopReplaced ==
    ASSUME ReadInv, tree' = tree, result' = result, status' \in {"parse", "all"},
           cwd' \in Dirs, Read(tree, cur'), at' \in Nat \ {0},
           NEW n \in 1..Len(stack), NEW f, FrameOK(tree, f),
           Replaced(stack, n, f, stack'),
           status' = "all" => Settled(f),
           status' = "all" /\ f.n \in 1..Len(f.own.includes)
              => cwd' = f.own.dir,
           status' = "parse" =>
              /\ cwd' = f.own.dir
              /\ f.n >= 2
              /\ Len(f.kids) = f.n - 2
              /\ cur'.file = Canon[cwd'][f.own.includes[f.n - 1]]
    PROVE  ReadInv'
<1>1. StackOK(tree, stack)
  BY DEF ReadInv
<1>2. StackOK(tree, stack') /\ Len(stack') = n /\ stack'[Len(stack')] = f
  BY <1>1, ReplacedOK
<1>3. stack' # <<>> /\ Top' = f
  BY <1>2 DEF Top, StackOK
<1>4. TopOK'
  BY <1>3 DEF TopOK
<1>5. TypeOK'
  BY <1>2 DEF ReadInv, TypeOK, StackOK, Read
<1>6. QED
  BY <1>2, <1>3, <1>4, <1>5 DEF ReadInv

LEMMA RootParsedInv == ASSUME ReadInv, RootParsed PROVE ReadInv'
<1>1. /\ stack = <<>> /\ stack' = <<NewCall(cur)>> /\ status' = "all"
      /\ UNCHANGED <<tree, cwd, cur, at, result>>
  BY DEF RootParsed
<1>2. FrameOK(tree, NewCall(cur))
  BY DEF ReadInv, Read, FrameOK, NewCall, Frames, NoVars, VarMaps,
     AllHaveOne
<1>3. NewCall(cur).n = 0
  BY DEF NewCall
<1>. DEFINE c == NewCall(cur)
<1>. HIDE DEF c
<1>4. FrameOK(tree, c) /\ c \in Frames /\ stack' = <<c>>
  BY <1>1, <1>2 DEF c, FrameOK
<1>5. stack' \in Seq(Frames) /\ Len(stack') = 1 /\ stack'[1] = c
  BY <1>4
<1>6. /\ StackOK(tree, stack') /\ Len(stack') = 1
      /\ stack'[1] = NewCall(cur)
  <2>1. 1 <= StackLimit
    BY TreeTypes
  <2>2. QED
    BY <1>4, <1>5, <2>1 DEF StackOK, c
<1>7. Top' = NewCall(cur)
  BY <1>6 DEF Top
<1>8. TopOK'
  BY <1>1, <1>3, <1>7 DEF TopOK, Settled
<1>9. QED
  BY <1>1, <1>6, <1>8 DEF ReadInv, TypeOK, StackOK

LEMMA IncludeParsedInv == ASSUME ReadInv, IncludeParsed PROVE ReadInv'
<1>1. /\ stack # <<>> /\ status = "parse" /\ status' = "all"
      /\ UNCHANGED <<tree, cwd, cur, at, result>>
  BY DEF IncludeParsed, AtEnd
<1>2. /\ FrameOK(tree, Top) /\ Top \in Frames /\ Read(tree, cur)
      /\ cur \in MakefileOf /\ Top.kids \in Seq(MakefileOf)
      /\ Top.n \in Nat /\ cwd \in Dirs
  BY <1>1, TopTypes DEF ReadInv, TypeOK
<1>3. /\ Top.n >= 2 /\ Len(Top.kids) = Top.n - 2 /\ cwd = Top.own.dir
      /\ cur.file = Canon[Top.own.dir][Top.own.includes[Top.n - 1]]
  BY <1>1, TopTypes DEF TopOK
<1>. DEFINE ks == Append(Top.kids, cur)
            f  == [Top EXCEPT !.kids = ks]
<1>4. /\ ks \in Seq(MakefileOf) /\ Len(ks) = Len(Top.kids) + 1
      /\ \A i \in 1..Len(Top.kids) : ks[i] = Top.kids[i]
      /\ ks[Len(ks)] = cur
  BY <1>2
<1>5. stack' = [stack EXCEPT ![Len(stack)] = f]
  BY <1>1, <1>2 DEF IncludeParsed, Top, Frames
<1>. HIDE DEF ks
<1>6. /\ f \in Frames /\ f.own = Top.own /\ f.n = Top.n /\ f.m = Top.m
      /\ f.final = Top.final /\ f.kids = ks
  BY <1>2, <1>4 DEF Frames
<1>. HIDE DEF f
<1>7. ASSUME NEW i \in 1..Len(ks)
      PROVE  /\ Read(tree, ks[i])
             /\ ks[i].file = Canon[Top.own.dir][Top.own.includes[i]]
  <2>1. CASE i \in 1..Len(Top.kids)
    BY <1>2, <1>4, <2>1 DEF FrameOK
  <2>2. CASE i = Len(Top.kids) + 1
    <3>1. ks[i] = cur
      BY <1>4, <2>2
    <3>2. i = Top.n - 1
      BY <1>2, <1>3, <2>2
    <3>3. QED
      BY <1>2, <1>3, <3>1, <3>2
  <2>3. QED
    BY <1>2, <1>4, <2>1, <2>2
<1>8. Len(ks) = Top.n - 1
  BY <1>2, <1>3, <1>4
<1>9. FrameOK(tree, f)
  BY <1>2, <1>6, <1>7, <1>8 DEF FrameOK
<1>10. Replaced(stack, Len(stack), f, stack') /\ Len(stack) \in 1..Len(stack)
  BY <1>1, <1>5, <1>6, TopTypes, ReplaceTop DEF ReadInv, TypeOK
<1>11. QED
  BY <1>1, <1>2, <1>3, <1>6, <1>8, <1>9, <1>10, TopReplaced
     DEF ReadInv, TypeOK, Settled

(* The call moves on to its first include. *)
LEMMA StartReadingInv ==
    ASSUME ReadInv, ChangeDir \/ NothingToInclude PROVE ReadInv'
<1>1. /\ status = "all" /\ status' = "all" /\ stack # <<>> /\ Top.n = 0
      /\ stack' = [stack EXCEPT ![Len(stack)].n = 1]
      /\ UNCHANGED <<tree, cur, at, result>>
  BY DEF ChangeDir, NothingToInclude, ReadInv
<1>2. /\ FrameOK(tree, Top) /\ Top \in Frames /\ cwd \in Dirs
      /\ Len(stack) \in 1..Len(stack) /\ stack \in Seq(Frames)
      /\ Top.own \in MakefileOf
  BY <1>1, TopTypes DEF ReadInv, TypeOK
<1>3. /\ cwd' \in Dirs
      /\ Top.own.includes # <<>> => cwd' = Top.own.dir /\ Top.own.dir # None
  BY <1>1, <1>2 DEF ChangeDir, NothingToInclude, MakefileOf
<1>. DEFINE f == [Top EXCEPT !.n = 1]
<1>4. stack' = [stack EXCEPT ![Len(stack)] = f]
  BY <1>1, <1>2 DEF Top, Frames
<1>5. /\ f \in Frames /\ f.own = Top.own /\ f.n = 1 /\ f.m = Top.m
      /\ f.final = Top.final /\ f.kids = Top.kids
  BY <1>2 DEF Frames
<1>. HIDE DEF f
<1>6. Top.kids \in Seq(MakefileOf) /\ Top.own.includes \in Seq(Includes)
  BY <1>2 DEF Frames, MakefileOf
<1>7. Top.kids = <<>>
  BY <1>1, <1>2, <1>6 DEF FrameOK
<1>8. FrameOK(tree, f) /\ Settled(f)
  BY <1>2, <1>3, <1>5, <1>6, <1>7 DEF FrameOK, Settled
<1>9. Replaced(stack, Len(stack), f, stack')
  BY <1>2, <1>4, <1>5, ReplaceTop
<1>10. f.n \in 1..Len(f.own.includes) => cwd' = f.own.dir
  BY <1>3, <1>5, <1>6
<1>11. QED
  BY <1>1, <1>2, <1>3, <1>8, <1>9, <1>10, TopReplaced DEF ReadInv, TypeOK

(* The include is looked up from the directory of the including makefile. *)
LEMMA OpenIncludeInv == ASSUME ReadInv, OpenInclude PROVE ReadInv'
<1>1. /\ status = "all" /\ stack # <<>> /\ Included # None
      /\ Top.n \in 1..Len(Top.own.includes)
      /\ cur' = Fresh(Included, DirOf[Included]) /\ at' = 1
      /\ stack' = [stack EXCEPT ![Len(stack)].n = @ + 1]
      /\ status' = "parse" /\ UNCHANGED <<tree, cwd, result>>
  BY DEF OpenInclude, AtInclude, ReadInv
<1>2. /\ FrameOK(tree, Top) /\ Top \in Frames /\ cwd \in Dirs
      /\ Len(stack) \in 1..Len(stack) /\ stack \in Seq(Frames)
      /\ Top.own \in MakefileOf /\ TopOK /\ tree \in Trees
  BY <1>1, TopTypes DEF ReadInv, TypeOK
<1>3. /\ Top.own.includes \in Seq(Includes) /\ Top.n \in Nat
      /\ Top.kids \in Seq(MakefileOf)
  BY <1>2 DEF MakefileOf, Frames
<1>4. cwd = Top.own.dir /\ Len(Top.kids) = Top.n - 1
  BY <1>1, <1>2, <1>3 DEF TopOK, Settled
<1>5. Included \in Files
  <2>1. Top.own.includes[Top.n] \in Includes
    BY <1>1, <1>3
  <2>2. Canon[cwd][Top.own.includes[Top.n]] \in Files \cup {None}
    BY <1>2, <2>1, TreeTypes
  <2>3. QED
    BY <1>1, <2>2 DEF Included
<1>6. Read(tree, cur') /\ cur'.file = Included
  <2>1. DirOf[Included] \in Dirs \cup {None}
    BY <1>5, TreeTypes
  <2>2. QED
    BY <1>1, <1>2, <1>5, <2>1, FreshRead DEF Fresh
<1>. DEFINE k == Top.n + 1
            f == [Top EXCEPT !.n = k]
<1>7. stack' = [stack EXCEPT ![Len(stack)] = f]
  BY <1>1, <1>2 DEF Top, Frames
<1>8. /\ f \in Frames /\ f.own = Top.own /\ f.n = k /\ k = Top.n + 1
      /\ f.m = Top.m /\ f.final = Top.final /\ f.kids = Top.kids
  <2>1. k \in Nat /\ k = Top.n + 1
    BY <1>3
  <2>. HIDE DEF k
  <2>2. QED
    BY <1>2, <2>1 DEF Frames
<1>. HIDE DEF k
<1>. HIDE DEF f
<1>9. FrameOK(tree, f)
  BY <1>1, <1>2, <1>3, <1>4, <1>8 DEF FrameOK
<1>10. Replaced(stack, Len(stack), f, stack')
  BY <1>2, <1>7, <1>8, ReplaceTop
<1>11. /\ f.n >= 2 /\ Len(f.kids) = f.n - 2 /\ cwd' = f.own.dir
       /\ f.n - 1 = Top.n
  BY <1>1, <1>3, <1>4, <1>8
<1>12. cur'.file = Canon[cwd'][f.own.includes[f.n - 1]]
  BY <1>1, <1>6, <1>8, <1>11 DEF Included
<1>13. /\ tree' = tree /\ result' = result /\ status' = "parse"
       /\ cwd' \in Dirs /\ at' \in Nat \ {0}
  BY <1>1, <1>2
<1>14. QED
  BY <1>2, <1>6, <1>9, <1>10, <1>11, <1>12, <1>13, TopReplaced

(* A call that has read all its includes, with the makefile it is at. *)
LEMMA KidTypes ==
    ASSUME ReadInv, AtKid
    PROVE  /\ stack # <<>> /\ Len(stack) \in 1..Len(stack)
           /\ FrameOK(tree, Top) /\ Top \in Frames /\ AllRead(Top)
           /\ Top.m \in 1..Len(Top.kids)
           /\ Kid = Top.kids[Top.m] /\ Read(tree, Kid)
           /\ Top.own.dir # None
           /\ Top.m \in 1..Len(Top.own.includes)
           /\ Kid.file = Canon[Top.own.dir][Top.own.includes[Top.m]]
<1>1. status = "all" /\ stack # <<>>
  BY DEF AtKid, ReadInv
<1>2. /\ Len(stack) \in 1..Len(stack) /\ FrameOK(tree, Top)
      /\ Top \in Frames /\ TopOK /\ Top.own \in MakefileOf
  BY <1>1, TopTypes
<1>3. /\ Top.own.includes \in Seq(Includes) /\ Top.n \in Nat
      /\ Top.kids \in Seq(MakefileOf) /\ Top.m \in Nat
  BY <1>2 DEF MakefileOf, Frames
<1>4. AllRead(Top)
  BY <1>1, <1>2 DEF AtKid, TopOK, AllRead
<1>5. Top.m \in 1..Len(Top.kids)
  BY <1>2, <1>3 DEF AtKid, FrameOK
<1>6. /\ Len(Top.kids) = Top.n - 1 /\ Top.n <= Len(Top.own.includes) + 1
      /\ Top.n # 0
  BY <1>2, <1>3, <1>4, <1>5 DEF AllRead, Settled, FrameOK
<1>7. Top.m \in 1..Len(Top.own.includes)
  BY <1>3, <1>5, <1>6
<1>8. Top.own.dir # None
  BY <1>2, <1>3, <1>6, <1>7 DEF FrameOK
<1>9. QED
  BY <1>1, <1>2, <1>4, <1>5, <1>7, <1>8 DEF FrameOK, Kid

(* A makefile is merged into final_makefile and the call goes on. *)
LEMMA FrameMerged ==
    ASSUME NEW t, NEW f, FrameOK(t, f), AllRead(f),
           NEW vs \in VarMaps, AllHaveOne(vs)
    PROVE  LET g == [f EXCEPT !.final = Merge(@, vs), !.m = @ + 1] IN
           /\ FrameOK(t, g) /\ AllRead(g) /\ g \in Frames
           /\ g.own = f.own /\ g.n = f.n
<1>. DEFINE fin == Merge(f.final, vs)
            k   == f.m + 1
            g   == [f EXCEPT !.final = fin, !.m = k]
<1>1. f \in Frames /\ k \in Nat /\ k # 0 /\ f.final \in VarMaps /\ AllHaveOne(f.final)
  BY DEF FrameOK, Frames
<1>2. fin \in VarMaps /\ AllHaveOne(fin)
  BY <1>1, MergeHasOne
<1>3. [f EXCEPT !.final = Merge(@, vs), !.m = @ + 1] = g
  BY <1>1 DEF Frames
<1>. HIDE DEF fin, k
<1>4. /\ g \in Frames /\ g.own = f.own /\ g.n = f.n /\ g.m = k
      /\ g.final = fin /\ g.kids = f.kids
  BY <1>1, <1>2 DEF Frames
<1>. HIDE DEF g
<1>5. FrameOK(t, g) /\ AllRead(g)
  BY <1>1, <1>2, <1>4 DEF FrameOK, AllRead, Settled
<1>6. QED
  BY <1>3, <1>4, <1>5

LEMMA MergeLeafInv == ASSUME ReadInv, MergeLeaf PROVE ReadInv'
<1>1. /\ Len(stack) \in 1..Len(stack) /\ FrameOK(tree, Top) /\ AllRead(Top)
      /\ Top \in Frames /\ Read(tree, Kid)
  BY KidTypes DEF MergeLeaf
<1>2. Kid.variables \in VarMaps /\ AllHaveOne(Kid.variables)
  BY <1>1 DEF Read, MakefileOf
<1>. DEFINE f == [Top EXCEPT !.final = Merge(@, Kid.variables), !.m = @ + 1]
<1>3. FrameOK(tree, f) /\ AllRead(f) /\ f \in Frames
  BY <1>1, <1>2, FrameMerged
<1>4. stack' = [stack EXCEPT ![Len(stack)] = f]
  BY <1>1 DEF MergeLeaf, Top, Frames
<1>. HIDE DEF f
<1>5. stack \in Seq(Frames) /\ Len(stack) \in 1..Len(stack)
  BY <1>1 DEF ReadInv, TypeOK
<1>6. Replaced(stack, Len(stack), f, stack')
  BY <1>3, <1>4, <1>5, ReplaceTop
<1>7. /\ Settled(f) /\ f.n \notin 1..Len(f.own.includes)
  BY <1>3 DEF AllRead
<1>8. /\ tree' = tree /\ result' = result /\ status' = "all"
      /\ cwd' \in Dirs /\ at' \in Nat \ {0} /\ Read(tree, cur')
  BY DEF MergeLeaf, AtKid, ReadInv, TypeOK
<1>9. QED
  BY <1>3, <1>5, <1>6, <1>7, <1>8, TopReplaced

LEMMA RecurseInv == ASSUME ReadInv, Recurse PROVE ReadInv'
<1>1. /\ stack # <<>> /\ Len(stack) \in 1..Len(stack) /\ AllRead(Top)
      /\ Read(tree, Kid) /\ Len(stack) < StackLimit
      /\ stack' = Append(stack, NewCall(Kid))
      /\ status = "all" /\ UNCHANGED <<tree, cwd, cur, at, result, status>>
  BY KidTypes DEF Recurse, AtKid
<1>2. FrameOK(tree, NewCall(Kid)) /\ NewCall(Kid).n = 0
  BY <1>1 DEF Read, FrameOK, NewCall, Frames, NoVars, VarMaps, AllHaveOne
<1>3. StackOK(tree, stack) /\ AllRead(stack[Len(stack)])
  BY <1>1 DEF ReadInv, Top
<1>4. /\ StackOK(tree, stack') /\ Len(stack') = Len(stack) + 1
      /\ stack'[Len(stack) + 1] = NewCall(Kid)
  BY <1>1, <1>2, <1>3, PushedOK
<1>5. Top' = NewCall(Kid) /\ stack' # <<>>
  BY <1>1, <1>4 DEF Top, StackOK
<1>6. TopOK'
  BY <1>1, <1>2, <1>5 DEF TopOK, Settled
<1>7. QED
  BY <1>1, <1>4, <1>5, <1>6 DEF ReadInv, TypeOK, StackOK

LEMMA OverflowInv == ASSUME ReadInv, Overflow PROVE ReadInv'
<1>1. /\ stack # <<>> /\ status' = "overflow"
      /\ UNCHANGED <<tree, cwd, cur, at, stack, result>>
  BY KidTypes DEF Overflow
<1>2. QED
  BY <1>1 DEF ReadInv, TypeOK, TopOK

(* What a call returns. *)
LEMMA ReturnedHasOne ==
    ASSUME ReadInv, AtReturn
    PROVE  /\ stack # <<>> /\ Returned \in VarMaps /\ AllHaveOne(Returned)
<1>1. stack # <<>>
  BY DEF AtReturn, ReadInv
<1>2. /\ Top.final \in VarMaps /\ AllHaveOne(Top.final)
      /\ Top.own.variables \in VarMaps /\ AllHaveOne(Top.own.variables)
  BY <1>1, TopTypes DEF FrameOK, Read, Frames, MakefileOf
<1>3. QED
  BY <1>1, <1>2, MergeHasOne DEF Returned

LEMMA ReturnInv == ASSUME ReadInv, Return PROVE ReadInv'
<1>1. /\ stack # <<>> /\ result' \in VarMaps /\ AllHaveOne(result')
      /\ status' = "done" /\ UNCHANGED <<tree, cwd, cur, at, stack>>
  BY ReturnedHasOne DEF Return
<1>2. QED
  BY <1>1 DEF ReadInv, TypeOK, TopOK

LEMMA ReturnAllInv == ASSUME ReadInv, ReturnAll PROVE ReadInv'
<1>. DEFINE n == Len(stack) - 1
            g == stack[n]
            f == [g EXCEPT !.final = Merge(@, Returned), !.m = @ + 1]
<1>1. /\ Len(stack) > 1 /\ stack \in Seq(Frames) /\ StackOK(tree, stack)
      /\ Returned \in VarMaps /\ AllHaveOne(Returned)
      /\ UNCHANGED <<tree, cwd, cur, at, result, status>> /\ status = "all"
  BY ReturnedHasOne DEF ReturnAll, AtReturn, ReadInv, TypeOK
<1>2. n \in 1..Len(stack) /\ n \in 1..Len(stack)-1
  BY <1>1
<1>3. FrameOK(tree, g) /\ AllRead(g) /\ g \in Frames
  BY <1>1, <1>2 DEF StackOK
<1>4. SubSeq(stack, 1, n)[n] = g
  BY <1>1, <1>2
<1>5. stack' = [SubSeq(stack, 1, n) EXCEPT ![n] = f]
  BY <1>3, <1>4 DEF ReturnAll, Frames
<1>. HIDE DEF n, g
<1>6. FrameOK(tree, f) /\ AllRead(f) /\ f \in Frames
  BY <1>1, <1>3, FrameMerged
<1>. HIDE DEF f
<1>7. Replaced(stack, n, f, stack')
  BY <1>1, <1>2, <1>5, <1>6, ReplaceTop
<1>8. /\ Settled(f) /\ f.n \notin 1..Len(f.own.includes)
  BY <1>6 DEF AllRead
<1>9. /\ tree' = tree /\ result' = result /\ status' = "all"
      /\ cwd' \in Dirs /\ at' \in Nat \ {0} /\ Read(tree, cur')
  BY <1>1 DEF ReadInv, TypeOK
<1>10. QED
  BY <1>2, <1>6, <1>7, <1>8, <1>9, TopReplaced

(* The invariant holds at the start and is kept by every step. *)
LEMMA InitRead == Init => ReadInv
<1>. SUFFICES ASSUME Init PROVE ReadInv
  OBVIOUS
<1>1. PICK d \in RootDirs : cur = Fresh(Root, d)
  BY DEF Init
<1>2. tree \in Trees /\ tree \in [Files -> Seq(Lines)] /\ Root \in Files
      /\ d \in Dirs \cup {None}
  BY TreeTypes DEF Init
<1>3. Read(tree, cur)
  BY <1>1, <1>2, FreshRead
<1>4. NoVars \in VarMaps /\ AllHaveOne(NoVars)
  BY DEF NoVars, VarMaps, AllHaveOne
<1>5. StackOK(tree, stack)
  BY TreeTypes DEF Init, StackOK
<1>6. QED
  BY <1>2, <1>3, <1>4, <1>5 DEF Init, ReadInv, TypeOK, Read

LEMMA NextRead == ReadInv /\ [Next]_vars => ReadInv'
<1>. SUFFICES ASSUME ReadInv, [Next]_vars PROVE ReadInv'
  OBVIOUS
<1>1. CASE UNCHANGED vars
  BY <1>1 DEF vars, ReadInv, TypeOK, TopOK, Top
<1>2. QED
  BY <1>1, ParseVariableInv, ParseDefineInv, ParseIncludeInv, PassOverInv,
     FailsInv, RootParsedInv, IncludeParsedInv, StartReadingInv,
     OpenIncludeInv, MergeLeafInv, RecurseInv, OverflowInv, ReturnInv,
     ReturnAllInv DEF Next

(***************************************************************************)
(* Every variable keeps its type, however deep parse_all nests: no file is *)
(* parsed that is none, and the process is always in a directory.          *)
(***************************************************************************)
THEOREM IncludeTypeCorrect == Spec => []TypeOK
<1>1. ReadInv => TypeOK
  BY DEF ReadInv
<1>2. QED
  BY <1>1, InitRead, NextRead, PTL DEF Spec

(***************************************************************************)
(* parse_included_makefiles looks every include up next to the makefile    *)
(* that names it, for any tree of includes, although the working directory *)
(* is the process's.                                                       *)
(***************************************************************************)
THEOREM OwnDirectory == Spec => []IncludesOfOwnDir
<1>1. ReadInv => IncludesOfOwnDir
  <2>. SUFFICES ASSUME ReadInv, NEW s \in 1..Len(stack),
                       NEW i \in 1..Len(stack[s].kids)
                PROVE  /\ stack[s].own.dir # None
                       /\ stack[s].kids[i].file =
                             Canon[stack[s].own.dir][stack[s].own.includes[i]]
    BY DEF IncludesOfOwnDir
  <2>1. FrameOK(tree, stack[s]) /\ stack[s] \in Frames
    BY DEF ReadInv, StackOK, FrameOK
  <2>2. /\ stack[s].own.includes \in Seq(Includes) /\ stack[s].n \in Nat
        /\ stack[s].kids \in Seq(MakefileOf)
    BY <2>1 DEF Frames, MakefileOf
  <2>3. QED
    BY <2>1, <2>2 DEF FrameOK
<1>2. QED
  BY <1>1, InitRead, NextRead, PTL DEF Spec

(***************************************************************************)
(* Every variable parse_all returns has one value, whatever is merged into *)
(* what: first().unwrap() on it never panics, and the lookups of the first *)
(* value and of all values see the same.                                   *)
(***************************************************************************)
THEOREM OneValueEach == Spec => []HasOneValue
<1>1. ReadInv => HasOneValue
  BY DEF ReadInv, AllHaveOne, One, HasOneValue
<1>2. QED
  BY <1>1, InitRead, NextRead, PTL DEF Spec

-----------------------------------------------------------------------------
(* The depth of the recursion. *)

(* Each call on the stack has a lower rank than the one that made it. *)
DepthOK(rank) ==
    /\ \A s \in 1..Len(stack) : rank[stack[s].own.file] + s <= StackLimit
    /\ status # "overflow"

DepthInv ==
    \A rank \in [Files -> 0..StackLimit-1] : Ranked(rank) => DepthOK(rank)

(* A makefile that parse_all calls itself for has a lower rank than the    *)
(* one that includes it.                                                   *)
LEMMA KidRank ==
    ASSUME ReadInv, AtKid, NEW rank \in [Files -> 0..StackLimit-1],
           Ranked(rank)
    PROVE  /\ Kid.file \in Files /\ Top.own.file \in Files
           /\ rank[Kid.file] < rank[Top.own.file]
<1>. DEFINE own == Top.own
            inc == own.includes[Top.m]
<1>1. /\ Read(tree, Kid) /\ Read(tree, own) /\ own.dir # None
      /\ Top.m \in 1..Len(own.includes) /\ Kid.file = Canon[own.dir][inc]
  BY KidTypes DEF FrameOK
<1>2. /\ Kid.file \in Files /\ own.file \in Files /\ own.dir \in Dirs
  BY <1>1 DEF Read, MakefileOf
<1>3. PICK j \in 1..Len(tree[own.file]) :
         tree[own.file][j].kind = "include" /\ tree[own.file][j].name = inc
  BY <1>1 DEF Read
<1>4. own.dir = DirOf[own.file] \/ own.file = Root
  BY <1>1 DEF Read
<1>5. Canon[own.dir][inc] # None
  BY <1>1, <1>2, TreeTypes
<1>. HIDE DEF own, inc
<1>6. rank[Canon[own.dir][inc]] < rank[own.file]
  BY <1>2, <1>3, <1>4, <1>5 DEF Ranked
<1>7. rank[Kid.file] < rank[own.file]
  BY <1>1, <1>6
<1>8. QED
  BY <1>2, <1>7 DEF own

(* A step that makes no call. *)
LEMMA NoCallDepth ==
    ASSUME DepthInv, tree' = tree, status' # "overflow",
           Len(stack) \in Nat, Len(stack') \in Nat,
           Len(stack') <= Len(stack),
           \A s \in 1..Len(stack') : stack'[s].own = stack[s].own
    PROVE  DepthInv'
<1>1. ASSUME NEW rank \in [Files -> 0..StackLimit-1], Ranked(rank)
      PROVE  DepthOK(rank)'
  BY <1>1 DEF DepthInv, DepthOK
<1>2. QED
  BY <1>1 DEF DepthInv, Ranked

(* The stack with one call replaced by one for the same makefile. *)
LEMMA SameOwn ==
    ASSUME ReadInv, IncludeParsed \/ ChangeDir \/ NothingToInclude \/ OpenInclude
                    \/ MergeLeaf \/ ReturnAll
    PROVE  /\ Len(stack') \in Nat /\ Len(stack') <= Len(stack)
           /\ \A s \in 1..Len(stack') : stack'[s].own = stack[s].own
<1>1. stack \in Seq(Frames) /\ Len(stack) \in Nat
  BY DEF ReadInv, TypeOK
<1>2. CASE IncludeParsed \/ ChangeDir \/ NothingToInclude \/ OpenInclude
           \/ MergeLeaf
  <2>1. stack # <<>>
    BY <1>2 DEF IncludeParsed, ChangeDir, NothingToInclude, OpenInclude,
       AtInclude, MergeLeaf, AtKid, ReadInv
  <2>2. Top \in Frames /\ Len(stack) \in 1..Len(stack)
    BY <2>1, TopTypes
  <2>3. \E f : f.own = Top.own /\ stack' = [stack EXCEPT ![Len(stack)] = f]
    <3>1. CASE IncludeParsed
      <4>. DEFINE f == [Top EXCEPT !.kids = Append(@, cur)]
      <4>1. f.own = Top.own /\ stack' = [stack EXCEPT ![Len(stack)] = f]
        BY <2>2, <3>1 DEF IncludeParsed, Top, Frames
      <4>2. QED
        BY <4>1
    <3>2. CASE ChangeDir \/ NothingToInclude
      <4>. DEFINE f == [Top EXCEPT !.n = 1]
      <4>1. f.own = Top.own /\ stack' = [stack EXCEPT ![Len(stack)] = f]
        BY <2>2, <3>2 DEF ChangeDir, NothingToInclude, Top, Frames
      <4>2. QED
        BY <4>1
    <3>3. CASE OpenInclude
      <4>. DEFINE f == [Top EXCEPT !.n = @ + 1]
      <4>1. f.own = Top.own /\ stack' = [stack EXCEPT ![Len(stack)] = f]
        BY <2>2, <3>3 DEF OpenInclude, Top, Frames
      <4>2. QED
        BY <4>1
    <3>4. CASE MergeLeaf
      <4>. DEFINE f == [Top EXCEPT !.final = Merge(@, Kid.variables),
                                   !.m = @ + 1]
      <4>1. f.own = Top.own /\ stack' = [stack EXCEPT ![Len(stack)] = f]
        BY <2>2, <3>4 DEF MergeLeaf, Top, Frames
      <4>2. QED
        BY <4>1
    <3>5. QED
      BY <1>2, <3>1, <3>2, <3>3, <3>4
  <2>4. PICK f : f.own = Top.own /\ stack' = [stack EXCEPT ![Len(stack)] = f]
    BY <2>3
  <2>5. stack \in Seq(Frames \cup {f})
    BY <1>1, SeqMonotonic
  <2>6. /\ Len(stack') = Len(stack)
        /\ \A s \in 1..Len(stack) :
              stack'[s] = IF s = Len(stack) THEN f ELSE stack[s]
    BY <2>2, <2>4, <2>5, ExceptSeq
  <2>7. ASSUME NEW s \in 1..Len(stack) PROVE stack'[s].own = stack[s].own
    <3>1. CASE s = Len(stack)
      BY <2>4, <2>6, <3>1 DEF Top
    <3>2. CASE s # Len(stack)
      BY <2>6, <3>2
    <3>3. QED
      BY <3>1, <3>2
  <2>8. QED
    BY <1>1, <2>6, <2>7
<1>3. CASE ReturnAll
  <2>. DEFINE n   == Len(stack) - 1
              low == SubSeq(stack, 1, n)
              f   == [low[n] EXCEPT !.final = Merge(@, Returned), !.m = @ + 1]
  <2>1. n \in 1..Len(stack) /\ n <= Len(stack)
    BY <1>1, <1>3 DEF ReturnAll
  <2>2. /\ low \in Seq(Frames) /\ Len(low) = n
        /\ \A s \in 1..n : low[s] = stack[s]
    BY <1>1, <2>1
  <2>3. n \in 1..Len(low) /\ low[n] \in Frames
    BY <2>1, <2>2
  <2>4. f.own = low[n].own
    <3>. HIDE DEF low, n
    <3>. QED BY <2>3 DEF Frames
  <2>5. stack' = [low EXCEPT ![n] = f]
    BY <1>3, <2>3 DEF ReturnAll, Frames
  <2>. HIDE DEF n, low, f
  <2>6. low \in Seq(Frames \cup {f})
    BY <2>2, SeqMonotonic
  <2>7. /\ Len(stack') = Len(low)
        /\ \A s \in 1..Len(low) : stack'[s] = IF s = n THEN f ELSE low[s]
    BY <2>3, <2>5, <2>6, ExceptSeq
  <2>8. QED
    BY <2>1, <2>2, <2>4, <2>7
<1>4. QED
  BY <1>2, <1>3

LEMMA RecurseDepth ==
    ASSUME ReadInv, DepthInv, Recurse
    PROVE  DepthInv'
<1>1. /\ AtKid /\ Len(stack) \in Nat /\ Len(stack) \in 1..Len(stack)
      /\ Len(stack) < StackLimit /\ tree' = tree /\ status' = "all"
      /\ stack \in Seq(Frames) /\ stack' = Append(stack, NewCall(Kid))
  BY KidTypes DEF Recurse, AtKid, ReadInv, TypeOK
<1>2. /\ StackOK(tree, stack) /\ FrameOK(tree, NewCall(Kid))
      /\ AllRead(stack[Len(stack)]) /\ NewCall(Kid).own = Kid
  <2>1. StackOK(tree, stack) /\ AllRead(stack[Len(stack)]) /\ Read(tree, Kid)
    BY <1>1, KidTypes DEF ReadInv, Top
  <2>2. FrameOK(tree, NewCall(Kid)) /\ NewCall(Kid).own = Kid
    BY <2>1 DEF Read, FrameOK, NewCall, Frames, NoVars, VarMaps, AllHaveOne
  <2>3. QED
    BY <2>1, <2>2
<1>3. /\ Len(stack') = Len(stack) + 1 /\ stack'[Len(stack) + 1].own = Kid
      /\ \A s \in 1..Len(stack) : stack'[s] = stack[s]
  BY <1>1, <1>2, PushedOK
<1>4. ASSUME NEW rank \in [Files -> 0..StackLimit-1], Ranked(rank)
      PROVE  DepthOK(rank)'
  <2>1. /\ Kid.file \in Files /\ Top.own.file \in Files
        /\ rank[Kid.file] < rank[Top.own.file]
    BY <1>1, <1>4, KidRank
  <2>2. DepthOK(rank)
    BY <1>4 DEF DepthInv
  <2>3. rank[Top.own.file] + Len(stack) <= StackLimit
    BY <1>1, <2>2 DEF DepthOK, Top
  <2>4. rank[Kid.file] + (Len(stack) + 1) <= StackLimit
    BY <1>1, <2>1, <2>3, TreeTypes
  <2>5. QED
    BY <1>1, <1>3, <2>2, <2>4 DEF DepthOK
<1>5. QED
  BY <1>1, <1>4 DEF DepthInv, Ranked

(* The stack runs out only below a call of rank 0, which makes none. *)
LEMMA OverflowDepth ==
    ASSUME ReadInv, DepthInv, Overflow
    PROVE  DepthInv'
<1>1. /\ AtKid /\ Len(stack) \in 1..Len(stack) /\ Len(stack) = StackLimit
      /\ tree' = tree
  BY KidTypes DEF Overflow
<1>2. ASSUME NEW rank \in [Files -> 0..StackLimit-1], Ranked(rank)
      PROVE  FALSE
  <2>1. /\ Kid.file \in Files /\ Top.own.file \in Files
        /\ rank[Kid.file] < rank[Top.own.file]
    BY <1>1, <1>2, KidRank
  <2>2. rank[Top.own.file] + Len(stack) <= StackLimit
    BY <1>1, <1>2 DEF DepthInv, DepthOK, Top
  <2>3. QED
    BY <1>1, <2>1, <2>2, TreeTypes
<1>3. QED
  BY <1>1, <1>2 DEF DepthInv, Ranked

LEMMA NextDepth == ReadInv /\ DepthInv /\ [Next]_vars => DepthInv'
<1>. SUFFICES ASSUME ReadInv, DepthInv, [Next]_vars PROVE DepthInv'
  OBVIOUS
<1>1. Len(stack) \in Nat
  BY DEF ReadInv, TypeOK
<1>2. CASE ParseVariable \/ ParseDefine \/ ParseInclude \/ SkipComment
           \/ ParseTarget \/ ParseFails \/ ChangeDirFails \/ IncludeNotFound
           \/ Return
  <2>1. tree' = tree /\ stack' = stack /\ status' # "overflow"
    BY <1>2 DEF ParseVariable, ParseDefine, ParseInclude, SkipComment,
       ParseTarget, AtTarget, ParseFails, ChangeDirFails, IncludeNotFound,
       Return
  <2>2. QED
    BY <1>1, <2>1, NoCallDepth
<1>3. CASE IncludeParsed \/ ChangeDir \/ NothingToInclude \/ OpenInclude
           \/ MergeLeaf \/ ReturnAll
  <2>1. tree' = tree /\ status' # "overflow"
    BY <1>3 DEF IncludeParsed, AtEnd, ChangeDir, NothingToInclude, OpenInclude,
       MergeLeaf, AtKid, ReturnAll, AtReturn
  <2>2. QED
    BY <1>1, <1>3, <2>1, SameOwn, NoCallDepth
<1>4. CASE RootParsed
  <2>1. /\ tree' = tree /\ status' = "all" /\ Len(stack') = 1
        /\ stack'[1].own = cur /\ cur.file \in Files
    BY <1>4 DEF RootParsed, NewCall, ReadInv, Read, MakefileOf
  <2>2. QED
    BY <2>1, TreeTypes DEF DepthInv, DepthOK, Ranked
<1>5. CASE UNCHANGED vars
  BY <1>5 DEF DepthInv, DepthOK, Ranked, vars
<1>6. QED
  BY <1>2, <1>3, <1>4, <1>5, RecurseDepth, OverflowDepth DEF Next

(***************************************************************************)
(* For any makefiles: if they can be ranked so that every one includes     *)
(* lower ranks only, parse_all never runs out of a stack that has room for *)
(* as many nested calls as there are ranks.                                *)
(***************************************************************************)
THEOREM NoOverflowWithoutIncludeCycle == Spec => []OverflowOnlyOnIncludeCycle
<1>1. Init => DepthInv
  BY DEF Init, DepthInv, DepthOK
<1>2. DepthInv => OverflowOnlyOnIncludeCycle
  BY DEF DepthInv, DepthOK, OverflowOnlyOnIncludeCycle
<1>3. QED
  BY <1>1, <1>2, InitRead, NextRead, NextDepth, PTL DEF Spec

-----------------------------------------------------------------------------
(* The lines of a file at which something starts. *)

LEMMA LastFacts ==
    ASSUME NEW n \in Nat, NEW S \in SUBSET (1..n), S # {}
    PROVE  LastOf(S) \in S /\ \A j \in S : j <= LastOf(S)
<1>1. \E i \in S : \A j \in S : j <= i
  BY LastIndex
<1>2. QED
  BY <1>1 DEF LastOf

LEMMA LastIs ==
    ASSUME NEW n \in Nat, NEW S \in SUBSET (1..n), NEW i \in S, \A j \in S : j <= i
    PROVE  LastOf(S) = i
<1>1. LastOf(S) \in S /\ i <= LastOf(S) /\ LastOf(S) <= i
  BY LastFacts
<1>0. \A j \in S : j \in Nat
  OBVIOUS
<1>2. LastOf(S) \in Nat /\ i \in Nat
  BY <1>0, <1>1
<1>3. QED
  BY ONLY <1>1, <1>2

LEMMA FirstFacts ==
    ASSUME NEW n \in Nat, NEW S \in SUBSET (1..n), S # {}
    PROVE  FirstOf(S) \in S /\ \A j \in S : FirstOf(S) <= j
<1>1. \E i \in S : \A j \in S : i <= j
  BY FirstIndex
<1>2. QED
  BY <1>1 DEF FirstOf

LEMMA FirstIs ==
    ASSUME NEW n \in Nat, NEW S \in SUBSET (1..n), NEW i \in S, \A j \in S : i <= j
    PROVE  FirstOf(S) = i
<1>1. FirstOf(S) \in S /\ i <= FirstOf(S) /\ FirstOf(S) <= i
  BY FirstFacts
<1>0. \A j \in S : j \in Nat
  OBVIOUS
<1>2. FirstOf(S) \in Nat /\ i \in Nat
  BY <1>0, <1>1
<1>3. QED
  BY ONLY <1>1, <1>2

(* What starts at a line ends there or later. *)
LEMMA EndOfRange ==
    ASSUME NEW ls, Len(ls) \in Nat, NEW i \in 1..Len(ls)
    PROVE  EndOf(ls, i) \in i..Len(ls)
<1>. DEFINE n == Len(ls)
            C == Closing(ls, i)
            T == {j \in i..n : ls[j].colon \/ j = n}
<1>1. CASE ls[i].kind \in {"set", "add", "include", "comment"}
  BY <1>1 DEF EndOf
<1>2. CASE /\ ls[i].kind \notin {"set", "add", "include", "comment"}
           /\ Defines(ls, i)
  <2>1. C # {} /\ EndOf(ls, i) = FirstOf(C)
    BY <1>2 DEF Defines, EndOf
  <2>2. C \in SUBSET (1..n) /\ \A j \in C : j \in i..n
    BY DEF Closing
  <2>. HIDE DEF C
  <2>3. FirstOf(C) \in C
    BY <2>1, <2>2, FirstFacts
  <2>4. QED
    BY <2>1, <2>2, <2>3
<1>3. CASE /\ ls[i].kind \notin {"set", "add", "include", "comment"}
           /\ ~Defines(ls, i)
  <2>1. T \in SUBSET (1..n) /\ n \in T /\ \A j \in T : j \in i..n
    OBVIOUS
  <2>2. EndOf(ls, i) = FirstOf(T)
    BY <1>3 DEF EndOf
  <2>. HIDE DEF T
  <2>3. FirstOf(T) \in T
    BY <2>1, FirstFacts
  <2>4. QED
    BY <2>1, <2>2, <2>3
<1>4. QED
  BY <1>1, <1>2, <1>3

(* S holds the first line and with every one the next at which something starts. *)
ClosedUnderEnds(ls, S) ==
    /\ 1 \in S
    /\ \A j \in S : EndOf(ls, j) # Len(ls) => EndOf(ls, j) + 1 \in S

LEMMA StartsLeast ==
    ASSUME NEW ls, NEW S \in SUBSET (1..Len(ls)), ClosedUnderEnds(ls, S)
    PROVE  Starts(ls) \subseteq S
BY DEF Starts, ClosedUnderEnds

LEMMA StartsClosed ==
    ASSUME NEW ls, Len(ls) \in Nat
    PROVE  /\ Starts(ls) \subseteq 1..Len(ls)
           /\ 1 <= Len(ls) => 1 \in Starts(ls)
           /\ \A i \in Starts(ls) :
                 EndOf(ls, i) # Len(ls) => EndOf(ls, i) + 1 \in Starts(ls)
<1>1. Starts(ls) \subseteq 1..Len(ls)
  BY DEF Starts
<1>2. 1 <= Len(ls) => 1 \in Starts(ls)
  BY DEF Starts
<1>3. ASSUME NEW i \in Starts(ls), EndOf(ls, i) # Len(ls)
      PROVE  EndOf(ls, i) + 1 \in Starts(ls)
  <2>. DEFINE k == EndOf(ls, i) + 1
  <2>1. k \in 1..Len(ls)
    BY <1>1, <1>3, EndOfRange
  <2>2. ASSUME NEW S \in SUBSET (1..Len(ls)), ClosedUnderEnds(ls, S) PROVE k \in S
    <3>1. i \in S
      BY <2>2, StartsLeast
    <3>2. QED
      BY <1>3, <2>2, <3>1 DEF ClosedUnderEnds
  <2>. HIDE DEF k
  <2>3. k \in Starts(ls)
    BY <2>1, <2>2 DEF Starts, ClosedUnderEnds
  <2>4. QED
    BY <2>3 DEF k
<1>4. QED
  BY <1>1, <1>2, <1>3

(* The lines before i are done with. *)
Boundary(ls, i) ==
    /\ i \in 1..Len(ls)+1
    /\ i <= Len(ls) => i \in Starts(ls)
    /\ \A j \in Starts(ls) : j < i => EndOf(ls, j) < i

LEMMA FirstBoundary ==
    ASSUME NEW ls, Len(ls) \in Nat
    PROVE  Boundary(ls, 1)
<1>1. \A j \in Starts(ls) : ~(j < 1)
  BY StartsClosed
<1>2. QED
  BY <1>1, StartsClosed DEF Boundary

(* From one start to the next. *)
LEMMA NextBoundary ==
    ASSUME NEW ls, Len(ls) \in Nat, NEW i \in 1..Len(ls), Boundary(ls, i)
    PROVE  /\ Boundary(ls, EndOf(ls, i) + 1)
           /\ i \in Starts(ls)
           /\ \A j \in Starts(ls) : j < EndOf(ls, i) + 1 <=> j < i \/ j = i
<1>. DEFINE n == Len(ls)
            k == EndOf(ls, i) + 1
            S == {j \in Starts(ls) : j <= i \/ j >= k}
<1>1. /\ k \in 1..n+1 /\ i < k /\ i \in Starts(ls) /\ i \in Nat
      /\ Starts(ls) \subseteq 1..n
  BY EndOfRange, StartsClosed DEF Boundary
<1>2. ASSUME NEW j \in S, EndOf(ls, j) # n PROVE EndOf(ls, j) + 1 \in S
  <2>1. j \in 1..n /\ j \in Starts(ls) /\ j \in Nat
    BY <1>1
  <2>2. EndOf(ls, j) \in j..n /\ EndOf(ls, j) + 1 \in Starts(ls)
    BY <1>2, <2>1, EndOfRange, StartsClosed
  <2>3. CASE j < i
    <3>1. EndOf(ls, j) < i
      BY <2>1, <2>3 DEF Boundary
    <3>2. EndOf(ls, j) + 1 <= i
      BY <1>1, <2>2, <3>1
    <3>3. QED
      BY <2>2, <3>2
  <2>4. CASE j = i
    BY <2>2, <2>4
  <2>5. CASE j >= k
    BY <1>1, <2>2, <2>5
  <2>6. QED
    BY <1>1, <2>1, <2>3, <2>4, <2>5
<1>3. ClosedUnderEnds(ls, S)
  <2>1. 1 \in S
    BY <1>1, StartsClosed
  <2>2. QED
    BY <1>2, <2>1 DEF ClosedUnderEnds
<1>4. S \in SUBSET (1..n)
  BY <1>1
<1>5. Starts(ls) \subseteq S
  <2>. HIDE DEF S, k
  <2>. QED BY <1>3, <1>4, StartsLeast
<1>6. \A j \in Starts(ls) : j \in Nat /\ (j < k <=> j < i \/ j = i)
  BY <1>1, <1>5
<1>7. k <= n => k \in Starts(ls)
  BY <1>1, StartsClosed, EndOfRange
<1>8. ASSUME NEW j \in Starts(ls), j < k PROVE EndOf(ls, j) < k
  <2>1. CASE j < i
    <3>1. EndOf(ls, j) < i /\ EndOf(ls, j) \in j..n
      BY <1>1, <2>1, EndOfRange DEF Boundary
    <3>2. QED
      BY <1>1, <3>1
  <2>2. CASE j = i
    BY <2>2, EndOfRange
  <2>3. QED
    BY <1>6, <1>8, <2>1, <2>2
<1>. HIDE DEF k
<1>9. Boundary(ls, k)
  BY <1>1, <1>7, <1>8 DEF Boundary
<1>10. QED
  BY <1>1, <1>6, <1>9 DEF k

(* What a makefile holds of the lines before i. *)
DefinesBefore(ls, i, v) ==
    {j \in Starts(ls) : j < i /\ Defines(ls, j) /\ ls[j].name = v}

IncludesBefore(ls, i) == {j \in Starts(ls) : j < i /\ ls[j].kind = "include"}

VarsBefore(ls, i, vs) ==
    \A v \in Vars :
        vs[v] = IF DefinesBefore(ls, i, v) = {} THEN None
                ELSE Defined(ls, LastOf(DefinesBefore(ls, i, v)))

(* The lines pos are those of the includes, in their order. *)
Enumerates(pos, ls, i, is) ==
    /\ pos \in [1..Len(is) -> Nat]
    /\ \A a, b \in 1..Len(is) : a < b => pos[a] < pos[b]
    /\ \A a \in 1..Len(is) : /\ pos[a] \in IncludesBefore(ls, i)
                             /\ ls[pos[a]].name = is[a]
    /\ \A j \in IncludesBefore(ls, i) : \E a \in 1..Len(is) : pos[a] = j

Before(ls, i, mk) ==
    /\ VarsBefore(ls, i, mk.variables)
    /\ \E pos : Enumerates(pos, ls, i, mk.includes)

LEMMA BeforeFirst ==
    ASSUME NEW ls, Len(ls) \in Nat, NEW f, NEW d
    PROVE  Before(ls, 1, Fresh(f, d))
<1>1. \A j \in Starts(ls) : ~(j < 1)
  BY StartsClosed
<1>2. \A v : DefinesBefore(ls, 1, v) = {}
  BY <1>1 DEF DefinesBefore
<1>3. IncludesBefore(ls, 1) = {}
  BY <1>1 DEF IncludesBefore
<1>4. VarsBefore(ls, 1, NoVars)
  BY <1>2 DEF VarsBefore, NoVars
<1>5. Enumerates(<<>>, ls, 1, <<>>)
  <2>1. Len(<<>>) = 0 /\ 1..0 = {} /\ <<>> \in [1..0 -> Nat]
    OBVIOUS
  <2>2. QED
    BY <1>3, <2>1 DEF Enumerates
<1>6. Fresh(f, d).variables = NoVars /\ Fresh(f, d).includes = <<>>
  BY DEF Fresh
<1>7. QED
  BY <1>4, <1>5, <1>6 DEF Before

(* A definition. *)
LEMMA BeforeDefinition ==
    ASSUME NEW ls, Len(ls) \in Nat, NEW i \in 1..Len(ls), Boundary(ls, i),
           Defines(ls, i), NEW vs \in VarMaps, VarsBefore(ls, i, vs),
           NEW w, w = Defined(ls, i), ls[i].name \in Vars
    PROVE  VarsBefore(ls, EndOf(ls, i) + 1, [vs EXCEPT ![ls[i].name] = w])
<1>. DEFINE k == EndOf(ls, i) + 1
            us == [vs EXCEPT ![ls[i].name] = w]
<1>1. /\ i \in Starts(ls) /\ Starts(ls) \subseteq 1..Len(ls)
      /\ \A j \in Starts(ls) : j < k <=> j < i \/ j = i
  BY NextBoundary, StartsClosed
<1>. HIDE DEF k
<1>2. ASSUME NEW v \in Vars
      PROVE  us[v] = IF DefinesBefore(ls, k, v) = {} THEN None
                     ELSE Defined(ls, LastOf(DefinesBefore(ls, k, v)))
  <2>1. CASE v = ls[i].name
    <3>1. us[v] = w
      BY <2>1 DEF VarMaps
    <3>. DEFINE D == DefinesBefore(ls, k, v)
    <3>2. i \in D /\ D \in SUBSET (1..Len(ls)) /\ \A j \in D : j <= i
      BY <1>1, <2>1 DEF DefinesBefore
    <3>. HIDE DEF D, us
    <3>3. LastOf(D) = i
      BY <3>2, LastIs
    <3>4. QED
      BY <3>1, <3>2, <3>3 DEF D
  <2>2. CASE v # ls[i].name
    <3>1. us[v] = vs[v]
      BY <2>2 DEF VarMaps
    <3>2. DefinesBefore(ls, k, v) = DefinesBefore(ls, i, v)
      BY <1>1, <2>2 DEF DefinesBefore
    <3>3. QED
      BY <3>1, <3>2 DEF VarsBefore
  <2>3. QED
    BY <2>1, <2>2
<1>3. QED
  BY <1>2 DEF VarsBefore, k

LEMMA NoDefinition ==
    ASSUME NEW ls, Len(ls) \in Nat, NEW i \in 1..Len(ls), Boundary(ls, i),
           ~Defines(ls, i), NEW vs, VarsBefore(ls, i, vs)
    PROVE  VarsBefore(ls, EndOf(ls, i) + 1, vs)
<1>1. \A j \in Starts(ls) : j < EndOf(ls, i) + 1 <=> j < i \/ j = i
  BY NextBoundary
<1>2. \A v : DefinesBefore(ls, EndOf(ls, i) + 1, v) = DefinesBefore(ls, i, v)
  BY <1>1 DEF DefinesBefore
<1>3. QED
  BY <1>2 DEF VarsBefore

LEMMA NoInclude ==
    ASSUME NEW ls, Len(ls) \in Nat, NEW i \in 1..Len(ls), Boundary(ls, i),
           ls[i].kind # "include", NEW is,
           \E pos : Enumerates(pos, ls, i, is)
    PROVE  \E pos : Enumerates(pos, ls, EndOf(ls, i) + 1, is)
<1>1. \A j \in Starts(ls) : j < EndOf(ls, i) + 1 <=> j < i \/ j = i
  BY NextBoundary
<1>2. IncludesBefore(ls, EndOf(ls, i) + 1) = IncludesBefore(ls, i)
  BY <1>1 DEF IncludesBefore
<1>3. QED
  BY <1>2 DEF Enumerates

(* An include. *)
LEMMA BeforeInclude ==
    ASSUME NEW ls, Len(ls) \in Nat, NEW i \in 1..Len(ls), Boundary(ls, i),
           ls[i].kind = "include", NEW is \in Seq(Includes), ls[i].name \in Includes,
           \E pos : Enumerates(pos, ls, i, is)
    PROVE  \E pos : Enumerates(pos, ls, EndOf(ls, i) + 1, Append(is, ls[i].name))
<1>. DEFINE k == EndOf(ls, i) + 1
            N == Len(is)
            js == Append(is, ls[i].name)
<1>1. /\ i \in Starts(ls) /\ Starts(ls) \subseteq 1..Len(ls)
      /\ \A j \in Starts(ls) : j < k <=> j < i \/ j = i
  BY NextBoundary, StartsClosed
<1>. HIDE DEF k
<1>2. PICK pos : Enumerates(pos, ls, i, is)
  OBVIOUS
<1>3. /\ N \in Nat /\ Len(js) = N + 1 /\ js[N + 1] = ls[i].name
      /\ \A a \in 1..N : js[a] = is[a]
  OBVIOUS
<1>. HIDE DEF js
<1>4. /\ \A a \in 1..N : /\ pos[a] \in Nat /\ pos[a] \in IncludesBefore(ls, i)
                         /\ ls[pos[a]].name = is[a]
      /\ \A a, b \in 1..N : a < b => pos[a] < pos[b]
      /\ \A j \in IncludesBefore(ls, i) : \E a \in 1..N : pos[a] = j
  BY <1>2 DEF Enumerates
<1>. HIDE DEF N
<1>5. /\ \A j : j \in IncludesBefore(ls, k) <=> j \in IncludesBefore(ls, i) \/ j = i
      /\ \A j \in IncludesBefore(ls, i) : j < i
  BY <1>1 DEF IncludesBefore
<1>. DEFINE new == [a \in 1..N+1 |-> IF a = N + 1 THEN i ELSE pos[a]]
<1>6. /\ new \in [1..N+1 -> Nat] /\ N + 1 \in 1..N+1 /\ new[N + 1] = i
      /\ \A a \in 1..N : a \in 1..N+1 /\ a # N + 1 /\ new[a] = pos[a]
      /\ \A a \in 1..N+1 : a = N + 1 \/ a \in 1..N
  BY <1>3, <1>4
<1>. HIDE DEF new
<1>7. ASSUME NEW a \in 1..N+1, NEW b \in 1..N+1, a < b PROVE new[a] < new[b]
  <2>1. a \in 1..N
    BY <1>3, <1>7
  <2>2. CASE b \in 1..N
    BY <1>4, <1>6, <1>7, <2>1, <2>2
  <2>3. CASE b = N + 1
    BY <1>4, <1>5, <1>6, <2>1, <2>3
  <2>4. QED
    BY <1>6, <2>2, <2>3
<1>8. ASSUME NEW a \in 1..N+1
      PROVE  new[a] \in IncludesBefore(ls, k) /\ ls[new[a]].name = js[a]
  <2>1. CASE a \in 1..N
    BY <1>3, <1>4, <1>5, <1>6, <2>1
  <2>2. CASE a = N + 1
    BY <1>3, <1>5, <1>6, <2>2
  <2>3. QED
    BY <1>6, <2>1, <2>2
<1>9. ASSUME NEW j \in IncludesBefore(ls, k) PROVE \E a \in 1..N+1 : new[a] = j
  <2>1. CASE j = i
    BY <1>6, <2>1
  <2>2. CASE j # i
    BY <1>4, <1>5, <1>6, <2>2
  <2>3. QED
    BY <2>1, <2>2
<1>10. Enumerates(new, ls, k, js)
  BY <1>3, <1>6, <1>7, <1>8, <1>9 DEF Enumerates
<1>11. QED
  BY <1>10 DEF k, js
-----------------------------------------------------------------------------
(* What the makefiles give. *)

(* What a line defines is a variable. *)
LEMMA DefinedType ==
    ASSUME NEW t \in Trees, NEW f \in Files, NEW i \in 1..Len(t[f])
    PROVE  Defined(t[f], i) \in Variables /\ Defined(t[f], i) # None
<1>. DEFINE ls == t[f]
            k == EndOf(ls, i)
            body == [h \in 1..k-i-1 |-> ls[i+h].text]
<1>1. /\ Len(ls) \in Nat /\ \A j \in 1..Len(ls) : ls[j].text \in Texts \cup {None}
  BY TreeLines DEF Lines
<1>2. k \in i..Len(ls)
  BY <1>1, EndOfRange
<1>. HIDE DEF k
<1>3. body \in Seq(Texts \cup {None})
  <2>1. CASE k = i
    <3>1. 1..k-i-1 = {}
      BY <1>1, <2>1
    <3>2. body = <<>>
      BY <3>1
    <3>. HIDE DEF body
    <3>3. QED
      BY <3>2
  <2>2. CASE k # i
    <3>1. k-i-1 \in Nat /\ \A h \in 1..k-i-1 : i + h \in 1..Len(ls)
      BY <1>1, <1>2, <2>2
    <3>2. \A h \in 1..k-i-1 : ls[i+h].text \in Texts \cup {None}
      BY <1>1, <3>1
    <3>3. QED
      BY <3>1, <3>2
  <2>3. QED
    BY <2>1, <2>2
<1>4. <<ls[i].text>> \in Seq(Texts \cup {None})
  BY <1>1
<1>. DEFINE val == IF ls[i].kind = "define" THEN body ELSE <<ls[i].text>>
<1>5. val \in Seq(Texts \cup {None})
  BY <1>3, <1>4
<1>6. Defined(ls, i) = [values |-> <<val>>, mode |-> "Set"]
  BY DEF Defined, k
<1>. HIDE DEF val
<1>7. [values |-> <<val>>, mode |-> "Set"] \in Variables
  BY <1>5 DEF Variables
<1>8. QED
  BY <1>6, <1>7, TreeTypes

(* The variables that lines of the files define. *)
DefinedIn(t) == {None} \cup {Defined(t[f], i) : f \in Files, i \in Nat}
GivenMaps(t) == [Files -> [Vars -> DefinedIn(t)]]

LEMMA GivenType ==
    ASSUME NEW t \in Trees, NEW e \in GivenMaps(t), NEW f \in Files,
           NEW d \in Dirs \cup {None},
           \A i \in Starts(t[f]) : t[f][i].kind = "include" => d \in Dirs
    PROVE  Given(t, e, f, d) \in [Vars -> DefinedIn(t)]
<1>. DEFINE ls == t[f]
            own(v) == {i \in Starts(ls) : Defines(ls, i) /\ ls[i].name = v}
            inc(v) == {i \in Starts(ls) : /\ ls[i].kind = "include"
                                          /\ Canon[d][ls[i].name] # None
                                          /\ e[Canon[d][ls[i].name]][v] # None}
            val(v) == IF own(v) # {} THEN Defined(ls, LastOf(own(v)))
                      ELSE IF inc(v) # {} THEN e[Canon[d][ls[LastOf(inc(v))].name]][v]
                      ELSE None
<1>0. Given(t, e, f, d) = [v \in Vars |-> val(v)]
  BY DEF Given
<1>1. /\ Len(ls) \in Nat /\ Starts(ls) \subseteq 1..Len(ls)
      /\ \A i \in 1..Len(ls) : ls[i].kind = "include" => ls[i].name \in Includes
  <2>1. Len(ls) \in Nat
    BY TreeLines
  <2>2. QED
    BY <2>1, TreeLines, StartsClosed
<1>2. ASSUME NEW v \in Vars PROVE val(v) \in DefinedIn(t)
  <2>1. CASE own(v) # {}
    <3>1. own(v) \in SUBSET (1..Len(ls))
      BY <1>1
    <3>2. LastOf(own(v)) \in Nat
      <4>. HIDE DEF own
      <4>1. LastOf(own(v)) \in own(v)
        BY <1>1, <2>1, <3>1, LastFacts
      <4>2. QED
        BY <3>1, <4>1
    <3>. HIDE DEF own, inc
    <3>3. QED
      BY <2>1, <3>2 DEF DefinedIn
  <2>2. CASE own(v) = {} /\ inc(v) # {}
    <3>. DEFINE i == LastOf(inc(v))
    <3>1. inc(v) \in SUBSET (1..Len(ls))
      BY <1>1
    <3>2. i \in inc(v)
      <4>. HIDE DEF inc
      <4>. QED BY <1>1, <2>2, <3>1, LastFacts
    <3>3. /\ i \in 1..Len(ls) /\ i \in Starts(ls) /\ ls[i].kind = "include"
          /\ Canon[d][ls[i].name] # None
      BY <3>1, <3>2
    <3>. HIDE DEF i
    <3>4. Canon[d][ls[i].name] \in Files
      BY <1>1, <3>3, TreeTypes
    <3>5. e[Canon[d][ls[i].name]][v] \in DefinedIn(t)
      BY <3>4 DEF GivenMaps
    <3>6. val(v) = e[Canon[d][ls[i].name]][v]
      BY <2>2 DEF i
    <3>. HIDE DEF val
    <3>7. QED
      BY <3>5, <3>6
  <2>3. CASE own(v) = {} /\ inc(v) = {}
    <3>1. val(v) = None
      <4>. HIDE DEF own, inc
      <4>. QED BY <2>3
    <3>. HIDE DEF val
    <3>2. QED
      BY <3>1 DEF DefinedIn
  <2>4. QED
    BY <2>1, <2>2, <2>3
<1>. HIDE DEF val
<1>3. QED
  BY <1>0, <1>2

LEMMA DefinitionsStep ==
    ASSUME NEW t \in Trees
    PROVE  \A n \in Nat :
              /\ Definitions(t, n) \in GivenMaps(t)
              /\ Definitions(t, n + 1)
                    = [f \in Files |-> Given(t, Definitions(t, n), f, DirOf[f])]
<1>. DEFINE V == GivenMaps(t)
            c == [f \in Files |-> NoVars]
            R(x) == [f \in Files |-> Given(t, x, f, DirOf[f])]
            step == [x \in V |-> R(x)]
<1>1. c \in V
  BY DEF GivenMaps, NoVars, DefinedIn
<1>2. ASSUME NEW x \in V PROVE R(x) \in V
  <2>1. ASSUME NEW f \in Files PROVE Given(t, x, f, DirOf[f]) \in [Vars -> DefinedIn(t)]
    <3>1. DirOf[f] \in Dirs
      BY TreeTypes
    <3>2. QED
      BY <3>1, GivenType
  <2>2. QED
    BY <2>1 DEF GivenMaps
<1>. HIDE DEF V, c
<1>3. step \in [V -> V]
  BY <1>2
<1>4. \A x \in V : step[x] = R(x)
  OBVIOUS
<1>. HIDE DEF step
<1>5. PICK g \in [Nat -> V] : g[0] = c /\ \A n \in Nat : g[n + 1] = step[g[n]]
  <2>1. \E g : Iterates(g, V, c, step)
    BY <1>1, <1>3, Iteration
  <2>2. QED
    BY <2>1 DEF Iterates
<1>6. ASSUME NEW n \in Nat PROVE Definitions(t, n) = g[n]
  <2>. DEFINE F(x) == [k \in 0..n |-> IF k = 0 THEN c ELSE R(x[k-1])]
              e == CHOOSE x : x = F(x)
              h == [k \in 0..n |-> g[k]]
  <2>1. ASSUME NEW k \in 0..n PROVE h[k] = IF k = 0 THEN c ELSE R(h[k-1])
    <3>1. CASE k = 0
      BY <1>5, <3>1
    <3>2. CASE k # 0
      <4>1. k - 1 \in Nat /\ k - 1 \in 0..n /\ (k - 1) + 1 = k
        BY <3>2
      <4>2. g[(k - 1) + 1] = step[g[k-1]] /\ g[k-1] \in V
        BY <1>5, <4>1
      <4>3. h[k] = g[k] /\ h[k-1] = g[k-1]
        BY <4>1
      <4>. HIDE DEF R, h
      <4>4. QED
        BY <1>4, <3>2, <4>1, <4>2, <4>3
    <3>3. QED
      BY <3>1, <3>2
  <2>2. h = F(h)
    <3>. HIDE DEF R
    <3>. QED BY <2>1
  <2>3. e = F(e)
    <3>. HIDE DEF h, F
    <3>. QED BY <2>2
  <2>4. Definitions(t, n) = e[n]
    BY DEF Definitions, c
  <2>. HIDE DEF e, R
  <2>5. e[0] = c /\ \A k \in 1..n : e[k] = R(e[k-1])
    <3>1. \A k \in 0..n : e[k] = IF k = 0 THEN c ELSE R(e[k-1])
      BY <2>3
    <3>2. 0 \in 0..n /\ \A k \in 1..n : k \in 0..n /\ k # 0
      OBVIOUS
    <3>3. QED
      BY <3>1, <3>2
  <2>. DEFINE I == {k \in Nat : k <= n => e[k] = g[k]}
  <2>6. 0 \in I
    BY <1>5, <2>5
  <2>7. ASSUME NEW k \in Nat, k \in I PROVE k + 1 \in I
    <3>. SUFFICES ASSUME k + 1 <= n PROVE e[k + 1] = g[k + 1]
      OBVIOUS
    <3>1. k + 1 \in 1..n /\ (k + 1) - 1 = k /\ e[k] = g[k]
      BY <2>7
    <3>2. e[k + 1] = R(e[k])
      BY <2>5, <3>1
    <3>3. g[k + 1] = R(g[k])
      BY <1>4, <1>5
    <3>4. QED
      BY <3>1, <3>2, <3>3
  <2>. HIDE DEF I
  <2>8. n \in I
    BY <2>6, <2>7, SetInduction
  <2>9. QED
    BY <2>4, <2>8, n <= n DEF I
<1>7. ASSUME NEW n \in Nat
      PROVE  Definitions(t, n) \in V /\ Definitions(t, n + 1) = R(Definitions(t, n))
  <2>1. n + 1 \in Nat /\ g[n] \in V /\ g[n + 1] = step[g[n]]
    BY <1>5
  <2>2. Definitions(t, n) = g[n] /\ Definitions(t, n + 1) = g[n + 1]
    BY <1>6, <2>1
  <2>. HIDE DEF R
  <2>3. QED
    BY <1>4, <2>1, <2>2
<1>8. QED
  BY <1>7 DEF V

(* All that a makefile mk, read to its end, holds. *)
Whole(t, mk) == Before(t[mk.file], Len(t[mk.file]) + 1, mk)

(* The first of its included makefiles are merged, the last to define a    *)
(* variable first.                                                         *)
Folded(e, kids, m, final) ==
    \A v \in Vars :
        LET S == {i \in 1..m-1 : e[kids[i].file][v] # None}
        IN  final[v] = IF S = {} THEN None ELSE e[kids[LastOf(S)].file][v]

LEMMA FoldStep ==
    ASSUME NEW t, NEW e \in GivenMaps(t), NEW kids, NEW m \in Nat, m # 0,
           kids[m].file \in Files,
           NEW final, Folded(e, kids, m, final)
    PROVE  Folded(e, kids, m + 1, Merge(final, e[kids[m].file]))
<1>. DEFINE k == m + 1
            vs == e[kids[m].file]
            S(n, v) == {i \in 1..n-1 : e[kids[i].file][v] # None}
<1>1. \A v \in Vars : vs[v] # None => vs[v].mode = "Set"
  BY DEF GivenMaps, DefinedIn, Defined
<1>2. \A v \in Vars : final[v] = IF S(m, v) = {} THEN None
                                 ELSE e[kids[LastOf(S(m, v))].file][v]
  BY DEF Folded
<1>3. ASSUME NEW v \in Vars
      PROVE  Merge(final, vs)[v] = IF S(k, v) = {} THEN None
                                   ELSE e[kids[LastOf(S(k, v))].file][v]
  <2>1. CASE vs[v] = None
    <3>1. Merge(final, vs)[v] = final[v]
      BY <2>1 DEF Merge
    <3>2. S(k, v) = S(m, v)
      BY <2>1
    <3>. HIDE DEF S, vs
    <3>3. QED
      BY <1>2, <3>1, <3>2
  <2>2. CASE vs[v] # None
    <3>. HIDE DEF vs
    <3>1. Merge(final, vs)[v] = vs[v]
      BY <1>1, <2>2 DEF Merge
    <3>2. m \in S(k, v) /\ S(k, v) \in SUBSET (1..m) /\ \A i \in S(k, v) : i <= m
      BY <2>2 DEF vs
    <3>. HIDE DEF S
    <3>3. LastOf(S(k, v)) = m /\ S(k, v) # {}
      BY <3>2, LastIs
    <3>4. QED
      BY <3>1, <3>3 DEF vs
  <2>3. QED
    BY <2>1, <2>2
<1>. HIDE DEF vs, k
<1>4. Folded(e, kids, k, Merge(final, vs))
  BY <1>3 DEF Folded
<1>5. QED
  BY <1>4 DEF vs, k

(* The files of kids are those mk includes. *)
IncludedBy(mk, kids) ==
    \A i \in 1..Len(mk.includes) :
        /\ kids[i].file \in Files
        /\ kids[i].file = Canon[mk.dir][mk.includes[i]]

(* The makefile on top of its includes is what it gives. *)
LEMMA ReturnGives ==
    ASSUME NEW t \in Trees, NEW e \in GivenMaps(t), NEW mk \in MakefileOf, Whole(t, mk),
           NEW kids, NEW final,
           IncludedBy(mk, kids),
           Folded(e, kids, Len(mk.includes) + 1, final)
    PROVE  Merge(final, mk.variables) = Given(t, e, mk.file, mk.dir)
<1>. DEFINE ls == t[mk.file]
            d == mk.dir
            n == Len(ls) + 1
            is == mk.includes
            N == Len(is)
            own(v) == {i \in Starts(ls) : Defines(ls, i) /\ ls[i].name = v}
            inc(v) == {i \in Starts(ls) : /\ ls[i].kind = "include"
                                          /\ Canon[d][ls[i].name] # None
                                          /\ e[Canon[d][ls[i].name]][v] # None}
            val(v) == IF own(v) # {} THEN Defined(ls, LastOf(own(v)))
                      ELSE IF inc(v) # {} THEN e[Canon[d][ls[LastOf(inc(v))].name]][v]
                      ELSE None
            S(v) == {i \in 1..N : e[kids[i].file][v] # None}
<1>0. Given(t, e, mk.file, mk.dir) = [v \in Vars |-> val(v)]
  BY DEF Given
<1>1. /\ mk.file \in Files /\ is \in Seq(Includes) /\ N \in Nat
      /\ mk.variables \in VarMaps
  BY DEF MakefileOf
<1>2. /\ Len(ls) \in Nat /\ Starts(ls) \subseteq 1..Len(ls)
      /\ \A i \in Starts(ls) : i < n
  <2>1. Len(ls) \in Nat
    BY <1>1, TreeLines
  <2>2. QED
    BY <2>1, StartsClosed
<1>3. VarsBefore(ls, n, mk.variables) /\ \E pos : Enumerates(pos, ls, n, is)
  BY DEF Whole, Before
<1>4. PICK pos : Enumerates(pos, ls, n, is)
  BY <1>3
<1>5. /\ \A v : DefinesBefore(ls, n, v) = own(v)
      /\ IncludesBefore(ls, n) = {i \in Starts(ls) : ls[i].kind = "include"}
  BY <1>2 DEF DefinesBefore, IncludesBefore
<1>6. \A v \in Vars : final[v] = IF S(v) = {} THEN None
                                 ELSE e[kids[LastOf(S(v))].file][v]
  <2>1. (N + 1) - 1 = N
    BY <1>1
  <2>. HIDE DEF N
  <2>2. QED
    BY <2>1 DEF Folded, N
<1>7. \A v \in Vars : mk.variables[v] = IF own(v) = {} THEN None
                                        ELSE Defined(ls, LastOf(own(v)))
  <2>. HIDE DEF own, ls, n
  <2>. QED BY <1>3, <1>5 DEF VarsBefore
<1>. DEFINE gives(a, v) == e[kids[a].file][v]
<1>8. /\ \A a \in 1..N : /\ pos[a] \in Starts(ls) /\ ls[pos[a]].kind = "include"
                         /\ ls[pos[a]].name = is[a] /\ pos[a] \in Nat
                         /\ Canon[d][ls[pos[a]].name] = kids[a].file
      /\ \A a, b \in 1..N : a < b => pos[a] < pos[b]
      /\ \A i \in Starts(ls) : ls[i].kind = "include" => \E a \in 1..N : pos[a] = i
  BY <1>4, <1>5 DEF Enumerates, IncludedBy
<1>9. \A a \in 1..N : kids[a].file # None
  BY TreeTypes DEF IncludedBy
<1>. HIDE DEF ls, N, d
<1>10. ASSUME NEW v \in Vars, S(v) # {}
       PROVE  /\ inc(v) # {}
              /\ e[Canon[d][ls[LastOf(inc(v))].name]][v] = e[kids[LastOf(S(v))].file][v]
  <2>. DEFINE a == LastOf(S(v))
  <2>1. S(v) \in SUBSET (1..N)
    OBVIOUS
  <2>2. a \in S(v) /\ \A b \in S(v) : b <= a
    <3>. HIDE DEF S
    <3>. QED BY <1>1, <1>10, <2>1, LastFacts
  <2>3. a \in 1..N /\ e[kids[a].file][v] # None
    BY <2>2
  <2>. HIDE DEF a
  <2>4. pos[a] \in inc(v)
    BY <1>8, <1>9, <2>3
  <2>5. ASSUME NEW i \in inc(v) PROVE i <= pos[a]
    <3>1. PICK b \in 1..N : pos[b] = i
      BY <1>8
    <3>2. b \in S(v)
      BY <1>8, <3>1
    <3>3. b <= a /\ b \in Nat /\ a \in Nat
      BY <1>1, <2>2, <2>3, <3>2
    <3>4. b = a \/ b < a
      BY ONLY <3>3
    <3>5. pos[a] \in Nat /\ pos[b] \in Nat /\ (b = a \/ pos[b] < pos[a])
      BY <1>8, <2>3, <3>4
    <3>6. QED
      BY <3>1, <3>5
  <2>6. inc(v) \in SUBSET (1..Len(ls))
    BY <1>2
  <2>7. LastOf(inc(v)) = pos[a]
    <3>. HIDE DEF inc
    <3>. QED BY <1>2, <2>4, <2>5, <2>6, LastIs
  <2>8. Canon[d][ls[pos[a]].name] = kids[a].file
    BY <1>8, <2>3
  <2>. HIDE DEF inc
  <2>9. QED
    BY <2>4, <2>7, <2>8 DEF a
<1>11. ASSUME NEW v \in Vars, inc(v) # {} PROVE S(v) # {}
  <2>1. PICK i \in inc(v) : TRUE
    BY <1>11
  <2>2. PICK a \in 1..N : pos[a] = i
    BY <1>8
  <2>3. a \in S(v)
    BY <1>8, <2>2
  <2>4. QED
    BY <2>3
<1>12. ASSUME NEW v \in Vars PROVE Merge(final, mk.variables)[v] = val(v)
  <2>1. CASE own(v) # {}
    <3>1. mk.variables[v] = Defined(ls, LastOf(own(v)))
      BY <1>7, <2>1
    <3>2. mk.variables[v] \in Variables \cup {None}
      BY <1>1 DEF VarMaps
    <3>3. mk.variables[v] # None
      <4>2. own(v) \in SUBSET (1..Len(ls))
        BY <1>2
      <4>3. LastOf(own(v)) \in 1..Len(ls)
        <5>. HIDE DEF own
        <5>. QED BY <1>2, <2>1, <4>2, LastFacts
      <4>4. QED
        BY <1>1, <4>3, <3>1, DefinedType DEF ls
    <3>4. Merge(final, mk.variables)[v] = mk.variables[v]
      BY <3>1, <3>3 DEF Merge, Defined
    <3>5. QED
      BY <2>1, <3>1, <3>4
  <2>2. CASE own(v) = {}
    <3>1. mk.variables[v] = None
      BY <1>7, <2>2
    <3>2. Merge(final, mk.variables)[v] = final[v]
      BY <3>1 DEF Merge
    <3>. HIDE DEF own, inc, S
    <3>3. QED
      BY <1>6, <1>10, <1>11, <2>2, <3>2
  <2>3. QED
    BY <2>1, <2>2
<1>13. QED
  <2>. HIDE DEF val
  <2>1. Merge(final, mk.variables) = [v \in Vars |-> Merge(final, mk.variables)[v]]
    BY DEF Merge
  <2>2. QED
    BY <1>0, <1>12, <2>1
-----------------------------------------------------------------------------
(* What the calls of parse_all have put together. *)

(* The call at height s, with StackLimit - s more below it at most: the    *)
(* makefiles it has read are whole, those it has merged give what they     *)
(* define, however many levels more are looked at.                         *)
FrameGives(t, s, fr) ==
    /\ Whole(t, fr.own)
    /\ \A i \in 1..Len(fr.kids) :
          Whole(t, fr.kids[i]) /\ fr.kids[i].dir = DirOf[fr.kids[i].file]
    /\ fr.m <= Len(fr.kids) + 1
    /\ \A n \in Nat : n > StackLimit - s =>
          Folded(Definitions(t, n), fr.kids, fr.m, fr.final)

(* The call g is waiting for f. *)
Called(g, f) == g.m \in 1..Len(g.kids) /\ f.own = g.kids[g.m]

StackGives(t, st) ==
    /\ st # <<>> => st[1].own.file = Root
    /\ \A s \in 1..Len(st) : FrameGives(t, s, st[s])
    /\ \A s \in 1..Len(st)-1 : Called(st[s], st[s+1])

(* What has been parsed of the current makefile. *)
CurGives ==
    /\ status = "parse" => Boundary(Content, at) /\ Before(Content, at, cur)
    /\ stack = <<>> => cur.file = Root
    /\ stack # <<>> /\ status = "parse" => cur.dir = DirOf[cur.file]

ResultGives ==
    status = "done" =>
        \A n \in Nat : n >= StackLimit =>
            result = Given(tree, Definitions(tree, n), Root, stack[1].own.dir)

(* The inductive invariant of what is given, besides ReadInv. *)
GivesInv == CurGives /\ StackGives(tree, stack) /\ ResultGives

LEMMA ReplacedGives ==
    ASSUME NEW t, NEW st \in Seq(Frames), StackGives(t, st), NEW n \in 1..Len(st),
           NEW f, FrameGives(t, n, f), f.own = st[n].own,
           NEW st2, Replaced(st, n, f, st2)
    PROVE  StackGives(t, st2)
<1>1. /\ Len(st) \in Nat /\ n \in Nat /\ n >= 1 /\ n <= Len(st) /\ st # <<>>
      /\ Len(st2) = n /\ \A s \in 1..n : st2[s] = IF s = n THEN f ELSE st[s]
  BY DEF Replaced
<1>2. st2[1].own.file = Root
  <2>1. st2[1].own = st[1].own
    BY <1>1
  <2>2. QED
    BY <1>1, <2>1 DEF StackGives
<1>3. ASSUME NEW s \in 1..Len(st2) PROVE FrameGives(t, s, st2[s])
  <2>1. CASE s = n
    BY <1>1, <2>1
  <2>2. CASE s # n
    <3>1. s \in 1..Len(st) /\ st2[s] = st[s]
      BY <1>1, <2>2
    <3>2. QED
      BY <3>1 DEF StackGives
  <2>3. QED
    BY <2>1, <2>2
<1>4. ASSUME NEW s \in 1..Len(st2)-1 PROVE Called(st2[s], st2[s+1])
  <2>1. /\ s \in 1..Len(st)-1 /\ s \in 1..n /\ s + 1 \in 1..n /\ s # n
    BY <1>1
  <2>2. st2[s] = st[s] /\ st2[s+1].own = st[s+1].own
    BY <1>1, <2>1
  <2>3. Called(st[s], st[s+1])
    BY <2>1 DEF StackGives
  <2>4. QED
    BY <2>2, <2>3 DEF Called
<1>5. QED
  BY <1>2, <1>3, <1>4 DEF StackGives

LEMMA PushedGives ==
    ASSUME NEW t, NEW st \in Seq(Frames), st # <<>>, StackGives(t, st),
           NEW f \in Frames, Called(st[Len(st)], f), FrameGives(t, Len(st) + 1, f)
    PROVE  StackGives(t, Append(st, f))
<1>. DEFINE N == Len(st)
            st2 == Append(st, f)
<1>1. /\ N \in Nat /\ N >= 1 /\ Len(st2) = N + 1 /\ st2[N + 1] = f
      /\ \A s \in 1..N : st2[s] = st[s]
  OBVIOUS
<1>. HIDE DEF st2
<1>2. st2[1].own.file = Root
  BY <1>1 DEF StackGives
<1>3. ASSUME NEW s \in 1..N+1 PROVE FrameGives(t, s, st2[s])
  <2>1. CASE s = N + 1
    BY <1>1, <2>1
  <2>2. CASE s # N + 1
    <3>1. s \in 1..N
      BY <1>1, <2>2
    <3>2. QED
      BY <1>1, <3>1 DEF StackGives
  <2>3. QED
    BY <2>1, <2>2
<1>4. ASSUME NEW s \in 1..N PROVE Called(st2[s], st2[s+1])
  <2>1. CASE s = N
    BY <1>1, <2>1
  <2>2. CASE s # N
    <3>1. s \in 1..N-1 /\ s + 1 \in 1..N
      BY <1>1, <2>2
    <3>2. QED
      BY <1>1, <3>1 DEF StackGives
  <2>3. QED
    BY <2>1, <2>2
<1>5. (N + 1) - 1 = N
  BY <1>1
<1>6. StackGives(t, st2)
  BY <1>1, <1>2, <1>3, <1>4, <1>5 DEF StackGives
<1>7. QED
  BY <1>6 DEF st2

(* A call that has just been made. *)
LEMMA NewCallGives ==
    ASSUME NEW t, NEW mk, Whole(t, mk), NEW s
    PROVE  FrameGives(t, s, NewCall(mk))
<1>1. /\ NewCall(mk).own = mk /\ NewCall(mk).kids = <<>> /\ NewCall(mk).m = 1
      /\ NewCall(mk).final = NoVars
  BY DEF NewCall
<1>2. ASSUME NEW e PROVE Folded(e, <<>>, 1, NoVars)
  <2>1. 1..(1-1) = {}
    OBVIOUS
  <2>2. QED
    BY <2>1 DEF Folded, NoVars
<1>3. QED
  BY <1>1, <1>2 DEF FrameGives

(* parse_string goes on behind what has started at the current line. *)
LEMMA ParseGives ==
    ASSUME ReadInv, GivesInv, status = "parse", UNCHANGED <<tree, stack, status>>,
           at <= Len(Content), at' = EndOf(Content, at) + 1,
           cur'.file = cur.file, cur'.dir = cur.dir,
           VarsBefore(Content, at', cur'.variables),
           \E pos : Enumerates(pos, Content, at', cur'.includes)
    PROVE  GivesInv'
<1>1. Len(Content) \in Nat /\ at \in 1..Len(Content)
  BY LineTypes
<1>2. Boundary(Content, at) /\ Content' = Content
  BY DEF GivesInv, CurGives, Content
<1>3. Boundary(Content, at')
  BY <1>1, <1>2, NextBoundary
<1>4. Before(Content, at', cur')
  BY DEF Before
<1>5. CurGives'
  BY <1>2, <1>3, <1>4 DEF GivesInv, CurGives
<1>6. ResultGives'
  BY DEF ResultGives
<1>7. QED
  BY <1>5, <1>6 DEF GivesInv

(* The state of the parser. *)
LEMMA ParserFacts ==
    ASSUME ReadInv, GivesInv, status = "parse", at <= Len(Content)
    PROVE  /\ Len(Content) \in Nat /\ at \in 1..Len(Content)
           /\ Boundary(Content, at)
           /\ VarsBefore(Content, at, cur.variables)
           /\ \E pos : Enumerates(pos, Content, at, cur.includes)
           /\ cur.variables \in VarMaps /\ cur.includes \in Seq(Includes)
           /\ cur \in MakefileOf
<1>1. Len(Content) \in Nat /\ at \in 1..Len(Content)
  BY LineTypes
<1>2. QED
  BY <1>1 DEF GivesInv, CurGives, Before, ReadInv, TypeOK, MakefileOf

(* A definition. *)
LEMMA DefinitionGives ==
    ASSUME ReadInv, GivesInv, status = "parse", UNCHANGED <<tree, stack, status>>,
           at <= Len(Content), at' = EndOf(Content, at) + 1, Defines(Content, at),
           Line.kind # "include", Line.name \in Vars,
           cur' = [cur EXCEPT !.variables[Line.name] = Defined(Content, at)]
    PROVE  GivesInv'
<1>. DEFINE w == Defined(Content, at)
            vs == [cur.variables EXCEPT ![Line.name] = w]
<1>1. cur' = [cur EXCEPT !.variables = vs] /\ cur \in MakefileOf
  BY ParserFacts DEF MakefileOf
<1>. HIDE DEF vs
<1>2. /\ cur'.file = cur.file /\ cur'.dir = cur.dir /\ cur'.variables = vs
      /\ cur'.includes = cur.includes
  BY <1>1 DEF MakefileOf
<1>. HIDE DEF w
<1>3. VarsBefore(Content, at', vs)
  BY ParserFacts, BeforeDefinition DEF Line, w, vs
<1>4. \E pos : Enumerates(pos, Content, at', cur.includes)
  BY ParserFacts, NoInclude DEF Line
<1>5. QED
  BY <1>2, <1>3, <1>4, ParseGives

LEMMA VariableGives == ASSUME ReadInv, GivesInv, ParseVariable PROVE GivesInv'
<1>1. /\ status = "parse" /\ UNCHANGED <<tree, stack, status>> /\ at <= Len(Content)
      /\ Line.kind \in {"set", "add"} /\ at' = at + 1
      /\ cur' = [cur EXCEPT !.variables[Line.name] = ParsedVariable(cur.variables, Line)]
  BY DEF ParseVariable
<1>2. Line.name \in Vars
  BY <1>1, LineTypes
<1>3. ParsedVariable(cur.variables, Line) = Defined(Content, at)
  BY <1>1 DEF ParsedVariable, PairMode, Defined, Line
<1>4. Defines(Content, at) /\ EndOf(Content, at) = at
  BY <1>1 DEF Defines, EndOf, Line
<1>5. QED
  BY <1>1, <1>2, <1>3, <1>4, DefinitionGives

LEMMA DefineGives == ASSUME ReadInv, GivesInv, ParseDefine PROVE GivesInv'
<1>1. /\ status = "parse" /\ UNCHANGED <<tree, stack, status>> /\ at <= Len(Content)
      /\ Line.kind = "define"
  BY DEF ParseDefine
<1>2. PICK j \in Endefs :
        /\ \A h \in Endefs : j <= h
        /\ cur' = [cur EXCEPT !.variables[Line.name] =
                     [values |-> <<[i \in 1..j-at-1 |-> Content[at+i].text]>>,
                      mode   |-> "Set"]]
        /\ at' = j + 1
  BY DEF ParseDefine
<1>3. Line.name \in Vars /\ Len(Content) \in Nat /\ at \in 1..Len(Content)
  BY <1>1, LineTypes
<1>4. Endefs = Closing(Content, at) /\ Endefs \in SUBSET (1..Len(Content))
  BY <1>3 DEF Endefs, Closing
<1>5. FirstOf(Endefs) = j
  BY <1>2, <1>3, <1>4, FirstIs
<1>6. Defines(Content, at) /\ EndOf(Content, at) = j
  BY <1>1, <1>2, <1>4, <1>5 DEF Defines, EndOf, Line
<1>7. Defined(Content, at)
        = [values |-> <<[i \in 1..j-at-1 |-> Content[at+i].text]>>, mode |-> "Set"]
  BY <1>1, <1>6 DEF Defined, Line
<1>8. QED
  BY <1>1, <1>2, <1>3, <1>6, <1>7, DefinitionGives

LEMMA IncludeGives == ASSUME ReadInv, GivesInv, ParseInclude PROVE GivesInv'
<1>. DEFINE is == Append(cur.includes, Line.name)
<1>1. /\ status = "parse" /\ UNCHANGED <<tree, stack, status>> /\ at <= Len(Content)
      /\ Line.kind = "include" /\ at' = at + 1
  BY DEF ParseInclude
<1>2. Line.name \in Includes
  BY <1>1, LineTypes
<1>3. cur' = [cur EXCEPT !.includes = is] /\ cur \in MakefileOf
  BY <1>1, ParserFacts DEF ParseInclude, MakefileOf
<1>4. EndOf(Content, at) = at /\ ~Defines(Content, at)
  BY <1>1 DEF EndOf, Defines, Line
<1>5. \E pos : Enumerates(pos, Content, at', is)
  BY <1>1, <1>2, <1>4, ParserFacts, BeforeInclude DEF Line
<1>. HIDE DEF is
<1>6. /\ cur'.file = cur.file /\ cur'.dir = cur.dir
      /\ cur'.variables = cur.variables /\ cur'.includes = is
  BY <1>3 DEF MakefileOf
<1>7. VarsBefore(Content, at', cur.variables)
  BY <1>1, <1>4, ParserFacts, NoDefinition
<1>8. QED
  BY <1>1, <1>4, <1>5, <1>6, <1>7, ParseGives

(* A line that defines and includes nothing. *)
LEMMA NothingGives ==
    ASSUME ReadInv, GivesInv, status = "parse", UNCHANGED <<tree, stack, status, cur>>,
           at <= Len(Content), at' = EndOf(Content, at) + 1, ~Defines(Content, at),
           Line.kind # "include"
    PROVE  GivesInv'
<1>1. VarsBefore(Content, at', cur.variables)
  BY ParserFacts, NoDefinition
<1>2. \E pos : Enumerates(pos, Content, at', cur.includes)
  BY ParserFacts, NoInclude DEF Line
<1>3. QED
  BY <1>1, <1>2, ParseGives

LEMMA CommentGives == ASSUME ReadInv, GivesInv, SkipComment PROVE GivesInv'
<1>1. /\ status = "parse" /\ UNCHANGED <<tree, stack, status, cur>> /\ at <= Len(Content)
      /\ Line.kind = "comment" /\ at' = at + 1
  BY DEF SkipComment
<1>2. EndOf(Content, at) = at /\ ~Defines(Content, at)
  BY <1>1 DEF EndOf, Defines, Line
<1>3. QED
  BY <1>1, <1>2, NothingGives

LEMMA TargetGives == ASSUME ReadInv, GivesInv, ParseTarget PROVE GivesInv'
<1>1. /\ status = "parse" /\ UNCHANGED <<tree, stack, status, cur>> /\ at <= Len(Content)
      /\ Line.kind \in {"other", "endef"} \/ (Line.kind = "define" /\ Endefs = {})
  BY DEF ParseTarget, AtTarget
<1>2. PICK j \in Colons : (\A h \in Colons : j <= h) /\ at' = j + 1
  BY DEF ParseTarget
<1>3. Len(Content) \in Nat /\ at \in 1..Len(Content)
  BY <1>1, LineTypes
<1>4. Endefs = Closing(Content, at)
  BY DEF Endefs, Closing
<1>5. ~Defines(Content, at) /\ Line.kind \notin {"set", "add", "include", "comment"}
  BY <1>1, <1>4 DEF Defines, Line
<1>. DEFINE n == Len(Content)
            T == {h \in at..n : Content[h].colon \/ h = n}
<1>6. j \in T /\ T \in SUBSET (1..n) /\ \A h \in T : j <= h
  BY <1>2, <1>3 DEF Colons
<1>7. EndOf(Content, at) = FirstOf(T)
  BY <1>5 DEF EndOf, Line
<1>. HIDE DEF T
<1>8. FirstOf(T) = j
  BY <1>3, <1>6, FirstIs
<1>9. QED
  BY <1>1, <1>2, <1>5, <1>7, <1>8, NothingGives

(* The reading ends without a result. *)
LEMMA EndGives ==
    ASSUME GivesInv, ParseFails \/ ChangeDirFails \/ IncludeNotFound \/ Overflow
    PROVE  GivesInv'
<1>1. status' \in {"error", "overflow"} /\ UNCHANGED <<tree, cur, stack>>
  BY DEF ParseFails, ChangeDirFails, IncludeNotFound, Overflow
<1>2. QED
  BY <1>1 DEF GivesInv, CurGives, ResultGives

(* At its end a makefile is whole. *)
LEMMA WholeAtEnd == ASSUME ReadInv, GivesInv, AtEnd PROVE Whole(tree, cur)
<1>1. Len(Content) \in Nat /\ at \in Nat
  BY TreeLines DEF Content, ReadInv, TypeOK, MakefileOf
<1>2. Boundary(Content, at) /\ Before(Content, at, cur) /\ at > Len(Content)
  BY DEF AtEnd, GivesInv, CurGives
<1>3. at = Len(Content) + 1
  BY <1>1, <1>2 DEF Boundary
<1>4. QED
  BY <1>2, <1>3 DEF Whole, Content

LEMMA RootGives == ASSUME ReadInv, GivesInv, RootParsed PROVE GivesInv'
<1>1. /\ AtEnd /\ stack = <<>> /\ stack' = <<NewCall(cur)>> /\ status' = "all"
      /\ UNCHANGED <<tree, cur>>
  BY DEF RootParsed
<1>. DEFINE c == NewCall(cur)
<1>2. FrameGives(tree, 1, c) /\ c.own = cur
  BY <1>1, WholeAtEnd, NewCallGives DEF NewCall
<1>3. cur.file = Root
  BY <1>1 DEF GivesInv, CurGives
<1>. HIDE DEF c
<1>4. Len(stack') = 1 /\ stack'[1] = c /\ stack' # <<>>
  BY <1>1 DEF c
<1>5. StackGives(tree, stack')
  BY <1>2, <1>3, <1>4 DEF StackGives
<1>6. QED
  BY <1>1, <1>4, <1>5 DEF GivesInv, CurGives, ResultGives

(* A step that replaces the call at the top, or the one below it, by f. *)
LEMMA ReplaceGives ==
    ASSUME ReadInv, GivesInv, tree' = tree, status' \in {"parse", "all"},
           NEW n \in 1..Len(stack), NEW f, f.own = stack[n].own,
           FrameGives(tree, n, f), Replaced(stack, n, f, stack'),
           status' = "parse" => /\ Boundary(Content', at') /\ Before(Content', at', cur')
                                /\ cur'.dir = DirOf[cur'.file]
    PROVE  GivesInv'
<1>1. stack \in Seq(Frames) /\ Len(stack) \in Nat
  BY DEF ReadInv, TypeOK
<1>2. StackGives(tree, stack')
  BY <1>1, ReplacedGives DEF GivesInv
<1>3. stack' # <<>>
  BY <1>1 DEF Replaced
<1>4. QED
  BY <1>2, <1>3 DEF GivesInv, CurGives, ResultGives

(* The call at the top. *)
LEMMA TopGives ==
    ASSUME ReadInv, GivesInv, stack # <<>>
    PROVE  /\ Len(stack) \in 1..Len(stack) /\ Len(stack) \in Nat /\ stack \in Seq(Frames)
           /\ Len(stack) <= StackLimit /\ StackLimit \in Nat
           /\ Top = stack[Len(stack)] /\ Top \in Frames /\ FrameOK(tree, Top)
           /\ Top.kids \in Seq(MakefileOf) /\ Top.m \in Nat
           /\ FrameGives(tree, Len(stack), Top)
<1>1. /\ Len(stack) \in 1..Len(stack) /\ Len(stack) \in Nat /\ stack \in Seq(Frames)
      /\ Top \in Frames /\ FrameOK(tree, Top) /\ Len(stack) <= StackLimit
  BY TopTypes DEF ReadInv, TypeOK
<1>2. StackLimit \in Nat
  BY TreeTypes
<1>3. QED
  BY <1>1, <1>2 DEF GivesInv, StackGives, Top, Frames

LEMMA IncludeParsedGives == ASSUME ReadInv, GivesInv, IncludeParsed PROVE GivesInv'
<1>1. /\ AtEnd /\ stack # <<>> /\ status' = "all" /\ tree' = tree /\ status = "parse"
      /\ stack' = [stack EXCEPT ![Len(stack)].kids = Append(@, cur)]
  BY DEF IncludeParsed, AtEnd
<1>. DEFINE ks == Append(Top.kids, cur)
            f  == [Top EXCEPT !.kids = ks]
<1>2. cur \in MakefileOf /\ cur.dir = DirOf[cur.file] /\ Whole(tree, cur)
  BY <1>1, WholeAtEnd DEF ReadInv, TypeOK, GivesInv, CurGives
<1>3. /\ ks \in Seq(MakefileOf) /\ Len(ks) = Len(Top.kids) + 1 /\ Len(Top.kids) \in Nat
      /\ \A i \in 1..Len(Top.kids) : ks[i] = Top.kids[i]
      /\ ks[Len(Top.kids) + 1] = cur
  BY <1>1, <1>2, TopGives
<1>4. stack' = [stack EXCEPT ![Len(stack)] = f]
  BY <1>1, TopGives DEF Top, Frames
<1>. HIDE DEF ks
<1>5. /\ f \in Frames /\ f.own = Top.own /\ f.m = Top.m /\ f.final = Top.final
      /\ f.kids = ks
  BY <1>1, <1>3, TopGives DEF Frames
<1>. HIDE DEF f
<1>6. /\ Whole(tree, Top.own) /\ Top.m <= Len(Top.kids) + 1 /\ Top.m \in Nat
      /\ \A i \in 1..Len(Top.kids) :
            Whole(tree, Top.kids[i]) /\ Top.kids[i].dir = DirOf[Top.kids[i].file]
  BY <1>1, TopGives DEF FrameGives
<1>7. ASSUME NEW i \in 1..Len(ks) PROVE Whole(tree, ks[i]) /\ ks[i].dir = DirOf[ks[i].file]
  <2>1. i \in 1..Len(Top.kids) \/ i = Len(Top.kids) + 1
    BY <1>3
  <2>2. QED
    BY <1>2, <1>3, <1>6, <2>1
<1>8. ASSUME NEW n \in Nat, n > StackLimit - Len(stack)
      PROVE  Folded(Definitions(tree, n), ks, Top.m, Top.final)
  <2>1. Folded(Definitions(tree, n), Top.kids, Top.m, Top.final)
    BY <1>1, <1>8, TopGives DEF FrameGives
  <2>2. \A i \in 1..Top.m-1 : ks[i] = Top.kids[i]
    BY <1>3, <1>6
  <2>. DEFINE e == Definitions(tree, n)
              S(v) == {i \in 1..Top.m-1 : e[Top.kids[i].file][v] # None}
              R(v) == {i \in 1..Top.m-1 : e[ks[i].file][v] # None}
  <2>. HIDE DEF e
  <2>3. ASSUME NEW v \in Vars
        PROVE  Top.final[v] = IF R(v) = {} THEN None
                              ELSE e[ks[LastOf(R(v))].file][v]
    <3>1. R(v) = S(v) /\ R(v) \in SUBSET (1..Top.m-1)
      BY <2>2
    <3>2. Top.final[v] = IF S(v) = {} THEN None ELSE e[Top.kids[LastOf(S(v))].file][v]
      BY <2>1 DEF Folded, e
    <3>3. R(v) # {} => Top.m - 1 \in Nat
      BY <1>6, <3>1
    <3>. HIDE DEF R, S
    <3>4. R(v) # {} => ks[LastOf(R(v))] = Top.kids[LastOf(R(v))]
      BY <2>2, <3>1, <3>3, LastFacts
    <3>5. QED
      BY <3>1, <3>2, <3>4
  <2>4. QED
    BY <2>3 DEF Folded, e
<1>9. FrameGives(tree, Len(stack), f)
  BY <1>3, <1>5, <1>6, <1>7, <1>8 DEF FrameGives
<1>10. Replaced(stack, Len(stack), f, stack')
  <2>1. stack \in Seq(Frames) /\ Len(stack) \in 1..Len(stack)
    BY <1>1, TopGives
  <2>2. QED
    BY <1>4, <1>5, <2>1, ReplaceTop
<1>11. QED
  BY <1>1, <1>5, <1>9, <1>10, TopGives, ReplaceGives

(* The call goes on to its next include. *)
LEMMA SameGives ==
    ASSUME NEW t, NEW s, NEW g, FrameGives(t, s, g), NEW f,
           f.own = g.own, f.kids = g.kids, f.m = g.m, f.final = g.final
    PROVE  FrameGives(t, s, f)
BY DEF FrameGives

LEMMA StartGives ==
    ASSUME ReadInv, GivesInv, ChangeDir \/ NothingToInclude PROVE GivesInv'
<1>1. /\ status' = "all" /\ stack # <<>> /\ tree' = tree
      /\ stack' = [stack EXCEPT ![Len(stack)].n = 1]
  BY DEF ChangeDir, NothingToInclude, ReadInv
<1>. DEFINE f == [Top EXCEPT !.n = 1]
<1>2. stack' = [stack EXCEPT ![Len(stack)] = f]
  BY <1>1, TopGives DEF Top, Frames
<1>3. /\ f \in Frames /\ f.own = Top.own /\ f.m = Top.m
      /\ f.final = Top.final /\ f.kids = Top.kids
  BY <1>1, TopGives DEF Frames
<1>. HIDE DEF f
<1>4. FrameGives(tree, Len(stack), f)
  BY <1>1, <1>3, TopGives, SameGives
<1>5. Replaced(stack, Len(stack), f, stack')
  <2>1. stack \in Seq(Frames) /\ Len(stack) \in 1..Len(stack)
    BY <1>1, TopGives
  <2>2. QED
    BY <1>2, <1>3, <2>1, ReplaceTop
<1>6. QED
  BY <1>1, <1>3, <1>4, <1>5, TopGives, ReplaceGives

LEMMA OpenGives == ASSUME ReadInv, GivesInv, OpenInclude PROVE GivesInv'
<1>1. /\ status' = "parse" /\ stack # <<>> /\ tree' = tree
      /\ stack' = [stack EXCEPT ![Len(stack)].n = @ + 1]
      /\ cur' = Fresh(Included, DirOf[Included]) /\ at' = 1
  BY DEF OpenInclude, AtInclude, ReadInv
<1>. DEFINE k == Top.n + 1
            f == [Top EXCEPT !.n = k]
<1>2. stack' = [stack EXCEPT ![Len(stack)] = f]
  BY <1>1, TopGives DEF Top, Frames
<1>3. k \in Nat
  BY <1>1, TopTypes
<1>. HIDE DEF k
<1>4. /\ f \in Frames /\ f.own = Top.own /\ f.m = Top.m
      /\ f.final = Top.final /\ f.kids = Top.kids
  BY <1>1, <1>3, TopGives DEF Frames
<1>. HIDE DEF f
<1>5. FrameGives(tree, Len(stack), f)
  BY <1>1, <1>4, TopGives, SameGives
<1>6. Replaced(stack, Len(stack), f, stack')
  <2>1. stack \in Seq(Frames) /\ Len(stack) \in 1..Len(stack)
    BY <1>1, TopGives
  <2>2. QED
    BY <1>2, <1>4, <2>1, ReplaceTop
<1>7. /\ Boundary(Content', at') /\ Before(Content', at', cur')
      /\ cur'.dir = DirOf[cur'.file]
  <2>1. Len(Content') \in Nat
    <3>1. ReadInv'
      BY OpenIncludeInv
    <3>2. tree' \in Trees /\ cur'.file \in Files
      BY <3>1 DEF ReadInv, TypeOK, MakefileOf
    <3>3. QED
      BY <3>2, TreeLines DEF Content
  <2>2. Boundary(Content', 1) /\ Before(Content', 1, Fresh(Included, DirOf[Included]))
    BY <2>1, FirstBoundary, BeforeFirst
  <2>3. QED
    BY <1>1, <2>2 DEF Fresh
<1>8. QED
  BY <1>1, <1>4, <1>5, <1>6, <1>7, TopGives, ReplaceGives

(* A makefile that is merged gives what it defines, one level further down. *)
LEMMA MergedGives ==
    ASSUME NEW t \in Trees, NEW s \in 1..StackLimit, NEW fr \in Frames, FrameOK(t, fr),
           FrameGives(t, s, fr), fr.m \in 1..Len(fr.kids), NEW vs,
           \A n \in Nat : n > StackLimit - s =>
               vs = Definitions(t, n)[fr.kids[fr.m].file],
           NEW f, f.own = fr.own, f.kids = fr.kids, f.m = fr.m + 1,
           f.final = Merge(fr.final, vs)
    PROVE  FrameGives(t, s, f)
<1>1. fr.kids \in Seq(MakefileOf) /\ fr.m \in Nat /\ Len(fr.kids) \in Nat
  BY DEF Frames
<1>2. fr.kids[fr.m].file \in Files
  <2>1. fr.kids[fr.m] \in MakefileOf
    BY <1>1
  <2>2. QED
    BY <2>1 DEF MakefileOf
<1>3. ASSUME NEW n \in Nat, n > StackLimit - s
      PROVE  Folded(Definitions(t, n), f.kids, f.m, f.final)
  <2>. DEFINE e == Definitions(t, n)
  <2>1. e \in GivenMaps(t)
    BY DefinitionsStep
  <2>2. Folded(e, fr.kids, fr.m, fr.final) /\ vs = e[fr.kids[fr.m].file]
    BY <1>3 DEF FrameGives
  <2>. HIDE DEF e
  <2>3. Folded(e, fr.kids, fr.m + 1, Merge(fr.final, e[fr.kids[fr.m].file]))
    BY <1>1, <1>2, <2>1, <2>2, FoldStep
  <2>4. QED
    BY <2>2, <2>3 DEF e
<1>4. f.m <= Len(f.kids) + 1
  BY <1>1
<1>5. QED
  BY <1>3, <1>4 DEF FrameGives

(* A makefile that includes nothing gives its variables. *)
LEMMA LeafGives ==
    ASSUME NEW t \in Trees, NEW mk \in MakefileOf, Whole(t, mk), mk.includes = <<>>,
           mk.dir = DirOf[mk.file], NEW n \in Nat, n # 0
    PROVE  mk.variables = Definitions(t, n)[mk.file]
<1>. DEFINE k == n - 1
            e == Definitions(t, k)
<1>1. k \in Nat /\ k + 1 = n
  OBVIOUS
<1>2. /\ e \in GivenMaps(t)
      /\ Definitions(t, n) = [f \in Files |-> Given(t, e, f, DirOf[f])]
  <2>. HIDE DEF k
  <2>1. /\ Definitions(t, k) \in GivenMaps(t)
        /\ Definitions(t, k + 1) = [f \in Files |-> Given(t, Definitions(t, k), f, DirOf[f])]
    BY <1>1, DefinitionsStep
  <2>2. QED
    BY <1>1, <2>1
<1>3. mk.file \in Files /\ mk.variables \in VarMaps
  BY DEF MakefileOf
<1>. HIDE DEF e
<1>4. Len(mk.includes) = 0
  OBVIOUS
<1>5. Folded(e, <<>>, Len(mk.includes) + 1, NoVars)
  <2>1. 1..(0 + 1) - 1 = {}
    OBVIOUS
  <2>2. QED
    BY <1>4, <2>1 DEF Folded, NoVars
<1>6. Merge(NoVars, mk.variables) = Given(t, e, mk.file, mk.dir)
  <2>1. 1..Len(mk.includes) = {}
    BY <1>4
  <2>2. IncludedBy(mk, <<>>)
    BY <2>1 DEF IncludedBy
  <2>3. QED
    BY <1>2, <1>5, <2>2, ReturnGives
<1>7. Merge(NoVars, mk.variables) = mk.variables
  <2>1. ASSUME NEW v \in Vars PROVE Merge(NoVars, mk.variables)[v] = mk.variables[v]
    BY DEF Merge, NoVars
  <2>2. Merge(NoVars, mk.variables) = [v \in Vars |-> Merge(NoVars, mk.variables)[v]]
    BY DEF Merge
  <2>3. mk.variables = [v \in Vars |-> mk.variables[v]]
    BY <1>3 DEF VarMaps
  <2>4. QED
    BY <2>1, <2>2, <2>3
<1>8. QED
  BY <1>2, <1>3, <1>6, <1>7

LEMMA MergeLeafGives == ASSUME ReadInv, GivesInv, MergeLeaf PROVE GivesInv'
<1>1. /\ AtKid /\ Kid.includes = <<>> /\ tree' = tree /\ status' = "all"
      /\ stack' = [stack EXCEPT ![Len(stack)].final = Merge(@, Kid.variables),
                                ![Len(stack)].m = @ + 1]
  BY DEF MergeLeaf, AtKid
<1>2. /\ stack # <<>> /\ Top.m \in 1..Len(Top.kids) /\ Kid = Top.kids[Top.m]
      /\ FrameOK(tree, Top) /\ AllRead(Top) /\ Kid \in MakefileOf /\ tree \in Trees
  BY <1>1, KidTypes DEF Read, ReadInv
<1>3. Whole(tree, Kid) /\ Kid.dir = DirOf[Kid.file]
  BY <1>2, TopGives DEF FrameGives
<1>. DEFINE fin == Merge(Top.final, Kid.variables)
            k == Top.m + 1
            f == [Top EXCEPT !.final = fin, !.m = k]
<1>4. stack' = [stack EXCEPT ![Len(stack)] = f]
  BY <1>1, <1>2, TopGives DEF Top, Frames
<1>5. k \in Nat /\ fin \in VarMaps
  <2>1. Read(tree, Kid)
    BY <1>1, KidTypes
  <2>2. Kid.variables \in VarMaps /\ AllHaveOne(Kid.variables)
    BY <2>1 DEF Read, MakefileOf
  <2>3. Top.final \in VarMaps /\ AllHaveOne(Top.final) /\ Top.m \in Nat
    BY <1>2 DEF FrameOK, Frames
  <2>4. QED
    BY <2>2, <2>3, MergeHasOne
<1>. HIDE DEF fin, k
<1>6. /\ f \in Frames /\ f.own = Top.own /\ f.kids = Top.kids
      /\ f.m = k /\ f.final = fin
  BY <1>2, <1>5, TopGives DEF Frames
<1>. HIDE DEF f
<1>7. Len(stack) \in 1..StackLimit
  BY <1>2, TopGives
<1>8. ASSUME NEW n \in Nat, n > StackLimit - Len(stack)
      PROVE  Kid.variables = Definitions(tree, n)[Kid.file]
  <2>1. n # 0
    BY <1>2, <1>8, TopGives
  <2>2. QED
    BY <1>1, <1>2, <1>3, <2>1, LeafGives
<1>9. FrameGives(tree, Len(stack), f)
  <2>1. Top \in Frames /\ FrameGives(tree, Len(stack), Top)
    BY <1>2, TopGives
  <2>2. \A n \in Nat : n > StackLimit - Len(stack) =>
           Kid.variables = Definitions(tree, n)[Top.kids[Top.m].file]
    BY <1>2, <1>8
  <2>3. QED
    BY <1>2, <1>6, <1>7, <2>1, <2>2, MergedGives DEF fin, k
<1>10. Replaced(stack, Len(stack), f, stack')
  <2>1. stack \in Seq(Frames) /\ Len(stack) \in 1..Len(stack)
    BY <1>2, TopGives
  <2>2. QED
    BY <1>4, <1>6, <2>1, ReplaceTop
<1>11. QED
  BY <1>1, <1>2, <1>6, <1>9, <1>10, TopGives, ReplaceGives

LEMMA RecurseGives == ASSUME ReadInv, GivesInv, Recurse PROVE GivesInv'
<1>1. /\ AtKid /\ tree' = tree /\ status' = "all"
      /\ stack' = Append(stack, NewCall(Kid))
  BY DEF Recurse, AtKid
<1>2. /\ stack # <<>> /\ Top.m \in 1..Len(Top.kids) /\ Kid = Top.kids[Top.m]
      /\ Kid \in MakefileOf
  BY <1>1, KidTypes DEF Read
<1>3. Whole(tree, Kid)
  BY <1>2, TopGives DEF FrameGives
<1>. DEFINE c == NewCall(Kid)
<1>4. c \in Frames /\ c.own = Kid /\ FrameGives(tree, Len(stack) + 1, c)
  <2>1. c \in Frames /\ c.own = Kid
    BY <1>2 DEF NewCall, Frames, NoVars, VarMaps
  <2>2. QED
    BY <1>3, <2>1, NewCallGives
<1>. HIDE DEF c
<1>5. Called(stack[Len(stack)], c)
  BY <1>2, <1>4 DEF Called, Top
<1>6. stack \in Seq(Frames) /\ StackGives(tree, stack)
  BY DEF ReadInv, TypeOK, GivesInv
<1>7. StackGives(tree, stack')
  BY <1>1, <1>2, <1>4, <1>5, <1>6, PushedGives DEF c
<1>8. stack' # <<>>
  BY <1>1, <1>4, <1>6 DEF c
<1>9. QED
  BY <1>1, <1>7, <1>8 DEF GivesInv, CurGives, ResultGives

(* What parse_all returns. *)
LEMMA ReturnedGives ==
    ASSUME ReadInv, GivesInv, AtReturn
    PROVE  /\ stack # <<>>
           /\ \A n \in Nat : n > StackLimit - Len(stack) =>
                 Returned = Given(tree, Definitions(tree, n), Top.own.file, Top.own.dir)
<1>1. status = "all" /\ stack # <<>> /\ Top.n > Len(Top.own.includes) /\ Top.m > Len(Top.kids)
  BY DEF AtReturn, ReadInv
<1>2. /\ FrameOK(tree, Top) /\ Top \in Frames /\ Settled(Top) /\ Top.own \in MakefileOf
      /\ tree \in Trees
  BY <1>1, TopTypes DEF TopOK, ReadInv
<1>3. /\ Top.own.includes \in Seq(Includes) /\ Top.n \in Nat /\ Top.m \in Nat
      /\ Top.kids \in Seq(MakefileOf) /\ Len(Top.kids) \in Nat
      /\ Len(Top.own.includes) \in Nat
  BY <1>2 DEF Frames, MakefileOf
<1>4. Len(Top.kids) = Len(Top.own.includes)
  BY <1>1, <1>2, <1>3 DEF Settled, FrameOK
<1>5. Top.m = Len(Top.own.includes) + 1
  BY <1>1, <1>3, <1>4, TopGives DEF FrameGives
<1>6. ASSUME NEW i \in 1..Len(Top.own.includes)
      PROVE  /\ Top.kids[i].file \in Files
             /\ Top.kids[i].file = Canon[Top.own.dir][Top.own.includes[i]]
  <2>1. Top.kids[i] \in MakefileOf
    BY <1>3, <1>4
  <2>2. QED
    BY <1>2, <1>4, <2>1 DEF FrameOK, MakefileOf
<1>7. ASSUME NEW n \in Nat, n > StackLimit - Len(stack)
      PROVE  Returned = Given(tree, Definitions(tree, n), Top.own.file, Top.own.dir)
  <2>. DEFINE e == Definitions(tree, n)
  <2>0. IncludedBy(Top.own, Top.kids)
    BY <1>6 DEF IncludedBy
  <2>1. e \in GivenMaps(tree)
    BY <1>2, DefinitionsStep
  <2>2. Folded(e, Top.kids, Top.m, Top.final) /\ Whole(tree, Top.own)
    BY <1>1, <1>7, TopGives DEF FrameGives
  <2>. HIDE DEF e
  <2>3. Folded(e, Top.kids, Len(Top.own.includes) + 1, Top.final)
    BY <1>5, <2>2
  <2>4. Merge(Top.final, Top.own.variables) = Given(tree, e, Top.own.file, Top.own.dir)
    BY <1>2, <2>0, <2>1, <2>2, <2>3, ReturnGives
  <2>5. QED
    BY <2>4 DEF Returned, e
<1>8. QED
  BY <1>1, <1>7

LEMMA ReturnResult == ASSUME ReadInv, GivesInv, Return PROVE GivesInv'
<1>1. /\ AtReturn /\ Len(stack) = 1 /\ result' = Returned /\ status' = "done"
      /\ UNCHANGED <<tree, cur, stack>> /\ stack # <<>>
  BY ReturnedGives DEF Return
<1>2. Top = stack[1] /\ stack[1].own.file = Root
  BY <1>1 DEF Top, GivesInv, StackGives
<1>3. ASSUME NEW n \in Nat, n >= StackLimit
      PROVE  result' = Given(tree, Definitions(tree, n), Root, stack[1].own.dir)
  <2>1. n > StackLimit - Len(stack)
    BY <1>1, <1>3, TopGives
  <2>2. QED
    BY <1>1, <1>2, <2>1, ReturnedGives
<1>4. ResultGives'
  BY <1>1, <1>3 DEF ResultGives
<1>5. QED
  BY <1>1, <1>4 DEF GivesInv, CurGives

LEMMA ReturnAllGives == ASSUME ReadInv, GivesInv, ReturnAll PROVE GivesInv'
<1>. DEFINE n == Len(stack) - 1
            g == stack[n]
            vs == Returned
            fin == Merge(g.final, vs)
            k == g.m + 1
            f == [g EXCEPT !.final = fin, !.m = k]
<1>1. /\ AtReturn /\ Len(stack) > 1 /\ tree' = tree /\ status' = "all" /\ stack # <<>>
      /\ stack' = [SubSeq(stack, 1, n) EXCEPT ![n].final = Merge(@, Returned),
                                              ![n].m = @ + 1]
  BY ReturnedGives DEF ReturnAll, AtReturn
<1>2. /\ stack \in Seq(Frames) /\ Len(stack) \in Nat /\ tree \in Trees
      /\ StackOK(tree, stack) /\ StackLimit \in Nat /\ Len(stack) <= StackLimit
  BY <1>1, TopGives DEF ReadInv
<1>3. /\ n \in 1..Len(stack) /\ n \in 1..Len(stack)-1 /\ n + 1 = Len(stack)
      /\ n \in 1..StackLimit /\ n \in Nat
  BY <1>1, <1>2
<1>4. FrameOK(tree, g) /\ g \in Frames
  BY <1>2, <1>3 DEF StackOK
<1>5. SubSeq(stack, 1, n)[n] = g
  BY <1>2, <1>3
<1>6. stack' = [SubSeq(stack, 1, n) EXCEPT ![n] = f]
  BY <1>1, <1>4, <1>5 DEF Frames
<1>7. /\ FrameGives(tree, n, g) /\ Called(g, Top)
  <2>1. Called(stack[n], stack[n + 1]) /\ FrameGives(tree, n, stack[n])
    BY <1>3 DEF GivesInv, StackGives
  <2>2. stack[n + 1] = Top
    BY <1>3 DEF Top
  <2>3. QED
    BY <2>1, <2>2
<1>8. g.m \in 1..Len(g.kids) /\ Top.own = g.kids[g.m]
  BY <1>7 DEF Called
<1>9. /\ g.kids[g.m].dir = DirOf[g.kids[g.m].file] /\ g.kids[g.m].file \in Files
      /\ g.kids \in Seq(MakefileOf) /\ g.m \in Nat /\ g.final \in VarMaps
      /\ AllHaveOne(g.final)
  <2>1. g.kids \in Seq(MakefileOf) /\ g.m \in Nat /\ g.final \in VarMaps
    BY <1>4 DEF Frames
  <2>2. g.kids[g.m] \in MakefileOf
    BY <1>8, <2>1
  <2>3. QED
    BY <1>4, <1>7, <1>8, <2>1, <2>2 DEF FrameGives, MakefileOf, FrameOK
<1>. HIDE DEF g
<1>10. ASSUME NEW l \in Nat, l > StackLimit - n
       PROVE  vs = Definitions(tree, l)[g.kids[g.m].file]
  <2>. DEFINE j == l - 1
  <2>1. j \in Nat /\ j + 1 = l /\ j > StackLimit - Len(stack)
    BY <1>2, <1>3, <1>10
  <2>. HIDE DEF j
  <2>2. vs = Given(tree, Definitions(tree, j), Top.own.file, Top.own.dir)
    BY <1>1, <2>1, ReturnedGives
  <2>3. Definitions(tree, j + 1) = [h \in Files |-> Given(tree, Definitions(tree, j), h, DirOf[h])]
    BY <1>2, <2>1, DefinitionsStep
  <2>. HIDE DEF vs
  <2>4. QED
    BY <1>8, <1>9, <2>1, <2>2, <2>3
<1>11. fin \in VarMaps /\ k \in Nat
  BY <1>1, <1>9, ReturnedHasOne, MergeHasOne
<1>. HIDE DEF fin, k, n, vs
<1>12. /\ f \in Frames /\ f.own = g.own /\ f.kids = g.kids /\ f.m = k /\ f.final = fin
  BY <1>4, <1>11 DEF Frames
<1>. HIDE DEF f
<1>13. FrameGives(tree, n, f)
  BY <1>2, <1>3, <1>4, <1>7, <1>8, <1>10, <1>12, MergedGives DEF fin, k
<1>14. Replaced(stack, n, f, stack')
  BY <1>2, <1>3, <1>6, <1>12, ReplaceTop
<1>15. f.own = stack[n].own
  BY <1>12 DEF g
<1>16. QED
  BY <1>1, <1>3, <1>13, <1>14, <1>15, ReplaceGives

LEMMA InitGives == Init => GivesInv
<1>. SUFFICES ASSUME Init PROVE GivesInv
  OBVIOUS
<1>1. PICK d \in RootDirs : cur = Fresh(Root, d)
  BY DEF Init
<1>2. /\ tree \in Trees /\ at = 1 /\ stack = <<>> /\ status = "parse" /\ Root \in Files
      /\ cur.file = Root
  BY <1>1, TreeTypes DEF Init, Fresh
<1>3. Len(Content) \in Nat
  BY <1>2, TreeLines DEF Content
<1>4. Boundary(Content, at) /\ Before(Content, at, cur)
  BY <1>1, <1>2, <1>3, FirstBoundary, BeforeFirst
<1>5. StackGives(tree, stack)
  BY <1>2 DEF StackGives
<1>6. QED
  BY <1>2, <1>4, <1>5 DEF GivesInv, CurGives, ResultGives

LEMMA NextGives == ReadInv /\ GivesInv /\ [Next]_vars => GivesInv'
<1>. SUFFICES ASSUME ReadInv, GivesInv, [Next]_vars PROVE GivesInv'
  OBVIOUS
<1>1. CASE UNCHANGED vars
  BY <1>1 DEF vars, GivesInv, CurGives, ResultGives, Content
<1>2. QED
  BY <1>1, VariableGives, DefineGives, IncludeGives, CommentGives, TargetGives,
     EndGives, RootGives, IncludeParsedGives, StartGives, OpenGives,
     MergeLeafGives, RecurseGives, ReturnResult, ReturnAllGives DEF Next

(***************************************************************************)
(* For any makefiles and any tree of includes: what parse_all returns, by  *)
(* reading the includes of each makefile before it descends into any and   *)
(* merging on the way back, is the last definition of every variable, with *)
(* one value each, and the same however many levels more are looked at.    *)
(***************************************************************************)
THEOREM LastWins == Spec => []LastDefinitionWins
<1>1. GivesInv => LastDefinitionWins
  <2>1. StackLimit \in Nat
    BY TreeTypes
  <2>2. \A n \in StackLimit..StackLimit+1 : n \in Nat /\ n >= StackLimit
    BY <2>1
  <2>3. QED
    BY <2>2 DEF GivesInv, ResultGives, LastDefinitionWins
<1>2. QED
  BY <1>1, InitRead, NextRead, InitGives, NextGives, PTL DEF Spec
=============================================================================
