---------------------------- MODULE LookupProofs ----------------------------
(***************************************************************************)
(* For any variables, values and stack size: a lookup in a makefile        *)
(* without cyclic references never runs out of stack, and what a lookup    *)
(* returns is the expansion of the variable.  For any makefile the command *)
(* show-component, which is a sequence of such lookups, prints all that is *)
(* defined, and of the component what it has printed.                      *)
(***************************************************************************)
EXTENDS ShowComponent, Recursion, SequenceTheorems, TLAPS

(* The control of the lookup is well typed; what the texts hold is not    *)
(* needed here.                                                            *)
ControlOK ==
    /\ variables \in Makefiles
    /\ stack \in Seq(Frames)
    /\ Len(stack) <= StackLimit
    /\ status \in {"idle", "running", "overflow"}
    /\ status = "running" => Len(stack) >= 1
    /\ \A n \in 1..Len(stack) : stack[n].var \in DOMAIN variables

(* Each call on the stack has a lower rank than the one that made it. *)
DepthOK(rank) ==
    /\ \A n \in 1..Len(stack) : rank[stack[n].var] + n <= StackLimit
    /\ status # "overflow"

(* The inductive invariant. *)
DepthInv ==
    /\ ControlOK
    /\ \A rank \in [Vars -> 0..StackLimit-1] :
          Ranked(variables, rank) => DepthOK(rank)

(* The frame of the call in progress and the token it looks at. *)
LEMMA TopTypes ==
    ASSUME ControlOK, status = "running"
    PROVE  /\ Len(stack) \in 1..StackLimit
           /\ Top \in Frames
           /\ Top.var \in DOMAIN variables
           /\ Top.var \in Vars
           /\ variables[Top.var] \in Seq(Seq(Tokens))
<1>1. Len(stack) \in Nat /\ Len(stack) >= 1
  BY DEF ControlOK
<1>2. Top \in Frames /\ Top.var \in DOMAIN variables
  BY <1>1 DEF ControlOK, Top
<1>3. QED
  BY <1>1, <1>2, MakefileTypes DEF ControlOK, Frames

(* resolve_nested_variables calls get for a token of the value at hand. *)
LEMMA TokenInValue ==
    ASSUME ControlOK, AtToken, Token \in DOMAIN variables,
           NEW rank \in [Vars -> 0..StackLimit-1], Ranked(variables, rank)
    PROVE  /\ Token \in Vars
           /\ rank[Token] < rank[Top.var]
<1>1. /\ Top \in Frames /\ Top.var \in DOMAIN variables
      /\ variables[Top.var] \in Seq(Seq(Tokens))
  BY TopTypes DEF AtToken
<1>2. /\ Top.i \in 1..Len(variables[Top.var])
      /\ Top.c \in 1..Len(variables[Top.var][Top.i])
  BY <1>1 DEF AtToken, OrigValues, Frames
<1>3. Token \in Vars
  BY MakefileTypes DEF ControlOK
<1>4. QED
  BY <1>1, <1>2, <1>3 DEF Ranked, Token, OrigValues

(* A lookup starts with one frame. *)
LEMMA CallDepth ==
    ASSUME DepthInv, NEW o \in Ops, NEW v \in Vars, Call(o, v)
    PROVE  DepthInv'
<1>1. stack' = <<NewFrame(v)>> /\ NewFrame(v) \in Frames
  BY DEF Call, NewFrame, Frames
<1>2. /\ stack' \in Seq(Frames) /\ Len(stack') = 1
      /\ stack'[1].var = v /\ v \in DOMAIN variables
      /\ variables' = variables /\ status' = "running"
  BY <1>1 DEF Call, NewFrame
<1>3. ControlOK'
  BY <1>2, MakefileTypes DEF DepthInv, ControlOK
<1>4. QED
  BY <1>2, <1>3, MakefileTypes DEF DepthInv, DepthOK, Ranked

(* A nested call has a lower rank than the call that makes it. *)
LEMMA EnterDepth ==
    ASSUME DepthInv, EnterNested
    PROVE  DepthInv'
<1>1. /\ status = "running" /\ status' = status /\ variables' = variables
      /\ stack \in Seq(Frames) /\ Len(stack) \in 1..StackLimit
      /\ Token \in Vars /\ Token \in DOMAIN variables
      /\ Len(stack) < StackLimit
  BY TopTypes, MakefileTypes DEF DepthInv, ControlOK, EnterNested, AtToken
<1>2. NewFrame(Token) \in Frames /\ NewFrame(Token).var = Token
  BY <1>1 DEF NewFrame, Frames
<1>3. /\ stack' \in Seq(Frames)
      /\ Len(stack') = Len(stack) + 1
      /\ stack'[Len(stack) + 1].var = Token
      /\ \A n \in 1..Len(stack) : stack'[n] = stack[n]
  BY <1>1, <1>2 DEF EnterNested
<1>4. ControlOK'
  <2>1. ASSUME NEW n \in 1..Len(stack')
        PROVE  stack'[n].var \in DOMAIN variables'
    <3>1. CASE n \in 1..Len(stack)
      BY <1>1, <1>3, <3>1 DEF DepthInv, ControlOK
    <3>2. CASE n = Len(stack) + 1
      BY <1>1, <1>3, <3>2
    <3>3. QED
      BY <1>1, <1>3, <3>1, <3>2
  <2>2. StackLimit \in Nat /\ Len(stack) + 1 <= StackLimit
    BY <1>1, MakefileTypes
  <2>3. QED
    BY <1>1, <1>3, <2>1, <2>2 DEF DepthInv, ControlOK
<1>5. ASSUME NEW rank \in [Vars -> 0..StackLimit-1], Ranked(variables, rank)
      PROVE  DepthOK(rank)'
  <2>1. rank[Token] < rank[Top.var]
    BY <1>5, TokenInValue DEF DepthInv, EnterNested
  <2>2. DepthOK(rank)
    BY <1>5 DEF DepthInv
  <2>3. rank[Top.var] + Len(stack) <= StackLimit
    BY <1>1, <2>2 DEF DepthOK, Top
  <2>4. Top.var \in Vars
    BY <1>1, TopTypes DEF DepthInv
  <2>5. rank[Token] + (Len(stack) + 1) <= StackLimit
    BY <1>1, <2>1, <2>3, <2>4, MakefileTypes
  <2>6. QED
    BY <1>1, <1>3, <2>2, <2>5 DEF DepthOK
<1>6. QED
  BY <1>1, <1>4, <1>5 DEF DepthInv, Ranked

(* The stack runs out only below a call of rank 0, which makes none. *)
LEMMA OverflowDepth ==
    ASSUME DepthInv, Overflow
    PROVE  DepthInv'
<1>1. /\ status = "running" /\ status' = "overflow" /\ stack' = stack
      /\ variables' = variables /\ Len(stack) = StackLimit
      /\ Len(stack) \in 1..StackLimit /\ Top.var \in Vars
  BY TopTypes DEF DepthInv, Overflow, AtToken
<1>2. ControlOK'
  BY <1>1 DEF DepthInv, ControlOK
<1>3. ASSUME NEW rank \in [Vars -> 0..StackLimit-1], Ranked(variables, rank)
      PROVE  FALSE
  <2>1. rank[Token] < rank[Top.var] /\ Token \in Vars
    BY <1>3, TokenInValue DEF DepthInv, Overflow
  <2>2. rank[Top.var] + Len(stack) <= StackLimit
    BY <1>1, <1>3 DEF DepthInv, DepthOK, Top
  <2>3. QED
    BY <1>1, <2>1, <2>2, MakefileTypes
<1>4. QED
  BY <1>1, <1>2, <1>3 DEF DepthInv, Ranked

(* A step that only moves on in the frame at the top. *)
LEMMA SameDepth ==
    ASSUME DepthInv, variables' = variables, status' = status,
           stack' \in Seq(Frames), Len(stack') <= Len(stack),
           status = "running" => Len(stack') >= 1,
           \A n \in 1..Len(stack') : stack'[n].var = stack[n].var
    PROVE  DepthInv'
<1>1. Len(stack) \in Nat /\ Len(stack') \in Nat
  BY DEF DepthInv, ControlOK
<1>2. ControlOK'
  BY <1>1, MakefileTypes DEF DepthInv, ControlOK
<1>3. ASSUME NEW rank \in [Vars -> 0..StackLimit-1],
             Ranked(variables, rank)
      PROVE  DepthOK(rank)'
  BY <1>1, <1>3 DEF DepthInv, DepthOK
<1>4. QED
  BY <1>2, <1>3 DEF DepthInv, Ranked

(* The first frames of the stack with one of them changed, as EXCEPT does. *)
LEMMA ChangedFrame ==
    ASSUME stack \in Seq(Frames), NEW n \in 1..Len(stack),
           NEW f \in Frames, f.var = stack[n].var,
           stack' = [SubSeq(stack, 1, n) EXCEPT ![n] = f]
    PROVE  /\ stack' \in Seq(Frames)
           /\ Len(stack') = n
           /\ \A m \in 1..Len(stack') : stack'[m].var = stack[m].var
<1>. DEFINE s == SubSeq(stack, 1, n)
<1>1. /\ s \in Seq(Frames)
      /\ Len(s) = n
      /\ \A m \in 1..n : s[m] = stack[m]
  OBVIOUS
<1>. HIDE DEF s
<1>2. /\ stack' \in Seq(Frames)
      /\ Len(stack') = n
      /\ \A m \in 1..n : stack'[m] = IF m = n THEN f ELSE stack[m]
  <2>1. stack' = [s EXCEPT ![n] = f] /\ n \in 1..Len(s)
    BY <1>1 DEF s
  <2>2. /\ [s EXCEPT ![n] = f] \in Seq(Frames)
        /\ Len([s EXCEPT ![n] = f]) = Len(s)
        /\ \A m \in 1..Len(s) :
              [s EXCEPT ![n] = f][m] = IF m = n THEN f ELSE s[m]
    BY <1>1, <2>1, ExceptSeq
  <2>3. QED
    BY <1>1, <2>1, <2>2
<1>3. QED
  BY <1>2

(* Moving on in a value, to the next value, or back from a nested call. *)
LEMMA MoveDepth ==
    ASSUME DepthInv, PassOver \/ NextValue \/ ReturnNested
    PROVE  DepthInv'
<1>1. /\ status = "running" /\ status' = status /\ variables' = variables
      /\ stack \in Seq(Frames) /\ Len(stack) \in 1..StackLimit
  BY TopTypes DEF DepthInv, ControlOK, PassOver, NextValue, ReturnNested,
     AtToken
<1>2. stack[Len(stack)] \in Frames
  BY <1>1
<1>3. CASE PassOver \/ NextValue
  <2>1. PICK f \in Frames : /\ f.var = stack[Len(stack)].var
                            /\ stack' = [stack EXCEPT ![Len(stack)] = f]
    <3>1. CASE PassOver
      <4>1. [stack[Len(stack)] EXCEPT !.c = @ + 1] \in Frames
        BY <1>2 DEF Frames
      <4>2. QED
        BY <1>2, <3>1, <4>1 DEF PassOver, Frames
    <3>2. CASE NextValue
      <4>. DEFINE f == [var |-> stack[Len(stack)].var,
                        i   |-> stack[Len(stack)].i + 1, c |-> 1]
      <4>1. f \in Frames
        BY <1>2 DEF Frames
      <4>2. stack' = [stack EXCEPT ![Len(stack)] = f]
        BY <1>1, <3>2 DEF NextValue
      <4>3. QED
        BY <1>2, <4>1, <4>2 DEF Frames
    <3>3. QED
      BY <1>3, <3>1, <3>2
  <2>2. /\ stack' \in Seq(Frames) /\ Len(stack') = Len(stack)
        /\ \A m \in 1..Len(stack) : stack'[m].var = stack[m].var
    BY <1>1, <2>1, ExceptSeq
  <2>3. QED
    BY <1>1, <2>2, SameDepth
<1>4. CASE ReturnNested
  <2>. DEFINE n == Len(stack) - 1
  <2>1. n \in 1..Len(stack) /\ stack[n] \in Frames
    BY <1>1, <1>4 DEF ReturnNested
  <2>2. [stack[n] EXCEPT !.c = @ + 1] \in Frames
    BY <2>1 DEF Frames
  <2>3. /\ [stack[n] EXCEPT !.c = @ + 1].var = stack[n].var
        /\ SubSeq(stack, 1, n)[n] = stack[n]
    BY <1>1, <2>1 DEF Frames
  <2>4. stack' = [SubSeq(stack, 1, n) EXCEPT
                    ![n] = [stack[n] EXCEPT !.c = @ + 1]]
    BY <2>3, <1>4 DEF ReturnNested
  <2>5. /\ stack' \in Seq(Frames) /\ Len(stack') = n
        /\ \A m \in 1..Len(stack') : stack'[m].var = stack[m].var
    BY <1>1, <2>1, <2>2, <2>3, <2>4, ChangedFrame
  <2>6. QED
    BY <1>1, <2>1, <2>5, SameDepth
<1>5. QED
  BY <1>3, <1>4

(* The stack stays within the ranks of the calls on it, step by step. *)
LEMMA NextDepth == DepthInv /\ [Next]_vars => DepthInv'
<1>. SUFFICES ASSUME DepthInv, [Next]_vars PROVE DepthInv'
  OBVIOUS
<1>1. ASSUME NEW o \in Ops, NEW v \in Vars, CallUndefined(o, v)
      PROVE  DepthInv'
  BY <1>1 DEF DepthInv, ControlOK, DepthOK, Ranked, CallUndefined
<1>2. CASE Return
  BY <1>2, MakefileTypes DEF DepthInv, ControlOK, DepthOK, Ranked, Return
<1>3. CASE UNCHANGED vars
  BY <1>3 DEF DepthInv, ControlOK, DepthOK, Ranked, vars
<1>4. QED
  BY <1>1, <1>2, <1>3, CallDepth, EnterDepth, OverflowDepth, MoveDepth
     DEF Next, Step

(***************************************************************************)
(* For any makefile: if its variables can be ranked so that every one      *)
(* refers to lower ranks only, no lookup runs out of a stack that has room *)
(* for as many nested calls as there are ranks.                            *)
(***************************************************************************)
THEOREM NoOverflowWithoutCycle == Spec => []OverflowOnlyOnCycle
<1>1. Init => DepthInv
  BY MakefileTypes DEF Init, DepthInv, ControlOK, DepthOK
<1>2. DepthInv => OverflowOnlyOnCycle
  BY DEF DepthInv, DepthOK, OverflowOnlyOnCycle
<1>3. QED
  BY <1>1, <1>2, NextDepth, PTL DEF Spec
-----------------------------------------------------------------------------

(* vars_to_string puts the values on lines of their own. *)
LEMMA JoinedLines ==
    ASSUME NEW T, NewLine \in T, NEW vals \in Seq(Seq(T))
    PROVE  VarsToString(vals) = Lines(vals) /\ Lines(vals) \in Seq(T)
<1>. DEFINE N == Len(vals)
            V == Seq(T)
            F(f) == [n \in 1..N |-> IF n = 1 THEN vals[n]
                                    ELSE f[n-1] \o <<NewLine>> \o vals[n]]
            join == CHOOSE f : f = F(f)
<1>1. VarsToString(vals) = IF vals = <<>> THEN <<>> ELSE join[N]
  BY DEF VarsToString
<1>. DEFINE b == [i \in 1..N |-> IF i = 1 THEN vals[i] ELSE <<NewLine>> \o vals[i]]
<1>b. Lines(vals) = FlattenSeq(b)
  BY DEF Lines
<1>2. CASE vals = <<>>
  <2>1. b = <<>>
    BY <1>2
  <2>2. Lines(vals) = <<>> /\ VarsToString(vals) = <<>>
    BY <1>1, <1>2, <1>b, <2>1, FlattenEmpty
  <2>3. <<>> \in Seq(T)
    OBVIOUS
  <2>4. QED
    BY <2>2, <2>3
<1>3. CASE vals # <<>>
  <2>1. N \in Nat /\ 1 <= N /\ \A n \in 1..N : vals[n] \in V
    BY <1>3
  <2>. DEFINE val == [n \in Nat |-> IF n \in 1..N THEN vals[n] ELSE <<>>]
              e == [n \in Nat |-> [x \in V |-> x \o <<NewLine>> \o val[n]]]
  <2>2. val \in [Nat -> V]
    BY <2>1
  <2>. HIDE DEF val
  <2>3. ASSUME NEW x \in V, NEW y \in V
        PROVE  x \o <<NewLine>> \o y \in V
    <3>1. <<NewLine>> \in V
      OBVIOUS
    <3>. HIDE DEF V
    <3>2. QED
      BY <3>1, ConcatProperties DEF V
  <2>. HIDE DEF V, N
  <2>3a. ASSUME NEW n \in Nat
        PROVE  e[n] \in [V -> V]
    BY <2>2, <2>3
  <2>3b. vals[1] \in V
    BY <2>1
  <2>3c. e \in [Nat -> [V -> V]]
    BY <2>3a
  <2>. HIDE DEF e
  <2>4. PICK g : Recursive(g, 1, N, V, vals[1], e)
    BY <2>1, <2>3b, <2>3c, IntervalRecursion
  <2>5. g \in [1..N -> V]
    BY <2>4 DEF Recursive
  <2>6. ASSUME NEW n \in 1..N
        PROVE  g[n] = IF n = 1 THEN vals[n]
                      ELSE g[n-1] \o <<NewLine>> \o vals[n]
    <3>1. g[n] = IF n = 1 THEN vals[1] ELSE e[n][g[n-1]]
      BY <2>4 DEF Recursive
    <3>2. ASSUME n # 1
          PROVE  e[n][g[n-1]] = g[n-1] \o <<NewLine>> \o vals[n]
      <4>1. n - 1 \in 1..N /\ g[n-1] \in V /\ n \in Nat
        BY <2>1, <2>5, <3>2
      <4>2. val[n] = vals[n]
        BY <4>1 DEF val
      <4>3. e[n] = [x \in V |-> x \o <<NewLine>> \o vals[n]]
        BY <4>1, <4>2 DEF e
      <4>4. QED
        BY <4>1, <4>3
    <3>3. QED
      BY <3>1, <3>2
  <2>7. g = F(g)
    BY <2>5, <2>6
  <2>8. join = F(join)
    BY <2>7
  <2>. HIDE DEF join
  <2>9. /\ join[1] = vals[1]
        /\ \A n \in 2..N : join[n] = join[n-1] \o <<NewLine>> \o vals[n]
    <3>1. \A n \in 1..N : join[n] = IF n = 1 THEN vals[n]
                                    ELSE join[n-1] \o <<NewLine>> \o vals[n]
      BY <2>8
    <3>2. 1 \in 1..N /\ \A n \in 2..N : n \in 1..N /\ n # 1
      BY <2>1
    <3>3. QED
      BY <3>1, <3>2
  <2>. DEFINE G(n) == FlattenSeq([i \in 1..n |-> b[i]])
              S == {n \in Nat : n + 1 <= N => join[n + 1] = G(n + 1) /\ G(n + 1) \in V}
  <2>b. ASSUME NEW n \in 1..N
        PROVE  /\ b[n] \in V
               /\ b[n] = IF n = 1 THEN vals[n] ELSE <<NewLine>> \o vals[n]
               /\ <<NewLine>> \in V /\ vals[n] \in V
    <3>1. <<NewLine>> \in V /\ vals[n] \in V
      BY <2>1 DEF V
    <3>2. <<NewLine>> \o vals[n] \in V
      BY <3>1, ConcatProperties DEF V
    <3>3. QED
      BY <3>1, <3>2
  <2>c. b = [i \in 1..N |-> b[i]]
    OBVIOUS
  <2>. HIDE DEF b
  <2>g. ASSUME NEW n \in Nat, n + 1 <= N
        PROVE  G(n) \in V /\ G(n + 1) = G(n) \o b[n + 1] /\ G(n + 1) \in V
    <3>. DEFINE a == [i \in 1..n+1 |-> b[i]]
    <3>1. ASSUME NEW i \in 1..n+1 PROVE b[i] \in Seq(T)
      BY <2>1, <2>b, <2>g DEF V
    <3>2. a \in [1..n+1 -> Seq(T)]
      BY <3>1
    <3>3. a[n+1] = b[n+1] /\ [i \in 1..n |-> a[i]] = [i \in 1..n |-> b[i]]
      OBVIOUS
    <3>4. a = [i \in 1..n+1 |-> b[i]]
      OBVIOUS
    <3>. HIDE DEF a
    <3>5. /\ FlattenSeq([i \in 1..n |-> a[i]]) \in Seq(T)
          /\ FlattenSeq(a) = FlattenSeq([i \in 1..n |-> a[i]]) \o a[n+1]
          /\ FlattenSeq(a) \in Seq(T)
      BY <3>2, FlattenStep
    <3>6. QED
      BY <3>3, <3>4, <3>5 DEF V
  <2>h. G(0) = <<>>
    <3>1. [i \in 1..0 |-> b[i]] = <<>>
      OBVIOUS
    <3>2. QED
      BY <3>1, FlattenEmpty
  <2>. HIDE DEF G
  <2>10. 0 \in S
    <3>1. 0 + 1 = 1 /\ 1 \in 1..N /\ 1 <= N
      BY <2>1
    <3>2. G(1) = G(0) \o b[1] /\ b[1] = vals[1] /\ b[1] \in V
      BY <2>b, <2>g, <3>1
    <3>3. G(1) = b[1]
      BY <2>h, <3>2, ConcatEmptySeq DEF V
    <3>4. QED
      BY <2>9, <3>1, <3>2, <3>3
  <2>11. ASSUME NEW n \in Nat, n \in S PROVE n + 1 \in S
    <3>. DEFINE l == n + 1
                k == l + 1
    <3>. SUFFICES ASSUME k <= N PROVE join[k] = G(k) /\ G(k) \in V
      OBVIOUS
    <3>1. /\ k \in 2..N /\ k \in 1..N /\ k - 1 = l /\ l \in Nat /\ l + 1 <= N /\ k # 1
          /\ join[l] = G(l) /\ G(l) \in V
      BY <2>1, <2>11
    <3>2. G(l + 1) = G(l) \o b[l + 1] /\ G(l + 1) \in V
      BY <2>g, <3>1
    <3>3. G(k) = G(l) \o b[k] /\ G(k) \in V
      BY <3>2
    <3>. HIDE DEF k, l
    <3>4. join[k] = G(l) \o <<NewLine>> \o vals[k]
      BY <2>9, <3>1
    <3>5. /\ b[k] = <<NewLine>> \o vals[k]
          /\ <<NewLine>> \in V /\ vals[k] \in V
      BY <2>b, <3>1
    <3>6. (G(l) \o <<NewLine>>) \o vals[k] = G(l) \o (<<NewLine>> \o vals[k])
      <4>. DEFINE x == G(l)
                  y == <<NewLine>>
                  z == vals[k]
      <4>1. x \in Seq(T) /\ y \in Seq(T) /\ z \in Seq(T)
        BY <3>1, <3>5 DEF V
      <4>. HIDE DEF x, y, z
      <4>2. (x \o y) \o z = x \o (y \o z)
        BY ONLY <4>1, ConcatAssociative
      <4>3. QED
        BY <4>2 DEF x, y, z
    <3>7. QED
      BY <3>3, <3>4, <3>5, <3>6
  <2>. HIDE DEF S
  <2>12. \A n \in Nat : n \in S
    BY <2>10, <2>11, SetInduction
  <2>13. N - 1 \in Nat /\ (N - 1) + 1 = N /\ N <= N
    BY <2>1
  <2>14. N - 1 \in S
    BY <2>12, <2>13
  <2>15. join[N] = G(N) /\ G(N) \in V
    BY <2>13, <2>14 DEF S
  <2>16. G(N) = FlattenSeq(b)
    BY <2>c DEF G
  <2>17. QED
    BY <1>1, <1>3, <1>b, <2>15, <2>16 DEF V
<1>4. QED
  BY <1>2, <1>3

(* One token is a subsequence of a text that has it somewhere. *)
LEMMA TokenAsSubSeq ==
    ASSUME NEW T, NEW v \in T, NEW t \in Seq(T)
    PROVE  <<v>> \in SubSeqs(t) <=> \E x \in 1..Len(t) : t[x] = v
<1>1. ASSUME NEW x \in 1..Len(t), t[x] = v
      PROVE  <<v>> \in SubSeqs(t)
  <2>. DEFINE y == x - 1
  <2>1. y \in 0..Len(t) /\ x \in 0..Len(t) /\ x \in Int /\ y + 1 = x
    OBVIOUS
  <2>. HIDE DEF y
  <2>2. \A i \in x..x : t[i] \in T
    BY <2>1
  <2>3. /\ SubSeq(t, x, x) \in Seq(T) /\ Len(SubSeq(t, x, x)) = 1
        /\ SubSeq(t, x, x)[1] = t[x]
    BY <2>1, <2>2, SubSeqProperties
  <2>4. SubSeq(t, y + 1, x) = <<v>>
    <3>. DEFINE u == SubSeq(t, x, x)
    <3>. HIDE DEF u
    <3>1. u \in Seq(T) /\ Len(u) = 1 /\ u[1] = v
      BY <1>1, <2>3 DEF u
    <3>2. u = <<v>>
      BY <3>1
    <3>3. QED
      BY <2>1, <3>2 DEF u
  <2>5. SubSeq(t, y + 1, x) \in SubSeqs(t)
    BY <2>1 DEF SubSeqs
  <2>6. QED
    BY <2>4, <2>5
<1>2. ASSUME <<v>> \in SubSeqs(t)
      PROVE  \E x \in 1..Len(t) : t[x] = v
  <2>1. PICK i \in 0..Len(t), j \in 0..Len(t) : <<v>> = SubSeq(t, i + 1, j)
    BY <1>2 DEF SubSeqs
  <2>2. i \in Nat /\ j \in Nat /\ i + 1 \in Nat
    OBVIOUS
  <2>3. i + 1 <= j
    <3>. SUFFICES ASSUME ~(i + 1 <= j) PROVE FALSE
      OBVIOUS
    <3>1. Len(SubSeq(t, i + 1, j)) = 0
      BY <2>2, SubSeqProperties
    <3>2. QED
      BY <2>1, <3>1
  <2>4. SubSeq(t, i + 1, j)[1] = t[i + 1]
    BY <2>2, <2>3
  <2>5. i + 1 \in 1..Len(t)
    BY <2>2, <2>3
  <2>6. QED
    BY <2>1, <2>4, <2>5
<1>3. QED
  BY <1>1, <1>2

(* A token between two texts. *)
LEMMA TokenBetween ==
    ASSUME NEW v \in Tokens, NEW p \in Seq(Tokens), NEW q \in Seq(Tokens)
    PROVE  p \o (<<v>> \o q) = p \o <<v>> \o q
<1>1. <<v>> \in Seq(Tokens)
  OBVIOUS
<1>2. QED
  BY <1>1, ConcatAssociative

(* replacen with count 1 replaces the match that the text before it does  *)
(* not have.                                                               *)
LEMMA ReplacesFirst ==
    ASSUME NEW v \in Tokens, NEW p \in Seq(Tokens), NEW q \in Seq(Tokens),
           NEW r \in Seq(Tokens), \A x \in 1..Len(p) : p[x] # v
    PROVE  ReplaceFirstSubSeq(r, <<v>>, p \o (<<v>> \o q)) = p \o r \o q
<1>0. p \o (<<v>> \o q) = p \o <<v>> \o q
  BY TokenBetween
<1>. DEFINE t == p \o <<v>> \o q
            k == Len(p) + 1
<1>1. /\ k \in 1..Len(t) /\ t \in Seq(Tokens) /\ t[k] = v
      /\ \A x \in 1..k-1 : t[x] # v
      /\ Len(t) = k + Len(q)
      /\ SubSeq(t, 1, k - 1) = p
      /\ SubSeq(t, k + 1, Len(t)) = q
  <2>1. t \in Seq(Tokens) /\ Len(t) = k + Len(q) /\ k \in 1..Len(t)
    OBVIOUS
  <2>2. t[k] = v
    OBVIOUS
  <2>3. \A x \in 1..Len(p) : t[x] = p[x]
    OBVIOUS
  <2>4. \A x \in 1..Len(q) : t[k + x] = q[x]
    OBVIOUS
  <2>. HIDE DEF t
  <2>5. SubSeq(t, 1, k - 1) = p
    <3>1. /\ SubSeq(t, 1, k - 1) \in Seq(Tokens) /\ Len(SubSeq(t, 1, k - 1)) = Len(p)
          /\ \A x \in 1..Len(p) : SubSeq(t, 1, k - 1)[x] = t[x]
      BY <2>1
    <3>2. QED
      BY <2>3, <3>1, SeqEqual
  <2>6. SubSeq(t, k + 1, Len(t)) = q
    <3>1. /\ SubSeq(t, k + 1, Len(t)) \in Seq(Tokens)
          /\ Len(SubSeq(t, k + 1, Len(t))) = Len(q)
          /\ \A x \in 1..Len(q) : SubSeq(t, k + 1, Len(t))[x] = t[k + x]
      BY <2>1
    <3>2. QED
      BY <2>4, <3>1, SeqEqual
  <2>7. QED
    BY <2>1, <2>2, <2>3, <2>5, <2>6
<1>. HIDE DEF t, k
<1>2. k \in Nat /\ Len(t) \in Nat /\ k <= Len(t) /\ k >= 1
  BY <1>1
<1>3. <<v>> \in SubSeqs(t)
  BY <1>1, TokenAsSubSeq
<1>4. ASSUME NEW i \in 0..Len(t)
      PROVE  <<v>> \in SubSeqs(SubSeq(t, 1, i)) <=> \E x \in 1..i : t[x] = v
  <2>1. /\ SubSeq(t, 1, i) \in Seq(Tokens) /\ Len(SubSeq(t, 1, i)) = i
        /\ \A x \in 1..i : SubSeq(t, 1, i)[x] = t[x]
    BY <1>1, <1>2
  <2>. DEFINE u == SubSeq(t, 1, i)
  <2>. HIDE DEF u
  <2>2. <<v>> \in SubSeqs(u) <=> \E x \in 1..Len(u) : u[x] = v
    BY <2>1, TokenAsSubSeq DEF u
  <2>3. QED
    BY <2>1, <2>2 DEF u
<1>. DEFINE First(i) == /\ <<v>> \in SubSeqs(SubSeq(t, 1, i))
                        /\ \A j \in 0..i-1 : <<v>> \notin SubSeqs(SubSeq(t, 1, j))
<1>5. k \in 0..Len(t) /\ First(k)
  <2>1. <<v>> \in SubSeqs(SubSeq(t, 1, k))
    <3>1. k \in 0..Len(t) /\ k \in 1..k /\ t[k] = v
      BY <1>1, <1>2
    <3>2. QED
      BY <1>4, <3>1
  <2>2. ASSUME NEW j \in 0..k-1 PROVE <<v>> \notin SubSeqs(SubSeq(t, 1, j))
    <3>1. j \in 0..Len(t) /\ \A x \in 1..j : x \in 1..k-1
      BY <1>2
    <3>2. \A x \in 1..j : t[x] # v
      BY <1>1, <3>1
    <3>3. QED
      BY <1>4, <3>1, <3>2
  <2>3. QED
    BY <1>2, <2>1, <2>2
<1>6. ASSUME NEW i \in 0..Len(t), First(i) PROVE i = k
  <2>1. ~(i < k)
    <3>1. PICK x \in 1..i : t[x] = v
      BY <1>4, <1>6
    <3>2. x \notin 1..k-1
      BY <1>1, <3>1
    <3>3. QED
      BY <1>2, <3>2
  <2>2. ~(k < i)
    <3>. SUFFICES ASSUME k < i PROVE FALSE
      OBVIOUS
    <3>1. k \in 0..i-1
      BY <1>2
    <3>2. QED
      BY <1>5, <1>6, <3>1
  <2>3. QED
    BY <1>2, <2>1, <2>2
<1>7. IndexFirstSubSeq(<<v>>, t) = k
  <2>. DEFINE last == CHOOSE i \in 0..Len(t) : First(i)
  <2>1. last = k
    <3>. HIDE DEF First
    <3>. QED BY <1>5, <1>6
  <2>2. IndexFirstSubSeq(<<v>>, t) = last - (Len(<<v>>) - 1)
    BY DEF IndexFirstSubSeq
  <2>. HIDE DEF last
  <2>3. QED
    BY <1>2, <2>1, <2>2
<1>8. QED
  <2>1. ReplaceFirstSubSeq(r, <<v>>, t) =
            SubSeq(t, 1, k - 1) \o r \o SubSeq(t, k + Len(<<v>>), Len(t))
    BY <1>3, <1>7 DEF ReplaceFirstSubSeq, ReplaceSubSeqAt
  <2>2. Len(<<v>>) = 1
    OBVIOUS
  <2>3. QED
    BY <1>0, <1>1, <2>1, <2>2 DEF t
-----------------------------------------------------------------------------

(* Tokens that are left alone: text, and names that m does not define. *)
Clean(m) == Tokens \ DOMAIN m

(* What a makefile holds, and what a value of it looks like. *)
LEMMA MakefileFacts ==
    ASSUME NEW m \in Makefiles
    PROVE  /\ NewLine \in Clean(m)
           /\ Clean(m) \subseteq Tokens
           /\ Seq(Clean(m)) \subseteq Seq(Tokens)
           /\ \A v \in DOMAIN m : v \in Vars /\ v \in Tokens
           /\ \A v \in DOMAIN m : m[v] \in Seq(Seq(Tokens)) /\ Len(m[v]) >= 1
           /\ \A v \in DOMAIN m : \A j \in 1..Len(m[v]) : m[v][j] \in Seq(Tokens)
<1>1. NewLine \in Clean(m) /\ Clean(m) \subseteq Tokens
  BY MakefileTypes DEF Clean, Tokens
<1>2. Seq(Clean(m)) \subseteq Seq(Tokens)
  BY <1>1, SeqMonotonic
<1>3. \A v \in DOMAIN m : v \in Vars /\ v \in Tokens
  BY MakefileTypes DEF Tokens
<1>4. ASSUME NEW v \in DOMAIN m
      PROVE  m[v] \in Seq(Seq(Tokens)) /\ Len(m[v]) >= 1
  BY MakefileTypes
<1>5. QED
  BY <1>1, <1>2, <1>3, <1>4

(* Texts for the variables of m. *)
Texted(m) == [DOMAIN m -> Seq(Clean(m))]

(* What stands for the token t. *)
Image(m, x, t) == IF t \in DOMAIN m THEN x[t] ELSE <<t>>

LEMMA ImageType ==
    ASSUME NEW m \in Makefiles, NEW x \in Texted(m), NEW t \in Tokens
    PROVE  Image(m, x, t) \in Seq(Clean(m))
<1>1. CASE t \in DOMAIN m
  BY <1>1 DEF Texted, Image
<1>2. CASE t \notin DOMAIN m
  <2>1. t \in Clean(m) /\ Image(m, x, t) = <<t>>
    BY <1>2 DEF Image, Clean
  <2>2. QED
    BY <2>1
<1>3. QED
  BY <1>1, <1>2

LEMMA SubstitutedType ==
    ASSUME NEW m \in Makefiles, NEW x \in Texted(m), NEW text \in Seq(Tokens)
    PROVE  Substituted(m, x, text) \in Seq(Clean(m))
<1>. DEFINE T == Clean(m)
            b == [j \in 1..Len(text) |-> Image(m, x, text[j])]
<1>1. \A j \in 1..Len(text) : text[j] \in Tokens /\ Image(m, x, text[j]) \in Seq(T)
  BY ImageType
<1>2. b \in Seq(Seq(T))
  BY <1>1
<1>3. <<>> \in Seq(T)
  OBVIOUS
<1>4. Substituted(m, x, text) = FlattenSeq(b)
  BY DEF Substituted, Image
<1>. HIDE DEF b, T
<1>5. FlattenSeq(b) \in Seq(T)
  BY <1>2, <1>3, FlattenAppend
<1>6. QED
  BY <1>4, <1>5 DEF T

(* One token more. *)
LEMMA SubstitutedStep ==
    ASSUME NEW m \in Makefiles, NEW x \in Texted(m), NEW o \in Seq(Tokens),
           NEW c \in 1..Len(o)
    PROVE  Substituted(m, x, SubSeq(o, 1, c))
              = Substituted(m, x, SubSeq(o, 1, c - 1)) \o Image(m, x, o[c])
<1>. DEFINE T == Clean(m)
            s == SubSeq(o, 1, c)
            r == SubSeq(o, 1, c - 1)
            a == [j \in 1..c |-> Image(m, x, o[j])]
            k == c - 1
<1>1. /\ c \in Nat /\ k \in Nat /\ k + 1 = c
      /\ Len(s) = c /\ \A j \in 1..c : s[j] = o[j]
      /\ Len(r) = k /\ \A j \in 1..k : r[j] = o[j]
  OBVIOUS
<1>2. \A j \in 1..c : o[j] \in Tokens /\ Image(m, x, o[j]) \in Seq(T)
  BY ImageType
<1>. HIDE DEF s, r, T, k
<1>3. Substituted(m, x, s) = FlattenSeq(a)
  <2>1. \A t : Len(t) = c /\ (\A j \in 1..c : t[j] = o[j]) =>
            Substituted(m, x, t) = FlattenSeq(a)
    BY DEF Substituted, Image
  <2>2. QED
    BY <1>1, <2>1
<1>4. Substituted(m, x, r) = FlattenSeq([j \in 1..k |-> a[j]])
  <2>1. \A j \in 1..k : a[j] = Image(m, x, r[j])
    BY <1>1
  <2>2. [j \in 1..k |-> a[j]] = [j \in 1..k |-> Image(m, x, r[j])]
    BY <2>1
  <2>3. QED
    BY <1>1, <2>2 DEF Substituted, Image
<1>5. a \in [1..k+1 -> Seq(T)] /\ a[k + 1] = Image(m, x, o[c])
  BY <1>1, <1>2
<1>. HIDE DEF a
<1>6. FlattenSeq(a) = FlattenSeq([j \in 1..k |-> a[j]]) \o a[k + 1]
  BY <1>1, <1>5, FlattenStep
<1>7. QED
  BY <1>3, <1>4, <1>5, <1>6 DEF s, r, k

LEMMA SubstitutedNone ==
    ASSUME NEW m, NEW x
    PROVE  Substituted(m, x, <<>>) = <<>>
<1>. DEFINE b == [j \in 1..Len(<<>>) |-> IF <<>>[j] \in DOMAIN m THEN x[<<>>[j]] ELSE <<<<>>[j]>>]
<1>1. b = <<>>
  OBVIOUS
<1>2. Substituted(m, x, <<>>) = FlattenSeq(b)
  BY DEF Substituted
<1>3. QED
  BY <1>1, <1>2, FlattenEmpty

LEMMA ReplacedType ==
    ASSUME NEW m \in Makefiles, NEW x \in Texted(m), NEW v \in DOMAIN m
    PROVE  Replaced(m, x, v) \in Seq(Clean(m))
<1>. DEFINE s == [i \in 1..Len(m[v]) |-> Substituted(m, x, m[v][i])]
<1>1. \A i \in 1..Len(m[v]) : Substituted(m, x, m[v][i]) \in Seq(Clean(m))
  BY MakefileFacts, SubstitutedType
<1>2. s \in Seq(Seq(Clean(m)))
  BY <1>1, MakefileFacts
<1>. HIDE DEF s
<1>3. Lines(s) \in Seq(Clean(m))
  BY <1>2, MakefileFacts, JoinedLines
<1>4. QED
  BY <1>3 DEF Replaced, s

(* One level more. *)
LEMMA ExpansionStep ==
    ASSUME NEW m \in Makefiles
    PROVE  \A n \in Nat :
              /\ Expansion(m, n) \in Texted(m)
              /\ Expansion(m, n + 1)
                    = [v \in DOMAIN m |-> Replaced(m, Expansion(m, n), v)]
<1>. DEFINE V == Texted(m)
            c == [v \in DOMAIN m |-> <<>>]
            R(x) == [v \in DOMAIN m |-> Replaced(m, x, v)]
            step == [x \in V |-> R(x)]
<1>1. c \in V
  BY DEF Texted
<1>2. ASSUME NEW x \in V PROVE R(x) \in V
  BY ReplacedType DEF Texted
<1>. HIDE DEF V, c
<1>3. step \in [V -> V]
  BY <1>2
<1>4. \A x \in V : step[x] = R(x)
  OBVIOUS
<1>. HIDE DEF step
<1>5. PICK g \in [Nat -> V] : g[0] = c /\ \A n \in Nat : g[n + 1] = step[g[n]]
  <2>1. \E g : Iterates(g, V, c, step)
    BY <1>1, <1>3, Iteration
  <2>2. QED
    BY <2>1 DEF Iterates
<1>6. ASSUME NEW n \in Nat PROVE Expansion(m, n) = g[n]
  <2>. DEFINE F(f) == [k \in 0..n |-> IF k = 0 THEN c ELSE R(f[k-1])]
              e == CHOOSE f : f = F(f)
              h == [k \in 0..n |-> g[k]]
  <2>1. ASSUME NEW k \in 0..n PROVE h[k] = IF k = 0 THEN c ELSE R(h[k-1])
    <3>1. CASE k = 0
      BY <1>5, <3>1
    <3>2. CASE k # 0
      <4>1. k - 1 \in Nat /\ k - 1 \in 0..n /\ (k - 1) + 1 = k
        BY <3>2
      <4>2. g[(k - 1) + 1] = step[g[k-1]] /\ g[k-1] \in V
        BY <1>5, <4>1
      <4>3. h[k] = g[k] /\ h[k-1] = g[k-1]
        BY <4>1
      <4>. HIDE DEF R, h
      <4>4. QED
        BY <1>4, <3>2, <4>1, <4>2, <4>3
    <3>3. QED
      BY <3>1, <3>2
  <2>2. h = F(h)
    <3>. HIDE DEF R
    <3>. QED BY <2>1
  <2>3. e = F(e)
    <3>. HIDE DEF h, F
    <3>. QED BY <2>2
  <2>4. Expansion(m, n) = e[n]
    BY DEF Expansion, c
  <2>. HIDE DEF e, R
  <2>5. e[0] = c /\ \A k \in 1..n : e[k] = R(e[k-1])
    <3>1. \A k \in 0..n : e[k] = IF k = 0 THEN c ELSE R(e[k-1])
      BY <2>3
    <3>2. 0 \in 0..n /\ \A k \in 1..n : k \in 0..n /\ k # 0
      OBVIOUS
    <3>3. QED
      BY <3>1, <3>2
  <2>. DEFINE I == {k \in Nat : k <= n => e[k] = g[k]}
  <2>6. 0 \in I
    BY <1>5, <2>5
  <2>7. ASSUME NEW k \in Nat, k \in I PROVE k + 1 \in I
    <3>1. k + 1 <= n => k + 1 \in 1..n /\ (k + 1) - 1 = k /\ k <= n
      OBVIOUS
    <3>2. g[k + 1] = R(g[k])
      BY <1>4, <1>5
    <3>3. QED
      BY <2>5, <2>7, <3>1, <3>2
  <2>. HIDE DEF I
  <2>8. n \in I
    BY <2>6, <2>7, SetInduction
  <2>9. QED
    BY <2>4, <2>8 DEF I
<1>7. ASSUME NEW n \in Nat
      PROVE  Expansion(m, n) \in V /\ Expansion(m, n + 1) = R(Expansion(m, n))
  <2>. HIDE DEF R
  <2>1. n + 1 \in Nat /\ g[n] \in V
    BY <1>5
  <2>2. QED
    BY <1>4, <1>5, <1>6, <2>1
<1>8. QED
  BY <1>7 DEF V

LEMMA EndingStep ==
    ASSUME NEW m
    PROVE  /\ Ending(m, 0) = {}
           /\ \A n \in Nat :
                 Ending(m, n + 1) = {v \in DOMAIN m : RefersTo(m, v, Ending(m, n))}
<1>. DEFINE V == SUBSET DOMAIN m
            R(S) == {v \in DOMAIN m : RefersTo(m, v, S)}
            step == [S \in V |-> R(S)]
<1>1. {} \in V
  OBVIOUS
<1>3. step \in [V -> V]
  OBVIOUS
<1>4. \A S \in V : step[S] = R(S)
  OBVIOUS
<1>. HIDE DEF V, step
<1>5. PICK g \in [Nat -> V] : g[0] = {} /\ \A n \in Nat : g[n + 1] = step[g[n]]
  <2>1. \E g : Iterates(g, V, {}, step)
    BY <1>1, <1>3, Iteration
  <2>2. QED
    BY <2>1 DEF Iterates
<1>6. ASSUME NEW n \in Nat PROVE Ending(m, n) = g[n]
  <2>. DEFINE F(f) == [k \in 0..n |-> IF k = 0 THEN {} ELSE R(f[k-1])]
              d == CHOOSE f : f = F(f)
              h == [k \in 0..n |-> g[k]]
  <2>1. ASSUME NEW k \in 0..n PROVE h[k] = IF k = 0 THEN {} ELSE R(h[k-1])
    <3>1. CASE k = 0
      BY <1>5, <3>1
    <3>2. CASE k # 0
      <4>1. k - 1 \in Nat /\ k - 1 \in 0..n /\ (k - 1) + 1 = k
        BY <3>2
      <4>2. g[(k - 1) + 1] = step[g[k-1]] /\ g[k-1] \in V
        BY <1>5, <4>1
      <4>3. h[k] = g[k] /\ h[k-1] = g[k-1]
        BY <4>1
      <4>. HIDE DEF R, h
      <4>4. QED
        BY <1>4, <3>2, <4>1, <4>2, <4>3
    <3>3. QED
      BY <3>1, <3>2
  <2>2. h = F(h)
    <3>. HIDE DEF R
    <3>. QED BY <2>1
  <2>3. d = F(d)
    <3>. HIDE DEF h, F
    <3>. QED BY <2>2
  <2>4. Ending(m, n) = d[n]
    BY DEF Ending
  <2>. HIDE DEF d, R
  <2>5. d[0] = {} /\ \A k \in 1..n : d[k] = R(d[k-1])
    <3>1. \A k \in 0..n : d[k] = IF k = 0 THEN {} ELSE R(d[k-1])
      BY <2>3
    <3>2. 0 \in 0..n /\ \A k \in 1..n : k \in 0..n /\ k # 0
      OBVIOUS
    <3>3. QED
      BY <3>1, <3>2
  <2>. DEFINE I == {k \in Nat : k <= n => d[k] = g[k]}
  <2>6. 0 \in I
    BY <1>5, <2>5
  <2>7. ASSUME NEW k \in Nat, k \in I PROVE k + 1 \in I
    <3>1. k + 1 <= n => k + 1 \in 1..n /\ (k + 1) - 1 = k /\ k <= n
      OBVIOUS
    <3>2. g[k + 1] = R(g[k])
      BY <1>4, <1>5
    <3>3. QED
      BY <2>5, <2>7, <3>1, <3>2
  <2>. HIDE DEF I
  <2>8. n \in I
    BY <2>6, <2>7, SetInduction
  <2>9. QED
    BY <2>4, <2>8 DEF I
<1>7. ASSUME NEW n \in Nat PROVE Ending(m, n + 1) = R(Ending(m, n))
  <2>. HIDE DEF R
  <2>1. n + 1 \in Nat /\ g[n] \in V
    BY <1>5
  <2>2. QED
    BY <1>4, <1>5, <1>6, <2>1
<1>8. QED
  BY <1>5, <1>6, <1>7
-----------------------------------------------------------------------------

(***************************************************************************)
(* x is the copy of the value o with the matches before c replaced by what *)
(* their variables stand for l levels deep.                                *)
(***************************************************************************)
Partly(m, l, o, x, c) ==
    /\ x = Substituted(m, Expansion(m, l), SubSeq(o, 1, c - 1))
              \o SubSeq(o, c, Len(o))
    /\ \A j \in 1..c-1 : o[j] \in DOMAIN m => o[j] \in Ending(m, l)

(* x is the value o with all matches replaced. *)
Fully(m, l, o, x) ==
    /\ x = Substituted(m, Expansion(m, l), o)
    /\ \A j \in 1..Len(o) : o[j] \in DOMAIN m => o[j] \in Ending(m, l)

(***************************************************************************)
(* The frame f and its copy cp: the values before f.i are resolved, the    *)
(* one at f.i is resolved up to f.c, the ones after it are untouched.      *)
(***************************************************************************)
FrameOK(m, l, f, cp) ==
    /\ f \in Frames
    /\ f.var \in DOMAIN m
    /\ cp \in Seq(Seq(Tokens))
    /\ Len(cp) = Len(m[f.var])
    /\ f.i <= Len(cp) + 1
    /\ f.i <= Len(cp) => f.c <= Len(m[f.var][f.i]) + 1
    /\ \A j \in 1..Len(cp) :
         /\ j < f.i => Fully(m, l, m[f.var][j], cp[j])
         /\ j = f.i => Partly(m, l, m[f.var][j], cp[j], f.c)
         /\ j > f.i => cp[j] = m[f.var][j]

(* The call with frame f looks at a match of v. *)
Waits(m, f, v) ==
    /\ f.i <= Len(m[f.var])
    /\ f.c <= Len(m[f.var][f.i])
    /\ m[f.var][f.i][f.c] = v

(* The levels there are below call n. *)
Below(n) == StackLimit - n

(* Every call but the last waits for the one it made. *)
CallsOK ==
    /\ stack \in Seq(Frames)
    /\ copies \in Seq(Seq(Seq(Tokens)))
    /\ Len(copies) = Len(stack)
    /\ Len(stack) <= StackLimit
    /\ status = "running" => Len(stack) >= 1 /\ stack[1].var = asked
    /\ \A n \in 1..Len(stack) : FrameOK(variables, Below(n), stack[n], copies[n])
    /\ \A n \in 1..Len(stack)-1 : Waits(variables, stack[n], stack[n+1].var)

(* The inductive invariant. *)
CopyInv ==
    /\ variables \in Makefiles
    /\ op \in Ops
    /\ asked \in Vars \cup {None}
    /\ status \in {"idle", "running", "overflow"}
    /\ CallsOK
    /\ result \in Seq(Clean(variables)) \cup {None}
    /\ MatchesExpansion

LEMMA BelowNat ==
    /\ StackLimit \in Nat /\ Below(1) = StackLimit - 1 /\ Below(StackLimit) = 0
    /\ \A n \in 1..StackLimit : Below(n) \in Nat /\ Below(n) + 1 = StackLimit - n + 1
    /\ \A n \in 1..StackLimit-1 : Below(n + 1) \in Nat /\ Below(n + 1) + 1 = Below(n)
    /\ Below(1) \in Nat /\ Below(1) + 1 = StackLimit
<1>1. StackLimit \in Nat \ {0}
  BY MakefileTypes
<1>2. QED
  BY ONLY <1>1 DEF Below

(* Nothing of a value is replaced yet. *)
LEMMA PartlyStart ==
    ASSUME NEW m \in Makefiles, NEW l \in Nat, NEW o \in Seq(Tokens)
    PROVE  Partly(m, l, o, o, 1)
<1>1. SubSeq(o, 1, 1 - 1) = <<>> /\ SubSeq(o, 1, Len(o)) = o
  BY SubSeqFull, SubSeqEmpty
<1>2. Substituted(m, Expansion(m, l), SubSeq(o, 1, 1 - 1)) = <<>>
  BY <1>1, SubstitutedNone
<1>3. <<>> \o SubSeq(o, 1, Len(o)) = o
  BY <1>1
<1>4. 1..1-1 = {}
  OBVIOUS
<1>5. QED
  BY <1>2, <1>3, <1>4 DEF Partly

(* The whole value is resolved. *)
LEMMA PartlyEnd ==
    ASSUME NEW m \in Makefiles, NEW l \in Nat, NEW o \in Seq(Tokens), NEW x,
           NEW c \in Nat, c = Len(o) + 1, Partly(m, l, o, x, c)
    PROVE  Fully(m, l, o, x)
<1>1. c - 1 = Len(o) /\ SubSeq(o, 1, Len(o)) = o
  BY SubSeqFull
<1>2. SubSeq(o, c, Len(o)) = <<>>
  BY SubSeqEmpty
<1>. DEFINE e == Expansion(m, l)
            y == Substituted(m, e, o)
<1>3. e \in Texted(m)
  BY ExpansionStep
<1>. HIDE DEF e
<1>4. y \in Seq(Clean(m))
  BY <1>3, SubstitutedType
<1>. HIDE DEF y
<1>5. x = y \o <<>>
  BY <1>1, <1>2 DEF Partly, y, e
<1>6. y \o <<>> = y
  BY <1>4, ConcatEmptySeq
<1>7. QED
  BY <1>1, <1>5, <1>6 DEF Partly, Fully, y, e

(* The value from c on, split at c. *)
LEMMA RestSplit ==
    ASSUME NEW o \in Seq(Tokens), NEW c \in 1..Len(o)
    PROVE  /\ SubSeq(o, c + 1, Len(o)) \in Seq(Tokens)
           /\ SubSeq(o, c, Len(o)) = <<o[c]>> \o SubSeq(o, c + 1, Len(o))
<1>. DEFINE s == SubSeq(o, c, Len(o))
            r == SubSeq(o, c + 1, Len(o))
            l == Len(o) - c
<1>1. /\ s \in Seq(Tokens) /\ Len(s) = l + 1 /\ l \in Nat
      /\ \A i \in 1..l+1 : s[i] = o[c + i - 1]
  OBVIOUS
<1>2. /\ r \in Seq(Tokens) /\ Len(r) = l
      /\ \A i \in 1..l : r[i] = o[c + i]
  OBVIOUS
<1>. HIDE DEF s, r
<1>3. o[c] \in Tokens
  OBVIOUS
<1>. DEFINE t == <<o[c]>> \o r
<1>4. /\ t \in Seq(Tokens) /\ Len(t) = l + 1 /\ t[1] = o[c]
      /\ \A i \in 2..l+1 : t[i] = r[i - 1]
  BY <1>1, <1>2, <1>3
<1>. HIDE DEF t
<1>5. \A i \in 1..l+1 : s[i] = t[i]
  <2>. SUFFICES ASSUME NEW i \in 1..l+1 PROVE s[i] = t[i]
    OBVIOUS
  <2>1. CASE i = 1
    BY <1>1, <1>4, <2>1
  <2>2. CASE i # 1
    <3>1. i - 1 \in 1..l /\ c + (i - 1) = c + i - 1 /\ i \in 2..l+1
      BY <1>1, <2>2
    <3>2. QED
      BY <1>1, <1>2, <1>4, <3>1
  <2>3. QED
    BY <2>1, <2>2
<1>6. s = t
  BY <1>1, <1>4, <1>5, SeqEqual
<1>7. QED
  BY <1>2, <1>6 DEF s, r, t

(* y has in place of the match at c what its variable stands for. *)
Exchanged(m, l, t, x, y) ==
    \A p, r \in Seq(Tokens) :
        (\A i \in 1..Len(p) : p[i] \in Clean(m)) /\ x = p \o (<<t>> \o r)
           => y = (p \o Image(m, Expansion(m, l), t)) \o r

LEMMA PartlyNext ==
    ASSUME NEW m \in Makefiles, NEW l \in Nat, NEW o \in Seq(Tokens), NEW x,
           NEW c \in 1..Len(o), Partly(m, l, o, x, c),
           o[c] \in DOMAIN m => o[c] \in Ending(m, l), NEW y,
           Exchanged(m, l, o[c], x, y)
    PROVE  Partly(m, l, o, y, c + 1)
<1>. DEFINE e == Expansion(m, l)
            s == SubSeq(o, 1, c - 1)
            p == Substituted(m, e, s)
            r == SubSeq(o, c + 1, Len(o))
<1>1. e \in Texted(m)
  BY ExpansionStep
<1>2. s \in Seq(Tokens) /\ (c + 1) - 1 = c
  OBVIOUS
<1>. HIDE DEF e, s
<1>3. p \in Seq(Clean(m))
  BY <1>1, <1>2, SubstitutedType
<1>4. p \in Seq(Tokens) /\ \A i \in 1..Len(p) : p[i] \in Clean(m)
  BY <1>3, MakefileFacts
<1>5. r \in Seq(Tokens) /\ x = p \o (<<o[c]>> \o r)
  BY RestSplit DEF Partly, e, s
<1>6. Substituted(m, e, SubSeq(o, 1, c)) = p \o Image(m, e, o[c])
  BY <1>1, SubstitutedStep DEF s
<1>. HIDE DEF p, r
<1>7. y = (p \o Image(m, e, o[c])) \o r
  BY <1>4, <1>5 DEF e, Exchanged
<1>8. y = Substituted(m, e, SubSeq(o, 1, (c + 1) - 1)) \o SubSeq(o, c + 1, Len(o))
  BY <1>2, <1>6, <1>7 DEF r
<1>9. ASSUME NEW j \in 1..(c+1)-1, o[j] \in DOMAIN m PROVE o[j] \in Ending(m, l)
  <2>1. j \in 1..c-1 \/ j = c
    OBVIOUS
  <2>2. QED
    BY <1>9, <2>1 DEF Partly
<1>10. QED
  BY <1>8, <1>9 DEF Partly, e

(* A token that is left alone. *)
LEMMA PartlyPass ==
    ASSUME NEW m \in Makefiles, NEW l \in Nat, NEW o \in Seq(Tokens), NEW x,
           NEW c \in 1..Len(o), o[c] \notin DOMAIN m, Partly(m, l, o, x, c)
    PROVE  Partly(m, l, o, x, c + 1)
<1>1. ASSUME NEW p \in Seq(Tokens), NEW r \in Seq(Tokens),
             x = p \o (<<o[c]>> \o r)
      PROVE  x = (p \o Image(m, Expansion(m, l), o[c])) \o r
  <2>1. Image(m, Expansion(m, l), o[c]) = <<o[c]>> /\ o[c] \in Tokens
    BY DEF Image
  <2>2. p \o (<<o[c]>> \o r) = p \o <<o[c]>> \o r
    BY <2>1, TokenBetween
  <2>3. QED
    BY <1>1, <2>1, <2>2
<1>2. Exchanged(m, l, o[c], x, x)
  BY <1>1 DEF Exchanged
<1>3. QED
  BY <1>2, PartlyNext

(* A match that is replaced by what its variable stands for. *)
LEMMA PartlyReplace ==
    ASSUME NEW m \in Makefiles, NEW l \in Nat, NEW o \in Seq(Tokens), NEW x,
           NEW c \in 1..Len(o), o[c] \in Ending(m, l), o[c] \in DOMAIN m,
           Partly(m, l, o, x, c), NEW text, text = Expansion(m, l)[o[c]]
    PROVE  Partly(m, l, o, ReplaceFirstSubSeq(text, <<o[c]>>, x), c + 1)
<1>. DEFINE v == o[c]
            y == ReplaceFirstSubSeq(text, <<v>>, x)
<1>1. v \in Tokens /\ v \in DOMAIN m /\ Image(m, Expansion(m, l), v) = text
  BY DEF Image
<1>2. text \in Seq(Tokens)
  <2>1. Expansion(m, l) \in Texted(m)
    BY ExpansionStep
  <2>2. text \in Seq(Clean(m))
    BY <2>1 DEF Texted
  <2>3. QED
    BY <2>2, MakefileFacts
<1>. HIDE DEF v
<1>3. ASSUME NEW p \in Seq(Tokens), NEW r \in Seq(Tokens),
             \A i \in 1..Len(p) : p[i] \in Clean(m), x = p \o (<<v>> \o r)
      PROVE  y = (p \o Image(m, Expansion(m, l), v)) \o r
  <2>1. \A i \in 1..Len(p) : p[i] # v
    BY <1>1, <1>3 DEF Clean
  <2>2. ReplaceFirstSubSeq(text, <<v>>, p \o (<<v>> \o r)) = p \o text \o r
    BY <1>1, <1>2, <2>1, ReplacesFirst
  <2>3. QED
    BY <1>1, <1>3, <2>2
<1>. HIDE DEF y
<1>4. Exchanged(m, l, v, x, y)
  BY <1>3 DEF Exchanged
<1>5. Partly(m, l, o, y, c + 1)
  BY <1>4, PartlyNext DEF v
<1>6. QED
  BY <1>5 DEF y, v

(* A call just made. *)
LEMMA FrameStart ==
    ASSUME NEW m \in Makefiles, NEW l \in Nat, NEW v \in DOMAIN m
    PROVE  FrameOK(m, l, NewFrame(v), m[v])
<1>. DEFINE f == NewFrame(v)
<1>1. f \in Frames /\ f.var = v /\ f.i = 1 /\ f.c = 1
  BY MakefileFacts DEF NewFrame, Frames
<1>. HIDE DEF f
<1>2. /\ m[v] \in Seq(Seq(Tokens)) /\ Len(m[v]) \in Nat /\ Len(m[v]) >= 1
      /\ \A j \in 1..Len(m[v]) : m[v][j] \in Seq(Tokens)
  BY MakefileFacts
<1>3. m[v][1] \in Seq(Tokens) /\ Len(m[v][1]) \in Nat
  BY <1>2
<1>4. Partly(m, l, m[v][1], m[v][1], 1)
  BY <1>3, PartlyStart
<1>5. FrameOK(m, l, f, m[v])
  BY <1>1, <1>2, <1>3, <1>4 DEF FrameOK
<1>6. QED
  BY <1>5 DEF f

(* A token of the value at hand is left alone. *)
LEMMA FramePass ==
    ASSUME NEW m \in Makefiles, NEW l \in Nat, NEW f \in Frames, NEW cp,
           FrameOK(m, l, f, cp),
           f.i <= Len(m[f.var]), f.c <= Len(m[f.var][f.i]),
           m[f.var][f.i][f.c] \notin DOMAIN m,
           NEW g \in Frames, g.var = f.var, g.i = f.i, g.c = f.c + 1
    PROVE  FrameOK(m, l, g, cp)
<1>. DEFINE o == m[f.var][f.i]
<1>1. /\ f.var \in DOMAIN m /\ Len(cp) = Len(m[f.var])
      /\ m[f.var] \in Seq(Seq(Tokens)) /\ f.i \in 1..Len(m[f.var])
      /\ f.i \in Nat /\ f.c \in Nat \ {0}
  BY MakefileFacts DEF FrameOK, Frames
<1>2. o \in Seq(Tokens) /\ f.c \in 1..Len(o)
  BY <1>1
<1>3. Partly(m, l, o, cp[f.i], f.c)
  BY <1>1 DEF FrameOK
<1>4. Partly(m, l, o, cp[f.i], f.c + 1)
  BY <1>2, <1>3, PartlyPass
<1>5. f.c + 1 <= Len(o) + 1
  BY <1>2
<1>6. QED
  BY <1>1, <1>4, <1>5 DEF FrameOK

(* The value at hand is done. *)
LEMMA FrameNext ==
    ASSUME NEW m \in Makefiles, NEW l \in Nat, NEW f \in Frames, NEW cp,
           FrameOK(m, l, f, cp),
           f.i <= Len(m[f.var]), f.c > Len(m[f.var][f.i]),
           NEW g \in Frames, g.var = f.var, g.i = f.i + 1, g.c = 1
    PROVE  FrameOK(m, l, g, cp)
<1>. DEFINE orig == m[f.var]
            N == Len(cp)
<1>1. /\ f.var \in DOMAIN m /\ N = Len(orig) /\ N \in Nat
      /\ orig \in Seq(Seq(Tokens)) /\ f.i \in 1..N
      /\ f.i \in Nat /\ f.c \in Nat
  BY MakefileFacts DEF FrameOK, Frames
<1>2. \A j \in 1..N : orig[j] \in Seq(Tokens) /\ Len(orig[j]) \in Nat
  BY <1>1
<1>3. Fully(m, l, orig[f.i], cp[f.i])
  <2>1. Partly(m, l, orig[f.i], cp[f.i], f.c) /\ f.c <= Len(orig[f.i]) + 1
    BY <1>1 DEF FrameOK
  <2>2. f.c = Len(orig[f.i]) + 1
    <3>1. Len(orig[f.i]) \in Nat /\ f.c \in Nat /\ f.c > Len(orig[f.i])
      BY <1>1, <1>2
    <3>. HIDE DEF orig
    <3>2. QED
      BY <2>1, <3>1
  <2>3. QED
    BY <1>1, <1>2, <2>1, <2>2, PartlyEnd
<1>4. ASSUME NEW j \in 1..N
      PROVE  /\ j < f.i + 1 => Fully(m, l, orig[j], cp[j])
             /\ j = f.i + 1 => Partly(m, l, orig[j], cp[j], 1)
             /\ j > f.i + 1 => cp[j] = orig[j]
  <2>1. j < f.i + 1 => j < f.i \/ j = f.i
    BY <1>1
  <2>2. j >= f.i + 1 => j > f.i
    BY <1>1
  <2>3. j > f.i => cp[j] = orig[j]
    BY DEF FrameOK
  <2>4. j = f.i + 1 => cp[j] = orig[j]
    BY <1>1, <2>3
  <2>5. j = f.i + 1 => Partly(m, l, orig[j], cp[j], 1)
    BY <1>2, <2>4, PartlyStart
  <2>6. j < f.i => Fully(m, l, orig[j], cp[j])
    BY DEF FrameOK
  <2>7. QED
    BY <1>1, <1>3, <2>1, <2>2, <2>3, <2>5, <2>6
<1>5. f.i + 1 <= N + 1 /\ (f.i + 1 <= N => 1 <= Len(orig[f.i + 1]) + 1)
  <2>1. f.i + 1 <= N + 1 /\ (f.i + 1 <= N => f.i + 1 \in 1..N)
    BY <1>1
  <2>2. f.i + 1 <= N => Len(orig[f.i + 1]) \in Nat
    BY <1>2, <2>1
  <2>. HIDE DEF orig
  <2>3. QED
    BY <2>1, <2>2
<1>6. cp \in Seq(Seq(Tokens))
  BY DEF FrameOK
<1>7. QED
  BY <1>1, <1>4, <1>5, <1>6 DEF FrameOK

(* A match is replaced by what its variable stands for. *)
LEMMA FrameReplace ==
    ASSUME NEW m \in Makefiles, NEW l \in Nat, NEW f \in Frames, NEW cp,
           FrameOK(m, l, f, cp),
           NEW v \in DOMAIN m, Waits(m, f, v), v \in Ending(m, l),
           NEW text, text = Expansion(m, l)[v],
           NEW g \in Frames, g.var = f.var, g.i = f.i, g.c = f.c + 1,
           NEW cq, cq = [cp EXCEPT ![f.i] = ReplaceFirstSubSeq(text, <<v>>, @)]
    PROVE  FrameOK(m, l, g, cq)
<1>. DEFINE orig == m[f.var]
            o == orig[f.i]
            new == ReplaceFirstSubSeq(text, <<v>>, cp[f.i])
<1>1. /\ f.var \in DOMAIN m /\ Len(cp) = Len(orig) /\ cp \in Seq(Seq(Tokens))
      /\ orig \in Seq(Seq(Tokens)) /\ f.i \in 1..Len(orig)
      /\ f.i \in Nat /\ f.c \in Nat \ {0}
  BY MakefileFacts DEF FrameOK, Frames, Waits
<1>2. o \in Seq(Tokens) /\ f.c \in 1..Len(o) /\ o[f.c] = v
  BY <1>1 DEF Waits
<1>3. Partly(m, l, o, cp[f.i], f.c)
  BY <1>1 DEF FrameOK
<1>4. Partly(m, l, o, new, f.c + 1)
  BY <1>2, <1>3, PartlyReplace
<1>. HIDE DEF new
<1>5. new \in Seq(Tokens)
  <2>. DEFINE s == SubSeq(o, 1, (f.c + 1) - 1)
              e == Expansion(m, l)
              p == Substituted(m, e, s)
              r == SubSeq(o, f.c + 1, Len(o))
  <2>1. new = p \o r
    BY <1>4 DEF Partly
  <2>2. s \in Seq(Tokens) /\ e \in Texted(m)
    <3>1. (f.c + 1) - 1 = f.c
      BY <1>1
    <3>2. SubSeq(o, 1, f.c) \in Seq(Tokens)
      BY <1>2
    <3>3. QED
      BY <3>1, <3>2, ExpansionStep
  <2>. HIDE DEF s, e
  <2>3. p \in Seq(Clean(m))
    BY <2>2, SubstitutedType
  <2>4. p \in Seq(Tokens)
    BY <2>3, MakefileFacts
  <2>5. r \in Seq(Tokens)
    BY <1>2, RestSplit
  <2>. HIDE DEF p, r
  <2>6. QED
    BY <2>1, <2>4, <2>5, ConcatProperties
<1>6. /\ cq \in Seq(Seq(Tokens)) /\ Len(cq) = Len(cp)
      /\ \A j \in 1..Len(cp) : cq[j] = IF j = f.i THEN new ELSE cp[j]
  <2>1. cq = [cp EXCEPT ![f.i] = new]
    BY DEF new
  <2>2. f.i \in 1..Len(cp)
    BY <1>1
  <2>. DEFINE k == f.i
  <2>. HIDE DEF k
  <2>3. cq = [cp EXCEPT ![k] = new] /\ k \in 1..Len(cp)
    BY <2>1, <2>2 DEF k
  <2>4. /\ cq \in Seq(Seq(Tokens)) /\ Len(cq) = Len(cp)
        /\ \A j \in 1..Len(cp) : cq[j] = IF j = k THEN new ELSE cp[j]
    <3>1. cp \in Seq(Seq(Tokens))
      BY <1>1
    <3>2. /\ [cp EXCEPT ![k] = new] \in Seq(Seq(Tokens))
          /\ Len([cp EXCEPT ![k] = new]) = Len(cp)
          /\ \A j \in 1..Len(cp) :
                [cp EXCEPT ![k] = new][j] = IF j = k THEN new ELSE cp[j]
      BY <1>5, <2>3, <3>1, ExceptSeq
    <3>3. QED
      BY <2>3, <3>2
  <2>5. QED
    BY <2>4 DEF k
<1>7. f.c + 1 <= Len(o) + 1
  BY <1>2
<1>8. ASSUME NEW j \in 1..Len(cp)
      PROVE  /\ j < f.i => Fully(m, l, orig[j], cq[j])
             /\ j = f.i => Partly(m, l, orig[j], cq[j], f.c + 1)
             /\ j > f.i => cq[j] = orig[j]
  <2>1. cq[j] = IF j = f.i THEN new ELSE cp[j]
    BY <1>6
  <2>2. /\ j < f.i => Fully(m, l, orig[j], cp[j])
        /\ j > f.i => cp[j] = orig[j]
    BY DEF FrameOK
  <2>3. QED
    BY <1>1, <1>4, <2>1, <2>2
<1>9. f.i <= Len(cq) + 1
  BY <1>1, <1>6
<1>10. QED
  BY <1>1, <1>6, <1>7, <1>8, <1>9 DEF FrameOK

(* A call that is done has resolved all values: the variable stands for    *)
(* their join, one level further up.                                       *)
LEMMA FrameDone ==
    ASSUME NEW m \in Makefiles, NEW l \in Nat, NEW f \in Frames, NEW cp,
           FrameOK(m, l, f, cp), f.i > Len(m[f.var])
    PROVE  /\ f.var \in Ending(m, l + 1)
           /\ VarsToString(cp) = Expansion(m, l + 1)[f.var]
           /\ VarsToString(cp) \in Seq(Clean(m))
           /\ cp[1] = Substituted(m, Expansion(m, l), m[f.var][1])
           /\ cp[1] \in Seq(Clean(m))
<1>. DEFINE v == f.var
            e == Expansion(m, l)
            N == Len(cp)
<1>1. /\ cp \in Seq(Seq(Tokens)) /\ N \in Nat /\ N >= 1
      /\ f.i \in Nat /\ N = Len(m[v]) /\ v \in DOMAIN m
      /\ \A j \in 1..N : m[v][j] \in Seq(Tokens)
  BY MakefileFacts DEF FrameOK, Frames
<1>2. \A j \in 1..N : Fully(m, l, m[v][j], cp[j])
  BY <1>1 DEF FrameOK
<1>3. e \in Texted(m)
  BY ExpansionStep
<1>4. \A j \in 1..N : cp[j] = Substituted(m, e, m[v][j])
  BY <1>2 DEF Fully
<1>5. v \in Ending(m, l + 1)
  <2>1. RefersTo(m, v, Ending(m, l))
    BY <1>1, <1>2 DEF RefersTo, Fully
  <2>2. QED
    BY <1>1, <2>1, EndingStep
<1>. HIDE DEF e, v, N
<1>6. \A j \in 1..N : cp[j] \in Seq(Clean(m))
  BY <1>1, <1>3, <1>4, SubstitutedType
<1>7. cp \in Seq(Seq(Clean(m))) /\ cp = [j \in 1..N |-> cp[j]]
  <2>1. cp = [j \in 1..N |-> cp[j]]
    BY <1>1 DEF N
  <2>2. [j \in 1..N |-> cp[j]] \in Seq(Seq(Clean(m)))
    BY <1>1, <1>6, IsASeq
  <2>3. QED
    BY <2>1, <2>2
<1>8. NewLine \in Clean(m)
  BY MakefileFacts
<1>9. VarsToString(cp) = Lines(cp) /\ Lines(cp) \in Seq(Clean(m))
  BY <1>7, <1>8, JoinedLines
<1>10. cp = [j \in 1..N |-> Substituted(m, e, m[v][j])]
  BY <1>4, <1>7
<1>11. Replaced(m, e, v) = Lines(cp)
  BY <1>1, <1>10 DEF Replaced
<1>12. Expansion(m, l + 1)[v] = Replaced(m, e, v)
  BY <1>1, ExpansionStep DEF e
<1>13. QED
  BY <1>1, <1>4, <1>5, <1>6, <1>9, <1>11, <1>12 DEF e, v

(* The calls up to n go on, the last of them with another frame and copy. *)
LEMMA CallsUpTo ==
    ASSUME CopyInv, variables' = variables, op' = op, asked' = asked,
           result' = result, status' = status,
           NEW n \in 1..Len(stack), NEW f, NEW cp, FrameOK(variables, Below(n), f, cp),
           f.var = stack[n].var, status = "running",
           stack' \in Seq(Frames), Len(stack') = n,
           \A k \in 1..n : stack'[k] = IF k = n THEN f ELSE stack[k],
           copies' \in Seq(Seq(Seq(Tokens))), Len(copies') = n,
           \A k \in 1..n : copies'[k] = IF k = n THEN cp ELSE copies[k]
    PROVE  CopyInv'
<1>1. /\ n \in Nat /\ n >= 1 /\ Len(stack) \in Nat /\ n <= Len(stack)
      /\ StackLimit \in Nat /\ n <= StackLimit
      /\ \A k \in 1..Len(stack) : FrameOK(variables, Below(k), stack[k], copies[k])
      /\ \A k \in 1..Len(stack)-1 :
            Waits(variables, stack[k], stack[k+1].var)
  <2>1. CallsOK
    BY DEF CopyInv
  <2>2. /\ \A k \in 1..Len(stack) : FrameOK(variables, Below(k), stack[k], copies[k])
        /\ \A k \in 1..Len(stack)-1 :
              Waits(variables, stack[k], stack[k+1].var)
    BY <2>1 DEF CallsOK
  <2>3. StackLimit \in Nat /\ Len(stack) \in Nat /\ Len(stack) <= StackLimit
    BY <2>1, BelowNat DEF CallsOK
  <2>4. n \in Nat /\ n >= 1 /\ n <= Len(stack) /\ n <= StackLimit
    BY <2>3
  <2>5. QED
    BY <2>2, <2>3, <2>4
<1>2. ASSUME NEW k \in 1..n
      PROVE  FrameOK(variables, Below(k), stack'[k], copies'[k])
  <2>1. k \in 1..Len(stack)
    BY <1>1
  <2>2. QED
    BY <1>1, <2>1
<1>3. ASSUME NEW k \in 1..n-1
      PROVE  Waits(variables, stack'[k], stack'[k+1].var)
  <2>1. /\ k \in 1..Len(stack)-1 /\ k \in 1..n /\ k # n /\ k + 1 \in 1..n
        /\ k + 1 # n => k + 1 \in 1..Len(stack)
    BY <1>1
  <2>2. stack'[k] = stack[k] /\ stack'[k+1].var = stack[k+1].var
    BY <2>1
  <2>3. QED
    BY <1>1, <2>1, <2>2
<1>4. stack'[1].var = asked
  <2>1. 1 \in 1..n /\ stack[1].var = asked
    BY <1>1 DEF CopyInv, CallsOK
  <2>2. QED
    BY <2>1
<1>5. CallsOK'
  BY <1>1, <1>2, <1>3, <1>4 DEF CallsOK
<1>6. QED
  BY <1>5 DEF CopyInv, MatchesExpansion

(* The call in progress. *)
LEMMA TopFrame ==
    ASSUME CopyInv, status = "running"
    PROVE  /\ variables \in Makefiles
           /\ Len(stack) \in Nat /\ Len(stack) \in 1..Len(stack)
           /\ Len(copies) = Len(stack)
           /\ Top \in Frames /\ Top.var \in DOMAIN variables
           /\ Below(Len(stack)) \in Nat
           /\ FrameOK(variables, Below(Len(stack)), Top, copies[Len(stack)])
<1>1. /\ Len(stack) \in Nat /\ Len(stack) >= 1 /\ Len(copies) = Len(stack)
      /\ Len(stack) \in 1..StackLimit
  BY BelowNat DEF CopyInv, CallsOK
<1>2. FrameOK(variables, Below(Len(stack)), Top, copies[Len(stack)])
  BY <1>1 DEF CopyInv, CallsOK, Top
<1>3. Below(Len(stack)) \in Nat
  BY <1>1, BelowNat
<1>4. variables \in Makefiles /\ Len(stack) \in 1..Len(stack)
  BY <1>1 DEF CopyInv
<1>5. Top \in Frames /\ Top.var \in DOMAIN variables
  BY <1>2 DEF FrameOK
<1>6. QED
  BY <1>1, <1>2, <1>3, <1>4, <1>5

(* A lookup starts with one call. *)
LEMMA CallCopies ==
    ASSUME CopyInv, NEW o \in Ops, NEW v \in Vars, Call(o, v)
    PROVE  CopyInv'
<1>1. /\ variables \in Makefiles /\ variables' = variables
      /\ v \in DOMAIN variables
  BY DEF Call, CopyInv
<1>2. FrameOK(variables, Below(1), NewFrame(v), variables[v])
  BY <1>1, BelowNat, FrameStart
<1>3. NewFrame(v) \in Frames /\ variables[v] \in Seq(Seq(Tokens))
  BY <1>2 DEF FrameOK
<1>4. /\ stack' \in Seq(Frames) /\ Len(stack') = 1
      /\ stack'[1] = NewFrame(v)
  <2>. DEFINE f == NewFrame(v)
  <2>1. stack' = <<f>> /\ f \in Frames
    BY <1>3 DEF Call
  <2>. HIDE DEF f
  <2>2. stack' \in Seq(Frames) /\ Len(stack') = 1 /\ stack'[1] = f
    BY <2>1
  <2>3. QED
    BY <2>2 DEF f
<1>5. /\ copies' \in Seq(Seq(Seq(Tokens))) /\ Len(copies') = 1
      /\ copies'[1] = variables[v]
  <2>. DEFINE val == variables[v]
  <2>1. copies' = <<val>> /\ val \in Seq(Seq(Tokens))
    BY <1>3 DEF Call
  <2>. HIDE DEF val
  <2>2. QED
    BY <2>1 DEF val
<1>6. NewFrame(v).var = v /\ asked' = v /\ 1 <= StackLimit
  BY MakefileTypes DEF NewFrame, Call
<1>7. CallsOK'
  BY <1>1, <1>2, <1>4, <1>5, <1>6 DEF CallsOK
<1>8. QED
  BY <1>1, <1>7 DEF CopyInv, Call, MatchesExpansion

(* The nested call starts, and the one that made it waits for it. *)
LEMMA EnterCopies ==
    ASSUME CopyInv, EnterNested
    PROVE  CopyInv'
<1>1. /\ variables \in Makefiles /\ Len(stack) \in Nat
      /\ Len(stack) \in 1..Len(stack) /\ Len(copies) = Len(stack)
      /\ status = "running" /\ status' = status /\ variables' = variables
      /\ Token \in DOMAIN variables
      /\ stack \in Seq(Frames) /\ copies \in Seq(Seq(Seq(Tokens)))
      /\ Len(stack) < StackLimit /\ StackLimit \in Nat
  BY TopFrame, BelowNat DEF EnterNested, AtToken, CopyInv, CallsOK
<1>. DEFINE N == Len(stack)
            f == NewFrame(Token)
            cp == variables[Token]
<1>2. FrameOK(variables, Below(N + 1), f, cp)
  <2>1. Below(N + 1) \in Nat
    BY <1>1, BelowNat
  <2>2. QED
    BY <1>1, <2>1, FrameStart
<1>3. /\ f \in Frames /\ f.var = Token /\ cp \in Seq(Seq(Tokens))
      /\ stack' = Append(stack, f) /\ copies' = Append(copies, cp)
  BY <1>2 DEF FrameOK, EnterNested, NewFrame
<1>4. Waits(variables, Top, Token)
  BY DEF EnterNested, AtToken, Waits, Token, OrigValues
<1>. HIDE DEF f, cp
<1>5. /\ stack' \in Seq(Frames) /\ Len(stack') = N + 1
      /\ stack'[N + 1] = f /\ \A k \in 1..N : stack'[k] = stack[k]
  BY <1>1, <1>3
<1>6. /\ copies' \in Seq(Seq(Seq(Tokens))) /\ Len(copies') = N + 1
      /\ copies'[N + 1] = cp /\ \A k \in 1..N : copies'[k] = copies[k]
  <2>1. /\ copies \in Seq(Seq(Seq(Tokens))) /\ Len(copies) = N
        /\ cp \in Seq(Seq(Tokens)) /\ copies' = Append(copies, cp)
    BY <1>1, <1>3
  <2>. HIDE DEF N
  <2>2. QED
    BY <2>1, AppendProperties
<1>7. ASSUME NEW k \in 1..N+1
      PROVE  FrameOK(variables, Below(k), stack'[k], copies'[k])
  <2>1. CASE k = N + 1
    BY <1>2, <1>5, <1>6, <2>1
  <2>2. CASE k \in 1..N
    BY <1>5, <1>6, <2>2 DEF CopyInv, CallsOK
  <2>3. QED
    BY <1>1, <2>1, <2>2
<1>8. ASSUME NEW k \in 1..N
      PROVE  Waits(variables, stack'[k], stack'[k+1].var)
  <2>1. CASE k = N
    BY <1>1, <1>3, <1>4, <1>5, <2>1 DEF Top
  <2>2. CASE k # N
    <3>1. k \in 1..N-1 /\ k + 1 \in 1..N
      BY <1>1, <2>2
    <3>2. QED
      BY <1>5, <3>1 DEF CopyInv, CallsOK
  <2>3. QED
    BY <2>1, <2>2
<1>9. CallsOK'
  <2>1. (N + 1) - 1 = N /\ N + 1 >= 1 /\ N + 1 <= StackLimit /\ 1 \in 1..N
    BY <1>1
  <2>2. stack'[1].var = asked /\ asked' = asked
    BY <1>1, <1>5, <2>1 DEF CopyInv, CallsOK, EnterNested
  <2>3. QED
    BY <1>1, <1>5, <1>6, <1>7, <1>8, <2>1, <2>2 DEF CallsOK
<1>10. UNCHANGED <<variables, op, asked, result, status>>
  BY DEF EnterNested
<1>11. QED
  BY <1>1, <1>9, <1>10 DEF CopyInv, MatchesExpansion

(* Moving on in the value at hand, or to the next one. *)
LEMMA MoveCopies ==
    ASSUME CopyInv, PassOver \/ NextValue
    PROVE  CopyInv'
<1>1. /\ variables \in Makefiles /\ Len(stack) \in Nat
      /\ Len(stack) \in 1..Len(stack) /\ Len(copies) = Len(stack)
      /\ Top \in Frames /\ Below(Len(stack)) \in Nat /\ status = "running"
      /\ FrameOK(variables, Below(Len(stack)), Top, copies[Len(stack)])
      /\ stack \in Seq(Frames) /\ copies \in Seq(Seq(Seq(Tokens)))
      /\ UNCHANGED <<variables, op, asked, copies, result, status>>
  BY TopFrame DEF PassOver, NextValue, AtToken, CopyInv, CallsOK
<1>. DEFINE N == Len(stack)
<1>2. PICK g \in Frames : /\ g.var = Top.var
                          /\ stack' = [stack EXCEPT ![N] = g]
                          /\ FrameOK(variables, Below(N), g, copies[N])
  <2>1. CASE PassOver
    <3>. DEFINE g == [Top EXCEPT !.c = @ + 1]
    <3>1. g \in Frames /\ g.var = Top.var /\ g.i = Top.i /\ g.c = Top.c + 1
      <4>1. Top \in Frames
        BY <1>1
      <4>2. QED
        BY <4>1 DEF Frames
    <3>2. stack' = [stack EXCEPT ![N] = g]
      BY <2>1 DEF PassOver, Top
    <3>3. /\ Top.i <= Len(variables[Top.var])
          /\ Top.c <= Len(variables[Top.var][Top.i])
          /\ variables[Top.var][Top.i][Top.c] \notin DOMAIN variables
      BY <2>1 DEF PassOver, AtToken, OrigValues, Token
    <3>. HIDE DEF g
    <3>4. FrameOK(variables, Below(N), g, copies[N])
      BY <1>1, <3>1, <3>3, FramePass
    <3>5. QED
      BY <3>1, <3>2, <3>4
  <2>2. CASE NextValue
    <3>. DEFINE g == [var |-> Top.var, i |-> Top.i + 1, c |-> 1]
    <3>1. g \in Frames /\ g.var = Top.var /\ g.i = Top.i + 1 /\ g.c = 1
      BY <1>1 DEF Frames
    <3>2. stack' = [stack EXCEPT ![N] = g]
      BY <1>1, <2>2 DEF NextValue, Top
    <3>3. /\ Top.i <= Len(variables[Top.var])
          /\ Top.c > Len(variables[Top.var][Top.i])
      BY <2>2 DEF NextValue, OrigValues
    <3>. HIDE DEF g
    <3>4. FrameOK(variables, Below(N), g, copies[N])
      BY <1>1, <3>1, <3>3, FrameNext
    <3>5. QED
      BY <3>1, <3>2, <3>4
  <2>3. QED
    BY <2>1, <2>2
<1>3. /\ stack' \in Seq(Frames) /\ Len(stack') = N
      /\ \A k \in 1..N : stack'[k] = IF k = N THEN g ELSE stack[k]
  BY <1>1, <1>2, ExceptSeq
<1>4. g.var = stack[N].var
  BY <1>2 DEF Top
<1>5. \A k \in 1..N : copies'[k] = IF k = N THEN copies[N] ELSE copies[k]
  BY <1>1
<1>. HIDE DEF N
<1>6. QED
  BY <1>1, <1>2, <1>3, <1>4, <1>5, CallsUpTo DEF N

(* The nested call returns its text, resolved, to the call that waits. *)
LEMMA ReturnCopies ==
    ASSUME CopyInv, ReturnNested
    PROVE  CopyInv'
<1>. DEFINE n == Len(stack) - 1
            f == stack[n]
            text == VarsToString(copies[n + 1])
            g == [f EXCEPT !.c = @ + 1]
            cp == copies[n]
            cq == [cp EXCEPT ![f.i] = ReplaceFirstSubSeq(text, <<Top.var>>, @)]
<1>1. /\ variables \in Makefiles /\ Len(stack) \in Nat
      /\ Len(stack) \in 1..Len(stack) /\ Len(copies) = Len(stack)
      /\ Top \in Frames /\ Below(Len(stack)) \in Nat /\ status = "running"
      /\ FrameOK(variables, Below(Len(stack)), Top, copies[Len(stack)])
      /\ stack \in Seq(Frames) /\ copies \in Seq(Seq(Seq(Tokens)))
      /\ Len(stack) <= StackLimit /\ StackLimit \in Nat
      /\ Top.var \in DOMAIN variables
      /\ UNCHANGED <<variables, op, asked, result, status>>
  BY TopFrame, BelowNat DEF ReturnNested, CopyInv, CallsOK
<1>2. n \in 1..Len(stack) /\ n + 1 = Len(stack) /\ n \in 1..Len(stack)-1
  BY <1>1 DEF ReturnNested
<1>3. FrameOK(variables, Below(n), f, cp) /\ Waits(variables, f, Top.var)
  BY <1>2 DEF CopyInv, CallsOK, Top
<1>4. f \in Frames
  BY <1>3 DEF FrameOK
<1>5. /\ text = Expansion(variables, Below(n))[Top.var]
      /\ Top.var \in Ending(variables, Below(n)) /\ Below(n) \in Nat
  <2>1. Below(n) \in Nat /\ Below(Len(stack)) + 1 = Below(n)
    BY <1>1, <1>2, BelowNat
  <2>2. /\ VarsToString(copies[Len(stack)])
              = Expansion(variables, Below(Len(stack)) + 1)[Top.var]
        /\ Top.var \in Ending(variables, Below(Len(stack)) + 1)
    BY <1>1, FrameDone DEF ReturnNested, OrigValues
  <2>3. QED
    BY <1>2, <2>1, <2>2
<1>6. g \in Frames /\ g.var = f.var /\ g.i = f.i /\ g.c = f.c + 1
  BY <1>4 DEF Frames
<1>7. FrameOK(variables, Below(n), g, cq)
  <2>. HIDE DEF g, f, cp, text, n
  <2>. QED BY <1>1, <1>3, <1>4, <1>5, <1>6, FrameReplace
<1>8. cq \in Seq(Seq(Tokens))
  <2>. HIDE DEF g, cq
  <2>. QED BY <1>7 DEF FrameOK
<1>9. /\ stack' = [SubSeq(stack, 1, n) EXCEPT ![n] = g]
      /\ copies' = [SubSeq(copies, 1, n) EXCEPT ![n] = cq]
  <2>1. SubSeq(stack, 1, n)[n] = f /\ SubSeq(copies, 1, n)[n] = cp
    BY <1>1, <1>2
  <2>2. QED
    BY <2>1 DEF ReturnNested
<1>10. /\ SubSeq(stack, 1, n) \in Seq(Frames) /\ Len(SubSeq(stack, 1, n)) = n
       /\ \A k \in 1..n : SubSeq(stack, 1, n)[k] = stack[k]
  BY <1>1, <1>2
<1>11. /\ SubSeq(copies, 1, n) \in Seq(Seq(Seq(Tokens)))
       /\ Len(SubSeq(copies, 1, n)) = n
       /\ \A k \in 1..n : SubSeq(copies, 1, n)[k] = copies[k]
  BY <1>1, <1>2
<1>. DEFINE st == SubSeq(stack, 1, n)
            cs == SubSeq(copies, 1, n)
<1>12. g.var = stack[n].var
  BY <1>6
<1>. HIDE DEF n, f, g, cq, st, cs
<1>13. /\ stack' \in Seq(Frames) /\ Len(stack') = n
       /\ \A k \in 1..n : stack'[k] = IF k = n THEN g ELSE stack[k]
  <2>1. st \in Seq(Frames) /\ n \in 1..Len(st) /\ stack' = [st EXCEPT ![n] = g]
    BY <1>2, <1>9, <1>10 DEF st
  <2>2. /\ [st EXCEPT ![n] = g] \in Seq(Frames)
        /\ Len([st EXCEPT ![n] = g]) = Len(st)
        /\ \A k \in 1..Len(st) :
              [st EXCEPT ![n] = g][k] = IF k = n THEN g ELSE st[k]
    BY <1>6, <2>1, ExceptSeq
  <2>3. QED
    BY <1>10, <2>1, <2>2 DEF st
<1>14. /\ copies' \in Seq(Seq(Seq(Tokens))) /\ Len(copies') = n
       /\ \A k \in 1..n : copies'[k] = IF k = n THEN cq ELSE copies[k]
  <2>1. /\ cs \in Seq(Seq(Seq(Tokens))) /\ n \in 1..Len(cs)
        /\ copies' = [cs EXCEPT ![n] = cq]
    BY <1>2, <1>9, <1>11 DEF cs
  <2>2. /\ [cs EXCEPT ![n] = cq] \in Seq(Seq(Seq(Tokens)))
        /\ Len([cs EXCEPT ![n] = cq]) = Len(cs)
        /\ \A k \in 1..Len(cs) :
              [cs EXCEPT ![n] = cq][k] = IF k = n THEN cq ELSE cs[k]
    BY <1>8, <2>1, ExceptSeq
  <2>3. QED
    BY <1>11, <2>1, <2>2 DEF cs
<1>15. QED
  BY <1>1, <1>2, <1>7, <1>12, <1>13, <1>14, CallsUpTo

(* A call that waits for one that goes too deep does so itself. *)
LEMMA NotEnding ==
    ASSUME NEW m \in Makefiles, NEW f \in Frames, f.var \in DOMAIN m,
           NEW v \in DOMAIN m, Waits(m, f, v), NEW l \in Nat,
           v \notin Ending(m, l)
    PROVE  f.var \notin Ending(m, l + 1)
<1>1. f.i \in 1..Len(m[f.var]) /\ f.c \in 1..Len(m[f.var][f.i])
  <2>1. Len(m[f.var]) \in Nat /\ f.i \in Nat \ {0} /\ f.c \in Nat \ {0}
    BY MakefileFacts DEF Frames
  <2>2. f.i \in 1..Len(m[f.var])
    BY <2>1 DEF Waits
  <2>3. Len(m[f.var][f.i]) \in Nat
    BY <2>2, MakefileFacts
  <2>4. QED
    BY <2>1, <2>2, <2>3 DEF Waits
<1>2. ~RefersTo(m, f.var, Ending(m, l))
  BY <1>1 DEF RefersTo, Waits
<1>3. QED
  BY <1>2, EndingStep

(* When the stack is used up, the references of the variable asked for go  *)
(* deeper than it.                                                         *)
LEMMA OverflowTooDeep ==
    ASSUME CopyInv, Overflow
    PROVE  asked \notin Ending(variables, StackLimit)
<1>. DEFINE N == StackLimit
            m == variables
<1>1. /\ m \in Makefiles /\ N \in Nat /\ N >= 1 /\ Len(stack) = N
      /\ status = "running" /\ stack[1].var = asked
      /\ Token \in DOMAIN m /\ Waits(m, stack[N], Token)
      /\ \A n \in 1..N : stack[n] \in Frames /\ stack[n].var \in DOMAIN m
      /\ \A n \in 1..N-1 : Waits(m, stack[n], stack[n+1].var)
  <2>1. Waits(m, stack[N], Token) /\ Len(stack) = N /\ Token \in DOMAIN m
    BY DEF Overflow, AtToken, Waits, Token, OrigValues, Top
  <2>2. N \in Nat /\ N >= 1
    BY MakefileTypes
  <2>3. QED
    BY <2>1, <2>2 DEF Overflow, AtToken, CopyInv, CallsOK, FrameOK
<1>. DEFINE I == {k \in Nat : k < N => stack[N - k].var \notin Ending(m, k + 1)}
<1>. HIDE DEF N, m
<1>2. 0 \in I
  <2>1. N - 0 = N /\ N \in 1..N
    BY <1>1
  <2>2. Token \notin Ending(m, 0)
    BY EndingStep
  <2>3. stack[N].var \notin Ending(m, 0 + 1)
    BY <1>1, <2>1, <2>2, NotEnding
  <2>4. QED
    BY <2>1, <2>3
<1>3. ASSUME NEW k \in Nat, k \in I PROVE k + 1 \in I
  <2>. DEFINE n == N - (k + 1)
              v == stack[n + 1].var
  <2>. SUFFICES ASSUME k + 1 < N
                PROVE  stack[n].var \notin Ending(m, (k + 1) + 1)
    OBVIOUS
  <2>1. n \in 1..N-1 /\ n \in 1..N /\ n + 1 \in 1..N /\ n + 1 = N - k /\ k < N
    BY <1>1
  <2>2. v \notin Ending(m, k + 1)
    BY <1>3, <2>1
  <2>3. Waits(m, stack[n], v) /\ v \in DOMAIN m /\ k + 1 \in Nat
    BY <1>1, <2>1
  <2>4. stack[n] \in Frames /\ stack[n].var \in DOMAIN m
    BY <1>1, <2>1
  <2>. HIDE DEF n, v
  <2>. DEFINE l == k + 1
              f == stack[n]
  <2>5. l \in Nat /\ v \notin Ending(m, l) /\ f \in Frames /\ f.var \in DOMAIN m /\ Waits(m, f, v)
    BY <2>2, <2>3, <2>4
  <2>. HIDE DEF l, f
  <2>6. f.var \notin Ending(m, l + 1)
    BY <1>1, <2>3, <2>5, NotEnding
  <2>7. QED
    BY <2>6 DEF l, f
<1>. HIDE DEF I
<1>4. \A k \in Nat : k \in I
  BY <1>2, <1>3, SetInduction
<1>5. N - 1 \in Nat /\ N - 1 < N /\ N - (N - 1) = 1 /\ (N - 1) + 1 = N
  BY <1>1
<1>6. stack[1].var \notin Ending(m, N)
  BY <1>4, <1>5 DEF I
<1>7. QED
  BY <1>1, <1>6 DEF N, m

(* Every step keeps the copies in step with the calls. *)
LEMMA NextCopies == CopyInv /\ [Next]_vars => CopyInv'
<1>. SUFFICES ASSUME CopyInv, [Next]_vars PROVE CopyInv'
  OBVIOUS
<1>1. ASSUME NEW o \in Ops, NEW v \in Vars, CallUndefined(o, v)
      PROVE  CopyInv'
  <2>1. CallsOK'
    BY <1>1 DEF CopyInv, CallsOK, CallUndefined
  <2>2. MatchesExpansion'
    BY <1>1 DEF MatchesExpansion, CallUndefined
  <2>3. QED
    BY <1>1, <2>1, <2>2 DEF CopyInv, CallUndefined
<1>2. CASE Return
  <2>1. /\ variables \in Makefiles /\ Top \in Frames /\ Below(1) \in Nat
        /\ FrameOK(variables, Below(1), Top, copies[1])
        /\ Len(stack) = 1 /\ Top.var = asked
    BY <1>2, TopFrame DEF Return, CopyInv, CallsOK, Top
  <2>2. /\ asked \in Ending(variables, Below(1) + 1)
        /\ VarsToString(copies[1]) = Expansion(variables, Below(1) + 1)[asked]
        /\ VarsToString(copies[1]) \in Seq(Clean(variables))
        /\ copies[1][1] = Substituted(variables, Expansion(variables, Below(1)),
                                       variables[asked][1])
        /\ copies[1][1] \in Seq(Clean(variables))
    BY <1>2, <2>1, FrameDone DEF Return, OrigValues
  <2>3. /\ result' \in Seq(Clean(variables)) /\ variables' = variables
        /\ op' = op /\ asked' = asked /\ status' = "idle"
        /\ asked \in DOMAIN variables
    BY <1>2, <2>1, <2>2 DEF Return, FrameOK
  <2>4. Below(1) = StackLimit - 1 /\ Below(1) + 1 = StackLimit
    BY BelowNat
  <2>5. MatchesExpansion'
    <3>1. op = "get" => result' = Expansion(variables, StackLimit)[asked]
      BY <1>2, <2>2, <2>4 DEF Return
    <3>2. op = "get_first" =>
             result' = Substituted(variables, Expansion(variables, StackLimit - 1),
                                   variables[asked][1])
      BY <1>2, <2>2, <2>4 DEF Return
    <3>3. asked \in Ending(variables, StackLimit)
      BY <2>2, <2>4
    <3>4. QED
      BY <2>3, <3>1, <3>2, <3>3 DEF MatchesExpansion
  <2>6. CallsOK'
    BY <1>2, BelowNat DEF Return, CallsOK
  <2>7. QED
    BY <2>3, <2>5, <2>6 DEF CopyInv
<1>3. CASE Overflow
  <2>1. asked \notin Ending(variables, StackLimit)
    BY <1>3, OverflowTooDeep
  <2>2. MatchesExpansion'
    BY <1>3, <2>1 DEF Overflow, MatchesExpansion
  <2>3. CallsOK'
    BY <1>3 DEF Overflow, CopyInv, CallsOK
  <2>4. QED
    BY <1>3, <2>2, <2>3 DEF Overflow, CopyInv
<1>4. CASE UNCHANGED vars
  BY <1>4 DEF CopyInv, CallsOK, MatchesExpansion, vars
<1>5. QED
  BY <1>1, <1>2, <1>3, <1>4, CallCopies, EnterCopies, MoveCopies,
     ReturnCopies DEF Next, Step

LEMMA InitCopies == Init => CopyInv
  BY BelowNat DEF Init, CopyInv, CallsOK, MatchesExpansion, Ops

(* Every call keeps its copy of the values, and every text its tokens. *)
THEOREM LookupTypeCorrect == Spec => []TypeOK
<1>1. CopyInv => TypeOK
  <2>. SUFFICES ASSUME CopyInv PROVE TypeOK
    OBVIOUS
  <2>1. Seq(Clean(variables)) \subseteq Seq(Tokens)
    BY MakefileFacts DEF CopyInv
  <2>2. QED
    BY <2>1 DEF CopyInv, CallsOK, TypeOK
<1>2. QED
  BY <1>1, InitCopies, NextCopies, PTL DEF Spec

(***************************************************************************)
(* For any makefile, cyclic or not: what a lookup returns refers to no     *)
(* variable that is defined.                                               *)
(***************************************************************************)
THEOREM ResultsResolved == Spec => []Resolved
<1>1. CopyInv => Resolved
  BY DEF CopyInv, Resolved, Clean
<1>2. QED
  BY <1>1, InitCopies, NextCopies, PTL DEF Spec

(***************************************************************************)
(* For any makefile: what a lookup returns is the expansion of the         *)
(* variable, every reference replaced in place by what its variable stands *)
(* for, as deep as the references go; and a lookup exhausts the stack only *)
(* if they go deeper than it has room.                                     *)
(***************************************************************************)
THEOREM LookupsExpand == Spec => []MatchesExpansion
<1>1. CopyInv => MatchesExpansion
  BY DEF CopyInv
<1>2. QED
  BY <1>1, InitCopies, NextCopies, PTL DEF Spec
-----------------------------------------------------------------------------

(* The lookups of the command. *)
LEMMA LookupFacts ==
    /\ Len(Lookups) = 17 /\ Built = 7 /\ NameFound = 8 /\ VersionGot = 10
    /\ Lookups[1] = "COMPONENT_VERSION" /\ Lookups[2] = "COMPONENT_REVISION"
    /\ Lookups[3] = "COMPONENT_SRC" /\ Lookups[4] = "COMPONENT_ARCHIVE_URL"
    /\ Lookups[5] = "GIT_URL" /\ Lookups[6] = "COMPONENT_ARCHIVE_HASH"
    /\ Lookups[8] = Lookups[9] /\ Lookups[10] = "COMPONENT_VERSION"
    /\ Lookups[14] = "COMPONENT_ARCHIVE_URL"
    /\ Lookups[15] = "COMPONENT_ARCHIVE_HASH"
    /\ \A j \in 1..17 : Lookups[j] \in Vars /\ Op(j) \in Ops
    /\ Kept = {Lookups[j] : j \in 1..6}
    /\ Printable = {Lookups[j] : j \in 8..17}
<1>1. /\ Len(Lookups) = 17 /\ Built = 7 /\ NameFound = 8 /\ VersionGot = 10
      /\ Built - 1 = 6 /\ Built + 1 = 8
  BY DEF Lookups, Built, NameFound, VersionGot
<1>2. /\ Lookups[1] = "COMPONENT_VERSION" /\ Lookups[2] = "COMPONENT_REVISION"
      /\ Lookups[3] = "COMPONENT_SRC" /\ Lookups[4] = "COMPONENT_ARCHIVE_URL"
      /\ Lookups[5] = "GIT_URL" /\ Lookups[6] = "COMPONENT_ARCHIVE_HASH"
      /\ Lookups[8] = Lookups[9] /\ Lookups[10] = "COMPONENT_VERSION"
      /\ Lookups[14] = "COMPONENT_ARCHIVE_URL"
      /\ Lookups[15] = "COMPONENT_ARCHIVE_HASH"
  BY DEF Lookups
<1>3. \A j \in 1..17 : Lookups[j] \in Vars /\ Op(j) \in Ops
  BY <1>1, ShowComponentTypes DEF Op, Ops
<1>4. Kept = {Lookups[j] : j \in 1..6} /\ Printable = {Lookups[j] : j \in 8..17}
  BY <1>1 DEF Kept, Printable
<1>5. QED
  BY <1>1, <1>2, <1>3, <1>4

(* What the first value of v stands for. *)
FirstText(m, v) ==
    IF v \in DOMAIN m
      THEN Substituted(m, Expansion(m, StackLimit - 1), m[v][1]) ELSE None

LEMMA FirstTextType ==
    ASSUME NEW m \in Makefiles
    PROVE  \A v : /\ FirstText(m, v) \in Optional
                  /\ FirstText(m, v) # None <=> v \in DOMAIN m
<1>. SUFFICES ASSUME NEW v
              PROVE  /\ FirstText(m, v) \in Optional
                     /\ FirstText(m, v) # None <=> v \in DOMAIN m
  OBVIOUS
<1>1. CASE v \notin DOMAIN m
  BY <1>1 DEF FirstText, Optional
<1>2. CASE v \in DOMAIN m
  <2>. DEFINE e == Expansion(m, StackLimit - 1)
              o == m[v][1]
  <2>1. StackLimit - 1 \in Nat
    BY BelowNat
  <2>2. e \in Texted(m)
    BY <2>1, ExpansionStep
  <2>3. 1 \in 1..Len(m[v])
    <3>1. Len(m[v]) \in Nat /\ Len(m[v]) >= 1
      BY <1>2, MakefileFacts
    <3>2. QED
      BY <3>1
  <2>4. o \in Seq(Tokens)
    BY <1>2, <2>3, MakefileFacts
  <2>. HIDE DEF e, o
  <2>5. Substituted(m, e, o) \in Seq(Clean(m))
    BY <2>2, <2>4, SubstitutedType
  <2>6. Substituted(m, e, o) \in Seq(Tokens)
    BY <2>5, MakefileFacts
  <2>7. FirstText(m, v) = Substituted(m, e, o)
    BY <1>2 DEF FirstText, e, o
  <2>8. QED
    BY <1>2, <2>6, <2>7, MakefileTypes DEF Optional, Values
<1>3. QED
  BY <1>1, <1>2

(* A variable with one value stands for what that stands for: both lookups *)
(* return the same.                                                        *)
LEMMA OneLine ==
    ASSUME NEW m \in Makefiles, NEW v \in DOMAIN m
    PROVE  Expansion(m, StackLimit)[v] = FirstText(m, v)
<1>. DEFINE k == StackLimit - 1
            e == Expansion(m, k)
            t == Substituted(m, e, m[v][1])
<1>1. k \in Nat /\ k + 1 = StackLimit
  BY BelowNat
<1>2. Expansion(m, k + 1) = [w \in DOMAIN m |-> Replaced(m, e, w)] /\ e \in Texted(m)
  BY <1>1, ExpansionStep
<1>3. Len(m[v]) = 1
  BY ShowComponentTypes
<1>4. t \in Seq(Tokens)
  <2>1. m[v][1] \in Seq(Tokens)
    BY <1>3, 1 \in 1..1, MakefileFacts
  <2>2. t \in Seq(Clean(m))
    BY <1>2, <2>1, SubstitutedType
  <2>3. QED
    BY <2>2, MakefileFacts
<1>5. [i \in 1..Len(m[v]) |-> Substituted(m, e, m[v][i])] = <<t>>
  BY <1>3
<1>6. Replaced(m, e, v) = Lines(<<t>>)
  BY <1>5 DEF Replaced
<1>7. t = FirstText(m, v)
  BY DEF FirstText
<1>. HIDE DEF t, e, k
<1>8. Lines(<<t>>) = t
  <2>. DEFINE vals == <<t>>
  <2>1. Len(vals) = 1 /\ vals[1] = t
    OBVIOUS
  <2>2. [i \in 1..Len(vals) |-> IF i = 1 THEN vals[i] ELSE <<NewLine>> \o vals[i]] = <<t>>
    BY <2>1
  <2>3. Lines(vals) = FlattenSeq(<<t>>)
    BY <2>2 DEF Lines
  <2>4. /\ <<>> \in Seq(Seq(Tokens)) /\ Append(<<>>, t) = <<t>>
    OBVIOUS
  <2>5. FlattenSeq(Append(<<>>, t)) = FlattenSeq(<<>>) \o t
    BY <1>4, <2>4, FlattenAppend
  <2>6. <<>> \o t = t
    BY <1>4, ConcatEmptySeq
  <2>7. QED
    BY <2>3, <2>4, <2>5, <2>6, FlattenEmpty
<1>9. QED
  BY <1>1, <1>2, <1>6, <1>7, <1>8

(***************************************************************************)
(* The command: while it waits, the lookup in progress is its own.         *)
(***************************************************************************)
AtInv ==
    /\ at \in 1..18
    /\ waiting \in BOOLEAN
    /\ name \in Values
    /\ exit \in {"running", "ok", "error", "panic"}
    /\ waiting => at <= 17 /\ op = Op(at) /\ asked = Lookups[at]
    /\ exit = "error" => at <= 7
    /\ exit = "ok" => at = 18
    /\ exit = "panic" => at = 10 /\ answer = <<>>

(* What has been looked up is what the variables stand for. *)
GotInv ==
    /\ got \in [Kept -> Optional]
    /\ \A j \in 1..6 : j < at => got[Lookups[j]] = FirstText(variables, Lookups[j])
    /\ at > 1 => FirstText(variables, "COMPONENT_VERSION") \in SemVers

(* And so is what has been printed, of the lookups done. *)
Done == IF exit = "panic" THEN at ELSE at - 1

PrintInv ==
    /\ printed \in [Printable -> Optional]
    /\ \A v \in Printable :
         printed[v] = IF \E j \in 8..Done : Lookups[j] = v
                        THEN FirstText(variables, v) ELSE None

(* The component is made of what was looked up. *)
BuiltInv ==
    /\ at <= 7 => component = None
    /\ at > 7 =>
         /\ Source # None
         /\ \E b \in Styles :
              component = [version |-> got["COMPONENT_VERSION"],
                           revision |-> Revision, source |-> Source,
                           options |-> Options, build_style |-> b]

NewestInv ==
    /\ answer \in Answers \cup {None}
    /\ at <= 10 => latest = None
    /\ latest # None => answer \in Answers \ {<<>>} /\ latest = Newest(answer)

(* The inductive invariant. *)
ShowInv == CopyInv /\ AtInv /\ GotInv /\ PrintInv /\ BuiltInv /\ NewestInv

(* What a lookup of the command has returned. *)
LEMMA ReturnedText ==
    ASSUME CopyInv, AtInv, NEW j, Returned(j)
    PROVE  /\ at = j /\ at \in 1..17 /\ exit = "running"
           /\ Var = Lookups[at] /\ Var \in Vars
           /\ variables \in Makefiles
           /\ result = FirstText(variables, Var)
           /\ result \in Optional
<1>1. /\ at = j /\ at \in 1..17 /\ exit = "running" /\ status = "idle"
      /\ op = Op(at) /\ asked = Lookups[at]
  BY DEF Returned, AtInv
<1>2. Var = Lookups[at] /\ Var \in Vars /\ op \in Ops /\ asked # None
  BY <1>1, LookupFacts, MakefileTypes DEF Var
<1>3. variables \in Makefiles
  BY DEF CopyInv
<1>4. result = FirstText(variables, Var)
  <2>1. CASE asked \notin DOMAIN variables
    BY <1>1, <1>2, <2>1 DEF CopyInv, MatchesExpansion, FirstText
  <2>2. CASE asked \in DOMAIN variables
    <3>1. /\ op = "get" => result = Expansion(variables, StackLimit)[asked]
          /\ op = "get_first" => result = FirstText(variables, asked)
      BY <1>1, <1>2, <2>2 DEF CopyInv, MatchesExpansion, FirstText
    <3>2. Expansion(variables, StackLimit)[asked] = FirstText(variables, asked)
      BY <1>3, <2>2, OneLine
    <3>3. QED
      BY <1>1, <1>2, <3>1, <3>2 DEF Ops
  <2>3. QED
    BY <2>1, <2>2
<1>5. QED
  BY <1>1, <1>2, <1>3, <1>4, FirstTextType

(* A step of the command is one of its lookup, or leaves that alone. *)
LEMMA ShowStepLooksUp ==
    ASSUME AtInv, [ShowStep]_showVars
    PROVE  [Next]_vars
<1>1. CASE Ask
  <2>1. at \in 1..17
    BY <1>1, LookupFacts DEF Ask, AtInv
  <2>2. Var \in Vars /\ Op(at) \in Ops
    BY <2>1, LookupFacts DEF Var
  <2>3. QED
    BY <1>1, <2>2 DEF Ask, Next
<1>2. CASE LookupStep
  BY <1>2 DEF LookupStep, Next
<1>3. ASSUME ~Ask, ~LookupStep PROVE UNCHANGED vars
  BY <1>3 DEF ShowStep, showVars, NoVersion, Fail, Keep, GoOn, NoSource, Build,
     PrintVariable, TakeName, AskRepology, RepologyPanics, PrintComponent
<1>4. QED
  BY <1>1, <1>2, <1>3

LEMMA SameMakefile == [Next]_vars => variables' = variables
BY DEF Next, Step, Call, CallUndefined, EnterNested, Overflow, PassOver,
   NextValue, ReturnNested, Return, vars

(* The command goes on without a lookup of new_from_makefile. *)
LEMMA GotKept ==
    ASSUME AtInv, GotInv, got' = got, variables' = variables,
           at' = at \/ (at \in 7..18 /\ at' \in 7..18)
    PROVE  GotInv'
<1>1. /\ \A j \in 1..6 : j < at' => j < at
      /\ at' > 1 => at > 1
  BY DEF AtInv
<1>2. QED
  BY <1>1 DEF GotInv

(* Nothing is printed. *)
LEMMA PrintKept ==
    ASSUME AtInv, PrintInv, printed' = printed, variables' = variables,
           8..Done' = 8..Done
    PROVE  PrintInv'
BY DEF PrintInv

(* What a lookup has returned is printed. *)
LEMMA Prints ==
    ASSUME AtInv, PrintInv, variables' = variables, variables \in Makefiles,
           exit = "running", at \in 8..17,
           printed' = [printed EXCEPT ![Lookups[at]]
                         = FirstText(variables, Lookups[at])],
           Done' = at \/ (Done' = at + 1 /\ Lookups[at + 1] = Lookups[at])
    PROVE  PrintInv'
<1>1. Done = at - 1 /\ Lookups[at] \in Printable
  BY LookupFacts DEF Done
<1>2. FirstText(variables, Lookups[at]) \in Optional
  BY FirstTextType
<1>3. printed' \in [Printable -> Optional]
  BY <1>1, <1>2 DEF PrintInv
<1>4. ASSUME NEW v \in Printable
      PROVE  printed'[v] = IF \E j \in 8..Done' : Lookups[j] = v
                             THEN FirstText(variables, v) ELSE None
  <2>1. CASE v = Lookups[at]
    <3>1. at \in 8..Done'
      OBVIOUS
    <3>2. printed'[v] = FirstText(variables, v)
      BY <1>1, <2>1 DEF PrintInv
    <3>3. QED
      BY <2>1, <3>1, <3>2
  <2>2. CASE v # Lookups[at]
    <3>1. printed'[v] = printed[v]
      BY <1>1, <2>2 DEF PrintInv
    <3>2. (\E j \in 8..Done' : Lookups[j] = v) <=> (\E j \in 8..Done : Lookups[j] = v)
      <4>1. ASSUME NEW j \in 8..Done', Lookups[j] = v PROVE j \in 8..Done
        <5>1. j # at /\ (Done' = at + 1 => j # at + 1)
          BY <2>2, <4>1
        <5>2. QED
          BY <1>1, <5>1
      <4>2. ASSUME NEW j \in 8..Done PROVE j \in 8..Done'
        BY <1>1
      <4>3. QED
        BY <4>1, <4>2
    <3>3. QED
      BY <3>1, <3>2 DEF PrintInv
  <2>3. QED
    BY <2>1, <2>2
<1>5. QED
  BY <1>3, <1>4 DEF PrintInv

(* The component stays as it was built. *)
LEMMA BuiltKept ==
    ASSUME AtInv, BuiltInv, got' = got, variables' = variables,
           component' = component, at' \in 1..18,
           (at <= 7 /\ at' <= 7) \/ (at > 7 /\ at' > 7)
    PROVE  BuiltInv'
<1>1. Source' = Source /\ Revision' = Revision /\ Options' = Options
  BY DEF Source, Revision, Options
<1>2. CASE at <= 7 /\ at' <= 7
  BY <1>2 DEF BuiltInv, AtInv
<1>3. CASE at > 7 /\ at' > 7
  <2>1. ~(at' <= 7)
    BY <1>3 DEF AtInv
  <2>2. QED
    BY <1>1, <1>3, <2>1 DEF BuiltInv
<1>4. QED
  BY <1>2, <1>3

LEMMA NewestKept ==
    ASSUME NewestInv, answer' = answer, latest' = latest,
           at \in 1..18, at' \in 1..18, at' <= 10 => at <= 10
    PROVE  NewestInv'
BY DEF NewestInv

(* The lookup is done, and the command goes on. *)
LEMMA GoesOn ==
    ASSUME at' \in 1..18, waiting' = FALSE, name' \in Values,
           exit' = "running"
    PROVE  AtInv'
<1>1. waiting' \in BOOLEAN /\ ~waiting'
  OBVIOUS
<1>2. QED
  BY <1>1 DEF AtInv

(* The lookup is called, or goes on. *)
LEMMA AskKeeps ==
    ASSUME ShowInv, Ask \/ LookupStep
    PROVE  AtInv' /\ GotInv' /\ PrintInv' /\ BuiltInv' /\ NewestInv'
<1>1. [Next]_vars
  BY ShowStepLooksUp DEF ShowInv, ShowStep
<1>2. variables' = variables
  BY <1>1, SameMakefile
<1>3. UNCHANGED <<at, got, component, name, answer, latest, printed, exit>>
  BY DEF Ask, LookupStep, command
<1>4. AtInv'
  <2>1. CASE Ask
    <3>1. at <= 17 /\ waiting' = TRUE /\ op' = Op(at) /\ asked' = Lookups[at]
      BY <2>1, LookupFacts DEF Ask, Call, CallUndefined, Var
    <3>2. QED
      BY <1>3, <3>1 DEF ShowInv, AtInv
  <2>2. CASE LookupStep
    <3>1. waiting' = waiting /\ op' = op /\ asked' = asked
      BY <2>2 DEF LookupStep, command, Step, EnterNested, Overflow, PassOver,
         NextValue, ReturnNested, Return
    <3>2. QED
      BY <1>3, <3>1 DEF ShowInv, AtInv
  <2>3. QED
    BY <2>1, <2>2
<1>5. GotInv'
  BY <1>2, <1>3, GotKept DEF ShowInv
<1>6. PrintInv'
  BY <1>2, <1>3, PrintKept DEF ShowInv, Done
<1>7. BuiltInv'
  BY <1>2, <1>3, BuiltKept DEF ShowInv, AtInv
<1>8. NewestInv'
  BY <1>3, NewestKept DEF ShowInv, AtInv
<1>9. QED
  BY <1>4, <1>5, <1>6, <1>7, <1>8

(* new_from_makefile fails. *)
LEMMA FailKeeps ==
    ASSUME ShowInv, NoVersion \/ NoSource
    PROVE  AtInv' /\ GotInv' /\ PrintInv' /\ BuiltInv' /\ NewestInv'
<1>1. /\ at \in 1..7 /\ exit = "running" /\ exit' = "error"
      /\ UNCHANGED <<vars, at, waiting, got, component, name, answer, latest,
                     printed>>
  BY LookupFacts DEF NoVersion, NoSource, Fail, Returned
<1>2. variables' = variables /\ op' = op /\ asked' = asked
  BY <1>1 DEF vars
<1>3. AtInv'
  BY <1>1, <1>2 DEF ShowInv, AtInv
<1>4. Done' = Done
  BY <1>1 DEF Done
<1>5. QED
  BY <1>1, <1>2, <1>3, <1>4, GotKept, PrintKept, BuiltKept, NewestKept
     DEF ShowInv, AtInv

(* A value is kept. *)
LEMMA KeepKeeps ==
    ASSUME ShowInv, Keep
    PROVE  AtInv' /\ GotInv' /\ PrintInv' /\ BuiltInv' /\ NewestInv'
<1>1. PICK j \in 1..6 : Returned(j)
  BY LookupFacts DEF Keep
<1>2. /\ at = j /\ at \in 1..6 /\ exit = "running" /\ Var = Lookups[at]
      /\ result = FirstText(variables, Lookups[at]) /\ result \in Optional
  BY <1>1, ReturnedText DEF ShowInv
<1>3. /\ at' = at + 1 /\ waiting' = FALSE /\ exit' = exit
      /\ variables' = variables
      /\ UNCHANGED <<component, name, answer, latest, printed>>
      /\ got' = [got EXCEPT ![Lookups[at]] = result]
      /\ at = 1 => result \in SemVers
  BY <1>2 DEF Keep, GoOn, vars
<1>4. AtInv'
  <2>1. name' \in Values /\ at' \in 1..18
    BY <1>2, <1>3 DEF ShowInv, AtInv
  <2>2. QED
    BY <1>2, <1>3, <2>1, GoesOn
<1>5. GotInv'
  <2>1. Lookups[at] \in Kept /\ \A k \in 1..6 : Lookups[k] \in Kept
    BY <1>2, LookupFacts
  <2>2. got' \in [Kept -> Optional]
    BY <1>2, <1>3, <2>1 DEF ShowInv, GotInv
  <2>3. ASSUME NEW k \in 1..6, k < at'
        PROVE  got'[Lookups[k]] = FirstText(variables, Lookups[k])
    <3>1. CASE Lookups[k] = Lookups[at]
      BY <1>2, <1>3, <2>1, <3>1 DEF ShowInv, GotInv
    <3>2. CASE Lookups[k] # Lookups[at]
      <4>1. k < at
        BY <1>2, <1>3, <2>3, <3>2
      <4>2. got'[Lookups[k]] = got[Lookups[k]]
        BY <1>3, <2>1, <3>2 DEF ShowInv, GotInv
      <4>3. QED
        BY <4>1, <4>2 DEF ShowInv, GotInv
    <3>3. QED
      BY <3>1, <3>2
  <2>4. FirstText(variables, "COMPONENT_VERSION") \in SemVers
    <3>1. CASE at = 1
      BY <1>2, <1>3, <3>1, LookupFacts
    <3>2. CASE at # 1
      BY <1>2, <3>2 DEF ShowInv, GotInv
    <3>3. QED
      BY <3>1, <3>2
  <2>5. QED
    BY <1>3, <2>2, <2>3, <2>4 DEF GotInv
<1>6. PrintInv'
  <2>1. Done = at - 1 /\ Done' = at
    BY <1>2, <1>3 DEF Done
  <2>2. 8..Done' = 8..Done
    BY <1>2, <2>1
  <2>3. QED
    BY <1>3, <2>2, PrintKept DEF ShowInv
<1>7. BuiltInv'
  <2>1. at' <= 7 /\ at <= 7 /\ ~(at' > 7)
    BY <1>2, <1>3
  <2>2. QED
    BY <1>3, <2>1 DEF ShowInv, BuiltInv
<1>8. NewestInv'
  BY <1>2, <1>3, NewestKept DEF ShowInv
<1>9. QED
  BY <1>4, <1>5, <1>6, <1>7, <1>8

(* The component is built. *)
LEMMA BuildKeeps ==
    ASSUME ShowInv, Build
    PROVE  AtInv' /\ GotInv' /\ PrintInv' /\ BuiltInv' /\ NewestInv'
<1>1. Returned(7) /\ Source # None
  BY LookupFacts DEF Build
<1>2. at = 7 /\ exit = "running"
  BY <1>1 DEF Returned
<1>3. /\ at' = 8 /\ waiting' = FALSE /\ exit' = exit /\ variables' = variables
      /\ UNCHANGED <<got, name, answer, latest, printed>>
      /\ component' = [version |-> got["COMPONENT_VERSION"],
                       revision |-> Revision, source |-> Source,
                       options |-> Options, build_style |-> BuildStyle]
  BY LookupFacts DEF Build, GoOn, vars
<1>4. AtInv'
  <2>1. name' \in Values /\ at' \in 1..18
    BY <1>2, <1>3 DEF ShowInv, AtInv
  <2>2. QED
    BY <1>2, <1>3, <2>1, GoesOn
<1>5. GotInv'
  BY <1>2, <1>3, GotKept DEF ShowInv
<1>6. PrintInv'
  <2>1. Done = 6 /\ Done' = 7
    BY <1>2, <1>3 DEF Done
  <2>2. 8..Done' = 8..Done
    BY <2>1
  <2>3. QED
    BY <1>3, <2>2, PrintKept DEF ShowInv
<1>7. BuiltInv'
  <2>1. Source' = Source /\ Revision' = Revision /\ Options' = Options
    BY <1>3 DEF Source, Revision, Options
  <2>2. BuildStyle \in Styles
    BY ShowComponentTypes DEF BuildStyle
  <2>3. ~(at' <= 7)
    BY <1>3
  <2>4. QED
    BY <1>1, <1>3, <2>1, <2>2, <2>3 DEF BuiltInv
<1>8. NewestInv'
  BY <1>2, <1>3, NewestKept DEF ShowInv
<1>9. QED
  BY <1>4, <1>5, <1>6, <1>7, <1>8

(* A line is printed. *)
LEMMA PrintKeeps ==
    ASSUME ShowInv, PrintVariable
    PROVE  AtInv' /\ GotInv' /\ PrintInv' /\ BuiltInv' /\ NewestInv'
<1>1. PICK j \in 8..17 : j # 9 /\ j # 10 /\ Returned(j)
  BY LookupFacts DEF PrintVariable
<1>2. /\ at = j /\ at \in 8..17 /\ at # 9 /\ at # 10 /\ exit = "running"
      /\ Var = Lookups[at] /\ variables \in Makefiles
      /\ result = FirstText(variables, Lookups[at])
  BY <1>1, ReturnedText DEF ShowInv
<1>3. /\ at' = IF at = 8 /\ result = None THEN at + 2 ELSE at + 1
      /\ waiting' = FALSE /\ exit' = exit /\ variables' = variables
      /\ UNCHANGED <<got, component, name, answer, latest>>
      /\ printed' = [printed EXCEPT ![Lookups[at]] = result]
  BY <1>2, LookupFacts DEF PrintVariable, GoOn, vars
<1>4. at' \in 9..18 /\ (at' = at + 1 \/ (at = 8 /\ at' = 10))
  BY <1>2, <1>3
<1>5. AtInv'
  <2>1. name' \in Values /\ at' \in 1..18
    BY <1>3, <1>4 DEF ShowInv, AtInv
  <2>2. QED
    BY <1>2, <1>3, <2>1, GoesOn
<1>6. GotInv'
  BY <1>2, <1>3, <1>4, GotKept DEF ShowInv
<1>7. PrintInv'
  <2>1. Done' = at \/ (Done' = at + 1 /\ Lookups[at + 1] = Lookups[at])
    BY <1>2, <1>3, <1>4, LookupFacts DEF Done
  <2>2. QED
    BY <1>2, <1>3, <2>1, Prints DEF ShowInv
<1>8. BuiltInv'
  BY <1>2, <1>3, <1>4, BuiltKept DEF ShowInv
<1>9. NewestInv'
  BY <1>2, <1>3, <1>4, NewestKept DEF ShowInv
<1>10. QED
  BY <1>5, <1>6, <1>7, <1>8, <1>9

(* The name is taken. *)
LEMMA NameKeeps ==
    ASSUME ShowInv, TakeName
    PROVE  AtInv' /\ GotInv' /\ PrintInv' /\ BuiltInv' /\ NewestInv'
<1>1. Returned(9)
  BY LookupFacts DEF TakeName
<1>2. at = 9 /\ exit = "running" /\ result \in Optional
  BY <1>1, ReturnedText DEF ShowInv
<1>3. /\ at' = 10 /\ waiting' = FALSE /\ exit' = exit /\ variables' = variables
      /\ name' = IF result = None THEN name ELSE result
      /\ UNCHANGED <<got, component, answer, latest, printed>>
  BY <1>2 DEF TakeName, GoOn, vars
<1>4. AtInv'
  <2>1. name' \in Values /\ at' \in 1..18
    BY <1>2, <1>3 DEF ShowInv, AtInv, Optional
  <2>2. QED
    BY <1>2, <1>3, <2>1, GoesOn
<1>5. GotInv'
  BY <1>2, <1>3, GotKept DEF ShowInv
<1>6. PrintInv'
  <2>1. Done = 8 /\ Done' = 9
    BY <1>2, <1>3 DEF Done
  <2>2. ASSUME NEW v
        PROVE  (\E j \in 8..9 : Lookups[j] = v) <=> (\E j \in 8..8 : Lookups[j] = v)
    <3>1. \A j \in 8..9 : j = 8 \/ j = 9
      OBVIOUS
    <3>2. QED
      BY <3>1, LookupFacts
  <2>3. QED
    BY <1>3, <2>1, <2>2 DEF ShowInv, PrintInv
<1>7. BuiltInv'
  BY <1>2, <1>3, BuiltKept DEF ShowInv
<1>8. NewestInv'
  BY <1>2, <1>3, NewestKept DEF ShowInv
<1>9. QED
  BY <1>4, <1>5, <1>6, <1>7, <1>8

(* Repology answers, or does not, or with nothing. *)
LEMMA RepologyKeeps ==
    ASSUME ShowInv, AskRepology \/ RepologyPanics
    PROVE  AtInv' /\ GotInv' /\ PrintInv' /\ BuiltInv' /\ NewestInv'
<1>1. Returned(10)
  BY LookupFacts DEF AskRepology, RepologyPanics
<1>2. /\ at = 10 /\ exit = "running" /\ Var = Lookups[at]
      /\ variables \in Makefiles /\ result = FirstText(variables, Lookups[at])
  BY <1>1, ReturnedText DEF ShowInv
<1>3. /\ variables' = variables /\ op' = op /\ asked' = asked
      /\ UNCHANGED <<got, component, name>>
      /\ printed' = [printed EXCEPT ![Lookups[at]] = result]
      /\ \/ at' = 11 /\ waiting' = FALSE /\ exit' = exit
         \/ at' = 10 /\ waiting' = waiting /\ exit' = "panic" /\ answer' = <<>>
  BY <1>2 DEF AskRepology, RepologyPanics, GoOn, vars
<1>4. AtInv'
  <2>1. name' \in Values /\ at' \in 1..18
    BY <1>2, <1>3 DEF ShowInv, AtInv
  <2>2. CASE waiting' = FALSE /\ exit' = exit
    BY <1>2, <2>1, <2>2, GoesOn
  <2>3. CASE at' = 10 /\ waiting' = waiting /\ exit' = "panic" /\ answer' = <<>>
    BY <1>2, <1>3, <2>1, <2>3 DEF ShowInv, AtInv
  <2>4. QED
    BY <1>3, <2>2, <2>3
<1>5. GotInv'
  BY <1>2, <1>3, GotKept DEF ShowInv
<1>6. PrintInv'
  <2>1. Done' = at
    BY <1>2, <1>3 DEF Done
  <2>2. QED
    BY <1>2, <1>3, <2>1, Prints DEF ShowInv
<1>7. BuiltInv'
  BY <1>2, <1>3, BuiltKept DEF ShowInv
<1>8. NewestInv'
  <2>1. CASE AskRepology
    <3>1. at' = 11 /\ ~(at' <= 10)
      BY <1>2, <2>1 DEF AskRepology, GoOn
    <3>2. CASE UNCHANGED <<answer, latest>>
      BY <3>1, <3>2 DEF ShowInv, NewestInv
    <3>3. CASE \E versions \in Answers \ {<<>>} :
                  answer' = versions /\ latest' = Newest(versions)
      BY <3>1, <3>3 DEF NewestInv
    <3>4. QED
      BY <2>1, <3>2, <3>3 DEF AskRepology
  <2>2. CASE RepologyPanics
    <3>1. latest' = latest /\ latest = None /\ answer' \in Answers /\ at' = at
      BY <1>2, <2>2 DEF RepologyPanics, ShowInv, NewestInv
    <3>2. QED
      BY <3>1 DEF NewestInv
  <2>3. QED
    BY <2>1, <2>2
<1>9. QED
  BY <1>4, <1>5, <1>6, <1>7, <1>8

(* The component is printed. *)
LEMMA EndKeeps ==
    ASSUME ShowInv, PrintComponent \/ UNCHANGED showVars
    PROVE  AtInv' /\ GotInv' /\ PrintInv' /\ BuiltInv' /\ NewestInv'
<1>1. /\ variables' = variables /\ op' = op /\ asked' = asked
      /\ UNCHANGED <<at, waiting, got, component, name, answer, latest, printed>>
      /\ \/ exit' = exit
         \/ exit = "running" /\ at = 18 /\ exit' = "ok"
  BY LookupFacts DEF PrintComponent, showVars, vars, command
<1>2. AtInv'
  BY <1>1 DEF ShowInv, AtInv
<1>3. Done' = Done
  BY <1>1 DEF Done
<1>4. QED
  BY <1>1, <1>2, <1>3, GotKept, PrintKept, BuiltKept, NewestKept
     DEF ShowInv, AtInv

(* Every step of the command keeps the invariant. *)
LEMMA ShowNext == ShowInv /\ [ShowStep]_showVars => ShowInv'
<1>. SUFFICES ASSUME ShowInv, [ShowStep]_showVars PROVE ShowInv'
  OBVIOUS
<1>1. CopyInv'
  BY ShowStepLooksUp, NextCopies DEF ShowInv
<1>2. AtInv' /\ GotInv' /\ PrintInv' /\ BuiltInv' /\ NewestInv'
  BY AskKeeps, FailKeeps, KeepKeeps, BuildKeeps, PrintKeeps, NameKeeps,
     RepologyKeeps, EndKeeps DEF ShowStep
<1>3. QED
  BY <1>1, <1>2 DEF ShowInv

LEMMA ShowStarts == ShowInit => ShowInv
<1>. SUFFICES ASSUME ShowInit PROVE ShowInv
  OBVIOUS
<1>1. CopyInv
  BY InitCopies DEF ShowInit
<1>2. AtInv
  <2>1. waiting \in BOOLEAN /\ ~waiting
    BY DEF ShowInit
  <2>2. QED
    BY <2>1 DEF ShowInit, AtInv, Values
<1>3. GotInv
  BY DEF ShowInit, GotInv, Optional
<1>4. PrintInv
  <2>1. Done = 0
    BY DEF ShowInit, Done
  <2>2. 8..Done = {}
    BY <2>1
  <2>3. QED
    BY <2>2 DEF ShowInit, PrintInv, Optional
<1>5. BuiltInv /\ NewestInv
  BY DEF ShowInit, BuiltInv, NewestInv
<1>6. QED
  BY <1>1, <1>2, <1>3, <1>4, <1>5 DEF ShowInv

(***************************************************************************)
(* For any makefile the lookups of show-component are lookups as Makefile  *)
(* has them: everything that is shown of those holds in the command.       *)
(***************************************************************************)
THEOREM ShowLooksUp == ShowSpec => Init /\ [][Next]_vars
<1>1. ShowInit => Init
  BY DEF ShowInit
<1>2. ShowInv /\ [ShowStep]_showVars => [Next]_vars
  BY ShowStepLooksUp DEF ShowInv
<1>3. QED
  BY <1>1, <1>2, ShowStarts, ShowNext, PTL DEF ShowSpec

(* A source is one of the two kinds. *)
LEMMA SourceType ==
    ASSUME got \in [Kept -> Optional], Source # None
    PROVE  Source \in Sources
<1>. DEFINE archive == got["COMPONENT_ARCHIVE_URL"]
            git == got["GIT_URL"]
            src == got["COMPONENT_SRC"]
            hash == got["COMPONENT_ARCHIVE_HASH"]
<1>1. archive \in Optional /\ git \in Optional /\ src \in Optional /\ hash \in Optional
  <2>1. {"COMPONENT_ARCHIVE_URL", "GIT_URL", "COMPONENT_SRC",
         "COMPONENT_ARCHIVE_HASH"} \subseteq Kept
    <3>1. \A j \in 1..6 : Lookups[j] \in Kept
      BY LookupFacts
    <3>2. Lookups[4] \in Kept /\ Lookups[5] \in Kept /\ Lookups[3] \in Kept /\ Lookups[6] \in Kept
      BY <3>1
    <3>3. QED
      BY <3>2, LookupFacts
  <2>2. QED
    BY <2>1
<1>2. \/ /\ src # None /\ archive # None
         /\ Source = [kind |-> "archive", name |-> src, url |-> archive, hash |-> hash]
      \/ /\ src # None /\ git # None
         /\ Source = [kind |-> "git", name |-> src, url |-> git]
  <2>1. CASE src = None
    BY <2>1 DEF Source
  <2>2. CASE src # None /\ archive # None /\ archive \in ValidUrls
    BY <2>2 DEF Source
  <2>3. CASE src # None /\ archive # None /\ archive \notin ValidUrls
    BY <2>3 DEF Source
  <2>4. CASE src # None /\ archive = None /\ git # None /\ git \in ValidUrls
    BY <2>4 DEF Source
  <2>5. CASE src # None /\ archive = None /\ (git = None \/ git \notin ValidUrls)
    BY <2>5 DEF Source
  <2>6. QED
    BY <2>1, <2>2, <2>3, <2>4, <2>5
<1>. HIDE DEF archive, git, src, hash
<1>3. QED
  BY <1>1, <1>2 DEF Sources, Optional

(* p puts the first n elements of s in their order. *)
Sorts(p, n, s) ==
    /\ p \in [1..n -> 1..n]
    /\ \A i, j \in 1..n : p[i] = p[j] => i = j
    /\ \A w \in 1..n : \E i \in 1..n : p[i] = w
    /\ \A i, j \in 1..n : i <= j => s[p[i]] <= s[p[j]]

(* One element more goes before the first that is greater. *)
LEMMA SortsStep ==
    ASSUME NEW n \in Nat, NEW N, N = n + 1, NEW s, \A i \in 1..N : s[i] \in Nat,
           NEW p, Sorts(p, n, s)
    PROVE  \E q : Sorts(q, N, s)
<1>. DEFINE x == s[N]
            y == [i \in 1..n |-> s[p[i]]]
            K == {k \in 1..n : x < y[k]}
<1>1. /\ N \in Nat /\ N \in 1..N /\ x \in Nat /\ p \in [1..n -> 1..n]
      /\ \A i \in 1..n : p[i] \in 1..n /\ p[i] \in 1..N /\ p[i] # N
  <2>1. p \in [1..n -> 1..n]
    BY DEF Sorts
  <2>2. N \in Nat /\ N \in 1..N /\ N \notin 1..n /\ \A i \in 1..n : i \in 1..N
    OBVIOUS
  <2>3. QED
    BY <2>1, <2>2
<1>2. \A i \in 1..n : y[i] = s[p[i]] /\ y[i] \in Nat
  BY <1>1
<1>3. \A i, j \in 1..n : i <= j => y[i] <= y[j]
  BY <1>2 DEF Sorts
<1>. HIDE DEF x, y
<1>4. \E k \in 1..N : /\ \A i \in 1..n : i < k => y[i] <= x
                      /\ \A i \in 1..n : i >= k => x <= y[i]
  <2>1. CASE K = {}
    <3>1. ASSUME NEW i \in 1..n PROVE y[i] <= x /\ ~(i >= N)
      <4>1. ~(x < y[i])
        BY <2>1
      <4>2. y[i] \in Nat /\ x \in Nat
        BY <1>1, <1>2
      <4>3. y[i] <= x
        BY ONLY <4>1, <4>2
      <4>4. QED
        BY <4>3
    <3>2. QED
      BY <1>1, <3>1
  <2>2. CASE K # {}
    <3>1. PICK k \in K : \A j \in K : k <= j
      <4>0. K \in SUBSET (1..n)
        OBVIOUS
      <4>. HIDE DEF K
      <4>. QED BY <2>2, <4>0, FirstIndex
    <3>2. k \in 1..N /\ k \in 1..n /\ x < y[k]
      OBVIOUS
    <3>3. ASSUME NEW i \in 1..n, i < k PROVE y[i] <= x
      <4>1. ~(x < y[i])
        BY <3>1, <3>2, <3>3
      <4>2. y[i] \in Nat /\ x \in Nat
        BY <1>1, <1>2
      <4>3. QED
        BY ONLY <4>1, <4>2
    <3>4. ASSUME NEW i \in 1..n, i >= k PROVE x <= y[i]
      <4>1. y[k] <= y[i] /\ y[k] \in Nat /\ y[i] \in Nat
        BY <1>2, <1>3, <3>2, <3>4
      <4>2. x < y[k] /\ x \in Nat
        BY <1>1, <3>2
      <4>3. QED
        BY ONLY <4>1, <4>2
    <3>5. QED
      BY <3>2, <3>3, <3>4
  <2>3. QED
    BY <2>1, <2>2
<1>5. PICK k \in 1..N : /\ \A i \in 1..n : i < k => y[i] <= x
                       /\ \A i \in 1..n : i >= k => x <= y[i]
  BY <1>4
<1>. HIDE DEF K
<1>. DEFINE Old(i) == IF i < k THEN i ELSE i - 1
            q == [i \in 1..N |-> IF i = k THEN N ELSE p[Old(i)]]
<1>6. \A i \in 1..N : i # k => Old(i) \in 1..n
  OBVIOUS
<1>7. /\ q \in [1..N -> 1..N] /\ q[k] = N
      /\ \A i \in 1..N : i # k => q[i] = p[Old(i)]
  <2>. HIDE DEF Old
  <2>. QED BY <1>1, <1>6
<1>. HIDE DEF q
<1>8. ASSUME NEW i \in 1..N, NEW j \in 1..N, q[i] = q[j] PROVE i = j
  <2>1. CASE i = k \/ j = k
    <3>. HIDE DEF Old
    <3>. QED BY <1>1, <1>6, <1>7, <1>8, <2>1
  <2>2. CASE i # k /\ j # k
    <3>1. Old(i) = Old(j)
      <4>. HIDE DEF Old
      <4>. QED BY <1>6, <1>7, <1>8, <2>2 DEF Sorts
    <3>2. QED
      BY <2>2, <3>1
  <2>3. QED
    BY <2>1, <2>2
<1>9. ASSUME NEW w \in 1..N PROVE \E i \in 1..N : q[i] = w
  <2>1. CASE w = N
    BY <1>7, <2>1
  <2>2. CASE w # N
    <3>1. w \in 1..n
      BY <2>2
    <3>2. PICK l \in 1..n : p[l] = w
      BY <3>1 DEF Sorts
    <3>3. PICK i \in 1..N : i # k /\ Old(i) = l
      <4>1. CASE l < k
        <5>1. l \in 1..N /\ l # k /\ Old(l) = l
          BY <4>1
        <5>2. QED
          BY <5>1
      <4>2. CASE l >= k
        <5>1. l + 1 \in 1..N /\ l + 1 # k /\ Old(l + 1) = l
          BY <4>2
        <5>2. QED
          BY <5>1
      <4>3. QED
        BY <4>1, <4>2
    <3>. HIDE DEF Old
    <3>4. QED
      BY <1>7, <3>2, <3>3
  <2>3. QED
    BY <2>1, <2>2
<1>10. ASSUME NEW i \in 1..N, NEW j \in 1..N, i <= j PROVE s[q[i]] <= s[q[j]]
  <2>0. s[q[k]] = x /\ \A l \in 1..N : l # k => s[q[l]] = y[Old(l)]
    <3>. HIDE DEF Old
    <3>. QED BY <1>2, <1>6, <1>7 DEF x
  <2>1. CASE i = k /\ j = k
    BY <1>1, <2>0, <2>1
  <2>2. CASE i = k /\ j # k
    <3>1. Old(j) \in 1..n /\ Old(j) >= k
      BY <1>10, <2>2
    <3>. HIDE DEF Old
    <3>2. QED
      BY <1>5, <2>0, <2>2, <3>1
  <2>3. CASE i # k /\ j = k
    <3>1. Old(i) \in 1..n /\ Old(i) < k
      BY <1>10, <2>3
    <3>. HIDE DEF Old
    <3>2. QED
      BY <1>5, <2>0, <2>3, <3>1
  <2>4. CASE i # k /\ j # k
    <3>1. Old(i) \in 1..n /\ Old(j) \in 1..n /\ Old(i) <= Old(j)
      BY <1>10, <2>4
    <3>. HIDE DEF Old
    <3>2. QED
      BY <1>3, <2>0, <2>4, <3>1
  <2>5. QED
    BY <2>1, <2>2, <2>3, <2>4
<1>11. Sorts(q, N, s)
  BY <1>7, <1>8, <1>9, <1>10 DEF Sorts
<1>12. QED
  BY <1>11

(* Every sequence of numbers can be sorted. *)
LEMMA Sortable ==
    ASSUME NEW n \in Nat, NEW s, \A i \in 1..n : s[i] \in Nat
    PROVE  \E p : Sorts(p, n, s)
<1>. DEFINE I == {k \in Nat : k <= n => \E p : Sorts(p, k, s)}
<1>1. 0 \in I
  <2>1. Sorts(<<>>, 0, s)
    <3>1. 1..0 = {} /\ <<>> \in [1..0 -> 1..0]
      OBVIOUS
    <3>2. QED
      BY <3>1 DEF Sorts
  <2>2. QED
    BY <2>1
<1>2. ASSUME NEW k \in Nat, k \in I PROVE k + 1 \in I
  <2>. SUFFICES ASSUME k + 1 <= n PROVE \E q : Sorts(q, k + 1, s)
    OBVIOUS
  <2>1. PICK p : Sorts(p, k, s)
    BY <1>2
  <2>. DEFINE K == k + 1
  <2>2. K = k + 1 /\ \A i \in 1..K : s[i] \in Nat
    OBVIOUS
  <2>. HIDE DEF K
  <2>3. \E q : Sorts(q, K, s)
    BY <2>1, <2>2, SortsStep
  <2>4. QED
    BY <2>3 DEF K
<1>. HIDE DEF I
<1>3. n \in I
  BY <1>1, <1>2, SetInduction
<1>4. QED
  BY <1>3, n <= n DEF I

(* The newest version is one of them, and none is higher. *)
LEMMA NewestFacts ==
    ASSUME NEW versions \in Answers, versions # <<>>
    PROVE  /\ Newest(versions) \in Nat
           /\ \E j \in 1..Len(versions) : Parsed(versions[j]) = Newest(versions)
           /\ \A j \in 1..Len(versions) : Parsed(versions[j]) <= Newest(versions)
<1>. DEFINE n == Len(versions)
            s == ParsedAll(versions)
            p == Order(s)
<1>1. n \in Nat /\ n \in 1..n /\ \A j \in 1..n : versions[j] \in Nat \cup {Unparsable}
  BY ShowComponentTypes
<1>2. /\ Len(s) = n
      /\ \A j \in 1..n : s[j] = Parsed(versions[j]) /\ s[j] \in Nat
  BY <1>1 DEF ParsedAll, Parsed, FallbackVersion
<1>. HIDE DEF s
<1>3. Sorts(p, n, s)
  <2>. DEFINE B == Bijection(1..n, 1..n)
              P(f) == \A i, j \in 1..n : i <= j => s[f[i]] <= s[f[j]]
  <2>1. \A f : Sorts(f, n, s) <=> f \in B /\ P(f)
    BY DEF Sorts, Bijection, Injection, Surjection, IsInjective
  <2>2. \E f : Sorts(f, n, s)
    BY <1>1, <1>2, Sortable
  <2>3. p = CHOOSE f \in B : P(f)
    BY <1>2 DEF Order
  <2>. HIDE DEF B, P, n, p
  <2>4. \E f \in B : P(f)
    BY <2>1, <2>2
  <2>5. p \in B /\ P(p)
    BY <2>3, <2>4
  <2>6. QED
    BY <2>1, <2>5
<1>4. Newest(versions) = s[p[n]]
  BY <1>2 DEF Newest, s
<1>. HIDE DEF p
<1>5. p[n] \in 1..n
  BY <1>1, <1>3 DEF Sorts
<1>6. ASSUME NEW j \in 1..n PROVE s[j] <= s[p[n]]
  <2>1. PICK i \in 1..n : p[i] = j
    BY <1>3 DEF Sorts
  <2>2. i <= n
    OBVIOUS
  <2>3. QED
    BY <1>1, <1>3, <2>1, <2>2 DEF Sorts
<1>7. QED
  BY <1>2, <1>4, <1>5, <1>6


(* The facts of the invariant a component rests on. *)
LEMMA ComponentFacts ==
    ASSUME CopyInv, AtInv, GotInv, BuiltInv, at > 7
    PROVE  /\ variables \in Makefiles
           /\ \A j \in 1..6 : got[Lookups[j]] = FirstText(variables, Lookups[j])
           /\ got["COMPONENT_VERSION"] \in SemVers
           /\ Source # None
           /\ component.version = got["COMPONENT_VERSION"]
           /\ component.revision = Revision
           /\ component.source = Source
<1>1. variables \in Makefiles /\ at \in 1..18
  BY DEF CopyInv, AtInv
<1>2. \A j \in 1..6 : got[Lookups[j]] = FirstText(variables, Lookups[j])
  BY <1>1 DEF GotInv
<1>3. got["COMPONENT_VERSION"] \in SemVers
  <2>1. got[Lookups[1]] = FirstText(variables, Lookups[1])
    BY <1>2
  <2>2. Lookups[1] = "COMPONENT_VERSION"
    BY LookupFacts
  <2>3. QED
    BY <2>1, <2>2, <1>1 DEF GotInv
<1>4. Source # None
  BY DEF BuiltInv
<1>5. PICK b \in Styles :
          component = [version |-> got["COMPONENT_VERSION"],
                       revision |-> Revision, source |-> Source,
                       options |-> Options, build_style |-> b]
  BY DEF BuiltInv
<1>6. QED
  BY <1>1, <1>2, <1>3, <1>4, <1>5

(* The component of the command is one. *)
LEMMA ComponentType ==
    ASSUME CopyInv, AtInv, GotInv, BuiltInv, at > 7
    PROVE  component \in Components
<1>1. got["COMPONENT_VERSION"] \in Values
  <2>1. Lookups[1] \in Kept /\ Lookups[1] = "COMPONENT_VERSION"
    BY LookupFacts
  <2>2. got["COMPONENT_VERSION"] \in Optional
    BY <2>1 DEF GotInv
  <2>3. got["COMPONENT_VERSION"] # None
    BY ComponentFacts, ShowComponentTypes
  <2>4. QED
    BY <2>2, <2>3 DEF Optional
<1>2. Revision \in Optional
  <2>1. Lookups[2] \in Kept /\ Lookups[2] = "COMPONENT_REVISION"
    BY LookupFacts
  <2>2. got["COMPONENT_REVISION"] \in Optional
    BY <2>1 DEF GotInv
  <2>3. Zero \in Optional
    BY ShowComponentTypes DEF Optional
  <2>4. QED
    BY <2>2, <2>3 DEF Revision
<1>3. Source \in Sources
  BY ComponentFacts, SourceType DEF GotInv
<1>4. Options \in Seq(Values)
  <2>1. CASE "CONFIGURE_OPTIONS" \notin DOMAIN variables
    BY <2>1 DEF Options
  <2>2. CASE "CONFIGURE_OPTIONS" \in DOMAIN variables
    <3>1. variables["CONFIGURE_OPTIONS"] \in Seq(Seq(Tokens))
      BY <2>2, ComponentFacts, MakefileFacts
    <3>2. QED
      BY <2>2, <3>1 DEF Options, Values
  <2>3. QED
    BY <2>1, <2>2
<1>5. PICK b \in Styles :
          component = [version |-> got["COMPONENT_VERSION"],
                       revision |-> Revision, source |-> Source,
                       options |-> Options, build_style |-> b]
  BY DEF BuiltInv
<1>6. QED
  BY <1>1, <1>2, <1>3, <1>4, <1>5 DEF Components

(***************************************************************************)
(* The variables of show-component have their types.  That a component     *)
(* has a version, a source and a known build style needs the values that   *)
(* new_from_makefile has looked up and tested before.                      *)
(***************************************************************************)
THEOREM ShowTypeCorrect == ShowSpec => []ShowTypeOK
<1>1. ShowInv => ShowTypeOK
  <2>. SUFFICES ASSUME ShowInv PROVE ShowTypeOK
    OBVIOUS
  <2>. USE DEF ShowInv
  <2>1. at \in 1..Len(Lookups)+1
    BY LookupFacts DEF AtInv
  <2>2. component \in Components \cup {None}
    <3>1. CASE at > 7
      BY <3>1, ComponentType
    <3>2. CASE ~(at > 7)
      BY <3>2 DEF BuiltInv, AtInv
    <3>3. QED
      BY <3>1, <3>2
  <2>3. answer \in Answers \cup {None}
    BY DEF NewestInv
  <2>4. latest \in Nat \cup {None}
    <3>1. CASE latest = None
      BY <3>1
    <3>2. CASE latest # None
      <4>1. answer \in Answers /\ answer # <<>> /\ latest = Newest(answer)
        BY <3>2 DEF NewestInv
      <4>2. QED
        BY <4>1, NewestFacts
    <3>3. QED
      BY <3>1, <3>2
  <2>5. waiting \in BOOLEAN /\ name \in Values /\ exit \in {"running", "ok", "error", "panic"}
    BY DEF AtInv
  <2>6. got \in [Kept -> Optional] /\ printed \in [Printable -> Optional]
    BY DEF GotInv, PrintInv
  <2>7. QED
    BY <2>1, <2>2, <2>3, <2>4, <2>5, <2>6 DEF ShowTypeOK
<1>2. QED
  BY <1>1, ShowStarts, ShowNext, PTL DEF ShowSpec

(* Between two lookups, and at the end, none is in progress. *)
Settled == ~waiting \/ exit # "running" => status = "idle"

LEMMA StaysSettled ==
    ASSUME AtInv, Settled, [ShowStep]_showVars
    PROVE  Settled'
<1>. USE DEF Settled
<1>1. CASE Ask
  BY <1>1 DEF Ask
<1>2. CASE LookupStep
  <2>1. status # "idle" /\ waiting' = waiting /\ exit' = exit
    BY <1>2 DEF LookupStep, command, Step, EnterNested, Overflow, PassOver,
       NextValue, ReturnNested, Return, AtToken
  <2>2. QED
    BY <1>2, <2>1 DEF LookupStep
<1>3. CASE PrintComponent
  BY <1>3, LookupFacts DEF PrintComponent, AtInv, vars
<1>4. CASE NoVersion \/ NoSource \/ RepologyPanics
  BY <1>4 DEF NoVersion, NoSource, RepologyPanics, Fail, Returned, vars
<1>5. CASE Keep \/ Build \/ PrintVariable \/ TakeName \/ AskRepology
  BY <1>5 DEF Keep, Build, PrintVariable, TakeName, AskRepology, GoOn, Returned, vars
<1>6. CASE UNCHANGED showVars
  BY <1>6 DEF showVars, vars, command
<1>7. QED
  BY <1>1, <1>2, <1>3, <1>4, <1>5, <1>6 DEF ShowStep

(***************************************************************************)
(* The report of show-component is complete: nothing of a component that   *)
(* cannot be built, all that is defined of one that can, up to the version *)
(* when repology knows no package, and up to the lookup before it when a   *)
(* lookup exhausts the stack.                                              *)
(***************************************************************************)
THEOREM ReportComplete == ShowSpec => []OutputComplete
<1>1. ShowInv /\ Settled => OutputComplete
  <2>. SUFFICES ASSUME ShowInv, Settled PROVE OutputComplete
    OBVIOUS
  <2>. USE DEF ShowInv
  <2>0. /\ at \in 1..18 /\ variables \in Makefiles
        /\ exit = "error" => at <= 7
        /\ exit = "ok" => at = 18
        /\ exit = "panic" => at = 10 /\ answer = <<>>
    BY DEF AtInv, CopyInv
  <2>1. \A v \in Printable :
           printed[v] # None <=> /\ \E j \in 8..Done : Lookups[j] = v
                                 /\ v \in DOMAIN variables
    BY <2>0, FirstTextType DEF PrintInv
  <2>2. ASSUME exit = "error" PROVE \A v \in Printable : printed[v] = None
    <3>1. 8..Done = {}
      BY <2>0, <2>2 DEF Done
    <3>2. QED
      BY <2>1, <3>1
  <2>3. ASSUME exit = "ok"
        PROVE  \A v \in Printable : printed[v] # None <=> v \in DOMAIN variables
    <3>1. 8..Done = 8..17
      BY <2>0, <2>3 DEF Done
    <3>2. \A v \in Printable : \E j \in 8..Done : Lookups[j] = v
      BY <3>1, LookupFacts
    <3>3. QED
      BY <2>1, <3>2
  <2>4. ASSUME exit = "panic"
        PROVE  /\ answer = <<>>
               /\ \A v \in Printable :
                    printed[v] # None <=>
                       \E j \in NameFound..VersionGot :
                          Lookups[j] = v /\ v \in DOMAIN variables
    <3>1. Done = 10 /\ NameFound = 8 /\ VersionGot = 10
      BY <2>0, <2>4, LookupFacts DEF Done
    <3>2. QED
      BY <2>0, <2>1, <2>4, <3>1
  <2>5. ASSUME status = "overflow"
        PROVE  \A v \in Printable :
                  printed[v] # None <=>
                     \E j \in NameFound..at-1 :
                        Lookups[j] = v /\ v \in DOMAIN variables
    <3>1. exit = "running"
      BY <2>5 DEF Settled
    <3>2. Done = at - 1 /\ NameFound = 8
      BY <3>1, LookupFacts DEF Done
    <3>3. QED
      BY <2>1, <3>2
  <2>6. QED
    BY <2>2, <2>3, <2>4, <2>5 DEF OutputComplete
<1>2. ShowInit => Settled
  BY DEF ShowInit, Init, Settled
<1>3. ShowInv /\ Settled /\ [ShowStep]_showVars => Settled'
  BY StaysSettled DEF ShowInv
<1>4. QED
  BY <1>1, <1>2, <1>3, ShowStarts, ShowNext, PTL DEF ShowSpec

(* What the sources have in common with what was looked up for them. *)
LEMMA SourceFacts ==
    ASSUME Source # None
    PROVE  /\ Source.url \in ValidUrls
           /\ Source.kind = "archive" <=> got["COMPONENT_ARCHIVE_URL"] # None
           /\ Source.kind = "archive" =>
                /\ Source.url = got["COMPONENT_ARCHIVE_URL"]
                /\ Source.hash = got["COMPONENT_ARCHIVE_HASH"]
<1>. DEFINE archive == got["COMPONENT_ARCHIVE_URL"]
            git == got["GIT_URL"]
            src == got["COMPONENT_SRC"]
            hash == got["COMPONENT_ARCHIVE_HASH"]
<1>1. \/ /\ archive # None /\ archive \in ValidUrls
         /\ Source = [kind |-> "archive", name |-> src, url |-> archive, hash |-> hash]
      \/ /\ archive = None /\ git # None /\ git \in ValidUrls
         /\ Source = [kind |-> "git", name |-> src, url |-> git]
  <2>1. CASE src = None
    BY <2>1 DEF Source
  <2>2. CASE src # None /\ archive # None /\ archive \in ValidUrls
    BY <2>2 DEF Source
  <2>3. CASE src # None /\ archive # None /\ archive \notin ValidUrls
    BY <2>3 DEF Source
  <2>4. CASE src # None /\ archive = None /\ git # None /\ git \in ValidUrls
    BY <2>4 DEF Source
  <2>5. CASE src # None /\ archive = None /\ (git = None \/ git \notin ValidUrls)
    BY <2>5 DEF Source
  <2>6. QED
    BY <2>1, <2>2, <2>3, <2>4, <2>5
<1>2. QED
  BY <1>1

(***************************************************************************)
(* The component and the lines printed above it agree, although they come  *)
(* from different lookups: a variable has one value, so that the first and *)
(* all of them stand for the same.                                         *)
(***************************************************************************)
THEOREM ReportAgrees == ShowSpec => []ComponentAsPrinted
<1>1. ShowInv => ComponentAsPrinted
  <2>. SUFFICES ASSUME ShowInv, exit = "ok" PROVE ComponentAsPrinted
    BY DEF ComponentAsPrinted
  <2>. USE DEF ShowInv
  <2>1. at = 18 /\ at > 7 /\ Done = 17
    BY DEF AtInv, Done
  <2>2. ASSUME NEW j \in 8..17
        PROVE  printed[Lookups[j]] = FirstText(variables, Lookups[j])
    BY <2>1, LookupFacts DEF PrintInv
  <2>3. ASSUME NEW j \in 1..6
        PROVE  got[Lookups[j]] = FirstText(variables, Lookups[j])
    BY <2>1, ComponentFacts
  <2>4. got["COMPONENT_VERSION"] = printed["COMPONENT_VERSION"]
    <3>1. got[Lookups[1]] = printed[Lookups[10]]
      BY <2>2, <2>3, LookupFacts
    <3>2. QED
      BY <3>1, LookupFacts
  <2>5. got["COMPONENT_ARCHIVE_URL"] = printed["COMPONENT_ARCHIVE_URL"]
    <3>1. got[Lookups[4]] = printed[Lookups[14]]
      BY <2>2, <2>3, LookupFacts
    <3>2. QED
      BY <3>1, LookupFacts
  <2>6. got["COMPONENT_ARCHIVE_HASH"] = printed["COMPONENT_ARCHIVE_HASH"]
    <3>1. got[Lookups[6]] = printed[Lookups[15]]
      BY <2>2, <2>3, LookupFacts
    <3>2. QED
      BY <3>1, LookupFacts
  <2>7. component.revision \in Integers32 \cup {Zero, None}
    BY <2>1, ComponentFacts DEF Revision
  <2>8. QED
    BY <2>1, <2>4, <2>5, <2>6, <2>7, ComponentFacts, SourceFacts
       DEF ComponentAsPrinted
<1>2. QED
  BY <1>1, ShowStarts, ShowNext, PTL DEF ShowSpec

(***************************************************************************)
(* find_newest_version, which sorts the versions repology lists and takes  *)
(* the last, finds the highest, for answers of any length: a sorting order *)
(* exists, and its last position holds an upper bound of the whole.        *)
(***************************************************************************)
THEOREM NewestCorrect == ShowSpec => []NewestIsHighest
<1>1. ShowInv => NewestIsHighest
  <2>. SUFFICES ASSUME ShowInv, latest # None
                PROVE  /\ \A j \in DOMAIN answer : answer[j] # Unparsable => answer[j] <= latest
                       /\ \E j \in DOMAIN answer : Parsed(answer[j]) = latest
    BY DEF NewestIsHighest
  <2>1. answer \in Answers /\ answer # <<>> /\ latest = Newest(answer)
    BY DEF ShowInv, NewestInv
  <2>2. DOMAIN answer = 1..Len(answer)
    BY <2>1, ShowComponentTypes
  <2>3. /\ \E j \in 1..Len(answer) : Parsed(answer[j]) = latest
        /\ \A j \in 1..Len(answer) : Parsed(answer[j]) <= latest
    BY <2>1, NewestFacts
  <2>4. \A j \in 1..Len(answer) : answer[j] # Unparsable => Parsed(answer[j]) = answer[j]
    BY DEF Parsed
  <2>5. QED
    BY <2>2, <2>3, <2>4
<1>2. QED
  BY <1>1, ShowStarts, ShowNext, PTL DEF ShowSpec
=============================================================================
