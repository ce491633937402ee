---------------------------- MODULE MakefileGet ----------------------------
(***************************************************************************)
(* Looking a variable up in a parsed makefile (userland/src/lib.rs):       *)
(* Makefile::get and get_first_value_of_variable_by_name, with the         *)
(* recursion through resolve_nested_variables as an explicit call stack.   *)
(*                                                                         *)
(* A value is a text, a sequence of tokens: a token of Vars stands for the *)
(* match `$(NAME)` of the regular expression, a token of Texts for the     *)
(* text between two matches.  Texts themselves hold no part of a match, so *)
(* replacing a match never forms a new one across its borders.             *)
(***************************************************************************)
EXTENDS Naturals, Sequences, SequencesExt

CONSTANTS
    Vars,        \* variable names
    Texts,       \* pieces of literal text
    NewLine,     \* the separator of vars_to_string, one of Texts
    Makefiles,   \* Makefile.variables of the makefiles looked at
    StackLimit,  \* bound: nested calls of get the thread's stack has room for
    None         \* Option::None

Tokens == Vars \cup Texts

(***************************************************************************)
(* A makefile maps the names it defines to their values.  There is always  *)
(* at least one: parse_variable and parse_define push one, merge removes   *)
(* none (HasOneValue in MakefileInclude).                                  *)
(***************************************************************************)
ASSUME MakefileTypes ==
    /\ StackLimit \in Nat \ {0}
    /\ NewLine \in Texts \ Vars
    /\ None \notin Vars \cup Seq(Tokens)
    /\ \A m \in Makefiles :
         /\ DOMAIN m \subseteq Vars
         /\ \A v \in DOMAIN m : m[v] \in Seq(Seq(Tokens)) /\ m[v] # <<>>

Ops == {"get", "get_first"}

VARIABLES
    variables,  \* Makefile.variables
    op,         \* the operation called
    asked,      \* its argument, None before the first call
    stack,      \* one frame per call of resolve_nested_variables in progress
    copies,     \* vars_copy of each of these calls
    result,     \* what the operation returned, None included
    status      \* idle, running, or overflow: the process is gone

vars == <<variables, op, asked, stack, copies, result, status>>

(***************************************************************************)
(* `i` is the position of the loop over var.values, `c` that of the regular *)
(* expression in the value: it looks at the original, not at the copy.     *)
(***************************************************************************)
Frames == [var : Vars, i : Nat \ {0}, c : Nat \ {0}]

(* Every variable has its type, and every call its copy of the values. *)
TypeOK ==
    /\ variables \in Makefiles
    /\ op \in Ops
    /\ asked \in Vars \cup {None}
    /\ stack \in Seq(Frames)
    /\ copies \in Seq(Seq(Seq(Tokens)))
    /\ Len(copies) = Len(stack)
    /\ result \in Seq(Tokens) \cup {None}
    /\ status \in {"idle", "running", "overflow"}
-----------------------------------------------------------------------------

(* Mutant: the values are joined with nothing between them. *)
VarsToStringRunOn(vals) ==
    LET join[n \in 1..Len(vals)] ==
            IF n = 1 THEN vals[n] ELSE join[n-1] \o vals[n]
    IN  IF vals = <<>> THEN <<>> ELSE join[Len(vals)]

(* vars_to_string: the values, joined with a newline. *)
VarsToString(vals) ==
    LET join[n \in 1..Len(vals)] ==
            IF n = 1 THEN vals[n] ELSE join[n-1] \o <<NewLine>> \o vals[n]
    IN  IF vals = <<>> THEN <<>> ELSE join[Len(vals)]

(* Mutants: the loop starts before the first value; it looks for matches   *)
(* after the first token only.                                             *)
NewFrameFromZero(v)   == [var |-> v, i |-> 0, c |-> 1]
NewFrameFromSecond(v) == [var |-> v, i |-> 1, c |-> 2]

(* resolve_nested_variables entered for v: nothing is replaced yet. *)
NewFrame(v) == [var |-> v, i |-> 1, c |-> 1]

Top        == stack[Len(stack)]
OrigValues == variables[Top.var]
Token      == OrigValues[Top.i][Top.c]

Init ==
    /\ variables \in Makefiles
    /\ op = "get"
    /\ asked = None
    /\ stack = <<>>
    /\ copies = <<>>
    /\ result = None
    /\ status = "idle"

(* The operation is called for a variable that is defined. *)
Call(o, v) ==
    /\ status = "idle"
    /\ v \in DOMAIN variables
    /\ op' = o
    /\ asked' = v
    /\ stack' = <<NewFrame(v)>>
    /\ copies' = <<variables[v]>>
    /\ result' = None
    /\ status' = "running"
    /\ UNCHANGED variables

(* The operation is called for a variable that is not: None at once. *)
CallUndefined(o, v) ==
    /\ status = "idle"
    /\ v \notin DOMAIN variables
    /\ op' = o
    /\ asked' = v
    /\ result' = None
    /\ UNCHANGED <<variables, stack, copies, status>>

AtToken ==
    /\ status = "running"
    /\ Top.i <= Len(OrigValues)
    /\ Top.c <= Len(OrigValues[Top.i])

(* Mutant: the variable that holds the match is looked up once more. *)
EnterNestedSelf ==
    /\ AtToken
    /\ Token \in DOMAIN variables
    /\ Len(stack) < StackLimit
    /\ stack' = Append(stack, NewFrame(Top.var))
    /\ copies' = Append(copies, OrigValues)
    /\ UNCHANGED <<variables, op, asked, result, status>>

(* A match that names a defined variable: get calls itself. *)
EnterNested ==
    /\ AtToken
    /\ Token \in DOMAIN variables
    /\ Len(stack) < StackLimit
    /\ stack' = Append(stack, NewFrame(Token))
    /\ copies' = Append(copies, variables[Token])
    /\ UNCHANGED <<variables, op, asked, result, status>>

(* The same with the stack used up: the process is aborted. *)
Overflow ==
    /\ AtToken
    /\ Token \in DOMAIN variables
    /\ Len(stack) = StackLimit
    /\ status' = "overflow"
    /\ UNCHANGED <<variables, op, asked, stack, copies, result>>

(* Text, or a match that names no defined variable, stays as it is. *)
PassOver ==
    /\ AtToken
    /\ Token \notin DOMAIN variables
    /\ stack' = [stack EXCEPT ![Len(stack)].c = @ + 1]
    /\ UNCHANGED <<variables, op, asked, copies, result, status>>

(* Mutant: the same value again. *)
NextValueAgain ==
    /\ status = "running"
    /\ Top.i <= Len(OrigValues)
    /\ Top.c > Len(OrigValues[Top.i])
    /\ stack' = [stack EXCEPT ![Len(stack)].c = 1]
    /\ UNCHANGED <<variables, op, asked, copies, result, status>>

(* The value is done: on to the next one. *)
NextValue ==
    /\ status = "running"
    /\ Top.i <= Len(OrigValues)
    /\ Top.c > Len(OrigValues[Top.i])
    /\ stack' = [stack EXCEPT ![Len(stack)] =
                    [var |-> @.var, i |-> @.i + 1, c |-> 1]]
    /\ UNCHANGED <<variables, op, asked, copies, result, status>>

(***************************************************************************)
(* A nested get returns to the call that wanted it, which replaces the     *)
(* first match of that name in its copy (replacen with count 1) and goes   *)
(* on after the match it found in the original.                            *)
(***************************************************************************)
ReturnNested ==
    /\ status = "running"
    /\ Top.i > Len(OrigValues)
    /\ Len(stack) > 1
    /\ LET n    == Len(stack) - 1
           text == VarsToString(copies[n + 1])
       IN  /\ stack' = [SubSeq(stack, 1, n) EXCEPT ![n].c = @ + 1]
           /\ copies' = [SubSeq(copies, 1, n) EXCEPT ![n][stack[n].i] =
                            ReplaceFirstSubSeq(text, <<Top.var>>, @)]
    /\ UNCHANGED <<variables, op, asked, result, status>>

(* The outermost call returns to its caller. *)
Return ==
    /\ status = "running"
    /\ Top.i > Len(OrigValues)
    /\ Len(stack) = 1
    /\ result' = IF op = "get" THEN VarsToString(copies[1]) ELSE copies[1][1]
    /\ stack' = <<>>
    /\ copies' = <<>>
    /\ status' = "idle"
    /\ UNCHANGED <<variables, op, asked>>

Step == EnterNested \/ Overflow \/ PassOver \/ NextValue \/ ReturnNested
        \/ Return

Next == Step \/ \E o \in Ops, v \in Vars : Call(o, v) \/ CallUndefined(o, v)

(* A call that runs keeps running: it waits for nothing. *)
Spec == Init /\ [][Next]_vars /\ WF_vars(Step)
-----------------------------------------------------------------------------
(* Properties *)

(***************************************************************************)
(* What get returns holds no reference to a variable that is defined:      *)
(* replacing the first match in the copy, while the matches are taken from *)
(* the original, leaves none behind and hits none that came in with a      *)
(* replacement.                                                            *)
(***************************************************************************)
Resolved ==
    result # None =>
        \A j \in 1..Len(result) : result[j] \notin DOMAIN variables

(* m refers only from higher ranks to lower ones: it has no cycle. *)
Ranked(m, rank) ==
    \A v \in DOMAIN m : \A i \in 1..Len(m[v]) : \A j \in 1..Len(m[v][i]) :
        m[v][i][j] \in DOMAIN m => rank[m[v][i][j]] < rank[v]

(***************************************************************************)
(* get has no guard against a variable that refers to itself, directly or  *)
(* through others.  That is the only way to run out of stack: variables    *)
(* that can be ranked below StackLimit never do.                           *)
(***************************************************************************)
OverflowOnlyOnCycle ==
    status = "overflow" =>
        ~ \E rank \in [Vars -> 0..StackLimit-1] : Ranked(variables, rank)

(* vals put together, with a newline before each but the first. *)
Lines(vals) ==
    FlattenSeq([i \in 1..Len(vals) |->
                  IF i = 1 THEN vals[i] ELSE <<NewLine>> \o vals[i]])

(* The text with x in place of the variables that m defines. *)
Substituted(m, x, text) ==
    FlattenSeq([j \in 1..Len(text) |->
                  IF text[j] \in DOMAIN m THEN x[text[j]] ELSE <<text[j]>>])

(* What v stands for when its references stand for x. *)
Replaced(m, x, v) == Lines([i \in 1..Len(m[v]) |-> Substituted(m, x, m[v][i])])

(* What the variables of m stand for, references followed n levels deep. *)
Expansion(m, n) ==
    LET e[k \in 0..n] == IF k = 0 THEN [v \in DOMAIN m |-> <<>>]
                         ELSE [v \in DOMAIN m |-> Replaced(m, e[k-1], v)]
    IN  e[n]

(* v refers to variables of S only. *)
RefersTo(m, v, S) ==
    \A i \in 1..Len(m[v]) : \A j \in 1..Len(m[v][i]) :
        m[v][i][j] \in DOMAIN m => m[v][i][j] \in S

(* The variables of m whose references end within n levels. *)
Ending(m, n) ==
    LET d[k \in 0..n] == IF k = 0 THEN {}
                         ELSE {v \in DOMAIN m : RefersTo(m, v, d[k-1])}
    IN  d[n]

(***************************************************************************)
(* What get and get_first_value_of_variable_by_name return is the          *)
(* expansion of the variable, of its first value: every reference replaced *)
(* in place and in order, values on lines of their own, as deep as the     *)
(* references go.  A lookup exhausts the stack only where they go on.      *)
(***************************************************************************)
MatchesExpansion ==
    /\ status = "idle" /\ asked # None =>
         IF asked \notin DOMAIN variables THEN result = None
         ELSE /\ asked \in Ending(variables, StackLimit)
              /\ op = "get" => result = Expansion(variables, StackLimit)[asked]
              /\ op = "get_first" =>
                   result = Substituted(variables,
                                        Expansion(variables, StackLimit - 1),
                                        variables[asked][1])
    /\ status = "overflow" => asked \notin Ending(variables, StackLimit)

(***************************************************************************)
(* Every lookup ends, by returning or by exhausting the stack: no chain of *)
(* references, cyclic or not, keeps resolve_nested_variables busy forever. *)
(***************************************************************************)
LookupEnds == status = "running" ~> status # "running"
=============================================================================
