-------------------------- MODULE MakefileInclude --------------------------
(***************************************************************************)
(* Reading a component's makefile with everything it includes              *)
(* (userland/src/lib.rs): parse_single_file, the handlers behind           *)
(* parse_string, parse_all, parse_included_makefiles and merge.            *)
(*                                                                         *)
(* parse_included_makefiles changes the working directory of the process   *)
(* and resolves the include strings against it; parse_all calls itself for *)
(* every included makefile that has includes.  The recursion is an         *)
(* explicit stack here.                                                    *)
(***************************************************************************)
EXTENDS Naturals, Sequences

CONSTANTS
    Files,       \* makefiles, by their absolute paths
    Dirs,        \* directories
    Vars,        \* variable names
    Texts,       \* texts of values
    Includes,    \* the strings after `include`
    Root,        \* the makefile of the component
    RootDirs,    \* where set_current_dir(root path's parent) can lead
    DirOf,       \* the directory of a makefile
    Canon,       \* canonicalize(include) in a directory
    Trees,       \* what the makefiles can hold
    StackLimit,  \* bound: nested calls of parse_all the stack has room for
    None         \* no such file, no such directory, no name, no text

(***************************************************************************)
(* A line of a makefile as the grammar (makefile.pest) sees it.  `other`   *)
(* is all that no rule but target takes: targets, recipes, conditionals,   *)
(* continuation lines, `:=`, names with lower case letters.  `colon` says  *)
(* whether the line has a colon.  A comment in a last line without a       *)
(* newline is `other` too, since comment_string wants the newline.  Blank  *)
(* lines are left out; a file of nothing else, which the grammar takes for *)
(* a makefile without contents, is not among the Trees.                    *)
(***************************************************************************)
Kinds == {"set", "add", "define", "endef", "include", "comment", "other"}
Lines == [kind : Kinds, name : Vars \cup Includes \cup {None},
          text : Texts \cup {None}, colon : BOOLEAN]

(* MakefileVariable, and the variables of a makefile: None if not defined. *)
Variables  == [values : Seq(Seq(Texts \cup {None})), mode : {"Add", "Set"}]
VarMaps    == [Vars -> Variables \cup {None}]

ASSUME TreeTypes ==
    /\ StackLimit \in Nat \ {0}
    /\ Root \in Files
    /\ RootDirs \subseteq Dirs \cup {None}
    /\ None \notin Files \cup Dirs \cup Variables
    /\ DirOf \in [Files -> Dirs]
    /\ Canon \in [Dirs -> [Includes -> Files \cup {None}]]
    /\ \A t \in Trees :
         /\ t \in [Files -> Seq(Lines)]
         /\ \A f \in Files : \A i \in 1..Len(t[f]) :
              /\ t[f][i].kind \in {"set", "add", "define"}
                    => t[f][i].name \in Vars
              /\ t[f][i].kind = "include" => t[f][i].name \in Includes

VARIABLES
    tree,    \* the files on disk
    cwd,     \* working directory of the process
    cur,     \* the makefile parse_string is filling
    at,      \* its next line
    stack,   \* calls of parse_all
    result,  \* the makefile the outermost parse_all returned
    status

vars == <<tree, cwd, cur, at, stack, result, status>>

(* A parsed makefile: its path, where its directory is, and what it holds. *)
MakefileOf == [file : Files, dir : Dirs \cup {None}, variables : VarMaps,
               includes : Seq(Includes)]

(***************************************************************************)
(* A call of parse_all: the makefile it is called on, the next include to  *)
(* read (0 before the working directory is set), the makefiles read, the   *)
(* next of them to merge, and final_makefile.                              *)
(***************************************************************************)
Frames == [own : MakefileOf, n : Nat, kids : Seq(MakefileOf), m : Nat,
           final : VarMaps]

(* Every variable has its type; the process is in a directory. *)
TypeOK ==
    /\ tree \in [Files -> Seq(Lines)]
    /\ cwd \in Dirs
    /\ cur \in MakefileOf
    /\ at \in Nat \ {0}
    /\ stack \in Seq(Frames)
    /\ result \in VarMaps
    /\ status \in {"parse", "all", "done", "error", "overflow"}
-----------------------------------------------------------------------------

NoVars == [v \in Vars |-> None]

(* Makefile::merge of `other` into `base`. *)
Merge(base, other) ==
    [v \in Vars |->
        IF other[v] = None THEN base[v]
        ELSE IF other[v].mode = "Add" /\ base[v] # None
             THEN [values |-> base[v].values \o other[v].values,
                   mode   |-> other[v].mode]
             ELSE other[v]]

(* Makefile::default() with its path set by parse_single_file. *)
Fresh(f, d) == [file |-> f, dir |-> d, variables |-> NoVars, includes |-> <<>>]

Content == tree[cur.file]
Line    == Content[at]
Top     == stack[Len(stack)]

(* parse_all entered for a makefile. *)
NewCall(mk) == [own |-> mk, n |-> 0, kids |-> <<>>, m |-> 1, final |-> NoVars]

Init ==
    /\ tree \in Trees
    /\ cwd \in Dirs
    /\ \E d \in RootDirs : cur = Fresh(Root, d)
    /\ at = 1
    /\ stack = <<>>
    /\ result = NoVars
    /\ status = "parse"
-----------------------------------------------------------------------------
(* parse_string: one action per handler of parse_makefile. *)

(***************************************************************************)
(* The mode parse_variable ends up with.  variable_set and variable_add    *)
(* are silent rules of the grammar: they produce no pair, so neither arm   *)
(* that assigns the mode is ever taken and the default, Set, stays.        *)
(***************************************************************************)
PairMode(l) == "Set"

(* Mutant: an empty right-hand side gives no value. *)
ParsedVariableEmpty(vs, l) ==
    [values |-> IF l.text = None THEN <<>> ELSE <<<<l.text>>>>, mode |-> "Set"]

ParsedVariable(vs, l) ==
    IF PairMode(l) = "Add" /\ vs[l.name] # None
      THEN [vs[l.name] EXCEPT !.values = Append(@, <<l.text>>)]
      ELSE [values |-> <<<<l.text>>>>, mode |-> PairMode(l)]

ParseVariable ==
    /\ status = "parse"
    /\ at <= Len(Content)
    /\ Line.kind \in {"set", "add"}
    /\ cur' = [cur EXCEPT !.variables[Line.name] =
                             ParsedVariable(cur.variables, Line)]
    /\ at' = at + 1
    /\ UNCHANGED <<tree, cwd, stack, result, status>>

(* Mutant: an empty define is closed by the line after it. *)
EndefsNext == {j \in at+1..Len(Content) : Content[j].kind = "endef"}

(* The lines that can close a define at `at`: it takes one line at least. *)
Endefs == {j \in at+2..Len(Content) : Content[j].kind = "endef"}

ParseDefine ==
    /\ status = "parse"
    /\ at <= Len(Content)
    /\ Line.kind = "define"
    /\ \E j \in Endefs :
        /\ \A h \in Endefs : j <= h
        /\ cur' = [cur EXCEPT !.variables[Line.name] =
                     [values |-> <<[i \in 1..j-at-1 |-> Content[at+i].text]>>,
                      mode   |-> "Set"]]
        /\ at' = j + 1
    /\ UNCHANGED <<tree, cwd, stack, result, status>>

ParseInclude ==
    /\ status = "parse"
    /\ at <= Len(Content)
    /\ Line.kind = "include"
    /\ cur' = [cur EXCEPT !.includes = Append(@, Line.name)]
    /\ at' = at + 1
    /\ UNCHANGED <<tree, cwd, stack, result, status>>

(* Mutant: the comment is not consumed. *)
SkipCommentStuck ==
    /\ status = "parse"
    /\ at <= Len(Content)
    /\ Line.kind = "comment"
    /\ UNCHANGED vars

SkipComment ==
    /\ status = "parse"
    /\ at <= Len(Content)
    /\ Line.kind = "comment"
    /\ at' = at + 1
    /\ UNCHANGED <<tree, cwd, cur, stack, result, status>>

(***************************************************************************)
(* A line that only the rule `target` can take: other text, an `endef` by  *)
(* itself, a `define` that is never closed.                                *)
(***************************************************************************)
AtTarget ==
    /\ status = "parse"
    /\ at <= Len(Content)
    /\ \/ Line.kind \in {"other", "endef"}
       \/ Line.kind = "define" /\ Endefs = {}

Colons == {j \in at..Len(Content) : Content[j].colon}

(***************************************************************************)
(* target_name runs on to the next colon, over any number of lines: what   *)
(* they define or include is lost.                                         *)
(***************************************************************************)
ParseTarget ==
    /\ AtTarget
    /\ \E j \in Colons : /\ \A h \in Colons : j <= h
                         /\ at' = j + 1
    /\ UNCHANGED <<tree, cwd, cur, stack, result, status>>

(* No rule matches, or the file is empty: parse_single_file fails. *)
ParseFails ==
    /\ \/ AtTarget /\ Colons = {}
       \/ status = "parse" /\ Content = <<>>
    /\ status' = "error"
    /\ UNCHANGED <<tree, cwd, cur, at, stack, result>>

AtEnd ==
    /\ status = "parse"
    /\ Content # <<>>
    /\ at > Len(Content)

(* parse_single_file returns the component's makefile; parse_all starts. *)
RootParsed ==
    /\ AtEnd
    /\ stack = <<>>
    /\ stack' = <<NewCall(cur)>>
    /\ status' = "all"
    /\ UNCHANGED <<tree, cwd, cur, at, result>>

(* parse_single_file returns to parse_included_makefiles. *)
IncludeParsed ==
    /\ AtEnd
    /\ stack # <<>>
    /\ stack' = [stack EXCEPT ![Len(stack)].kids = Append(@, cur)]
    /\ status' = "all"
    /\ UNCHANGED <<tree, cwd, cur, at, result>>
-----------------------------------------------------------------------------
(* parse_all and parse_included_makefiles. *)

(* Mutant: whether there is such a directory is not looked at. *)
ChangeDirUnchecked ==
    /\ status = "all"
    /\ Top.n = 0
    /\ Top.own.includes # <<>>
    /\ cwd' = Top.own.dir
    /\ stack' = [stack EXCEPT ![Len(stack)].n = 1]
    /\ UNCHANGED <<tree, cur, at, result, status>>

(* Mutant: only the outermost call changes the directory. *)
ChangeDirOnce ==
    /\ status = "all"
    /\ Top.n = 0
    /\ Top.own.includes # <<>>
    /\ Top.own.dir # None
    /\ cwd' = IF Len(stack) = 1 THEN Top.own.dir ELSE cwd
    /\ stack' = [stack EXCEPT ![Len(stack)].n = 1]
    /\ UNCHANGED <<tree, cur, at, result, status>>

(* The working directory becomes that of the including makefile. *)
ChangeDir ==
    /\ status = "all"
    /\ Top.n = 0
    /\ Top.own.includes # <<>>
    /\ Top.own.dir # None
    /\ cwd' = Top.own.dir
    /\ stack' = [stack EXCEPT ![Len(stack)].n = 1]
    /\ UNCHANGED <<tree, cur, at, result, status>>

(* set_current_dir fails: the parent of a bare file name is "". *)
ChangeDirFails ==
    /\ status = "all"
    /\ Top.n = 0
    /\ Top.own.includes # <<>>
    /\ Top.own.dir = None
    /\ status' = "error"
    /\ UNCHANGED <<tree, cwd, cur, at, stack, result>>

(* The component's makefile includes nothing. *)
NothingToInclude ==
    /\ status = "all"
    /\ Top.n = 0
    /\ Top.own.includes = <<>>
    /\ stack' = [stack EXCEPT ![Len(stack)].n = 1]
    /\ UNCHANGED <<tree, cwd, cur, at, result, status>>

AtInclude == status = "all" /\ Top.n \in 1..Len(Top.own.includes)
Included  == Canon[cwd][Top.own.includes[Top.n]]

(* canonicalize finds the next include: parse_single_file starts on it. *)
OpenInclude ==
    /\ AtInclude
    /\ Included # None
    /\ cur' = Fresh(Included, DirOf[Included])
    /\ at' = 1
    /\ stack' = [stack EXCEPT ![Len(stack)].n = @ + 1]
    /\ status' = "parse"
    /\ UNCHANGED <<tree, cwd, result>>

(* ParserError::IncludeNotFound. *)
IncludeNotFound ==
    /\ AtInclude
    /\ Included = None
    /\ status' = "error"
    /\ UNCHANGED <<tree, cwd, cur, at, stack, result>>

AtKid == /\ status = "all"
         /\ Top.n > Len(Top.own.includes)
         /\ Top.m <= Len(Top.kids)
Kid   == Top.kids[Top.m]

(* An included makefile without includes is merged as it is. *)
MergeLeaf ==
    /\ AtKid
    /\ Kid.includes = <<>>
    /\ stack' = [stack EXCEPT ![Len(stack)].final = Merge(@, Kid.variables),
                              ![Len(stack)].m = @ + 1]
    /\ UNCHANGED <<tree, cwd, cur, at, result, status>>

(* Mutant: parse_all calls itself for the makefile it is called on. *)
RecurseSelf ==
    /\ AtKid
    /\ Kid.includes # <<>>
    /\ Len(stack) < StackLimit
    /\ stack' = Append(stack, NewCall(Top.own))
    /\ UNCHANGED <<tree, cwd, cur, at, result, status>>

(* One with includes: parse_all calls itself. *)
Recurse ==
    /\ AtKid
    /\ Kid.includes # <<>>
    /\ Len(stack) < StackLimit
    /\ stack' = Append(stack, NewCall(Kid))
    /\ UNCHANGED <<tree, cwd, cur, at, result, status>>

(* The same with the stack used up: the process is aborted. *)
Overflow ==
    /\ AtKid
    /\ Kid.includes # <<>>
    /\ Len(stack) = StackLimit
    /\ status' = "overflow"
    /\ UNCHANGED <<tree, cwd, cur, at, stack, result>>

AtReturn ==
    /\ status = "all"
    /\ Top.n > Len(Top.own.includes)
    /\ Top.m > Len(Top.kids)

(* Mutant: it merges its own makefile first. *)
ReturnedFirst == Merge(Top.own.variables, Top.final)

(* parse_all merges its own makefile last. *)
Returned == Merge(Top.final, Top.own.variables)

(* It returns to the parse_all that called it, which merges the result. *)
ReturnAll ==
    /\ AtReturn
    /\ Len(stack) > 1
    /\ LET n == Len(stack) - 1 IN
       stack' = [SubSeq(stack, 1, n) EXCEPT ![n].final = Merge(@, Returned),
                                            ![n].m = @ + 1]
    /\ UNCHANGED <<tree, cwd, cur, at, result, status>>

(* The outermost parse_all returns. *)
Return ==
    /\ AtReturn
    /\ Len(stack) = 1
    /\ result' = Returned
    /\ status' = "done"
    /\ UNCHANGED <<tree, cwd, cur, at, stack>>

Next ==
    \/ ParseVariable
    \/ ParseDefine
    \/ ParseInclude
    \/ SkipComment
    \/ ParseTarget
    \/ ParseFails
    \/ RootParsed
    \/ IncludeParsed
    \/ ChangeDir
    \/ ChangeDirFails
    \/ NothingToInclude
    \/ OpenInclude
    \/ IncludeNotFound
    \/ MergeLeaf
    \/ Recurse
    \/ Overflow
    \/ ReturnAll
    \/ Return

(* Sequential code: a step that can be taken is taken. *)
Spec == Init /\ [][Next]_vars /\ WF_vars(Next)
-----------------------------------------------------------------------------
(* Properties *)

(***************************************************************************)
(* An include is looked up next to the makefile that names it, although    *)
(* the working directory is one for the whole process and every nested     *)
(* parse_all moves it: parse_included_makefiles reads all includes of one  *)
(* makefile before any of them is descended into.                          *)
(***************************************************************************)
IncludesOfOwnDir ==
    \A s \in 1..Len(stack) : \A i \in 1..Len(stack[s].kids) :
        /\ stack[s].own.dir # None
        /\ stack[s].kids[i].file =
              Canon[stack[s].own.dir][stack[s].own.includes[i]]

(* Every include goes from a higher rank to a lower one: no cycle. *)
Ranked(rank) ==
    \A f \in Files, d \in Dirs : d = DirOf[f] \/ f = Root =>
        \A i \in 1..Len(tree[f]) :
            LET l == tree[f][i] IN
            l.kind = "include" /\ Canon[d][l.name] # None =>
                rank[Canon[d][l.name]] < rank[f]

(***************************************************************************)
(* parse_all has no guard against a makefile that includes itself,         *)
(* directly or through others.  That is the only way to run out of stack.  *)
(***************************************************************************)
OverflowOnlyOnIncludeCycle ==
    status = "overflow" =>
        ~ \E rank \in [Files -> 0..StackLimit-1] : Ranked(rank)

(* The first and the last of a set of lines. *)
FirstOf(S) == CHOOSE i \in S : \A j \in S : i <= j
LastOf(S)  == CHOOSE i \in S : \A j \in S : j <= i

(* The lines that can close a define at line i of ls. *)
Closing(ls, i) == {j \in i+2..Len(ls) : ls[j].kind = "endef"}

(* Line i of ls defines a variable. *)
Defines(ls, i) ==
    \/ ls[i].kind \in {"set", "add"}
    \/ ls[i].kind = "define" /\ Closing(ls, i) # {}

(* The last line of what starts at line i of ls. *)
EndOf(ls, i) ==
    IF ls[i].kind \in {"set", "add", "include", "comment"} THEN i
    ELSE IF Defines(ls, i) THEN FirstOf(Closing(ls, i))
    ELSE FirstOf({j \in i..Len(ls) : ls[j].colon \/ j = Len(ls)})

(* The lines at which something starts: the first, and after every end. *)
Starts(ls) ==
    {i \in 1..Len(ls) :
        \A S \in SUBSET (1..Len(ls)) :
            /\ 1 \in S
            /\ \A j \in S : EndOf(ls, j) # Len(ls) => EndOf(ls, j) + 1 \in S
            => i \in S}

(* The variable that is defined at line i. *)
Defined(ls, i) ==
    [values |-> <<IF ls[i].kind = "define"
                    THEN [h \in 1..EndOf(ls, i)-i-1 |-> ls[i+h].text]
                    ELSE <<ls[i].text>>>>,
     mode   |-> "Set"]

(* What the makefile f gives, in directory d, when the others give e. *)
Given(t, e, f, d) ==
    LET ls     == t[f]
        own(v) == {i \in Starts(ls) : Defines(ls, i) /\ ls[i].name = v}
        inc(v) == {i \in Starts(ls) : /\ ls[i].kind = "include"
                                      /\ Canon[d][ls[i].name] # None
                                      /\ e[Canon[d][ls[i].name]][v] # None}
    IN  [v \in Vars |->
            IF own(v) # {} THEN Defined(ls, LastOf(own(v)))
            ELSE IF inc(v) # {} THEN e[Canon[d][ls[LastOf(inc(v))].name]][v]
            ELSE None]

(* What the makefiles give, includes followed n levels deep. *)
Definitions(t, n) ==
    LET e[k \in 0..n] ==
          IF k = 0 THEN [f \in Files |-> NoVars]
          ELSE [f \in Files |-> Given(t, e[k-1], f, DirOf[f])]
    IN  e[n]

(***************************************************************************)
(* parse_all gives a variable the value of its last definition: what a     *)
(* makefile defines itself wins over its includes wherever they stand, a   *)
(* later include over an earlier one, and so on in each of them.  Nothing  *)
(* is cut off: a level more makes no difference.                           *)
(***************************************************************************)
LastDefinitionWins ==
    status = "done" =>
        \A n \in StackLimit..StackLimit+1 :
            result = Given(tree, Definitions(tree, n), Root, stack[1].own.dir)

(***************************************************************************)
(* Every variable has one value, however often it is defined or added to   *)
(* and however it is merged: first().unwrap() of                           *)
(* get_first_value_of_variable_by_name never panics, and the first value   *)
(* is all there is.                                                        *)
(***************************************************************************)
HasOneValue ==
    status = "done" =>
        \A v \in Vars : result[v] # None => Len(result[v].values) = 1

(***************************************************************************)
(* Reading a makefile ends, whatever the makefiles hold.                   *)
(***************************************************************************)
ReadingEnds == <>(status \in {"done", "error", "overflow"})

(***************************************************************************)
(* What parse_variable has an arm for: `+=` adds a value to a variable     *)
(* that has some, and keeps those.                                         *)
(***************************************************************************)
AddAppends ==
    [][ /\ status = "parse" /\ at' = at + 1 /\ Line.kind = "add"
        /\ cur.variables[Line.name] # None
        => cur'.variables[Line.name].values =
             Append(cur.variables[Line.name].values, <<Line.text>>) ]_vars
=============================================================================
