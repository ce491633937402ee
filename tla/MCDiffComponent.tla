-------------------------- MODULE MCDiffComponent --------------------------
(***************************************************************************)
(* Instances of DiffComponent for TLC.                                     *)
(***************************************************************************)
EXTENDS DiffComponent

A(path)       == [path |-> path, orig |-> None]
B(path, orig) == [path |-> path, orig |-> orig]
Args(r, o)    == [replacements |-> r, output |-> o]
Pair(from, to) == [from |-> from, to |-> to]

(* A path, another one, one with a blank, one with a version in it. *)
X == <<"x">>
Y == <<"y">>
S == <<"s p">>
V == <<"lib", "$(VER)">>
W == <<"lib", "1">>

PathSet == {X, Y, S, V, W, <<"lib">>}
CutShort == <<"li">>
Kept    == {Y}

(* Directories and edits without references: the manifest of the component *)
(* and perhaps an output manifest of an earlier command.                   *)
Listings == {Malformed, <<>>, <<A(X)>>, <<A(X), B(X, Y)>>, <<A(S), A(X)>>}

PlainDisks ==
    {[f \in Files |-> CASE f = Sample -> s
                        [] f = "out.p5m" -> o
                        [] f = "main.p5m" -> m
                        [] OTHER -> NotThere] :
        s \in Listings \cup {<<A(X), A(W)>>},
        m \in Listings,
        o \in {NotThere, Malformed, <<A(X)>>}}
PlainEdits == {NotThere, <<A(Y)>>}
PlainArgs  == {Args(None, o) : o \in {None, "out.p5m", "main.p5m", Outside}}

(* The version in the sample manifest, in a manifest, or replaced in both. *)
VersionDisks ==
    {[f \in Files |-> CASE f = Sample -> s
                        [] f = "main.p5m" -> m
                        [] OTHER -> NotThere] :
        s \in {<<A(V)>>, <<A(W), A(X)>>, <<B(X, V), A(Y)>>},
        m \in {<<A(V)>>, <<A(W)>>, <<B(X, V)>>, <<B(Y, W), B(X, Y)>>}}
Rs == {Pair("$(VER)", <<"1">>), Pair("$(VER)", <<"$(MINOR)">>),
       Pair("$(MINOR)", <<"1">>), Pair("$()", X), None}
Replace == {None} \cup [1..1 -> Rs] \cup [1..2 -> Rs] \cup [1..3 -> Rs]
VersionArgs == {Args(r, o) : r \in Replace, o \in {None, Outside}}

(* Several commands and edits; one command with replacements. *)
PlainOrReplace(a, b) == [s \in Scenarios |-> IF s = "plain" THEN a ELSE b]
MCDisks     == PlainOrReplace(PlainDisks, VersionDisks)
MCArguments == PlainOrReplace(PlainArgs, VersionArgs)
MCEdits     == PlainOrReplace(PlainEdits, {})
ThreeOrOne  == PlainOrReplace(3, 1)
=============================================================================
