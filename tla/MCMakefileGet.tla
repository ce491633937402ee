--------------------------- MODULE MCMakefileGet ---------------------------
(***************************************************************************)
(* Instances of MakefileGet for TLC.                                       *)
(***************************************************************************)
EXTENDS MakefileGet

CONSTANTS a, b, c, lit

Short == {<<>>} \cup {<<t>> : t \in Vars \cup {lit}}
         \cup {<<t, u>> : t, u \in Vars \cup {lit}}

(* Every makefile with one value of at most two tokens per variable.       *)
OneValue == UNION {[D -> {<<t>> : t \in Short}] : D \in SUBSET Vars}

(* Makefiles that put several values together, as merge does for Add; the  *)
(* three texts with repeated references are for replacen.                  *)
ManyValues ==
    LET texts == {<<lit>>, <<b>>, <<b, b>>, <<c, b, c>>, <<b, lit, b>>}
        two   == {<<t, u>> : t, u \in texts} \cup {<<t>> : t \in texts}
    IN  UNION {[D -> two] : D \in {{a, b}, {a, c}}}

AllMakefiles == OneValue \cup ManyValues
=============================================================================
