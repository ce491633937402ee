------------------------- MODULE MCMakefileInclude -------------------------
(***************************************************************************)
(* Instances of MakefileInclude for TLC.                                   *)
(***************************************************************************)
EXTENDS MakefileInclude, FiniteSets, TLC

CONSTANTS root, mk, sub, d1, d2, i1, i2, x, y, t1, t2

(* A text per file, so that a value tells where it comes from. *)
TextOf == root :> root @@ mk :> mk @@ sub :> sub

Set(v, t)   == [kind |-> "set", name |-> v, text |-> t, colon |-> FALSE]
Add(v, t)   == [kind |-> "add", name |-> v, text |-> t, colon |-> FALSE]
Url(v, t)   == [kind |-> "set", name |-> v, text |-> t, colon |-> TRUE]
Incl(i)     == [kind |-> "include", name |-> i, text |-> None, colon |-> FALSE]
Define(v)   == [kind |-> "define", name |-> v, text |-> None, colon |-> FALSE]
Plain(k, c) == [kind |-> k, name |-> None, text |-> None, colon |-> c]

UpTo(n, S) == UNION {[1..k -> S] : k \in 0..n}

(***************************************************************************)
(* Three makefiles in two directories.  The same string names another file *)
(* in another directory: i1 is mk seen from d1 and sub seen from d2; i2 is *)
(* sub seen from d1 and missing in d2.                                     *)
(***************************************************************************)
InDir  == root :> d1 @@ mk :> d2 @@ sub :> d1
Lookup == d1 :> (i1 :> mk @@ i2 :> sub) @@ d2 :> (i1 :> sub @@ i2 :> None)

IncludeMenu(f) == {Set(x, TextOf[f]), Add(y, TextOf[f]), Incl(i1), Incl(i2)}

(* Up to three lines in the component's makefile, two in the others; y is *)
(* defined by two of them, x by all three.                                 *)
IncludeTrees ==
    {root :> r @@ mk :> m @@ sub :> s :
        r \in UpTo(3, IncludeMenu(root)), m \in UpTo(2, IncludeMenu(mk)),
        s \in UpTo(2, IncludeMenu(sub) \ {Add(y, sub)})}

(* Every makefile of up to four lines of every kind, including one that is  *)
(* always the same.                                                        *)
LineMenu == {Set(x, t1), Url(x, t2), Add(x, None), Incl(i1), Define(y),
             Plain("endef", FALSE), Plain("comment", TRUE),
             Plain("other", FALSE), Plain("other", TRUE)}
LineTrees ==
    {root :> r @@ mk :> <<Url(x, t1), Set(y, t2)>> @@ sub :> <<>> :
        r \in UpTo(4, LineMenu)}

AllTrees == IncludeTrees \cup LineTrees
=============================================================================
