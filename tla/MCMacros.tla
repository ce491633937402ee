------------------------------ MODULE MCMacros ------------------------------
(***************************************************************************)
(* Instances of Macros for TLC.                                            *)
(***************************************************************************)
EXTENDS Macros

Bad       == [kind |-> "bad"]
Optional  == [kind |-> "optional"]
Function  == [kind |-> "function"]
Word(w)   == [kind |-> "word", word |-> w]
Macro(nm) == [kind |-> "macro", name |-> nm]

(* Every line of up to five tokens. *)
LongLines ==
    {l \in SeqOf({Blank, Blanks, Word("w"), Macro("source_dir"), Macro("proto_dir")}, 5) :
        IsLine(l)}

(* Every line of up to two tokens of every sort. *)
ShortLines ==
    {l \in SeqOf({Bad, Optional, Function, Blank, Blanks, Word("w"), Word("x"),
                  Macro("proto_dir"), Macro("buildroot")}, 2) : IsLine(l)}

(* One long line, or two short ones. *)
AllScripts ==
    {<<>>} \cup {<<l>> : l \in LongLines} \cup {<<k, l>> : k, l \in ShortLines}
=============================================================================
