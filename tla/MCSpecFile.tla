----------------------------- MODULE MCSpecFile -----------------------------
(***************************************************************************)
(* Instances of SpecFile for TLC.                                          *)
(***************************************************************************)
EXTENDS SpecFile

Blank   == [kind |-> "blank"]
Bad     == [kind |-> "bad"]
Build   == [kind |-> "header", name |-> "build"]
List    == [kind |-> "header", name |-> "files"]
Unknown == [kind |-> "header", name |-> "post"]
Nothing == [kind |-> "empty", name |-> "Name"]
Name(t)   == [kind |-> "variable", name |-> "Name", text |-> t]
Vendor(t) == [kind |-> "variable", name |-> "Vendor", text |-> t]
Remark  == [kind |-> "comment", text |-> "phrase"]
Plain(t)  == [kind |-> "text", text |-> t]

(* Every file of up to four lines of every sort. *)
ShortFiles ==
    SeqOf({Blank, Bad, Build, List, Unknown, Nothing, Name("word"),
           Vendor("word"), Remark, Plain("word"), Plain("phrase")}, 4)

(* Longer files: what follows what, and which of two settings is taken. *)
LongFiles ==
    SeqOf({Blank, Build, Remark, Name("word"), Plain("phrase")}, 6)
    \cup SeqOf({Blank, Name("word"), Name("phrase"), Vendor("word"),
                Vendor("phrase"), List}, 5)

AllFiles == ShortFiles \cup LongFiles
=============================================================================
