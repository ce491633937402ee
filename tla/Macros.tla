------------------------------- MODULE Macros -------------------------------
(***************************************************************************)
(* Expanding the macros of a build script (specfile/src/macros.rs,         *)
(* MacroParser::parse, with the grammar macro.pest).                       *)
(*                                                                         *)
(* A line is a sequence of tokens: a word, a single space (blank), a tab   *)
(* or a longer run of spaces and tabs (blanks), a macro (`%name`,          *)
(* `%{name}`, with or without parameters), an optional macro `%{?name}`, a *)
(* function `%(...)`, or a character that no rule takes.  Two words never  *)
(* stand side by side, they are one word; nor do two runs of blanks.       *)
(***************************************************************************)
EXTENDS Naturals, Sequences, SequencesExt

CONSTANTS
    Scripts,    \* the build scripts, sequences of lines
    Words,      \* runs of characters of the rule `char`
    Names,      \* names of macros
    Defined     \* the names Workspace::get_macros gives a value

Tokens ==
    [kind : {"blank", "blanks", "optional", "function", "bad"}]
    \cup [kind : {"word"}, word : Words]
    \cup [kind : {"macro"}, name : Names]

(* The expanded text: words, values of macros, single blanks. *)
Outputs ==
    [kind : {"blank"}]
    \cup [kind : {"word"}, word : Words]
    \cup [kind : {"value"}, name : Defined]

Blank       == [kind |-> "blank"]
Blanks      == [kind |-> "blanks"]
Value(name) == [kind |-> "value", name |-> name]

IsBlank(t) == t.kind \in {"blank", "blanks"}

(* A line of a section: not empty and without leading blanks, which the    *)
(* grammar of spec files has skipped.                                      *)
IsLine(line) ==
    /\ line \in Seq(Tokens)
    /\ line # <<>> /\ ~IsBlank(line[1])
    /\ \A i \in 1..Len(line)-1 :
          /\ ~(line[i].kind = "word" /\ line[i+1].kind = "word")
          /\ ~(IsBlank(line[i]) /\ IsBlank(line[i+1]))

ASSUME MacrosTypes ==
    /\ Defined \subseteq Names
    /\ \A s \in Scripts : s \in Seq(Seq(Tokens)) /\ \A l \in DOMAIN s : IsLine(s[l])

VARIABLES
    raw_string,     \* the lines of the script
    i,              \* the line being expanded
    c,              \* its next token
    replaced_line,  \* what has become of it so far
    return_string,  \* the lines expanded before
    status          \* running; then ok, error or panic

vars == <<raw_string, i, c, replaced_line, return_string, status>>

(* Every variable has its type: the script that is returned holds values   *)
(* of defined macros and nothing a grammar rule refuses.                   *)
TypeOK ==
    /\ raw_string \in Seq(Seq(Tokens))
    /\ i \in 1..Len(raw_string)+1
    /\ i <= Len(raw_string) => c \in 1..Len(raw_string[i])+1
    /\ replaced_line \in Seq(Outputs)
    /\ return_string \in Seq(Seq(Outputs))
    /\ status \in {"running", "ok", "error", "panic"}
-----------------------------------------------------------------------------

Init ==
    /\ raw_string \in Scripts
    /\ i = 1
    /\ c = 1
    /\ replaced_line = <<>>
    /\ return_string = <<>>
    /\ status = "running"

Line  == raw_string[i]
Token == Line[c]

(***************************************************************************)
(* Rule file: `text*` takes every word up to the first macro and gives     *)
(* none back, so that the group behind it, which wants at least one match, *)
(* fails on a line without a macro.                                        *)
(***************************************************************************)
Accepted(line) ==
    /\ \A j \in DOMAIN line : line[j].kind # "bad"
    /\ \E j \in DOMAIN line : line[j].kind \in {"macro", "optional", "function"}

AtToken == /\ status = "running"
           /\ i <= Len(raw_string)
           /\ Accepted(Line)
           /\ c <= Len(Line)

(* InternalMacroParser::parse refuses the line. *)
LineFails ==
    /\ status = "running"
    /\ i <= Len(raw_string)
    /\ ~Accepted(Line)
    /\ status' = "error"
    /\ UNCHANGED <<raw_string, i, c, replaced_line, return_string>>

(* Put `piece` at the end of replaced_line and go on. *)
Push(piece) ==
    /\ replaced_line' = replaced_line \o piece
    /\ c' = c + 1
    /\ UNCHANGED <<raw_string, i, return_string, status>>

(* Mutant: no blank behind a word. *)
AddTextBare == AtToken /\ Token.kind = "word" /\ Push(<<Token>>)

(* Rule::text: the word and a single blank behind it, whatever was there. *)
AddText == AtToken /\ Token.kind = "word" /\ Push(<<Token, Blank>>)

(* Blanks are WHITESPACE, which the grammar skips without a pair. *)
SkipBlank == AtToken /\ IsBlank(Token) /\ Push(<<>>)

(* Mutant: get_variable does not look whether there is a value. *)
AddValueUnchecked ==
    AtToken /\ Token.kind = "macro" /\ Push(<<Value(Token.name)>>)

(* Rule::macro_name: the value and nothing else. *)
AddValue ==
    /\ AtToken
    /\ Token.kind = "macro"
    /\ Token.name \in Defined
    /\ Push(<<Value(Token.name)>>)

(* get_variable: DoesNotExist. *)
MacroMissing ==
    /\ AtToken
    /\ Token.kind = "macro"
    /\ Token.name \notin Defined
    /\ status' = "error"
    /\ UNCHANGED <<raw_string, i, c, replaced_line, return_string>>

(* The grammar knows them, the loop has no arm for them. *)
Panics ==
    /\ AtToken
    /\ Token.kind \in {"optional", "function"}
    /\ status' = "panic"
    /\ UNCHANGED <<raw_string, i, c, replaced_line, return_string>>

(* trim_end: no more than the blank behind the last word. *)
TrimEnd(line) ==
    IF line # <<>> /\ Last(line) = Blank THEN Front(line) ELSE line

(* Mutant: the line is kept and opens the next one. *)
EndLineKeeping ==
    /\ status = "running"
    /\ i <= Len(raw_string)
    /\ Accepted(Line)
    /\ c > Len(Line)
    /\ return_string' = Append(return_string, TrimEnd(replaced_line))
    /\ i' = i + 1
    /\ c' = 1
    /\ UNCHANGED <<raw_string, replaced_line, status>>

(* The line is done: trim_end, and a new replaced_line for the next. *)
EndLine ==
    /\ status = "running"
    /\ i <= Len(raw_string)
    /\ Accepted(Line)
    /\ c > Len(Line)
    /\ return_string' = Append(return_string, TrimEnd(replaced_line))
    /\ replaced_line' = <<>>
    /\ i' = i + 1
    /\ c' = 1
    /\ UNCHANGED <<raw_string, status>>

Return ==
    /\ status = "running"
    /\ i > Len(raw_string)
    /\ status' = "ok"
    /\ UNCHANGED <<raw_string, i, c, replaced_line, return_string>>

Next ==
    \/ LineFails
    \/ AddText
    \/ SkipBlank
    \/ AddValue
    \/ MacroMissing
    \/ Panics
    \/ EndLine
    \/ Return

Spec == Init /\ [][Next]_vars
-----------------------------------------------------------------------------
(* Properties *)

(* The line with every macro replaced in place and its blanks as they are. *)
Substituted(line) ==
    [j \in DOMAIN line |->
        IF line[j].kind = "macro" THEN Value(line[j].name) ELSE line[j]]

(* Its parts without the blanks. *)
Parts(line) ==
    LET parts[n \in 0..Len(line)] ==
            IF n = 0 THEN <<>>
            ELSE IF IsBlank(line[n]) THEN parts[n-1]
            ELSE Append(parts[n-1], line[n])
    IN  parts[Len(line)]

(***************************************************************************)
(* Line by line, the script that is returned has the words and the values  *)
(* of the macros of the script that was given, in their order: none is     *)
(* lost, doubled, or carried over into another line.                       *)
(***************************************************************************)
NothingLost ==
    status = "ok" =>
        /\ Len(return_string) = Len(raw_string)
        /\ \A l \in DOMAIN raw_string :
              Parts(return_string[l]) = Parts(Substituted(raw_string[l]))

(* A line without the blanks at its ends. *)
Trimmed(line) ==
    LET S == {j \in DOMAIN line : ~IsBlank(line[j])}
    IN  SubSeq(line, CHOOSE j \in S : \A h \in S : j <= h,
                     CHOOSE j \in S : \A h \in S : j >= h)

(***************************************************************************)
(* Nothing but single blanks separate the tokens of the line.  A macro     *)
(* stands behind a blank, behind another macro or at the start of the      *)
(* line, and what follows it, follows it without a blank.                  *)
(***************************************************************************)
WellSpaced(line) ==
    \A j \in DOMAIN line :
        /\ j < Len(line) => line[j].kind # "blanks"
        /\ line[j].kind = "macro" =>
            /\ j > 1 => line[j-1].kind # "word"
            /\ j < Len(line) - 1 => ~IsBlank(line[j+1])

(***************************************************************************)
(* Exactly the well spaced lines come out with the blanks they had, but    *)
(* for those at the end; both macros of ports.spec stand like that.  In    *)
(* any other line the arguments of a command change: `-I%{dir}` becomes    *)
(* two, `%{dir} file` one, and a run of blanks or a tab, within quotes     *)
(* too, becomes a single blank or none.                                    *)
(***************************************************************************)
BlanksKeptIfWellSpaced ==
    status = "ok" =>
        \A l \in DOMAIN raw_string :
            WellSpaced(raw_string[l])
                <=> return_string[l] = Trimmed(Substituted(raw_string[l]))

(***************************************************************************)
(* A build script is expanded whenever its macros exist and its characters *)
(* are known, whether or not there is a macro in every line: the build     *)
(* section of the sample spec the parser is tested with                    *)
(* (specfile/src/test_data/simple.spec) has none.                          *)
(***************************************************************************)
PlainTextExpands ==
    status = "error" =>
        \E t \in ToSet(FlattenSeq(raw_string)) :
            t.kind = "bad" \/ (t.kind = "macro" /\ t.name \notin Defined)
=============================================================================
