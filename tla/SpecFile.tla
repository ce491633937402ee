------------------------------ MODULE SpecFile ------------------------------
(***************************************************************************)
(* Reading a spec file (specfile/src/lib.rs, parse, with the grammar       *)
(* specfile.pest).  The grammar is applied to the whole text first: its    *)
(* items are taken in order and never given back.  Then the loop of parse  *)
(* goes over the pairs it yielded.                                         *)
(*                                                                         *)
(* A line is what its characters make of it: blank, a header `%name`, a    *)
(* variable `Name: text`, a variable without text, a comment, any other    *)
(* text.  A bad line holds a character outside the rule `char`, such as a  *)
(* parenthesis, or is the last one and has no line end.                    *)
(***************************************************************************)
EXTENDS Naturals, Sequences, SequencesExt

CONSTANTS
    Files,          \* the spec files, sequences of lines
    KnownVariables, \* the variables that have a field of their own
    VariableNames,  \* names the rule variable_name takes
    SectionNames,   \* names the rule section_name takes
    Texts,          \* contents of lines
    Words,          \* the texts without a blank in them
    NewLine,        \* the separator append_newline_string puts
    NoText          \* String::new()

(* The sections parse has a field for: joined lines, or a list of them. *)
TextSections == {"description", "prep", "build", "install", "changelog"}
Sections     == TextSections \cup {"files"}

Lines ==
    [kind : {"blank", "bad"}]
    \cup [kind : {"header"}, name : SectionNames]
    \cup [kind : {"empty"}, name : VariableNames]
    \cup [kind : {"variable"}, name : VariableNames, text : Texts]
    \cup [kind : {"comment", "text"}, text : Texts]

ASSUME SpecFileTypes ==
    /\ Files \subseteq Seq(Lines)
    /\ KnownVariables \subseteq VariableNames
    /\ Words \subseteq Texts
    /\ NoText \notin Texts
    /\ NewLine \notin Lines

VARIABLES
    lines,      \* the spec file
    pos,        \* the line the grammar has come to
    pairs,      \* the pairs the grammar has yielded
    n,          \* the pair the loop of parse has come to
    fields,     \* SpecFile.name .. license
    variables,  \* SpecFile.variables
    content,    \* SpecFile.description, the three scripts, changelog
    files,      \* SpecFile.files
    status      \* grammar, pairs; then ok, error or panic

vars == <<lines, pos, pairs, n, fields, variables, content, files, status>>
spec == <<fields, variables, content, files>>

Pairs ==
    [rule : {"variable"}, name : VariableNames, text : Texts]
    \cup [rule : {"section"}, name : SectionNames, body : Seq(Lines)]
    \cup [rule : {"empty_variable", "multiline_variable"}]

(* Every variable has its type; a section is never without lines. *)
TypeOK ==
    /\ lines \in Seq(Lines)
    /\ pos \in 1..Len(lines)+1
    /\ pairs \in Seq(Pairs)
    /\ \A i \in 1..Len(pairs) :
          pairs[i].rule = "section" => pairs[i].body # <<>>
    /\ n \in 1..Len(pairs)+1
    /\ fields \in [KnownVariables -> Texts \cup {NoText}]
    /\ \E D \in SUBSET (VariableNames \ KnownVariables) :
          variables \in [D -> Texts]
    /\ content \in [TextSections -> Seq(Lines \cup {NewLine})]
    /\ files \in Seq(Lines)
    /\ status \in {"grammar", "pairs", "ok", "error", "panic"}
-----------------------------------------------------------------------------

Line       == lines[pos]
AtLine     == status = "grammar" /\ pos <= Len(lines)
IsBlank(i) == lines[i].kind = "blank"

(* section_line takes any line that is neither blank nor bad. *)
SectionLines == {i \in DOMAIN lines : lines[i].kind \notin {"blank", "bad"}}

(* The lines of one word, as multiline_variable wants its lines.  A        *)
(* variable is written with a blank after its colon.                       *)
WordLines ==
    {i \in DOMAIN lines :
        \/ lines[i].kind \in {"header", "empty"}
        \/ lines[i].kind \in {"comment", "text"} /\ lines[i].text \in Words}

(* The first line from i on that is not among `taken`: a repetition of the *)
(* grammar goes that far and never less.                                   *)
Beyond(i, taken) ==
    CHOOSE j \in i..Len(lines)+1 : i..j-1 \subseteq taken /\ j \notin taken

(* multiline_variable with the blank line it wants behind its lines. *)
IsMultiline(i) ==
    LET j == Beyond(i + 1, WordLines)
    IN  j > i + 1 /\ j <= Len(lines) /\ IsBlank(j)

Init ==
    /\ lines \in Files
    /\ pos = 1
    /\ pairs = <<>>
    /\ n = 1
    /\ fields = [v \in KnownVariables |-> NoText]
    /\ variables = [v \in {} |-> NoText]
    /\ content = [s \in TextSections |-> <<>>]
    /\ files = <<>>
    /\ status = "grammar"

(* The grammar yields a pair and goes on at line `next`. *)
Yield(pair, next) ==
    /\ pairs' = Append(pairs, pair)
    /\ pos' = next
    /\ UNCHANGED <<lines, n, spec, status>>

TakeVariable ==
    /\ AtLine
    /\ Line.kind = "variable"
    /\ Yield([rule |-> "variable", name |-> Line.name, text |-> Line.text],
             pos + 1)

TakeMultilineVariable ==
    /\ AtLine
    /\ Line.kind = "empty"
    /\ IsMultiline(pos)
    /\ Yield([rule |-> "multiline_variable"], Beyond(pos + 1, WordLines))

TakeEmptyVariable ==
    /\ AtLine
    /\ Line.kind = "empty"
    /\ ~IsMultiline(pos)
    /\ Yield([rule |-> "empty_variable"], pos + 1)

(* Mutant: a section may be without lines. *)
TakeSectionBare ==
    /\ AtLine
    /\ Line.kind = "header"
    /\ LET e == Beyond(pos + 1, SectionLines)
       IN  Yield([rule |-> "section", name |-> Line.name,
                  body |-> SubSeq(lines, pos + 1, e - 1)], e)

(***************************************************************************)
(* A header and at least one line.  Every line up to the next blank one is *)
(* the section's, whatever it looks like.                                  *)
(***************************************************************************)
TakeSection ==
    /\ AtLine
    /\ Line.kind = "header"
    /\ LET e == Beyond(pos + 1, SectionLines)
       IN  /\ e > pos + 1
           /\ Yield([rule |-> "section", name |-> Line.name,
                     body |-> SubSeq(lines, pos + 1, e - 1)], e)

SkipBlank ==
    /\ AtLine
    /\ IsBlank(pos)
    /\ pos' = pos + 1
    /\ UNCHANGED <<lines, pairs, n, spec, status>>

(***************************************************************************)
(* No item matches: text or a comment outside a section, a bad line, a     *)
(* header without a line; or there is no item at all.                      *)
(***************************************************************************)
GrammarFails ==
    /\ status = "grammar"
    /\ \/ lines = <<>>
       \/ AtLine /\ Line.kind \in {"bad", "comment", "text"}
       \/ /\ AtLine
          /\ Line.kind = "header"
          /\ Beyond(pos + 1, SectionLines) = pos + 1
    /\ status' = "error"
    /\ UNCHANGED <<lines, pos, pairs, n, spec>>

(* EOI: the loop over the pairs starts. *)
GrammarDone ==
    /\ status = "grammar"
    /\ pos > Len(lines)
    /\ lines # <<>>
    /\ status' = "pairs"
    /\ UNCHANGED <<lines, pos, pairs, n, spec>>
-----------------------------------------------------------------------------

AtPair == status = "pairs" /\ n <= Len(pairs)
Pair   == pairs[n]

(* Mutant: the first text of a field stays. *)
SetVariableOnce ==
    /\ AtPair
    /\ Pair.rule = "variable"
    /\ IF Pair.name \in KnownVariables
         THEN /\ fields' = [fields EXCEPT ![Pair.name] =
                              IF @ = NoText THEN Pair.text ELSE @]
              /\ UNCHANGED variables
         ELSE /\ variables' = [v \in DOMAIN variables \cup {Pair.name} |->
                                 IF v = Pair.name THEN Pair.text
                                                  ELSE variables[v]]
              /\ UNCHANGED fields
    /\ n' = n + 1
    /\ UNCHANGED <<lines, pos, pairs, content, files, status>>

(* Rule::variable: a field, or an entry of variables; the old one is lost. *)
SetVariable ==
    /\ AtPair
    /\ Pair.rule = "variable"
    /\ IF Pair.name \in KnownVariables
         THEN /\ fields' = [fields EXCEPT ![Pair.name] = Pair.text]
              /\ UNCHANGED variables
         ELSE /\ variables' = [v \in DOMAIN variables \cup {Pair.name} |->
                                 IF v = Pair.name THEN Pair.text
                                                  ELSE variables[v]]
              /\ UNCHANGED fields
    /\ n' = n + 1
    /\ UNCHANGED <<lines, pos, pairs, content, files, status>>

IsText(line) == line.kind # "comment"

(* Mutant: a newline behind every line. *)
JoinedEnded(body) == FlattenSeq([i \in DOMAIN body |-> <<body[i], NewLine>>])

(* append_newline_string: section_line is 0 at the first line of every     *)
(* section, also of a second one of that name.                             *)
Joined(body) ==
    FlattenSeq([i \in DOMAIN body |->
                  IF i = 1 THEN <<body[i]>> ELSE <<NewLine, body[i]>>])

(* The lines of a section but its comments, which the loop passes over. *)
WithoutComments(body) ==
    FlattenSeq([i \in DOMAIN body |->
                  IF IsText(body[i]) THEN <<body[i]>> ELSE <<>>])

SectionTexts == WithoutComments(Pair.body)

(* Rule::section, one of the five that are joined to a text. *)
AddTextSection ==
    /\ AtPair
    /\ Pair.rule = "section"
    /\ Pair.name \in TextSections
    /\ content' = [content EXCEPT ![Pair.name] = @ \o Joined(SectionTexts)]
    /\ n' = n + 1
    /\ UNCHANGED <<lines, pos, pairs, fields, variables, files, status>>

(* Rule::section, files: one entry per line. *)
AddFiles ==
    /\ AtPair
    /\ Pair.rule = "section"
    /\ Pair.name = "files"
    /\ files' = files \o SectionTexts
    /\ n' = n + 1
    /\ UNCHANGED <<lines, pos, pairs, fields, variables, content, status>>

(* A section of another name with nothing but comments changes nothing. *)
SkipComments ==
    /\ AtPair
    /\ Pair.rule = "section"
    /\ Pair.name \notin Sections
    /\ SectionTexts = <<>>
    /\ n' = n + 1
    /\ UNCHANGED <<lines, pos, pairs, spec, status>>

(* Mutant: comments are looked at like any other line. *)
PanicsOnComments ==
    /\ AtPair
    /\ \/ Pair.rule \in {"empty_variable", "multiline_variable"}
       \/ Pair.rule = "section" /\ Pair.name \notin Sections
    /\ status' = "panic"
    /\ UNCHANGED <<lines, pos, pairs, n, spec>>

(* Any other section, and the rules the loop has no arm for, panic. *)
Panics ==
    /\ AtPair
    /\ \/ Pair.rule \in {"empty_variable", "multiline_variable"}
       \/ /\ Pair.rule = "section"
          /\ Pair.name \notin Sections
          /\ SectionTexts # <<>>
    /\ status' = "panic"
    /\ UNCHANGED <<lines, pos, pairs, n, spec>>

Return ==
    /\ status = "pairs"
    /\ n > Len(pairs)
    /\ status' = "ok"
    /\ UNCHANGED <<lines, pos, pairs, n, spec>>

Next ==
    \/ TakeVariable
    \/ TakeMultilineVariable
    \/ TakeEmptyVariable
    \/ TakeSection
    \/ SkipBlank
    \/ GrammarFails
    \/ GrammarDone
    \/ SetVariable
    \/ AddTextSection
    \/ AddFiles
    \/ SkipComments
    \/ Panics
    \/ Return

Spec == Init /\ [][Next]_vars
-----------------------------------------------------------------------------
(* Properties *)

(***************************************************************************)
(* The layout of a file, line by line and without its grammar: line i is   *)
(* in the section headed by line h if h is the first header of its         *)
(* paragraph, a run of lines without a blank one, and i comes later in it. *)
(***************************************************************************)
Paragraph(h, i) == h <= i /\ \A j \in h..i : ~IsBlank(j)

HeadedBy(h, i) ==
    /\ h < i
    /\ Paragraph(h, i)
    /\ lines[h].kind = "header"
    /\ \A g \in 1..h-1 : lines[g].kind = "header" => ~Paragraph(g, h)

InSection(i, s) == \E h \in 1..i : HeadedBy(h, i) /\ lines[h].name = s
TopLevel(i)     == \A h \in 1..i : ~HeadedBy(h, i)

(* Not the first line of its section that is not a comment. *)
FollowsText(i) ==
    \E h, j \in 1..i-1 : HeadedBy(h, i) /\ HeadedBy(h, j) /\ IsText(lines[j])

TextOf(s, separator) ==
    FlattenSeq([i \in DOMAIN lines |->
        IF ~InSection(i, s) \/ ~IsText(lines[i]) THEN <<>>
        ELSE IF FollowsText(i) THEN separator \o <<lines[i]>>
        ELSE <<lines[i]>>])

(***************************************************************************)
(* A spec file that is read yields, section by section, the lines the      *)
(* layout gives it, comments left out: none is lost, taken twice, or put   *)
(* into another section.  A header that follows text without a blank line  *)
(* is text.  Two sections of one name are put together, the last line of   *)
(* the first and the first line of the second on one line.                 *)
(***************************************************************************)
SectionsByLayout ==
    status = "ok" =>
        /\ \A s \in TextSections : content[s] = TextOf(s, <<NewLine>>)
        /\ files = TextOf("files", <<>>)

(* The texts given to variable v outside of sections. *)
Settings(v) ==
    {i \in DOMAIN lines :
        TopLevel(i) /\ lines[i].kind = "variable" /\ lines[i].name = v}

(***************************************************************************)
(* Of several settings of a variable the last one is what parse returns,   *)
(* those that a section has swallowed never count, and a variable that is  *)
(* not set keeps the default.                                              *)
(***************************************************************************)
LastSettingWins ==
    status = "ok" =>
        \A v \in VariableNames :
            LET S     == Settings(v)
                final == lines[CHOOSE i \in S : \A j \in S : j <= i].text
            IN  IF v \in KnownVariables
                  THEN fields[v] = IF S = {} THEN NoText ELSE final
                  ELSE /\ v \in DOMAIN variables <=> S # {}
                       /\ S # {} => variables[v] = final

(***************************************************************************)
(* parse panics for an empty variable and for a section it does not know   *)
(* that has text, and for nothing else; it never returns a spec that       *)
(* silently lacks one of them.                                             *)
(***************************************************************************)
PanicExplained ==
    status \in {"ok", "panic"} =>
        (status = "panic" <=>
            \E i \in DOMAIN lines :
                \/ lines[i].kind = "empty" /\ TopLevel(i)
                \/ /\ IsText(lines[i])
                   /\ \E s \in SectionNames \ Sections : InSection(i, s))
=============================================================================
