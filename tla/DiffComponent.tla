--------------------------- MODULE DiffComponent ---------------------------
(***************************************************************************)
(* The `pkg6dev diff-component` command (pkg6dev/src/main.rs): it compares *)
(* the manifests of a component directory with the sample manifest of the  *)
(* build and can write what they lack into an output manifest.             *)
(*                                                                         *)
(* Commands are run one after another on one directory, edited meanwhile.  *)
(* The output manifest may be any file: with the extension p5m and in the  *)
(* component directory it is one of the manifests of the next command.     *)
(***************************************************************************)
EXTENDS Naturals, Sequences, FiniteSets, SequencesExt

CONSTANTS
    Atoms,       \* pieces of a path
    Refs,        \* the atoms that are references: "$(name)"
    NullRef,     \* "$()"
    Spaces,      \* the atoms with a blank in them
    Paths,       \* paths of files: sequences of atoms
    CutPath,     \* the beginning of a path
    Manifests,   \* the *.p5m files of the component directory
    Sample,      \* manifests/sample-manifest.p5m
    Outside,     \* a file somewhere else
    Existing,    \* paths that exist below the component directory
    Scenarios,   \* kinds of use; for each of them
    Arguments,   \* .. what the command is called with
    Disks,       \* .. what the files hold in the beginning
    Edits,       \* .. what a maintainer may write into a file
    MaxEvents,   \* .. bound: commands and edits
    Malformed,   \* what the grammar refuses, an empty text for instance
    NotThere,    \* no such file
    None         \* no option, no original path

Files   == Manifests \cup {Sample, Outside}
Actions == [path : Paths \cup {CutPath}, orig : Paths \cup {None}]

(* An option -r: "name:text", or a text without a colon (None). *)
Options == [from : Refs, to : Seq(Atoms)] \cup {None}

(* What a file may hold. *)
Contents == Seq(Actions) \cup {Malformed, NotThere}

(* Who wrote a file: a maintainer or the build, a command that finished, or *)
(* one that has not finished.                                              *)
Origins == [by : {"hand", "command", "cut"}, actions : Seq(Actions)]

ByHand      == [by |-> "hand", actions |-> <<>>]
Cut(fs)     == [by |-> "cut", actions |-> fs]
Whole(fs)   == [by |-> "command", actions |-> fs]

ASSUME DiffTypes ==
    /\ {NullRef} \subseteq Refs /\ Refs \cup Spaces \subseteq Atoms
    /\ Paths \cup {CutPath} \subseteq Seq(Atoms)
    /\ Existing \subseteq Paths
    /\ {Malformed, NotThere} \cap Seq(Actions) = {}
    /\ None \notin Paths \cup Files
    /\ Sample \notin Manifests /\ Outside \notin Manifests \cup {Sample}
    /\ \A s \in Scenarios :
         /\ \A d \in Disks[s] : d \in [Files -> Contents]
         /\ \A c \in Edits[s] : c \in Contents
         /\ \A a \in Arguments[s] :
              /\ a.replacements # None => a.replacements \in Seq(Options)
              /\ a.output \in Files \cup {None}
         /\ MaxEvents[s] \in Nat

VARIABLES
    scenario,  \* the kind of use
    disk,      \* what each file holds: NotThere, Malformed, or file actions
    pc,        \* where diff_component stands
    args,      \* its arguments
    order,     \* the order in which its HashMap yields the replacements
    queue,     \* manifests it has listed and not parsed
    parsed,    \* the file actions of those it has parsed
    bad,       \* one of them was an Err
    missing,   \* the file actions reported as missing
    removed,   \* the file actions reported as removed
    k,         \* the next one to write
    result,    \* how the last command ended
    events,    \* commands and edits so far
    old,       \* history: the output manifest before the command wrote it
    origin     \* history: who wrote each file last, and what it was to hold

vars == <<scenario, disk, pc, args, order, queue, parsed, bad, missing,
          removed, k, result, events, old, origin>>

-----------------------------------------------------------------------------

Elems(s) == {s[i] : i \in 1..Len(s)}

NoMap == [r \in {} |-> <<>>]

(* An option without a colon makes "$()" disappear. *)
From(o) == IF o = None THEN NullRef ELSE o.from
To(o)   == IF o = None THEN <<>> ELSE o.to

(* parse_tripplet_replacements: later pairs win. *)
Replacements(opts) ==
    [r \in {From(opts[i]) : i \in 1..Len(opts)} |->
        To(opts[CHOOSE i \in 1..Len(opts) :
                   /\ From(opts[i]) = r
                   /\ \A j \in i+1..Len(opts) : From(opts[j]) # r])]

(* str::replace of one reference.  Texts are sequences of atoms: that two    *)
(* pieces together read as a reference, as in "$($(A))", is left out.      *)
Substitute(text, ref, to) ==
    LET done[i \in 0..Len(text)] ==
            IF i = 0 THEN <<>>
            ELSE done[i-1] \o IF text[i] = ref THEN to ELSE <<text[i]>>
    IN  done[Len(text)]

(* Mutant: every replacement starts from the original text. *)
ReplaceFuncLast(text, map, ord) ==
    IF ord = <<>> THEN text ELSE Substitute(text, Last(ord), map[Last(ord)])

(* replace_func: one replacement after another, in the order of the map. *)
ReplaceFunc(text, map, ord) ==
    LET replacement[i \in 0..Len(ord)] ==
            IF i = 0 THEN text
            ELSE Substitute(replacement[i-1], ord[i], map[ord[i]])
    IN  replacement[Len(ord)]

(* Every order in which a HashMap may yield its keys. *)
Orders(map) ==
    {s \in [1..Cardinality(DOMAIN map) -> DOMAIN map] : IsInjective(s)}

Map == IF args.replacements = None THEN NoMap
                                   ELSE Replacements(args.replacements)

(* The key of make_file_map: get_original_path, or else the path. *)
Key(f) == IF f.orig # None THEN f.orig ELSE f.path

Keys(S) == {Key(f) : f \in S}

(* Mutant: files are looked up by path although listed by original path. *)
FindMissingByPath(sample, files, map, ord) ==
    SelectSeq(sample,
              LAMBDA f : ReplaceFunc(f.path, map, ord) \notin Keys(files))

(* find_files_missing_in_manifests: pushed in the order of the sample. *)
FindMissing(sample, files, map, ord) ==
    LET missing_files[i \in 0..Len(sample)] ==
            IF i = 0 THEN <<>>
            ELSE IF ReplaceFunc(Key(sample[i]), map, ord) \in Keys(files)
            THEN missing_files[i-1]
            ELSE Append(missing_files[i-1], sample[i])
    IN  missing_files[Len(sample)]

(* Mutant: the sample manifest and the manifests change places. *)
FindRemovedSwapped(sample, files, map, ord) ==
    {f \in Elems(sample) : /\ ReplaceFunc(Key(f), map, ord) \notin Keys(files)
                           /\ f.orig \notin Existing}

(* find_removed_files: a file that exists in the component directory is    *)
(* not removed; its path is looked up as it is written.                    *)
FindRemoved(sample, files, map, ord) ==
    {f \in files : /\ ReplaceFunc(Key(f), map, ord) \notin Keys(Elems(sample))
                   /\ f.orig \notin Existing}

(* A path with a blank is among them. *)
Blanks(fs) == \E i \in 1..Len(fs) : Elems(fs[i].path) \cap Spaces # {}

Parses(c) == c \notin {NotThere, Malformed}

(***************************************************************************)
(* What the lines "file path=..." read as.  A path with a blank was quoted *)
(* in the sample manifest and is not in the output: the rest of it is      *)
(* neither a property nor the end of the line.                             *)
(***************************************************************************)
Lines(fs) ==
    IF fs = <<>> \/ Blanks(fs)
      THEN Malformed
      ELSE [i \in 1..Len(fs) |-> [path |-> fs[i].path, orig |-> None]]

-----------------------------------------------------------------------------

Init ==
    /\ scenario \in Scenarios
    /\ disk \in Disks[scenario]
    /\ pc = "idle"
    /\ args = [replacements |-> None, output |-> None]
    /\ order = <<>>
    /\ queue = {}
    /\ parsed = {}
    /\ bad = FALSE
    /\ missing = <<>>
    /\ removed = {}
    /\ k = 1
    /\ result = "none"
    /\ events = 0
    /\ old = NotThere
    /\ origin = [f \in Files |-> ByHand]

(* A maintainer, or the build, writes or removes a file. *)
Edit(f, c) ==
    /\ pc = "idle"
    /\ events < MaxEvents[scenario]
    /\ disk' = [disk EXCEPT ![f] = c]
    /\ origin' = [origin EXCEPT ![f] = ByHand]
    /\ result' = "none"
    /\ events' = events + 1
    /\ UNCHANGED <<scenario, pc, args, order, queue, parsed, bad, missing,
                   removed, k, old>>

(* diff_component: the replacements are parsed and the directory is read. *)
ReadDir(a) ==
    /\ pc = "idle"
    /\ events < MaxEvents[scenario]
    /\ args' = a
    /\ order' \in Orders(IF a.replacements = None THEN NoMap
                                         ELSE Replacements(a.replacements))
    /\ queue' = {m \in Manifests : disk[m] # NotThere}
    /\ parsed' = {}
    /\ bad' = FALSE
    /\ missing' = <<>>
    /\ removed' = {}
    /\ k' = 1
    /\ result' = "none"
    /\ events' = events + 1
    /\ old' = NotThere
    /\ pc' = "parse"
    /\ UNCHANGED <<scenario, disk, origin>>

(* One manifest; collect() stops at the first that does not parse. *)
ParseManifest(m) ==
    /\ pc = "parse"
    /\ m \in queue
    /\ IF Parses(disk[m])
         THEN /\ parsed' = parsed \cup Elems(disk[m])
              /\ queue' = queue \ {m}
              /\ bad' = bad
         ELSE /\ bad' = TRUE
              /\ queue' = {}
              /\ parsed' = parsed
    /\ UNCHANGED <<scenario, disk, pc, args, order, missing, removed, k,
                   result, events, old, origin>>

End(r) == pc' = "idle" /\ result' = r

(***************************************************************************)
(* The sample manifest is parsed last: its error is returned, and only     *)
(* then does unwrap() panic over a manifest that did not parse.            *)
(***************************************************************************)
SampleError ==
    /\ pc = "parse"
    /\ queue = {}
    /\ ~Parses(disk[Sample])
    /\ End("error")
    /\ UNCHANGED <<scenario, disk, args, order, queue, parsed, bad, missing,
                   removed, k, events, old, origin>>

UnwrapPanics ==
    /\ pc = "parse"
    /\ queue = {}
    /\ Parses(disk[Sample])
    /\ bad
    /\ End("panic")
    /\ UNCHANGED <<scenario, disk, args, order, queue, parsed, bad, missing,
                   removed, k, events, old, origin>>

(* Both comparisons, their reports, and the end without an output manifest.*)
Compare ==
    /\ pc = "parse"
    /\ queue = {}
    /\ Parses(disk[Sample])
    /\ ~bad
    /\ missing' = FindMissing(disk[Sample], parsed, Map, order)
    /\ removed' = FindRemoved(disk[Sample], parsed, Map, order)
    /\ IF args.output = None THEN End("ok")
                             ELSE pc' = "open" /\ UNCHANGED result
    /\ UNCHANGED <<scenario, disk, args, order, queue, parsed, bad, k,
                   events, old, origin>>

(* The output manifest is created, or truncated. *)
OpenOutput ==
    /\ pc = "open"
    /\ old' = disk[args.output]
    /\ disk' = [disk EXCEPT ![args.output] = Malformed]
    /\ origin' = [origin EXCEPT ![args.output] = Cut(missing)]
    /\ pc' = "write"
    /\ UNCHANGED <<scenario, args, order, queue, parsed, bad, missing,
                   removed, k, result, events>>

(* Mutant: every line is written over the one before. *)
WriteActionOver ==
    /\ pc = "write"
    /\ k <= Len(missing)
    /\ disk' = [disk EXCEPT ![args.output] = Lines(<<missing[k]>>)]
    /\ k' = k + 1
    /\ UNCHANGED <<scenario, pc, args, order, queue, parsed, bad, missing,
                   removed, result, events, old, origin>>

(* Mutant: the same line again. *)
WriteActionAgain ==
    /\ pc = "write"
    /\ k <= Len(missing)
    /\ disk' = [disk EXCEPT ![args.output] = Lines(SubSeq(missing, 1, k))]
    /\ UNCHANGED <<scenario, pc, args, order, queue, parsed, bad, missing,
                   removed, k, result, events, old, origin>>

(* One more line of the output manifest. *)
WriteAction ==
    /\ pc = "write"
    /\ k <= Len(missing)
    /\ disk' = [disk EXCEPT ![args.output] = Lines(SubSeq(missing, 1, k))]
    /\ k' = k + 1
    /\ UNCHANGED <<scenario, pc, args, order, queue, parsed, bad, missing,
                   removed, result, events, old, origin>>

(* Mutant: the last line is left out. *)
DoneEarly ==
    /\ pc = "write"
    /\ k >= Len(missing)
    /\ End("ok")
    /\ origin' = [origin EXCEPT ![args.output] = Whole(missing)]
    /\ UNCHANGED <<scenario, disk, args, order, queue, parsed, bad, missing,
                   removed, k, events, old>>

(* The output manifest is complete. *)
Done ==
    /\ pc = "write"
    /\ k > Len(missing)
    /\ End("ok")
    /\ origin' = [origin EXCEPT ![args.output] = Whole(missing)]
    /\ UNCHANGED <<scenario, disk, args, order, queue, parsed, bad, missing,
                   removed, k, events, old>>

(***************************************************************************)
(* The command is killed or an input or output call fails, possibly in the *)
(* middle of a line: "file" alone does not parse, a path cut short does.   *)
(* So does a manifest end it whose parsing panics (Panic in Manifest).     *)
(***************************************************************************)
Interrupted ==
    /\ pc # "idle"
    /\ End("interrupted")
    /\ \/ UNCHANGED disk
       \/ /\ pc = "write"
          /\ k <= Len(missing)
          /\ \E c \in {Malformed,
                       Lines(Append(SubSeq(missing, 1, k - 1),
                                    [path |-> CutPath, orig |-> None]))} :
                disk' = [disk EXCEPT ![args.output] = c]
    /\ UNCHANGED <<scenario, args, order, queue, parsed, bad, missing,
                   removed, k, events, old, origin>>

Proceed ==
    \/ \E m \in Manifests : ParseManifest(m)
    \/ SampleError
    \/ UnwrapPanics
    \/ Compare
    \/ OpenOutput
    \/ WriteAction
    \/ Done

Next ==
    \/ Proceed
    \/ Interrupted
    \/ \E a \in Arguments[scenario] : ReadDir(a)
    \/ \E f \in Files, c \in Edits[scenario] : Edit(f, c)

(* A started command runs on; nobody has to start or interrupt one. *)
Spec == Init /\ [][Next]_vars /\ WF_vars(Proceed)
-----------------------------------------------------------------------------
(* Properties *)

(* The variables are typed; the actions reported come from the manifests   *)
(* parsed and from the sample manifest.                                    *)
TypeOK ==
    /\ scenario \in Scenarios
    /\ disk \in [Files -> Contents]
    /\ pc \in {"idle", "parse", "open", "write"}
    /\ queue \subseteq Manifests
    /\ removed \subseteq parsed /\ parsed \subseteq Actions
    /\ missing \in Seq(Actions) /\ k \in 1..Len(missing) + 1
    /\ origin \in [Files -> Origins]
    /\ result \in {"none", "ok", "error", "panic", "interrupted"}

Covered == UNION {Elems(disk[m]) : m \in {n \in Manifests : Parses(disk[n])}}

(***************************************************************************)
(* A file of the sample manifest that is still missing once a command      *)
(* without replacements has written its output manifest into the component *)
(* directory either was listed in the old output manifest, which the       *)
(* command took for one of the manifests and then truncated, or its output *)
(* line does not stand for it: the line names its path and not the         *)
(* original path it is looked up by, or an unquoted path broke the file.   *)
(***************************************************************************)
CoveredAfterwards ==
    /\ result = "ok"
    /\ args.output \in Manifests
    /\ args.replacements = None
    => \A f \in Elems(disk[Sample]) :
         \/ Key(f) \in Keys(Covered)
         \/ Parses(old) /\ Key(f) \in Keys(Elems(old))
         \/ f \in Elems(missing) /\ f.orig # None
         \/ \E g \in Elems(missing) : Elems(g.path) \cap Spaces # {}

(* What a file holds reads back as what its writer meant it to hold. *)
ReadsBack(c, o) ==
    LET fs  == o.actions
        cut == o.by = "cut"
    IN  \/ c = Malformed /\ (cut \/ fs = <<>> \/ Blanks(fs))
        \/ /\ Parses(c)
           /\ Len(c) <= Len(fs)
           /\ ~cut => Len(c) = Len(fs)
           /\ \A i \in 1..Len(c) :
                \/ c[i].path = fs[i].path
                \/ cut /\ i = Len(c) /\ c[i].path = CutPath

(***************************************************************************)
(* A file that a command wrote and nobody edited since reads back, at any  *)
(* later time, as the missing files of that command, line by line.  If the *)
(* command was stopped on the way it reads back as a beginning of them,    *)
(* whose last path may be cut short.  It does not parse at all only if the *)
(* command was stopped, if there was nothing to place, or if a path has a  *)
(* blank: diff_component truncates its output manifest in place and writes *)
(* no quotes.                                                              *)
(***************************************************************************)
OutputReadsBack ==
    \A f \in Files : origin[f].by # "hand" => ReadsBack(disk[f], origin[f])

(***************************************************************************)
(* unwrap() panics only over a manifest of the component directory that    *)
(* was given malformed, that a stopped command left behind, or that a      *)
(* command which ended well broke itself: because nothing was missing when *)
(* it truncated the file, or because of a path with a blank.               *)
(***************************************************************************)
PanicHasCause ==
    result = "panic" =>
        \E m \in Manifests :
            /\ disk[m] = Malformed
            /\ \/ origin[m].by \in {"hand", "cut"}
               \/ origin[m].actions = <<>>
               \/ Blanks(origin[m].actions)

(***************************************************************************)
(* Without replacements find_files_missing_in_manifests and                *)
(* find_removed_files never report the same key, and when neither reports  *)
(* anything the manifests list the files of the sample manifest and,       *)
(* besides, only files kept in the component directory.  With replacements *)
(* a file that the sample manifest and a manifest list in the same words   *)
(* may be reported, as missing, as removed or as both, but only if the     *)
(* words hold a reference that is replaced.                                *)
(***************************************************************************)
ReportsAgree ==
    /\ result = "ok"
    /\ args.output # Sample
    => /\ \A key \in Keys(Elems(disk[Sample])) \cap Keys(parsed) :
            \/ key \notin Keys(Elems(missing)) \cup Keys(removed)
            \/ Elems(key) \cap DOMAIN Map # {}
       /\ args.replacements = None =>
            Keys(Elems(missing)) \cap Keys(removed) = {}
       /\ args.replacements = None /\ missing = <<>> /\ removed = {} =>
            /\ Keys(Elems(disk[Sample])) \subseteq Keys(parsed)
            /\ Keys(parsed) \subseteq Keys(Elems(disk[Sample])) \cup Existing

(***************************************************************************)
(* The reports do not depend on the order of the HashMap when no text      *)
(* contains a reference that is replaced itself.                           *)
(***************************************************************************)
OrderIrrelevant ==
    /\ pc = "open"
    /\ \A r \in DOMAIN Map : Elems(Map[r]) \cap DOMAIN Map = {}
    => \A ord \in Orders(Map) :
         /\ missing = FindMissing(disk[Sample], parsed, Map, ord)
         /\ removed = FindRemoved(disk[Sample], parsed, Map, ord)

(* A command, once started, ends. *)
CommandEnds == (pc # "idle") ~> (pc = "idle")

(***************************************************************************)
(* "Place the file actions missing in the manifests but present in         *)
(* sample-manifest into this file": every missing file is found again in   *)
(* the output manifest.                                                    *)
(***************************************************************************)
MissingPlaced ==
    /\ result = "ok"
    /\ args.output # None
    /\ missing # <<>>
    => /\ Parses(disk[args.output])
       /\ Keys(Elems(missing)) \subseteq Keys(Elems(disk[args.output]))
=============================================================================
