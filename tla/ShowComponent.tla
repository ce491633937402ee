--------------------------- MODULE ShowComponent ---------------------------
(***************************************************************************)
(* The `pkg6dev show-component` command (pkg6dev/src/main.rs,              *)
(* show_component_info): Component::new_from_makefile and then the lines   *)
(* it prints, each from a lookup of its own in the parsed makefile, and in *)
(* between a question to repology (userland/src/component.rs, repology.rs).*)
(* The lookups are those of MakefileGet, step by step: its steps are steps *)
(* of this module, its state is part of this one.                          *)
(***************************************************************************)
EXTENDS MakefileGet, Functions

CONSTANTS
    SemVers,     \* values that parse as a version
    Integers32,  \* values that parse as an i32
    ValidUrls,   \* values that parse as a url
    Styles,      \* the build styles there is an arm for
    Answers,     \* what repology answers: sequences of versions
    Unparsable,  \* a version in an answer that does not parse
    Zero,        \* the value "0"
    Configure    \* BuildStyle::Configure

(* Version::new(0, 0, 1), what an unparsable version is taken for: the     *)
(* versions of an answer are numbered in their order.                      *)
FallbackVersion == 1

VARIABLES
    at,         \* the lookup the command has come to
    waiting,    \* the lookup has been called, its result not yet looked at
    got,        \* what new_from_makefile has looked up
    component,  \* the Component, None before
    name,       \* the name repology is asked for
    answer,     \* what it answered, None before and for a failed request
    latest,     \* the newest version of the answer
    printed,    \* the values printed, by variable
    exit        \* running; then ok, error or panic

command  == <<at, waiting, got, component, name, answer, latest, printed, exit>>
showVars == <<vars, command>>

(* The variables looked up, in their order: seven by new_from_makefile,    *)
(* then those of show_component_info.                                      *)
Lookups == <<
    "COMPONENT_VERSION", "COMPONENT_REVISION", "COMPONENT_SRC",
    "COMPONENT_ARCHIVE_URL", "GIT_URL", "COMPONENT_ARCHIVE_HASH",
    "BUILD_STYLE",
    "COMPONENT_NAME", "COMPONENT_NAME", "COMPONENT_VERSION", "BUILD_BITS",
    "COMPONENT_BUILD_ACTION", "COMPONENT_PROJECT_URL",
    "COMPONENT_ARCHIVE_URL", "COMPONENT_ARCHIVE_HASH", "REQUIRED_PACKAGES",
    "COMPONENT_INSTALL_ACTION">>

Built      == 7   \* the last lookup of new_from_makefile
NameFound  == 8
VersionGot == 10

(* The lookups of a first value; the others are of all. *)
OfFirst == 1..Built \cup {NameFound + 1}
Op(j)   == IF j \in OfFirst THEN "get_first" ELSE "get"
Var     == Lookups[at]

Kept      == {Lookups[j] : j \in 1..Built-1}
Printable == {Lookups[j] : j \in Built+1..Len(Lookups)}

Values     == Seq(Tokens)
Optional   == Values \cup {None}
Sources    == [kind : {"archive"}, name : Values, url : Values, hash : Optional]
              \cup [kind : {"git"}, name : Values, url : Values]
Components == [version : Values, revision : Optional, source : Sources,
               options : Seq(Values), build_style : Styles]

(***************************************************************************)
(* The reader of makefiles gives a variable one value (HasOneValue         *)
(* in MakefileInclude): it never reads a definition as an addition.        *)
(***************************************************************************)
ASSUME ShowComponentTypes ==
    /\ \A j \in 1..Len(Lookups) : Lookups[j] \in Vars
    /\ \A m \in Makefiles : \A v \in DOMAIN m : Len(m[v]) = 1
    /\ None \notin SemVers
    /\ Zero \in Values
    /\ Configure \in Styles
    /\ Answers \subseteq Seq(Nat \cup {Unparsable})
    /\ Unparsable \notin Nat
    /\ None \notin Answers \cup Nat

(* Every variable of the command has its type, those of a lookup have      *)
(* theirs in MakefileGet: a component has one of the known build styles.   *)
ShowTypeOK ==
    /\ at \in 1..Len(Lookups)+1
    /\ waiting \in BOOLEAN
    /\ got \in [Kept -> Optional]
    /\ component \in Components \cup {None}
    /\ name \in Values
    /\ answer \in Answers \cup {None}
    /\ latest \in Nat \cup {None}
    /\ printed \in [Printable -> Optional]
    /\ exit \in {"running", "ok", "error", "panic"}
-----------------------------------------------------------------------------

ShowInit ==
    /\ Init
    /\ at = 1
    /\ waiting = FALSE
    /\ got = [v \in Kept |-> None]
    /\ component = None
    /\ name = <<>>
    /\ answer = None
    /\ latest = None
    /\ printed = [v \in Printable |-> None]
    /\ exit = "running"

(* The next lookup is called. *)
Ask ==
    /\ exit = "running"
    /\ ~waiting
    /\ at <= Len(Lookups)
    /\ Call(Op(at), Var) \/ CallUndefined(Op(at), Var)
    /\ waiting' = TRUE
    /\ UNCHANGED <<at, got, component, name, answer, latest, printed, exit>>

(* It goes on. *)
LookupStep == waiting /\ Step /\ UNCHANGED command

(* It has returned. *)
Returned(j) == exit = "running" /\ waiting /\ status = "idle" /\ at = j

(* On to lookup j, with what the command has just done to the rest. *)
GoOn(j) == at' = j /\ waiting' = FALSE /\ UNCHANGED <<vars, exit>>

Fail == exit' = "error" /\ UNCHANGED <<vars, at, waiting, got, component,
                                       name, answer, latest, printed>>

(* new_from_makefile: no version, or none that parses. *)
NoVersion == Returned(1) /\ result \notin SemVers /\ Fail

(* Mutant: the same value is looked up again. *)
KeepAgain ==
    /\ \E j \in 1..Built-1 : Returned(j)
    /\ at = 1 => result \in SemVers
    /\ got' = [got EXCEPT ![Var] = result]
    /\ GoOn(at)
    /\ UNCHANGED <<component, name, answer, latest, printed>>

(* new_from_makefile: a value is kept for later. *)
Keep ==
    /\ \E j \in 1..Built-1 : Returned(j)
    /\ at = 1 => result \in SemVers
    /\ got' = [got EXCEPT ![Var] = result]
    /\ GoOn(at + 1)
    /\ UNCHANGED <<component, name, answer, latest, printed>>

(* Mutant: a git repository before an archive. *)
SourceGitFirst ==
    LET archive == got["COMPONENT_ARCHIVE_URL"]
        git     == got["GIT_URL"]
    IN  IF got["COMPONENT_SRC"] = None THEN None ELSE
        CASE git # None /\ git \in ValidUrls ->
               [kind |-> "git", name |-> got["COMPONENT_SRC"], url |-> git]
          [] git = None /\ archive # None /\ archive \in ValidUrls ->
               [kind |-> "archive", name |-> got["COMPONENT_SRC"],
                url |-> archive, hash |-> got["COMPONENT_ARCHIVE_HASH"]]
          [] OTHER -> None

(* The source: an archive before a git repository, also if its url does    *)
(* not parse; None if there is none or the url of the one taken is bad.    *)
Source ==
    LET archive == got["COMPONENT_ARCHIVE_URL"]
        git     == got["GIT_URL"]
    IN  IF got["COMPONENT_SRC"] = None THEN None ELSE
        CASE archive # None /\ archive \in ValidUrls ->
               [kind |-> "archive", name |-> got["COMPONENT_SRC"],
                url |-> archive, hash |-> got["COMPONENT_ARCHIVE_HASH"]]
          [] archive = None /\ git # None /\ git \in ValidUrls ->
               [kind |-> "git", name |-> got["COMPONENT_SRC"], url |-> git]
          [] OTHER -> None

(* A revision that does not parse is 0. *)
Revision == LET r == got["COMPONENT_REVISION"]
            IN  IF r = None \/ r \in Integers32 THEN r ELSE Zero

(* Mutant: any build style is taken. *)
BuildStyleAsIs == IF result # None THEN result ELSE Configure

(* A build style there is no arm for is Configure. *)
BuildStyle == IF result \in Styles THEN result ELSE Configure

(* CONFIGURE_OPTIONS: the values as they are written in the makefile. *)
Options == IF "CONFIGURE_OPTIONS" \in DOMAIN variables
             THEN variables["CONFIGURE_OPTIONS"] ELSE <<>>

NoSource == Returned(Built) /\ Source = None /\ Fail

(* new_from_makefile returns the component. *)
Build ==
    /\ Returned(Built)
    /\ Source # None
    /\ component' = [version |-> got["COMPONENT_VERSION"],
                     revision |-> Revision, source |-> Source,
                     options |-> Options, build_style |-> BuildStyle]
    /\ GoOn(Built + 1)
    /\ UNCHANGED <<got, name, answer, latest, printed>>

(* Mutant: behind a variable that is not defined one more is left out. *)
PrintVariableSkipping ==
    /\ \E j \in Built+1..Len(Lookups) :
          j \notin {NameFound + 1, VersionGot} /\ Returned(j)
    /\ printed' = [printed EXCEPT ![Var] = result]
    /\ GoOn(IF result = None /\ at < Len(Lookups) THEN at + 2 ELSE at + 1)
    /\ UNCHANGED <<got, component, name, answer, latest>>

(* A variable that is defined is printed; without COMPONENT_NAME the       *)
(* lookup of its first value is left out as well.                          *)
PrintVariable ==
    /\ \E j \in Built+1..Len(Lookups) :
          j \notin {NameFound + 1, VersionGot} /\ Returned(j)
    /\ printed' = [printed EXCEPT ![Var] = result]
    /\ GoOn(IF at = NameFound /\ result = None THEN at + 2 ELSE at + 1)
    /\ UNCHANGED <<got, component, name, answer, latest>>

TakeName ==
    /\ Returned(NameFound + 1)
    /\ name' = IF result = None THEN name ELSE result
    /\ GoOn(at + 1)
    /\ UNCHANGED <<got, component, answer, latest, printed>>

Parsed(v) == IF v = Unparsable THEN FallbackVersion ELSE v

ParsedAll(versions) == [j \in 1..Len(versions) |-> Parsed(versions[j])]

(* Mutant: the versions are not sorted. *)
NewestUnsorted(versions) == ParsedAll(versions)[Len(versions)]

(* The positions of s in the order of its elements. *)
Order(s) ==
    CHOOSE p \in Bijection(1..Len(s), 1..Len(s)) :
        \A i, j \in 1..Len(s) : i <= j => s[p[i]] <= s[p[j]]

(* find_newest_version: sort, and the last one. *)
Newest(versions) ==
    LET s == ParsedAll(versions) IN s[Order(s)[Len(s)]]

(* The version is printed and repology asked; a failed request is reported *)
(* and the command goes on.                                                *)
AskRepology ==
    /\ Returned(VersionGot)
    /\ printed' = [printed EXCEPT ![Var] = result]
    /\ \/ UNCHANGED <<answer, latest>>
       \/ \E versions \in Answers \ {<<>>} :
            answer' = versions /\ latest' = Newest(versions)
    /\ GoOn(at + 1)
    /\ UNCHANGED <<got, component, name>>

(* An answer without packages: last().unwrap(). *)
RepologyPanics ==
    /\ Returned(VersionGot)
    /\ <<>> \in Answers
    /\ printed' = [printed EXCEPT ![Var] = result]
    /\ answer' = <<>>
    /\ exit' = "panic"
    /\ UNCHANGED <<vars, at, waiting, got, component, name, latest>>

(* The component is printed and the command returns Ok. *)
PrintComponent ==
    /\ exit = "running"
    /\ at = Len(Lookups) + 1
    /\ exit' = "ok"
    /\ UNCHANGED <<vars, at, waiting, got, component, name, answer, latest,
                   printed>>

ShowStep ==
    \/ Ask
    \/ LookupStep
    \/ NoVersion
    \/ Keep
    \/ NoSource
    \/ Build
    \/ PrintVariable
    \/ TakeName
    \/ AskRepology
    \/ RepologyPanics
    \/ PrintComponent

(* One command; its steps wait for nothing but a request with a timeout. *)
ShowSpec == ShowInit /\ [][ShowStep]_showVars /\ WF_showVars(ShowStep)
-----------------------------------------------------------------------------
(* Properties *)

(***************************************************************************)
(* Nothing is printed of a component that cannot be built, and of one that *)
(* can everything that is defined is printed: once a line is out, no error *)
(* of a later lookup ends the command, nor does a request that fails.  Two *)
(* things cut the report off: an answer without packages at the version,   *)
(* and a later lookup that exhausts the stack at the line before it.  What *)
(* was printed by then is all that is defined of the lookups done.         *)
(***************************************************************************)
OutputComplete ==
    /\ exit = "error" => \A v \in Printable : printed[v] = None
    /\ exit = "ok" =>
         \A v \in Printable : printed[v] # None <=> v \in DOMAIN variables
    /\ exit = "panic" =>
         /\ answer = <<>>
         /\ \A v \in Printable :
              printed[v] # None <=>
                 \E j \in NameFound..VersionGot :
                    Lookups[j] = v /\ v \in DOMAIN variables
    /\ status = "overflow" =>
         \A v \in Printable :
            printed[v] # None <=>
               \E j \in NameFound..at-1 :
                  Lookups[j] = v /\ v \in DOMAIN variables

(***************************************************************************)
(* The component and the lines above it tell the same: both are made from  *)
(* lookups of their own, one of the first value, one of all.  The archive  *)
(* that is shown is the source whenever there is one, and what the         *)
(* component holds has been parsed.                                        *)
(***************************************************************************)
ComponentAsPrinted ==
    exit = "ok" =>
        LET s == component.source IN
        /\ component.version = printed["COMPONENT_VERSION"]
        /\ component.version \in SemVers
        /\ component.revision \in Integers32 \cup {Zero, None}
        /\ s.url \in ValidUrls
        /\ s.kind = "archive" <=> printed["COMPONENT_ARCHIVE_URL"] # None
        /\ s.kind = "archive" =>
             /\ s.url = printed["COMPONENT_ARCHIVE_URL"]
             /\ s.hash = printed["COMPONENT_ARCHIVE_HASH"]

(***************************************************************************)
(* The version printed as the latest is one that repology lists and none   *)
(* it lists is higher; 0.0.1 may stand in for one that does not parse.     *)
(***************************************************************************)
NewestIsHighest ==
    latest # None =>
        /\ \A j \in DOMAIN answer : answer[j] # Unparsable => answer[j] <= latest
        /\ \E j \in DOMAIN answer : Parsed(answer[j]) = latest

(* Every command ends, by returning, by a panic or by exhausting the stack *)
(* in one of its lookups.                                                  *)
CommandEnds == <>(exit # "running" \/ status = "overflow")
=============================================================================
