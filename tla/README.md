# A verification project for ips

The repository is a set of Rust tools for building illumos packages: a library
for IPS manifests (`libips`), a reader for the makefiles of the userland
repository (`userland`), a command that compares manifests (`pkg6dev`), a spec
file format (`specfile`) and a command that builds a package from it (`ports`).
This project models the parts that carry logic as TLA+ modules, checks them with
TLC on small instances, and proves the most important properties for every
instance with TLAPS.

`PROJECT.json` lists the components, the runs, the mutants that show each
property can fail, the source lines of every definition, the hazards of the code
and the theorems.

## 1. Inventory

| Component | State | Operations | Module |
|---|---|---|---|
| `ports package` (`ports/src/main.rs`, `workspace.rs`, `sources.rs`) | the directory tree `~/.ports/wks` (sources, build script, proto area), shared by all commands of a user; per command the position, the bytes in hand, the manifest | `run_package_command`, `get_sources`, `unpack_all_sources`, `unpack_source`, `build`, `package` | `Ports`; what it promises: `Packaging` |
| makefile reader (`userland/src/lib.rs`, `makefile.pest`) | working directory of the process, the makefile being filled, the recursion of `parse_all` | `parse_single_file`, `parse_variable`, `parse_define`, `parse_include`, `parse_all`, `parse_included_makefiles`, `merge` | `MakefileInclude` |
| variable lookup (`userland/src/lib.rs`) | the recursion of `get` with the copies it edits | `get`, `get_first_value_of_variable_by_name`, `resolve_nested_variables` | `MakefileGet` |
| manifest reader (`libips/src/actions/mod.rs`, `manifest.pest`) and digests (`libips/src/digest/mod.rs`) | the manifest being filled | `parse_string`, `add_action`, the `From<Action>` conversions, `Digest::from_str`, `Display` | `Manifest` |
| `pkg6dev diff-component` (`pkg6dev/src/main.rs`) | the files of a component directory; per command what was parsed and what is reported | `diff_component`, `find_files_missing_in_manifests`, `find_removed_files`, `replace_func` | `DiffComponent` |
| `pkg6dev show-component` (`pkg6dev/src/main.rs`, `userland/src/component.rs`, `repology.rs`) | the lookup it has come to, the component, what is printed | `show_component_info`, `Component::new_from_makefile`, `find_newest_version` | `ShowComponent`, on top of `MakefileGet` |
| spec file parser (`specfile/src/lib.rs`, `specfile.pest`) | the position of the grammar, the pairs, the spec being filled | `parse`, `append_newline_string` | `SpecFile` |
| spec file macros (`specfile/src/macros.rs`, `macro.pest`) | the line being expanded, the lines before it | `MacroParser::parse`, `get_variable` | `Macros` |
| image (`libips/src/image`) | `pkg6.image.json` | `open`, `open_default` | not modelled: two reads of a file nothing writes |
| payloads (`libips/src/payload`) | none | `compute_payload` | a read in `Ports`; ELF inspection and hashing are not modelled |
| `pkg6`, `pkg6repo`, `pkg6depotd` | none | print a greeting | nothing to model |

How they interact.

* `ports` calls `specfile` for the spec (`SpecFile`), then `Workspace`, and the
  macro parser (`Macros`) on the build script of the spec; `package` builds a
  `libips` manifest from files. A spec or a script that is refused is one of the
  ways in which `Abort` of `Ports` happens. Two commands interact through the workspace
  only. They never lock it and never remove anything from it.
* `pkg6dev show-component` reads a makefile with `MakefileInclude` and then asks
  it for about fifteen variables; `ShowComponent` composes the command with
  `MakefileGet`, lookup by lookup. `MakefileGet` relies on every variable having
  a value, `ShowComponent` on its having only one; both follow from what is
  checked and proved of `MakefileInclude` (`HasOneValue`).
* `pkg6dev diff-component` reads manifests with the `Manifest` module's parser.
  An empty file is an error there, and that is what `DiffComponent` takes from
  it. The command's output manifest can be an input of the next command.

What is hard in this code: concurrent commands on one directory tree; commands
killed half-way that leave torn files for the next; a working directory that
belongs to the process and is moved by a recursion; two unguarded recursions;
text replaced in a copy while matches are taken from the original; a grammar
whose silent rules make code unreachable; commands whose output is their next
input. The hazards are listed in `PROJECT.json` at the line where each bites.

## 2. Modules and how they correspond to the code

### Ports

A process is a shell that runs `ports package` up to `MaxRuns` times. A step is
one system call on the shared tree, or one child process reading or writing one
file, so commands interleave as finely as the files allow.

| Action | Code |
|---|---|
| `RunCommand` | spec parsed, `Workspace::new` |
| `Fetch`, `Copy` | one round of `get_sources`: request and `File::create`, then `copy` |
| `SourcesReady`, `UnpackSource` | `unpack_all_sources`; extension check and gtar |
| `ExpandMacros` | `MacroParser::parse` of the build script |
| `CreateScript`, `WriteScript`, `SpawnBash` | `Workspace::build` up to `spawn` |
| `BashRereads`, `Install`, `BashExits` | the build script at work, `wait` |
| `ReadFile`, `RestoreCwd` | the loop of `Workspace::package` and its end |
| `PrintAction`, `CommandReturns` | `println!` of the manifest, piece by piece, and Ok |
| `Abort` | every `?`, every failing child, and a kill, at any step; the file being written may stay torn |

A file holds the url it was downloaded from, or the run that wrote it, or it is
absent, empty, torn, an error page or (for a path with two leading slashes,
of which `package` removes one) a file of the host. bash reads its script while it
runs it: if another command has touched `build_script.sh` since, `BashRereads` makes
what it runs torn. `output` is what has reached stdout; a kill during the print
leaves a beginning of it. `CreateScript` is `File::create` and the shebang line in
one step, because a script without a body does nothing either way. `specfile::parse` never
fills `sources`, so the pipeline runs with none; a second instance calls the
workspace with sources, as its own API allows.

`OwnPayloads` and `UnpackedDownloads` speak of a command that was not overlapped
by another (`overlapped` is a history variable). Without that premise both are
false, which follows from the missing lock; nothing in the repository promises
otherwise. `OwnPayloads` also leaves out a listed file that the script does not
install: `package` takes it from an earlier command. What holds of all commands,
overlapped ones and leftovers included, is `Provenance`: whatever is printed was
installed under that very path by the script of a command that was started, and a
torn file is printed only after some command was stopped or overlapped another
(`trouble`, a history variable). It fails if `package` looks a path up with its
leading slash, which names the host.

A kill ends the command and its children, as Ctrl-C does. A kill of the command
alone would leave bash at work in the proto area; the model has no such orphans.

### Packaging and PortsPackaging

`Packaging` is what the reader of the output of `ports package` may rely on,
without a workspace. A command first settles on a whole manifest (`Settle`), an
action for every entry of `%files`; if no other command was active until then, the
listed files that the script installs are of this very build. Then it shows the
manifest action by action (`Show`) and returns Ok when all of it is out
(`Finish`). It may `Fail` at any time; what it has shown by then is a beginning of
the manifest it settled on, and nothing if it had not settled. `PortsPackaging`
maps `Ports` to it: a command has settled once the loop of `Workspace::package` is
over. A command that printed each action as soon as it has read its file would
violate the refinement, since the next read can fail. `PackagingSafe` is the
refinement without fairness, `ImplementsPackaging` with it.

### MakefileInclude

The lines of a makefile are records of the kind the grammar gives them. The
handlers behind `parse_string` are one action each. `parse_all` is a stack of
frames, `cwd` is the working directory. `ParseTarget` is what `target_name` does:
it takes everything up to the next colon, across lines. `PairMode` is `Set`
always, because `variable_add` is a silent rule (see the findings). Blank lines
are left out, and with them a file that has nothing else. A comment in a last line
without a newline is a line of the kind `other`, as it is for the grammar.

### MakefileGet

`get` and `get_first_value_of_variable_by_name` with the recursion through
`resolve_nested_variables` as a stack; a value is a sequence of tokens, each
literal text or a reference. `copies` are the `vars_copy` of the calls in
progress. `StackLimit` is the number of nested calls the stack of the thread has
room for; running out of it is the action `Overflow`.

### Manifest

The grammar is abstracted to whether it accepts a text and to the elements it
finds. The conversions are described by tables (`Fields`, `Flags`, `Rest`) and
one loop over the properties (`From`, a recursive function). A kind that `add_action` has only `todo!()` for,
and a digest that `from_str` refuses, end in `Panic`. A payload comes with the
property `split_property` makes of it. What stands behind a second equals sign is
dropped there and not part of the model, so `NothingElseLost` says nothing of it.

### DiffComponent

Commands and edits follow one another on a component directory. A path is a
sequence of atoms, some of which are references `$(NAME)`. `order` is the order
in which the `HashMap` of replacements happens to be iterated. `Substitute` works
atom by atom: that two pieces together read as a reference, as in `$($(A))`, is
left out. The output file
may be any file, a manifest of the directory included. `origin` is a history
variable: who wrote each file last, and what it was to hold. `OutputReadsBack`
compares a file with it at any later time, `PanicHasCause` traces a panic back to
an edit, a kill, or a command that broke its own output. `scenario` is not part of
the program: it selects what a run tries, several commands and edits without
replacements or one command with them.

### ShowComponent

The command from the parsed makefile on. The module extends `MakefileGet`: the
state of a lookup is part of its state. `Lookups` is the list of the lookups in
their order; `Ask` calls one, `LookupStep` is a step of it, so a lookup can
exhaust the stack, and what follows looks at its result. Every step of the command
is a step of `MakefileGet` or leaves its state alone (`ShowLooksUp`).

| Action | Code |
|---|---|
| `Keep`, `NoVersion` | `new_from_makefile` up to the build style |
| `NoSource`, `Build` | the rest of it: source, revision, build style, options |
| `PrintVariable`, `TakeName` | one `if let` of `show_component_info` |
| `AskRepology`, `RepologyPanics` | `find_newest_version` and what is printed of it |
| `PrintComponent` | the last line, Ok |

Values that parse as a version, a number or a url are sets of values; versions in
an answer of repology are numbers in their order, 0.0.1 being the number
`FallbackVersion`.

### SpecFile

The grammar is a PEG: an item is taken or refused for good. It works on the lines
of the file, each of a kind that its characters give it (`Take...`, `SkipBlank`,
`GrammarFails`); then the loop over the pairs fills the spec (`SetVariable`,
`AddTextSection`, `AddFiles`, `SkipComments`, `Panics`). The properties are about
the layout of the file, line by line, and know nothing of the grammar
(`HeadedBy`, `TopLevel`).

### Macros

A line of the build script is a sequence of tokens. A single space (`blank`) and a
tab or longer run (`blanks`) are different tokens: the code puts a single space
for either behind a word, and nothing behind a macro. `Accepted` is the rule `file`
of the grammar, the actions are the arms of the loop over its pairs.

## 3. Runs

| Run | Bounds | Properties |
|---|---|---|
| `ports_pipeline` | 2 shells, 2 commands each, 2 specs, 2 paths, no sources | `TypeOK`, `OwnPayloads`, `ManifestComplete`, `Provenance`, `PackagingSafe` |
| `ports_sources` | 2 shells, 1 command each, 2 sources per spec, 3 urls on 2 names, 1 path | `UnpackedDownloads`, `ImplementsPackaging` |
| `makefile_get` | every makefile of 3 variables with a value of up to 2 tokens, some with more; stack of 4 | `TypeOK`, `Resolved`, `OverflowOnlyOnCycle`, `MatchesExpansion`, `LookupEnds` |
| `makefile_include` | 3 makefiles in 2 directories, up to 3 + 2 + 2 lines; every makefile of up to 4 lines of 9 sorts; stack of 3 | `TypeOK`, `IncludesOfOwnDir`, `OverflowOnlyOnIncludeCycle`, `HasOneValue`, `LastDefinitionWins`, `ReadingEnds` |
| `manifest_parse` | every action of up to 2 properties and any payload, some of 3, and sequences of up to 4 actions | `TypeOK`, `NothingElseLost`, `DigestRoundTrip` |
| `diff_commands` | 90 directories, up to 3 commands and edits; 12 directories, 1 command with every list of up to 3 replacements | `TypeOK`, `CoveredAfterwards`, `OutputReadsBack`, `PanicHasCause`, `ReportsAgree`, `OrderIrrelevant`, `CommandEnds` |
| `spec_file` | every file of up to 4 lines of 11 sorts, up to 6 lines of 5 sorts | `TypeOK`, `SectionsByLayout`, `LastSettingWins`, `PanicExplained` |
| `macros_lines` | every line of up to 5 tokens, every 2 lines of up to 2 tokens, single blanks and runs among them | `TypeOK`, `NothingLost`, `BlanksKeptIfWellSpaced` |
| `show_component` | makefiles of up to 12 variables that differ in up to 3 from a complete one; answers of up to 2 versions; stack of 3 | `ShowTypeOK`, `OutputComplete`, `ComponentAsPrinted`, `NewestIsHighest`, `CommandEnds` |
| `makefile_add`, `diff_placed`, `macros_plain` | as above | findings, see section 6 |

Why the bounds are enough to meet the hard cases. Two shells with one command
each give a command that runs alone after one that was killed, and two that
overlap at every step; with two commands each, also what the same shell left
behind. The invariants of these two runs are proved for every bound as well. Two sources of one file name give the collision, two of
different names the normal case. Three makefiles in two directories give a
diamond, a cycle of every length, and a string that names different files from
different directories. Three variables give a chain, a diamond and every cycle,
and values with the same reference twice. Three commands are what it takes for an
output manifest to be written, erased and tripped over. Six lines hold two
sections of one name with their text and a blank line between; five tokens hold a
macro with a word and a blank on either side. Three changed variables are what
decides between archive, git repository and no source; `BUILD_BITS`, looked up late
and only for the report, may refer to itself, so that the stack is exhausted in the
middle of the report. The shells are
interchangeable, so the run of `Ports` without liveness uses symmetry.

Deadlock is not checked: a command-line program stops, and the number of
commands is bounded.

Reference definitions. `MatchesExpansion` compares `get`, with its stack, its
copies and its matches, with an expansion in one piece (`Expansion` in
`MakefileGet`): references followed level by level, all replaced at once; `Ending`
are the variables for which some level is the last. `LastDefinitionWins` compares
the parser and `parse_all` with what the text gives (`Definitions` in
`MakefileInclude`): the lines at which something starts (`Starts`), and for every
variable the last definition among them or else the last include that gives one
(`Given`). Both are recursive functions over levels, not RECURSIVE operators, so
that they can be proved about.

## 4. Fairness

`Ports` assumes weak fairness of the steps of each started command: downloads
have a timeout, the children are assumed to end, and no step waits for another
command. Nobody has to start a command. `Abort` is one of these steps, so a
command that is stuck may end by it; the fairness of `Packaging`, which
`ImplementsPackaging` derives from this, says that no command goes on for ever.
`MakefileGet`, `MakefileInclude`, `DiffComponent` and `ShowComponent` are
sequential code: a step that can be taken is taken. The one request that
`ShowComponent` makes has a timeout.

## 5. Proofs

`PortsProofs` proves, for any set of shells, specs, urls, names and paths and any
`MaxRuns`:

* `TypeCorrect`: `Spec => []TypeOK`
* `PayloadsAreOwn`: `Spec => []OwnPayloads`
* `ManifestsComplete`: `Spec => []ManifestComplete`
* `PrintedFilesHaveOrigin`: `Spec => []Provenance`
* `UnpacksDownloads`: `Spec => []UnpackedDownloads`

from the assumptions `ConstantTypes` and `ContentsDistinct` of `Ports`. The
inductive invariant `IInv` (end of `Ports.tla`) adds to them:

* `AloneInv`: a command that was never overlapped is the only one active. It
  turns "nobody interfered so far" into "nobody can interfere in this step".
* `LocalInv`: facts about one command, whatever the others do: where the loop
  counters stand, what is in hand, what bash has left to do.
* `DownloadInv`: what a lone command finds below `sources`: for every name the
  last download made, or an error page, and the empty file it just created.
* `BuildInv`: what a lone command finds of its script and in the proto area: what
  bash has installed so far is its own.
* `ManifestInv`: the manifest so far is as long as the loop has gone, and each
  entry is good.
* `OutputInv`: the output is a beginning of the manifest, and all of it after Ok.

`OwnPayloads` alone is not inductive: it says nothing until the command
prints. The proof goes action by action. `OnlyStepIInv` does the common part: a
step of one command that keeps the invariant for that command keeps it for all,
because the others are either untouched or were overlapped.

`Provenance` needs a second invariant, `OriginInv`, which is inductive together with
`IInv`: the script on disk, every file of the proto area, the script each bash
reads with what it has left to install, and every action of a manifest in progress
come from a command that was started, or are torn and there was trouble. That a
command was started, and with which spec if it is the latest of its shell, stays
true when others start (`OriginsStay`); a script can change under a bash only if
the two commands overlapped (`NotAlone`).

The same module proves `RefinesPackaging`: `Spec => PackagingSafe`, from the same
two assumptions and `IInv`. The initial states map to initial states
(`InitPackaging`). `RunCommand` is a `Start` (`RunCommandStarts`), `PrintAction` a
`Show` (`PrintActionShows`), `CommandReturns` a `Finish` (`CommandReturnsFinishes`),
`Abort` a `Fail` (`AbortFails`), and the steps on the workspace are hidden
(`OtherStepsHidden`). `RestoreCwd` is a `Settle` (`RestoreCwdSettles`): that the
manifest is whole and its payloads are allowed is where `ManifestInv` and the
invariants under it are needed; that what is shown is what was settled on is
`OutputInv`.

### The other components

Each proof module extends the module of its component. The theorems hold for
every value of the constants that satisfies the assumptions named; TLC
evaluates them in the component's runs. Every invariant below was also checked by
TLC on the component's run, `GivesInv` on somewhat smaller makefiles and with its
quantifiers over levels and line numbers bounded.

| Module | Theorems (`Spec => []...`) | Assumption | Inductive invariant |
|---|---|---|---|
| `LookupProofs` | `NoOverflowWithoutCycle` (`OverflowOnlyOnCycle`), `LookupTypeCorrect` (`TypeOK`), `ResultsResolved` (`Resolved`), `LookupsExpand` (`MatchesExpansion`) | `MakefileTypes` | `DepthInv`, `CopyInv` |
| `LookupProofs`, of `ShowSpec` | `ShowLooksUp` (`Init /\ [][Next]_vars` of the lookups), `ShowTypeCorrect` (`ShowTypeOK`), `ReportComplete` (`OutputComplete`), `ReportAgrees` (`ComponentAsPrinted`), `NewestCorrect` (`NewestIsHighest`) | `MakefileTypes`, `ShowComponentTypes` | `ShowInv` |
| `MakefileIncludeProofs` | `IncludeTypeCorrect` (`TypeOK`), `OwnDirectory` (`IncludesOfOwnDir`), `OneValueEach` (`HasOneValue`), `NoOverflowWithoutIncludeCycle` (`OverflowOnlyOnIncludeCycle`), `LastWins` (`LastDefinitionWins`) | `TreeTypes` | `ReadInv`, `DepthInv`, `GivesInv` |
| `ManifestProofs` | `ManifestTypeCorrect` (`TypeOK`), `DigestsRoundTrip` (`DigestRoundTrip`), `NothingElseForgotten` (`NothingElseLost`) | `ManifestTypes` | `ManifestInv` |
| `DiffComponentProofs` | `DiffTypeCorrect` (`TypeOK`), `ReportsAgreeWithManifests` (`ReportsAgree`), `OutputCoversSample` (`CoveredAfterwards`), `WrittenManifestReadsBack` (`OutputReadsBack`), `PanicsHaveCause` (`PanicHasCause`), `OrderChangesNothing` (`OrderIrrelevant`) | `DiffTypes` | `DiffInv` |
| `MacrosProofs` | `MacrosTypeCorrect` (`TypeOK`), `ExpansionKeepsParts` (`NothingLost`), `BlanksKeptExactly` (`BlanksKeptIfWellSpaced`) | `MacrosTypes` | `ExpandInv`, `SpacedInv` |
| `SpecFileProofs` | `SpecFileTypeCorrect` (`TypeOK`), `SectionsFollowLayout` (`SectionsByLayout`), `LastSettingTaken` (`LastSettingWins`), `PanicsExplained` (`PanicExplained`) | `SpecFileTypes` | `SpecInv` |

*Lookups.* `DepthInv`: the frames on the stack refer to one another in turn, so
under a ranking of the variables the ranks fall strictly along the stack, and it
is no deeper than the first rank allows. `CopyInv`: each call's copy is the
original value with the references up to the loop's position replaced by text
without references and the rest as it was (`Partly`), and each caller waits at a
reference to the variable of its callee (`Waits`). The text is the expansion of
the reference to the level that the stack leaves room for: a call with `n` calls
on the stack, its own included, resolves `StackLimit - n` levels (`Below`), and
what it has passed ends within them. One level more changes nothing of a variable
that ends, so what a call returns is what the caller's level asks for. `Resolved`
and `MatchesExpansion` alone speak of results only. The crucial lemma is
`ReplacesFirst`: the first match in the copy is the one the loop stands at in the
original, because what is before it has no match left.

*show-component.* `ShowInv`: the command has come to a lookup and has called that
one and no other (`AtInv`); what it has kept and what it has printed are, for the
lookups behind it and for no others, what the variables stand for (`GotInv`,
`PrintInv`, both in terms of one function of the makefile, `FirstText`); the
component is made of what was kept (`BuiltInv`), the latest version of the answer
(`NewestInv`). What a lookup returns is `MatchesExpansion`, which holds of the
command because of `ShowLooksUp`. `ReportAgrees` is then about two lookups of one
variable, at different times and by different operations: both are `FirstText`,
because the expansion of all values of a variable that has one value is the
expansion of its first (`OneLine`). That it has one is an assumption of
`ShowComponent` (`ShowComponentTypes`), and what `OneValueEach` proves of the
reader of makefiles. `NewestCorrect` needs that a sequence of numbers has an order
to be chosen (`Sortable`, by induction on its length).

The proof corrected the model in one place: the cases of `Source` overlapped for
a makefile with an archive but without COMPONENT_SRC, where TLC took the first and
the meaning of CASE leaves it open.

*Includes.* `ReadInv`: every makefile in a frame is one that was read (`Read`: its
includes are lines of the file, its variables have values), the children of a
frame are the first of its includes, resolved in its own directory, and the
working directory is that of the top frame whenever it has an include to open or
one being parsed (`TopOK`). The last part is what makes the chdir of a recursion
harmless: by the time a callee moves it, its caller has read all of its includes
(`AllRead`). `DepthInv` is as above, along includes.

`GivesInv`, for `LastWins`, says what has been read and merged so far. The parser
stands where the text has something start or at its end (`Boundary`), and the
makefile holds the last definitions and, in their order, the includes of the lines
before that (`Before`). A makefile in a frame was read to its end (`Whole`). What
a frame has merged is what the makefiles it has gone through give, the last one
first (`Folded`). `FrameGives` claims this for every level that the depth of the
frame leaves room for, and not for one level only: the caller then has it for
the level it asks for, and no level more changes the result.

*Manifests.* `ManifestInv`: every list of the manifest has as many typed actions,
of its own type, as elements of its kind were read (`Filled`), and the conversion
of each element is found in it at the place that the number of its like before it
gives (`Placed`).
Under it are lemmas on the loop of a conversion (`ConversionFunction`): what it
does with one property (`SetPropShows`), and that no later property but one of
the same slot undoes it (`SetPropKeeps`). The proof needed that two facet keys do
not share a name; the assumption says so, since the name of a facet is what
follows the first dot of its key, and what stands before it is the same for all.
It also says that no facet key is one of the keys with a field of their own, none
of which starts with `facet.`.

*diff-component.* `DiffInv`: the arguments of the command in progress
(`ArgsInv`), the reports as they follow from the directory as it still is
(`ReportInv`; after the sample itself was overwritten nothing is said), and what
the manifests and the output cover so far (`OutputInv`). `OriginInv`: every file
that nobody edited reads back as what its last writer meant, or as a beginning of it
while it is being written. `FaultInv`: a parse that failed has a manifest to show
for it that is still on disk as it was, since a command writes nothing before it
has parsed all; the cause is then read off `OriginInv`. `ReplaceAtOnce`: unless a
replacement's text holds a replaced reference, replacing one after another in any
order is replacing all at once; `OrderIrrelevant` follows.

*Macros.* `ExpandInv`: what has become of the line so far has the same parts as
the line up to there. `SpacedInv`: it is the line up to there, or it has diverged
from it for good (`Diverged`), and the latter exactly if a blank was misplaced or
a run of blanks collapsed.

*Spec files.* `SpecInv`: every pair is made of a line outside of sections and, for
a section, of the lines of the paragraph that follow it (`Makes`); the pairs come
in the order of the lines and, short of a multiline variable, leave out blank
lines only (`Origins`); no header stands before the grammar's position in its
paragraph (`GrammarInv`). The loop has passed over no pair it panics for
(`LoopInv`), every variable has the text of the last pair that sets it
(`VariableInv`), every section the shares of the pairs so far (`ContentInv`).
`LayoutIsShares` then shows, by induction over the pairs and within a section over
its lines, that the shares are what the layout gives line by line.

### Induction over data

The library's induction theorems cannot be instantiated by the provers here,
because their parameter is an operator. `Recursion` therefore states induction
for a *set* of numbers or of sequences (`SetInduction`, `SeqInduction`): the set
of those for which the claim holds is an ordinary set, and the lemma is cited like
any other. From it follow that a recursive function on an interval exists and
obeys its equation (`IntervalRecursion`, and `Iteration` for one over levels), what
flattening a sequence with one more element gives (`Flatten...`), and lemmas about
concatenating the images of the elements of a sequence (`Flat...`), which cover the
loops of the models.

### What is only model-checked

Liveness: `ImplementsPackaging` (its safety part is proved), `LookupEnds`,
`ReadingEnds` and both `CommandEnds`. Fairness is beyond the prover. Every invariant
of a passing run, and the safety part of the refinement, is proved.

## 6. Findings

* `makefile_add`: `X += b` replaces the value of `X`. The code has an arm that
  appends, but the grammar's `variable_add` is a silent rule and never reaches
  it.
* `diff_placed`: the output of `diff-component -m` has lines `file path=...` and
  not the missing file actions. An original path is lost, and with it the name
  under which the file is compared; a path with a blank loses its quotes and the
  output does not parse.
* `macros_plain`: a line of a build script without a macro is refused, and with it
  the script: `text*` in front of the grammar's `(text | text_with_macros)+` leaves
  nothing for it. The sample spec of the parser's own test has only such lines.

The invariants also describe what the code does where nothing in the repository
contradicts it plainly enough for a finding:

* `ReportsAgree`: with replacements, which are applied to one side of each
  comparison only, a file that sample manifest and manifest list in the same words
  can be reported as missing and as removed.
* `OutputComplete`: when repology knows no package of the name, `show-component`
  panics in `last().unwrap()` and the rest of the report is not printed. A lookup
  that exhausts the stack once the report has begun cuts it as well.
* `Options` in `ShowComponent`: the configure options of a component are the only
  part of it whose references are not resolved.

`SectionsByLayout` and `BlanksKeptIfWellSpaced` describe what the code does where
nothing in the repository says otherwise: sections of one name are glued together,
a header right behind text is text, a macro behind a word gets a blank in front
of it and loses the one behind, and a run of blanks or a tab, within quotes too,
becomes a single blank.

`CoveredAfterwards` describes, besides, that a second `diff-component -m` with the
output in the component directory erases what the first wrote; the empty file it
leaves makes the third panic, which is one of the causes `PanicHasCause` names.

## 7. Plan

Done: every module above with its runs, and the proofs of section 5.

What is left is what the prover cannot do here: that lookups, reading and
commands end. Each has a measure (the positions of the loops and the room that is
left on the stack), but the step from a measure to `~>` needs ENABLED and
fairness.

## 8. Not modelled

Cryptographic hashes (`Digest::from_bytes`), ELF inspection, HTTP, the contents
of archives, the wording of output and errors, the placeholders `pkg6`,
`pkg6repo` and `pkg6depotd`, and the derived `Diff` and serde code. The
characters of texts are abstract everywhere.

The image (`libips/src/image`): `open` reads a JSON file and `open_default` falls
back to an empty image; nothing writes the file and nothing calls them, so there
is no sequence of steps to check. `Payload::is_elf` has no caller either.

Of a spec file, `prep_script` and `install_script` are read and never run, and
`sources` is never filled. The tree that gtar unpacks into is not part of the
state of `Ports`: what the build script makes of it is external.
