------------------------------- MODULE Ports -------------------------------
(***************************************************************************)
(* The `ports package` command (ports/src/main.rs, run_package_command)    *)
(* and the Workspace it works in (ports/src/workspace.rs).                 *)
(*                                                                         *)
(* Every command opens Workspace::new(""), so all commands of a user share *)
(* one directory tree, ~/.ports/wks.  Nothing in it is locked and nothing  *)
(* in it is ever removed.  A command downloads its sources, unpacks them,  *)
(* writes build_script.sh, runs it with bash and reads the listed files    *)
(* out of the proto area into a manifest.                                  *)
(*                                                                         *)
(* A process here is a shell from which commands are started one after     *)
(* another; several processes run commands at the same time.  A step is    *)
(* one system call (or one child process reading or writing one file) on   *)
(* the shared tree.                                                        *)
(***************************************************************************)
EXTENDS Naturals, Sequences, FiniteSets

CONSTANTS
    Procs,        \* shells from which `ports package` is run
    MaxRuns,      \* bound: commands started from one shell
    Specs,        \* spec files
    Urls,         \* source urls
    Names,        \* file names below <root>/sources
    Paths,        \* paths below <root>/build/proto
    SourcesOf,    \* SpecFile.sources of a spec
    FilesOf,      \* SpecFile.files of a spec
    InstallsOf,   \* the paths the build script of a spec installs
    LocalName,    \* last path segment of a url
    Extractable,  \* names whose extension contains "tar"
    Absent,       \* no such file
    Empty,        \* a file just created: truncated, body not written
    Torn,         \* half written, or written by two writers at once
    ErrorPage,    \* the body of an HTTP error answer
    Host          \* a file outside the workspace

(***************************************************************************)
(* An entry of %files: the path and how many slashes it starts with.       *)
(* Workspace::package removes one slash and no more.                       *)
(***************************************************************************)
Entries == [slashes : 0..2, path : Paths]

(***************************************************************************)
(* One execution of the command.  A build script, and whatever it          *)
(* installs, is identified by the run that wrote the script.               *)
(***************************************************************************)
Runs == [proc : Procs, no : 1..MaxRuns, spec : Specs]

ASSUME ConstantTypes ==
    /\ MaxRuns \in Nat
    /\ Specs # {}
    /\ SourcesOf \in [Specs -> Seq(Urls)]
    /\ FilesOf \in [Specs -> Seq(Entries)]
    /\ InstallsOf \in [Specs -> SUBSET Paths]
    /\ LocalName \in [Urls -> Names]
    /\ Extractable \subseteq Names

ASSUME ContentsDistinct ==
    /\ {Absent, Empty, Torn, ErrorPage, Host} \cap (Runs \cup Urls) = {}
    /\ Absent \notin {Empty, Torn, ErrorPage, Host}
    /\ Empty \notin {Torn, ErrorPage, Host}
    /\ Torn \notin {ErrorPage, Host}
    /\ ErrorPage # Host

Archives   == Urls \cup {Absent, Empty, Torn, ErrorPage}
Scripts    == Runs \cup {Absent, Empty, Torn}
Payloads   == Runs \cup {Torn, Host}
ProtoFiles == Runs \cup {Absent, Torn}
FileActions == [path : Paths, payload : Payloads]
Labels     == {"idle", "get", "copy", "unpack", "script", "write", "spawn",
               "build", "package", "print"}

VARIABLES
    (* the shared workspace *)
    sources,     \* <root>/sources
    script,      \* <root>/build/i386/build_script.sh
    proto,       \* <root>/build/proto
    (* one command per process *)
    pc,          \* where run_package_command stands
    runNo,       \* commands started so far
    spec,        \* the spec file of the command
    k,           \* position in the sources, the files or the manifest
    body,        \* bytes of the download in hand
    running,     \* the script bash is reading, Absent while no bash runs
    todo,        \* what bash has still to install
    manifest,    \* the Manifest being put together
    output,      \* the actions printed so far
    result,      \* how the last command ended
    (* history, read by properties only *)
    unpacked,    \* what tar found in the archives, in order
    overlapped,  \* another command was active during this one
    trouble      \* a command has aborted, or two were active at once

workspace == <<sources, script, proto>>
vars == <<sources, script, proto, pc, runNo, spec, k, body, running, todo,
          manifest, output, result, unpacked, overlapped, trouble>>

(* Every variable has its type: no manifest lists a file that was not      *)
(* there, and tar accepted nothing but archives and empty files.           *)
TypeOK ==
    /\ sources \in [Names -> Archives]
    /\ script \in Scripts
    /\ proto \in [Paths -> ProtoFiles]
    /\ pc \in [Procs -> Labels]
    /\ runNo \in [Procs -> 0..MaxRuns]
    /\ spec \in [Procs -> Specs]
    /\ k \in [Procs -> Nat]
    /\ body \in [Procs -> Urls \cup {ErrorPage}]
    /\ running \in [Procs -> Scripts]
    /\ todo \in [Procs -> SUBSET Paths]
    /\ manifest \in [Procs -> Seq(FileActions)]
    /\ output \in [Procs -> Seq(FileActions)]
    /\ result \in [Procs -> {"none", "ok", "aborted"}]
    /\ unpacked \in [Procs -> Seq(Urls \cup {Empty})]
    /\ overlapped \in [Procs -> BOOLEAN]
    /\ trouble \in BOOLEAN

-----------------------------------------------------------------------------

Active(p)    == pc[p] # "idle"
Run(p)       == [proc |-> p, no |-> runNo[p], spec |-> spec[p]]
MySources(p) == SourcesOf[spec[p]]
MyFiles(p)   == FilesOf[spec[p]]
MySource(p)  == MySources(p)[k[p]]

(***************************************************************************)
(* What a file can hold once its writer has written `new`.  The writer     *)
(* truncated it first; if `old` is no longer Empty, somebody else wrote to *)
(* it since, and the longer of the two bodies shows through.               *)
(***************************************************************************)
Written(old, new) == IF old = Empty THEN {new} ELSE {new, Torn}

Init ==
    /\ sources = [n \in Names |-> Absent]
    /\ script = Absent
    /\ proto = [f \in Paths |-> Absent]
    /\ pc = [p \in Procs |-> "idle"]
    /\ runNo = [p \in Procs |-> 0]
    /\ spec = [p \in Procs |-> CHOOSE s \in Specs : TRUE]
    /\ k = [p \in Procs |-> 1]
    /\ body = [p \in Procs |-> ErrorPage]
    /\ running = [p \in Procs |-> Absent]
    /\ todo = [p \in Procs |-> {}]
    /\ manifest = [p \in Procs |-> <<>>]
    /\ output = [p \in Procs |-> <<>>]
    /\ result = [p \in Procs |-> "none"]
    /\ unpacked = [p \in Procs |-> <<>>]
    /\ overlapped = [p \in Procs |-> FALSE]
    /\ trouble = FALSE

(***************************************************************************)
(* run_package_command up to get_sources: the spec file is parsed and      *)
(* Workspace::new creates whatever directories are not there yet.          *)
(***************************************************************************)
RunCommand(p, s) ==
    /\ pc[p] = "idle"
    /\ runNo[p] < MaxRuns
    /\ pc' = [pc EXCEPT ![p] = "get"]
    /\ runNo' = [runNo EXCEPT ![p] = @ + 1]
    /\ spec' = [spec EXCEPT ![p] = s]
    /\ k' = [k EXCEPT ![p] = 1]
    /\ manifest' = [manifest EXCEPT ![p] = <<>>]
    /\ output' = [output EXCEPT ![p] = <<>>]
    /\ unpacked' = [unpacked EXCEPT ![p] = <<>>]
    /\ result' = [result EXCEPT ![p] = "none"]
    /\ overlapped' = [q \in Procs |->
                        IF q = p THEN \E r \in Procs \ {p} : Active(r)
                                 ELSE overlapped[q] \/ Active(q)]
    /\ trouble' = (trouble \/ \E r \in Procs \ {p} : Active(r))
    /\ UNCHANGED <<workspace, body, running, todo>>

(* Mutant: a file that is already there is taken for the download. *)
FetchReusing(p) ==
    /\ pc[p] = "get"
    /\ k[p] <= Len(MySources(p))
    /\ LET n == LocalName[MySource(p)] IN
       IF sources[n] = Absent
         THEN /\ \E b \in {MySource(p), ErrorPage} : body' = [body EXCEPT ![p] = b]
              /\ sources' = [sources EXCEPT ![n] = Empty]
              /\ pc' = [pc EXCEPT ![p] = "copy"]
              /\ UNCHANGED k
         ELSE k' = [k EXCEPT ![p] = @ + 1] /\ UNCHANGED <<body, sources, pc>>
    /\ UNCHANGED <<script, proto, runNo, spec, running, todo, manifest,
                   output, result, unpacked, overlapped, trouble>>

(***************************************************************************)
(* get_sources, one source: the answer is read into memory whatever its    *)
(* HTTP status, then File::create truncates the local file.                *)
(***************************************************************************)
Fetch(p) ==
    /\ pc[p] = "get"
    /\ k[p] <= Len(MySources(p))
    /\ \E b \in {MySource(p), ErrorPage} : body' = [body EXCEPT ![p] = b]
    /\ sources' = [sources EXCEPT ![LocalName[MySource(p)]] = Empty]
    /\ pc' = [pc EXCEPT ![p] = "copy"]
    /\ UNCHANGED <<script, proto, runNo, spec, k, running, todo, manifest,
                   output, result, unpacked, overlapped, trouble>>

(* get_sources, one source: copy() writes the bytes in hand. *)
Copy(p) ==
    /\ pc[p] = "copy"
    /\ LET n == LocalName[MySource(p)] IN
       \E c \in Written(sources[n], body[p]) :
           sources' = [sources EXCEPT ![n] = c]
    /\ k' = [k EXCEPT ![p] = @ + 1]
    /\ pc' = [pc EXCEPT ![p] = "get"]
    /\ UNCHANGED <<script, proto, runNo, spec, body, running, todo,
                   manifest, output, result, unpacked, overlapped, trouble>>

(* Mutant: the downloads start all over. *)
SourcesReadyRetrying(p) ==
    /\ pc[p] = "get"
    /\ k[p] > Len(MySources(p))
    /\ k' = [k EXCEPT ![p] = 1]
    /\ UNCHANGED <<workspace, pc, runNo, spec, body, running, todo,
                   manifest, output, result, unpacked, overlapped, trouble>>

(* get_sources returns; unpack_all_sources starts. *)
SourcesReady(p) ==
    /\ pc[p] = "get"
    /\ k[p] > Len(MySources(p))
    /\ k' = [k EXCEPT ![p] = 1]
    /\ pc' = [pc EXCEPT ![p] = "unpack"]
    /\ UNCHANGED <<workspace, runNo, spec, body, running, todo, manifest,
                   output, result, unpacked, overlapped, trouble>>

(***************************************************************************)
(* unpack_source succeeds: the extension contains "tar" and gtar exits     *)
(* with 0.  An empty file passes for an archive without members.           *)
(***************************************************************************)
UnpackSource(p) ==
    /\ pc[p] = "unpack"
    /\ k[p] <= Len(MySources(p))
    /\ LocalName[MySource(p)] \in Extractable
    /\ sources[LocalName[MySource(p)]] \in Urls \cup {Empty}
    /\ unpacked' = [unpacked EXCEPT
                      ![p] = Append(@, sources[LocalName[MySource(p)]])]
    /\ k' = [k EXCEPT ![p] = @ + 1]
    /\ UNCHANGED <<workspace, pc, runNo, spec, body, running, todo,
                   manifest, output, result, overlapped, trouble>>

(* All sources unpacked: the macros of the build script are expanded. *)
ExpandMacros(p) ==
    /\ pc[p] = "unpack"
    /\ k[p] > Len(MySources(p))
    /\ pc' = [pc EXCEPT ![p] = "script"]
    /\ UNCHANGED <<workspace, runNo, spec, k, body, running, todo, manifest,
                   output, result, unpacked, overlapped, trouble>>

(* Mutant: the script is opened without truncating it. *)
CreateScriptKeeping(p) ==
    /\ pc[p] = "script"
    /\ script' = IF script = Absent THEN Empty ELSE script
    /\ pc' = [pc EXCEPT ![p] = "write"]
    /\ UNCHANGED <<sources, proto, runNo, spec, k, body, running, todo,
                   manifest, output, result, unpacked, overlapped, trouble>>

(***************************************************************************)
(* Workspace::build: File::create, and the shebang line.  Empty stands for *)
(* a script without a body, with or without its first line: bash does      *)
(* nothing with either.                                                    *)
(***************************************************************************)
CreateScript(p) ==
    /\ pc[p] = "script"
    /\ script' = Empty
    /\ pc' = [pc EXCEPT ![p] = "write"]
    /\ UNCHANGED <<sources, proto, runNo, spec, k, body, running, todo,
                   manifest, output, result, unpacked, overlapped, trouble>>

(* Workspace::build: write_all of the expanded build script. *)
WriteScript(p) ==
    /\ pc[p] = "write"
    /\ script' \in Written(script, Run(p))
    /\ pc' = [pc EXCEPT ![p] = "spawn"]
    /\ UNCHANGED <<sources, proto, runNo, spec, k, body, running, todo,
                   manifest, output, result, unpacked, overlapped, trouble>>

(***************************************************************************)
(* Workspace::build spawns bash, which opens the script that is there now. *)
(* The script of a run installs that run's paths, one without a body       *)
(* installs nothing and succeeds, a torn one may touch anything.           *)
(***************************************************************************)
SpawnBash(p) ==
    /\ pc[p] = "spawn"
    /\ running' = [running EXCEPT ![p] = script]
    /\ \E T \in CASE script \in Runs -> {InstallsOf[script.spec]}
                  [] script = Torn   -> SUBSET Paths
                  [] OTHER           -> {{}} :
           todo' = [todo EXCEPT ![p] = T]
    /\ pc' = [pc EXCEPT ![p] = "build"]
    /\ UNCHANGED <<workspace, runNo, spec, k, body, manifest, output,
                   result, unpacked, overlapped, trouble>>

(***************************************************************************)
(* bash reads a script piece by piece while it runs it.  If another        *)
(* command has truncated or rewritten build_script.sh since, what bash     *)
(* reads next is neither script, and may touch anything.                   *)
(***************************************************************************)
BashRereads(p) ==
    /\ pc[p] = "build"
    /\ running[p] \notin {script, Torn}
    /\ running' = [running EXCEPT ![p] = Torn]
    /\ \E T \in SUBSET Paths : todo' = [todo EXCEPT ![p] = T]
    /\ UNCHANGED <<workspace, pc, runNo, spec, k, body, manifest, output,
                   result, unpacked, overlapped, trouble>>

(* The build script installs one more file into the proto area. *)
Install(p) ==
    /\ pc[p] = "build"
    /\ \E f \in todo[p] :
        /\ proto' = [proto EXCEPT ![f] = running[p]]
        /\ todo' = [todo EXCEPT ![p] = @ \ {f}]
    /\ UNCHANGED <<sources, script, pc, runNo, spec, k, body, running,
                   manifest, output, result, unpacked, overlapped, trouble>>

(* bash exits with 0; package starts in the proto directory. *)
BashExits(p) ==
    /\ pc[p] = "build"
    /\ todo[p] = {}
    /\ k' = [k EXCEPT ![p] = 1]
    /\ running' = [running EXCEPT ![p] = Absent]
    /\ pc' = [pc EXCEPT ![p] = "package"]
    /\ UNCHANGED <<workspace, runNo, spec, body, todo, manifest, output,
                   result, unpacked, overlapped, trouble>>

(* Mutant: the leading slash is not removed. *)
ReadFromAsListed(e) == IF e.slashes = 0 THEN proto[e.path] ELSE Host

(***************************************************************************)
(* What File::read_from_path finds for an entry of %files: with one slash  *)
(* or none a file of the proto area, with a slash left over after the      *)
(* first is removed a file of the host.                                    *)
(***************************************************************************)
ReadFrom(e) == IF e.slashes <= 1 THEN proto[e.path] ELSE Host

(* Mutant: a file that is not there gets an action all the same. *)
ReadFileUnchecked(p) ==
    /\ pc[p] = "package"
    /\ k[p] <= Len(MyFiles(p))
    /\ LET e == MyFiles(p)[k[p]] IN
       manifest' = [manifest EXCEPT
         ![p] = Append(@, [path |-> e.path, payload |-> ReadFrom(e)])]
    /\ k' = [k EXCEPT ![p] = @ + 1]
    /\ UNCHANGED <<workspace, pc, runNo, spec, body, running, todo, output,
                   result, unpacked, overlapped, trouble>>

(* Mutant: a file that is not there is skipped. *)
ReadFileSkipping(p) ==
    /\ pc[p] = "package"
    /\ k[p] <= Len(MyFiles(p))
    /\ LET e == MyFiles(p)[k[p]] IN
       manifest' = IF ReadFrom(e) = Absent THEN manifest ELSE
         [manifest EXCEPT
            ![p] = Append(@, [path |-> e.path, payload |-> ReadFrom(e)])]
    /\ k' = [k EXCEPT ![p] = @ + 1]
    /\ UNCHANGED <<workspace, pc, runNo, spec, body, running, todo, output,
                   result, unpacked, overlapped, trouble>>

(* Mutant: each action is printed as soon as its file has been read. *)
ReadFilePrinting(p) ==
    /\ pc[p] = "package"
    /\ k[p] <= Len(MyFiles(p))
    /\ LET e == MyFiles(p)[k[p]]
           action == [path |-> e.path, payload |-> ReadFrom(e)] IN
        /\ ReadFrom(e) # Absent
        /\ manifest' = [manifest EXCEPT ![p] = Append(@, action)]
        /\ output' = [output EXCEPT ![p] = Append(@, action)]
    /\ k' = [k EXCEPT ![p] = @ + 1]
    /\ UNCHANGED <<workspace, pc, runNo, spec, body, running, todo, result,
                   unpacked, overlapped, trouble>>

(* Workspace::package, one entry: read_from_path succeeds. *)
ReadFile(p) ==
    /\ pc[p] = "package"
    /\ k[p] <= Len(MyFiles(p))
    /\ LET e == MyFiles(p)[k[p]] IN
        /\ ReadFrom(e) # Absent
        /\ manifest' = [manifest EXCEPT
             ![p] = Append(@, [path |-> e.path, payload |-> ReadFrom(e)])]
    /\ k' = [k EXCEPT ![p] = @ + 1]
    /\ UNCHANGED <<workspace, pc, runNo, spec, body, running, todo, output,
                   result, unpacked, overlapped, trouble>>

(* Workspace::package leaves its loop: every listed file has been read. *)
RestoreCwd(p) ==
    /\ pc[p] = "package"
    /\ k[p] > Len(MyFiles(p))
    /\ k' = [k EXCEPT ![p] = 1]
    /\ pc' = [pc EXCEPT ![p] = "print"]
    /\ UNCHANGED <<workspace, runNo, spec, body, running, todo, manifest,
                   output, result, unpacked, overlapped, trouble>>

(***************************************************************************)
(* println! of the manifest: it reaches stdout piece by piece, so whoever  *)
(* stops the command in the middle leaves the first actions only.          *)
(***************************************************************************)
PrintAction(p) ==
    /\ pc[p] = "print"
    /\ k[p] <= Len(manifest[p])
    /\ output' = [output EXCEPT ![p] = Append(@, manifest[p][k[p]])]
    /\ k' = [k EXCEPT ![p] = @ + 1]
    /\ UNCHANGED <<workspace, pc, runNo, spec, body, running, todo, manifest,
                   result, unpacked, overlapped, trouble>>

(* println! is done; package and with it the command return Ok. *)
CommandReturns(p) ==
    /\ pc[p] = "print"
    /\ k[p] > Len(manifest[p])
    /\ pc' = [pc EXCEPT ![p] = "idle"]
    /\ result' = [result EXCEPT ![p] = "ok"]
    /\ UNCHANGED <<workspace, runNo, spec, k, body, running, todo, manifest,
                   output, unpacked, overlapped, trouble>>

(***************************************************************************)
(* The command ends early: an error returned with `?` (no network, a bad   *)
(* url, a source that is no tar archive, a missing macro, a child that     *)
(* exits with another code than 0, a listed file that is not there, a full *)
(* disk), a panic of println! (the reader of stdout is gone), or the       *)
(* process and its children are killed.  Everything written or printed so  *)
(* far stays, the file being written possibly half written.                *)
(***************************************************************************)
Abort(p) ==
    /\ Active(p)
    /\ sources' \in
         {sources} \cup
         (IF pc[p] = "copy"
            THEN {[sources EXCEPT ![LocalName[MySource(p)]] = Torn]} ELSE {})
    /\ script' \in {script} \cup (IF pc[p] = "write" THEN {Torn} ELSE {})
    /\ proto' \in
         {proto} \cup
         (IF pc[p] = "build"
            THEN {[proto EXCEPT ![f] = Torn] : f \in todo[p]} ELSE {})
    /\ pc' = [pc EXCEPT ![p] = "idle"]
    /\ result' = [result EXCEPT ![p] = "aborted"]
    /\ running' = [running EXCEPT ![p] = Absent]
    /\ todo' = [todo EXCEPT ![p] = {}]
    /\ trouble' = TRUE
    /\ UNCHANGED <<runNo, spec, k, body, manifest, output, unpacked,
                   overlapped>>

Step(p) ==
    \/ Fetch(p)
    \/ Copy(p)
    \/ SourcesReady(p)
    \/ UnpackSource(p)
    \/ ExpandMacros(p)
    \/ CreateScript(p)
    \/ WriteScript(p)
    \/ SpawnBash(p)
    \/ BashRereads(p)
    \/ Install(p)
    \/ BashExits(p)
    \/ ReadFile(p)
    \/ RestoreCwd(p)
    \/ PrintAction(p)
    \/ CommandReturns(p)
    \/ Abort(p)

Next == \E p \in Procs : Step(p) \/ \E s \in Specs : RunCommand(p, s)

(***************************************************************************)
(* A command that has been started keeps going: the download has a         *)
(* timeout, gtar and the build script are assumed to end, and nothing in   *)
(* the command waits for another command.  Nobody has to start one.        *)
(***************************************************************************)
Fairness == \A p \in Procs : WF_vars(Step(p))

Spec == Init /\ [][Next]_vars /\ Fairness
-----------------------------------------------------------------------------
(* Properties *)

(***************************************************************************)
(* A command that runs alone prints what its own build script installed:   *)
(* Workspace::build rewrites build_script.sh and overwrites whatever       *)
(* earlier commands, finished, failed or killed, left in the proto area.   *)
(* It holds of output that was cut, too.  Nothing is said of a listed file *)
(* the script does not install: see Provenance.                            *)
(***************************************************************************)
OwnPayloads ==
    \A p \in Procs : ~overlapped[p] =>
        \A i \in 1..Len(output[p]) :
            /\ MyFiles(p)[i].slashes <= 1
            /\ MyFiles(p)[i].path \in InstallsOf[spec[p]]
            => output[p][i].payload = Run(p)

(***************************************************************************)
(* Whatever other commands did meanwhile, and wherever this one was        *)
(* stopped, its output follows the entries of %files in the order of the   *)
(* spec, and a command that returns Ok has printed them all:               *)
(* Workspace::package never prints after skipping an entry.                *)
(***************************************************************************)
ManifestComplete ==
    \A p \in Procs :
        /\ Len(output[p]) <= Len(MyFiles(p))
        /\ \A i \in 1..Len(output[p]) :
               output[p][i].path = MyFiles(p)[i].path
        /\ result[p] = "ok" => Len(output[p]) = Len(MyFiles(p))

(* A command that has been started, with the spec file it was given if it  *)
(* is the latest of its shell.                                             *)
Started(c) ==
    /\ c \in Runs
    /\ c.no <= runNo[c.proc]
    /\ c.no = runNo[c.proc] => c.spec = spec[c.proc]

(* c can have been installed as f. *)
Installed(f, c) ==
    \/ Started(c) /\ f \in InstallsOf[c.spec]
    \/ c = Torn /\ trouble

(***************************************************************************)
(* Whatever is printed for an entry, leftovers of earlier commands and     *)
(* files of concurrent ones included, the build script of a command that   *)
(* was started installed under that very path: Workspace::package never    *)
(* takes a file of the host for one of the proto area.  A file that is     *)
(* half written or put together from two commands is printed only after a  *)
(* command was stopped or overlapped another.  Entries with two leading    *)
(* slashes are the exception: they name the host.                          *)
(***************************************************************************)
Provenance ==
    \A p \in Procs : \A i \in 1..Len(output[p]) :
        MyFiles(p)[i].slashes <= 1
        => Installed(output[p][i].path, output[p][i].payload)

(* Among the first m sources of S, the j-th is the last one stored under    *)
(* the file name of the i-th.                                              *)
LastOfName(S, j, i, m) ==
    /\ j <= m
    /\ LocalName[S[j]] = LocalName[S[i]]
    /\ \A h \in j+1..m : LocalName[S[h]] # LocalName[S[i]]

(***************************************************************************)
(* A command that runs alone unpacks what it downloaded itself, even when  *)
(* an earlier command left a half-written archive of that name: get_sources*)
(* never reuses a file.  Of two sources with the same file name the last   *)
(* download is what is unpacked, twice.                                    *)
(***************************************************************************)
UnpackedDownloads ==
    \A p \in Procs :
        ~overlapped[p] =>
            \A i \in 1..Len(unpacked[p]), j \in 1..Len(MySources(p)) :
                LastOfName(MySources(p), j, i, Len(MySources(p)))
                => unpacked[p][i] = MySources(p)[j]

-----------------------------------------------------------------------------
(***************************************************************************)
(* The inductive invariant behind the properties (PortsProofs).            *)
(***************************************************************************)

Alone(p) == Active(p) /\ ~overlapped[p]

(* A command that has not been overlapped is the only one active. *)
AloneInv ==
    \A p, q \in Procs : Alone(p) /\ q # p => ~Active(q)

(* Facts about one command that hold whatever the others do. *)
LocalAt(p) ==
    /\ Active(p) => runNo[p] # 0 /\ result[p] # "ok"
    /\ pc[p] # "build" => todo[p] = {}
    /\ todo[p] # {} => running[p] \in Runs \cup {Torn}
    /\ k[p] # 0
    /\ pc[p] = "copy" => /\ k[p] <= Len(MySources(p))
                         /\ body[p] \in {MySource(p), ErrorPage}
    /\ pc[p] = "get" => k[p] <= Len(MySources(p)) + 1
    /\ pc[p] \in {"get", "copy"} => unpacked[p] = <<>>
    /\ pc[p] = "unpack" => Len(unpacked[p]) = k[p] - 1

LocalInv == \A p \in Procs : LocalAt(p)

(* What a command running alone finds below <root>/sources. *)
DownloadAt(p) ==
    /\ pc[p] = "copy" => sources[LocalName[MySource(p)]] = Empty
    /\ pc[p] \in {"get", "copy"} =>
         \A j \in 1..k[p]-1 :
            /\ LastOfName(MySources(p), j, j, k[p] - 1)
            /\ pc[p] = "copy" =>
                 LocalName[MySource(p)] # LocalName[MySources(p)[j]]
            => sources[LocalName[MySources(p)[j]]]
                  \in {MySources(p)[j], ErrorPage}
    /\ pc[p] = "unpack" =>
         \A j \in 1..Len(MySources(p)) :
            LastOfName(MySources(p), j, j, Len(MySources(p)))
            => sources[LocalName[MySources(p)[j]]]
                  \in {MySources(p)[j], ErrorPage}

DownloadInv == \A p \in Procs : Alone(p) => DownloadAt(p)

(* What a command running alone finds in the build and proto areas. *)
BuildAt(p) ==
    /\ pc[p] = "write" => script = Empty
    /\ pc[p] = "spawn" => script = Run(p)
    /\ pc[p] = "build" => script = Run(p) /\ running[p] = Run(p)
    /\ pc[p] \in {"build", "package"} =>
         \A f \in InstallsOf[spec[p]] \ todo[p] : proto[f] = Run(p)

BuildInv == \A p \in Procs : Alone(p) => BuildAt(p)

(* The manifest so far. *)
GoodEntry(p, i) ==
    /\ manifest[p][i].path = MyFiles(p)[i].path
    /\ /\ ~overlapped[p]
       /\ MyFiles(p)[i].slashes <= 1
       /\ MyFiles(p)[i].path \in InstallsOf[spec[p]]
       => manifest[p][i].payload = Run(p)

ManifestAt(p) ==
    /\ pc[p] \in Labels \ {"idle", "package", "print"} => manifest[p] = <<>>
    /\ pc[p] = "package" => Len(manifest[p]) = k[p] - 1
    /\ pc[p] = "print" => Len(manifest[p]) = Len(MyFiles(p))
    /\ Len(manifest[p]) <= Len(MyFiles(p))
    /\ \A i \in 1..Len(manifest[p]) : GoodEntry(p, i)

ManifestInv == \A p \in Procs : ManifestAt(p)

(* The output is a beginning of the manifest. *)
OutputAt(p) ==
    /\ pc[p] \in Labels \ {"idle", "print"} => output[p] = <<>>
    /\ pc[p] = "print" => Len(output[p]) = k[p] - 1
    /\ result[p] = "ok" => Len(output[p]) = Len(MyFiles(p))
    /\ Len(output[p]) <= Len(manifest[p])
    /\ \A i \in 1..Len(output[p]) : output[p][i] = manifest[p][i]

OutputInv == \A p \in Procs : OutputAt(p)

IInv ==
    /\ TypeOK
    /\ AloneInv
    /\ LocalInv
    /\ DownloadInv
    /\ BuildInv
    /\ ManifestInv
    /\ OutputInv
    /\ UnpackedDownloads

(***************************************************************************)
(* Where the contents of scripts, files and manifests come from.  Together *)
(* with IInv it is inductive, and it implies Provenance.                   *)
(***************************************************************************)
ScriptOrigin ==
    /\ script \in Runs => Started(script)
    /\ script = Torn => trouble

ProtoOrigin == \A f \in Paths : proto[f] # Absent => Installed(f, proto[f])

OriginAt(p) ==
    /\ overlapped[p] => trouble
    /\ running[p] \in Runs => /\ Started(running[p])
                              /\ todo[p] \subseteq InstallsOf[running[p].spec]
    /\ running[p] = Torn => trouble
    /\ \A i \in 1..Len(manifest[p]) :
           MyFiles(p)[i].slashes <= 1
           => Installed(manifest[p][i].path, manifest[p][i].payload)

OriginInv ==
    /\ ScriptOrigin
    /\ ProtoOrigin
    /\ \A p \in Procs : OriginAt(p)
=============================================================================
