---------------------------- MODULE PortsProofs ----------------------------
(***************************************************************************)
(* Proofs about Ports: IInv is an inductive invariant, and with it the     *)
(* safety properties hold, and Ports implements the safety part of         *)
(* Packaging, for any number of shells, commands, specs, sources and       *)
(* files.                                                                  *)
(***************************************************************************)
EXTENDS PortsPackaging, TLAPS

(* A step of another process leaves the command of q alone. *)
SameAt(q) ==
    /\ pc'[q] = pc[q]
    /\ runNo'[q] = runNo[q]
    /\ spec'[q] = spec[q]
    /\ k'[q] = k[q]
    /\ body'[q] = body[q]
    /\ running'[q] = running[q]
    /\ todo'[q] = todo[q]
    /\ manifest'[q] = manifest[q]
    /\ output'[q] = output[q]
    /\ result'[q] = result[q]
    /\ unpacked'[q] = unpacked[q]

(* UnpackedDownloads for one process. *)
UnpackedAt(p) ==
    ~overlapped[p] =>
        \A i \in 1..Len(unpacked[p]), j \in 1..Len(MySources(p)) :
            LastOfName(MySources(p), j, i, Len(MySources(p)))
            => unpacked[p][i] = MySources(p)[j]

(***************************************************************************)
(* What the invariant says of a command apart from the shared workspace    *)
(* survives a step that leaves the command alone: the commands share       *)
(* nothing but the tree below ~/.ports/wks.                                *)
(***************************************************************************)
LEMMA Frame ==
    ASSUME NEW q \in Procs, SameAt(q), overlapped[q] => overlapped'[q]
    PROVE  /\ LocalAt(q) => LocalAt(q)'
           /\ ManifestAt(q) => ManifestAt(q)'
           /\ OutputAt(q) => OutputAt(q)'
           /\ UnpackedAt(q) => UnpackedAt(q)'
<1>1. LocalAt(q) => LocalAt(q)'
  BY DEF SameAt, LocalAt, Active, MySources, MySource
<1>2. ManifestAt(q) => ManifestAt(q)'
  BY DEF SameAt, ManifestAt, GoodEntry, MyFiles, Run
<1>3. UnpackedAt(q) => UnpackedAt(q)'
  BY DEF SameAt, UnpackedAt, LastOfName, MySources
<1>4. OutputAt(q) => OutputAt(q)'
  BY DEF SameAt, OutputAt, MyFiles
<1>5. QED
  BY <1>1, <1>2, <1>3, <1>4

(* A step of p alone: it is inside a command and touches no other. *)
OnlyStep(p) ==
    /\ Active(p)
    /\ \A q \in Procs \ {p} : SameAt(q)
    /\ \A q \in Procs : overlapped'[q] = overlapped[q]

(* The part of the invariant that a step of p has to establish. *)
AtInv(p) ==
    /\ TypeOK
    /\ LocalAt(p)
    /\ Alone(p) => DownloadAt(p)
    /\ Alone(p) => BuildAt(p)
    /\ ManifestAt(p)
    /\ OutputAt(p)
    /\ UnpackedAt(p)

(***************************************************************************)
(* A step inside the command of p preserves IInv if it does so for p: no   *)
(* other command is alone while p is active, and the rest is Frame.        *)
(***************************************************************************)
LEMMA OnlyStepIInv ==
    ASSUME IInv, NEW p \in Procs, OnlyStep(p), AtInv(p)'
    PROVE  IInv'
<1>1. \A q \in Procs \ {p} : ~Alone(q)'
  BY DEF IInv, AloneInv, Alone, Active, OnlyStep, SameAt
<1>2. AloneInv'
  <2>1. ASSUME NEW r \in Procs, Alone(p)', r # p
        PROVE  ~Active(r)'
    BY <2>1 DEF IInv, AloneInv, Alone, Active, OnlyStep, SameAt
  <2>2. QED
    BY <1>1, <2>1 DEF AloneInv
<1>3. \A q \in Procs \ {p} : LocalAt(q)' /\ ManifestAt(q)' /\ OutputAt(q)' /\ UnpackedAt(q)'
  <2>1. SUFFICES ASSUME NEW q \in Procs \ {p}
                 PROVE  LocalAt(q)' /\ ManifestAt(q)' /\ OutputAt(q)' /\ UnpackedAt(q)'
    OBVIOUS
  <2>2. SameAt(q) /\ (overlapped[q] => overlapped'[q])
    BY DEF OnlyStep
  <2>3. LocalAt(q) /\ ManifestAt(q) /\ OutputAt(q) /\ UnpackedAt(q)
    BY DEF IInv, LocalInv, ManifestInv, OutputInv, UnpackedDownloads, UnpackedAt
  <2>4. QED
    BY <2>2, <2>3, Frame
<1>4. LocalInv' /\ ManifestInv' /\ OutputInv'
  BY <1>3 DEF AtInv, LocalInv, ManifestInv, OutputInv
<1>5. UnpackedDownloads'
  BY <1>3 DEF AtInv, UnpackedDownloads, UnpackedAt
<1>6. DownloadInv' /\ BuildInv'
  BY <1>1 DEF AtInv, DownloadInv, BuildInv
<1>7. QED
  BY <1>2, <1>4, <1>5, <1>6 DEF IInv, AtInv

(* The types of what a process works on. *)
TypesAt(p) ==
    /\ spec[p] \in Specs
    /\ k[p] \in Nat \ {0}
    /\ MySources(p) \in Seq(Urls)
    /\ Len(MySources(p)) \in Nat
    /\ MyFiles(p) \in Seq(Entries)
    /\ Len(MyFiles(p)) \in Nat
    /\ k[p] <= Len(MySources(p)) => /\ MySource(p) \in Urls
                                    /\ LocalName[MySource(p)] \in Names
    /\ Active(p) => Run(p) \in Runs

(***************************************************************************)
(* The types of the data run_package_command indexes: the source and the   *)
(* entry at hand exist, and an active command identifies a run.            *)
(***************************************************************************)
LEMMA ProcTypes ==
    ASSUME TypeOK, LocalInv, NEW p \in Procs
    PROVE  TypesAt(p)
<1>1. spec[p] \in Specs /\ k[p] \in Nat \ {0}
  BY DEF TypeOK, LocalInv, LocalAt
<1>2. MySources(p) \in Seq(Urls) /\ MyFiles(p) \in Seq(Entries)
  BY <1>1, ConstantTypes DEF MySources, MyFiles
<1>3. ASSUME k[p] <= Len(MySources(p))
      PROVE  MySource(p) \in Urls /\ LocalName[MySource(p)] \in Names
  BY <1>1, <1>2, <1>3, ConstantTypes DEF MySource
<1>4. ASSUME Active(p) PROVE Run(p) \in Runs
  BY <1>1, <1>4 DEF TypeOK, LocalInv, LocalAt, Run, Runs
<1>5. QED
  BY <1>1, <1>2, <1>3, <1>4 DEF TypesAt

(* UnpackedAt is kept by a step that unpacks nothing. *)
LEMMA SameUnpacked ==
    ASSUME NEW p \in Procs, UnpackedDownloads,
           spec'[p] = spec[p], unpacked'[p] = unpacked[p],
           overlapped'[p] = overlapped[p]
    PROVE  UnpackedAt(p)'
BY DEF UnpackedDownloads, UnpackedAt, MySources, LastOfName

(* Manifest and output are kept by a step of a command that has not yet    *)
(* started packaging.                                                      *)
LEMMA NoManifestYet ==
    ASSUME NEW p \in Procs, ManifestInv, OutputInv, LocalInv, TypeOK,
           Active(p), pc[p] \notin {"package", "print"},
           pc'[p] \in Labels \ {"idle", "package", "print"},
           spec'[p] = spec[p], manifest'[p] = manifest[p],
           output'[p] = output[p], result'[p] = result[p]
    PROVE  ManifestAt(p)' /\ OutputAt(p)'
<1>1. manifest[p] = <<>> /\ output[p] = <<>> /\ result[p] # "ok"
  BY DEF ManifestInv, ManifestAt, OutputInv, OutputAt, LocalInv, LocalAt,
         Active, TypeOK
<1>2. Len(MyFiles(p)') \in Nat
  BY ConstantTypes DEF MyFiles, TypeOK
<1>3. ManifestAt(p)'
  BY <1>1, <1>2 DEF ManifestAt
<1>4. OutputAt(p)'
  BY <1>1, <1>2 DEF OutputAt
<1>5. QED
  BY <1>3, <1>4

(* Manifest and output of a command that has started packaging are kept by *)
(* what leaves them alone and does not end the command well.               *)
LEMMA SameManifest ==
    ASSUME NEW p \in Procs, ManifestInv, spec'[p] = spec[p],
           runNo'[p] = runNo[p], overlapped'[p] = overlapped[p],
           manifest'[p] = manifest[p]
    PROVE  /\ Len(manifest'[p]) <= Len(MyFiles(p)')
           /\ \A i \in 1..Len(manifest'[p]) : GoodEntry(p, i)'
BY DEF ManifestInv, ManifestAt, GoodEntry, MyFiles, Run

(* The initial state: an empty workspace and no command. *)
LEMMA InitIInv == Init => IInv
<1>. SUFFICES ASSUME Init PROVE IInv
  OBVIOUS
<1>2. TypeOK
  <2>1. /\ manifest \in [Procs -> Seq(FileActions)]
        /\ output \in [Procs -> Seq(FileActions)]
        /\ unpacked \in [Procs -> Seq(Urls \cup {Empty})]
    BY DEF Init
  <2>2. /\ sources \in [Names -> Archives] /\ script \in Scripts
        /\ proto \in [Paths -> ProtoFiles] /\ running \in [Procs -> Scripts]
    BY DEF Init, Archives, Scripts, ProtoFiles
  <2>3. spec \in [Procs -> Specs]
    BY ConstantTypes DEF Init
  <2>4. runNo \in [Procs -> 0..MaxRuns]
    BY ConstantTypes DEF Init
  <2>5. /\ pc \in [Procs -> Labels] /\ k \in [Procs -> Nat]
        /\ body \in [Procs -> Urls \cup {ErrorPage}]
        /\ todo \in [Procs -> SUBSET Paths]
        /\ result \in [Procs -> {"none", "ok", "aborted"}]
    BY DEF Init, Labels
  <2>6. overlapped \in [Procs -> BOOLEAN] /\ trouble \in BOOLEAN
    BY DEF Init
  <2>7. QED
    BY <2>1, <2>2, <2>3, <2>4, <2>5, <2>6 DEF TypeOK
<1>3. AloneInv /\ DownloadInv /\ BuildInv
  BY DEF Init, AloneInv, DownloadInv, BuildInv, Alone, Active
<1>4. LocalInv
  BY DEF Init, LocalInv, LocalAt, Active
<1>5. ManifestInv
  <2>1. \A p \in Procs : Len(MyFiles(p)) \in Nat
    BY <1>2, ConstantTypes DEF TypeOK, MyFiles
  <2>2. QED
    BY <2>1 DEF Init, ManifestInv, ManifestAt, Labels
<1>6. OutputInv
  BY DEF Init, OutputInv, OutputAt, Labels
<1>7. UnpackedDownloads
  BY DEF Init, UnpackedDownloads
<1>8. QED
  BY <1>2, <1>3, <1>4, <1>5, <1>6, <1>7 DEF IInv

(* Fetch: a download replaces the local file: the copy to come finds it empty.
     *)
LEMMA FetchIInv ==
    ASSUME IInv, NEW p \in Procs, Fetch(p)
    PROVE  IInv'
<1>0. TypesAt(p)
  BY ProcTypes DEF IInv
<1>. USE DEF TypesAt
<1>1. TypeOK'
  <2>1. MySource(p) \in Urls /\ LocalName[MySource(p)] \in Names
    BY <1>0 DEF Fetch
  <2>2. PICK b \in {MySource(p), ErrorPage} : body' = [body EXCEPT ![p] = b]
    BY DEF Fetch
  <2>3. body' \in [Procs -> Urls \cup {ErrorPage}]
    BY <2>1, <2>2 DEF IInv, TypeOK
  <2>4. sources' \in [Names -> Archives]
    BY <2>1 DEF IInv, TypeOK, Archives, Fetch
  <2>5. pc' \in [Procs -> Labels]
    BY DEF IInv, TypeOK, Labels, Fetch
  <2>6. QED
    BY <2>3, <2>4, <2>5 DEF IInv, TypeOK, Fetch
<1>2. OnlyStep(p)
  BY DEF IInv, TypeOK, Fetch, OnlyStep, SameAt, Active, workspace
<1>3. LocalAt(p)'
  BY <1>0 DEF IInv, LocalInv, LocalAt, Fetch, Active, MySources, MySource,
       workspace, TypeOK
<1>4. Alone(p)' => DownloadAt(p)'
  <2>. SUFFICES ASSUME Alone(p)' PROVE DownloadAt(p)'
    OBVIOUS
  <2>1. /\ pc[p] = "get" /\ pc'[p] = "copy" /\ k'[p] = k[p]
        /\ spec'[p] = spec[p] /\ k[p] <= Len(MySources(p))
        /\ MySource(p) \in Urls /\ LocalName[MySource(p)] \in Names
    BY <1>0 DEF IInv, TypeOK, Fetch
  <2>2. DownloadAt(p)
    BY <2>1 DEF IInv, TypeOK, DownloadInv, Alone, Active, Fetch
  <2>3. /\ sources'[LocalName[MySource(p)]] = Empty
        /\ \A m \in Names \ {LocalName[MySource(p)]} : sources'[m] =
             sources[m]
    BY <2>1 DEF IInv, TypeOK, Fetch
  <2>4. ASSUME NEW j \in 1..k[p]-1,
               LastOfName(MySources(p), j, j, k[p] - 1),
               LocalName[MySource(p)] # LocalName[MySources(p)[j]]
        PROVE  sources'[LocalName[MySources(p)[j]]]
                  \in {MySources(p)[j], ErrorPage}
    <3>1. LocalName[MySources(p)[j]] \in Names
      BY <1>0, <2>1, ConstantTypes
    <3>2. sources[LocalName[MySources(p)[j]]] \in {MySources(p)[j], ErrorPage}
      BY <2>1, <2>2, <2>4 DEF DownloadAt
    <3>3. QED
      BY <3>1, <3>2, <2>3, <2>4
  <2>5. QED
    BY <2>1, <2>3, <2>4 DEF DownloadAt, MySources, MySource, LastOfName
<1>5. Alone(p)' => BuildAt(p)'
  BY <1>0 DEF IInv, TypeOK, LocalInv, LocalAt, BuildInv, BuildAt, Alone,
       Active, Fetch, workspace, Run
<1>6. ManifestAt(p)' /\ OutputAt(p)'
  BY <1>0, NoManifestYet DEF IInv, Fetch, TypeOK, Active, Labels, workspace
<1>7. UnpackedAt(p)'
  BY SameUnpacked DEF IInv, Fetch, TypeOK
<1>8. QED
  BY <1>1, <1>2, <1>3, <1>4, <1>5, <1>6, <1>7, OnlyStepIInv DEF AtInv

(* Copy: the body in hand is stored; alone, nobody wrote in between. *)
LEMMA CopyIInv ==
    ASSUME IInv, NEW p \in Procs, Copy(p)
    PROVE  IInv'
<1>0. TypesAt(p)
  BY ProcTypes DEF IInv
<1>. USE DEF TypesAt
<1>1. TypeOK'
  <2>1. /\ k[p] <= Len(MySources(p)) /\ MySource(p) \in Urls
        /\ LocalName[MySource(p)] \in Names
    BY <1>0 DEF Copy, IInv, LocalInv, LocalAt
  <2>2. PICK c \in Written(sources[LocalName[MySource(p)]], body[p]) :
            sources' = [sources EXCEPT ![LocalName[MySource(p)]] = c]
    BY DEF Copy
  <2>3. c \in Archives
    BY <2>2 DEF IInv, TypeOK, Written, Archives
  <2>4. sources' \in [Names -> Archives]
    BY <2>1, <2>2, <2>3 DEF IInv, TypeOK
  <2>5. k' \in [Procs -> Nat] /\ pc' \in [Procs -> Labels]
    BY DEF IInv, TypeOK, Labels, Copy
  <2>6. QED
    BY <2>4, <2>5 DEF IInv, TypeOK, Copy
<1>2. OnlyStep(p)
  BY DEF IInv, TypeOK, Copy, OnlyStep, SameAt, Active, workspace
<1>3. LocalAt(p)'
  <2>1. /\ pc[p] = "copy" /\ pc'[p] = "get" /\ k'[p] = k[p] + 1
        /\ spec'[p] = spec[p] /\ runNo'[p] = runNo[p]
        /\ running'[p] = running[p] /\ todo'[p] = todo[p]
        /\ unpacked'[p] = unpacked[p] /\ result'[p] = result[p]
    BY DEF IInv, TypeOK, Copy
  <2>2. LocalAt(p)
    BY DEF IInv, LocalInv
  <2>3. QED
    BY <1>0, <2>1, <2>2 DEF LocalAt, Active, MySources
<1>4. Alone(p)' => DownloadAt(p)'
  <2>. SUFFICES ASSUME Alone(p)' PROVE DownloadAt(p)'
    OBVIOUS
  <2>1. /\ pc[p] = "copy" /\ pc'[p] = "get" /\ k'[p] = k[p] + 1
        /\ spec'[p] = spec[p] /\ runNo'[p] = runNo[p]
        /\ running'[p] = running[p] /\ todo'[p] = todo[p]
        /\ unpacked'[p] = unpacked[p] /\ result'[p] = result[p]
    BY DEF IInv, TypeOK, Copy
  <2>2. DownloadAt(p)
    BY <2>1 DEF IInv, DownloadInv, TypeOK, Alone, Active, Copy
  <2>3. /\ k[p] <= Len(MySources(p)) /\ MySource(p) \in Urls
        /\ LocalName[MySource(p)] \in Names /\ body[p] \in {MySource(p),
             ErrorPage}
    BY <1>0, <2>1 DEF IInv, LocalInv, LocalAt
  <2>4. sources' = [sources EXCEPT ![LocalName[MySource(p)]] = body[p]]
    BY <2>1, <2>2 DEF Copy, DownloadAt, Written
  <2>5. /\ sources'[LocalName[MySource(p)]] = body[p]
        /\ \A m \in Names \ {LocalName[MySource(p)]} : sources'[m] =
             sources[m]
    BY <2>3, <2>4 DEF IInv, TypeOK
  <2>6. ASSUME NEW j \in 1..k[p], LastOfName(MySources(p), j, j, k[p])
        PROVE  sources'[LocalName[MySources(p)[j]]]
                  \in {MySources(p)[j], ErrorPage}
    <3>1. CASE j = k[p]
      BY <2>3, <2>5, <3>1 DEF MySource
    <3>2. CASE j # k[p]
      <4>1. /\ j \in 1..k[p]-1
            /\ LocalName[MySource(p)] # LocalName[MySources(p)[j]]
            /\ LastOfName(MySources(p), j, j, k[p] - 1)
        BY <1>0, <2>6, <3>2 DEF LastOfName, MySource
      <4>2. LocalName[MySources(p)[j]] \in Names
        BY <1>0, <2>3, <4>1, ConstantTypes
      <4>3. sources[LocalName[MySources(p)[j]]] \in {MySources(p)[j],
           ErrorPage}
        BY <2>1, <2>2, <4>1 DEF DownloadAt
      <4>4. QED
        BY <2>5, <4>1, <4>2, <4>3
    <3>3. QED
      BY <3>1, <3>2
  <2>7. k'[p] - 1 = k[p]
    BY <1>0, <2>1
  <2>8. QED
    BY <2>1, <2>6, <2>7 DEF DownloadAt, MySources, LastOfName
<1>5. Alone(p)' => BuildAt(p)'
  BY <1>0 DEF IInv, TypeOK, LocalInv, LocalAt, BuildInv, BuildAt, Alone,
       Active, Copy, workspace, Run
<1>6. ManifestAt(p)' /\ OutputAt(p)'
  BY <1>0, NoManifestYet DEF IInv, Copy, TypeOK, Active, Labels, workspace
<1>7. UnpackedAt(p)'
  BY SameUnpacked DEF IInv, Copy, TypeOK
<1>8. QED
  BY <1>1, <1>2, <1>3, <1>4, <1>5, <1>6, <1>7, OnlyStepIInv DEF AtInv

(* SourcesReady: the loop of get_sources is left with every source stored. *)
LEMMA SourcesReadyIInv ==
    ASSUME IInv, NEW p \in Procs, SourcesReady(p)
    PROVE  IInv'
<1>0. TypesAt(p)
  BY ProcTypes DEF IInv
<1>. USE DEF TypesAt
<1>1. TypeOK'
  BY <1>0 DEF IInv, SourcesReady, TypeOK, Archives, Scripts, ProtoFiles,
       Payloads, Labels, workspace
<1>2. OnlyStep(p)
  BY DEF IInv, TypeOK, SourcesReady, OnlyStep, SameAt, Active, workspace
<1>3. LocalAt(p)'
  <2>1. /\ pc[p] = "get" /\ pc'[p] = "unpack" /\ k'[p] = 1
        /\ spec'[p] = spec[p] /\ runNo'[p] = runNo[p]
        /\ running'[p] = running[p] /\ todo'[p] = todo[p]
        /\ unpacked'[p] = unpacked[p] /\ result'[p] = result[p]
        /\ sources' = sources /\ k[p] > Len(MySources(p))
    BY DEF IInv, TypeOK, SourcesReady, workspace
  <2>2. LocalAt(p)
    BY DEF IInv, LocalInv
  <2>3. QED
    BY <1>0, <2>1, <2>2 DEF LocalAt, Active
<1>4. Alone(p)' => DownloadAt(p)'
  <2>. SUFFICES ASSUME Alone(p)' PROVE DownloadAt(p)'
    OBVIOUS
  <2>1. /\ pc[p] = "get" /\ pc'[p] = "unpack" /\ k'[p] = 1
        /\ spec'[p] = spec[p] /\ runNo'[p] = runNo[p]
        /\ running'[p] = running[p] /\ todo'[p] = todo[p]
        /\ unpacked'[p] = unpacked[p] /\ result'[p] = result[p]
        /\ sources' = sources /\ k[p] > Len(MySources(p))
    BY DEF IInv, TypeOK, SourcesReady, workspace
  <2>2. DownloadAt(p) /\ LocalAt(p)
    BY <2>1 DEF IInv, LocalInv, DownloadInv, TypeOK, Alone, Active,
         SourcesReady
  <2>3. k[p] - 1 = Len(MySources(p))
    BY <1>0, <2>1, <2>2 DEF LocalAt
  <2>4. \A j \in 1..Len(MySources(p)) :
            LastOfName(MySources(p), j, j, Len(MySources(p)))
            => sources[LocalName[MySources(p)[j]]]
                  \in {MySources(p)[j], ErrorPage}
    BY <2>1, <2>2, <2>3 DEF DownloadAt
  <2>5. QED
    BY <2>1, <2>4 DEF DownloadAt, MySources, LastOfName
<1>5. Alone(p)' => BuildAt(p)'
  BY <1>0 DEF IInv, TypeOK, LocalInv, LocalAt, BuildInv, BuildAt, Alone,
       Active, SourcesReady, workspace, Run
<1>6. ManifestAt(p)' /\ OutputAt(p)'
  BY <1>0, NoManifestYet DEF IInv, SourcesReady, TypeOK, Active, Labels,
       workspace
<1>7. UnpackedAt(p)'
  BY SameUnpacked DEF IInv, SourcesReady, TypeOK
<1>8. QED
  BY <1>1, <1>2, <1>3, <1>4, <1>5, <1>6, <1>7, OnlyStepIInv DEF AtInv

(* UnpackSource: what is unpacked is what was stored last under that name. *)
LEMMA UnpackSourceIInv ==
    ASSUME IInv, NEW p \in Procs, UnpackSource(p)
    PROVE  IInv'
<1>0. TypesAt(p)
  BY ProcTypes DEF IInv
<1>. USE DEF TypesAt
<1>1. TypeOK'
  <2>1. /\ pc[p] = "unpack" /\ pc'[p] = "unpack" /\ k'[p] = k[p] + 1
        /\ k[p] <= Len(MySources(p))
        /\ spec'[p] = spec[p] /\ runNo'[p] = runNo[p]
        /\ running'[p] = running[p] /\ todo'[p] = todo[p]
        /\ result'[p] = result[p] /\ overlapped'[p] = overlapped[p]
        /\ sources[LocalName[MySource(p)]] \in Urls \cup {Empty}
        /\ unpacked'[p] = Append(unpacked[p], sources[LocalName[MySource(p)]])
        /\ unpacked[p] \in Seq(Urls \cup {Empty})
    BY DEF IInv, TypeOK, UnpackSource
  <2>2. unpacked'[p] \in Seq(Urls \cup {Empty})
    BY <2>1
  <2>3. unpacked' \in [Procs -> Seq(Urls \cup {Empty})]
    BY <2>2 DEF IInv, TypeOK, UnpackSource
  <2>4. k' \in [Procs -> Nat]
    BY DEF IInv, TypeOK, UnpackSource
  <2>5. QED
    BY <2>3, <2>4 DEF IInv, TypeOK, UnpackSource, workspace
<1>2. OnlyStep(p)
  BY DEF IInv, TypeOK, UnpackSource, OnlyStep, SameAt, Active, workspace
<1>3. LocalAt(p)'
  <2>1. /\ pc[p] = "unpack" /\ pc'[p] = "unpack" /\ k'[p] = k[p] + 1
        /\ k[p] <= Len(MySources(p))
        /\ spec'[p] = spec[p] /\ runNo'[p] = runNo[p]
        /\ running'[p] = running[p] /\ todo'[p] = todo[p]
        /\ result'[p] = result[p] /\ overlapped'[p] = overlapped[p]
        /\ sources[LocalName[MySource(p)]] \in Urls \cup {Empty}
        /\ unpacked'[p] = Append(unpacked[p], sources[LocalName[MySource(p)]])
        /\ unpacked[p] \in Seq(Urls \cup {Empty})
    BY DEF IInv, TypeOK, UnpackSource
  <2>2. LocalAt(p)
    BY DEF IInv, LocalInv
  <2>3. Len(unpacked'[p]) = k'[p] - 1
    BY <1>0, <2>1, <2>2 DEF LocalAt
  <2>4. QED
    BY <1>0, <2>1, <2>2, <2>3 DEF LocalAt, Active
<1>4. Alone(p)' => DownloadAt(p)'
  BY <1>0 DEF IInv, TypeOK, DownloadInv, DownloadAt, Alone, Active,
       UnpackSource, workspace, MySources, MySource, LastOfName
<1>5. Alone(p)' => BuildAt(p)'
  BY <1>0 DEF IInv, TypeOK, LocalInv, LocalAt, BuildInv, BuildAt, Alone,
       Active, UnpackSource, workspace, Run
<1>6. ManifestAt(p)' /\ OutputAt(p)'
  BY <1>0, NoManifestYet DEF IInv, UnpackSource, TypeOK, Active, Labels,
       workspace
<1>7. UnpackedAt(p)'
  <2>0. spec'[p] = spec[p]
    BY DEF UnpackSource
  <2>. SUFFICES ASSUME ~overlapped'[p],
                       NEW i \in 1..Len(unpacked'[p]),
                       NEW j \in 1..Len(MySources(p)),
                       LastOfName(MySources(p), j, i, Len(MySources(p)))
                PROVE  unpacked'[p][i] = MySources(p)[j]
    BY <2>0 DEF UnpackedAt, MySources, LastOfName
  <2>1. /\ pc[p] = "unpack" /\ pc'[p] = "unpack" /\ k'[p] = k[p] + 1
        /\ k[p] <= Len(MySources(p))
        /\ spec'[p] = spec[p] /\ runNo'[p] = runNo[p]
        /\ running'[p] = running[p] /\ todo'[p] = todo[p]
        /\ result'[p] = result[p] /\ overlapped'[p] = overlapped[p]
        /\ sources[LocalName[MySource(p)]] \in Urls \cup {Empty}
        /\ unpacked'[p] = Append(unpacked[p], sources[LocalName[MySource(p)]])
        /\ unpacked[p] \in Seq(Urls \cup {Empty})
    BY DEF IInv, TypeOK, UnpackSource
  <2>2. Len(unpacked[p]) = k[p] - 1 /\ Len(unpacked'[p]) = k[p]
    BY <1>0, <2>1 DEF IInv, LocalInv, LocalAt
  <2>3. CASE i \in 1..Len(unpacked[p])
    <3>1. unpacked'[p][i] = unpacked[p][i]
      BY <2>1, <2>3
    <3>2. unpacked[p][i] = MySources(p)[j]
      BY <2>1, <2>3 DEF IInv, UnpackedDownloads
    <3>3. QED
      BY <3>1, <3>2
  <2>4. CASE i = k[p]
    <3>1. unpacked'[p][i] = sources[LocalName[MySource(p)]]
      BY <2>1, <2>2, <2>4
    <3>2. /\ LocalName[MySources(p)[j]] = LocalName[MySource(p)]
          /\ LastOfName(MySources(p), j, j, Len(MySources(p)))
      BY <2>4 DEF LastOfName, MySource
    <3>3. DownloadAt(p)
      BY <2>1 DEF IInv, DownloadInv, Alone, Active
    <3>4. sources[LocalName[MySources(p)[j]]] \in {MySources(p)[j], ErrorPage}
      BY <2>1, <3>2, <3>3 DEF DownloadAt
    <3>5. ErrorPage \notin Urls \cup {Empty}
      BY ContentsDistinct
    <3>6. QED
      BY <2>1, <3>1, <3>2, <3>4, <3>5
  <2>5. QED
    BY <1>0, <2>2, <2>3, <2>4
<1>8. QED
  BY <1>1, <1>2, <1>3, <1>4, <1>5, <1>6, <1>7, OnlyStepIInv DEF AtInv

(* ExpandMacros: macro expansion touches nothing that is shared. *)
LEMMA ExpandMacrosIInv ==
    ASSUME IInv, NEW p \in Procs, ExpandMacros(p)
    PROVE  IInv'
<1>0. TypesAt(p)
  BY ProcTypes DEF IInv
<1>. USE DEF TypesAt
<1>1. TypeOK'
  BY <1>0 DEF IInv, ExpandMacros, TypeOK, Archives, Scripts, ProtoFiles,
       Payloads, Labels, workspace
<1>2. OnlyStep(p)
  BY DEF IInv, TypeOK, ExpandMacros, OnlyStep, SameAt, Active, workspace
<1>3. LocalAt(p)'
  BY <1>0 DEF IInv, LocalInv, LocalAt, ExpandMacros, Active, MySources,
       MySource, workspace, TypeOK
<1>4. Alone(p)' => DownloadAt(p)'
  BY <1>0 DEF IInv, TypeOK, DownloadInv, DownloadAt, Alone, Active,
       ExpandMacros, workspace, MySources, MySource, LastOfName
<1>5. Alone(p)' => BuildAt(p)'
  BY <1>0 DEF IInv, TypeOK, LocalInv, LocalAt, BuildInv, BuildAt, Alone,
       Active, ExpandMacros, workspace, Run
<1>6. ManifestAt(p)' /\ OutputAt(p)'
  BY <1>0, NoManifestYet DEF IInv, ExpandMacros, TypeOK, Active, Labels,
       workspace
<1>7. UnpackedAt(p)'
  BY SameUnpacked DEF IInv, ExpandMacros, TypeOK
<1>8. QED
  BY <1>1, <1>2, <1>3, <1>4, <1>5, <1>6, <1>7, OnlyStepIInv DEF AtInv

(* CreateScript: the build script is truncated. *)
LEMMA CreateScriptIInv ==
    ASSUME IInv, NEW p \in Procs, CreateScript(p)
    PROVE  IInv'
<1>0. TypesAt(p)
  BY ProcTypes DEF IInv
<1>. USE DEF TypesAt
<1>1. TypeOK'
  BY <1>0 DEF IInv, CreateScript, TypeOK, Archives, Scripts, ProtoFiles,
       Payloads, Labels, workspace
<1>2. OnlyStep(p)
  BY DEF IInv, TypeOK, CreateScript, OnlyStep, SameAt, Active, workspace
<1>3. LocalAt(p)'
  BY <1>0 DEF IInv, LocalInv, LocalAt, CreateScript, Active, MySources,
       MySource, workspace, TypeOK
<1>4. Alone(p)' => DownloadAt(p)'
  BY <1>0 DEF IInv, TypeOK, DownloadInv, DownloadAt, Alone, Active,
       CreateScript, workspace, MySources, MySource, LastOfName
<1>5. Alone(p)' => BuildAt(p)'
  BY <1>0 DEF IInv, TypeOK, LocalInv, LocalAt, BuildInv, BuildAt, Alone,
       Active, CreateScript, workspace, Run
<1>6. ManifestAt(p)' /\ OutputAt(p)'
  BY <1>0, NoManifestYet DEF IInv, CreateScript, TypeOK, Active, Labels,
       workspace
<1>7. UnpackedAt(p)'
  BY SameUnpacked DEF IInv, CreateScript, TypeOK
<1>8. QED
  BY <1>1, <1>2, <1>3, <1>4, <1>5, <1>6, <1>7, OnlyStepIInv DEF AtInv

(* WriteScript: alone, the script holds what this command wrote. *)
LEMMA WriteScriptIInv ==
    ASSUME IInv, NEW p \in Procs, WriteScript(p)
    PROVE  IInv'
<1>0. TypesAt(p)
  BY ProcTypes DEF IInv
<1>. USE DEF TypesAt
<1>1. TypeOK'
  <2>1. script' \in Scripts
    BY <1>0 DEF WriteScript, Written, Scripts, Active
  <2>2. pc' \in [Procs -> Labels]
    BY DEF IInv, TypeOK, Labels, WriteScript
  <2>3. QED
    BY <2>1, <2>2 DEF IInv, TypeOK, WriteScript
<1>2. OnlyStep(p)
  BY DEF IInv, TypeOK, WriteScript, OnlyStep, SameAt, Active, workspace
<1>3. LocalAt(p)'
  BY <1>0 DEF IInv, LocalInv, LocalAt, WriteScript, Active, MySources,
       MySource, workspace, TypeOK
<1>4. Alone(p)' => DownloadAt(p)'
  BY <1>0 DEF IInv, TypeOK, DownloadInv, DownloadAt, Alone, Active,
       WriteScript, workspace, MySources, MySource, LastOfName
<1>5. Alone(p)' => BuildAt(p)'
  <2>. SUFFICES ASSUME Alone(p)' PROVE BuildAt(p)'
    OBVIOUS
  <2>1. pc[p] = "write" /\ pc'[p] = "spawn" /\ Run(p)' = Run(p)
    BY DEF IInv, TypeOK, WriteScript, Run
  <2>2. script = Empty
    BY <2>1 DEF IInv, BuildInv, BuildAt, Alone, Active, WriteScript
  <2>3. script' = Run(p)
    BY <2>2 DEF WriteScript, Written
  <2>4. QED
    BY <2>1, <2>3 DEF BuildAt
<1>6. ManifestAt(p)' /\ OutputAt(p)'
  BY <1>0, NoManifestYet DEF IInv, WriteScript, TypeOK, Active, Labels,
       workspace
<1>7. UnpackedAt(p)'
  BY SameUnpacked DEF IInv, WriteScript, TypeOK
<1>8. QED
  BY <1>1, <1>2, <1>3, <1>4, <1>5, <1>6, <1>7, OnlyStepIInv DEF AtInv

(* SpawnBash: alone, bash reads the script of this command. *)
LEMMA SpawnBashIInv ==
    ASSUME IInv, NEW p \in Procs, SpawnBash(p)
    PROVE  IInv'
<1>0. TypesAt(p)
  BY ProcTypes DEF IInv
<1>. USE DEF TypesAt
<1>1. TypeOK'
  <2>1. PICK T \in CASE script \in Runs -> {InstallsOf[script.spec]}
                     [] script = Torn   -> SUBSET Paths
                     [] OTHER           -> {{}} :
            todo' = [todo EXCEPT ![p] = T]
    BY DEF SpawnBash
  <2>2. T \in SUBSET Paths
    <3>1. CASE script \in Runs
      BY <2>1, <3>1, ContentsDistinct, ConstantTypes DEF Runs
    <3>2. CASE script \notin Runs
      BY <2>1, <3>2
    <3>3. QED
      BY <3>1, <3>2
  <2>3. todo' \in [Procs -> SUBSET Paths]
    BY <2>1, <2>2 DEF IInv, TypeOK
  <2>4. running' \in [Procs -> Scripts] /\ pc' \in [Procs -> Labels]
    BY DEF IInv, TypeOK, Labels, SpawnBash
  <2>5. QED
    BY <2>3, <2>4 DEF IInv, TypeOK, SpawnBash, workspace
<1>2. OnlyStep(p)
  BY DEF IInv, TypeOK, SpawnBash, OnlyStep, SameAt, Active, workspace
<1>3. LocalAt(p)'
  BY <1>0 DEF IInv, LocalInv, LocalAt, SpawnBash, Active, MySources, MySource,
       workspace, TypeOK
<1>4. Alone(p)' => DownloadAt(p)'
  BY <1>0 DEF IInv, TypeOK, DownloadInv, DownloadAt, Alone, Active, SpawnBash,
       workspace, MySources, MySource, LastOfName
<1>5. Alone(p)' => BuildAt(p)'
  <2>. SUFFICES ASSUME Alone(p)' PROVE BuildAt(p)'
    OBVIOUS
  <2>1. /\ pc[p] = "spawn" /\ pc'[p] = "build" /\ Run(p)' = Run(p)
        /\ running'[p] = script /\ spec'[p] = spec[p] /\ script' = script
    BY DEF IInv, TypeOK, SpawnBash, Run, workspace
  <2>2. script = Run(p)
    BY <2>1 DEF IInv, BuildInv, BuildAt, Alone, Active, SpawnBash
  <2>3. script \in Runs /\ script.spec = spec[p] /\ script # Torn
    BY <1>0, <2>1, <2>2, ContentsDistinct DEF Run, Active
  <2>4. todo'[p] = InstallsOf[spec[p]]
    BY <2>3 DEF IInv, TypeOK, SpawnBash
  <2>5. QED
    BY <2>1, <2>2, <2>4 DEF BuildAt
<1>6. ManifestAt(p)' /\ OutputAt(p)'
  BY <1>0, NoManifestYet DEF IInv, SpawnBash, TypeOK, Active, Labels,
       workspace
<1>7. UnpackedAt(p)'
  BY SameUnpacked DEF IInv, SpawnBash, TypeOK
<1>8. QED
  BY <1>1, <1>2, <1>3, <1>4, <1>5, <1>6, <1>7, OnlyStepIInv DEF AtInv

(* BashRereads: alone, the script bash reads from has not changed. *)
LEMMA BashRereadsIInv ==
    ASSUME IInv, NEW p \in Procs, BashRereads(p)
    PROVE  IInv'
<1>0. TypesAt(p)
  BY ProcTypes DEF IInv
<1>. USE DEF TypesAt
<1>1. TypeOK'
  <2>1. PICK T \in SUBSET Paths : todo' = [todo EXCEPT ![p] = T]
    BY DEF BashRereads
  <2>2. todo' \in [Procs -> SUBSET Paths]
    BY <2>1 DEF IInv, TypeOK
  <2>3. running' \in [Procs -> Scripts]
    BY DEF IInv, TypeOK, Scripts, BashRereads
  <2>4. QED
    BY <2>2, <2>3 DEF IInv, TypeOK, BashRereads, workspace
<1>2. OnlyStep(p)
  BY DEF IInv, TypeOK, BashRereads, OnlyStep, SameAt, Active, workspace
<1>3. LocalAt(p)'
  BY <1>0 DEF IInv, LocalInv, LocalAt, BashRereads, Active, MySources,
       MySource, workspace, TypeOK
<1>4. Alone(p)' => DownloadAt(p)'
  BY <1>0 DEF IInv, TypeOK, DownloadInv, DownloadAt, Alone, Active,
       BashRereads, workspace, MySources, MySource, LastOfName
<1>5. Alone(p)' => BuildAt(p)'
  BY <1>0 DEF IInv, TypeOK, LocalInv, LocalAt, BuildInv, BuildAt, Alone,
       Active, BashRereads, workspace, Run
<1>6. ManifestAt(p)' /\ OutputAt(p)'
  BY <1>0, NoManifestYet DEF IInv, BashRereads, TypeOK, Active, Labels,
       workspace
<1>7. UnpackedAt(p)'
  BY SameUnpacked DEF IInv, BashRereads, TypeOK
<1>8. QED
  BY <1>1, <1>2, <1>3, <1>4, <1>5, <1>6, <1>7, OnlyStepIInv DEF AtInv

(* Install: every path installed so far holds this command's file. *)
LEMMA InstallIInv ==
    ASSUME IInv, NEW p \in Procs, Install(p)
    PROVE  IInv'
<1>0. TypesAt(p)
  BY ProcTypes DEF IInv
<1>. USE DEF TypesAt
<1>1. TypeOK'
  <2>1. PICK f \in todo[p] :
            /\ proto' = [proto EXCEPT ![f] = running[p]]
            /\ todo' = [todo EXCEPT ![p] = @ \ {f}]
    BY DEF Install
  <2>2. f \in Paths
    BY DEF IInv, TypeOK
  <2>3. running[p] \in ProtoFiles
    BY <2>1 DEF IInv, LocalInv, LocalAt, ProtoFiles
  <2>4. proto' \in [Paths -> ProtoFiles]
    BY <2>1, <2>2, <2>3 DEF IInv, TypeOK
  <2>5. todo' \in [Procs -> SUBSET Paths]
    BY <2>1 DEF IInv, TypeOK
  <2>6. QED
    BY <2>4, <2>5 DEF IInv, TypeOK, Install
<1>2. OnlyStep(p)
  BY DEF IInv, TypeOK, Install, OnlyStep, SameAt, Active, workspace
<1>3. LocalAt(p)'
  BY <1>0 DEF IInv, LocalInv, LocalAt, Install, Active, MySources, MySource,
       workspace, TypeOK
<1>4. Alone(p)' => DownloadAt(p)'
  BY <1>0 DEF IInv, TypeOK, DownloadInv, DownloadAt, Alone, Active, Install,
       workspace, MySources, MySource, LastOfName
<1>5. Alone(p)' => BuildAt(p)'
  <2>. SUFFICES ASSUME Alone(p)' PROVE BuildAt(p)'
    OBVIOUS
  <2>1. PICK f \in todo[p] :
            /\ proto' = [proto EXCEPT ![f] = running[p]]
            /\ todo' = [todo EXCEPT ![p] = @ \ {f}]
    BY DEF Install
  <2>2. f \in Paths
    BY DEF IInv, TypeOK
  <2>3. /\ pc[p] = "build" /\ pc'[p] = "build" /\ Run(p)' = Run(p)
        /\ running'[p] = running[p] /\ spec'[p] = spec[p]
        /\ todo'[p] = todo[p] \ {f} /\ script' = script
    BY <2>1 DEF IInv, TypeOK, Install, Run
  <2>4. BuildAt(p)
    BY <2>3 DEF IInv, BuildInv, Alone, Active, Install
  <2>5. InstallsOf[spec[p]] \subseteq Paths
    BY <1>0, ConstantTypes
  <2>6. \A g \in InstallsOf[spec[p]] \ todo'[p] : proto'[g] = Run(p)
    BY <2>1, <2>2, <2>3, <2>4, <2>5 DEF BuildAt, IInv, TypeOK
  <2>7. QED
    BY <2>3, <2>4, <2>6 DEF BuildAt
<1>6. ManifestAt(p)' /\ OutputAt(p)'
  BY <1>0, NoManifestYet DEF IInv, Install, TypeOK, Active, Labels, workspace
<1>7. UnpackedAt(p)'
  BY SameUnpacked DEF IInv, Install, TypeOK
<1>8. QED
  BY <1>1, <1>2, <1>3, <1>4, <1>5, <1>6, <1>7, OnlyStepIInv DEF AtInv

(* BashExits: nothing is left to install when package starts. *)
LEMMA BashExitsIInv ==
    ASSUME IInv, NEW p \in Procs, BashExits(p)
    PROVE  IInv'
<1>0. TypesAt(p)
  BY ProcTypes DEF IInv
<1>. USE DEF TypesAt
<1>1. TypeOK'
  BY <1>0 DEF IInv, BashExits, TypeOK, Archives, Scripts, ProtoFiles,
       Payloads, Labels, workspace
<1>2. OnlyStep(p)
  BY DEF IInv, TypeOK, BashExits, OnlyStep, SameAt, Active, workspace
<1>3. LocalAt(p)'
  BY <1>0 DEF IInv, LocalInv, LocalAt, BashExits, Active, MySources, MySource,
       workspace, TypeOK
<1>4. Alone(p)' => DownloadAt(p)'
  BY <1>0 DEF IInv, TypeOK, DownloadInv, DownloadAt, Alone, Active, BashExits,
       workspace, MySources, MySource, LastOfName
<1>5. Alone(p)' => BuildAt(p)'
  BY <1>0 DEF IInv, TypeOK, LocalInv, LocalAt, BuildInv, BuildAt, Alone,
       Active, BashExits, workspace, Run
<1>6. ManifestAt(p)' /\ OutputAt(p)'
  <2>1. /\ pc[p] = "build" /\ pc'[p] = "package" /\ k'[p] = 1
        /\ manifest'[p] = manifest[p] /\ result'[p] = result[p]
        /\ spec'[p] = spec[p] /\ output'[p] = output[p]
    BY DEF IInv, TypeOK, BashExits
  <2>2. manifest[p] = <<>> /\ output[p] = <<>> /\ result[p] # "ok"
    BY <2>1 DEF IInv, ManifestInv, ManifestAt, OutputInv, OutputAt, LocalInv,
         LocalAt, Active, Labels
  <2>3. MyFiles(p)' = MyFiles(p)
    BY <2>1 DEF MyFiles
  <2>4. ManifestAt(p)'
    BY <1>0, <2>1, <2>2, <2>3 DEF ManifestAt
  <2>5. OutputAt(p)'
    BY <1>0, <2>1, <2>2, <2>3 DEF OutputAt
  <2>6. QED
    BY <2>4, <2>5
<1>7. UnpackedAt(p)'
  BY SameUnpacked DEF IInv, BashExits, TypeOK
<1>8. QED
  BY <1>1, <1>2, <1>3, <1>4, <1>5, <1>6, <1>7, OnlyStepIInv DEF AtInv

(* ReadFile: every entry read is the path listed, with its own payload. *)
LEMMA ReadFileIInv ==
    ASSUME IInv, NEW p \in Procs, ReadFile(p)
    PROVE  IInv'
<1>0. TypesAt(p)
  BY ProcTypes DEF IInv
<1>. USE DEF TypesAt
<1>1. TypeOK'
  <2>1. /\ pc[p] = "package" /\ pc'[p] = "package" /\ k'[p] = k[p] + 1
        /\ k[p] <= Len(MyFiles(p))
        /\ spec'[p] = spec[p] /\ runNo'[p] = runNo[p]
        /\ running'[p] = running[p] /\ todo'[p] = todo[p]
        /\ unpacked'[p] = unpacked[p] /\ result'[p] = result[p]
        /\ overlapped'[p] = overlapped[p]
    BY DEF IInv, TypeOK, ReadFile, workspace
  <2>2. MyFiles(p)[k[p]] \in Entries
    BY <1>0, <2>1
  <2>. DEFINE e == MyFiles(p)[k[p]]
               new == [path |-> e.path, payload |-> ReadFrom(e)]
  <2>4. new \in FileActions
    <3>1. e \in Entries /\ e.path \in Paths /\ ReadFrom(e) # Absent
      BY <2>2 DEF Entries, ReadFile
    <3>2. ReadFrom(e) \in Payloads
      BY <3>1 DEF IInv, TypeOK, ReadFrom, Payloads, ProtoFiles
    <3>3. QED
      BY <3>1, <3>2 DEF FileActions
  <2>5. manifest' = [manifest EXCEPT ![p] = Append(@, new)]
    BY DEF ReadFile
  <2>6. manifest[p] \in Seq(FileActions)
    BY DEF IInv, TypeOK
  <2>7. manifest'[p] = Append(manifest[p], new)
    BY <2>5 DEF IInv, TypeOK
  <2>. HIDE DEF new
  <2>8. manifest'[p] \in Seq(FileActions)
    BY <2>4, <2>6, <2>7
  <2>9. manifest' \in [Procs -> Seq(FileActions)]
    BY <2>5, <2>7, <2>8 DEF IInv, TypeOK
  <2>10. k' \in [Procs -> Nat]
    BY DEF IInv, TypeOK, ReadFile
  <2>11. QED
    BY <2>9, <2>10 DEF IInv, TypeOK, ReadFile, workspace
<1>2. OnlyStep(p)
  BY DEF IInv, TypeOK, ReadFile, OnlyStep, SameAt, Active, workspace
<1>3. LocalAt(p)'
  <2>1. /\ pc[p] = "package" /\ pc'[p] = "package" /\ k'[p] = k[p] + 1
        /\ k[p] <= Len(MyFiles(p))
        /\ spec'[p] = spec[p] /\ runNo'[p] = runNo[p]
        /\ running'[p] = running[p] /\ todo'[p] = todo[p]
        /\ unpacked'[p] = unpacked[p] /\ result'[p] = result[p]
        /\ overlapped'[p] = overlapped[p]
    BY DEF IInv, TypeOK, ReadFile, workspace
  <2>2. MyFiles(p)[k[p]] \in Entries
    BY <1>0, <2>1
  <2>3. LocalAt(p)
    BY DEF IInv, LocalInv
  <2>4. QED
    BY <1>0, <2>1, <2>3 DEF LocalAt, Active
<1>4. Alone(p)' => DownloadAt(p)'
  BY <1>0 DEF IInv, TypeOK, DownloadInv, DownloadAt, Alone, Active, ReadFile,
       workspace, MySources, MySource, LastOfName
<1>5. Alone(p)' => BuildAt(p)'
  BY <1>0 DEF IInv, TypeOK, LocalInv, LocalAt, BuildInv, BuildAt, Alone,
       Active, ReadFile, workspace, Run
<1>6. ManifestAt(p)' /\ OutputAt(p)'
  <2>1. /\ pc[p] = "package" /\ pc'[p] = "package" /\ k'[p] = k[p] + 1
        /\ k[p] <= Len(MyFiles(p))
        /\ spec'[p] = spec[p] /\ runNo'[p] = runNo[p]
        /\ running'[p] = running[p] /\ todo'[p] = todo[p]
        /\ unpacked'[p] = unpacked[p] /\ result'[p] = result[p]
        /\ overlapped'[p] = overlapped[p]
    BY DEF IInv, TypeOK, ReadFile, workspace
  <2>2. MyFiles(p)[k[p]] \in Entries
    BY <1>0, <2>1
  <2>. DEFINE e == MyFiles(p)[k[p]]
               new == [path |-> e.path, payload |-> ReadFrom(e)]
  <2>4. new \in FileActions
    <3>1. e \in Entries /\ e.path \in Paths /\ ReadFrom(e) # Absent
      BY <2>2 DEF Entries, ReadFile
    <3>2. ReadFrom(e) \in Payloads
      BY <3>1 DEF IInv, TypeOK, ReadFrom, Payloads, ProtoFiles
    <3>3. QED
      BY <3>1, <3>2 DEF FileActions
  <2>5. manifest' = [manifest EXCEPT ![p] = Append(@, new)]
    BY DEF ReadFile
  <2>6. manifest[p] \in Seq(FileActions)
    BY DEF IInv, TypeOK
  <2>7. manifest'[p] = Append(manifest[p], new)
    BY <2>5 DEF IInv, TypeOK
  <2>8. ManifestAt(p) /\ result[p] # "ok"
    BY <2>1 DEF IInv, ManifestInv, LocalInv, LocalAt, Active
  <2>9. MyFiles(p)' = MyFiles(p) /\ Run(p)' = Run(p)
    BY <2>1 DEF MyFiles, Run
  <2>10. Len(manifest[p]) = k[p] - 1
    BY <2>1, <2>8 DEF ManifestAt
  <2>11. new.path = e.path /\ new.payload = ReadFrom(e)
    OBVIOUS
  <2>12. ASSUME ~overlapped[p], e.slashes <= 1, e.path \in InstallsOf[spec[p]]
         PROVE  new.payload = Run(p)
    <3>1. BuildAt(p) /\ todo[p] = {}
      BY <2>1, <2>12 DEF IInv, BuildInv, LocalInv, LocalAt, Alone, Active
    <3>2. QED
      BY <2>1, <2>11, <2>12, <3>1 DEF BuildAt, ReadFrom
  <2>. HIDE DEF new, e
  <2>13. /\ Len(manifest'[p]) = k[p]
         /\ manifest'[p][k[p]] = new
         /\ \A i \in 1..k[p]-1 : manifest'[p][i] = manifest[p][i]
    BY <1>0, <2>4, <2>6, <2>7, <2>10
  <2>14. ASSUME NEW i \in 1..k[p] PROVE GoodEntry(p, i)'
    <3>1. CASE i = k[p]
      BY <2>1, <2>9, <2>11, <2>12, <2>13, <3>1 DEF GoodEntry, e
    <3>2. CASE i # k[p]
      <4>1. i \in 1..k[p]-1
        BY <1>0, <3>2
      <4>2. GoodEntry(p, i)
        BY <2>1, <2>8, <2>10, <4>1 DEF ManifestAt
      <4>3. QED
        BY <2>1, <2>9, <2>13, <4>1, <4>2 DEF GoodEntry
    <3>3. QED
      BY <3>1, <3>2
  <2>15. ManifestAt(p)'
    BY <1>0, <2>1, <2>8, <2>9, <2>13, <2>14 DEF ManifestAt
  <2>16. output[p] = <<>> /\ output'[p] = output[p]
    BY <2>1 DEF IInv, TypeOK, OutputInv, OutputAt, Labels, ReadFile
  <2>17. OutputAt(p)'
    BY <1>0, <2>1, <2>8, <2>13, <2>16 DEF OutputAt
  <2>18. QED
    BY <2>15, <2>17
<1>7. UnpackedAt(p)'
  BY SameUnpacked DEF IInv, ReadFile, TypeOK
<1>8. QED
  BY <1>1, <1>2, <1>3, <1>4, <1>5, <1>6, <1>7, OnlyStepIInv DEF AtInv

(* RestoreCwd: the loop of package is left with all entries read. *)
LEMMA RestoreCwdIInv ==
    ASSUME IInv, NEW p \in Procs, RestoreCwd(p)
    PROVE  IInv'
<1>0. TypesAt(p)
  BY ProcTypes DEF IInv
<1>. USE DEF TypesAt
<1>1. TypeOK'
  BY <1>0 DEF IInv, RestoreCwd, TypeOK, Archives, Scripts, ProtoFiles,
       Payloads, Labels, workspace
<1>2. OnlyStep(p)
  BY DEF IInv, TypeOK, RestoreCwd, OnlyStep, SameAt, Active, workspace
<1>3. LocalAt(p)'
  <2>1. /\ pc[p] = "package" /\ pc'[p] = "print" /\ k'[p] = 1
        /\ spec'[p] = spec[p] /\ runNo'[p] = runNo[p]
        /\ running'[p] = running[p] /\ todo'[p] = todo[p]
        /\ unpacked'[p] = unpacked[p] /\ result'[p] = result[p]
    BY DEF IInv, TypeOK, RestoreCwd
  <2>2. LocalAt(p)
    BY DEF IInv, LocalInv
  <2>3. QED
    BY <2>1, <2>2 DEF LocalAt, Active
<1>4. Alone(p)' => DownloadAt(p)'
  BY <1>0 DEF IInv, TypeOK, DownloadInv, DownloadAt, Alone, Active,
       RestoreCwd, workspace, MySources, MySource, LastOfName
<1>5. Alone(p)' => BuildAt(p)'
  BY <1>0 DEF IInv, TypeOK, LocalInv, LocalAt, BuildInv, BuildAt, Alone,
       Active, RestoreCwd, workspace, Run
<1>6. ManifestAt(p)' /\ OutputAt(p)'
  <2>1. /\ pc[p] = "package" /\ pc'[p] = "print" /\ k[p] > Len(MyFiles(p))
        /\ k'[p] = 1 /\ manifest'[p] = manifest[p] /\ spec'[p] = spec[p]
        /\ runNo'[p] = runNo[p] /\ overlapped'[p] = overlapped[p]
        /\ output'[p] = output[p] /\ result'[p] = result[p]
    BY DEF IInv, TypeOK, RestoreCwd
  <2>2. ManifestAt(p) /\ output[p] = <<>> /\ result[p] # "ok"
    BY <2>1 DEF IInv, ManifestInv, OutputInv, OutputAt, LocalInv, LocalAt,
         Active, Labels
  <2>3. Len(manifest[p]) = Len(MyFiles(p))
    BY <1>0, <2>1, <2>2 DEF ManifestAt
  <2>4. MyFiles(p)' = MyFiles(p)
    BY <2>1 DEF MyFiles
  <2>5. ManifestAt(p)'
    BY <2>1, <2>3, <2>4, SameManifest DEF ManifestAt, IInv
  <2>6. OutputAt(p)'
    BY <1>0, <2>1, <2>2, <2>3 DEF OutputAt
  <2>7. QED
    BY <2>5, <2>6
<1>7. UnpackedAt(p)'
  BY SameUnpacked DEF IInv, RestoreCwd, TypeOK
<1>8. QED
  BY <1>1, <1>2, <1>3, <1>4, <1>5, <1>6, <1>7, OnlyStepIInv DEF AtInv

(* PrintAction: what is printed next is the next action of the manifest. *)
LEMMA PrintActionIInv ==
    ASSUME IInv, NEW p \in Procs, PrintAction(p)
    PROVE  IInv'
<1>0. TypesAt(p)
  BY ProcTypes DEF IInv
<1>. USE DEF TypesAt
<1>a. /\ pc[p] = "print" /\ pc'[p] = "print" /\ k'[p] = k[p] + 1
      /\ k[p] <= Len(manifest[p]) /\ manifest'[p] = manifest[p]
      /\ spec'[p] = spec[p] /\ runNo'[p] = runNo[p]
      /\ overlapped'[p] = overlapped[p] /\ result'[p] = result[p]
      /\ todo'[p] = todo[p] /\ running'[p] = running[p]
      /\ unpacked'[p] = unpacked[p]
      /\ output'[p] = Append(output[p], manifest[p][k[p]])
      /\ output[p] \in Seq(FileActions) /\ manifest[p] \in Seq(FileActions)
  BY DEF IInv, TypeOK, PrintAction
<1>b. manifest[p][k[p]] \in FileActions
  BY <1>0, <1>a
<1>1. TypeOK'
  <2>1. output'[p] \in Seq(FileActions)
    BY <1>a, <1>b
  <2>2. output' \in [Procs -> Seq(FileActions)]
    BY <2>1 DEF IInv, TypeOK, PrintAction
  <2>3. k' \in [Procs -> Nat]
    BY DEF IInv, TypeOK, PrintAction
  <2>4. QED
    BY <2>2, <2>3 DEF IInv, TypeOK, PrintAction, workspace
<1>2. OnlyStep(p)
  BY DEF IInv, TypeOK, PrintAction, OnlyStep, SameAt, Active, workspace
<1>3. LocalAt(p)'
  <2>1. LocalAt(p)
    BY DEF IInv, LocalInv
  <2>2. QED
    BY <1>0, <1>a, <2>1 DEF LocalAt, Active
<1>4. Alone(p)' => DownloadAt(p)'
  BY <1>0 DEF IInv, TypeOK, DownloadInv, DownloadAt, Alone, Active,
       PrintAction, workspace, MySources, MySource, LastOfName
<1>5. Alone(p)' => BuildAt(p)'
  BY <1>0 DEF IInv, TypeOK, LocalInv, LocalAt, BuildInv, BuildAt, Alone,
       Active, PrintAction, workspace, Run
<1>6. ManifestAt(p)' /\ OutputAt(p)'
  <2>1. /\ Len(manifest[p]) = Len(MyFiles(p)) /\ Len(output[p]) = k[p] - 1
        /\ result[p] # "ok"
        /\ \A i \in 1..Len(output[p]) : output[p][i] = manifest[p][i]
    BY <1>a DEF IInv, ManifestInv, ManifestAt, OutputInv, OutputAt, LocalInv,
         LocalAt, Active
  <2>2. MyFiles(p)' = MyFiles(p)
    BY <1>a DEF MyFiles
  <2>3. ManifestAt(p)'
    BY <1>a, <2>1, <2>2, SameManifest DEF ManifestAt, IInv
  <2>4. /\ Len(output'[p]) = k[p]
        /\ \A i \in 1..k[p] : output'[p][i] = manifest[p][i]
    BY <1>0, <1>a, <1>b, <2>1
  <2>5. OutputAt(p)'
    <3>1. k'[p] - 1 = k[p] /\ manifest'[p] = manifest[p]
      BY <1>0, <1>a
    <3>2. QED
      BY <1>a, <2>1, <2>4, <3>1 DEF OutputAt
  <2>6. QED
    BY <2>3, <2>5
<1>7. UnpackedAt(p)'
  BY SameUnpacked DEF IInv, PrintAction, TypeOK
<1>8. QED
  BY <1>1, <1>2, <1>3, <1>4, <1>5, <1>6, <1>7, OnlyStepIInv DEF AtInv

(* CommandReturns: everything has been printed. *)
LEMMA CommandReturnsIInv ==
    ASSUME IInv, NEW p \in Procs, CommandReturns(p)
    PROVE  IInv'
<1>0. TypesAt(p)
  BY ProcTypes DEF IInv
<1>. USE DEF TypesAt
<1>1. TypeOK'
  BY <1>0 DEF IInv, CommandReturns, TypeOK, Archives, Scripts, ProtoFiles,
       Payloads, Labels, workspace
<1>2. OnlyStep(p)
  BY DEF IInv, TypeOK, CommandReturns, OnlyStep, SameAt, Active, workspace
<1>3. LocalAt(p)'
  BY <1>0 DEF IInv, LocalInv, LocalAt, CommandReturns, Active, MySources,
       MySource, workspace, TypeOK
<1>4. Alone(p)' => DownloadAt(p)'
  BY <1>0 DEF IInv, TypeOK, DownloadInv, DownloadAt, Alone, Active,
       CommandReturns, workspace, MySources, MySource, LastOfName
<1>5. Alone(p)' => BuildAt(p)'
  BY <1>0 DEF IInv, TypeOK, LocalInv, LocalAt, BuildInv, BuildAt, Alone,
       Active, CommandReturns, workspace, Run
<1>6. ManifestAt(p)' /\ OutputAt(p)'
  <2>1. /\ pc[p] = "print" /\ pc'[p] = "idle" /\ k[p] > Len(manifest[p])
        /\ manifest'[p] = manifest[p] /\ spec'[p] = spec[p]
        /\ runNo'[p] = runNo[p] /\ overlapped'[p] = overlapped[p]
        /\ output'[p] = output[p]
    BY DEF IInv, TypeOK, CommandReturns
  <2>2. /\ Len(manifest[p]) = Len(MyFiles(p)) /\ Len(output[p]) = k[p] - 1
        /\ Len(output[p]) <= Len(manifest[p])
        /\ \A i \in 1..Len(output[p]) : output[p][i] = manifest[p][i]
    BY <2>1 DEF IInv, ManifestInv, ManifestAt, OutputInv, OutputAt
  <2>3. Len(output[p]) = Len(MyFiles(p))
    BY <1>0, <2>1, <2>2
  <2>4. MyFiles(p)' = MyFiles(p)
    BY <2>1 DEF MyFiles
  <2>5. ManifestAt(p)'
    BY <2>1, <2>2, <2>4, SameManifest DEF ManifestAt, IInv
  <2>6. OutputAt(p)'
    BY <2>1, <2>2, <2>3, <2>4 DEF OutputAt
  <2>7. QED
    BY <2>5, <2>6
<1>7. UnpackedAt(p)'
  BY SameUnpacked DEF IInv, CommandReturns, TypeOK
<1>8. QED
  BY <1>1, <1>2, <1>3, <1>4, <1>5, <1>6, <1>7, OnlyStepIInv DEF AtInv

(* Abort: a command that fails or is killed is no longer active. *)
LEMMA AbortIInv ==
    ASSUME IInv, NEW p \in Procs, Abort(p)
    PROVE  IInv'
<1>0. TypesAt(p)
  BY ProcTypes DEF IInv
<1>. USE DEF TypesAt
<1>1. TypeOK'
  BY <1>0 DEF IInv, Abort, TypeOK, Archives, Scripts, ProtoFiles, Payloads,
       Labels, workspace
<1>2. OnlyStep(p)
  BY DEF IInv, TypeOK, Abort, OnlyStep, SameAt, Active, workspace
<1>3. LocalAt(p)'
  BY <1>0 DEF IInv, LocalInv, LocalAt, Abort, Active, MySources, MySource,
       workspace, TypeOK
<1>4. Alone(p)' => DownloadAt(p)'
  BY <1>0 DEF IInv, TypeOK, DownloadInv, DownloadAt, Alone, Active, Abort,
       workspace, MySources, MySource, LastOfName
<1>5. Alone(p)' => BuildAt(p)'
  BY <1>0 DEF IInv, TypeOK, LocalInv, LocalAt, BuildInv, BuildAt, Alone,
       Active, Abort, workspace, Run
<1>6. ManifestAt(p)' /\ OutputAt(p)'
  <2>1. /\ pc'[p] = "idle" /\ result'[p] = "aborted"
        /\ manifest'[p] = manifest[p] /\ spec'[p] = spec[p]
        /\ runNo'[p] = runNo[p] /\ overlapped'[p] = overlapped[p]
        /\ output'[p] = output[p]
    BY DEF IInv, TypeOK, Abort
  <2>2. ManifestAt(p)'
    BY <2>1, SameManifest DEF ManifestAt, IInv
  <2>3. OutputAt(p)'
    BY <2>1 DEF OutputAt, IInv, OutputInv
  <2>4. QED
    BY <2>2, <2>3
<1>7. UnpackedAt(p)'
  BY SameUnpacked DEF IInv, Abort, TypeOK
<1>8. QED
  BY <1>1, <1>2, <1>3, <1>4, <1>5, <1>6, <1>7, OnlyStepIInv DEF AtInv

(***************************************************************************)
(* RunCommand: the command that starts has done nothing yet, and whoever   *)
(* is active now counts as overlapped.                                     *)
(***************************************************************************)
LEMMA RunCommandIInv ==
    ASSUME IInv, NEW p \in Procs, NEW s \in Specs, RunCommand(p, s)
    PROVE  IInv'
<1>1. TypeOK'
  <2>1. overlapped' \in [Procs -> BOOLEAN]
    <3>1. \A q \in Procs : overlapped'[q] \in BOOLEAN
      BY DEF IInv, TypeOK, RunCommand
    <3>2. overlapped' = [q \in Procs |-> overlapped'[q]]
      BY DEF RunCommand
    <3>3. QED
      BY <3>1, <3>2
  <2>2. runNo' \in [Procs -> 0..MaxRuns]
    BY ConstantTypes DEF IInv, TypeOK, RunCommand
  <2>3. /\ pc' \in [Procs -> Labels] /\ spec' \in [Procs -> Specs]
        /\ k' \in [Procs -> Nat]
        /\ result' \in [Procs -> {"none", "ok", "aborted"}]
    BY DEF IInv, TypeOK, RunCommand, Labels
  <2>4. manifest' \in [Procs -> Seq(FileActions)]
    BY DEF IInv, TypeOK, RunCommand
  <2>7. output' \in [Procs -> Seq(FileActions)]
    BY DEF IInv, TypeOK, RunCommand
  <2>8. trouble' \in BOOLEAN
    BY DEF IInv, TypeOK, RunCommand
  <2>5. unpacked' \in [Procs -> Seq(Urls \cup {Empty})]
    BY DEF IInv, TypeOK, RunCommand
  <2>6. QED
    BY <2>1, <2>2, <2>3, <2>4, <2>5, <2>7, <2>8
    DEF IInv, TypeOK, RunCommand, workspace
<1>2. /\ pc'[p] = "get" /\ k'[p] = 1 /\ runNo'[p] = runNo[p] + 1
      /\ runNo[p] \in Nat
      /\ manifest'[p] = <<>> /\ output'[p] = <<>> /\ unpacked'[p] = <<>> /\ result'[p] = "none"
      /\ todo'[p] = todo[p] /\ running'[p] = running[p] /\ pc[p] = "idle"
  BY DEF IInv, TypeOK, RunCommand
<1>3. \A q \in Procs \ {p} :
        /\ SameAt(q)
        /\ overlapped'[q] = (overlapped[q] \/ Active(q))
  BY DEF IInv, TypeOK, RunCommand, SameAt
<1>4. overlapped'[p] = \E r \in Procs \ {p} : Active(r)
  BY DEF RunCommand
<1>5. \A q \in Procs \ {p} : ~Alone(q)'
  BY <1>3 DEF Alone, Active, SameAt
<1>6. AloneInv'
  <2>1. ASSUME NEW r \in Procs, Alone(p)', r # p
        PROVE  ~Active(r)'
    BY <2>1, <1>3, <1>4 DEF Alone, Active, SameAt
  <2>2. QED
    BY <1>5, <2>1 DEF AloneInv
<1>7. \A q \in Procs \ {p} : LocalAt(q)' /\ ManifestAt(q)' /\ OutputAt(q)' /\ UnpackedAt(q)'
  <2>. SUFFICES ASSUME NEW q \in Procs \ {p}
                PROVE  LocalAt(q)' /\ ManifestAt(q)' /\ OutputAt(q)' /\ UnpackedAt(q)'
    OBVIOUS
  <2>1. SameAt(q) /\ (overlapped[q] => overlapped'[q])
    BY <1>3
  <2>2. LocalAt(q) /\ ManifestAt(q) /\ OutputAt(q) /\ UnpackedAt(q)
    BY DEF IInv, LocalInv, ManifestInv, OutputInv, UnpackedDownloads, UnpackedAt
  <2>3. QED
    BY <2>1, <2>2, Frame
<1>8. LocalAt(p)'
  <2>1. Len(MySources(p)') \in Nat
    BY <1>1, ConstantTypes DEF TypeOK, MySources
  <2>2. QED
    BY <1>2, <2>1 DEF IInv, LocalInv, LocalAt, Active
<1>9. ManifestAt(p)' /\ OutputAt(p)'
  <2>1. Len(MyFiles(p)') \in Nat
    BY <1>1, ConstantTypes DEF TypeOK, MyFiles
  <2>2. QED
    BY <1>2, <2>1 DEF ManifestAt, OutputAt, Labels
<1>10. UnpackedAt(p)'
  BY <1>2 DEF UnpackedAt
<1>11. DownloadAt(p)' /\ BuildAt(p)'
  BY <1>2 DEF DownloadAt, BuildAt
<1>12. LocalInv' /\ ManifestInv' /\ OutputInv'
  BY <1>7, <1>8, <1>9 DEF LocalInv, ManifestInv, OutputInv
<1>13. UnpackedDownloads'
  BY <1>7, <1>10 DEF UnpackedDownloads, UnpackedAt
<1>14. DownloadInv' /\ BuildInv'
  BY <1>5, <1>11 DEF DownloadInv, BuildInv
<1>15. QED
  BY <1>1, <1>6, <1>12, <1>13, <1>14 DEF IInv

(* IInv is inductive: every step of every command preserves it. *)
LEMMA NextIInv == IInv /\ [Next]_vars => IInv'
<1>1. ASSUME IInv, NEW p \in Procs, Step(p)
      PROVE  IInv'
  BY <1>1, FetchIInv, CopyIInv, SourcesReadyIInv, UnpackSourceIInv,
     ExpandMacrosIInv, CreateScriptIInv, WriteScriptIInv, SpawnBashIInv,
     BashRereadsIInv, InstallIInv, BashExitsIInv, ReadFileIInv,
     RestoreCwdIInv, PrintActionIInv, CommandReturnsIInv, AbortIInv
     DEF Step
<1>2. ASSUME IInv, NEW p \in Procs, NEW s \in Specs, RunCommand(p, s)
      PROVE  IInv'
  BY <1>2, RunCommandIInv
<1>3. ASSUME IInv, UNCHANGED vars
      PROVE  IInv'
  <2>1. TypeOK'
    BY <1>3 DEF IInv, vars, TypeOK
  <2>2. AloneInv'
    BY <1>3 DEF IInv, vars, AloneInv, Alone, Active
  <2>3. LocalInv'
    BY <1>3 DEF IInv, vars, LocalInv, LocalAt, Active, MySources, MySource
  <2>4. DownloadInv'
    BY <1>3 DEF IInv, vars, DownloadInv, DownloadAt, Alone, Active, MySources,
       MySource, LastOfName
  <2>5. BuildInv'
    BY <1>3 DEF IInv, vars, BuildInv, BuildAt, Alone, Active, Run
  <2>6. ManifestInv'
    BY <1>3 DEF IInv, vars, ManifestInv, ManifestAt, GoodEntry, MyFiles, Run
  <2>7. UnpackedDownloads'
    <3>1. \A p \in Procs : UnpackedAt(p)'
      BY <1>3, SameUnpacked DEF IInv, vars
    <3>2. QED
      BY <3>1 DEF UnpackedDownloads, UnpackedAt
  <2>8. OutputInv'
    BY <1>3 DEF IInv, vars, OutputInv, OutputAt, MyFiles
  <2>9. QED
    BY <2>1, <2>2, <2>3, <2>4, <2>5, <2>6, <2>7, <2>8 DEF IInv
<1>4. QED
  BY <1>1, <1>2, <1>3 DEF Next

(* Every reachable state of the commands and their workspace satisfies IInv.
     *)
LEMMA Invariance == Spec => []IInv
BY InitIInv, NextIInv, PTL DEF Spec

(***************************************************************************)
(* The type invariant of run_package_command and the workspace: in         *)
(* particular gtar never unpacks a torn archive and the manifest never     *)
(* lists a file that is absent.                                            *)
(***************************************************************************)
THEOREM TypeCorrect == Spec => []TypeOK
<1>1. IInv => TypeOK
  BY DEF IInv
<1>2. QED
  BY <1>1, Invariance, PTL

(***************************************************************************)
(* A command of run_package_command that is never overlapped prints the    *)
(* files its own build script installed, whatever earlier commands left in *)
(* the workspace, and also when it is stopped while it prints.             *)
(***************************************************************************)
THEOREM PayloadsAreOwn == Spec => []OwnPayloads
<1>1. IInv => OwnPayloads
  <2>. SUFFICES ASSUME IInv, NEW p \in Procs, ~overlapped[p],
                       NEW i \in 1..Len(output[p]),
                       MyFiles(p)[i].slashes <= 1,
                       MyFiles(p)[i].path \in InstallsOf[spec[p]]
                PROVE  output[p][i].payload = Run(p)
    BY DEF OwnPayloads
  <2>1. i \in 1..Len(manifest[p]) /\ output[p][i] = manifest[p][i]
    BY DEF IInv, TypeOK, OutputInv, OutputAt
  <2>2. GoodEntry(p, i)
    BY <2>1 DEF IInv, ManifestInv, ManifestAt
  <2>3. QED
    BY <2>1, <2>2 DEF GoodEntry
<1>2. QED
  BY <1>1, Invariance, PTL

(***************************************************************************)
(* Workspace::package never prints a manifest with an entry of %files      *)
(* missing or out of order, for any number of concurrent commands, and a   *)
(* command that returns Ok has printed all of it.                          *)
(***************************************************************************)
THEOREM ManifestsComplete == Spec => []ManifestComplete
<1>1. IInv => ManifestComplete
  <2>. SUFFICES ASSUME IInv, NEW p \in Procs
                PROVE  /\ Len(output[p]) <= Len(MyFiles(p))
                       /\ \A i \in 1..Len(output[p]) :
                              output[p][i].path = MyFiles(p)[i].path
                       /\ result[p] = "ok" => Len(output[p]) = Len(MyFiles(p))
    BY DEF ManifestComplete
  <2>1. TypesAt(p)
    BY ProcTypes DEF IInv
  <2>2. /\ Len(output[p]) \in Nat /\ Len(manifest[p]) \in Nat
        /\ Len(output[p]) <= Len(manifest[p])
        /\ Len(manifest[p]) <= Len(MyFiles(p))
    BY DEF IInv, TypeOK, OutputInv, OutputAt, ManifestInv, ManifestAt
  <2>3. ASSUME NEW i \in 1..Len(output[p])
        PROVE  output[p][i].path = MyFiles(p)[i].path
    <3>1. i \in 1..Len(manifest[p]) /\ output[p][i] = manifest[p][i]
      BY <2>2 DEF IInv, OutputInv, OutputAt
    <3>2. QED
      BY <3>1 DEF IInv, ManifestInv, ManifestAt, GoodEntry
  <2>4. QED
    BY <2>1, <2>2, <2>3 DEF TypesAt, IInv, OutputInv, OutputAt
<1>2. QED
  BY <1>1, Invariance, PTL

(***************************************************************************)
(* A command that is never overlapped unpacks what get_sources downloaded  *)
(* in that command, whatever archives earlier commands left.               *)
(***************************************************************************)
THEOREM UnpacksDownloads == Spec => []UnpackedDownloads
<1>1. IInv => UnpackedDownloads
  BY DEF IInv
<1>2. QED
  BY <1>1, Invariance, PTL

-----------------------------------------------------------------------------
(* Where the printed files come from. *)

(* What was started stays started, what may be installed may stay so. *)
LEMMA OriginsStay ==
    ASSUME IInv, [Next]_vars
    PROVE  /\ trouble => trouble'
           /\ \A c : Started(c) => Started(c)'
           /\ \A f, c : Installed(f, c) => Installed(f, c)'
<1>1. trouble => trouble'
  BY DEF Next, Step, vars, RunCommand, Fetch, Copy, SourcesReady,
         UnpackSource, ExpandMacros, CreateScript, WriteScript, SpawnBash,
         BashRereads, Install, BashExits, ReadFile, RestoreCwd, PrintAction,
         CommandReturns, Abort
<1>2. ASSUME NEW c, Started(c) PROVE Started(c)'
  <2>1. c.proc \in Procs /\ c.no \in Nat /\ runNo[c.proc] \in Nat
    BY <1>2, ConstantTypes DEF Started, Runs, IInv, TypeOK
  <2>2. CASE UNCHANGED <<runNo, spec>>
    BY <1>2, <2>2 DEF Started
  <2>3. ASSUME NEW p \in Procs, NEW s \in Specs, RunCommand(p, s)
        PROVE  Started(c)'
    <3>1. /\ runNo'[p] = runNo[p] + 1
          /\ \A q \in Procs \ {p} : runNo'[q] = runNo[q] /\ spec'[q] = spec[q]
      BY <2>3 DEF RunCommand, IInv, TypeOK
    <3>2. CASE c.proc = p
      BY <1>2, <2>1, <3>1, <3>2 DEF Started
    <3>3. CASE c.proc # p
      BY <1>2, <2>1, <3>1, <3>3 DEF Started
    <3>4. QED
      BY <3>2, <3>3
  <2>4. ASSUME NEW p \in Procs, Step(p) PROVE UNCHANGED <<runNo, spec>>
    BY <2>4 DEF Step, Fetch, Copy, SourcesReady, UnpackSource, ExpandMacros,
         CreateScript, WriteScript, SpawnBash, BashRereads, Install,
         BashExits, ReadFile, RestoreCwd, PrintAction, CommandReturns, Abort
  <2>5. CASE UNCHANGED vars
    BY <2>2, <2>5 DEF vars
  <2>6. QED
    BY <2>2, <2>3, <2>4, <2>5 DEF Next
<1>3. ASSUME NEW f, NEW c, Installed(f, c) PROVE Installed(f, c)'
  BY <1>1, <1>2, <1>3 DEF Installed
<1>4. QED
  BY <1>1, <1>2, <1>3

(* A command that is not alone has met trouble. *)
LEMMA NotAlone ==
    ASSUME OriginInv, NEW p \in Procs, Active(p), ~Alone(p), TypeOK
    PROVE  trouble
BY DEF OriginInv, OriginAt, Alone, TypeOK

(* A command that is running identifies a run that has been started. *)
LEMMA RunStarted ==
    ASSUME IInv, NEW p \in Procs, Active(p)
    PROVE  Started(Run(p))
<1>1. TypesAt(p)
  BY ProcTypes DEF IInv
<1>2. Run(p) \in Runs
  BY <1>1 DEF TypesAt
<1>3. Run(p).proc = p /\ Run(p).no = runNo[p] /\ Run(p).spec = spec[p]
  BY DEF Run
<1>4. runNo[p] \in Nat
  BY ConstantTypes DEF IInv, TypeOK
<1>5. QED
  BY <1>2, <1>3, <1>4 DEF Started

(* The script was written by a started command, or in trouble. *)
LEMMA NextScriptOrigin ==
    ASSUME IInv, OriginInv, Next
    PROVE  ScriptOrigin'
<1>1. /\ trouble => trouble'
      /\ \A c : Started(c) => Started(c)'
  BY OriginsStay
<1>2. CASE script' = script
  BY <1>1, <1>2 DEF OriginInv, ScriptOrigin
<1>3. ASSUME NEW p \in Procs, CreateScript(p) PROVE ScriptOrigin'
  BY <1>3, ContentsDistinct DEF CreateScript, ScriptOrigin
<1>4. ASSUME NEW p \in Procs, WriteScript(p) PROVE ScriptOrigin'
  <2>1. Active(p)
    BY <1>4 DEF WriteScript, Active
  <2>3. Run(p) \in Runs /\ Run(p) # Torn
    BY <2>1, RunStarted, ContentsDistinct DEF Started
  <2>4. CASE script = Empty
    <3>1. script' = Run(p)
      BY <1>4, <2>4 DEF WriteScript, Written
    <3>2. Started(script)'
      <4>1. Started(Run(p)) /\ script' = Run(p)
        BY <2>1, RunStarted, <3>1
      <4>2. QED
        BY <1>4, <4>1 DEF WriteScript, Started
    <3>3. QED
      BY <2>3, <3>1, <3>2 DEF ScriptOrigin
  <2>5. CASE script # Empty
    <3>1. trouble'
      BY <1>1, <1>4, <2>1, <2>5, NotAlone DEF IInv, BuildInv, BuildAt,
         WriteScript
    <3>2. script' \in {Run(p), Torn}
      BY <1>4, <2>5 DEF WriteScript, Written
    <3>3. ASSUME script' = Run(p) PROVE Started(script)'
      <4>1. Started(Run(p)) /\ script' = Run(p)
        BY <2>1, RunStarted, <3>3
      <4>2. QED
        BY <1>4, <4>1 DEF WriteScript, Started
    <3>4. Torn \notin Runs
      BY ContentsDistinct
    <3>5. QED
      BY <3>1, <3>2, <3>3, <3>4 DEF ScriptOrigin
  <2>6. QED
    BY <2>4, <2>5
<1>5. ASSUME NEW p \in Procs, Abort(p) PROVE ScriptOrigin'
  <2>1. trouble' /\ script' \in {script, Torn}
    BY <1>5 DEF Abort
  <2>2. Torn \notin Runs
    BY ContentsDistinct
  <2>3. QED
    BY <1>2, <2>1, <2>2 DEF ScriptOrigin
<1>6. ASSUME NEW p \in Procs, NEW s \in Specs, RunCommand(p, s)
      PROVE  script' = script
  BY <1>6 DEF RunCommand, workspace
<1>7. ASSUME NEW p \in Procs, Step(p),
             ~CreateScript(p), ~WriteScript(p), ~Abort(p)
      PROVE  script' = script
  BY <1>7 DEF Step, Fetch, Copy, SourcesReady, UnpackSource, ExpandMacros,
       SpawnBash, BashRereads, Install, BashExits, ReadFile, RestoreCwd,
       PrintAction, CommandReturns, workspace
<1>8. QED
  BY <1>2, <1>3, <1>4, <1>5, <1>6, <1>7 DEF Next

(* A file of the proto area was installed by such a script under its path, *)
(* or torn by a command that was stopped.                                  *)
LEMMA NextProtoOrigin ==
    ASSUME IInv, OriginInv, Next
    PROVE  ProtoOrigin'
<1>1. /\ trouble => trouble'
      /\ \A f, c : Installed(f, c) => Installed(f, c)'
  BY OriginsStay
<1>2. CASE proto' = proto
  BY <1>1, <1>2 DEF OriginInv, ProtoOrigin
<1>3. ASSUME NEW p \in Procs, Install(p) PROVE ProtoOrigin'
  <2>1. PICK g \in todo[p] : proto' = [proto EXCEPT ![g] = running[p]]
    BY <1>3 DEF Install
  <2>2. Installed(g, running[p])
    <3>1. running[p] \in Runs \cup {Torn}
      BY DEF IInv, LocalInv, LocalAt
    <3>2. OriginAt(p)
      BY DEF OriginInv
    <3>3. QED
      BY <3>1, <3>2 DEF OriginAt, Installed
  <2>3. \A f \in Paths : proto'[f] = proto[f] \/ (f = g /\ proto'[f] = running[p])
    BY <2>1 DEF IInv, TypeOK
  <2>4. ASSUME NEW f \in Paths, proto'[f] # Absent
        PROVE  Installed(f, proto'[f])
    BY <2>2, <2>3, <2>4 DEF OriginInv, ProtoOrigin
  <2>5. ASSUME NEW f \in Paths, proto'[f] # Absent
        PROVE  Installed(f, proto[f])'
    <3>1. Installed(f, proto'[f]) /\ UNCHANGED <<runNo, spec, trouble>>
      BY <1>3, <2>4, <2>5 DEF Install
    <3>2. QED
      BY <3>1 DEF Installed, Started
  <2>6. QED
    BY <2>5 DEF ProtoOrigin
<1>4. ASSUME NEW p \in Procs, Abort(p) PROVE ProtoOrigin'
  <2>1. /\ trouble'
        /\ \/ proto' = proto
           \/ \E g \in todo[p] : proto' = [proto EXCEPT ![g] = Torn]
    BY <1>4 DEF Abort
  <2>2. ASSUME NEW g \in todo[p], proto' = [proto EXCEPT ![g] = Torn]
        PROVE  ProtoOrigin'
    <3>1. \A f \in Paths : proto'[f] = proto[f] \/ proto'[f] = Torn
      BY <2>2 DEF IInv, TypeOK
    <3>2. ASSUME NEW f \in Paths, proto'[f] # Absent
          PROVE  Installed(f, proto[f])'
      <4>1. CASE proto'[f] = Torn
        BY <2>1, <4>1 DEF Installed
      <4>2. CASE proto'[f] = proto[f]
        <5>1. Installed(f, proto[f])
          BY <3>2, <4>2 DEF OriginInv, ProtoOrigin
        <5>2. UNCHANGED <<runNo, spec>>
          BY <1>4 DEF Abort
        <5>3. QED
          BY <2>1, <4>2, <5>1, <5>2 DEF Installed, Started
      <4>3. QED
        BY <3>1, <4>1, <4>2
    <3>3. QED
      BY <3>2 DEF ProtoOrigin
  <2>3. QED
    BY <1>2, <2>1, <2>2
<1>5. ASSUME NEW p \in Procs, NEW s \in Specs, RunCommand(p, s)
      PROVE  proto' = proto
  BY <1>5 DEF RunCommand, workspace
<1>6. ASSUME NEW p \in Procs, Step(p), ~Install(p), ~Abort(p)
      PROVE  proto' = proto
  BY <1>6 DEF Step, Fetch, Copy, SourcesReady, UnpackSource, ExpandMacros,
       CreateScript, WriteScript, SpawnBash, BashRereads, BashExits,
       ReadFile, RestoreCwd, PrintAction, CommandReturns, workspace
<1>7. QED
  BY <1>2, <1>3, <1>4, <1>5, <1>6 DEF Next

(* What bash runs and what is read out of the proto area. *)
LEMMA NextOriginAt ==
    ASSUME IInv, OriginInv, Next, NEW q \in Procs
    PROVE  OriginAt(q)'
<1>1. /\ trouble => trouble'
      /\ \A c : Started(c) => Started(c)'
      /\ \A f, c : Installed(f, c) => Installed(f, c)'
  BY OriginsStay
<1>2. OriginAt(q)
  BY DEF OriginInv
<1>3. ASSUME \/ manifest'[q] = manifest[q] /\ spec'[q] = spec[q]
             \/ manifest'[q] = <<>>,
             todo'[q] \subseteq todo[q],
             running'[q] = running[q] \/ running'[q] = Absent,
             overlapped'[q] => overlapped[q] \/ trouble'
      PROVE  OriginAt(q)'
  <2>1. overlapped'[q] => trouble'
    BY <1>1, <1>2, <1>3 DEF OriginAt
  <2>2. ASSUME running'[q] \in Runs
        PROVE  /\ Started(running[q])'
               /\ todo'[q] \subseteq InstallsOf[running'[q].spec]
    <3>1. running'[q] = running[q]
      BY <1>3, <2>2, ContentsDistinct
    <3>2. Started(running[q]) /\ todo[q] \subseteq InstallsOf[running[q].spec]
      BY <1>2, <2>2, <3>1 DEF OriginAt
    <3>3. Started(running[q])'
      <4>1. Started(running'[q])
        BY <3>1, <3>2
      <4>2. PICK c : c = running[q]
        OBVIOUS
      <4>3. Started(c)'
        BY <1>1, <3>2, <4>2
      <4>4. QED
        BY <3>1, <4>2, <4>3 DEF Started
    <3>4. QED
      BY <1>3, <3>1, <3>2, <3>3
  <2>3. running'[q] = Torn => trouble'
    BY <1>1, <1>2, <1>3, ContentsDistinct DEF OriginAt
  <2>4. ASSUME NEW i \in 1..Len(manifest'[q]), MyFiles(q)'[i].slashes <= 1
        PROVE  Installed(manifest[q][i].path, manifest[q][i].payload)'
    <3>0. manifest'[q] = manifest[q] /\ spec'[q] = spec[q]
      BY <1>3
    <3>1. Installed(manifest[q][i].path, manifest[q][i].payload)
      BY <1>2, <2>4, <3>0 DEF OriginAt, MyFiles
    <3>2. PICK f, c : f = manifest[q][i].path /\ c = manifest[q][i].payload
      OBVIOUS
    <3>3. Installed(f, c)'
      BY <1>1, <3>1, <3>2
    <3>4. QED
      BY <3>0, <3>2, <3>3 DEF Installed, Started
  <2>5. QED
    BY <2>1, <2>2, <2>3, <2>4 DEF OriginAt
<1>4. ASSUME NEW p \in Procs, NEW s \in Specs, RunCommand(p, s)
      PROVE  OriginAt(q)'
  <2>1. /\ trouble' = (trouble \/ \E r \in Procs \ {p} : Active(r))
        /\ overlapped'[q] = IF q = p THEN \E r \in Procs \ {p} : Active(r)
                                     ELSE overlapped[q] \/ Active(q)
    BY <1>4 DEF RunCommand
  <2>2. overlapped'[q] => overlapped[q] \/ trouble'
    BY <2>1 DEF IInv, TypeOK
  <2>3. todo'[q] = todo[q] /\ running'[q] = running[q]
    BY <1>4 DEF RunCommand
  <2>4. \/ manifest'[q] = manifest[q] /\ spec'[q] = spec[q]
        \/ manifest'[q] = <<>>
    BY <1>4 DEF RunCommand, IInv, TypeOK
  <2>5. QED
    BY <1>3, <2>2, <2>3, <2>4
<1>5. ASSUME SpawnBash(q) PROVE OriginAt(q)'
  <2>1. /\ running'[q] = script /\ manifest' = manifest /\ spec' = spec
        /\ overlapped' = overlapped /\ trouble' = trouble /\ runNo' = runNo
    BY <1>5 DEF SpawnBash, IInv, TypeOK
  <2>2. ASSUME script \in Runs
        PROVE  todo'[q] = InstallsOf[script.spec] /\ Started(script)
    <3>1. script # Torn
      BY <2>2, ContentsDistinct
    <3>2. Started(script)
      BY <2>2 DEF OriginInv, ScriptOrigin
    <3>3. QED
      BY <1>5, <2>2, <3>1, <3>2 DEF SpawnBash, IInv, TypeOK
  <2>3. running'[q] = Torn => trouble'
    BY <2>1 DEF OriginInv, ScriptOrigin
  <2>4. ASSUME running'[q] \in Runs
        PROVE  /\ Started(running[q])'
               /\ todo'[q] \subseteq InstallsOf[running'[q].spec]
    BY <2>1, <2>2, <2>4 DEF Started
  <2>5. QED
    BY <1>2, <2>1, <2>3, <2>4 DEF OriginAt, MyFiles, Installed, Started
<1>6. ASSUME BashRereads(q) PROVE OriginAt(q)'
  <2>1. /\ running'[q] = Torn /\ manifest' = manifest /\ spec' = spec
        /\ overlapped' = overlapped /\ trouble' = trouble /\ runNo' = runNo
        /\ pc[q] = "build" /\ running[q] # script
    BY <1>6 DEF BashRereads, IInv, TypeOK
  <2>2. Active(q) /\ ~Alone(q)
    BY <2>1 DEF Active, IInv, BuildInv, BuildAt
  <2>3. trouble'
    BY <2>1, <2>2, NotAlone DEF IInv
  <2>4. Torn \notin Runs
    BY ContentsDistinct
  <2>5. QED
    BY <1>2, <2>1, <2>3, <2>4 DEF OriginAt, MyFiles, Installed, Started
<1>7. ASSUME ReadFile(q) PROVE OriginAt(q)'
  <2>. DEFINE e == MyFiles(q)[k[q]]
              new == [path |-> e.path, payload |-> ReadFrom(e)]
  <2>1. /\ manifest'[q] = Append(manifest[q], new) /\ spec' = spec
        /\ running' = running /\ todo' = todo
        /\ overlapped' = overlapped /\ trouble' = trouble /\ runNo' = runNo
        /\ pc[q] = "package" /\ ReadFrom(e) # Absent
        /\ k[q] <= Len(MyFiles(q)) /\ manifest[q] \in Seq(FileActions)
    BY <1>7 DEF ReadFile, IInv, TypeOK
  <2>2. e \in Entries /\ e.path \in Paths
    <3>1. TypesAt(q)
      BY ProcTypes DEF IInv
    <3>2. e \in Entries
      BY <2>1, <3>1 DEF TypesAt
    <3>3. QED
      BY <3>2 DEF Entries
  <2>3. e.slashes <= 1 => Installed(new.path, new.payload)
    BY <2>1, <2>2 DEF ReadFrom, OriginInv, ProtoOrigin
  <2>4. Len(manifest[q]) = k[q] - 1 /\ Len(manifest[q]) \in Nat
    BY <2>1 DEF IInv, ManifestInv, ManifestAt
  <2>5. ASSUME NEW i \in 1..Len(manifest'[q]), MyFiles(q)[i].slashes <= 1
        PROVE  Installed(manifest'[q][i].path, manifest'[q][i].payload)
    <3>. HIDE DEF new
    <3>1. Len(manifest'[q]) = Len(manifest[q]) + 1
      BY <2>1
    <3>2. CASE i \in 1..Len(manifest[q])
      <4>1. manifest'[q][i] = manifest[q][i]
        BY <2>1, <3>2
      <4>2. QED
        BY <1>2, <2>5, <3>2, <4>1 DEF OriginAt
    <3>3. CASE i = Len(manifest[q]) + 1
      <4>1. manifest'[q][i] = new /\ i = k[q]
        BY <2>1, <2>4, <3>3 DEF IInv, TypeOK
      <4>2. QED
        BY <2>3, <2>5, <4>1
    <3>4. QED
      BY <2>4, <3>1, <3>2, <3>3
  <2>6. QED
    BY <1>2, <2>1, <2>5 DEF OriginAt, MyFiles, Installed, Started
<1>8. ASSUME NEW p \in Procs, Step(p),
             q = p => ~SpawnBash(q) /\ ~BashRereads(q) /\ ~ReadFile(q)
      PROVE  OriginAt(q)'
  <2>1. manifest'[q] = manifest[q]
    BY <1>8 DEF Step, Fetch, Copy, SourcesReady, UnpackSource, ExpandMacros,
       CreateScript, WriteScript, SpawnBash, BashRereads, Install, BashExits,
       ReadFile, RestoreCwd, PrintAction, CommandReturns, Abort, IInv, TypeOK
  <2>2. spec'[q] = spec[q] /\ overlapped'[q] = overlapped[q]
    BY <1>8 DEF Step, Fetch, Copy, SourcesReady, UnpackSource, ExpandMacros,
       CreateScript, WriteScript, SpawnBash, BashRereads, Install, BashExits,
       ReadFile, RestoreCwd, PrintAction, CommandReturns, Abort, IInv, TypeOK
  <2>3. todo'[q] \subseteq todo[q]
    BY <1>8 DEF Step, Fetch, Copy, SourcesReady, UnpackSource, ExpandMacros,
       CreateScript, WriteScript, SpawnBash, BashRereads, Install, BashExits,
       ReadFile, RestoreCwd, PrintAction, CommandReturns, Abort, IInv, TypeOK
  <2>4. running'[q] = running[q] \/ running'[q] = Absent
    BY <1>8 DEF Step, Fetch, Copy, SourcesReady, UnpackSource, ExpandMacros,
       CreateScript, WriteScript, SpawnBash, BashRereads, Install, BashExits,
       ReadFile, RestoreCwd, PrintAction, CommandReturns, Abort, IInv, TypeOK
  <2>5. QED
    BY <1>3, <2>1, <2>2, <2>3, <2>4
<1>9. QED
  BY <1>4, <1>5, <1>6, <1>7, <1>8 DEF Next

(* OriginInv holds of every reachable state. *)
LEMMA OriginInvariance == Spec => []OriginInv
<1>1. Init => OriginInv
  <2>1. ASSUME Init PROVE ScriptOrigin /\ ProtoOrigin
    BY <2>1, ContentsDistinct DEF Init, ScriptOrigin, ProtoOrigin
  <2>2. ASSUME Init, NEW p \in Procs PROVE OriginAt(p)
    BY <2>2, ContentsDistinct DEF Init, OriginAt
  <2>3. QED
    BY <2>1, <2>2 DEF OriginInv
<1>2. IInv /\ OriginInv /\ [Next]_vars => OriginInv'
  <2>. SUFFICES ASSUME IInv, OriginInv, [Next]_vars PROVE OriginInv'
    OBVIOUS
  <2>1. CASE Next
    BY <2>1, NextScriptOrigin, NextProtoOrigin, NextOriginAt DEF OriginInv
  <2>2. CASE UNCHANGED vars
    <3>1. ScriptOrigin' /\ ProtoOrigin'
      BY <2>2 DEF OriginInv, vars, ScriptOrigin, ProtoOrigin, Installed,
         Started
    <3>2. \A p \in Procs : OriginAt(p)'
      BY <2>2 DEF OriginInv, vars, OriginAt, MyFiles, Installed, Started
    <3>3. QED
      BY <3>1, <3>2 DEF OriginInv
  <2>3. QED
    BY <2>1, <2>2
<1>3. QED
  BY <1>1, <1>2, Invariance, PTL DEF Spec

(***************************************************************************)
(* Whatever number of commands share the workspace and however they        *)
(* interleave, fail or are killed, every file of the proto area that       *)
(* Workspace::package prints was installed under its path by the build     *)
(* script of a command that was started, unless commands overlapped or     *)
(* were stopped: then it may be torn, but nothing else.                    *)
(***************************************************************************)
THEOREM PrintedFilesHaveOrigin == Spec => []Provenance
<1>1. IInv /\ OriginInv => Provenance
  <2>. SUFFICES ASSUME IInv, OriginInv, NEW p \in Procs,
                       NEW i \in 1..Len(output[p]),
                       MyFiles(p)[i].slashes <= 1
                PROVE  Installed(output[p][i].path, output[p][i].payload)
    BY DEF Provenance
  <2>1. i \in 1..Len(manifest[p]) /\ output[p][i] = manifest[p][i]
    BY DEF IInv, TypeOK, OutputInv, OutputAt
  <2>2. QED
    BY <2>1 DEF OriginInv, OriginAt
<1>2. QED
  BY <1>1, Invariance, OriginInvariance, PTL

-----------------------------------------------------------------------------
(* Ports implements Packaging. *)

(* A step that leaves alone what shows outside is a stuttering step. *)
LEMMA Hidden ==
    ASSUME \A p \in Procs : /\ pc'[p] = "idle" <=> pc[p] = "idle"
                            /\ pc'[p] = "print" <=> pc[p] = "print"
                            /\ pc[p] = "print" => manifest'[p] = manifest[p],
           UNCHANGED <<runNo, spec, output, result, overlapped>>
    PROVE  UNCHANGED Abstract!vars
<1>1. Phase' = Phase
  BY DEF Phase
<1>2. Chosen' = Chosen
  BY DEF Chosen
<1>3. QED
  BY <1>1, <1>2 DEF Abstract!vars

(* The commands start as Packaging has them start. *)
LEMMA InitPackaging == Init => Abstract!Init
<1> SUFFICES ASSUME Init PROVE Abstract!Init
  OBVIOUS
<1>1. Phase = [p \in Procs |-> "idle"] /\ Chosen = [p \in Procs |-> <<>>]
  BY DEF Init, Phase, Chosen
<1>2. spec \in [Procs -> Specs]
  BY InitIInv DEF IInv, TypeOK
<1>3. QED
  BY <1>1, <1>2 DEF Init, Abstract!Init

(* RunCommand is Start. *)
LEMMA RunCommandStarts ==
    ASSUME IInv, NEW p \in Procs, NEW s \in Specs, RunCommand(p, s)
    PROVE  Abstract!Start(p, s)
<1>1. pc[p] = "idle" /\ pc' = [pc EXCEPT ![p] = "get"] /\ pc \in [Procs -> Labels]
  BY DEF RunCommand, IInv, TypeOK
<1>2. Phase' = [Phase EXCEPT ![p] = "working"]
  BY <1>1 DEF Phase
<1>3. Chosen' = Chosen
  <2>1. \A q \in Procs : q # p => manifest'[q] = manifest[q] /\ pc'[q] = pc[q]
    BY <1>1 DEF RunCommand, IInv, TypeOK
  <2>2. QED
    BY <1>1, <2>1 DEF Chosen
<1>4. \A q \in Procs : Abstract!Active(q) <=> Active(q)
  BY DEF Abstract!Active, Active, Phase
<1>5. ~Abstract!Active(p)
  BY <1>1, <1>4 DEF Active
<1>6. overlapped' = [q \in Procs |->
                        IF q = p THEN \E r \in Procs \ {p} : Abstract!Active(r)
                                 ELSE overlapped[q] \/ Abstract!Active(q)]
  BY <1>4 DEF RunCommand
<1>7. QED
  BY <1>2, <1>3, <1>5, <1>6 DEF RunCommand, Abstract!Start

(* RestoreCwd is Settle: by the invariant the manifest has an action for   *)
(* every entry, and its own payloads if the command was alone.             *)
LEMMA RestoreCwdSettles ==
    ASSUME IInv, NEW p \in Procs, RestoreCwd(p)
    PROVE  Abstract!Settle(p)
<1> DEFINE n == Len(FilesOf[spec[p]])
           c == [i \in 1..n |-> manifest[p][i].payload]
<1>1. /\ manifest[p] \in Seq(FileActions)
      /\ n \in Nat
      /\ Len(manifest[p]) = n
      /\ \A i \in 1..n : GoodEntry(p, i)
  <2>1. /\ manifest[p] \in Seq(FileActions)
        /\ spec[p] \in Specs
        /\ k[p] \in Nat
    BY DEF IInv, TypeOK
  <2>2. n \in Nat
    BY <2>1, ConstantTypes
  <2>3. /\ Len(manifest[p]) = k[p] - 1
        /\ Len(manifest[p]) <= n
        /\ k[p] > n
        /\ \A i \in 1..Len(manifest[p]) : GoodEntry(p, i)
    BY DEF IInv, ManifestInv, ManifestAt, RestoreCwd, MyFiles
  <2>4. Len(manifest[p]) = n
    BY <2>1, <2>2, <2>3
  <2>5. QED
    BY <2>1, <2>2, <2>3, <2>4
<1>2. /\ manifest[p] = [i \in 1..n |-> manifest[p][i]]
      /\ \A i \in 1..n : manifest[p][i] \in FileActions
  <2>1. n \in Nat /\ Len(manifest[p]) = n /\ manifest[p] \in Seq(FileActions)
    BY <1>1
  <2> HIDE DEF n
  <2>2. QED
    BY <2>1
<1>3. c \in Abstract!Allowed(p)
  BY <1>1, <1>2
  DEF Abstract!Allowed, Abstract!List, Abstract!Build, GoodEntry, MyFiles,
      Run, FileActions
<1>4. manifest[p] = [i \in 1..n |-> [path |-> FilesOf[spec[p]][i].path,
                                     payload |-> c[i]]]
  <2>1. \A i \in 1..n :
          manifest[p][i] = [path |-> FilesOf[spec[p]][i].path, payload |-> c[i]]
    BY <1>1, <1>2 DEF GoodEntry, MyFiles, FileActions
  <2>2. QED
    BY <1>2, <2>1
<1>5. /\ pc[p] = "package" /\ pc' = [pc EXCEPT ![p] = "print"]
      /\ pc \in [Procs -> Labels] /\ manifest' = manifest
  BY DEF RestoreCwd, IInv, TypeOK
<1>6. Chosen' = [Chosen EXCEPT ![p] = manifest[p]]
  BY <1>5 DEF Chosen
<1>7. Phase[p] = "working" /\ Phase' = [Phase EXCEPT ![p] = "showing"]
  BY <1>5 DEF Phase
<1>8. QED
  BY <1>3, <1>4, <1>6, <1>7
  DEF RestoreCwd, Abstract!Settle, Abstract!List

(* PrintAction is Show. *)
LEMMA PrintActionShows ==
    ASSUME IInv, NEW p \in Procs, PrintAction(p)
    PROVE  Abstract!Show(p)
<1>1. /\ pc[p] = "print" /\ k[p] <= Len(manifest[p])
      /\ pc' = pc /\ manifest' = manifest
      /\ k[p] \in Nat /\ output \in [Procs -> Seq(FileActions)]
      /\ Len(output[p]) = k[p] - 1
  BY DEF PrintAction, IInv, TypeOK, OutputInv, OutputAt
<1>2. Phase[p] = "showing" /\ Phase' = Phase /\ Chosen' = Chosen
      /\ Chosen[p] = manifest[p]
  BY <1>1 DEF Phase, Chosen
<1>3. Len(output[p]) + 1 = k[p] /\ Len(output[p]) < Len(manifest[p])
  <2>1. Len(manifest[p]) \in Nat
    BY DEF IInv, TypeOK
  <2>2. QED
    BY <1>1, <2>1
<1>4. output' = [output EXCEPT ![p] = Append(@, Chosen[p][Len(@) + 1])]
  BY <1>2, <1>3 DEF PrintAction
<1>5. QED
  BY <1>2, <1>3, <1>4 DEF PrintAction, Abstract!Show

(* CommandReturns is Finish: all actions have been printed. *)
LEMMA CommandReturnsFinishes ==
    ASSUME IInv, NEW p \in Procs, CommandReturns(p)
    PROVE  Abstract!Finish(p)
<1>1. /\ pc[p] = "print" /\ k[p] > Len(manifest[p])
      /\ pc' = [pc EXCEPT ![p] = "idle"] /\ manifest' = manifest
      /\ pc \in [Procs -> Labels] /\ k[p] \in Nat
      /\ output[p] \in Seq(FileActions) /\ manifest[p] \in Seq(FileActions)
      /\ Len(output[p]) = k[p] - 1 /\ Len(output[p]) <= Len(manifest[p])
      /\ \A i \in 1..Len(output[p]) : output[p][i] = manifest[p][i]
  BY DEF CommandReturns, IInv, TypeOK, OutputInv, OutputAt
<1>2. output[p] = manifest[p]
  <2>1. Len(output[p]) = Len(manifest[p])
    BY <1>1
  <2>2. QED
    BY <1>1, <2>1
<1>3. Phase[p] = "showing" /\ Phase' = [Phase EXCEPT ![p] = "idle"]
  BY <1>1 DEF Phase
<1>4. Chosen[p] = manifest[p] /\ Chosen' = [Chosen EXCEPT ![p] = <<>>]
  BY <1>1 DEF Chosen
<1>5. QED
  BY <1>2, <1>3, <1>4 DEF CommandReturns, Abstract!Finish

(* Abort is Fail. *)
LEMMA AbortFails ==
    ASSUME IInv, NEW p \in Procs, Abort(p)
    PROVE  Abstract!Fail(p)
<1>1. /\ pc[p] # "idle" /\ pc' = [pc EXCEPT ![p] = "idle"]
      /\ pc \in [Procs -> Labels] /\ manifest' = manifest
  BY DEF Abort, Active, IInv, TypeOK
<1>2. Phase[p] # "idle" /\ Phase' = [Phase EXCEPT ![p] = "idle"]
  BY <1>1 DEF Phase
<1>3. Chosen' = [Chosen EXCEPT ![p] = <<>>]
  BY <1>1 DEF Chosen
<1>4. QED
  BY <1>2, <1>3 DEF Abort, Abstract!Fail, Abstract!Active

(* Every other step of a command is hidden: the command stays active, does *)
(* not start printing and prints nothing.                                  *)
LEMMA OtherStepsHidden ==
    ASSUME IInv, NEW p \in Procs, Step(p), ~RestoreCwd(p), ~PrintAction(p),
           ~CommandReturns(p), ~Abort(p)
    PROVE  UNCHANGED Abstract!vars
<1>1. UNCHANGED <<runNo, spec, output, result, overlapped>>
  BY DEF Step, Fetch, Copy, SourcesReady, UnpackSource, ExpandMacros,
         CreateScript, WriteScript, SpawnBash, BashRereads, Install,
         BashExits, ReadFile
<1>2. pc[p] \notin {"idle", "print"} /\ pc'[p] \notin {"idle", "print"}
  BY DEF IInv, TypeOK, Step, Fetch, Copy, SourcesReady, UnpackSource,
         ExpandMacros, CreateScript, WriteScript, SpawnBash, BashRereads,
         Install, BashExits, ReadFile
<1>3. \A q \in Procs \ {p} : pc'[q] = pc[q] /\ manifest'[q] = manifest[q]
  BY DEF IInv, TypeOK, Step, Fetch, Copy, SourcesReady, UnpackSource,
         ExpandMacros, CreateScript, WriteScript, SpawnBash, BashRereads,
         Install, BashExits, ReadFile
<1>4. QED
  BY <1>1, <1>2, <1>3, Hidden

(***************************************************************************)
(* Whatever the commands do to the workspace they share, a reader of their *)
(* output sees commands that settle on one allowed manifest before they    *)
(* print the first action of it, then print it in order, and that return   *)
(* Ok only after the last action: Workspace::package prints nothing while  *)
(* it still reads files, and a command stopped in println! leaves a        *)
(* beginning of the manifest and no success.                               *)
(***************************************************************************)
THEOREM RefinesPackaging == Spec => PackagingSafe
<1>1. IInv /\ [Next]_vars => [Abstract!Next]_(Abstract!vars)
  <2> SUFFICES ASSUME IInv, [Next]_vars
               PROVE  Abstract!Next \/ UNCHANGED Abstract!vars
    OBVIOUS
  <2>1. ASSUME NEW p \in Procs, NEW s \in Specs, RunCommand(p, s)
        PROVE  Abstract!Next
    BY <2>1, RunCommandStarts DEF Abstract!Next
  <2>2. ASSUME NEW p \in Procs, Step(p)
        PROVE  Abstract!Next \/ UNCHANGED Abstract!vars
    BY <2>2, RestoreCwdSettles, PrintActionShows, CommandReturnsFinishes,
       AbortFails, OtherStepsHidden
    DEF Abstract!Next, Abstract!Proceed
  <2>3. CASE UNCHANGED vars
    BY <2>3, Hidden DEF vars
  <2>4. QED
    BY <2>1, <2>2, <2>3 DEF Next
<1>2. QED
  BY InitPackaging, <1>1, Invariance, PTL
  DEF Spec, PackagingSafe, Abstract!Safety
=============================================================================
