\* Two shells, one command each, Workspace called with sources.
SPECIFICATION Spec
CONSTANTS
    p1 = p1
    p2 = p2
    s1 = s1
    s2 = s2
    u1 = u1
    u2 = u2
    u3 = u3
    n1 = n1
    n2 = n2
    f1 = f1
    f2 = f2
    Procs = {p1, p2}
    MaxRuns = 1
    Specs = {s1, s2}
    Urls = {u1, u2, u3}
    Names = {n1, n2}
    Paths = {f1}
    SourcesOf <- TwoSources
    FilesOf <- OneFile
    InstallsOf <- OneInstall
    LocalName <- CollidingNames
    Extractable = {n1, n2}
    Absent = Absent
    Empty = Empty
    Torn = Torn
    ErrorPage = ErrorPage
    Host = Host
INVARIANTS
    UnpackedDownloads
PROPERTIES
    ImplementsPackaging
CHECK_DEADLOCK FALSE
