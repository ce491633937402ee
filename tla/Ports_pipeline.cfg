\* Two shells, two commands each, no sources (what specfile::parse yields).
SPECIFICATION Spec
CONSTANTS
    p1 = p1
    p2 = p2
    s1 = s1
    s2 = s2
    u1 = u1
    u2 = u2
    u3 = u3
    n1 = n1
    n2 = n2
    f1 = f1
    f2 = f2
    Procs = {p1, p2}
    MaxRuns = 2
    Specs = {s1, s2}
    Urls = {u1}
    Names = {n1}
    Paths = {f1, f2}
    SourcesOf <- NoSources
    FilesOf <- PipelineFiles
    InstallsOf <- PipelineInstalls
    LocalName <- OneName
    Extractable = {n1}
    Absent = Absent
    Empty = Empty
    Torn = Torn
    ErrorPage = ErrorPage
    Host = Host
INVARIANTS
    TypeOK
    OwnPayloads
    ManifestComplete
    Provenance
PROPERTIES
    PackagingSafe
SYMMETRY Shells
CHECK_DEADLOCK FALSE
